-------------------------- MODULE MCRelayAdmission --------------------------
(***************************************************************************)
(* RelayAdmission on one fingerprint.  fetch and ackReq use one nonce, and *)
(* have one remembered key; ackReq, purge and forward need a certificate   *)
(* that only the others bring.  `skewed' is stamped by a clock ahead of    *)
(* the relay's, `bad' has a wrong HMAC, `unsigned' a wrong signature.      *)
(***************************************************************************)
EXTENDS RelayAdmission, TLC

CONSTANTS store, skewed, sealed, forward, fetch, ackReq, bad,
    purge, unsigned, alice, n1, n2, n3

MCKindOf ==
    [q \in Reqs |-> CASE q = sealed -> "sealed"
                      [] q = forward -> "forward"
                      [] q \in {fetch, bad} -> "fetch"
                      [] q = ackReq -> "ack"
                      [] q = purge -> "purge"
                      [] OTHER -> "store"]
MCFpOf == [q \in Reqs |-> alice]
MCNonceOf ==
    [q \in Reqs |-> CASE q \in {store, forward, purge} -> n1
                      [] q \in {fetch, ackReq, sealed} -> n2
                      [] OTHER -> n3]
MCStampOf ==
    [q \in Reqs |-> CASE q = skewed -> 2
                      [] q \in {fetch, ackReq, purge} -> 3
                      [] q = sealed -> 4
                      [] OTHER -> 0]
MCSigned == Reqs \ {unsigned}
MCMaced == Reqs \ {bad}
MCEligible == Reqs
MCCertified == Reqs \ {ackReq}

\* Handlers are interchangeable: no property names one.
HandlerSymmetry == Permutations(Handlers)
=============================================================================
