------------------------------ MODULE MCParts ------------------------------
(***************************************************************************)
(* The parts of the system that share no state with each other, checked in *)
(* one run.  A behaviour is about one part, which is chosen at the start;  *)
(* the others stay in their initial state, so the state spaces add up and  *)
(* do not multiply.                                                        *)
(***************************************************************************)
EXTENDS MCRelayAdmission, MCFederation, ClientHome, PeerManager, RateLimits,
        PinCache, CertCache, BotLog, Handshake, Braid, Padding, BootstrapIdentity

CONSTANTS lets, other, c1, c2, none

MCSeedCerts == {[fp |-> 1, names |-> {<<"seed", "gnoppix", "org">>}, issuer |-> lets],
                [fp |-> 2, names |-> {<<"gnoppix", "com">>, <<"x">>}, issuer |-> lets],
                [fp |-> 3, names |-> {<<"gnoppix", "org", "x">>}, issuer |-> lets],
                [fp |-> 4, names |-> {<<"gnoppix", "org">>}, issuer |-> other]}
MCTrustedDomains == {<<"gnoppix", "org">>, <<"gnoppix", "com">>}

\* Seven nonces: some solve the hello, some the answer to one challenge, some
\* solve an easier puzzle only, and two are above the limit.
MCZeros == [c \in {c1, c2, none} |->
              CASE c = none -> [n \in 0..6 |-> IF n \in {1, 6} THEN 3 ELSE n % 3]
                [] c = c1   -> [n \in 0..6 |-> IF n \in {2, 4} THEN 3 ELSE 0]
                [] c = c2   -> [n \in 0..6 |-> 0]]

\* The second key is not a multiple of the chunk size.
MCKeys == {<<1, 2, 3, 4>>, <<5, 0, 6, 7, 8>>}

VARIABLE active

partVars == <<active, admissionVars, fedVars, homeVars, pmVars, rateVars, pinVars, certVars, logVars,
              handVars, braidVars, padVars, bootVars>>

PartsInit ==
    /\ active \in {"admission", "federation", "home", "peers", "rates", "pins", "certs", "botlog",
                   "handshake", "braid", "padding", "bootstrap"}
    /\ AdmissionInit /\ FedInit /\ HomeInit /\ PmInit /\ RateInit /\ PinInit /\ CertInit /\ LogInit
    /\ HandInit /\ BraidInit /\ PadInit /\ BootInit
    /\ active # "rates" => limiter = "dht"
    /\ active # "federation" => phase = [r \in Relays |-> 0]

PartsNext ==
    /\ UNCHANGED active
    /\ \/ active = "admission" /\ AdmissionNext
       \/ active # "admission" /\ UNCHANGED admissionVars
    /\ \/ active = "federation" /\ FedNext
       \/ active # "federation" /\ UNCHANGED fedVars
    /\ \/ active = "home" /\ HomeNext
       \/ active # "home" /\ UNCHANGED homeVars
    /\ \/ active = "peers" /\ PmNext
       \/ active # "peers" /\ UNCHANGED pmVars
    /\ \/ active = "rates" /\ RateNext
       \/ active # "rates" /\ UNCHANGED rateVars
    /\ \/ active = "pins" /\ PinNext
       \/ active # "pins" /\ UNCHANGED pinVars
    /\ \/ active = "certs" /\ CertNext
       \/ active # "certs" /\ UNCHANGED certVars
    /\ \/ active = "botlog" /\ LogNext
       \/ active # "botlog" /\ UNCHANGED logVars
    /\ \/ active = "handshake" /\ HandNext
       \/ active # "handshake" /\ UNCHANGED handVars
    /\ \/ active = "braid" /\ BraidNext
       \/ active # "braid" /\ UNCHANGED braidVars
    /\ \/ active = "padding" /\ PadNext
       \/ active # "padding" /\ UNCHANGED padVars
    /\ \/ active = "bootstrap" /\ BootNext
       \/ active # "bootstrap" /\ UNCHANGED bootVars

PartsSpec == PartsInit /\ [][PartsNext]_partVars
=============================================================================
