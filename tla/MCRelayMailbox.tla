--------------------------- MODULE MCRelayMailbox ---------------------------
(***************************************************************************)
(* RelayMailbox on one mailbox.  m1 and m2 come from one sender and differ  *)
(* in seq; m3 and m4 come from two others and have the seq of m1, as the    *)
(* seqs of different senders are not coordinated.                           *)
(***************************************************************************)
EXTENDS RelayMailbox, TLC

CONSTANTS m1, m2, m3, m4, alice, bob, dave, carol

MCRecipientOf == [m \in Msgs |-> carol]
MCSenderOf ==
    [m \in Msgs |-> CASE m = m3 -> bob [] m = m4 -> dave [] OTHER -> alice]
MCSeqOf == [m \in Msgs |-> IF m = m2 THEN 2 ELSE 1]

\* Handlers are interchangeable: no property names one.
HandlerSymmetry == Permutations(Handlers)
=============================================================================
