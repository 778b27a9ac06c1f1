----------------------------- MODULE MCDhtNode ------------------------------
(***************************************************************************)
(* DhtNode with two null ids and room for one.  Nonces number the requests; *)
(* the put with nonce 2 asks for more than STORE_TTL, the address record 3  *)
(* for nothing at all.                                                      *)
(***************************************************************************)
EXTENDS DhtNode

CONSTANTS alice, bob

Put(k, s, n, t) ==
    [op |-> "put", key |-> k, seq |-> s, nonce |-> n, ttl |-> t, valid |-> TRUE]
Addr(k, n, t) ==
    [op |-> "addr", key |-> k, nonce |-> n, ttl |-> t, valid |-> TRUE]

MCRequests ==
    {Put(alice, 0, 1, 1), Put(alice, 2, 2, 2), Addr(alice, 3, 0),
     [op |-> "get", key |-> alice],
     Put(bob, 0, 1, 1), [Put(alice, 3, 4, 1) EXCEPT !.valid = FALSE]}

\* Two writers of one key are enough to race.
RaceRequests == {Put(alice, 1, 1, 1), Put(alice, 2, 2, 1)}
=============================================================================
