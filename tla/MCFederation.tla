---------------------------- MODULE MCFederation ----------------------------
(* Two relays, one of which was given the other as a peer, and one null id. *)
EXTENDS Federation
CONSTANTS r1, r2
MCRelays == {r1, r2}
MCAllowRelay == {r1, r2}
MCConfigured == {<<r1, r2>>}
=============================================================================
