------------------------- MODULE MCDhtRegistration --------------------------
(***************************************************************************)
(* The DHT node, either with two connections on which the network delivers *)
(* requests, or with one client that calls dht_register several times;     *)
(* records expire, statements fail and the node restarts in both.          *)
(***************************************************************************)
EXTENDS DhtRegistration, MCDhtNode

CONSTANT MaxDelivered   \* bound: requests the network delivers

VARIABLE scenario

DhtInit == RegInit /\ scenario \in {"network", "client"}

DhtNext ==
    /\ UNCHANGED scenario
    /\ \/ /\ scenario = "network"
          /\ Next /\ arrived' <= MaxDelivered
          /\ UNCHANGED clientVars
       \/ scenario = "client" /\ RegNext

DhtSpec == DhtInit /\ [][DhtNext]_<<allVars, scenario>>
=============================================================================
