-------------------------- MODULE MCClientDelivery --------------------------
(***************************************************************************)
(* ClientDelivery for two users.  Three messages are the fewest that let a  *)
(* conversation be opened, answered and go on; a lost answer, a killed read *)
(* and sessions that cross need two.                                        *)
(***************************************************************************)
EXTENDS ClientDelivery
=============================================================================
