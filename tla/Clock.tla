-------------------------------- MODULE Clock --------------------------------
(* The wall clock of the API process (Date.now()), which moves at any time and  *)
(* in whole units.  It is all that the modules extending this one have in       *)
(* common.                                                                      *)
EXTENDS Integers

CONSTANT Horizon   \* bound on the clock
ASSUME HorizonAssumption == Horizon \in Nat

VARIABLE now

Tick == now < Horizon /\ now' = now + 1
=============================================================================
