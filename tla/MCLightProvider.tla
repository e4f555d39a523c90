-------------------------- MODULE MCLightProvider --------------------------
(***************************************************************************)
(* LightProvider with two lights, both offered by the Pro, and two         *)
(* goroutine identities.  The identities are interchangeable: as symmetry  *)
(* reduction is unsound for liveness, the specification gives a new        *)
(* goroutine the first identity whenever that one is free.                 *)
(***************************************************************************)
EXTENDS LightProvider

CONSTANTS FirstDrain, FirstLight

ASSUME FirstAssumption == FirstDrain \in Drains /\ FirstLight \in Lights

(* cur has no meaning before its goroutine runs.                           *)
MCInit == Init /\ \A d \in Drains : cur[d].light = FirstLight

MCNext ==
  /\ Next
  /\ \A d \in Drains \ {FirstDrain} :
       drain[d] = "off" /\ drain'[d] # "off" => drain[FirstDrain] # "off"

MCSpec == MCInit /\ [][MCNext]_vars /\ Fairness
=============================================================================
