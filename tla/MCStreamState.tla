--------------------------- MODULE MCStreamState ---------------------------
(***************************************************************************)
(* StreamState on small instances, with two history variables for the      *)
(* properties that only hold of requests served one at a time.  Two        *)
(* request slots let any two handlers interleave; five bounded inputs are  *)
(* enough for activate, time out, recover, activate and stream up, in any  *)
(* order, with a deactivation.                                             *)
(***************************************************************************)
EXTENDS StreamState

VARIABLES
  overlapped,  \* two requests were in progress at the same time
  lastBody     \* the body of the PUT that arrived last

mcVars == <<vars, overlapped, lastBody>>

MCInit == Init /\ overlapped = FALSE /\ lastBody = "none"

Serving == {h \in Handlers : pc[h] # "idle"}
Arrived == {h \in Handlers : pc[h] = "idle" /\ pc'[h] = "recover"}

MCNext ==
  /\ Next
  /\ overlapped' = (overlapped \/ \E h, k \in Serving' : h # k)
  /\ lastBody' = IF Arrived = {} THEN lastBody ELSE want'[CHOOSE h \in Arrived : TRUE]

MCSpec == MCInit /\ [][MCNext]_mcVars /\ Fairness

(* Requests one at a time: once a deactivation was answered (confirmed, or *)
(* only acknowledged because of the fallback) no watchdog is left that     *)
(* could latch the fallback: "a deactivation cancels any pending watchdog".*)
DeactivationCancels ==
  ~overlapped /\ Serving = {} /\ lastBody = "deactivate" => ~watching

(* Requests one at a time: an activation armed with no stream up ends in a *)
(* stream, in the fallback or in a deactivation; the lights are not left   *)
(* unfollowed.                                                             *)
ArmedActivationResolves ==
  (watching /\ active) ~> (streamUp \/ fallback \/ ~active \/ overlapped)
=============================================================================
