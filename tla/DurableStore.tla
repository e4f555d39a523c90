--------------------------- MODULE DurableStore ----------------------------
(***************************************************************************)
(* What the configuration store promises: a value in memory, and a durable *)
(* copy of it that is only ever replaced as a whole by the value memory    *)
(* holds at that moment.  A crash loses memory and nothing else; a restart *)
(* finds the durable copy, or starts afresh if there is none.              *)
(***************************************************************************)
CONSTANTS Values, Fresh, None

VARIABLES
  running,
  volatile,  \* the value in memory
  durable    \* the durable copy, None if there is none

vars == <<running, volatile, durable>>

Init ==
  /\ running = TRUE /\ volatile = Fresh /\ durable = None

Change ==
  /\ running
  /\ volatile' \in Values
  /\ UNCHANGED <<running, durable>>

Sync ==
  /\ running
  /\ durable' = volatile
  /\ UNCHANGED <<running, volatile>>

Crash ==
  /\ running
  /\ running' = FALSE
  /\ volatile' = Fresh
  /\ UNCHANGED durable

Restart ==
  /\ ~running
  /\ running' = TRUE
  /\ volatile' = IF durable = None THEN Fresh ELSE durable
  /\ UNCHANGED durable

Next == Change \/ Sync \/ Crash \/ Restart

Spec == Init /\ [][Next]_vars
=============================================================================
