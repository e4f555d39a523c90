--------------------------- MODULE MCProStreamer ---------------------------
(***************************************************************************)
(* ProStreamer with two run goroutines, so that a stream follows a stopped *)
(* one, two pairings, a pairing change and a fault.  Runs and pairings are *)
(* interchangeable; as symmetry reduction is unsound for liveness, the     *)
(* specification fixes which run is started first and which pairing the    *)
(* process starts with.                                                    *)
(***************************************************************************)
EXTENDS ProStreamer

CONSTANTS FirstRun, FirstTarget

ASSUME FirstAssumption == FirstRun \in Runs /\ FirstTarget \in Targets

(* Only the lamps of the first pairing may be missing, and only its area   *)
(* may be left over from an earlier process.                               *)
MCInit ==
  /\ Init
  /\ target \in {FirstTarget, NoTarget}
  /\ usable \cup {FirstTarget} = Targets
  /\ leaked \subseteq {FirstTarget}

MCNext ==
  /\ Next
  /\ pc'[FirstRun] = "new" => \A r \in Runs : pc'[r] = "new"
  /\ usable' \cup {FirstTarget} = Targets

MCSpec == MCInit /\ [][MCNext]_vars /\ Fairness
=============================================================================
