----------------------------- MODULE MCReceiver -----------------------------
(***************************************************************************)
(* Receiver with three sessions, so that a third one replaces a session    *)
(* that still waits for the first; a queue of one frame fills up.          *)
(***************************************************************************)
EXTENDS Receiver

(* Sessions 1, 2, 3 are named in the order they connect and swap: every    *)
(* behaviour is one of these up to the names.  The context ends with at    *)
(* most two of the three connected.                                        *)
Scope ==
  /\ \A s, t \in Sessions :
       s < t => /\ pc[s] = "idle" => pc[t] = "idle"
                /\ ticket[t] # 0 => ticket[s] \in 1 .. ticket[t]
  /\ cancelled => \E s \in Sessions : pc[s] = "idle"
=============================================================================
