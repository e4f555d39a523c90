---------------------------- MODULE ProStreamer ----------------------------
(***************************************************************************)
(* relume-tv's own entertainment stream to the Hue Bridge Pro              *)
(* (internal/entertainment/streamer.go): Start and Stop, the run goroutine *)
(* that establishes the DTLS path and falls back to REST, and teardown.    *)
(*                                                                         *)
(* Stop is called by the receiver (Recv), which brackets Start and Stop    *)
(* one session after another (module Receiver), and once by main (Main)    *)
(* when the process shuts down, while the receiver's last handler may      *)
(* still be stopping.  Each Start creates a run goroutine r.               *)
(*                                                                         *)
(* The Pro is external: area[t] says whether relume-tv's entertainment     *)
(* area on the Pro at target t is active.  A REST call to it is "ok",      *)
(* "refused" (error, nothing done) or "lost" (done, but the answer never   *)
(* came).  Starting an active area is always refused.  Colours and frames  *)
(* are left out.                                                           *)
(***************************************************************************)
EXTENDS Naturals, FiniteSets

CONSTANTS
  Recv, Main, \* the two callers of Stop
  Runs,       \* run goroutines (bound: each is started once)
  NoRun,
  Targets,    \* Pro pairings that resolve may return
  NoTarget,   \* no usable pairing
  MaxFaults,  \* bound: failing calls and sends in a behaviour
  MaxMoves    \* bound: changes of the pairing and of the lamps in a behaviour

Callers == {Recv, Main}
Procs == Runs \cup Callers

ASSUME StreamerAssumption ==
  /\ Recv # Main /\ Recv \notin Runs /\ Main \notin Runs
  /\ NoRun \notin Runs /\ NoTarget \notin Targets
  /\ MaxFaults \in Nat /\ MaxMoves \in Nat

VARIABLES
  pc,         \* program counter of each goroutine
  held,       \* the run whose cancel and done the streamer holds
  joins,      \* the run a Stop cancels and waits for, per caller
  cancelled,  \* runs whose context is cancelled
  dialled,    \* the target each run resolved (its local pro)
  st,         \* s.st: conn, pro (with configID) and path
  taken,      \* what a teardown took out of s.st
  open,       \* runs whose DTLS connection to the Pro is open
  target,     \* the pairing resolve returns now
  usable,     \* targets with a lamp of the TV's zone that a channel can be mapped to
  moves,      \* number of changes of these two
  area,       \* the Pro's areas (external)
  faults,     \* number of faults
  exiting,    \* the process context is done
  exited,     \* main has returned
  leaked      \* history: areas active through a failed call or an earlier process

streamerVars == <<held, joins, cancelled, dialled, taken>>
proVars == <<area, faults, leaked>>
envVars == <<target, usable, moves, exiting, exited>>
vars == <<pc, streamerVars, st, open, proVars, envVars>>

RunSteps == {"new", "loop", "ensure", "start", "stopLeft", "restart", "dial",
             "undial", "store", "send", "sleep", "done"}
StopSteps == {"cancel", "join", "teardown", "close", "stopStream"}
CallerSteps == {"idle", "up", "serving", "stopped"}

Holding == [conn : Runs \cup {NoRun}, pro : Targets \cup {NoTarget}]
Nothing == [conn |-> NoRun, pro |-> NoTarget]

(* StopStream is never called through a nil client.                        *)
TypeOK ==
  /\ pc \in [Procs -> RunSteps \cup StopSteps \cup CallerSteps]
  /\ held \in Runs \cup {NoRun}
  /\ joins \in [Callers -> Runs \cup {NoRun}]
  /\ cancelled \in SUBSET Runs
  /\ dialled \in [Runs -> Targets \cup {NoTarget}]
  /\ st \in [conn : Runs \cup {NoRun}, pro : Targets \cup {NoTarget},
             path : {"dtls", "rest"}]
  /\ taken \in [Procs -> Holding]
  /\ open \in SUBSET Runs
  /\ target \in Targets \cup {NoTarget}
  /\ usable \in SUBSET Targets
  /\ moves \in 0 .. MaxMoves
  /\ area \in [Targets -> BOOLEAN]
  /\ faults \in 0 .. MaxFaults
  /\ exiting \in BOOLEAN /\ exited \in BOOLEAN
  /\ leaked \in SUBSET Targets
  /\ \A p \in Procs : pc[p] = "stopStream" => taken[p].pro \in Targets

(* An earlier process may have left areas active.                          *)
Init ==
  /\ pc = [p \in Procs |-> CASE p \in Runs -> "new"
                             [] p = Recv -> "idle"
                             [] p = Main -> "serving"]
  /\ held = NoRun
  /\ joins = [c \in Callers |-> NoRun]
  /\ cancelled = {}
  /\ dialled = [r \in Runs |-> NoTarget]
  /\ st = [conn |-> NoRun, pro |-> NoTarget, path |-> "rest"]
  /\ taken = [p \in Procs |-> Nothing]
  /\ open = {}
  /\ target \in Targets \cup {NoTarget}
  /\ usable \in SUBSET Targets
  /\ moves = 0
  /\ area \in [Targets -> BOOLEAN]
  /\ faults = 0
  /\ exiting = FALSE /\ exited = FALSE
  /\ leaked = {t \in Targets : area[t]}

Goto(p, step) == pc' = [pc EXCEPT ![p] = step]

-----------------------------------------------------------------------------
(* The Pro's REST interface (external).                                    *)

CanFail == faults < MaxFaults
Fault == CanFail /\ faults' = faults + 1
NoFault == UNCHANGED faults

(* PUT action start: success reports a nil error.  A lost answer leaves an *)
(* area active that the caller takes for stopped.                          *)
ProStart(t, success) ==
  \/ /\ success /\ ~area[t] /\ NoFault
     /\ area' = [area EXCEPT ![t] = TRUE]
     /\ UNCHANGED leaked
  \/ /\ ~success /\ area[t] /\ NoFault
     /\ UNCHANGED <<area, leaked>>
  \/ /\ ~success /\ ~area[t] /\ Fault
     /\ \/ UNCHANGED <<area, leaked>>
        \/ area' = [area EXCEPT ![t] = TRUE] /\ leaked' = leaked \cup {t}

(* PUT action stop; every caller ignores or only logs its error.           *)
ProStop(t) ==
  \/ NoFault /\ area' = [area EXCEPT ![t] = FALSE] /\ leaked' = leaked \ {t}
  \/ Fault /\ area' = [area EXCEPT ![t] = FALSE] /\ leaked' = leaked \ {t}
  \/ Fault /\ UNCHANGED area /\ leaked' = IF area[t] THEN leaked \cup {t} ELSE leaked

-----------------------------------------------------------------------------
(* Start and Stop.                                                         *)

(* Start: a no-op while running; without a pairing it stays on REST.       *)
Start(r) ==
  /\ pc[Recv] = "idle" /\ pc[r] = "new"
  /\ IF held # NoRun \/ target = NoTarget
     THEN /\ Goto(Recv, "up")
          /\ st' = IF held # NoRun THEN st ELSE [st EXCEPT !.path = "rest"]
          /\ UNCHANGED held
     ELSE /\ held' = r
          /\ pc' = [pc EXCEPT ![Recv] = "up", ![r] = "loop"]
          /\ UNCHANGED st
  /\ UNCHANGED <<joins, cancelled, dialled, taken, open, proVars, envVars>>

(* Stop, under s.mu: take cancel and done away.                            *)
StopTake(c) ==
  /\ \/ c = Recv /\ pc[c] = "up"
     \/ c = Main /\ pc[c] = "serving" /\ exiting
  /\ joins' = [joins EXCEPT ![c] = held]
  /\ held' = NoRun
  /\ Goto(c, "cancel")
  /\ UNCHANGED <<cancelled, dialled, taken, st, open, proVars, envVars>>

(* Mutant: the context of the run is not cancelled before the wait. *)
NeverCancelled(c) == cancelled
CancelledBy(c) == cancelled \cup ({joins[c]} \cap Runs)

StopCancel(c) ==
  /\ pc[c] = "cancel"
  /\ cancelled' = CancelledBy(c)
  /\ Goto(c, "join")
  /\ UNCHANGED <<held, joins, dialled, taken, st, open, proVars, envVars>>

(* Mutant: Stop does not wait for the run goroutine. *)
NotJoined(c) == TRUE
Joined(c) == \A r \in Runs : joins[c] = r => pc[r] = "done"

StopJoin(c) ==
  /\ pc[c] = "join" /\ Joined(c)
  /\ joins' = [joins EXCEPT ![c] = NoRun]
  /\ Goto(c, "teardown")
  /\ UNCHANGED <<held, cancelled, dialled, taken, st, open, proVars, envVars>>

-----------------------------------------------------------------------------
(* teardown, called by Stop and by the send loop.                          *)

(* Where a goroutine goes on after its teardown.                           *)
After(p) == CASE p \in Runs -> "loop" [] p = Recv -> "idle" [] p = Main -> "stopped"

(* Mutant: the stream is stopped on the pairing that is current now. *)
CurrentPro == IF st.pro = NoTarget THEN NoTarget ELSE target
StreamPro == st.pro

TeardownTake(p) ==
  /\ pc[p] = "teardown"
  /\ taken' = [taken EXCEPT ![p] = [conn |-> st.conn, pro |-> StreamPro]]
  /\ st' = [conn |-> NoRun, pro |-> NoTarget, path |-> "rest"]
  /\ Goto(p, "close")
  /\ UNCHANGED <<held, joins, cancelled, dialled, open, proVars, envVars>>

(* Mutant: the connection is not closed. *)
ConnKept(p) == open
ConnClosed(p) == open \ {taken[p].conn}

HadStream(p) == taken[p].pro # NoTarget

TeardownClose(p) ==
  /\ pc[p] = "close"
  /\ open' = ConnClosed(p)
  /\ taken' = [taken EXCEPT ![p].conn = NoRun]
  /\ Goto(p, IF HadStream(p) THEN "stopStream" ELSE After(p))
  /\ UNCHANGED <<held, joins, cancelled, dialled, st, proVars, envVars>>

TeardownStop(p) ==
  /\ pc[p] = "stopStream"
  /\ ProStop(taken[p].pro)
  /\ taken' = [taken EXCEPT ![p] = Nothing]
  /\ Goto(p, After(p))
  /\ UNCHANGED <<held, joins, cancelled, dialled, st, open, envVars>>

-----------------------------------------------------------------------------
(* The run goroutine.                                                      *)

(* The loop test, then resolve at the head of establish.                   *)
RunLoop(r) ==
  /\ pc[r] = "loop"
  /\ IF r \in cancelled
     THEN Goto(r, "done") /\ UNCHANGED <<dialled, st>>
     ELSE IF target = NoTarget
     THEN Goto(r, "sleep") /\ st' = [st EXCEPT !.path = "rest"] /\ UNCHANGED dialled
     ELSE /\ dialled' = [dialled EXCEPT ![r] = target]
          /\ Goto(r, "ensure")
          /\ UNCHANGED st
  /\ UNCHANGED <<held, joins, cancelled, taken, open, proVars, envVars>>

(* establish failed: back to REST, then the backoff.                       *)
EstablishFails(r) ==
  /\ Goto(r, "sleep")
  /\ st' = [st EXCEPT !.path = "rest"]

(* ensureConfig: reuses the area's configuration, or stops and deletes a   *)
(* stale one and creates another.  It fails with a call on the way, and    *)
(* for as long as there is no lamp to stream to.                           *)
EnsureConfig(r) ==
  LET t == dialled[r] IN
  /\ pc[r] = "ensure"
  /\ \/ UNCHANGED <<area, leaked>>
     \/ area' = [area EXCEPT ![t] = FALSE] /\ leaked' = leaked \ {t}
  /\ \/ t \in usable /\ Goto(r, "start") /\ UNCHANGED st /\ NoFault
     \/ t \notin usable /\ EstablishFails(r) /\ NoFault
     \/ EstablishFails(r) /\ Fault
  /\ UNCHANGED <<streamerVars, open, envVars>>

(* Mutant: a rejected start is final. *)
GivesUp == "sleep"
AfterRejected == "stopLeft"

StartStream(r) ==
  /\ pc[r] = "start"
  /\ \/ ProStart(dialled[r], TRUE) /\ Goto(r, "dial")
     \/ ProStart(dialled[r], FALSE) /\ Goto(r, AfterRejected)
  /\ UNCHANGED <<streamerVars, st, open, envVars>>

StopLeftover(r) ==
  /\ pc[r] = "stopLeft"
  /\ ProStop(dialled[r])
  /\ Goto(r, "restart")
  /\ UNCHANGED <<streamerVars, st, open, envVars>>

RestartStream(r) ==
  /\ pc[r] = "restart"
  /\ \/ ProStart(dialled[r], TRUE) /\ Goto(r, "dial") /\ UNCHANGED st
     \/ ProStart(dialled[r], FALSE) /\ EstablishFails(r)
  /\ UNCHANGED <<streamerVars, open, envVars>>

(* dial: fails on its own, or because Stop cancelled the context.          *)
Dial(r) ==
  /\ pc[r] = "dial"
  /\ \/ r \notin cancelled /\ open' = open \cup {r} /\ Goto(r, "store") /\ NoFault
     \/ r \in cancelled /\ UNCHANGED open /\ Goto(r, "undial") /\ NoFault
     \/ r \notin cancelled /\ Fault /\ UNCHANGED open /\ Goto(r, "undial")
  /\ UNCHANGED <<streamerVars, st, area, leaked, envVars>>

UndoStart(r) ==
  /\ pc[r] = "undial"
  /\ ProStop(dialled[r])
  /\ EstablishFails(r)
  /\ UNCHANGED <<streamerVars, open, envVars>>

Established(r) ==
  /\ pc[r] = "store"
  /\ st' = [conn |-> r, pro |-> dialled[r], path |-> "dtls"]
  /\ Goto(r, "send")
  /\ UNCHANGED <<streamerVars, open, proVars, envVars>>

(* sendLoop ends: the context is done, or somebody tore the stream down.   *)
SendLoopEnds(r) ==
  /\ pc[r] = "send"
  /\ r \in cancelled \/ st.conn = NoRun
  /\ Goto(r, "loop")
  /\ UNCHANGED <<streamerVars, st, open, proVars, envVars>>

(* A write to the Pro fails (on a closed connection it always does).       *)
SendFails(r) ==
  /\ pc[r] = "send" /\ st.conn # NoRun
  /\ IF st.conn \in open THEN Fault ELSE NoFault
  /\ Goto(r, "teardown")
  /\ UNCHANGED <<streamerVars, st, open, area, leaked, envVars>>

BackoffEnds(r) ==
  /\ pc[r] = "sleep"
  /\ Goto(r, IF r \in cancelled THEN "done" ELSE "loop")
  /\ UNCHANGED <<streamerVars, st, open, proVars, envVars>>

-----------------------------------------------------------------------------
(* The environment.                                                        *)

(* autoPairPro or the proWatcher changes the pairing.                      *)
Retarget(t) ==
  /\ moves < MaxMoves
  /\ target # t
  /\ target' = t
  /\ moves' = moves + 1
  /\ UNCHANGED <<pc, streamerVars, st, open, proVars, usable, exiting, exited>>

(* Lamps are added to or removed from the Pro or the TV's zone.            *)
LampsChange(t) ==
  /\ moves < MaxMoves
  /\ usable' = IF t \in usable THEN usable \ {t} ELSE usable \cup {t}
  /\ moves' = moves + 1
  /\ UNCHANGED <<pc, streamerVars, st, open, proVars, target, exiting, exited>>

(* A signal ends the process context; main then stops the streamer.        *)
Shutdown ==
  /\ ~exiting
  /\ exiting' = TRUE
  /\ UNCHANGED <<pc, streamerVars, st, open, proVars, target, usable, moves, exited>>

(* main returns after its own Stop did.                                    *)
Exit ==
  /\ pc[Main] = "stopped"
  /\ exited' = TRUE
  /\ UNCHANGED <<pc, streamerVars, st, open, proVars, target, usable, moves, exiting>>

StopStep(p) == TeardownTake(p) \/ TeardownClose(p) \/ TeardownStop(p)

RunStep(r) ==
  \/ RunLoop(r) \/ EnsureConfig(r) \/ StartStream(r) \/ StopLeftover(r)
  \/ RestartStream(r) \/ Dial(r) \/ UndoStart(r) \/ Established(r)
  \/ SendLoopEnds(r) \/ SendFails(r) \/ BackoffEnds(r) \/ StopStep(r)

CallerStep(c) == StopCancel(c) \/ StopJoin(c) \/ StopStep(c)

Next ==
  \/ /\ ~exited
     /\ \/ \E r \in Runs : Start(r) \/ RunStep(r)
        \/ \E c \in Callers : StopTake(c) \/ CallerStep(c)
        \/ \E t \in Targets \cup {NoTarget} : Retarget(t)
        \/ \E t \in Targets : LampsChange(t)
        \/ Shutdown \/ Exit
  \/ exited /\ UNCHANGED vars

(***************************************************************************)
(* Goroutines run, calls to the Pro return (the client has a timeout) and  *)
(* the backoff timer fires.  The TV and the signal need not come.          *)
(***************************************************************************)
Fairness ==
  /\ \A r \in Runs : WF_vars(~exited /\ RunStep(r))
  /\ \A c \in Callers : WF_vars(~exited /\ CallerStep(c))

Spec == Init /\ [][Next]_vars

FairSpec == Spec /\ Fairness

-----------------------------------------------------------------------------
(* Properties.                                                             *)

Live(r) == pc[r] \notin {"new", "done"}

(* "Start/Stop are strictly serial": while the process runs, at most one   *)
(* run goroutine is alive, so an old run never races a new one over s.st.  *)
OneRun ==
  ~exiting => \A r, q \in Runs : Live(r) /\ Live(q) => r = q

(* Stop leaves no area of the Pro active: between two TV streams an area   *)
(* is active only if a call to the Pro failed or an earlier process left   *)
(* it so, whichever pairing changed meanwhile and wherever the Stop caught *)
(* the establishment.                                                      *)
AreaReleased ==
  ~exiting /\ pc[Recv] = "idle" => \A t \in Targets : area[t] => t \in leaked

(* No connection to the Pro is lost: each open one is the streamer's, is   *)
(* being torn down, or was just dialled.                                   *)
ConnsOwned ==
  ~exiting =>
    \A r \in open : \/ st.conn = r
                    \/ pc[r] = "store"
                    \/ \E p \in Procs : taken[p].conn = r

(* Stop returns: the run it joins always ends.                             *)
StopReturns ==
  \A c \in Callers : pc[c] = "cancel" ~> pc[c] \in {"idle", "stopped"} \/ exited

(* While the TV streams, the Pro answers and has a lamp of the TV's zone,  *)
(* an area left active by an earlier process, a failed attempt, or lamps   *)
(* that were missing for a while do not pin the stream to the REST         *)
(* fallback for ever.                                                      *)
StreamEstablished ==
  pc[Recv] = "up" /\ held # NoRun
    ~> st.path = "dtls" \/ pc[Recv] # "up" \/ target \notin usable \/ exiting

(* main.go: the shutdown releases the stream "so the Pro area is           *)
(* deactivated ... and never leaks past process exit".  Once the process   *)
(* has exited, and unless the receiver was opening a stream behind the     *)
(* shutdown's back, no area is active that no failed call left so.         *)
AreaReleasedAtExit ==
  exited /\ pc[Recv] # "up" => \A t \in Targets : area[t] => t \in leaked
=============================================================================
