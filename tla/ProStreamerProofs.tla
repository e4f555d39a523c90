------------------------- MODULE ProStreamerProofs -------------------------
(***************************************************************************)
(* The two halves of streamer.go.  First its goroutines (ProStreamer):     *)
(* for any number of streams, pairings, pairing changes and faults, until  *)
(* the process shuts down at most one run is alive, no connection is lost  *)
(* and Stop releases every area.  Then the colours it carries (Frames):    *)
(* for any lamps, channels, pictures, window, threshold and easing weight, *)
(* a lamp shows its own colours only, spikes are dropped and a steady      *)
(* picture is shown exactly.                                               *)
(***************************************************************************)
EXTENDS ProStreamer, Frames, FiniteSetTheorems, WellFoundedInduction, TLAPS

-----------------------------------------------------------------------------
(* The inductive invariant: what always holds, ...                         *)

TearingDown == {"teardown", "close", "stopStream"}
Dialling == {"ensure", "start", "stopLeft", "restart", "dial", "undial", "store"}

(* Where the goroutines can be, and that an establishing run has resolved  *)
(* a pairing.                                                              *)
Places ==
  /\ \A r \in Runs : pc[r] \in RunSteps \cup TearingDown
  /\ pc[Recv] \in StopSteps \cup {"idle", "up"}
  /\ pc[Main] \in StopSteps \cup {"serving", "stopped"}
  /\ \A r \in Runs : pc[r] \in Dialling => dialled[r] \in Targets

(* What a teardown took is in its hands until it is closed and stopped;    *)
(* s.st names a pairing only together with a connection.                   *)
Hands ==
  /\ \A p \in Procs : /\ pc[p] # "close" => taken[p].conn = NoRun
                      /\ pc[p] \notin {"close", "stopStream"} => taken[p].pro = NoTarget
  /\ st.pro # NoTarget => st.conn # NoRun

(* ... and what holds until the process shuts down: the receiver alone     *)
(* stops, one run after another; a live run is the one it started or the   *)
(* one it is waiting for, and only the latter is cancelled.                *)
Serial ==
  /\ pc[Main] = "serving"
  /\ held # NoRun => pc[Recv] = "up"
  /\ joins[Recv] # NoRun => pc[Recv] \in {"cancel", "join"}
  /\ \A r \in Runs : Live(r) => held = r \/ joins[Recv] = r
  /\ \A r \in Runs : held = r \/ joins[Recv] = r \/ r \in cancelled => pc[r] # "new"
  /\ \A r \in Runs : Live(r) /\ r \in cancelled => joins[Recv] = r /\ pc[Recv] = "join"

(* The run whose connection s.st holds sends on it or tears it down; once  *)
(* it was cancelled it leaves that to the Stop that waits for it.          *)
ConnHolder ==
  \A r \in Runs : st.conn = r =>
    \/ pc[r] \in {"send", "teardown"}
    \/ pc[r] = "loop" /\ r \in cancelled
    \/ pc[r] = "done" /\ (pc[Recv] = "teardown" \/ (pc[Recv] = "join" /\ joins[Recv] = r))

Owned == \A r \in open : st.conn = r \/ pc[r] = "store" \/ \E p \in Procs : taken[p].conn = r

(* An active area that no failed call left so is one somebody will stop:   *)
(* the streamer, a teardown, or a run between its start and its dial.      *)
AreaOwned ==
  \A t \in Targets : area[t] /\ t \notin leaked =>
    \/ st.pro = t
    \/ \E p \in Procs : taken[p].pro = t
    \/ \E r \in Runs : dialled[r] = t /\ pc[r] \in {"dial", "undial", "store"}

StreamerInv ==
  /\ TypeOK /\ Places /\ Hands
  /\ ~exiting => Serial /\ ConnHolder /\ Owned /\ AreaOwned

-----------------------------------------------------------------------------
(* Lemmas on the operators.                                                *)

(* After its teardown a goroutine goes on in a place of its own.           *)
LEMMA AfterPlaces ==
  /\ \A r \in Runs : After(r) = "loop"
  /\ After(Recv) = "idle"
  /\ After(Main) = "stopped"
BY StreamerAssumption DEF After

(* A start keeps the types of the Pro, and of the areas that are active    *)
(* though no call failed it adds at most the one it started with success.  *)
LEMMA StartEffect ==
  ASSUME TypeOK, NEW t \in Targets, NEW s \in BOOLEAN, ProStart(t, s)
  PROVE  /\ area' \in [Targets -> BOOLEAN]
         /\ faults' \in 0 .. MaxFaults
         /\ leaked' \in SUBSET Targets
         /\ \A u \in Targets : area'[u] /\ u \notin leaked'
              => (area[u] /\ u \notin leaked) \/ (s /\ u = t)
<1> area \in [Targets -> BOOLEAN] /\ leaked \in SUBSET Targets
  BY DEF TypeOK
<1>1. area' \in [Targets -> BOOLEAN]
  BY DEF ProStart
<1>2. faults' \in 0 .. MaxFaults
  BY StreamerAssumption DEF ProStart, TypeOK, NoFault, Fault, CanFail
<1>3. leaked' \in SUBSET Targets
  BY DEF ProStart
<1>4. ASSUME NEW u \in Targets, area'[u], u \notin leaked'
      PROVE  (area[u] /\ u \notin leaked) \/ (s /\ u = t)
  BY <1>4 DEF ProStart
<1> QED BY <1>1, <1>2, <1>3, <1>4

(* After a stop, failed or not, the area of the target is not active or    *)
(* counts as left active by a failed call.                                 *)
LEMMA StopEffect ==
  ASSUME TypeOK, NEW t \in Targets, ProStop(t)
  PROVE  /\ area' \in [Targets -> BOOLEAN]
         /\ faults' \in 0 .. MaxFaults
         /\ leaked' \in SUBSET Targets
         /\ \A u \in Targets : area'[u] /\ u \notin leaked'
              => area[u] /\ u \notin leaked /\ u # t
<1> area \in [Targets -> BOOLEAN] /\ leaked \in SUBSET Targets
  BY DEF TypeOK
<1>1. area' \in [Targets -> BOOLEAN]
  BY DEF ProStop
<1>2. faults' \in 0 .. MaxFaults
  BY StreamerAssumption DEF ProStop, TypeOK, NoFault, Fault, CanFail
<1>3. leaked' \in SUBSET Targets
  BY DEF ProStop
<1>4. ASSUME NEW u \in Targets, area'[u], u \notin leaked'
      PROVE  area[u] /\ u \notin leaked /\ u # t
  BY <1>4 DEF ProStop
<1> QED BY <1>1, <1>2, <1>3, <1>4

(* So does the stop that precedes the deletion of a stale configuration.   *)
LEMMA ClearEffect ==
  ASSUME TypeOK, NEW t \in Targets,
         area' = [area EXCEPT ![t] = FALSE], leaked' = leaked \ {t}
  PROVE  /\ area' \in [Targets -> BOOLEAN]
         /\ leaked' \in SUBSET Targets
         /\ \A u \in Targets : area'[u] /\ u \notin leaked'
              => area[u] /\ u \notin leaked
BY DEF TypeOK

(* A fault stays within its bound.                                         *)
LEMMA FaultBounded == TypeOK /\ (Fault \/ NoFault) => faults' \in 0 .. MaxFaults
BY StreamerAssumption DEF TypeOK, NoFault, Fault, CanFail

-----------------------------------------------------------------------------
(* What every step keeps.                                                  *)

(* The types of the streamer's own state.                                  *)
LEMMA StreamerTypes ==
  ASSUME TypeOK, Places, Next
  PROVE  /\ pc' \in [Procs -> RunSteps \cup StopSteps \cup CallerSteps]
         /\ held' \in Runs \cup {NoRun}
         /\ joins' \in [Callers -> Runs \cup {NoRun}]
         /\ cancelled' \in SUBSET Runs
         /\ dialled' \in [Runs -> Targets \cup {NoTarget}]
         /\ st' \in [conn : Runs \cup {NoRun}, pro : Targets \cup {NoTarget},
                     path : {"dtls", "rest"}]
         /\ taken' \in [Procs -> Holding]
         /\ open' \in SUBSET Runs
         /\ \A p \in Procs : pc'[p] = "stopStream" => taken'[p].pro \in Targets
<1> USE StreamerAssumption, AfterPlaces
    DEF Procs, Callers, RunSteps, StopSteps, CallerSteps, Holding, Nothing
<1> /\ pc \in [Procs -> RunSteps \cup StopSteps \cup CallerSteps]
    /\ held \in Runs \cup {NoRun}
    /\ joins \in [Callers -> Runs \cup {NoRun}]
    /\ cancelled \in SUBSET Runs
    /\ dialled \in [Runs -> Targets \cup {NoTarget}]
    /\ st \in [conn : Runs \cup {NoRun}, pro : Targets \cup {NoTarget},
               path : {"dtls", "rest"}]
    /\ taken \in [Procs -> Holding]
    /\ open \in SUBSET Runs
    /\ target \in Targets \cup {NoTarget}
    /\ \A p \in Procs : pc[p] = "stopStream" => taken[p].pro \in Targets
    /\ \A r \in Runs : pc[r] \in Dialling => dialled[r] \in Targets
  BY DEF TypeOK, Places
<1>1. CASE \E r \in Runs : Start(r)
  BY <1>1 DEF Start, Goto, streamerVars, proVars, envVars, Dialling
<1>2. CASE \E r \in Runs : RunLoop(r)
  BY <1>2 DEF RunLoop, Goto, streamerVars, proVars, envVars, Dialling
<1>3. CASE \E r \in Runs : EnsureConfig(r)
  BY <1>3 DEF EnsureConfig, EstablishFails, Goto, streamerVars, proVars,
     envVars, Dialling
<1>4. CASE \E r \in Runs : StartStream(r)
  <2>1. PICK r \in Runs : StartStream(r)
    BY <1>4
  <2>2. pc' = [pc EXCEPT ![r] = "dial"] \/ pc' = [pc EXCEPT ![r] = "stopLeft"]
    BY <2>1 DEF StartStream, Goto, AfterRejected
  <2>3. UNCHANGED <<streamerVars, st, open, envVars>> /\ pc[r] = "start"
    BY <2>1 DEF StartStream
  <2> QED BY <2>2, <2>3 DEF streamerVars, envVars, Dialling
<1>5. CASE \E r \in Runs : StopLeftover(r)
  BY <1>5 DEF StopLeftover, Goto, streamerVars, proVars, envVars, Dialling
<1>6. CASE \E r \in Runs : RestartStream(r)
  <2>1. PICK r \in Runs : RestartStream(r)
    BY <1>6
  <2>2. \/ pc' = [pc EXCEPT ![r] = "dial"] /\ UNCHANGED st
        \/ pc' = [pc EXCEPT ![r] = "sleep"] /\ st' = [st EXCEPT !.path = "rest"]
    BY <2>1 DEF RestartStream, EstablishFails, Goto
  <2>3. UNCHANGED <<streamerVars, open, envVars>> /\ pc[r] = "restart"
    BY <2>1 DEF RestartStream
  <2> QED BY <2>2, <2>3 DEF streamerVars, envVars, Dialling
<1>7. CASE \E r \in Runs : Dial(r)
  BY <1>7 DEF Dial, Goto, streamerVars, proVars, envVars, Dialling
<1>8. CASE \E r \in Runs : UndoStart(r)
  BY <1>8 DEF UndoStart, EstablishFails, Goto, streamerVars, proVars, envVars,
     Dialling
<1>9. CASE \E r \in Runs : Established(r)
  BY <1>9 DEF Established, Goto, streamerVars, proVars, envVars, Dialling
<1>10. CASE \E r \in Runs : SendLoopEnds(r)
  BY <1>10 DEF SendLoopEnds, Goto, streamerVars, proVars, envVars, Dialling
<1>11. CASE \E r \in Runs : SendFails(r)
  BY <1>11 DEF SendFails, Goto, streamerVars, proVars, envVars, Dialling
<1>12. CASE \E r \in Runs : BackoffEnds(r)
  BY <1>12 DEF BackoffEnds, Goto, streamerVars, proVars, envVars, Dialling
<1>13. CASE \E p \in Procs : TeardownTake(p)
  BY <1>13 DEF TeardownTake, StreamPro, Goto, streamerVars, proVars, envVars,
     Dialling
<1>14. CASE \E p \in Procs : TeardownClose(p)
  BY <1>14 DEF TeardownClose, ConnClosed, HadStream, Goto, streamerVars,
     proVars, envVars, Dialling
<1>15. CASE \E p \in Procs : TeardownStop(p)
  BY <1>15 DEF TeardownStop, Goto, streamerVars, proVars, envVars, Dialling
<1>16. CASE \E c \in Callers : StopTake(c)
  BY <1>16 DEF StopTake, Goto, streamerVars, proVars, envVars, Dialling
<1>17. CASE \E c \in Callers : StopCancel(c)
  BY <1>17 DEF StopCancel, CancelledBy, Goto, streamerVars, proVars, envVars,
     Dialling
<1>18. CASE \E c \in Callers : StopJoin(c)
  BY <1>18 DEF StopJoin, Joined, Goto, streamerVars, proVars, envVars, Dialling
<1>19. CASE \/ \E t \in Targets \cup {NoTarget} : Retarget(t) \/ LampsChange(t)
             \/ Shutdown \/ Exit \/ UNCHANGED vars
  BY <1>19 DEF Retarget, LampsChange, Shutdown, Exit, vars, streamerVars, proVars, envVars,
     Dialling
<1> QED
  BY <1>1, <1>2, <1>3, <1>4, <1>5, <1>6, <1>7, <1>8, <1>9, <1>10, <1>11, <1>12,
     <1>13, <1>14, <1>15, <1>16, <1>17, <1>18, <1>19
  DEF Next, RunStep, CallerStep, StopStep, Procs

(* The types of the Pro and of the environment.                            *)
LEMMA ProTypes ==
  ASSUME TypeOK, Places, Next
  PROVE  /\ target' \in Targets \cup {NoTarget} /\ usable' \in SUBSET Targets
         /\ moves' \in 0 .. MaxMoves
         /\ area' \in [Targets -> BOOLEAN]
         /\ faults' \in 0 .. MaxFaults
         /\ exiting' \in BOOLEAN /\ exited' \in BOOLEAN
         /\ leaked' \in SUBSET Targets

<1>1. CASE UNCHANGED <<proVars, envVars>>
  BY <1>1 DEF TypeOK, proVars, envVars
<1>2. CASE \E r \in Runs : EnsureConfig(r)
  <2>1. PICK r \in Runs : EnsureConfig(r)
    BY <1>2
  <2>2. dialled[r] \in Targets
    BY <2>1 DEF EnsureConfig, Places, Dialling
  <2>3. UNCHANGED envVars
    BY <2>1 DEF EnsureConfig
  <2>4. faults' \in 0 .. MaxFaults
    BY <2>1, FaultBounded DEF EnsureConfig
  <2>5. area' \in [Targets -> BOOLEAN] /\ leaked' \in SUBSET Targets
    BY <2>1, <2>2, ClearEffect DEF EnsureConfig, TypeOK
  <2> QED BY <2>3, <2>4, <2>5 DEF envVars, TypeOK
<1>3. CASE \E t \in Targets, s \in BOOLEAN : ProStart(t, s) /\ UNCHANGED envVars
  BY <1>3, StartEffect DEF envVars, TypeOK
<1>4. CASE \E t \in Targets : ProStop(t) /\ UNCHANGED envVars
  BY <1>4, StopEffect DEF envVars, TypeOK
<1>5. CASE (Fault \/ NoFault) /\ UNCHANGED <<area, leaked, envVars>>
  BY <1>5, FaultBounded DEF envVars, TypeOK
<1>6. CASE \E t \in Targets \cup {NoTarget} : Retarget(t)
  BY <1>6, StreamerAssumption DEF Retarget, TypeOK, proVars
<1>14. CASE \E t \in Targets : LampsChange(t)
  BY <1>14, StreamerAssumption DEF LampsChange, TypeOK, proVars
<1>7. CASE Shutdown \/ Exit
  BY <1>7 DEF Shutdown, Exit, TypeOK, proVars
<1>8. ASSUME NEW r \in Runs, RunStep(r)
      PROVE  \/ UNCHANGED <<proVars, envVars>>
             \/ EnsureConfig(r)
             \/ \E t \in Targets, s \in BOOLEAN : ProStart(t, s) /\ UNCHANGED envVars
             \/ \E t \in Targets : ProStop(t) /\ UNCHANGED envVars
             \/ (Fault \/ NoFault) /\ UNCHANGED <<area, leaked, envVars>>
  <2>1. pc[r] \in Dialling => dialled[r] \in Targets
    BY DEF Places
  <2>2. pc[r] = "stopStream" => taken[r].pro \in Targets
    BY DEF TypeOK, Procs
  <2>3. CASE StartStream(r) \/ RestartStream(r)
    BY <2>1, <2>3 DEF StartStream, RestartStream, Dialling
  <2>4. CASE StopLeftover(r) \/ UndoStart(r)
    BY <2>1, <2>4 DEF StopLeftover, UndoStart, Dialling
  <2>5. CASE TeardownStop(r)
    BY <2>2, <2>5 DEF TeardownStop
  <2>6. CASE Dial(r)
    BY <2>6 DEF Dial
  <2>7. CASE SendFails(r)
    BY <2>7 DEF SendFails
  <2>8. CASE RunLoop(r) \/ Established(r) \/ SendLoopEnds(r) \/ BackoffEnds(r)
    BY <2>8 DEF RunLoop, Established, SendLoopEnds, BackoffEnds
  <2>9. CASE TeardownTake(r) \/ TeardownClose(r)
    BY <2>9 DEF TeardownTake, TeardownClose
  <2> QED
    BY <1>8, <2>3, <2>4, <2>5, <2>6, <2>7, <2>8, <2>9 DEF RunStep, StopStep
<1>9. ASSUME NEW c \in Callers, StopTake(c) \/ CallerStep(c)
      PROVE  \/ UNCHANGED <<proVars, envVars>>
             \/ \E t \in Targets : ProStop(t) /\ UNCHANGED envVars
  <2>1. pc[c] = "stopStream" => taken[c].pro \in Targets
    BY DEF TypeOK, Procs
  <2>2. CASE TeardownStop(c)
    BY <2>1, <2>2 DEF TeardownStop
  <2>3. CASE StopTake(c) \/ StopCancel(c) \/ StopJoin(c)
    BY <2>3 DEF StopTake, StopCancel, StopJoin
  <2>4. CASE TeardownTake(c) \/ TeardownClose(c)
    BY <2>4 DEF TeardownTake, TeardownClose
  <2> QED BY <1>9, <2>2, <2>3, <2>4 DEF CallerStep, StopStep
<1>10. CASE \E r \in Runs : Start(r)
  <2>1. UNCHANGED <<proVars, envVars>>
    BY <1>10 DEF Start
  <2> QED BY <2>1, <1>1
<1>11. CASE UNCHANGED vars
  BY <1>1, <1>11 DEF vars
<1>12. CASE \E r \in Runs : RunStep(r)
  BY <1>1, <1>2, <1>3, <1>4, <1>5, <1>8, <1>12
<1>13. CASE \E c \in Callers : StopTake(c) \/ CallerStep(c)
  BY <1>1, <1>4, <1>9, <1>13
<1> QED BY <1>6, <1>7, <1>10, <1>11, <1>12, <1>13, <1>14 DEF Next

(* Where the goroutines can be.                                            *)
LEMMA PlacesStep ==
  ASSUME TypeOK, Places, Next
  PROVE  Places'
<1> USE StreamerAssumption, AfterPlaces
    DEF Procs, Callers, RunSteps, StopSteps, TearingDown, Dialling, Places
<1> /\ pc \in [Procs -> RunSteps \cup StopSteps \cup CallerSteps]
    /\ dialled \in [Runs -> Targets \cup {NoTarget}]
    /\ target \in Targets \cup {NoTarget}
  BY DEF TypeOK
<1>1. CASE \E r \in Runs : Start(r)
  BY <1>1 DEF Start, Goto, streamerVars, proVars, envVars
<1>2. CASE \E r \in Runs : RunLoop(r)
  BY <1>2 DEF RunLoop, Goto, streamerVars, proVars, envVars
<1>3. CASE \E r \in Runs : EnsureConfig(r)
  BY <1>3 DEF EnsureConfig, EstablishFails, Goto, streamerVars, proVars, envVars
<1>4. CASE \E r \in Runs : StartStream(r)
  BY <1>4 DEF StartStream, Goto, AfterRejected, streamerVars, proVars, envVars
<1>5. CASE \E r \in Runs : StopLeftover(r)
  BY <1>5 DEF StopLeftover, Goto, streamerVars, proVars, envVars
<1>6. CASE \E r \in Runs : RestartStream(r)
  BY <1>6 DEF RestartStream, EstablishFails, Goto, streamerVars, proVars,
     envVars
<1>7. CASE \E r \in Runs : Dial(r)
  BY <1>7 DEF Dial, Goto, streamerVars, proVars, envVars
<1>8. CASE \E r \in Runs : UndoStart(r)
  BY <1>8 DEF UndoStart, EstablishFails, Goto, streamerVars, proVars, envVars
<1>9. CASE \E r \in Runs : Established(r)
  BY <1>9 DEF Established, Goto, streamerVars, proVars, envVars
<1>10. CASE \E r \in Runs : SendLoopEnds(r)
  BY <1>10 DEF SendLoopEnds, Goto, streamerVars, proVars, envVars
<1>11. CASE \E r \in Runs : SendFails(r)
  BY <1>11 DEF SendFails, Goto, streamerVars, proVars, envVars
<1>12. CASE \E r \in Runs : BackoffEnds(r)
  BY <1>12 DEF BackoffEnds, Goto, streamerVars, proVars, envVars
<1>13. CASE \E p \in Procs : TeardownTake(p)
  BY <1>13 DEF TeardownTake, StreamPro, Goto, streamerVars, proVars, envVars
<1>14. CASE \E p \in Procs : TeardownClose(p)
  BY <1>14 DEF TeardownClose, ConnClosed, HadStream, Goto, streamerVars,
     proVars, envVars
<1>15. CASE \E p \in Procs : TeardownStop(p)
  BY <1>15 DEF TeardownStop, Goto, streamerVars, proVars, envVars
<1>16. CASE \E c \in Callers : StopTake(c)
  BY <1>16 DEF StopTake, Goto, streamerVars, proVars, envVars
<1>17. CASE \E c \in Callers : StopCancel(c)
  BY <1>17 DEF StopCancel, CancelledBy, Goto, streamerVars, proVars, envVars
<1>18. CASE \E c \in Callers : StopJoin(c)
  BY <1>18 DEF StopJoin, Joined, Goto, streamerVars, proVars, envVars
<1>19. CASE \/ \E t \in Targets \cup {NoTarget} : Retarget(t) \/ LampsChange(t)
             \/ Shutdown \/ Exit \/ UNCHANGED vars
  BY <1>19 DEF Retarget, LampsChange, Shutdown, Exit, vars, streamerVars, proVars, envVars
<1> QED
  BY <1>1, <1>2, <1>3, <1>4, <1>5, <1>6, <1>7, <1>8, <1>9, <1>10, <1>11, <1>12,
     <1>13, <1>14, <1>15, <1>16, <1>17, <1>18, <1>19
  DEF Next, RunStep, CallerStep, StopStep, Procs

(* What a teardown has in its hands.                                       *)
LEMMA HandsStep ==
  ASSUME TypeOK, Places, Hands, Next
  PROVE  Hands'
<1> USE StreamerAssumption, AfterPlaces DEF Procs, Callers, Nothing, Holding, Hands
<1> /\ pc \in [Procs -> RunSteps \cup StopSteps \cup CallerSteps]
    /\ dialled \in [Runs -> Targets \cup {NoTarget}]
    /\ st \in [conn : Runs \cup {NoRun}, pro : Targets \cup {NoTarget},
               path : {"dtls", "rest"}]
    /\ taken \in [Procs -> Holding]
    /\ Places
  BY DEF TypeOK
<1>1. CASE \E r \in Runs : Start(r)
  BY <1>1 DEF Start, Goto, streamerVars, proVars, envVars
<1>2. CASE \E r \in Runs : RunLoop(r)
  BY <1>2 DEF RunLoop, Goto, streamerVars, proVars, envVars
<1>3. CASE \E r \in Runs : EnsureConfig(r)
  BY <1>3 DEF EnsureConfig, EstablishFails, Goto, streamerVars, proVars, envVars
<1>4. CASE \E r \in Runs : StartStream(r)
  BY <1>4 DEF StartStream, Goto, AfterRejected, streamerVars, proVars, envVars
<1>5. CASE \E r \in Runs : StopLeftover(r)
  BY <1>5 DEF StopLeftover, Goto, streamerVars, proVars, envVars
<1>6. CASE \E r \in Runs : RestartStream(r)
  BY <1>6 DEF RestartStream, EstablishFails, Goto, streamerVars, proVars,
     envVars
<1>7. CASE \E r \in Runs : Dial(r)
  BY <1>7 DEF Dial, Goto, streamerVars, proVars, envVars
<1>8. CASE \E r \in Runs : UndoStart(r)
  BY <1>8 DEF UndoStart, EstablishFails, Goto, streamerVars, proVars, envVars
<1>9. CASE \E r \in Runs : Established(r)
  BY <1>9 DEF Established, Goto, streamerVars, proVars, envVars
<1>10. CASE \E r \in Runs : SendLoopEnds(r)
  BY <1>10 DEF SendLoopEnds, Goto, streamerVars, proVars, envVars
<1>11. CASE \E r \in Runs : SendFails(r)
  BY <1>11 DEF SendFails, Goto, streamerVars, proVars, envVars
<1>12. CASE \E r \in Runs : BackoffEnds(r)
  BY <1>12 DEF BackoffEnds, Goto, streamerVars, proVars, envVars
<1>13. CASE \E p \in Procs : TeardownTake(p)
  BY <1>13 DEF TeardownTake, StreamPro, Goto, streamerVars, proVars, envVars
<1>14. CASE \E p \in Procs : TeardownClose(p)
  BY <1>14 DEF TeardownClose, ConnClosed, HadStream, Goto, streamerVars,
     proVars, envVars
<1>15. CASE \E p \in Procs : TeardownStop(p)
  BY <1>15 DEF TeardownStop, Goto, streamerVars, proVars, envVars
<1>16. CASE \E c \in Callers : StopTake(c)
  BY <1>16 DEF StopTake, Goto, streamerVars, proVars, envVars
<1>17. CASE \E c \in Callers : StopCancel(c)
  BY <1>17 DEF StopCancel, CancelledBy, Goto, streamerVars, proVars, envVars
<1>18. CASE \E c \in Callers : StopJoin(c)
  BY <1>18 DEF StopJoin, Joined, Goto, streamerVars, proVars, envVars
<1>19. CASE \/ \E t \in Targets \cup {NoTarget} : Retarget(t) \/ LampsChange(t)
             \/ Shutdown \/ Exit \/ UNCHANGED vars
  BY <1>19 DEF Retarget, LampsChange, Shutdown, Exit, vars, streamerVars, proVars, envVars
<1> QED
  BY <1>1, <1>2, <1>3, <1>4, <1>5, <1>6, <1>7, <1>8, <1>9, <1>10, <1>11, <1>12,
     <1>13, <1>14, <1>15, <1>16, <1>17, <1>18, <1>19
  DEF Next, RunStep, CallerStep, StopStep, Procs

-----------------------------------------------------------------------------
(* What every step keeps until the process shuts down.                     *)

(* The end of the process context is final.                                *)
LEMMA StillRunning ==
  ASSUME Next, ~exiting'
  PROVE  ~exiting
<1>1. CASE \E r \in Runs : Start(r)
  BY <1>1 DEF Start, envVars
<1>2. CASE \E r \in Runs : RunLoop(r)
  BY <1>2 DEF RunLoop, envVars
<1>3. CASE \E r \in Runs : EnsureConfig(r)
  BY <1>3 DEF EnsureConfig, envVars
<1>4. CASE \E r \in Runs : StartStream(r)
  BY <1>4 DEF StartStream, envVars
<1>5. CASE \E r \in Runs : StopLeftover(r)
  BY <1>5 DEF StopLeftover, envVars
<1>6. CASE \E r \in Runs : RestartStream(r)
  BY <1>6 DEF RestartStream, envVars
<1>7. CASE \E r \in Runs : Dial(r)
  BY <1>7 DEF Dial, envVars
<1>8. CASE \E r \in Runs : UndoStart(r)
  BY <1>8 DEF UndoStart, envVars
<1>9. CASE \E r \in Runs : Established(r)
  BY <1>9 DEF Established, envVars
<1>10. CASE \E r \in Runs : SendLoopEnds(r)
  BY <1>10 DEF SendLoopEnds, envVars
<1>11. CASE \E r \in Runs : SendFails(r)
  BY <1>11 DEF SendFails, envVars
<1>12. CASE \E r \in Runs : BackoffEnds(r)
  BY <1>12 DEF BackoffEnds, envVars
<1>13. CASE \E p \in Procs : TeardownTake(p)
  BY <1>13 DEF TeardownTake, envVars
<1>14. CASE \E p \in Procs : TeardownClose(p)
  BY <1>14 DEF TeardownClose, envVars
<1>15. CASE \E p \in Procs : TeardownStop(p)
  BY <1>15 DEF TeardownStop, envVars
<1>16. CASE \E c \in Callers : StopTake(c)
  BY <1>16 DEF StopTake, envVars
<1>17. CASE \E c \in Callers : StopCancel(c)
  BY <1>17 DEF StopCancel, envVars
<1>18. CASE \E c \in Callers : StopJoin(c)
  BY <1>18 DEF StopJoin, envVars
<1>19. CASE \/ \E t \in Targets \cup {NoTarget} : Retarget(t) \/ LampsChange(t)
             \/ Shutdown \/ Exit \/ UNCHANGED vars
  BY <1>19 DEF Retarget, LampsChange, Shutdown, Exit, vars, envVars
<1> QED
  BY <1>1, <1>2, <1>3, <1>4, <1>5, <1>6, <1>7, <1>8, <1>9, <1>10, <1>11, <1>12,
     <1>13, <1>14, <1>15, <1>16, <1>17, <1>18, <1>19
  DEF Next, RunStep, CallerStep, StopStep, Procs

(* The receiver alone stops, one run after another.                        *)
LEMMA SerialStep ==
  ASSUME TypeOK, Places, Serial, ~exiting, Next
  PROVE  Serial'
<1> USE StreamerAssumption, AfterPlaces DEF Procs, Callers, Live, Serial
<1> /\ pc \in [Procs -> RunSteps \cup StopSteps \cup CallerSteps]
    /\ held \in Runs \cup {NoRun}
    /\ joins \in [Callers -> Runs \cup {NoRun}]
    /\ cancelled \in SUBSET Runs
  BY DEF TypeOK
<1>1. CASE \E r \in Runs : Start(r)
  BY <1>1 DEF Start, Goto, streamerVars, proVars, envVars
<1>2. CASE \E r \in Runs : RunLoop(r)
  BY <1>2 DEF RunLoop, Goto, streamerVars, proVars, envVars
<1>3. CASE \E r \in Runs : EnsureConfig(r)
  BY <1>3 DEF EnsureConfig, EstablishFails, Goto, streamerVars, proVars, envVars
<1>4. CASE \E r \in Runs : StartStream(r)
  <2>1. PICK r \in Runs : StartStream(r)
    BY <1>4
  <2>2. pc' = [pc EXCEPT ![r] = "dial"] \/ pc' = [pc EXCEPT ![r] = "stopLeft"]
    BY <2>1 DEF StartStream, Goto, AfterRejected
  <2>3. UNCHANGED <<streamerVars, st, open, envVars>> /\ pc[r] = "start"
    BY <2>1 DEF StartStream
  <2> QED BY <2>2, <2>3 DEF streamerVars, envVars
<1>5. CASE \E r \in Runs : StopLeftover(r)
  BY <1>5 DEF StopLeftover, Goto, streamerVars, proVars, envVars
<1>6. CASE \E r \in Runs : RestartStream(r)
  <2>1. PICK r \in Runs : RestartStream(r)
    BY <1>6
  <2>2. \/ pc' = [pc EXCEPT ![r] = "dial"] /\ UNCHANGED st
        \/ pc' = [pc EXCEPT ![r] = "sleep"] /\ st' = [st EXCEPT !.path = "rest"]
    BY <2>1 DEF RestartStream, EstablishFails, Goto
  <2>3. UNCHANGED <<streamerVars, open, envVars>> /\ pc[r] = "restart"
    BY <2>1 DEF RestartStream
  <2> QED BY <2>2, <2>3 DEF streamerVars, envVars
<1>7. CASE \E r \in Runs : Dial(r)
  BY <1>7 DEF Dial, Goto, streamerVars, proVars, envVars
<1>8. CASE \E r \in Runs : UndoStart(r)
  BY <1>8 DEF UndoStart, EstablishFails, Goto, streamerVars, proVars, envVars
<1>9. CASE \E r \in Runs : Established(r)
  BY <1>9 DEF Established, Goto, streamerVars, proVars, envVars
<1>10. CASE \E r \in Runs : SendLoopEnds(r)
  BY <1>10 DEF SendLoopEnds, Goto, streamerVars, proVars, envVars
<1>11. CASE \E r \in Runs : SendFails(r)
  BY <1>11 DEF SendFails, Goto, streamerVars, proVars, envVars
<1>12. CASE \E r \in Runs : BackoffEnds(r)
  BY <1>12 DEF BackoffEnds, Goto, streamerVars, proVars, envVars
<1>13. CASE \E p \in Procs : TeardownTake(p)
  BY <1>13 DEF TeardownTake, StreamPro, Goto, streamerVars, proVars, envVars
<1>14. CASE \E p \in Procs : TeardownClose(p)
  BY <1>14 DEF TeardownClose, ConnClosed, HadStream, Goto, streamerVars,
     proVars, envVars
<1>15. CASE \E p \in Procs : TeardownStop(p)
  BY <1>15 DEF TeardownStop, Goto, streamerVars, proVars, envVars
<1>16. CASE \E c \in Callers : StopTake(c)
  BY <1>16 DEF StopTake, Goto, streamerVars, proVars, envVars
<1>17. CASE \E c \in Callers : StopCancel(c)
  BY <1>17 DEF StopCancel, CancelledBy, Goto, streamerVars, proVars, envVars
<1>18. CASE \E c \in Callers : StopJoin(c)
  BY <1>18 DEF StopJoin, Joined, Goto, streamerVars, proVars, envVars
<1>19. CASE \/ \E t \in Targets \cup {NoTarget} : Retarget(t) \/ LampsChange(t)
             \/ Shutdown \/ Exit \/ UNCHANGED vars
  BY <1>19 DEF Retarget, LampsChange, Shutdown, Exit, vars, streamerVars, proVars, envVars
<1> QED
  BY <1>1, <1>2, <1>3, <1>4, <1>5, <1>6, <1>7, <1>8, <1>9, <1>10, <1>11, <1>12,
     <1>13, <1>14, <1>15, <1>16, <1>17, <1>18, <1>19
  DEF Next, RunStep, CallerStep, StopStep, Procs

(* Two live runs are the same.                                             *)
LEMMA SerialOneRun ==
  ASSUME TypeOK, Serial, NEW r \in Runs, NEW q \in Runs, Live(r), Live(q)
  PROVE  r = q
BY StreamerAssumption DEF Serial, TypeOK, Callers

(* A run that has just dialled finds s.st empty: nothing an earlier run    *)
(* left there is overwritten.                                              *)
LEMMA StoreFindsNothing ==
  ASSUME TypeOK, Serial, ConnHolder, Hands, NEW r \in Runs, pc[r] = "store"
  PROVE  st.conn = NoRun /\ st.pro = NoTarget
<1>1. ASSUME NEW q \in Runs, st.conn = q
      PROVE  FALSE
  <2>1. Live(r)
    BY DEF Live
  <2>2. Live(q) => q = r
    BY <2>1, SerialOneRun
  <2>3. pc[q] = "done" /\ (pc[Recv] = "teardown" \/ (pc[Recv] = "join" /\ joins[Recv] = q))
    BY <1>1, <2>2 DEF ConnHolder, Live
  <2>4. held = r \/ joins[Recv] = r
    BY <2>1 DEF Serial
  <2> QED BY <2>3, <2>4, StreamerAssumption DEF Serial
<1> QED BY <1>1, StreamerAssumption DEF TypeOK, Hands

(* Who has the connection of s.st.                                         *)
LEMMA ConnHolderStep ==
  ASSUME TypeOK, Places, Hands, Serial, ConnHolder, ~exiting, Next
  PROVE  ConnHolder'
<1> USE StreamerAssumption, AfterPlaces DEF Procs, Callers, ConnHolder
<1> /\ pc \in [Procs -> RunSteps \cup StopSteps \cup CallerSteps]
    /\ held \in Runs \cup {NoRun}
    /\ joins \in [Callers -> Runs \cup {NoRun}]
    /\ cancelled \in SUBSET Runs
    /\ st \in [conn : Runs \cup {NoRun}, pro : Targets \cup {NoTarget},
               path : {"dtls", "rest"}]
  BY DEF TypeOK
<1> Serial
  OBVIOUS
<1>1. CASE \E r \in Runs : Start(r)
  BY <1>1 DEF Start, Goto, streamerVars, proVars, envVars, Serial, Live
<1>2. CASE \E r \in Runs : RunLoop(r)
  BY <1>2 DEF RunLoop, Goto, streamerVars, proVars, envVars, Serial, Live
<1>3. CASE \E r \in Runs : EnsureConfig(r)
  BY <1>3 DEF EnsureConfig, EstablishFails, Goto, streamerVars, proVars,
     envVars, Serial, Live
<1>4. CASE \E r \in Runs : StartStream(r)
  <2>1. PICK r \in Runs : StartStream(r)
    BY <1>4
  <2>2. pc' = [pc EXCEPT ![r] = "dial"] \/ pc' = [pc EXCEPT ![r] = "stopLeft"]
    BY <2>1 DEF StartStream, Goto, AfterRejected
  <2>3. UNCHANGED <<streamerVars, st, open, envVars>> /\ pc[r] = "start"
    BY <2>1 DEF StartStream
  <2> QED BY <2>2, <2>3 DEF streamerVars, envVars, Serial, Live
<1>5. CASE \E r \in Runs : StopLeftover(r)
  BY <1>5 DEF StopLeftover, Goto, streamerVars, proVars, envVars, Serial, Live
<1>6. CASE \E r \in Runs : RestartStream(r)
  <2>1. PICK r \in Runs : RestartStream(r)
    BY <1>6
  <2>2. \/ pc' = [pc EXCEPT ![r] = "dial"] /\ UNCHANGED st
        \/ pc' = [pc EXCEPT ![r] = "sleep"] /\ st' = [st EXCEPT !.path = "rest"]
    BY <2>1 DEF RestartStream, EstablishFails, Goto
  <2>3. UNCHANGED <<streamerVars, open, envVars>> /\ pc[r] = "restart"
    BY <2>1 DEF RestartStream
  <2> QED BY <2>2, <2>3 DEF streamerVars, envVars, Serial, Live
<1>7. CASE \E r \in Runs : Dial(r)
  BY <1>7 DEF Dial, Goto, streamerVars, proVars, envVars, Serial, Live
<1>8. CASE \E r \in Runs : UndoStart(r)
  BY <1>8 DEF UndoStart, EstablishFails, Goto, streamerVars, proVars, envVars,
     Serial, Live
<1>9. CASE \E r \in Runs : Established(r)
  BY <1>9 DEF Established, Goto, streamerVars, proVars, envVars, Serial, Live
<1>10. CASE \E r \in Runs : SendLoopEnds(r)
  BY <1>10 DEF SendLoopEnds, Goto, streamerVars, proVars, envVars, Serial, Live
<1>11. CASE \E r \in Runs : SendFails(r)
  BY <1>11 DEF SendFails, Goto, streamerVars, proVars, envVars, Serial, Live
<1>12. CASE \E r \in Runs : BackoffEnds(r)
  BY <1>12 DEF BackoffEnds, Goto, streamerVars, proVars, envVars, Serial, Live
<1>13. CASE \E p \in Procs : TeardownTake(p)
  BY <1>13 DEF TeardownTake, StreamPro, Goto, streamerVars, proVars, envVars,
     Serial, Live
<1>14. CASE \E p \in Procs : TeardownClose(p)
  BY <1>14 DEF TeardownClose, ConnClosed, HadStream, Goto, streamerVars,
     proVars, envVars, Serial, Live
<1>15. CASE \E p \in Procs : TeardownStop(p)
  BY <1>15 DEF TeardownStop, Goto, streamerVars, proVars, envVars, Serial, Live
<1>16. CASE \E c \in Callers : StopTake(c)
  BY <1>16 DEF StopTake, Goto, streamerVars, proVars, envVars, Serial, Live
<1>17. CASE \E c \in Callers : StopCancel(c)
  BY <1>17 DEF StopCancel, CancelledBy, Goto, streamerVars, proVars, envVars,
     Serial, Live
<1>18. CASE \E c \in Callers : StopJoin(c)
  BY <1>18 DEF StopJoin, Joined, Goto, streamerVars, proVars, envVars, Serial,
     Live
<1>19. CASE \/ \E t \in Targets \cup {NoTarget} : Retarget(t) \/ LampsChange(t)
             \/ Shutdown \/ Exit \/ UNCHANGED vars
  BY <1>19 DEF Retarget, LampsChange, Shutdown, Exit, vars, streamerVars, proVars, envVars,
     Serial, Live
<1> QED
  BY <1>1, <1>2, <1>3, <1>4, <1>5, <1>6, <1>7, <1>8, <1>9, <1>10, <1>11, <1>12,
     <1>13, <1>14, <1>15, <1>16, <1>17, <1>18, <1>19
  DEF Next, RunStep, CallerStep, StopStep, Procs

(* Every open connection has an owner.                                     *)
LEMMA OwnedStep ==
  ASSUME TypeOK, Places, Hands, Serial, ConnHolder, Owned, ~exiting, Next
  PROVE  Owned'
<1> USE StreamerAssumption, AfterPlaces DEF Procs, Callers, Owned
<1> /\ pc \in [Procs -> RunSteps \cup StopSteps \cup CallerSteps]
    /\ st \in [conn : Runs \cup {NoRun}, pro : Targets \cup {NoTarget},
               path : {"dtls", "rest"}]
    /\ taken \in [Procs -> Holding]
    /\ open \in SUBSET Runs
  BY DEF TypeOK
<1>1. CASE \E r \in Runs : Start(r)
  BY <1>1 DEF Start, Goto, streamerVars, proVars, envVars, Nothing, Holding
<1>2. CASE \E r \in Runs : RunLoop(r)
  BY <1>2 DEF RunLoop, Goto, streamerVars, proVars, envVars, Nothing, Holding
<1>3. CASE \E r \in Runs : EnsureConfig(r)
  BY <1>3 DEF EnsureConfig, EstablishFails, Goto, streamerVars, proVars,
     envVars, Nothing, Holding
<1>4. CASE \E r \in Runs : StartStream(r)
  <2>1. PICK r \in Runs : StartStream(r)
    BY <1>4
  <2>2. pc' = [pc EXCEPT ![r] = "dial"] \/ pc' = [pc EXCEPT ![r] = "stopLeft"]
    BY <2>1 DEF StartStream, Goto, AfterRejected
  <2>3. UNCHANGED <<streamerVars, st, open, envVars>> /\ pc[r] = "start"
    BY <2>1 DEF StartStream
  <2> QED BY <2>2, <2>3 DEF streamerVars, envVars, Nothing, Holding
<1>5. CASE \E r \in Runs : StopLeftover(r)
  BY <1>5 DEF StopLeftover, Goto, streamerVars, proVars, envVars, Nothing,
     Holding
<1>6. CASE \E r \in Runs : RestartStream(r)
  <2>1. PICK r \in Runs : RestartStream(r)
    BY <1>6
  <2>2. \/ pc' = [pc EXCEPT ![r] = "dial"] /\ UNCHANGED st
        \/ pc' = [pc EXCEPT ![r] = "sleep"] /\ st' = [st EXCEPT !.path = "rest"]
    BY <2>1 DEF RestartStream, EstablishFails, Goto
  <2>3. UNCHANGED <<streamerVars, open, envVars>> /\ pc[r] = "restart"
    BY <2>1 DEF RestartStream
  <2> QED BY <2>2, <2>3 DEF streamerVars, envVars, Nothing, Holding
<1>7. CASE \E r \in Runs : Dial(r)
  BY <1>7 DEF Dial, Goto, streamerVars, proVars, envVars, Nothing, Holding
<1>8. CASE \E r \in Runs : UndoStart(r)
  BY <1>8 DEF UndoStart, EstablishFails, Goto, streamerVars, proVars, envVars,
     Nothing, Holding
<1>9. CASE \E r \in Runs : Established(r)
  BY <1>9, StoreFindsNothing DEF Established, Goto, streamerVars
<1>10. CASE \E r \in Runs : SendLoopEnds(r)
  BY <1>10 DEF SendLoopEnds, Goto, streamerVars, proVars, envVars, Nothing,
     Holding
<1>11. CASE \E r \in Runs : SendFails(r)
  BY <1>11 DEF SendFails, Goto, streamerVars, proVars, envVars, Nothing, Holding
<1>12. CASE \E r \in Runs : BackoffEnds(r)
  BY <1>12 DEF BackoffEnds, Goto, streamerVars, proVars, envVars, Nothing,
     Holding
<1>13. CASE \E p \in Procs : TeardownTake(p)
  BY <1>13 DEF TeardownTake, Goto, Hands, Holding
<1>14. CASE \E p \in Procs : TeardownClose(p)
  BY <1>14 DEF TeardownClose, ConnClosed, HadStream, Goto, streamerVars,
     proVars, envVars, Nothing, Holding
<1>15. CASE \E p \in Procs : TeardownStop(p)
  BY <1>15 DEF TeardownStop, Goto, Hands, Nothing, Holding
<1>16. CASE \E c \in Callers : StopTake(c)
  BY <1>16 DEF StopTake, Goto, streamerVars, proVars, envVars, Nothing, Holding
<1>17. CASE \E c \in Callers : StopCancel(c)
  BY <1>17 DEF StopCancel, CancelledBy, Goto, streamerVars, proVars, envVars,
     Nothing, Holding
<1>18. CASE \E c \in Callers : StopJoin(c)
  BY <1>18 DEF StopJoin, Joined, Goto, streamerVars, proVars, envVars, Nothing,
     Holding
<1>19. CASE \/ \E t \in Targets \cup {NoTarget} : Retarget(t) \/ LampsChange(t)
             \/ Shutdown \/ Exit \/ UNCHANGED vars
  BY <1>19 DEF Retarget, LampsChange, Shutdown, Exit, vars, streamerVars, proVars, envVars,
     Nothing, Holding
<1> QED
  BY <1>1, <1>2, <1>3, <1>4, <1>5, <1>6, <1>7, <1>8, <1>9, <1>10, <1>11, <1>12,
     <1>13, <1>14, <1>15, <1>16, <1>17, <1>18, <1>19
  DEF Next, RunStep, CallerStep, StopStep, Procs

(* Every active area that no failed call left so has somebody to stop it.  *)
LEMMA AreaOwnedStep ==
  ASSUME TypeOK, Places, Hands, Serial, ConnHolder, AreaOwned, ~exiting, Next
  PROVE  AreaOwned'
<1> USE StreamerAssumption, AfterPlaces DEF Procs, Callers
<1> /\ pc \in [Procs -> RunSteps \cup StopSteps \cup CallerSteps]
    /\ dialled \in [Runs -> Targets \cup {NoTarget}]
    /\ st \in [conn : Runs \cup {NoRun}, pro : Targets \cup {NoTarget},
               path : {"dtls", "rest"}]
    /\ taken \in [Procs -> Holding]
  BY DEF TypeOK
<1>1. CASE \E r \in Runs : Start(r)
  BY <1>1 DEF Start, Goto, streamerVars, proVars, envVars, Nothing, Holding,
     AreaOwned
<1>2. CASE \E r \in Runs : RunLoop(r)
  BY <1>2 DEF RunLoop, Goto, streamerVars, proVars, envVars, Nothing, Holding,
     AreaOwned
<1>3. CASE \E r \in Runs : EnsureConfig(r)
  <2>1. PICK r \in Runs : EnsureConfig(r)
    BY <1>3
  <2>2. dialled[r] \in Targets /\ pc[r] = "ensure"
    BY <2>1 DEF EnsureConfig, Places, Dialling
  <2>3. \A u \in Targets : area'[u] /\ u \notin leaked' => area[u] /\ u \notin leaked
    BY <2>1, <2>2, ClearEffect DEF EnsureConfig, proVars
  <2>4. UNCHANGED streamerVars /\ st'.pro = st.pro
        /\ (pc' = [pc EXCEPT ![r] = "start"] \/ pc' = [pc EXCEPT ![r] = "sleep"])
    BY <2>1 DEF EnsureConfig, EstablishFails, Goto
  <2> QED BY <2>2, <2>3, <2>4 DEF AreaOwned, streamerVars
<1>4. CASE \E r \in Runs : StartStream(r)
  <2>1. PICK r \in Runs : StartStream(r)
    BY <1>4
  <2>2. dialled[r] \in Targets /\ pc[r] = "start" /\ UNCHANGED <<streamerVars, st>>
    BY <2>1 DEF StartStream, Places, Dialling
  <2>3. CASE ProStart(dialled[r], TRUE) /\ Goto(r, "dial")
    <3>1. \A u \in Targets : area'[u] /\ u \notin leaked'
            => (area[u] /\ u \notin leaked) \/ u = dialled[r]
      BY <2>2, <2>3, StartEffect
    <3> QED BY <2>2, <2>3, <3>1 DEF AreaOwned, Goto, streamerVars
  <2>4. CASE ProStart(dialled[r], FALSE) /\ Goto(r, "stopLeft")
    <3>1. \A u \in Targets : area'[u] /\ u \notin leaked' => area[u] /\ u \notin leaked
      BY <2>2, <2>4, StartEffect
    <3> QED BY <2>2, <2>4, <3>1 DEF AreaOwned, Goto, streamerVars
  <2> QED BY <2>1, <2>3, <2>4 DEF StartStream, AfterRejected
<1>5. CASE \E r \in Runs : StopLeftover(r)
  <2>1. PICK r \in Runs : StopLeftover(r)
    BY <1>5
  <2>2. dialled[r] \in Targets /\ pc[r] = "stopLeft" /\ UNCHANGED <<streamerVars, st>>
    BY <2>1 DEF StopLeftover, Places, Dialling
  <2>3. \A u \in Targets : area'[u] /\ u \notin leaked' => area[u] /\ u \notin leaked
    BY <2>1, <2>2, StopEffect DEF StopLeftover
  <2> QED BY <2>1, <2>2, <2>3 DEF StopLeftover, AreaOwned, Goto, streamerVars
<1>6. CASE \E r \in Runs : RestartStream(r)
  <2>1. PICK r \in Runs : RestartStream(r)
    BY <1>6
  <2>2. dialled[r] \in Targets /\ pc[r] = "restart" /\ UNCHANGED streamerVars
    BY <2>1 DEF RestartStream, Places, Dialling
  <2>3. CASE ProStart(dialled[r], TRUE) /\ Goto(r, "dial") /\ UNCHANGED st
    <3>1. \A u \in Targets : area'[u] /\ u \notin leaked'
            => (area[u] /\ u \notin leaked) \/ u = dialled[r]
      BY <2>2, <2>3, StartEffect
    <3> QED BY <2>2, <2>3, <3>1 DEF AreaOwned, Goto, streamerVars
  <2>4. CASE ProStart(dialled[r], FALSE) /\ EstablishFails(r)
    <3>1. \A u \in Targets : area'[u] /\ u \notin leaked' => area[u] /\ u \notin leaked
      BY <2>2, <2>4, StartEffect
    <3> QED BY <2>2, <2>4, <3>1
      DEF AreaOwned, EstablishFails, Goto, streamerVars
  <2> QED BY <2>1, <2>3, <2>4 DEF RestartStream
<1>7. CASE \E r \in Runs : Dial(r)
  BY <1>7 DEF Dial, Goto, streamerVars, proVars, envVars, Nothing, Holding,
     AreaOwned
<1>8. CASE \E r \in Runs : UndoStart(r)
  <2>1. PICK r \in Runs : UndoStart(r)
    BY <1>8
  <2>2. dialled[r] \in Targets /\ pc[r] = "undial" /\ UNCHANGED streamerVars
    BY <2>1 DEF UndoStart, Places, Dialling
  <2>3. \A u \in Targets : area'[u] /\ u \notin leaked'
          => area[u] /\ u \notin leaked /\ u # dialled[r]
    BY <2>1, <2>2, StopEffect DEF UndoStart
  <2> QED BY <2>1, <2>2, <2>3
    DEF UndoStart, EstablishFails, AreaOwned, Goto, streamerVars
<1>9. CASE \E r \in Runs : Established(r)
  BY <1>9, StoreFindsNothing
  DEF Established, AreaOwned, Goto, streamerVars, proVars
<1>10. CASE \E r \in Runs : SendLoopEnds(r)
  BY <1>10 DEF SendLoopEnds, Goto, streamerVars, proVars, envVars, Nothing,
     Holding, AreaOwned
<1>11. CASE \E r \in Runs : SendFails(r)
  BY <1>11 DEF SendFails, Goto, streamerVars, proVars, envVars, Nothing,
     Holding, AreaOwned
<1>12. CASE \E r \in Runs : BackoffEnds(r)
  BY <1>12 DEF BackoffEnds, Goto, streamerVars, proVars, envVars, Nothing,
     Holding, AreaOwned
<1>13. CASE \E p \in Procs : TeardownTake(p)
  BY <1>13 DEF TeardownTake, StreamPro, AreaOwned, Hands, Goto, Holding, proVars
<1>14. CASE \E p \in Procs : TeardownClose(p)
  BY <1>14 DEF TeardownClose, ConnClosed, HadStream, Goto, streamerVars,
     proVars, envVars, Nothing, Holding, AreaOwned
<1>15. CASE \E p \in Procs : TeardownStop(p)
  <2>1. PICK p \in Procs : TeardownStop(p)
    BY <1>15
  <2>2. taken[p].pro \in Targets
    BY <2>1 DEF TeardownStop, TypeOK
  <2>3. \A u \in Targets : area'[u] /\ u \notin leaked'
          => area[u] /\ u \notin leaked /\ u # taken[p].pro
    BY <2>1, <2>2, StopEffect DEF TeardownStop
  <2> QED BY <2>1, <2>2, <2>3
    DEF TeardownStop, AreaOwned, Goto, Holding, Nothing
<1>16. CASE \E c \in Callers : StopTake(c)
  BY <1>16 DEF StopTake, Goto, streamerVars, proVars, envVars, Nothing,
     Holding, AreaOwned
<1>17. CASE \E c \in Callers : StopCancel(c)
  BY <1>17 DEF StopCancel, CancelledBy, Goto, streamerVars, proVars, envVars,
     Nothing, Holding, AreaOwned
<1>18. CASE \E c \in Callers : StopJoin(c)
  BY <1>18 DEF StopJoin, Joined, Goto, streamerVars, proVars, envVars, Nothing,
     Holding, AreaOwned
<1>19. CASE \/ \E t \in Targets \cup {NoTarget} : Retarget(t) \/ LampsChange(t)
             \/ Shutdown \/ Exit \/ UNCHANGED vars
  BY <1>19 DEF Retarget, LampsChange, Shutdown, Exit, vars, streamerVars, proVars, envVars,
     Nothing, Holding, AreaOwned
<1> QED
  BY <1>1, <1>2, <1>3, <1>4, <1>5, <1>6, <1>7, <1>8, <1>9, <1>10, <1>11, <1>12,
     <1>13, <1>14, <1>15, <1>16, <1>17, <1>18, <1>19
  DEF Next, RunStep, CallerStep, StopStep, Procs

-----------------------------------------------------------------------------
(* The theorems.                                                           *)

(* A new process satisfies the invariant, whatever an earlier one left.    *)
LEMMA InitStreamerInv == Init => StreamerInv
<1> SUFFICES ASSUME Init PROVE StreamerInv
  OBVIOUS
<1> USE StreamerAssumption DEF Procs, Callers
<1>1. /\ \A r \in Runs : pc[r] = "new"
      /\ pc[Recv] = "idle" /\ pc[Main] = "serving"
      /\ pc \in [Procs -> RunSteps \cup StopSteps \cup CallerSteps]
  BY DEF Init, RunSteps, CallerSteps
<1>2. TypeOK
  <2>1. \A p \in Procs : pc[p] # "stopStream"
    BY <1>1
  <2>2. exiting \in BOOLEAN /\ exited \in BOOLEAN /\ area \in [Targets -> BOOLEAN]
        /\ leaked \in SUBSET Targets /\ usable \in SUBSET Targets
    BY DEF Init
  <2>3. faults \in 0 .. MaxFaults /\ moves \in 0 .. MaxMoves
    BY DEF Init
  <2> QED BY <1>1, <2>1, <2>2, <2>3 DEF Init, TypeOK, Nothing, Holding
<1>3. Places
  BY <1>1 DEF Places, RunSteps, StopSteps, Dialling
<1>4. Hands
  BY <1>1 DEF Hands, Init, Nothing
<1>5. Serial /\ ConnHolder /\ Owned
  BY <1>1 DEF Serial, ConnHolder, Owned, Init, Live
<1>6. AreaOwned
  BY DEF AreaOwned, Init
<1> QED BY <1>2, <1>3, <1>4, <1>5, <1>6 DEF StreamerInv

(* Every step keeps it.                                                    *)
LEMMA StepStreamerInv == StreamerInv /\ [Next]_vars => StreamerInv'
<1>1. ASSUME StreamerInv, Next
      PROVE  StreamerInv'
  <2> USE <1>1
  <2>1. TypeOK /\ Places /\ Hands
    BY DEF StreamerInv
  <2>2. TypeOK'
    BY <2>1, StreamerTypes, ProTypes DEF TypeOK
  <2>3. Places' /\ Hands'
    BY <2>1, PlacesStep, HandsStep
  <2>4. ASSUME ~exiting'
        PROVE  Serial' /\ ConnHolder' /\ Owned' /\ AreaOwned'
    <3>1. ~exiting
      BY <2>4, StillRunning
    <3>2. Serial /\ ConnHolder /\ Owned /\ AreaOwned
      BY <3>1 DEF StreamerInv
    <3> QED
      BY <2>1, <3>1, <3>2, SerialStep, ConnHolderStep, OwnedStep, AreaOwnedStep
  <2> QED BY <2>2, <2>3, <2>4 DEF StreamerInv
<1>2. ASSUME StreamerInv, UNCHANGED vars
      PROVE  StreamerInv'
  <2> USE <1>2 DEF vars, streamerVars, proVars, envVars
  <2>1. TypeOK' /\ Places' /\ Hands'
    BY DEF StreamerInv, TypeOK, Places, Hands
  <2>2. ~exiting' => Serial' /\ ConnHolder' /\ Owned' /\ AreaOwned'
    BY DEF StreamerInv, Serial, ConnHolder, Owned, AreaOwned, Live
  <2> QED BY <2>1, <2>2 DEF StreamerInv
<1> QED BY <1>1, <1>2

(* The inductive invariant holds, and with it the types.                   *)
THEOREM StreamerInvariant == Spec => []StreamerInv
BY InitStreamerInv, StepStreamerInv, PTL DEF Spec

(* StopStream never goes through a nil client, and every counter keeps its *)
(* bound.                                                                  *)
THEOREM StreamerTypesHold == Spec => []TypeOK
<1>1. StreamerInv => TypeOK
  BY DEF StreamerInv
<1> QED BY <1>1, StreamerInvariant, PTL

(* Start and Stop are serial: for any number of streams, however Stop and  *)
(* the establishment interleave, at most one run goroutine is alive until  *)
(* the process shuts down.                                                 *)
THEOREM AlwaysOneRun == Spec => []OneRun
<1>1. StreamerInv => OneRun
  BY SerialOneRun DEF StreamerInv, OneRun
<1> QED BY <1>1, StreamerInvariant, PTL

(* No connection to the Pro is lost by establish, sendLoop and teardown.   *)
THEOREM ConnsAlwaysOwned == Spec => []ConnsOwned
<1>1. StreamerInv => ConnsOwned
  BY DEF StreamerInv, ConnsOwned, Owned
<1> QED BY <1>1, StreamerInvariant, PTL

(* When the receiver's Stop has returned, no area of the Pro is active but *)
(* through a failed call or an earlier process, for any pairings and any   *)
(* number of pairing changes and faults.                                   *)
THEOREM StopReleasesArea == Spec => []AreaReleased
<1>1. ASSUME StreamerInv, ~exiting, pc[Recv] = "idle",
             NEW t \in Targets, area[t], t \notin leaked
      PROVE  FALSE
  <2>0. TypeOK /\ Hands /\ Serial /\ ConnHolder /\ AreaOwned
    BY <1>1 DEF StreamerInv
  <2>1. \A r \in Runs : ~Live(r)
    BY <1>1, <2>0, StreamerAssumption DEF Serial
  <2>2. st.pro # t
    BY <1>1, <2>0, <2>1, StreamerAssumption DEF Hands, ConnHolder, Live, TypeOK
  <2>3. \A p \in Procs : taken[p].pro # t
    BY <1>1, <2>0, <2>1, StreamerAssumption
    DEF Hands, Procs, Callers, Live, Serial
  <2>4. \A r \in Runs : pc[r] \notin {"dial", "undial", "store"}
    BY <2>1 DEF Live
  <2> QED BY <1>1, <2>0, <2>2, <2>3, <2>4 DEF AreaOwned
<1>2. StreamerInv => AreaReleased
  BY <1>1 DEF AreaReleased
<1> QED BY <1>2, StreamerInvariant, PTL

-----------------------------------------------------------------------------
(* The shutdown included.                                                  *)

(* Every live run can still be ended: the streamer holds its cancel, or a  *)
(* Stop has taken it and waits for the run; a cancelled run is waited for. *)
Accounted ==
  /\ \A c \in Callers : joins[c] # NoRun => pc[c] \in {"cancel", "join"}
  /\ \A r \in Runs : Live(r) => held = r \/ \E c \in Callers : joins[c] = r
  /\ \A r \in Runs :
       held = r \/ (\E c \in Callers : joins[c] = r) \/ r \in cancelled => pc[r] # "new"
  /\ \A r \in Runs : Live(r) /\ r \in cancelled =>
       \E c \in Callers : joins[c] = r /\ pc[c] = "join"

(* A step of a live run moves that run alone, and never back to the start; *)
(* a teardown is all that Stop and a run have in common.                   *)
LEMMA RunMoves ==
  ASSUME TypeOK, Places, NEW r \in Runs, RunStep(r)
  PROVE  /\ \E step \in (RunSteps \cup TearingDown) \ {"new"} : pc' = [pc EXCEPT ![r] = step]
         /\ UNCHANGED <<held, joins, cancelled>> /\ Live(r)
<1> USE AfterPlaces DEF RunSteps, TearingDown, Goto, streamerVars, Live, EstablishFails
<1>1. CASE RunLoop(r) \/ EnsureConfig(r)
  BY <1>1 DEF RunLoop, EnsureConfig
<1>2. CASE StartStream(r) \/ StopLeftover(r) \/ RestartStream(r)
  BY <1>2 DEF StartStream, StopLeftover, RestartStream, AfterRejected
<1>3. CASE Dial(r) \/ UndoStart(r) \/ Established(r)
  BY <1>3 DEF Dial, UndoStart, Established
<1>4. CASE SendLoopEnds(r) \/ SendFails(r) \/ BackoffEnds(r)
  BY <1>4 DEF SendLoopEnds, SendFails, BackoffEnds
<1>5. CASE StopStep(r)
  BY <1>5 DEF StopStep, TeardownTake, TeardownClose, TeardownStop
<1> QED BY <1>1, <1>2, <1>3, <1>4, <1>5 DEF RunStep

(* Every step keeps it, the steps of two Stops beside each other included. *)
LEMMA AccountedStep ==
  ASSUME TypeOK, Places, Accounted, [Next]_vars
  PROVE  Accounted'
<1> USE StreamerAssumption DEF Procs, Callers, Live
<1> /\ pc \in [Procs -> RunSteps \cup StopSteps \cup CallerSteps]
    /\ held \in Runs \cup {NoRun}
    /\ joins \in [Callers -> Runs \cup {NoRun}]
    /\ cancelled \in SUBSET Runs
  BY DEF TypeOK
<1>1. ASSUME NEW r \in Runs, Start(r)  PROVE Accounted'
  BY <1>1 DEF Start, Goto, Accounted
<1>2. ASSUME NEW r \in Runs, RunStep(r)  PROVE Accounted'
  <2>1. PICK step \in (RunSteps \cup TearingDown) \ {"new"} : pc' = [pc EXCEPT ![r] = step]
    BY <1>2, RunMoves
  <2>2. UNCHANGED <<held, joins, cancelled>> /\ Live(r)
    BY <1>2, RunMoves
  <2> QED BY <2>1, <2>2 DEF Accounted
<1>3. ASSUME NEW c \in Callers, StopTake(c)  PROVE Accounted'
  BY <1>3 DEF StopTake, Goto, Accounted
<1>4. ASSUME NEW c \in Callers, StopCancel(c)  PROVE Accounted'
  BY <1>4 DEF StopCancel, CancelledBy, Goto, Accounted
<1>5. ASSUME NEW c \in Callers, StopJoin(c)  PROVE Accounted'
  BY <1>5 DEF StopJoin, Joined, Goto, Accounted
<1>6. ASSUME NEW c \in Callers, StopStep(c)  PROVE Accounted'
  <2>1. PICK step : pc' = [pc EXCEPT ![c] = step]
    BY <1>6 DEF StopStep, TeardownTake, TeardownClose, TeardownStop, Goto
  <2>2. UNCHANGED <<held, joins, cancelled>> /\ pc[c] \in TearingDown
    BY <1>6 DEF StopStep, TeardownTake, TeardownClose, TeardownStop, TearingDown
  <2> QED BY <2>1, <2>2 DEF Accounted, TearingDown
<1>7. ASSUME UNCHANGED <<pc, held, joins, cancelled>>  PROVE Accounted'
  BY <1>7 DEF Accounted
<1>8. CASE \/ \E t \in Targets \cup {NoTarget} : Retarget(t) \/ LampsChange(t)
            \/ Shutdown \/ Exit \/ UNCHANGED vars
  BY <1>7, <1>8 DEF Retarget, LampsChange, Shutdown, Exit, vars, streamerVars
<1> QED
  BY <1>1, <1>2, <1>3, <1>4, <1>5, <1>6, <1>8 DEF Next, CallerStep

(* No run goroutine is abandoned, at any time: even while main's Stop runs *)
(* beside the receiver's, a live run is held by the streamer or some Stop  *)
(* waits for it.  So when no Stop is waiting and nothing is held, no run   *)
(* is alive.                                                               *)
THEOREM NoRunAbandoned ==
  Spec => []( /\ Accounted
              /\ held = NoRun /\ (\A c \in Callers : pc[c] \notin {"cancel", "join"}) =>
                   \A r \in Runs : ~Live(r) )
<1>1. Init => Accounted
  BY StreamerAssumption DEF Init, Accounted, Live, Procs, Callers
<1>2. Accounted => (held = NoRun /\ (\A c \in Callers : pc[c] \notin {"cancel", "join"}) =>
                      \A r \in Runs : ~Live(r))
  BY StreamerAssumption DEF Accounted
<1>3. StreamerInv /\ Accounted /\ [Next]_vars => Accounted'
  BY AccountedStep DEF StreamerInv
<1> QED BY <1>1, <1>2, <1>3, StreamerInvariant, PTL DEF Spec

-----------------------------------------------------------------------------
(* The colours, from here on.  First facts about numbers and lists.         *)

(* A non-empty set of numbers has a least member ...                       *)
LEMMA LeastNat ==
  ASSUME NEW S \in SUBSET Nat, S # {}
  PROVE  \E x \in S : \A y \in S : x <= y
  <1>1. PICK x \in S : \A y \in S : ~(<<y, x>> \in OpToRel(<, Nat))
    BY NatLessThanWellFounded, WFMin
  <1>2. \A y \in S : ~(y < x)
    BY <1>1 DEF OpToRel
  <1> QED
    BY <1>2

(* ... and, if it is bounded, a greatest one.                              *)
LEMMA GreatestNat ==
  ASSUME NEW S \in SUBSET Nat, S # {}, NEW n \in Nat, \A y \in S : y <= n
  PROVE  \E x \in S : \A y \in S : y <= x
  <1> DEFINE T == {n - y : y \in S}
  <1>1. T \in SUBSET Nat
    <2>1. \A y \in S : n - y \in Nat
      OBVIOUS
    <2> QED
      BY <2>1
  <1>2. T # {}
    <2>1. PICK y \in S : TRUE
      OBVIOUS
    <2>2. n - y \in T
      OBVIOUS
    <2> QED
      BY <2>2
  <1> HIDE DEF T
  <1>3. PICK t \in T : \A u \in T : t <= u
    BY <1>1, <1>2, LeastNat
  <1>4. PICK x \in S : t = n - x
    BY DEF T
  <1>5. \A y \in S : n - x <= n - y
    BY <1>3, <1>4 DEF T
  <1> QED
    BY <1>5

(* The intervals that begin with 0 or 1.                                   *)
LEMMA Intervals ==
  ASSUME NEW n \in Nat
  PROVE  /\ IsFiniteSet(1 .. n) /\ Cardinality(1 .. n) = n
         /\ IsFiniteSet(0 .. n - 1) /\ Cardinality(0 .. n - 1) = n
  <1>1. n - 1 \in Int /\ 0 \in Int /\ 1 \in Int /\ n \in Int
    OBVIOUS
  <1>2. /\ IsFiniteSet(1 .. n)
        /\ Cardinality(1 .. n) = IF 1 > n THEN 0 ELSE n - 1 + 1
    BY <1>1, FS_Interval, Zenon
  <1>3. /\ IsFiniteSet(0 .. n - 1)
        /\ Cardinality(0 .. n - 1) = IF 0 > n - 1 THEN 0 ELSE (n - 1) - 0 + 1
    BY <1>1, FS_Interval, Zenon
  <1> QED
    BY <1>2, <1>3

(* How many members of S lie below x.                                      *)
Rank(S, x) == Cardinality({y \in S : y < x})

(* Ranks number the members of a finite set from 0 without a gap.          *)
LEMMA Ranks ==
  ASSUME NEW S \in SUBSET Nat, IsFiniteSet(S)
  PROVE  /\ Cardinality(S) \in Nat
         /\ \A x \in S : Rank(S, x) \in 0 .. Cardinality(S) - 1
         /\ \A x, y \in S : Rank(S, x) = Rank(S, y) => x = y
         /\ \A x, y \in S : x < y => Rank(S, x) < Rank(S, y)
         /\ \A k \in 0 .. Cardinality(S) - 1 : \E x \in S : Rank(S, x) = k
  <1> DEFINE n == Cardinality(S)
             r == [x \in S |-> Rank(S, x)]
  <1>1. n \in Nat
    BY FS_CardinalityType
  <1>2. ASSUME NEW x \in S  PROVE Rank(S, x) \in 0 .. n - 1
    <2> DEFINE B == {y \in S : y < x}
    <2>1. B \in SUBSET S /\ B # S
      OBVIOUS
    <2> HIDE DEF B
    <2>2. IsFiniteSet(B) /\ Cardinality(B) <= n /\ Cardinality(B) # n
      BY <2>1, FS_Subset
    <2>3. Cardinality(B) \in Nat
      BY <2>2, FS_CardinalityType
    <2> QED
      BY <1>1, <2>2, <2>3 DEF B, Rank
  <1>3. ASSUME NEW x \in S, NEW y \in S, x < y  PROVE Rank(S, x) < Rank(S, y)
    <2> DEFINE B == {z \in S : z < x}
               C == {z \in S : z < y}
    <2>1. B \in SUBSET C /\ B # C /\ C \in SUBSET S
      <3>1. x \in C /\ x \notin B
        BY <1>3
      <3>2. \A z \in S : z < x => z < y
        BY <1>3
      <3> QED
        BY <3>1, <3>2
    <2> HIDE DEF B, C
    <2>2. IsFiniteSet(C)
      BY <2>1, FS_Subset
    <2>3. Cardinality(B) <= Cardinality(C) /\ Cardinality(B) # Cardinality(C)
      BY <2>1, <2>2, FS_Subset
    <2> QED
      BY <2>3, <1>2 DEF B, C, Rank
  <1>4. \A x, y \in S : Rank(S, x) = Rank(S, y) => x = y
    <2> SUFFICES ASSUME NEW x \in S, NEW y \in S, x # y  PROVE Rank(S, x) # Rank(S, y)
      OBVIOUS
    <2>1. x < y \/ y < x
      OBVIOUS
    <2> QED
      BY <2>1, <1>2, <1>3
  <1>5. r \in Injection(S, 0 .. n - 1)
    BY <1>2, <1>4 DEF Injection, IsInjective
  <1>6. IsFiniteSet(0 .. n - 1) /\ Cardinality(0 .. n - 1) = n
    BY <1>1, Intervals
  <1>7. r \in Surjection(S, 0 .. n - 1)
    BY <1>5, <1>6, FS_Injection
  <1> QED
    BY <1>1, <1>2, <1>3, <1>4, <1>7 DEF Surjection

(* Ascending lists every member of a finite set once, in ascending order.  *)
LEMMA AscendingLists ==
  ASSUME NEW S \in SUBSET Nat, IsFiniteSet(S)
  PROVE  /\ Cardinality(S) \in Nat
         /\ DOMAIN Ascending(S) = 1 .. Cardinality(S)
         /\ \A i \in DOMAIN Ascending(S) :
              Ascending(S)[i] \in S /\ Rank(S, Ascending(S)[i]) = i - 1
         /\ \A i, j \in DOMAIN Ascending(S) : Ascending(S)[i] = Ascending(S)[j] => i = j
         /\ \A i, j \in DOMAIN Ascending(S) : Ascending(S)[i] < Ascending(S)[j] => i < j
         /\ \A x \in S : \E i \in DOMAIN Ascending(S) : Ascending(S)[i] = x
  <1> DEFINE n == Cardinality(S)
             a == Ascending(S)
  <1>1. n \in Nat /\ DOMAIN a = 1 .. n
    BY Ranks DEF Ascending
  <1>2. ASSUME NEW i \in 1 .. n  PROVE a[i] \in S /\ Rank(S, a[i]) = i - 1
    <2>1. i - 1 \in 0 .. n - 1
      BY <1>1
    <2>2. \E x \in S : Rank(S, x) = i - 1
      BY <2>1, Ranks
    <2>3. a[i] = CHOOSE x \in S : Rank(S, x) = i - 1
      BY DEF Ascending, Rank
    <2> QED
      BY <2>2, <2>3
  <1>3. ASSUME NEW x \in S  PROVE \E i \in 1 .. n : a[i] = x
    <2>1. Rank(S, x) \in 0 .. n - 1
      BY Ranks
    <2>2. Rank(S, x) + 1 \in 1 .. n
      BY <1>1, <2>1
    <2>3. a[Rank(S, x) + 1] \in S /\ Rank(S, a[Rank(S, x) + 1]) = Rank(S, x)
      BY <1>2, <2>1, <2>2
    <2>4. \A y, z \in S : Rank(S, y) = Rank(S, z) => y = z
      BY Ranks, Zenon
    <2>5. a[Rank(S, x) + 1] = x
      BY <2>3, <2>4, Zenon
    <2> QED
      BY <2>2, <2>5
  <1>4. \A i, j \in 1 .. n : a[i] = a[j] => i = j
    BY <1>1, <1>2
  <1>5. ASSUME NEW i \in 1 .. n, NEW j \in 1 .. n, a[i] < a[j]  PROVE i < j
    <2>1. Rank(S, a[i]) < Rank(S, a[j])
      BY <1>2, <1>5, Ranks
    <2> QED
      BY <1>1, <1>2, <2>1
  <1> QED
    BY <1>1, <1>2, <1>3, <1>4, <1>5

(* The ascending list of 1 .. n is 1 .. n.                                 *)
LEMMA AscendingInterval ==
  ASSUME NEW n \in Nat
  PROVE  Ascending(1 .. n) = [i \in 1 .. n |-> i]
  <1>1. IsFiniteSet(1 .. n) /\ Cardinality(1 .. n) = n
    BY Intervals
  <1> DEFINE S == 1 .. n
             Nth(i) == CHOOSE x \in S : Cardinality({y \in S : y < x}) = i - 1
  <1>2. S \in SUBSET Nat
    OBVIOUS
  <1>3. ASSUME NEW i \in S  PROVE Nth(i) = i
    <2>1. {y \in S : y < i} = 1 .. (i - 1) /\ i - 1 \in Nat
      OBVIOUS
    <2>2. Cardinality({y \in S : y < i}) = i - 1
      BY <2>1, Intervals
    <2>3. Nth(i) \in S /\ Cardinality({y \in S : y < Nth(i)}) = i - 1
      BY <2>2, Zenon
    <2> HIDE DEF S, Nth
    <2>4. Rank(S, i) = Rank(S, Nth(i))
      BY <2>2, <2>3 DEF Rank
    <2>5. IsFiniteSet(S)
      BY <1>1 DEF S
    <2>6. \A y, z \in S : Rank(S, y) = Rank(S, z) => y = z
      BY <1>2, <2>5, Ranks, Zenon
    <2> QED
      BY <2>3, <2>4, <2>6, Zenon
  <1>4. Ascending(S) = [i \in 1 .. Cardinality(S) |-> Nth(i)]
    BY DEF Ascending
  <1> HIDE DEF Nth
  <1> QED
    BY <1>1, <1>3, <1>4

-----------------------------------------------------------------------------
(* The codec.                                                              *)

(* The bounds of the two ranges.                                           *)
LEMMA Widths ==
  /\ MaxU16 \in Nat /\ MaxByte \in Nat /\ MaxByte <= MaxU16
  /\ \A x : x \in U16 <=> x \in Int /\ 0 <= x /\ x <= MaxU16
  /\ \A x : x \in Byte <=> x \in Int /\ 0 <= x /\ x <= MaxByte
  <1>1. MaxU16 \in Nat /\ MaxByte \in Nat /\ MaxByte <= MaxU16
    BY DEF MaxU16, MaxByte
  <1>2. \A x : x \in U16 <=> x \in Int /\ 0 <= x /\ x <= MaxU16
    BY <1>1 DEF U16
  <1>3. \A x : x \in Byte <=> x \in Int /\ 0 <= x /\ x <= MaxByte
    BY <1>1 DEF Byte
  <1> QED
    BY <1>1, <1>2, <1>3

(* A 16-bit number is the pair of its bytes.                               *)
LEMMA Bytes ==
  ASSUME NEW v \in U16
  PROVE  256 * (v \div 256) + (v % 256) = v
  BY Widths

(* Every byte of every record is in its place.                             *)
LEMMA ConcatPlaces ==
  ASSUME NEW sz \in {7, 9}, NEW n \in Nat, NEW X, NEW r \in [1 .. n -> X]
  PROVE  Concat(r, sz) = [k \in 1 .. sz * n |-> r[(k - 1) \div sz + 1][((k - 1) % sz) + 1]]
  <1>1. Len(r) = n
    OBVIOUS
  <1> QED
    BY <1>1 DEF Concat

Channels == [ID : U16, A : U16, B : U16, C : U16]

(* The bytes of a v2 record.                                               *)
LEMMA RecordBytes ==
  ASSUME NEW c
  PROVE  /\ Record(2, c)[1] = c.ID
         /\ Record(2, c)[2] = c.A \div 256 /\ Record(2, c)[3] = c.A % 256
         /\ Record(2, c)[4] = c.B \div 256 /\ Record(2, c)[5] = c.B % 256
         /\ Record(2, c)[6] = c.C \div 256 /\ Record(2, c)[7] = c.C % 256
  BY DEF Record, AppendU16

(* The bytes of channel c as record i of a v1 or a v2 body.                *)
InPlaceV1(b, i, c) ==
  /\ b[i * 9 - 7] = c.ID \div 256 /\ b[i * 9 - 6] = c.ID % 256
  /\ b[i * 9 - 5] = c.A \div 256 /\ b[i * 9 - 4] = c.A % 256
  /\ b[i * 9 - 3] = c.B \div 256 /\ b[i * 9 - 2] = c.B % 256
  /\ b[i * 9 - 1] = c.C \div 256 /\ b[i * 9] = c.C % 256

InPlaceV2(b, i, c) ==
  /\ b[i * 7 - 6] = c.ID
  /\ b[i * 7 - 5] = c.A \div 256 /\ b[i * 7 - 4] = c.A % 256
  /\ b[i * 7 - 3] = c.B \div 256 /\ b[i * 7 - 2] = c.B % 256
  /\ b[i * 7 - 1] = c.C \div 256 /\ b[i * 7] = c.C % 256

(* Parse finds the channels of the complete records of a v1 datagram ...   *)
LEMMA ParsedV1 ==
  ASSUME NEW m \in Nat, NEW c \in [1 .. m -> Channels], NEW b, Len(b) \div 9 = m,
         \A i \in 1 .. m : InPlaceV1(b, i, c[i])
  PROVE  Parse([major |-> 1, body |-> b]).channels = c
  <1> DEFINE U(k) == 256 * b[k] + b[k + 1]
             At(end) == Channel(U(end - 7), U(end - 5), U(end - 3), U(end - 1))
             d == [major |-> 1, body |-> b]
  <1>1. Parse(d).channels = [i \in 1 .. m |-> At(i * 9)]
    <2> DEFINE sz == Size(d.major)
               V(k) == 256 * d.body[k] + d.body[k + 1]
               Any(e) == Channel(IF d.major = 2 THEN d.body[e - 6] ELSE V(e - 7),
                                 V(e - 5), V(e - 3), V(e - 1))
    <2>1. d.major # 2 /\ d.body = b /\ sz = 9
      BY DEF Size
    <2>2. Parse(d).channels = [i \in 1 .. Len(d.body) \div sz |-> Any(i * sz)]
      BY DEF Parse
    <2>3. \A e : Any(e) = At(e)
      BY <2>1
    <2> HIDE DEF Any, At, d, sz
    <2> QED
      BY <2>1, <2>2, <2>3
  <1>2. ASSUME NEW i \in 1 .. m  PROVE At(i * 9) = c[i]
    <2> DEFINE end == i * 9
    <2>1. c[i] \in Channels
      OBVIOUS
    <2>2. c[i].ID \in U16 /\ c[i].A \in U16 /\ c[i].B \in U16 /\ c[i].C \in U16
      BY <2>1 DEF Channels
    <2>3. c[i] = Channel(c[i].ID, c[i].A, c[i].B, c[i].C)
      BY <2>1 DEF Channels, Channel
    <2>0. InPlaceV1(b, i, c[i])
      OBVIOUS
    <2>4. U(end - 7) = c[i].ID
      <3>1. b[end - 7] = c[i].ID \div 256 /\ b[end - 7 + 1] = c[i].ID % 256
        BY <2>0 DEF InPlaceV1
      <3>2. 256 * (c[i].ID \div 256) + (c[i].ID % 256) = c[i].ID
        BY <2>2, Bytes
      <3> QED
        BY <3>1, <3>2, Zenon
    <2>5. U(end - 5) = c[i].A
      <3>1. b[end - 5] = c[i].A \div 256 /\ b[end - 5 + 1] = c[i].A % 256
        BY <2>0 DEF InPlaceV1
      <3>2. 256 * (c[i].A \div 256) + (c[i].A % 256) = c[i].A
        BY <2>2, Bytes
      <3> QED
        BY <3>1, <3>2, Zenon
    <2>6. U(end - 3) = c[i].B
      <3>1. b[end - 3] = c[i].B \div 256 /\ b[end - 3 + 1] = c[i].B % 256
        BY <2>0 DEF InPlaceV1
      <3>2. 256 * (c[i].B \div 256) + (c[i].B % 256) = c[i].B
        BY <2>2, Bytes
      <3> QED
        BY <3>1, <3>2, Zenon
    <2>7. U(end - 1) = c[i].C
      <3>1. b[end - 1] = c[i].C \div 256 /\ b[end - 1 + 1] = c[i].C % 256
        BY <2>0 DEF InPlaceV1
      <3>2. 256 * (c[i].C \div 256) + (c[i].C % 256) = c[i].C
        BY <2>2, Bytes
      <3> QED
        BY <3>1, <3>2, Zenon
    <2> HIDE DEF end, U
    <2> QED
      BY <2>3, <2>4, <2>5, <2>6, <2>7 DEF end
  <1> HIDE DEF At
  <1> QED
    BY <1>1, <1>2

(* ... and of a v2 datagram.                                               *)
LEMMA ParsedV2 ==
  ASSUME NEW m \in Nat, NEW c \in [1 .. m -> Channels], NEW b, Len(b) \div 7 = m,
         \A i \in 1 .. m : InPlaceV2(b, i, c[i])
  PROVE  Parse([major |-> 2, body |-> b]).channels = c
  <1> DEFINE U(k) == 256 * b[k] + b[k + 1]
             At(end) == Channel(b[end - 6], U(end - 5), U(end - 3), U(end - 1))
             d == [major |-> 2, body |-> b]
  <1>1. Parse(d).channels = [i \in 1 .. m |-> At(i * 7)]
    <2>1. d.major = 2 /\ d.body = b /\ Size(d.major) = 7
      BY DEF Size
    <2> QED
      BY <2>1 DEF Parse
  <1>2. ASSUME NEW i \in 1 .. m  PROVE At(i * 7) = c[i]
    <2> DEFINE end == i * 7
    <2>1. c[i] \in Channels
      OBVIOUS
    <2>2. c[i].ID \in U16 /\ c[i].A \in U16 /\ c[i].B \in U16 /\ c[i].C \in U16
      BY <2>1 DEF Channels
    <2>3. c[i] = Channel(c[i].ID, c[i].A, c[i].B, c[i].C)
      BY <2>1 DEF Channels, Channel
    <2>0. InPlaceV2(b, i, c[i])
      OBVIOUS
    <2>4. b[end - 6] = c[i].ID
      BY <2>0 DEF InPlaceV2
    <2>5. U(end - 5) = c[i].A
      <3>1. b[end - 5] = c[i].A \div 256 /\ b[end - 5 + 1] = c[i].A % 256
        BY <2>0 DEF InPlaceV2
      <3>2. 256 * (c[i].A \div 256) + (c[i].A % 256) = c[i].A
        BY <2>2, Bytes
      <3> QED
        BY <3>1, <3>2, Zenon
    <2>6. U(end - 3) = c[i].B
      <3>1. b[end - 3] = c[i].B \div 256 /\ b[end - 3 + 1] = c[i].B % 256
        BY <2>0 DEF InPlaceV2
      <3>2. 256 * (c[i].B \div 256) + (c[i].B % 256) = c[i].B
        BY <2>2, Bytes
      <3> QED
        BY <3>1, <3>2, Zenon
    <2>7. U(end - 1) = c[i].C
      <3>1. b[end - 1] = c[i].C \div 256 /\ b[end - 1 + 1] = c[i].C % 256
        BY <2>0 DEF InPlaceV2
      <3>2. 256 * (c[i].C \div 256) + (c[i].C % 256) = c[i].C
        BY <2>2, Bytes
      <3> QED
        BY <3>1, <3>2, Zenon
    <2> HIDE DEF end, U
    <2> QED
      BY <2>3, <2>4, <2>5, <2>6, <2>7 DEF end
  <1> HIDE DEF At
  <1> QED
    BY <1>1, <1>2

(* What the TV may send a lamp.                                            *)
(* The colours the TV may send to lamp l.                                  *)
Picture(l) == {Colour(l, v) : v \in Values}

(* The components of the picture.                                          *)
LEMMA PictureChannels ==
  ASSUME NEW l \in Lamps, NEW v \in Values
  PROVE  /\ Colour(l, v) \in Channels
         /\ Colour(l, v).ID = l /\ Colour(l, v).A = v
         /\ Colour(l, v).B = MaxU16 - v /\ Colour(l, v).C = v \div 2
  <1>1. l \in U16 /\ v \in U16
    BY FramesAssumption
  <1>2. v \in Int /\ 0 <= v /\ v <= MaxU16 /\ MaxU16 \in Nat
    BY <1>1, Widths
  <1>3. MaxU16 - v \in Int /\ 0 <= MaxU16 - v /\ MaxU16 - v <= MaxU16
    BY <1>2
  <1>4. v \div 2 \in Int /\ 0 <= v \div 2 /\ v \div 2 <= MaxU16
    BY <1>2
  <1>5. MaxU16 - v \in U16 /\ v \div 2 \in U16
    BY <1>3, <1>4, Widths
  <1> QED
    BY <1>1, <1>5 DEF Colour, Channel, Channels

(* The TV drives finitely many lamps, ...                                  *)
LEMMA LampsFinite == Lamps \in SUBSET Nat /\ IsFiniteSet(Lamps)
  <1>1. Lamps \subseteq U16
    BY FramesAssumption
  <1>2. MaxU16 \in Nat /\ Lamps \in SUBSET Nat /\ \A l \in Lamps : l <= MaxU16
    BY <1>1, Widths
  <1> QED
    BY <1>2, FS_BoundedSetOfNaturals

(* The receiver decodes the colours of the TV's lamps in ascending order,  *)
(* all of them unless the last record is incomplete.                       *)
LEMMA DatagramFrame ==
  ASSUME NEW pic \in [Lamps -> Values], NEW cut \in {0, 1}
  PROVE  \E m \in Nat :
           /\ m = IF Cardinality(Lamps) = 0 THEN 0 ELSE Cardinality(Lamps) - cut
           /\ Parse(Datagram(pic, cut)).channels =
                [i \in 1 .. m |-> Colour(Ascending(Lamps)[i], pic[Ascending(Lamps)[i]])]
  <1> DEFINE n == Cardinality(Lamps)
             ids == Ascending(Lamps)
  <1>2. /\ n \in Nat /\ DOMAIN ids = 1 .. n
        /\ \A i \in 1 .. n : ids[i] \in Lamps
    BY LampsFinite, AscendingLists
  <1> HIDE DEF n, ids
  <1> DEFINE c(i) == Colour(ids[i], pic[ids[i]])
             R == [i \in DOMAIN ids |->
                     <<0, c(i).ID \div 256, c(i).ID % 256, c(i).A \div 256, c(i).A % 256,
                       c(i).B \div 256, c(i).B % 256, c(i).C \div 256, c(i).C % 256>>]
             body == Concat(R, 9)
             b == SubSeq(body, 1, Len(body) - cut)
             m == Len(b) \div 9
             cm == [i \in 1 .. m |-> c(i)]
  <1>3. ASSUME NEW i \in 1 .. n
        PROVE  /\ c(i) \in Channels /\ c(i).ID = ids[i] /\ ids[i] \in Lamps
               /\ c(i) = Colour(c(i).ID, pic[c(i).ID])
    <2>1. ids[i] \in Lamps /\ pic[ids[i]] \in Values
      BY <1>2
    <2>2. c(i) \in Channels /\ c(i).ID = ids[i]
      BY <2>1, PictureChannels
    <2> QED
      BY <2>1, <2>2
  <1>4. Datagram(pic, cut) = [major |-> 1, body |-> b]
    BY DEF Datagram, ids
  <1> HIDE DEF c
  <1>5. ASSUME NEW i \in 1 .. n
        PROVE  /\ R[i][2] = c(i).ID \div 256 /\ R[i][3] = c(i).ID % 256
               /\ R[i][4] = c(i).A \div 256 /\ R[i][5] = c(i).A % 256
               /\ R[i][6] = c(i).B \div 256 /\ R[i][7] = c(i).B % 256
               /\ R[i][8] = c(i).C \div 256 /\ R[i][9] = c(i).C % 256
    BY <1>2
  <1>6. body = [k \in 1 .. 9 * n |-> R[(k - 1) \div 9 + 1][((k - 1) % 9) + 1]]
    <2> DEFINE X == {R[i] : i \in 1 .. n}
    <2>1. R \in [1 .. n -> X]
      BY <1>2
    <2> HIDE DEF R, X
    <2>2. 9 \in {7, 9} /\ n \in Nat
      BY <1>2
    <2> QED
      BY <2>1, <2>2, ConcatPlaces, Zenon
  <1> HIDE DEF R, body
  <1>7. Len(body) = 9 * n /\ body = [k \in 1 .. 9 * n |-> body[k]]
    BY <1>2, <1>6
  <1>8. /\ Len(b) = (IF n = 0 THEN 0 ELSE 9 * n - cut)
        /\ \A k \in 1 .. Len(b) : b[k] = body[k]
    BY <1>2, <1>7
  <1> HIDE DEF b
  <1>9. Len(b) \in Nat /\ m \in Nat /\ m <= n /\ 9 * m <= Len(b)
    <2>1. Len(b) \in Nat /\ Len(b) <= 9 * n
      BY <1>2, <1>8
    <2> QED
      BY <1>2, <2>1
  <1>10. ASSUME NEW i \in 1 .. m  PROVE InPlaceV1(b, i, cm[i])
    <2>1. i \in 1 .. n /\ i * 9 <= Len(b)
      BY <1>2, <1>9
    <2>2. \A k \in 2 .. 9 : i * 9 - 9 + k \in 1 .. Len(b) /\ i * 9 - 9 + k = (i - 1) * 9 + k
      BY <2>1, <1>9
    <2>3. ASSUME NEW k \in 2 .. 9  PROVE b[i * 9 - 9 + k] = R[i][k]
      <3>1. b[i * 9 - 9 + k] = body[i * 9 - 9 + k]
        BY <2>2, <1>8
      <3>2. body[(i - 1) * 9 + k] = R[i][k]
        <4> DEFINE q == (i - 1) * 9 + k
        <4>1. q \in 1 .. 9 * n /\ (q - 1) \div 9 + 1 = i /\ ((q - 1) % 9) + 1 = k
          BY <1>2, <2>1
        <4> HIDE DEF q
        <4>2. body[q] = R[(q - 1) \div 9 + 1][((q - 1) % 9) + 1]
          BY <1>6, <4>1, Zenon
        <4> QED
          BY <4>1, <4>2, Zenon DEF q
      <3> QED
        BY <2>2, <3>1, <3>2
    <2>4. /\ b[i * 9 - 7] = R[i][2] /\ b[i * 9 - 6] = R[i][3] /\ b[i * 9 - 5] = R[i][4]
          /\ b[i * 9 - 4] = R[i][5] /\ b[i * 9 - 3] = R[i][6] /\ b[i * 9 - 2] = R[i][7]
          /\ b[i * 9 - 1] = R[i][8] /\ b[i * 9] = R[i][9]
      BY <2>3
    <2>5. cm[i] = c(i)
      OBVIOUS
    <2> HIDE DEF cm
    <2> QED
      BY <2>1, <2>4, <2>5, <1>5 DEF InPlaceV1
  <1>11. cm \in [1 .. m -> Channels]
    BY <1>2, <1>3, <1>9
  <1>12. Parse(Datagram(pic, cut)).channels = cm
    <2> HIDE DEF m, cm
    <2>1. Len(b) \div 9 = m
      BY DEF m
    <2> QED
      BY <1>4, <1>9, <1>10, <1>11, <2>1, ParsedV1
  <1>13. m = IF n = 0 THEN 0 ELSE n - cut
    BY <1>2, <1>8, <1>9
  <1> QED
    BY <1>9, <1>12, <1>13 DEF c, n, ids

(* Parse loses nothing of the TV's datagram: the receiver decodes for each *)
(* lamp once the very colour the TV sent it; of a datagram that lacks its  *)
(* last byte only the last lamp's record is missing.                       *)
THEOREM DatagramDecoded ==
  ASSUME NEW pic \in [Lamps -> Values], NEW cut \in {0, 1},
         NEW f, f = Parse(Datagram(pic, cut)).channels
  PROVE  /\ \A i \in DOMAIN f :
              f[i].ID \in Lamps /\ f[i] = Colour(f[i].ID, pic[f[i].ID])
         /\ \A i, j \in DOMAIN f : f[i].ID = f[j].ID => i = j
         /\ \A l \in Lamps : l \in Complete(cut) <=> \E i \in DOMAIN f : f[i].ID = l
  <1> DEFINE n == Cardinality(Lamps)
             ids == Ascending(Lamps)
             c(i) == Colour(ids[i], pic[ids[i]])
  <1>1. PICK m \in Nat : /\ m = IF n = 0 THEN 0 ELSE n - cut
                        /\ f = [i \in 1 .. m |-> c(i)]
    BY DatagramFrame
  <1>2. /\ n \in Nat /\ DOMAIN ids = 1 .. n
        /\ \A i \in 1 .. n : ids[i] \in Lamps
        /\ \A i, j \in 1 .. n : ids[i] = ids[j] => i = j
        /\ \A i, j \in 1 .. n : ids[i] < ids[j] => i < j
        /\ \A l \in Lamps : \E i \in 1 .. n : ids[i] = l
    BY LampsFinite, AscendingLists
  <1> HIDE DEF n, ids
  <1>3. ASSUME NEW i \in DOMAIN f
        PROVE  i \in 1 .. n /\ f[i].ID = ids[i] /\ f[i] = Colour(ids[i], pic[ids[i]])
    <2>1. i \in 1 .. n /\ f[i] = c(i)
      BY <1>1, <1>2
    <2>2. ids[i] \in Lamps /\ pic[ids[i]] \in Values
      BY <1>2, <2>1
    <2>3. Colour(ids[i], pic[ids[i]]).ID = ids[i]
      BY <2>2, PictureChannels
    <2> QED
      BY <2>1, <2>3
  <1>4. ASSUME NEW l \in Lamps, l \in Complete(cut)
        PROVE  \E i \in DOMAIN f : f[i].ID = l
    <2>1. PICK i \in 1 .. n : ids[i] = l
      BY <1>2
    <2>2. i <= m
      <3>1. CASE cut = 0
        BY <1>1, <1>2, <3>1
      <3>2. CASE \E k \in Lamps : l < k
        <4>1. PICK k \in Lamps : l < k
          BY <3>2
        <4>2. PICK j \in 1 .. n : ids[j] = k
          BY <1>2
        <4>3. i < j
          BY <1>2, <2>1, <4>1, <4>2
        <4> QED
          BY <1>1, <1>2, <4>3
      <3> QED
        BY <1>4, <3>1, <3>2 DEF Complete
    <2>3. i \in DOMAIN f
      BY <1>1, <2>2
    <2> QED
      BY <1>3, <2>1, <2>3
  <1>5. ASSUME NEW i \in DOMAIN f  PROVE ids[i] \in Complete(cut)
    <2>1. CASE cut = 0
      BY <1>2, <1>3, <2>1 DEF Complete
    <2>2. CASE cut = 1
      <3>1. i \in 1 .. n /\ i < n
        BY <1>1, <1>2, <1>3, <2>2
      <3>2. n \in 1 .. n /\ ids[i] \in Lamps /\ ids[n] \in Lamps
        BY <1>2, <3>1
      <3>3. ids[i] < ids[n]
        <4>1. ids[i] \in Nat /\ ids[n] \in Nat
          BY <3>2, LampsFinite
        <4> QED
          BY <1>2, <3>1, <3>2, <4>1
      <3> QED
        BY <1>2, <3>1, <3>2, <3>3 DEF Complete
    <2> QED
      BY <2>1, <2>2
  <1> QED
    BY <1>2, <1>3, <1>4, <1>5

(* The frames the receiver decodes.                                        *)
Decoded ==
  {Parse(Datagram(pic, cut)).channels : pic \in [Lamps -> Values], cut \in {0, 1}}

(* So whatever the receiver decodes shows distinct lamps of the TV.        *)
LEMMA DecodedFrames ==
  ASSUME NEW f \in Decoded
  PROVE  /\ \A i \in DOMAIN f : f[i].ID \in Lamps /\ f[i] \in Picture(f[i].ID)
         /\ \A i, j \in DOMAIN f : f[i].ID = f[j].ID => i = j
  <1> DEFINE n == Cardinality(Lamps)
             ids == Ascending(Lamps)
  <1>1. PICK pic \in [Lamps -> Values], cut \in {0, 1} :
          f = Parse(Datagram(pic, cut)).channels
    BY DEF Decoded
  <1> DEFINE c(i) == Colour(ids[i], pic[ids[i]])
  <1>2. PICK m \in Nat : /\ m = IF n = 0 THEN 0 ELSE n - cut
                        /\ f = [i \in 1 .. m |-> c(i)]
    BY <1>1, DatagramFrame
  <1>3. /\ n \in Nat /\ DOMAIN ids = 1 .. n
        /\ \A i \in 1 .. n : ids[i] \in Lamps
        /\ \A i, j \in 1 .. n : ids[i] = ids[j] => i = j
    BY LampsFinite, AscendingLists
  <1> HIDE DEF n, ids
  <1>4. ASSUME NEW i \in DOMAIN f
        PROVE  i \in 1 .. n /\ f[i].ID = ids[i] /\ f[i] \in Picture(ids[i])
    <2>1. i \in 1 .. n /\ f[i] = c(i)
      BY <1>2, <1>3
    <2>2. ids[i] \in Lamps /\ pic[ids[i]] \in Values
      BY <1>3, <2>1
    <2> QED
      BY <2>1, <2>2, PictureChannels DEF Picture
  <1> QED
    BY <1>3, <1>4

(* ... and the channels of the Pro are finitely many bytes.                *)
LEMMA ProChannelsFinite ==
  ASSUME NEW C \in SUBSET ProChannels
  PROVE  /\ C \in SUBSET Nat /\ IsFiniteSet(C)
         /\ \A ch \in C : ch \in U16 /\ ch <= MaxByte
  <1>1. C \subseteq Byte
    BY FramesAssumption
  <1>2. /\ MaxByte \in Nat /\ C \in SUBSET Nat
        /\ \A ch \in C : ch \in U16 /\ ch <= MaxByte
    BY <1>1, Widths
  <1> QED
    BY <1>2, FS_BoundedSetOfNaturals

(* The Pro decodes from a tick's datagram the colour of every channel.     *)
THEOREM SentFrame ==
  ASSUME NEW C \in SUBSET ProChannels, NEW colours \in [C -> Channels],
         \A ch \in C : colours[ch].ID = ch,
         NEW p, p = Parse(Encode(FrameOf(colours))).channels
  PROVE  /\ \A i \in DOMAIN p : p[i].ID \in C /\ p[i] = colours[p[i].ID]
         /\ \A ch \in C : \E i \in DOMAIN p : p[i].ID = ch
  <1> DEFINE n == Cardinality(C)
             ids == Ascending(C)
             c == [i \in 1 .. n |-> colours[ids[i]]]
             R == [i \in 1 .. n |-> Record(2, c[i])]
             b == Concat(R, 7)
             F == FrameOf(colours)
  <1>1. /\ n \in Nat /\ DOMAIN ids = 1 .. n
        /\ \A i \in 1 .. n : ids[i] \in C
        /\ \A ch \in C : \E i \in 1 .. n : ids[i] = ch
    BY ProChannelsFinite, AscendingLists
  <1>2. F = [major |-> 2, channels |-> c]
    BY <1>1 DEF FrameOf
  <1>3. \A i \in 1 .. n : c[i] \in Channels /\ c[i].ID = ids[i] /\ c[i].ID <= MaxByte
    BY <1>1, ProChannelsFinite
  <1> HIDE DEF n, ids
  <1>4. c \in [1 .. n -> Channels] /\ DOMAIN c = 1 .. n
    BY <1>3
  <1> HIDE DEF c, F
  <1>5. F.major = 2 /\ F.channels = c
    BY <1>2
  <1>6. Encode(F) = [major |-> 2, body |-> b]
    <2> DEFINE K == {i \in DOMAIN F.channels : F.major = 2 => F.channels[i].ID <= MaxByte}
               kept == Ascending(K)
    <2>1. K = 1 .. n
      BY <1>3, <1>4, <1>5
    <2>2. kept = [i \in 1 .. n |-> i]
      BY <1>1, <2>1, AscendingInterval
    <2>3. Encode(F) = [major |-> F.major,
                       body |-> Concat([j \in DOMAIN kept |->
                                          Record(F.major, F.channels[kept[j]])],
                                       Size(F.major))]
      BY DEF Encode
    <2> HIDE DEF K, kept
    <2>4. [j \in DOMAIN kept |-> Record(F.major, F.channels[kept[j]])] = R
      BY <1>5, <2>2
    <2>5. Size(F.major) = 7
      BY <1>5 DEF Size
    <2> HIDE DEF R
    <2> QED
      BY <1>5, <2>3, <2>4, <2>5
  <1>7. b = [k \in 1 .. 7 * n |-> R[(k - 1) \div 7 + 1][((k - 1) % 7) + 1]]
    <2> DEFINE X == {R[i] : i \in 1 .. n}
    <2>1. R \in [1 .. n -> X]
      OBVIOUS
    <2> HIDE DEF R, X
    <2>2. 7 \in {7, 9} /\ n \in Nat
      BY <1>1
    <2> QED
      BY <2>1, <2>2, ConcatPlaces, Zenon
  <1> HIDE DEF b
  <1>8. Len(b) \div 7 = n
    <2>1. Len(b) = 7 * n
      BY <1>1, <1>7
    <2> QED
      BY <1>1, <2>1
  <1>9. ASSUME NEW i \in 1 .. n  PROVE InPlaceV2(b, i, c[i])
    <2>1. R[i] = Record(2, c[i])
      OBVIOUS
    <2> HIDE DEF R
    <2>2. /\ R[i][1] = c[i].ID
          /\ R[i][2] = c[i].A \div 256 /\ R[i][3] = c[i].A % 256
          /\ R[i][4] = c[i].B \div 256 /\ R[i][5] = c[i].B % 256
          /\ R[i][6] = c[i].C \div 256 /\ R[i][7] = c[i].C % 256
      BY <2>1, RecordBytes
    <2>3. ASSUME NEW k \in 1 .. 7  PROVE b[i * 7 - 7 + k] = R[i][k]
      <3>1. b[(i - 1) * 7 + k] = R[i][k]
        <4> DEFINE q == (i - 1) * 7 + k
        <4>1. q \in 1 .. 7 * n /\ (q - 1) \div 7 + 1 = i /\ ((q - 1) % 7) + 1 = k
          BY <1>1
        <4> HIDE DEF q
        <4>2. b[q] = R[(q - 1) \div 7 + 1][((q - 1) % 7) + 1]
          BY <1>7, <4>1, Zenon
        <4> QED
          BY <4>1, <4>2, Zenon DEF q
      <3>2. (i - 1) * 7 + k = i * 7 - 7 + k
        BY <1>1
      <3> QED
        BY <3>1, <3>2
    <2>4. /\ b[i * 7 - 6] = R[i][1] /\ b[i * 7 - 5] = R[i][2] /\ b[i * 7 - 4] = R[i][3]
          /\ b[i * 7 - 3] = R[i][4] /\ b[i * 7 - 2] = R[i][5] /\ b[i * 7 - 1] = R[i][6]
          /\ b[i * 7] = R[i][7]
      BY <2>3, <1>1
    <2> QED
      BY <2>2, <2>4 DEF InPlaceV2
  <1>10. p = c
    BY <1>1, <1>4, <1>6, <1>8, <1>9, ParsedV2 DEF F
  <1> QED
    BY <1>1, <1>3, <1>4, <1>10 DEF c

-----------------------------------------------------------------------------
(* The median.                                                             *)

(* The samples of s up to v, and those below it.                           *)
(* The samples up to a value, and those below it.                          *)
UpTo(s, v) == {i \in DOMAIN s : s[i] <= v}
Below(s, v) == {i \in DOMAIN s : s[i] < v}

(* Those of a finite number of samples can be counted.                     *)
LEMMA Samples ==
  ASSUME NEW n \in Nat, NEW s \in [1 .. n -> U16], NEW v
  PROVE  /\ IsFiniteSet(UpTo(s, v)) /\ Cardinality(UpTo(s, v)) \in Nat
         /\ IsFiniteSet(Below(s, v)) /\ Cardinality(Below(s, v)) \in Nat
  <1>1. IsFiniteSet(1 .. n)
    BY Intervals
  <1>2. UpTo(s, v) \in SUBSET (1 .. n) /\ Below(s, v) \in SUBSET (1 .. n)
    BY DEF UpTo, Below
  <1>3. IsFiniteSet(UpTo(s, v)) /\ IsFiniteSet(Below(s, v))
    BY <1>1, <1>2, FS_Subset
  <1> QED
    BY <1>3, FS_CardinalityType

(* The median is one of the samples: fewer than half lie below it, and     *)
(* more than half do not lie above it.                                     *)
LEMMA MedianInTheMiddle ==
  ASSUME NEW n \in Nat \ {0}, NEW s \in [1 .. n -> U16]
  PROVE  /\ MedianComponent(s) \in Range(s)
         /\ Cardinality(Below(s, MedianComponent(s))) <= n \div 2
         /\ n \div 2 < Cardinality(UpTo(s, MedianComponent(s)))
  <1> DEFINE mid == n \div 2
             V == Range(s)
             T == {v \in V : mid < Cardinality(UpTo(s, v))}
  <1>1. mid \in Nat /\ mid < n /\ Len(s) = n /\ DOMAIN s = 1 .. n
    OBVIOUS
  <1>2. V \in SUBSET Nat /\ (\A v \in V : v <= MaxU16) /\ MaxU16 \in Nat
    BY Widths DEF Range
  <1>3. (\A v \in V : \E i \in 1 .. n : s[i] = v) /\ (\A i \in 1 .. n : s[i] \in V)
    BY DEF Range
  <1>4. \A i \in 1 .. n : s[i] \in Nat
    BY Widths
  <1> HIDE DEF mid, V
  <1>5. T # {}
    <2>1. V # {}
      BY <1>3
    <2>2. PICK v \in V : \A w \in V : w <= v
      BY <1>2, <2>1, GreatestNat
    <2>3. UpTo(s, v) = 1 .. n
      BY <1>1, <1>3, <2>2 DEF UpTo
    <2>4. Cardinality(UpTo(s, v)) = n
      BY <2>3, Intervals
    <2> QED
      BY <1>1, <2>4
  <1>6. T \in SUBSET Nat
    BY <1>2
  <1>7. PICK v \in T : \A w \in T : v <= w
    BY <1>5, <1>6, LeastNat
  <1>8. v \in V /\ v \in Nat /\ mid < Cardinality(UpTo(s, v))
    BY <1>2
  <1>9. Cardinality(Below(s, v)) <= mid
    <2>1. CASE Below(s, v) = {}
      BY <1>1, <2>1, FS_EmptySet
    <2>2. CASE Below(s, v) # {}
      <3> DEFINE W == {w \in V : w < v}
      <3>1. W # {}
        <4>1. PICK i \in 1 .. n : s[i] < v
          BY <1>1, <2>2 DEF Below
        <4> QED
          BY <1>3, <4>1
      <3>2. W \in SUBSET Nat /\ \A w \in W : w <= MaxU16
        BY <1>2
      <3>3. PICK w \in W : \A x \in W : x <= w
        BY <1>2, <3>1, <3>2, GreatestNat
      <3>4. w \in V /\ w \in Nat /\ w < v /\ w \notin T
        <4>1. w \in V /\ w \in Nat /\ w < v
          BY <1>2
        <4> QED
          BY <4>1, <1>7, <1>8
      <3>5. ASSUME NEW i \in 1 .. n  PROVE s[i] < v <=> s[i] <= w
        <4>1. s[i] < v => s[i] \in W
          BY <1>3
        <4> QED
          BY <4>1, <3>3, <3>4, <1>4, <1>8
      <3>6. Below(s, v) = UpTo(s, w)
        BY <1>1, <3>5 DEF Below, UpTo
      <3>7. ~(mid < Cardinality(UpTo(s, w)))
        BY <3>4
      <3> QED
        BY <1>1, <3>6, <3>7, Samples
    <2> QED
      BY <2>1, <2>2
  <1>10. MedianComponent(s) =
           CHOOSE x \in V : Cardinality(Below(s, x)) <= mid /\ mid < Cardinality(UpTo(s, x))
    BY <1>1 DEF MedianComponent, Below, UpTo, mid, V
  <1> QED
    BY <1>8, <1>9, <1>10 DEF mid, V

(* Any majority of an odd number of samples has one at least as small and  *)
(* one at least as large as the median.                                    *)
LEMMA MajorityAroundMedian ==
  ASSUME NEW n \in Nat \ {0}, n % 2 = 1, NEW s \in [1 .. n -> U16],
         NEW most \in SUBSET (1 .. n), 2 * Cardinality(most) >= n
  PROVE  \E i, j \in most : s[i] <= MedianComponent(s) /\ MedianComponent(s) <= s[j]
  <1> DEFINE v == MedianComponent(s)
             lo == Below(s, v)
             up == UpTo(s, v)
             mid == n \div 2
  <1>1. n = 2 * mid + 1 /\ mid \in Nat
    OBVIOUS
  <1>2. v \in Range(s) /\ Cardinality(lo) <= mid /\ mid < Cardinality(up)
    BY MedianInTheMiddle
  <1>3. v \in Nat /\ \A i \in 1 .. n : s[i] \in Nat
    BY <1>2, Widths DEF Range
  <1>4. IsFiniteSet(1 .. n) /\ Cardinality(1 .. n) = n
    BY Intervals
  <1>5. IsFiniteSet(most) /\ Cardinality(most) \in Nat
    BY <1>4, FS_Subset, FS_CardinalityType
  <1>6. /\ IsFiniteSet(lo) /\ Cardinality(lo) \in Nat
        /\ IsFiniteSet(up) /\ Cardinality(up) \in Nat
        /\ up \in SUBSET (1 .. n)
    BY Samples DEF UpTo
  <1> HIDE DEF mid, v
  <1>7. \E j \in most : v <= s[j]
    <2> SUFFICES ASSUME \A j \in most : ~(v <= s[j])  PROVE FALSE
      OBVIOUS
    <2>1. most \in SUBSET lo
      BY <1>3 DEF Below
    <2>2. Cardinality(most) <= Cardinality(lo)
      BY <1>6, <2>1, FS_Subset
    <2> QED
      BY <1>1, <1>2, <1>5, <1>6, <2>2
  <1>8. \E i \in most : s[i] <= v
    <2> SUFFICES ASSUME \A i \in most : ~(s[i] <= v)  PROVE FALSE
      OBVIOUS
    <2>1. most \cap up = {}
      BY DEF UpTo
    <2> HIDE DEF up
    <2>2. /\ IsFiniteSet(most \cup up)
          /\ Cardinality(most \cup up)
               = Cardinality(most) + Cardinality(up) - Cardinality(most \cap up)
      BY <1>5, <1>6, FS_Union
    <2>3. Cardinality(most \cap up) = 0
      BY <2>1, FS_EmptySet
    <2>4. most \cup up \in SUBSET (1 .. n)
      BY <1>6
    <2>5. Cardinality(most \cup up) <= n
      BY <1>4, <2>4, FS_Subset
    <2> QED
      BY <1>1, <1>2, <1>5, <1>6, <2>2, <2>3, <2>5
  <1> QED
    BY <1>7, <1>8 DEF v

-----------------------------------------------------------------------------
(* The easing.                                                             *)

(* What division by a positive number gives.                               *)
LEMMA Quotient ==
  ASSUME NEW x \in Nat, NEW y \in Nat \ {0}
  PROVE  /\ x \div y \in Nat
         /\ y * (x \div y) <= x /\ x < y * (x \div y) + y
         /\ \A k \in Nat : x < y * k + y => x \div y <= k
  <1> DEFINE q == x \div y
  <1>1. q \in Int /\ y * q <= x /\ x < y * q + y
    OBVIOUS
  <1> HIDE DEF q
  <1>2. q \in Nat
    <2> SUFFICES ASSUME q <= -1  PROVE FALSE
      BY <1>1
    <2>1. y * q <= y * (-1)
      BY <1>1
    <2> QED
      BY <1>1, <2>1
  <1>3. ASSUME NEW k \in Nat, x < y * k + y  PROVE q <= k
    <2> SUFFICES ASSUME k + 1 <= q  PROVE FALSE
      BY <1>1
    <2>1. y * (k + 1) <= y * q
      BY <1>1
    <2>2. y * (k + 1) = y * k + y
      OBVIOUS
    <2> QED
      BY <1>1, <1>3, <2>1, <2>2
  <1> QED
    BY <1>1, <1>2, <1>3 DEF q

(* A tick covers a part of the distance, the same in both directions; the  *)
(* longer the distance, the more is left of it.                            *)
LEMMA EasedPart ==
  ASSUME NEW d \in Nat
  PROVE  /\ Eased(d) \in Nat /\ Eased(d) <= d
         /\ Eased(-d) = -Eased(d)
         /\ \A e \in Nat : d <= e => d - Eased(d) <= e - Eased(e)
  <1> DEFINE N == AlphaNum
             D == AlphaDen
             y == 2 * D
             x(e) == 2 * e * N + D
  <1>1. N \in Nat /\ D \in Nat \ {0} /\ N <= D /\ y \in Nat \ {0}
    BY FramesAssumption
  <1>2. ASSUME NEW e \in Nat  PROVE x(e) \in Nat /\ Eased(e) = x(e) \div y
    <2>1. e * N \in Nat
      BY <1>1
    <2> QED
      BY <1>1, <2>1 DEF Eased
  <1>3. ASSUME NEW a \in Nat  PROVE a * N <= a * D /\ a * N \in Nat /\ a * D \in Nat
    BY <1>1
  <1>4. Eased(d) \in Nat /\ Eased(d) <= d
    <2>1. x(d) < y * d + y
      <3>1. 2 * d * N = 2 * (d * N) /\ y * d = 2 * (d * D)
        BY <1>1
      <3> QED
        BY <1>1, <1>3, <3>1
    <2> QED
      BY <1>1, <1>2, <2>1, Quotient
  <1>5. Eased(-d) = -Eased(d)
    <2>1. CASE d <= 0
      <3>1. -d = d
        BY <2>1
      <3>2. Eased(d) = 0
        BY <1>4, <2>1
      <3>3. Eased(-d) = 0
        BY <3>1, <3>2, Zenon
      <3> QED
        BY <3>2, <3>3
    <2>2. CASE ~(d <= 0)
      <3>1. ~(-d >= 0) /\ -(-d) = d
        BY <2>2
      <3> QED
        BY <3>1 DEF Eased
    <2> QED
      BY <2>1, <2>2
  <1>6. ASSUME NEW e \in Nat, d <= e  PROVE d - Eased(d) <= e - Eased(e)
    <2> DEFINE k == Eased(d) + (e - d)
    <2>1. e - d \in Nat /\ k \in Nat
      BY <1>4, <1>6
    <2>2. x(d) < y * Eased(d) + y
      BY <1>1, <1>2, Quotient
    <2>3. x(e) <= x(d) + y * (e - d)
      <3>1. (e - d) * N <= (e - d) * D
        BY <2>1, <1>3
      <3>2. 2 * e * N = 2 * d * N + 2 * ((e - d) * N) /\ y * (e - d) = 2 * ((e - d) * D)
        BY <1>1, <2>1
      <3> QED
        BY <1>1, <1>3, <2>1, <3>1, <3>2
    <2>4. y * k = y * Eased(d) + y * (e - d)
      BY <1>1, <1>4, <2>1
    <2>5. x(e) < y * k + y
      <3> HIDE DEF y, k, x
      <3>1. y * Eased(d) \in Int /\ y * (e - d) \in Int /\ x(e) \in Nat /\ x(d) \in Nat
        BY <1>1, <1>2, <1>4, <2>1
      <3> QED
        BY <1>1, <2>2, <2>3, <2>4, <3>1
    <2>6. Eased(e) <= k
      BY <1>1, <1>2, <2>1, <2>5, Quotient
    <2>7. Eased(e) \in Nat
      BY <1>1, <1>2, Quotient
    <2> QED
      BY <1>4, <2>6, <2>7
  <1> QED
    BY <1>4, <1>5, <1>6

Gap(a, b) == IF a <= b THEN b - a ELSE a - b

(* What is left of a distance grows with the distance.                     *)
LEMMA CloserGrows ==
  ASSUME NEW d \in Nat, NEW e \in Nat, d <= e
  PROVE  Closer(d) \in Nat /\ Closer(d) <= Closer(e)
  <1>1. /\ d - Eased(d) \in Nat /\ e - Eased(e) \in Nat
        /\ d - Eased(d) <= e - Eased(e)
    BY EasedPart
  <1> QED
    BY <1>1 DEF Closer, SnapColorDelta

(* A component moves towards its target, never past it, and leaves what    *)
(* Closer says.                                                            *)
LEMMA Smoothed ==
  ASSUME NEW cur \in Nat, NEW tgt \in Nat, NEW s, s = SmoothComponent(cur, tgt)
  PROVE  /\ s \in Nat
         /\ (cur <= s /\ s <= tgt) \/ (tgt <= s /\ s <= cur)
         /\ Gap(s, tgt) = Closer(Gap(cur, tgt))
  <1> DEFINE d == Gap(cur, tgt)
  <1>1. d \in Nat /\ (tgt - cur = d \/ tgt - cur = -d)
    BY DEF Gap
  <1>2. Eased(d) \in Nat /\ Eased(d) <= d /\ Eased(-d) = -Eased(d)
    BY <1>1, EasedPart
  <1>3. CASE d <= SnapColorDelta
    <2>1. tgt - cur \in -SnapColorDelta .. SnapColorDelta
      BY <1>1, <1>3 DEF SnapColorDelta
    <2>2. s = tgt
      BY <2>1 DEF SmoothComponent
    <2>3. Closer(d) = 0
      BY <1>3 DEF Closer
    <2> QED
      BY <2>2, <2>3 DEF Gap
  <1>4. CASE ~(d <= SnapColorDelta)
    <2>1. tgt - cur \notin -SnapColorDelta .. SnapColorDelta
      BY <1>1, <1>4 DEF SnapColorDelta
    <2>2. s = cur + Eased(tgt - cur)
      BY <2>1 DEF SmoothComponent
    <2>3. Closer(d) = d - Eased(d)
      BY <1>4 DEF Closer
    <2>4. CASE cur <= tgt
      <3>1. tgt - cur = d /\ s = cur + Eased(d)
        BY <2>2, <2>4 DEF Gap
      <3> HIDE DEF d
      <3>2. s \in Nat /\ cur <= s /\ s <= tgt /\ tgt - s = d - Eased(d)
        BY <1>1, <1>2, <3>1
      <3> QED
        BY <2>3, <3>2 DEF Gap, d
    <2>5. CASE ~(cur <= tgt)
      <3>1. tgt - cur = -d
        BY <2>5 DEF Gap
      <3>2. s = cur + Eased(-d)
        BY <2>2, <3>1
      <3>3. s = cur - Eased(d)
        BY <1>2, <3>2
      <3> HIDE DEF d
      <3>4. s \in Nat /\ tgt <= s /\ s <= cur /\ s - tgt = d - Eased(d)
        BY <1>1, <1>2, <3>1, <3>3
      <3> QED
        BY <2>3, <3>4 DEF Gap, d
    <2> QED
      BY <2>4, <2>5
  <1> QED
    BY <1>3, <1>4

(* The distance of two levels of the picture is at most Spread.            *)
LEMMA SpreadBound == Spread \in Nat /\ \A v, w \in Values : v - w <= Spread
  <1> DEFINE S == {v - w : v, w \in Values}
             P == S \cap Nat
  <1>1. /\ Values # {} /\ MaxU16 \in Nat
        /\ \A v \in Values : v \in Nat /\ v <= MaxU16
    BY FramesAssumption, Widths
  <1>2. P \in SUBSET Nat /\ \A x \in P : x <= MaxU16
    BY <1>1
  <1>3. P # {}
    <2>1. PICK v \in Values : TRUE
      BY <1>1
    <2>2. v - v = 0 /\ v - v \in S
      BY <1>1
    <2> QED
      BY <2>2
  <1> HIDE DEF P
  <1>4. PICK x \in P : \A y \in P : y <= x
    BY <1>1, <1>2, <1>3, GreatestNat
  <1> USE DEF P
  <1>5. x \in S /\ x \in Nat
    OBVIOUS
  <1>6. ASSUME NEW v \in Values, NEW w \in Values  PROVE v - w <= x
    <2>1. v - w \in S /\ v - w \in Int
      BY <1>1
    <2>2. CASE v - w \in Nat
      BY <1>4, <2>1, <2>2
    <2>3. CASE v - w \notin Nat
      BY <1>5, <2>1, <2>3
    <2> QED
      BY <2>2, <2>3
  <1>7. Spread = CHOOSE d \in S : \A v, w \in Values : v - w <= d
    BY DEF Spread
  <1>8. Spread \in S /\ \A v, w \in Values : v - w <= Spread
    <2> HIDE DEF S
    <2> QED
      BY <1>5, <1>6, <1>7, Zenon
  <1>9. Spread \in Nat
    <2>1. PICK v \in Values, w \in Values : Spread = v - w
      BY <1>8
    <2>2. v - v <= Spread
      BY <1>8
    <2> QED
      BY <1>1, <2>1, <2>2
  <1> QED
    BY <1>8, <1>9

(* The recursion that defines FadeLeft has a solution.                     *)
LEMMA FadeLeftUnfolds ==
  /\ FadeLeft[0] = Spread
  /\ \A q \in 1 .. Settle : FadeLeft[q] = Closer(FadeLeft[q - 1])
  /\ \A q \in 0 .. Settle : FadeLeft[q] \in Nat
  <1> DEFINE Good(f, n) == f[0] = Spread /\ \A q \in 1 .. n : f[q] = Closer(f[q - 1])
             Bad == {n \in Nat : \A f \in [0 .. n -> Nat] : ~Good(f, n)}
  <1>1. Bad = {}
    <2> SUFFICES ASSUME Bad # {}  PROVE FALSE
      OBVIOUS
    <2>1. PICK n \in Bad : \A k \in Bad : n <= k
      BY LeastNat
    <2>2. n \in Nat /\ \A f \in [0 .. n -> Nat] : ~Good(f, n)
      OBVIOUS
    <2>3. CASE n = 0
      <3> DEFINE f == [q \in 0 .. 0 |-> Spread]
      <3>1. f \in [0 .. 0 -> Nat] /\ Good(f, 0)
        BY SpreadBound
      <3> QED
        BY <2>2, <2>3, <3>1
    <2>4. CASE n # 0
      <3>1. n - 1 \in Nat /\ n - 1 \notin Bad
        <4> HIDE DEF Bad
        <4> QED
          BY <2>1, <2>2, <2>4
      <3>2. PICK f \in [0 .. n - 1 -> Nat] : Good(f, n - 1)
        BY <3>1
      <3> DEFINE g == [q \in 0 .. n |-> IF q < n THEN f[q] ELSE Closer(f[n - 1])]
      <3>3. f[n - 1] \in Nat /\ Closer(f[n - 1]) \in Nat
        <4>1. f[n - 1] \in Nat
          BY <3>1
        <4> QED
          BY <4>1, CloserGrows
      <3>4. g \in [0 .. n -> Nat]
        BY <2>2, <3>3
      <3>5. g[0] = Spread
        BY <2>2, <2>4, <3>2
      <3>6. ASSUME NEW q \in 1 .. n  PROVE g[q] = Closer(g[q - 1])
        <4>1. q - 1 \in 0 .. n /\ q - 1 < n /\ g[q - 1] = f[q - 1]
          BY <2>2
        <4>2. CASE q < n
          BY <2>2, <3>2, <4>1, <4>2
        <4>3. CASE ~(q < n)
          <5>1. q = n /\ g[q] = Closer(f[n - 1])
            BY <2>2, <4>3
          <5> QED
            BY <4>1, <5>1
        <4> QED
          BY <4>2, <4>3
      <3> QED
        BY <2>2, <3>4, <3>5, <3>6
    <2> QED
      BY <2>3, <2>4
  <1>2. Settle \in Nat
    BY SettleAssumption
  <1>3. PICK f \in [0 .. Settle -> Nat] : Good(f, Settle)
    BY <1>1, <1>2
  <1> DEFINE Sol(h) == h = [q \in 0 .. Settle |-> IF q = 0 THEN Spread ELSE Closer(h[q - 1])]
  <1>4. Sol(f)
    <2> DEFINE F == [q \in 0 .. Settle |-> IF q = 0 THEN Spread ELSE Closer(f[q - 1])]
    <2>1. ASSUME NEW q \in 0 .. Settle  PROVE f[q] = F[q]
      <3>1. CASE q = 0
        BY <1>3, <3>1
      <3>2. CASE q # 0
        <4>1. q \in 1 .. Settle
          BY <1>2, <3>2
        <4> QED
          BY <1>3, <3>2, <4>1
      <3> QED
        BY <3>1, <3>2
    <2>2. f = [q \in 0 .. Settle |-> f[q]]
      OBVIOUS
    <2> QED
      BY <2>1, <2>2
  <1>5. FadeLeft = CHOOSE h : Sol(h)
    BY DEF FadeLeft
  <1>6. Sol(FadeLeft)
    <2> HIDE DEF Sol
    <2> QED
      BY <1>4, <1>5
  <1>7. \A q \in 0 .. Settle :
          FadeLeft[q] = IF q = 0 THEN Spread ELSE Closer(FadeLeft[q - 1])
    BY <1>6
  <1>8. FadeLeft[0] = Spread /\ \A q \in 1 .. Settle : FadeLeft[q] = Closer(FadeLeft[q - 1])
    BY <1>2, <1>7
  <1>9. \A q \in 0 .. Settle : FadeLeft[q] \in Nat
    <2> DEFINE Odd == {q \in 0 .. Settle : FadeLeft[q] \notin Nat}
    <2> SUFFICES ASSUME Odd # {}  PROVE FALSE
      OBVIOUS
    <2>1. Odd \in SUBSET Nat
      OBVIOUS
    <2>2. PICK q \in Odd : \A k \in Odd : q <= k
      BY <2>1, LeastNat
    <2>3. CASE q = 0
      BY <1>8, <2>3, SpreadBound
    <2>4. CASE q # 0
      <3>1. q \in 1 .. Settle /\ q - 1 \in 0 .. Settle /\ q - 1 < q
        BY <1>2, <2>4
      <3>2. FadeLeft[q - 1] \in Nat
        BY <2>2, <3>1
      <3> QED
        BY <1>8, <3>1, <3>2, CloserGrows
    <2> QED
      BY <2>3, <2>4
  <1> QED
    BY <1>8, <1>9

-----------------------------------------------------------------------------
(* The inductive invariant.                                                *)

Comps == {"A", "B", "C"}

(* A colour of the TV on the Pro's channel.                                *)
Moved(ch, c) == Channel(ch, c.A, c.B, c.C)

(* Each component of c lies between those of two colours of s.             *)
Within(c, s) ==
  \A comp \in Comps : \E i, j \in DOMAIN s : s[i][comp] <= c[comp] /\ c[comp] <= s[j][comp]

(* h holds the last colours of r, at most Window of them, on channel ch.   *)
IsRing(h, ch, r) ==
  /\ h \in Seq(Channels)
  /\ Len(h) = IF Len(r) > Window THEN Window ELSE Len(r)
  /\ \A i \in 1 .. Len(h) : h[i] = Moved(ch, r[Len(r) - Len(h) + i])

(* The colour that channel ch eases to, once the TV has sent r.            *)
Target(h, ch, r) ==
  LET newest == Moved(ch, r[Len(r)])
  IN IF Window > 1 THEN GatedMedian(h, newest) ELSE newest

OnStream(c) == [via |-> "dtls", A |-> c.A, B |-> c.B, C |-> c.C]

(* Every lamp of the stream has a channel of its own.                      *)
Routes ==
  /\ DOMAIN remap \subseteq Lamps
  /\ \A l \in DOMAIN remap : remap[l] \in ProChannels
  /\ \A l, k \in DOMAIN remap : remap[l] = remap[k] => l = k

(* The TV sent lamps their own picture; without a stream they show it.     *)
Received ==
  /\ DOMAIN raws = Lamps /\ DOMAIN shown = Lamps
  /\ \A l \in Lamps : raws[l] \in Seq(Picture(l))
  /\ path = "rest" =>
       \A l \in Lamps : raws[l] # <<>> => shown[l] = ToHueV1State(raws[l][Len(raws[l])])
  /\ path = "dtls" => \A l \in Lamps : raws[l] # <<>> => l \in DOMAIN remap

(* The targets are those of the lamps the TV sent a picture to since the   *)
(* stream was established, computed from these pictures alone.             *)
Aimed ==
  /\ DOMAIN latest \subseteq {remap[l] : l \in DOMAIN remap}
  /\ Window > 1 => DOMAIN history = DOMAIN latest
  /\ \A l \in DOMAIN remap :
       /\ remap[l] \in DOMAIN latest <=> raws[l] # <<>>
       /\ raws[l] # <<>> =>
            /\ Window > 1 => IsRing(history[remap[l]], remap[l], raws[l])
            /\ latest[remap[l]] = Target(history[remap[l]], remap[l], raws[l])

(* A lamp shows what was sent last, between the pictures of the stream and *)
(* no farther from its target than quiet ticks leave it.                   *)
Faded ==
  /\ DOMAIN current \subseteq DOMAIN latest
  /\ quiet > 0 => DOMAIN current = DOMAIN latest
  /\ \A l \in DOMAIN remap : remap[l] \in DOMAIN current =>
       LET c == current[remap[l]] IN
       /\ c \in Channels /\ c.ID = remap[l]
       /\ Within(c, raws[l])
       /\ shown[l] = OnStream(c)
       /\ \A comp \in Comps : Gap(c[comp], latest[remap[l]][comp]) <= FadeLeft[quiet]

FramesInv ==
  /\ path \in {"rest", "dtls"} /\ requested \subseteq Lamps /\ quiet \in 0 .. Settle
  /\ Routes /\ Received
  /\ path = "dtls" => Aimed /\ Faded

-----------------------------------------------------------------------------
(* What the filter makes of the pictures of a lamp.                        *)

(* The window is odd, unless there is no filter.                           *)
LEMMA WindowOdd == Window \in Nat /\ (Window > 1 => Window % 2 = 1)
  <1>1. MedianWindow \in Nat
    BY FramesAssumption
  <1>2. MedianWindow % 2 = 0 \/ MedianWindow % 2 = 1
    BY <1>1
  <1>3. MedianWindow % 2 = 0 => (MedianWindow + 1) % 2 = 1
    BY <1>1
  <1> QED
    BY <1>1, <1>2, <1>3 DEF Window

(* The components of the picture of a lamp.                                *)
LEMMA PictureComps ==
  ASSUME NEW l \in Lamps, NEW c \in Picture(l), NEW d \in Picture(l)
  PROVE  /\ c \in Channels /\ c.ID = l
         /\ \A comp \in Comps : c[comp] \in Nat /\ c[comp] \in U16
         /\ \A comp \in Comps : c[comp] - d[comp] <= Spread
  <1>1. PICK v \in Values : c = Colour(l, v)
    BY DEF Picture
  <1>2. PICK w \in Values : d = Colour(l, w)
    BY DEF Picture
  <1>3. /\ c \in Channels /\ c.ID = l
        /\ c.A = v /\ c.B = MaxU16 - v /\ c.C = v \div 2
        /\ d.A = w /\ d.B = MaxU16 - w /\ d.C = w \div 2
    BY <1>1, <1>2, PictureChannels
  <1>4. v \in Nat /\ w \in Nat /\ MaxU16 \in Nat
    BY FramesAssumption, Widths
  <1>5. v - w <= Spread /\ w - v <= Spread /\ Spread \in Nat
    BY SpreadBound
  <1>6. c.A - d.A <= Spread /\ c.B - d.B <= Spread /\ c.C - d.C <= Spread
    BY <1>3, <1>4, <1>5
  <1>7. c.A \in U16 /\ c.B \in U16 /\ c.C \in U16
    BY <1>3 DEF Channels
  <1>8. c.A \in Nat /\ c.B \in Nat /\ c.C \in Nat
    BY <1>7, Widths
  <1> QED
    BY <1>3, <1>6, <1>7, <1>8 DEF Comps

(* The mapping to the Pro's channel changes the id alone.                  *)
LEMMA MovedComps ==
  ASSUME NEW ch \in U16, NEW c \in Channels
  PROVE  /\ Moved(ch, c) \in Channels /\ Moved(ch, c).ID = ch
         /\ \A comp \in Comps : Moved(ch, c)[comp] = c[comp]
  BY DEF Moved, Channel, Channels, Comps

(* A picture more makes a ring of the longer history.                      *)
LEMMA RingStep ==
  ASSUME Window > 1, NEW l \in Lamps, NEW ch \in U16, NEW r \in Seq(Picture(l)),
         NEW c \in Picture(l), NEW h, r = <<>> => h = <<>>, r # <<>> => IsRing(h, ch, r)
  PROVE  IsRing(LastOf(Window, Append(h, Moved(ch, c))), ch, Append(r, c))
  <1> DEFINE W == Window
             x == Moved(ch, c)
             a == Append(h, x)
             rc == Append(r, c)
             n == Len(r)
             m == Len(h)
             g == LastOf(W, a)
  <1>1. W \in Nat /\ W > 1
    BY WindowOdd
  <1>2. x \in Channels
    BY PictureComps, MovedComps
  <1>3. /\ h \in Seq(Channels) /\ n \in Nat /\ m \in Nat
        /\ m = IF n > W THEN W ELSE n
        /\ \A i \in 1 .. m : h[i] = Moved(ch, r[n - m + i])
    <2>1. CASE r = <<>>
      BY <1>1, <2>1
    <2>2. CASE r # <<>>
      BY <2>2 DEF IsRing
    <2> QED
      BY <2>1, <2>2
  <1> HIDE DEF x
  <1>4. /\ a \in Seq(Channels) /\ Len(a) = m + 1 /\ a[m + 1] = x
        /\ \A i \in 1 .. m : a[i] = h[i]
    BY <1>2, <1>3
  <1>5. /\ Len(rc) = n + 1 /\ rc[n + 1] = c
        /\ \A i \in 1 .. n : rc[i] = r[i]
    OBVIOUS
  <1> HIDE DEF a, rc
  <1>6. \A i \in 1 .. m + 1 : a[i] = Moved(ch, rc[n - m + i])
    <2> SUFFICES ASSUME NEW i \in 1 .. m + 1  PROVE a[i] = Moved(ch, rc[n - m + i])
      OBVIOUS
    <2>1. CASE i = m + 1
      <3>1. n - m + i = n + 1
        BY <1>3, <2>1
      <3> QED
        BY <1>4, <1>5, <2>1, <3>1 DEF x
    <2>2. CASE i \in 1 .. m
      <3>1. n - m + i \in 1 .. n
        BY <1>3, <2>2
      <3>2. rc[n - m + i] = r[n - m + i]
        BY <1>5, <3>1
      <3> QED
        BY <1>3, <1>4, <2>2, <3>2
    <2> QED
      BY <1>3, <2>1, <2>2
  <1>7. CASE m + 1 > W
    <2>1. m = W
      BY <1>1, <1>3, <1>7
    <2>2. g = SubSeq(a, 2, W + 1)
      BY <1>1, <1>4, <2>1 DEF LastOf
    <2>3. /\ g \in Seq(Channels) /\ Len(g) = W
          /\ \A i \in 1 .. W : g[i] = a[i + 1]
      BY <1>1, <1>4, <2>1, <2>2
    <2> HIDE DEF g
    <2>4. n + 1 > W
      BY <1>1, <1>3, <2>1
    <2>5. ASSUME NEW i \in 1 .. W  PROVE g[i] = Moved(ch, rc[n + 1 - W + i])
      <3>1. i + 1 \in 1 .. m + 1 /\ n - m + (i + 1) = n + 1 - W + i
        <4> HIDE DEF n, m, W
        <4>1. n \in Nat /\ m \in Nat /\ W \in Nat
          BY <1>1, <1>3
        <4> QED
          BY <2>1, <4>1
      <3>2. a[i + 1] = Moved(ch, rc[n - m + (i + 1)])
        BY <1>6, <3>1
      <3> QED
        BY <2>3, <3>1, <3>2
    <2>6. \A i \in 1 .. Len(g) : g[i] = Moved(ch, rc[Len(rc) - Len(g) + i])
      <3> SUFFICES ASSUME NEW i \in 1 .. Len(g)
                   PROVE  g[i] = Moved(ch, rc[Len(rc) - Len(g) + i])
        OBVIOUS
      <3>1. Len(rc) = n + 1 /\ Len(g) = W /\ i \in 1 .. W
        BY <1>5, <2>3
      <3>2. Len(rc) - Len(g) + i = n + 1 - W + i
        BY <3>1
      <3>3. g[i] = Moved(ch, rc[n + 1 - W + i])
        BY <2>5, <3>1
      <3> QED
        BY <3>2, <3>3
    <2> QED
      BY <1>5, <2>3, <2>4, <2>6 DEF IsRing, g, a, rc, x
  <1>8. CASE ~(m + 1 > W)
    <2>1. m = n
      BY <1>1, <1>3, <1>8
    <2>2. g = a
      BY <1>1, <1>4, <1>8 DEF LastOf
    <2>3. ~(n + 1 > W)
      BY <1>8, <2>1
    <2>4. /\ g \in Seq(Channels) /\ Len(g) = Len(rc)
          /\ \A i \in 1 .. Len(g) : g[i] = Moved(ch, rc[Len(rc) - Len(g) + i])
      BY <1>3, <1>4, <1>5, <1>6, <2>1, <2>2
    <2> HIDE DEF g
    <2> QED
      BY <1>1, <1>3, <1>5, <2>3, <2>4 DEF IsRing, g, a, rc, x
  <1> QED
    BY <1>7, <1>8

(* One component of the colours of a ring.                                 *)
Line(h, comp) == [i \in DOMAIN h |-> h[i][comp]]

(* GatedMedian decides component by component.                             *)
LEMMA GatedComps ==
  ASSUME NEW h, NEW x \in Channels, NEW t, t = GatedMedian(h, x)
  PROVE  /\ t = Channel(x.ID, t.A, t.B, t.C) /\ t.ID = x.ID
         /\ \A comp \in Comps :
              LET med == MedianComponent(Line(h, comp))
                  d == x[comp] - med
              IN t[comp] = IF d > MedianThreshold \/ d < -MedianThreshold
                           THEN med ELSE x[comp]
  <1> DEFINE Pick(comp) ==
               LET med == MedianComponent([i \in DOMAIN h |-> h[i][comp]])
                   d == x[comp] - med
               IN IF d > MedianThreshold \/ d < -MedianThreshold THEN med ELSE x[comp]
  <1>1. t = Channel(x.ID, Pick("A"), Pick("B"), Pick("C"))
    BY DEF GatedMedian
  <1>2. \A comp : Pick(comp) =
          LET med == MedianComponent(Line(h, comp))
              d == x[comp] - med
          IN IF d > MedianThreshold \/ d < -MedianThreshold THEN med ELSE x[comp]
    BY DEF Line
  <1> HIDE DEF Pick
  <1>3. t.ID = x.ID /\ t.A = Pick("A") /\ t.B = Pick("B") /\ t.C = Pick("C")
    BY <1>1 DEF Channel
  <1>4. \A comp \in Comps : t[comp] = Pick(comp)
    BY <1>3 DEF Comps
  <1> QED
    BY <1>1, <1>2, <1>3, <1>4, Zenon

(* The samples of one component in the ring of a lamp.                     *)
LEMMA RingLine ==
  ASSUME Window > 1, NEW l \in Lamps, NEW ch \in U16, NEW r \in Seq(Picture(l)), r # <<>>,
         NEW h, IsRing(h, ch, r), NEW comp \in Comps
  PROVE  /\ Len(h) \in Nat \ {0} /\ Len(h) <= Len(r)
         /\ Line(h, comp) \in [1 .. Len(h) -> U16]
         /\ \A i \in 1 .. Len(h) :
              /\ Len(r) - Len(h) + i \in 1 .. Len(r)
              /\ Line(h, comp)[i] = r[Len(r) - Len(h) + i][comp]
  <1> DEFINE n == Len(r)
             m == Len(h)
  <1>1. n \in Nat \ {0} /\ Window \in Nat
    BY WindowOdd
  <1>2. h \in Seq(Channels) /\ m \in Nat \ {0} /\ m <= n
    BY <1>1 DEF IsRing
  <1>3. DOMAIN h = 1 .. m
    BY <1>2
  <1>4. ASSUME NEW i \in 1 .. m
        PROVE  /\ n - m + i \in 1 .. n
               /\ Line(h, comp)[i] = r[n - m + i][comp] /\ Line(h, comp)[i] \in U16
    <2>1. n - m + i \in 1 .. n
      BY <1>1, <1>2
    <2>2. r[n - m + i] \in Picture(l)
      BY <2>1
    <2>3. h[i] = Moved(ch, r[n - m + i])
      BY DEF IsRing
    <2>4. h[i][comp] = r[n - m + i][comp] /\ r[n - m + i][comp] \in U16
      BY <2>2, <2>3, PictureComps, MovedComps
    <2> QED
      BY <1>3, <2>1, <2>4 DEF Line
  <1>5. DOMAIN Line(h, comp) = 1 .. m /\ Line(h, comp) = [i \in 1 .. m |-> Line(h, comp)[i]]
    BY <1>3 DEF Line
  <1> QED
    BY <1>2, <1>4, <1>5

(* The target of a lamp is a colour between its pictures, within the       *)
(* threshold of the median of the last ones.                               *)
LEMMA TargetBetween ==
  ASSUME NEW l \in Lamps, NEW ch \in U16, NEW r \in Seq(Picture(l)), r # <<>>,
         NEW h, Window > 1 => IsRing(h, ch, r), NEW t, t = Target(h, ch, r)
  PROVE  /\ t \in Channels /\ t.ID = ch
         /\ \A comp \in Comps :
              /\ \E i \in DOMAIN r : t[comp] = r[i][comp]
              /\ t[comp] \in Nat
              /\ Window > 1 =>
                   /\ MedianComponent(Line(h, comp)) \in Nat
                   /\ MedianComponent(Line(h, comp)) - MedianThreshold <= t[comp]
                   /\ t[comp] <= MedianComponent(Line(h, comp)) + MedianThreshold
  <1> DEFINE n == Len(r)
             x == Moved(ch, r[n])
  <1>1. n \in Nat \ {0} /\ n \in DOMAIN r /\ DOMAIN r = 1 .. n
    OBVIOUS
  <1>2. r[n] \in Picture(l)
    BY <1>1
  <1>3. /\ x \in Channels /\ x.ID = ch
        /\ \A comp \in Comps : x[comp] = r[n][comp] /\ x[comp] \in Nat /\ x[comp] \in U16
    BY <1>2, PictureComps, MovedComps
  <1> HIDE DEF x
  <1>4. MedianThreshold \in Nat
    BY FramesAssumption, Widths
  <1>5. CASE ~(Window > 1)
    <2>1. t = x
      BY <1>5 DEF Target, x
    <2> QED
      BY <1>1, <1>3, <1>5, <2>1
  <1>6. CASE Window > 1
    <2>1. t = GatedMedian(h, x)
      BY <1>6 DEF Target, x
    <2>2. ASSUME NEW comp \in Comps
          PROVE  /\ \E i \in DOMAIN r : t[comp] = r[i][comp]
                 /\ t[comp] \in Nat /\ t[comp] \in U16
                 /\ MedianComponent(Line(h, comp)) \in Nat
                 /\ MedianComponent(Line(h, comp)) - MedianThreshold <= t[comp]
                 /\ t[comp] <= MedianComponent(Line(h, comp)) + MedianThreshold
      <3> DEFINE s == Line(h, comp)
                 med == MedianComponent(s)
                 d == x[comp] - med
      <3>1. /\ Len(h) \in Nat \ {0} /\ s \in [1 .. Len(h) -> U16]
            /\ \A i \in 1 .. Len(h) : Len(r) - Len(h) + i \in 1 .. Len(r)
                                      /\ s[i] = r[Len(r) - Len(h) + i][comp]
        BY <1>6, RingLine
      <3>2. med \in Range(s)
        BY <3>1, MedianInTheMiddle
      <3>3. PICK i \in 1 .. Len(h) : med = s[i]
        BY <3>1, <3>2 DEF Range
      <3>4. med \in Nat /\ med \in U16 /\ \E j \in DOMAIN r : med = r[j][comp]
        <4>1. s[i] \in U16
          BY <3>1
        <4>2. Len(r) - Len(h) + i \in DOMAIN r /\ s[i] = r[Len(r) - Len(h) + i][comp]
          BY <1>1, <3>1
        <4> QED
          BY <3>3, <4>1, <4>2, Widths
      <3>5. t[comp] = IF d > MedianThreshold \/ d < -MedianThreshold THEN med ELSE x[comp]
        BY <1>3, <2>1, GatedComps
      <3> HIDE DEF med
      <3>6. /\ t[comp] \in Nat /\ t[comp] \in U16
            /\ med - MedianThreshold <= t[comp] /\ t[comp] <= med + MedianThreshold
        BY <1>3, <1>4, <3>4, <3>5
      <3>7. \E j \in DOMAIN r : t[comp] = r[j][comp]
        BY <1>1, <1>3, <3>4, <3>5
      <3> QED
        BY <3>4, <3>6, <3>7 DEF med
    <2>3. t = Channel(ch, t.A, t.B, t.C) /\ t.ID = ch
      BY <1>3, <2>1, GatedComps
    <2>4. t \in Channels
      <3>1. t.A \in U16 /\ t.B \in U16 /\ t.C \in U16
        BY <2>2 DEF Comps
      <3>2. Channel(ch, t.A, t.B, t.C) \in Channels
        BY <3>1 DEF Channel, Channels
      <3> QED
        BY <2>3, <3>2
    <2> QED
      BY <2>2, <2>3, <2>4
  <1> QED
    BY <1>5, <1>6

(* A picture that stands still for a window is the target.                 *)
LEMMA TargetSteady ==
  ASSUME NEW l \in Lamps, NEW ch \in U16, NEW r \in Seq(Picture(l)),
         NEW h, Window > 1 => IsRing(h, ch, r), NEW c \in Picture(l),
         Len(r) >= Span, \A i \in Len(r) - Span + 1 .. Len(r) : r[i] = c
  PROVE  r # <<>> /\ \A comp \in Comps : Target(h, ch, r)[comp] = c[comp]
  <1> DEFINE n == Len(r)
             x == Moved(ch, r[n])
             t == Target(h, ch, r)
  <1>1. n \in Nat \ {0} /\ Span \in Nat \ {0} /\ r # <<>>
    BY WindowOdd DEF Span
  <1>2. r[n] = c
    BY <1>1
  <1>3. /\ x \in Channels
        /\ \A comp \in Comps : x[comp] = c[comp] /\ x[comp] \in Nat
    BY <1>2, PictureComps, MovedComps
  <1> HIDE DEF x
  <1>4. CASE ~(Window > 1)
    <2>1. t = x
      BY <1>4 DEF Target, x
    <2> QED
      BY <1>1, <1>3, <2>1
  <1>5. CASE Window > 1
    <2>1. t = GatedMedian(h, x)
      BY <1>5 DEF Target, x
    <2> HIDE DEF t
    <2>2. Span = Window /\ Window \in Nat
      BY <1>5, WindowOdd DEF Span
    <2>3. Len(h) = Window
      BY <1>1, <1>5, <2>2 DEF IsRing
    <2>4. ASSUME NEW comp \in Comps  PROVE t[comp] = c[comp]
      <3> DEFINE s == Line(h, comp)
                 med == MedianComponent(s)
      <3>1. /\ Len(h) \in Nat \ {0} /\ s \in [1 .. Len(h) -> U16]
            /\ \A i \in 1 .. Len(h) : s[i] = r[n - Len(h) + i][comp]
        BY <1>1, <1>5, RingLine
      <3>2. med \in Range(s)
        BY <3>1, MedianInTheMiddle
      <3>3. PICK i \in 1 .. Len(h) : med = s[i]
        BY <3>1, <3>2 DEF Range
      <3>4. r[n - Len(h) + i] = c
        <4>1. n - Len(h) + i \in n - Span + 1 .. n
          BY <1>1, <2>2, <2>3
        <4> QED
          BY <4>1
      <3>5. med = x[comp]
        BY <1>3, <3>1, <3>3, <3>4
      <3>6. t[comp] = med \/ t[comp] = x[comp]
        BY <1>3, <2>1, GatedComps
      <3> QED
        BY <1>3, <3>5, <3>6
    <2> QED
      BY <1>1, <2>4 DEF t
  <1> QED
    BY <1>4, <1>5

(* Moving a set of numbers keeps its size.                                 *)
LEMMA Shifted ==
  ASSUME NEW k \in Int, NEW S \in SUBSET Int, IsFiniteSet(S)
  PROVE  Cardinality({i - k : i \in S}) = Cardinality(S)
  <1> DEFINE T == {i - k : i \in S}
             f == [i \in S |-> i - k]
  <1>1. f \in Bijection(S, T)
    <2>1. f \in [S -> T]
      OBVIOUS
    <2>2. \A i, j \in S : f[i] = f[j] => i = j
      OBVIOUS
    <2>3. \A x \in T : \E i \in S : f[i] = x
      OBVIOUS
    <2> QED
      BY <2>1, <2>2, <2>3 DEF Bijection, Injection, IsInjective, Surjection
  <1> HIDE DEF T, f
  <1>2. ExistsBijection(S, T)
    BY <1>1 DEF ExistsBijection
  <1> QED
    BY <1>2, FS_Bijection DEF T

(* The target is within the threshold of any majority of a full window.    *)
LEMMA TargetByMajority ==
  ASSUME Window > 1, NEW l \in Lamps, NEW ch \in U16, NEW r \in Seq(Picture(l)),
         NEW h, IsRing(h, ch, r), Len(r) >= Window,
         NEW most \in SUBSET (Len(r) - Window + 1 .. Len(r)),
         2 * Cardinality(most) >= Window, NEW comp \in Comps
  PROVE  \E i, j \in most :
           /\ r[i][comp] - MedianThreshold <= Target(h, ch, r)[comp]
           /\ Target(h, ch, r)[comp] <= r[j][comp] + MedianThreshold
  <1> DEFINE n == Len(r)
             W == Window
             k == n - W
             s == Line(h, comp)
             med == MedianComponent(s)
             t == Target(h, ch, r)
             M == {i - k : i \in most}
  <1>1. W \in Nat \ {0} /\ W % 2 = 1 /\ n \in Nat \ {0} /\ r # <<>> /\ k \in Nat
    BY WindowOdd
  <1>2. Len(h) = W
    BY <1>1 DEF IsRing
  <1>3. /\ s \in [1 .. W -> U16]
        /\ \A i \in 1 .. W : n - W + i \in 1 .. n /\ s[i] = r[n - W + i][comp]
    <2>1. /\ s \in [1 .. Len(h) -> U16]
          /\ \A i \in 1 .. Len(h) : n - Len(h) + i \in 1 .. n
                                    /\ s[i] = r[n - Len(h) + i][comp]
      BY <1>1, RingLine
    <2> QED
      BY <1>2, <2>1, Zenon
  <1>4. IsFiniteSet(most)
    <2>1. most \in SUBSET (1 .. n) /\ IsFiniteSet(1 .. n)
      BY <1>1, Intervals
    <2> QED
      BY <2>1, FS_Subset
  <1>5. M \in SUBSET (1 .. W) /\ Cardinality(M) = Cardinality(most)
    <2>1. \A i \in most : i - k \in 1 .. W
      BY <1>1
    <2>2. most \in SUBSET Int
      BY <1>1
    <2>3. k \in Int
      BY <1>1
    <2>4. Cardinality(M) = Cardinality(most)
      BY <1>4, <2>2, <2>3, Shifted, Zenon
    <2> QED
      BY <2>1, <2>4
  <1> HIDE DEF M
  <1>6. PICK a \in M, b \in M : s[a] <= med /\ med <= s[b]
    BY <1>1, <1>3, <1>5, MajorityAroundMedian
  <1>7. PICK i \in most : a = i - k
    BY DEF M
  <1>8. PICK j \in most : b = j - k
    BY DEF M
  <1>9. s[a] = r[i][comp] /\ s[b] = r[j][comp]
    <2>1. a \in 1 .. W /\ b \in 1 .. W
      BY <1>5
    <2>2. n - W + a = i /\ n - W + b = j
      BY <1>1, <1>7, <1>8
    <2> QED
      BY <1>3, <2>1, <2>2
  <1>10. /\ med \in Nat /\ t[comp] \in Nat
         /\ med - MedianThreshold <= t[comp] /\ t[comp] <= med + MedianThreshold
    BY <1>1, TargetBetween
  <1>11. s[a] \in Nat /\ s[b] \in Nat /\ MedianThreshold \in Nat
    BY <1>3, <1>5, Widths, FramesAssumption
  <1> HIDE DEF med, t, s
  <1>12. r[i][comp] - MedianThreshold <= t[comp] /\ t[comp] <= r[j][comp] + MedianThreshold
    <2> DEFINE T == t[comp]
               lo == s[a]
               hi == s[b]
    <2>1. /\ T \in Nat /\ lo \in Nat /\ hi \in Nat /\ med \in Nat /\ MedianThreshold \in Nat
          /\ lo <= med /\ med <= hi
          /\ med - MedianThreshold <= T /\ T <= med + MedianThreshold
      BY <1>6, <1>10, <1>11
    <2> HIDE DEF T, lo, hi
    <2>2. lo - MedianThreshold <= T /\ T <= hi + MedianThreshold
      BY <2>1
    <2> QED
      BY <1>9, <2>2 DEF T, lo, hi
  <1> QED
    BY <1>12 DEF t

-----------------------------------------------------------------------------
(* The steps.                                                              *)

(* One tick moves a colour between the pictures and closer to its target.  *)
LEMMA SmoothedChannel ==
  ASSUME NEW l \in Lamps, NEW r \in Seq(Picture(l)), NEW cur \in Channels, Within(cur, r),
         NEW tgt \in Channels, Within(tgt, r), NEW new, new = SmoothToward(cur, tgt)
  PROVE  /\ new \in Channels /\ new.ID = tgt.ID
         /\ Within(new, r)
         /\ \A comp \in Comps :
              /\ cur[comp] \in Nat /\ tgt[comp] \in Nat
              /\ Gap(new[comp], tgt[comp]) = Closer(Gap(cur[comp], tgt[comp]))
  <1>1. \A comp \in Comps : cur[comp] \in U16 /\ tgt[comp] \in U16
    BY DEF Channels, Comps
  <1>2. \A comp \in Comps : cur[comp] \in Nat /\ tgt[comp] \in Nat
    BY <1>1, Widths
  <1>3. /\ new.ID = tgt.ID
        /\ \A comp \in Comps : new[comp] = SmoothComponent(cur[comp], tgt[comp])
    BY DEF SmoothToward, Channel, Comps
  <1>4. ASSUME NEW comp \in Comps
        PROVE  /\ new[comp] \in U16
               /\ Gap(new[comp], tgt[comp]) = Closer(Gap(cur[comp], tgt[comp]))
               /\ \E i, j \in DOMAIN r : r[i][comp] <= new[comp] /\ new[comp] <= r[j][comp]
    <2> DEFINE a == cur[comp]
               b == tgt[comp]
               s == new[comp]
    <2>1. /\ s \in Nat
          /\ (a <= s /\ s <= b) \/ (b <= s /\ s <= a)
          /\ Gap(s, b) = Closer(Gap(a, b))
      BY <1>2, <1>3, Smoothed
    <2>2. a \in Nat /\ b \in Nat /\ a <= MaxU16 /\ b <= MaxU16 /\ MaxU16 \in Nat
      BY <1>1, <1>2, Widths
    <2>3. PICK i1 \in DOMAIN r, j1 \in DOMAIN r : r[i1][comp] <= a /\ a <= r[j1][comp]
      BY DEF Within
    <2>4. PICK i2 \in DOMAIN r, j2 \in DOMAIN r : r[i2][comp] <= b /\ b <= r[j2][comp]
      BY DEF Within
    <2>5. /\ r[i1][comp] \in Nat /\ r[j1][comp] \in Nat
          /\ r[i2][comp] \in Nat /\ r[j2][comp] \in Nat
      BY PictureComps
    <2> HIDE DEF a, b, s
    <2>6. s <= MaxU16
      BY <2>1, <2>2
    <2>7. s \in U16
      BY <2>1, <2>6, Widths
    <2>8. \E i, j \in DOMAIN r : r[i][comp] <= s /\ s <= r[j][comp]
      <3>1. CASE a <= s /\ s <= b
        <4>1. r[i1][comp] <= s /\ s <= r[j2][comp]
          BY <2>1, <2>2, <2>3, <2>4, <2>5, <3>1
        <4> QED
          BY <4>1
      <3>2. CASE b <= s /\ s <= a
        <4>1. r[i2][comp] <= s /\ s <= r[j1][comp]
          BY <2>1, <2>2, <2>3, <2>4, <2>5, <3>2
        <4> QED
          BY <4>1
      <3> QED
        BY <2>1, <3>1, <3>2
    <2> QED
      BY <2>1, <2>7, <2>8 DEF a, b, s
  <1>5. new \in Channels
    <2>1. tgt.ID \in U16
      BY DEF Channels
    <2>2. new.A \in U16 /\ new.B \in U16 /\ new.C \in U16
      BY <1>4 DEF Comps
    <2>3. new = Channel(tgt.ID, new.A, new.B, new.C)
      BY DEF SmoothToward, Channel
    <2> QED
      BY <2>1, <2>2, <2>3 DEF Channel, Channels
  <1> QED
    BY <1>2, <1>3, <1>4, <1>5 DEF Within

(* The targets of the lamps of a stream.                                   *)
LEMMA TargetsOfLamps ==
  ASSUME FramesInv, path = "dtls", NEW l \in DOMAIN remap, raws[l] # <<>>
  PROVE  /\ l \in Lamps /\ remap[l] \in U16 /\ raws[l] \in Seq(Picture(l))
         /\ latest[remap[l]] \in Channels /\ latest[remap[l]].ID = remap[l]
         /\ Within(latest[remap[l]], raws[l])
  <1>1. /\ l \in Lamps /\ remap[l] \in ProChannels /\ raws[l] \in Seq(Picture(l))
        /\ Window > 1 => IsRing(history[remap[l]], remap[l], raws[l])
        /\ latest[remap[l]] = Target(history[remap[l]], remap[l], raws[l])
    BY DEF FramesInv, Routes, Received, Aimed
  <1>2. remap[l] \in U16
    BY <1>1, FramesAssumption, Widths
  <1>3. /\ latest[remap[l]] \in Channels /\ latest[remap[l]].ID = remap[l]
        /\ \A comp \in Comps :
             /\ \E i \in DOMAIN raws[l] : latest[remap[l]][comp] = raws[l][i][comp]
             /\ latest[remap[l]][comp] \in Nat
    BY <1>1, <1>2, TargetBetween
  <1>4. Within(latest[remap[l]], raws[l])
    <2> SUFFICES ASSUME NEW comp \in Comps
                 PROVE  \E i, j \in DOMAIN raws[l] :
                          /\ raws[l][i][comp] <= latest[remap[l]][comp]
                          /\ latest[remap[l]][comp] <= raws[l][j][comp]
      BY DEF Within
    <2>1. PICK i \in DOMAIN raws[l] : latest[remap[l]][comp] = raws[l][i][comp]
      BY <1>3
    <2>2. /\ raws[l][i][comp] <= latest[remap[l]][comp]
          /\ latest[remap[l]][comp] <= raws[l][i][comp]
      BY <1>3, <2>1
    <2> QED
      BY <2>2
  <1> QED
    BY <1>1, <1>2, <1>3, <1>4

(* A frame has at most one colour for a lamp; Among and CHOOSE find it.    *)
LEMMA ColourOfLamp ==
  ASSUME NEW f \in Decoded, NEW l \in Lamps, NEW Z, Among(f, Z \cap {l}) # {}
  PROVE  /\ l \in Z
         /\ LET i == CHOOSE j \in Among(f, {l}) : TRUE IN
              /\ i \in DOMAIN f /\ f[i].ID = l /\ f[i] \in Picture(l)
              /\ \A j \in DOMAIN f : f[j].ID = l => j = i
  <1> DEFINE i == CHOOSE j \in Among(f, {l}) : TRUE
  <1>1. PICK k \in DOMAIN f : f[k].ID \in Z \cap {l}
    BY DEF Among
  <1>2. k \in Among(f, {l}) /\ l \in Z
    BY <1>1 DEF Among
  <1>3. i \in Among(f, {l})
    BY <1>2
  <1> HIDE DEF i
  <1>4. i \in DOMAIN f /\ f[i].ID = l
    BY <1>3 DEF Among
  <1> QED
    BY <1>2, <1>4, DecodedFrames DEF i

(* What the TV sent a lamp is what the receiver decoded for it.            *)
Heard(f) ==
  /\ frames < MaxFrames /\ frames' = frames + 1 /\ quiet' = 0
  /\ raws' = [l \in Lamps |-> IF Among(f, Driven \cap {l}) = {} THEN raws[l]
                               ELSE Append(raws[l], f[CHOOSE i \in Among(f, {l}) : TRUE])]

LEMMA ReceivedFrame ==
  ASSUME NEW pic \in [Lamps -> Values], NEW cut \in {0, 1}, Receive(pic, cut)
  PROVE  \E f \in Decoded : Heard(f) /\ (PushDTLS(f) \/ PushREST(f))
  <1> DEFINE f == Parse(Datagram(pic, cut)).channels
  <1>1. f \in Decoded
    BY DEF Decoded
  <1>2. Noted(pic, cut) /\ (PushDTLS(f) \/ PushREST(f))
    BY DEF Receive
  <1>3. /\ \A i \in DOMAIN f : f[i].ID \in Lamps /\ f[i] = Colour(f[i].ID, pic[f[i].ID])
        /\ \A l \in Lamps : l \in Complete(cut) <=> \E i \in DOMAIN f : f[i].ID = l
    BY DatagramDecoded
  <1> HIDE DEF f
  <1>4. ASSUME NEW l \in Lamps
        PROVE  (IF l \in Driven \cap Complete(cut)
                THEN Append(raws[l], Colour(l, pic[l])) ELSE raws[l])
               = IF Among(f, Driven \cap {l}) = {} THEN raws[l]
                 ELSE Append(raws[l], f[CHOOSE i \in Among(f, {l}) : TRUE])
    <2>1. Among(f, Driven \cap {l}) # {} <=> l \in Driven \cap Complete(cut)
      BY <1>3 DEF Among
    <2>2. ASSUME Among(f, Driven \cap {l}) # {}
          PROVE  f[CHOOSE i \in Among(f, {l}) : TRUE] = Colour(l, pic[l])
      <3> DEFINE i == CHOOSE j \in Among(f, {l}) : TRUE
      <3>1. Among(f, {l}) # {}
        BY <2>2 DEF Among
      <3>2. i \in Among(f, {l})
        BY <3>1
      <3> HIDE DEF i
      <3>3. i \in DOMAIN f /\ f[i].ID = l
        BY <3>2 DEF Among
      <3>4. f[i] = Colour(l, pic[l])
        BY <1>3, <3>3
      <3> QED
        BY <3>4 DEF i
    <2> QED
      BY <2>1, <2>2
  <1>5. Heard(f)
    BY <1>2, <1>4 DEF Noted, Heard
  <1> QED
    BY <1>1, <1>2, <1>5

(* What a frame does to the ring and the target of a lamp of the stream.   *)
LEMMA PushEffect ==
  ASSUME FramesInv, NEW f \in Decoded, Heard(f), PushDTLS(f), NEW l \in DOMAIN remap
  PROVE  \/ /\ raws'[l] = raws[l]
            /\ remap[l] \in DOMAIN latest' <=> remap[l] \in DOMAIN latest
            /\ remap[l] \in DOMAIN latest => latest'[remap[l]] = latest[remap[l]]
            /\ remap[l] \in DOMAIN history => history'[remap[l]] = history[remap[l]]
         \/ \E c \in Picture(l) :
              /\ raws'[l] = Append(raws[l], c)
              /\ remap[l] \in DOMAIN latest'
              /\ Window > 1 =>
                   history'[remap[l]] = Ring(remap[l], Moved(remap[l], c))
              /\ latest'[remap[l]] =
                   IF Window > 1 THEN GatedMedian(history'[remap[l]], Moved(remap[l], c))
                   ELSE Moved(remap[l], c)
  <1> DEFINE mapped == Among(f, DOMAIN remap)
             hit == {remap[f[i].ID] : i \in mapped}
             Raw(ch) == LET c == f[CHOOSE i \in mapped : remap[f[i].ID] = ch]
                        IN Channel(ch, c.A, c.B, c.C)
             filtered == IF Window > 1 THEN hit ELSE {}
             ch == remap[l]
  <1>1. /\ history' = [x \in DOMAIN history \cup filtered |->
                         IF x \in filtered THEN Ring(x, Raw(x)) ELSE history[x]]
        /\ latest' = [x \in DOMAIN latest \cup hit |->
                        IF x \in filtered THEN GatedMedian(history'[x], Raw(x))
                        ELSE IF x \in hit THEN Raw(x) ELSE latest[x]]
        /\ raws' = [k \in Lamps |->
                      IF Among(f, DOMAIN remap \cap {k}) = {} THEN raws[k]
                      ELSE Append(raws[k], f[CHOOSE i \in Among(f, {k}) : TRUE])]
    BY DEF PushDTLS, Heard, Driven
  <1>2. /\ l \in Lamps
        /\ \A k \in DOMAIN remap : remap[k] = ch => k = l
    BY DEF FramesInv, Routes
  <1>3. \A i \in mapped : i \in DOMAIN f /\ f[i].ID \in DOMAIN remap
    BY DEF Among
  <1>4. CASE Among(f, DOMAIN remap \cap {l}) = {}
    <2>1. ch \notin hit
      <3> SUFFICES ASSUME NEW i \in mapped, remap[f[i].ID] = ch  PROVE FALSE
        OBVIOUS
      <3>1. f[i].ID = l /\ i \in DOMAIN f
        BY <1>2, <1>3
      <3> QED
        BY <1>4, <3>1 DEF Among
    <2>2. ch \notin filtered
      BY <2>1
    <2>3. raws'[l] = raws[l]
      BY <1>1, <1>2, <1>4
    <2> HIDE DEF hit, filtered, Raw
    <2>4. /\ ch \in DOMAIN latest' <=> ch \in DOMAIN latest
          /\ ch \in DOMAIN latest => latest'[ch] = latest[ch]
          /\ ch \in DOMAIN history => history'[ch] = history[ch]
      BY <1>1, <2>1, <2>2
    <2> QED
      BY <2>3, <2>4
  <1>5. CASE Among(f, DOMAIN remap \cap {l}) # {}
    <2> DEFINE i == CHOOSE j \in Among(f, {l}) : TRUE
               c == f[i]
    <2>1. /\ i \in DOMAIN f /\ c.ID = l /\ c \in Picture(l)
          /\ \A j \in DOMAIN f : f[j].ID = l => j = i
      BY <1>2, <1>5, ColourOfLamp
    <2> HIDE DEF i
    <2>2. raws'[l] = Append(raws[l], c)
      BY <1>1, <1>2, <1>5 DEF i
    <2>3. i \in mapped
      BY <2>1 DEF Among
    <2>4. \A j \in mapped : remap[f[j].ID] = ch <=> j = i
      BY <1>2, <1>3, <2>1
    <2>5. (CHOOSE j \in mapped : remap[f[j].ID] = ch) = i
      BY <2>3, <2>4, Zenon
    <2>6. Raw(ch) = Moved(ch, c)
      BY <2>5 DEF Moved
    <2>7. ch \in hit
      BY <2>1, <2>3
    <2>8. ch \in filtered <=> Window > 1
      BY <2>7
    <2> HIDE DEF hit, filtered, Raw, c
    <2>9. Window > 1 => history'[ch] = Ring(ch, Moved(ch, c))
      BY <1>1, <2>6, <2>8
    <2>10. /\ ch \in DOMAIN latest'
           /\ latest'[ch] = IF Window > 1 THEN GatedMedian(history'[ch], Moved(ch, c))
                            ELSE Moved(ch, c)
      BY <1>1, <2>6, <2>7, <2>8
    <2> QED
      BY <2>1, <2>2, <2>9, <2>10
  <1> QED
    BY <1>4, <1>5

(* Colours between the pictures of a lamp are at most Spread apart.        *)
LEMMA WithinSpread ==
  ASSUME NEW l \in Lamps, NEW r \in Seq(Picture(l)), NEW c \in Channels, Within(c, r),
         NEW d \in Channels, Within(d, r), NEW comp \in Comps
  PROVE  Gap(c[comp], d[comp]) <= Spread
  <1>1. PICK i1 \in DOMAIN r, j1 \in DOMAIN r :
          r[i1][comp] <= c[comp] /\ c[comp] <= r[j1][comp]
    BY DEF Within
  <1>2. PICK i2 \in DOMAIN r, j2 \in DOMAIN r :
          r[i2][comp] <= d[comp] /\ d[comp] <= r[j2][comp]
    BY DEF Within
  <1>3. /\ r[i1][comp] \in Nat /\ r[j1][comp] \in Nat
        /\ r[i2][comp] \in Nat /\ r[j2][comp] \in Nat
        /\ r[j1][comp] - r[i2][comp] <= Spread /\ r[j2][comp] - r[i1][comp] <= Spread
    <2>1. /\ r[i1] \in Picture(l) /\ r[j1] \in Picture(l)
          /\ r[i2] \in Picture(l) /\ r[j2] \in Picture(l)
      OBVIOUS
    <2> QED
      BY <2>1, PictureComps
  <1>4. c[comp] \in U16 /\ d[comp] \in U16
    BY DEF Channels, Comps
  <1>5. c[comp] \in Nat /\ d[comp] \in Nat /\ Spread \in Nat
    BY <1>4, Widths, SpreadBound
  <1>6. c[comp] - d[comp] <= Spread
    BY <1>1, <1>2, <1>3, <1>5
  <1>7. d[comp] - c[comp] <= Spread
    BY <1>1, <1>2, <1>3, <1>5
  <1> QED
    BY <1>6, <1>7 DEF Gap

(* A frame on the stream: rings and targets follow it, what was sent stays *)
(* within a fade of them.                                                  *)
LEMMA PushDTLSKeeps ==
  ASSUME FramesInv, NEW f \in Decoded, Heard(f), PushDTLS(f)
  PROVE  FramesInv'
  <1>1. /\ path = "dtls" /\ path' = path /\ requested' = requested /\ remap' = remap
        /\ current' = current /\ shown' = shown /\ quiet' = 0
    BY DEF PushDTLS, Heard, Driven
  <1>2. Routes /\ Received /\ Aimed /\ Faded
    BY <1>1 DEF FramesInv
  <1>3. Routes'
    BY <1>1, <1>2 DEF Routes
  <1>4. /\ DOMAIN raws' = Lamps
        /\ \A l \in Lamps : l \notin DOMAIN remap => raws'[l] = raws[l]
    <2>1. raws' = [k \in Lamps |->
                     IF Among(f, DOMAIN remap \cap {k}) = {} THEN raws[k]
                     ELSE Append(raws[k], f[CHOOSE i \in Among(f, {k}) : TRUE])]
      BY DEF PushDTLS, Heard, Driven
    <2>2. \A l \in Lamps : l \notin DOMAIN remap => Among(f, DOMAIN remap \cap {l}) = {}
      BY DEF Among
    <2> QED
      BY <2>1, <2>2
  <1>5. \A l \in DOMAIN remap : \/ raws'[l] = raws[l]
                                \/ \E c \in Picture(l) : raws'[l] = Append(raws[l], c)
    BY PushEffect
  <1>6. \A l \in DOMAIN remap : l \in Lamps /\ remap[l] \in ProChannels /\ remap[l] \in U16
    BY <1>2, FramesAssumption, Widths DEF Routes
  <1>7. Received'
    <2>1. ASSUME NEW l \in Lamps
          PROVE  /\ raws'[l] \in Seq(Picture(l))
                 /\ raws'[l] # <<>> => l \in DOMAIN remap
      <3>1. raws[l] \in Seq(Picture(l)) /\ (raws[l] # <<>> => l \in DOMAIN remap)
        BY <1>1, <1>2 DEF Received
      <3> QED
        BY <1>4, <1>5, <3>1
    <2>2. DOMAIN shown' = Lamps
      BY <1>1, <1>2 DEF Received
    <2> QED
      BY <1>1, <1>4, <2>1, <2>2 DEF Received
  <1>8. /\ DOMAIN latest \subseteq DOMAIN latest'
        /\ DOMAIN latest' \subseteq {remap[l] : l \in DOMAIN remap}
        /\ Window > 1 => DOMAIN history' = DOMAIN latest'
    <2> DEFINE hit == {remap[f[i].ID] : i \in Among(f, DOMAIN remap)}
    <2>1. /\ DOMAIN latest' = DOMAIN latest \cup hit
          /\ DOMAIN history' = DOMAIN history \cup (IF Window > 1 THEN hit ELSE {})
      BY DEF PushDTLS
    <2>2. hit \subseteq {remap[l] : l \in DOMAIN remap}
      BY DEF Among
    <2>3. /\ DOMAIN latest \subseteq {remap[l] : l \in DOMAIN remap}
          /\ Window > 1 => DOMAIN history = DOMAIN latest
      BY <1>2 DEF Aimed
    <2> HIDE DEF hit
    <2> QED
      BY <2>1, <2>2, <2>3
  <1>9. ASSUME NEW l \in DOMAIN remap
        PROVE  /\ remap[l] \in DOMAIN latest' <=> raws'[l] # <<>>
               /\ raws'[l] # <<>> =>
                    /\ Window > 1 => IsRing(history'[remap[l]], remap[l], raws'[l])
                    /\ latest'[remap[l]] = Target(history'[remap[l]], remap[l], raws'[l])
    <2> DEFINE ch == remap[l]
               r == raws[l]
    <2>1. /\ r \in Seq(Picture(l)) /\ (ch \in DOMAIN latest <=> r # <<>>)
          /\ Window > 1 => DOMAIN history = DOMAIN latest
          /\ r # <<>> => /\ Window > 1 => IsRing(history[ch], ch, r)
                         /\ latest[ch] = Target(history[ch], ch, r)
      BY <1>2, <1>6 DEF Aimed, Received
    <2>2. CASE /\ raws'[l] = r
               /\ ch \in DOMAIN latest' <=> ch \in DOMAIN latest
               /\ ch \in DOMAIN latest => latest'[ch] = latest[ch]
               /\ ch \in DOMAIN history => history'[ch] = history[ch]
      <3>1. CASE Window > 1
        BY <2>1, <2>2, <3>1
      <3>2. CASE ~(Window > 1)
        BY <2>1, <2>2, <3>2 DEF Target
      <3> QED
        BY <3>1, <3>2
    <2>3. CASE \E c \in Picture(l) :
                 /\ raws'[l] = Append(r, c)
                 /\ ch \in DOMAIN latest'
                 /\ Window > 1 => history'[ch] = Ring(ch, Moved(ch, c))
                 /\ latest'[ch] = IF Window > 1 THEN GatedMedian(history'[ch], Moved(ch, c))
                                  ELSE Moved(ch, c)
      <3>1. PICK c \in Picture(l) :
                 /\ raws'[l] = Append(r, c)
                 /\ ch \in DOMAIN latest'
                 /\ Window > 1 => history'[ch] = Ring(ch, Moved(ch, c))
                 /\ latest'[ch] = IF Window > 1 THEN GatedMedian(history'[ch], Moved(ch, c))
                                  ELSE Moved(ch, c)
        BY <2>3
      <3>2. /\ raws'[l] # <<>> /\ Len(raws'[l]) = Len(r) + 1
            /\ raws'[l][Len(raws'[l])] = c
        BY <2>1, <3>1
      <3>3. latest'[ch] = Target(history'[ch], ch, raws'[l])
        BY <3>1, <3>2 DEF Target
      <3>4. ASSUME Window > 1  PROVE IsRing(history'[ch], ch, raws'[l])
        <4> DEFINE h == IF ch \in DOMAIN history THEN history[ch] ELSE <<>>
        <4>1. (r = <<>> => h = <<>>) /\ (r # <<>> => IsRing(h, ch, r))
          BY <2>1, <3>4
        <4>2. history'[ch] = LastOf(Window, Append(h, Moved(ch, c)))
          BY <3>1, <3>4 DEF Ring
        <4> HIDE DEF h
        <4>3. IsRing(LastOf(Window, Append(h, Moved(ch, c))), ch, Append(r, c))
          BY <1>6, <2>1, <3>4, <4>1, RingStep
        <4> QED
          BY <3>1, <4>2, <4>3
      <3> QED
        BY <3>1, <3>2, <3>3, <3>4
    <2> QED
      BY <2>2, <2>3, PushEffect
  <1>10. Aimed'
    BY <1>1, <1>8, <1>9 DEF Aimed
  <1>11. Faded'
    <2>1. ASSUME NEW l \in DOMAIN remap, remap[l] \in DOMAIN current
          PROVE  /\ Within(current[remap[l]], raws'[l])
                 /\ \A comp \in Comps :
                      Gap(current[remap[l]][comp], latest'[remap[l]][comp]) <= FadeLeft[0]
      <3> DEFINE ch == remap[l]
                 c == current[ch]
      <3>1. /\ c \in Channels /\ c.ID = ch /\ Within(c, raws[l]) /\ ch \in DOMAIN latest
        BY <1>2, <2>1 DEF Faded
      <3>2. /\ raws[l] # <<>> /\ raws'[l] # <<>> /\ raws[l] \in Seq(Picture(l))
            /\ raws'[l] \in Seq(Picture(l))
        BY <1>2, <1>6, <1>7, <1>8, <1>9, <3>1 DEF Aimed, Received
      <3>3. Within(c, raws'[l])
        <4>1. \A i \in DOMAIN raws[l] : i \in DOMAIN raws'[l] /\ raws'[l][i] = raws[l][i]
          BY <1>5, <3>2
        <4> QED
          BY <3>1, <4>1 DEF Within
      <3>4. latest'[ch] \in Channels /\ Within(latest'[ch], raws'[l])
        <4>1. /\ latest'[ch] \in Channels
              /\ \A comp \in Comps :
                   /\ \E i \in DOMAIN raws'[l] : latest'[ch][comp] = raws'[l][i][comp]
                   /\ latest'[ch][comp] \in Nat
          BY <1>6, <1>9, <3>2, TargetBetween
        <4>2. ASSUME NEW comp \in Comps
              PROVE  \E i, j \in DOMAIN raws'[l] :
                       /\ raws'[l][i][comp] <= latest'[ch][comp]
                       /\ latest'[ch][comp] <= raws'[l][j][comp]
          <5>1. PICK i \in DOMAIN raws'[l] : latest'[ch][comp] = raws'[l][i][comp]
            BY <4>1
          <5>2. /\ raws'[l][i][comp] <= latest'[ch][comp]
                /\ latest'[ch][comp] <= raws'[l][i][comp]
            BY <4>1, <5>1
          <5> QED
            BY <5>2
        <4> QED
          BY <4>1, <4>2 DEF Within
      <3>5. \A comp \in Comps : Gap(c[comp], latest'[ch][comp]) <= Spread
        BY <1>6, <3>1, <3>2, <3>3, <3>4, WithinSpread
      <3> QED
        BY <3>3, <3>5, FadeLeftUnfolds
    <2>2. DOMAIN current \subseteq DOMAIN latest'
      BY <1>2, <1>8 DEF Faded
    <2>3. ~(quiet' > 0)
      BY <1>1
    <2>4. \A l \in DOMAIN remap : remap[l] \in DOMAIN current =>
            /\ current[remap[l]] \in Channels /\ current[remap[l]].ID = remap[l]
            /\ shown[l] = OnStream(current[remap[l]])
      BY <1>2 DEF Faded
    <2> QED
      BY <1>1, <2>1, <2>2, <2>3, <2>4 DEF Faded
  <1>12. path' \in {"rest", "dtls"} /\ requested' \subseteq Lamps /\ quiet' \in 0 .. Settle
    BY <1>1, SettleAssumption DEF FramesInv
  <1> QED
    BY <1>3, <1>7, <1>10, <1>11, <1>12 DEF FramesInv

(* A tick: every colour moves closer to its target, and the Pro shows on   *)
(* every lamp what was sent on its channel.                                *)
LEMMA SendTickKeeps ==
  ASSUME FramesInv, SendTick
  PROVE  FramesInv'
  <1> DEFINE p == Parse(wire').channels
             On(l) == {i \in DOMAIN p : l \in DOMAIN remap /\ remap[l] = p[i].ID}
             C == DOMAIN latest
  <1>1. /\ path = "dtls" /\ path' = path /\ requested' = requested /\ remap' = remap
        /\ latest' = latest /\ history' = history /\ raws' = raws
        /\ quiet' = IF quiet < Settle THEN quiet + 1 ELSE quiet
    BY DEF SendTick
  <1>2. /\ current' = [ch \in C |-> Stepped(ch)]
        /\ wire' = Encode(FrameOf(current'))
        /\ shown' = [l \in Lamps |-> IF On(l) = {} THEN shown[l]
                                     ELSE OnStream(p[CHOOSE i \in On(l) : TRUE])]
    BY DEF SendTick, OnStream
  <1>3. Routes /\ Received /\ Aimed /\ Faded /\ quiet \in 0 .. Settle
    BY <1>1 DEF FramesInv
  <1>4. quiet' \in 0 .. Settle /\ Settle \in Nat
    BY <1>1, <1>3, SettleAssumption
  <1>5. ASSUME NEW l \in DOMAIN remap, remap[l] \in C
        PROVE  /\ current'[remap[l]] \in Channels /\ current'[remap[l]].ID = remap[l]
               /\ Within(current'[remap[l]], raws[l])
               /\ \A comp \in Comps :
                    Gap(current'[remap[l]][comp], latest[remap[l]][comp]) <= FadeLeft[quiet']
    <2> DEFINE ch == remap[l]
               t == latest[ch]
    <2>1. current'[ch] = Stepped(ch)
      BY <1>2, <1>5
    <2>2. raws[l] # <<>>
      BY <1>3, <1>5 DEF Aimed
    <2>3. /\ l \in Lamps /\ raws[l] \in Seq(Picture(l))
          /\ t \in Channels /\ t.ID = ch /\ Within(t, raws[l])
      BY <1>1, <2>2, TargetsOfLamps
    <2>4. FadeLeft[quiet'] \in Nat /\ FadeLeft[quiet] \in Nat
      BY <1>3, <1>4, FadeLeftUnfolds
    <2>5. \A comp \in Comps : t[comp] \in Nat
      BY <2>3, Widths DEF Channels, Comps
    <2>6. CASE ch \notin DOMAIN current
      <3>1. current'[ch] = t
        BY <2>1, <2>6 DEF Stepped
      <3>2. \A comp \in Comps : Gap(t[comp], t[comp]) <= FadeLeft[quiet']
        BY <2>4, <2>5 DEF Gap
      <3> QED
        BY <2>3, <3>1, <3>2
    <2>7. CASE ch \in DOMAIN current
      <3> DEFINE cur == current[ch]
                 new == current'[ch]
      <3>1. new = SmoothToward(cur, t)
        BY <2>1, <2>7 DEF Stepped
      <3>2. /\ cur \in Channels /\ Within(cur, raws[l])
            /\ \A comp \in Comps : Gap(cur[comp], t[comp]) <= FadeLeft[quiet]
        BY <1>3, <2>7 DEF Faded
      <3>3. /\ new \in Channels /\ new.ID = t.ID /\ Within(new, raws[l])
            /\ \A comp \in Comps :
                 /\ cur[comp] \in Nat /\ t[comp] \in Nat
                 /\ Gap(new[comp], t[comp]) = Closer(Gap(cur[comp], t[comp]))
        BY <2>3, <3>1, <3>2, SmoothedChannel
      <3>4. ASSUME NEW comp \in Comps  PROVE Gap(new[comp], t[comp]) <= FadeLeft[quiet']
        <4> DEFINE g == Gap(cur[comp], t[comp])
        <4>1. g \in Nat /\ g <= FadeLeft[quiet]
          BY <3>2, <3>3 DEF Gap
        <4> HIDE DEF g
        <4>2. Closer(g) \in Nat /\ Closer(g) <= Closer(FadeLeft[quiet])
          BY <2>4, <4>1, CloserGrows
        <4>3. Closer(FadeLeft[quiet]) <= FadeLeft[quiet']
          <5>1. CASE quiet < Settle
            <6>1. quiet' = quiet + 1 /\ quiet + 1 \in 1 .. Settle /\ (quiet + 1) - 1 = quiet
              BY <1>1, <1>3, <1>4, <5>1
            <6>2. FadeLeft[quiet + 1] = Closer(FadeLeft[(quiet + 1) - 1])
              BY <6>1, FadeLeftUnfolds
            <6>3. FadeLeft[quiet'] = Closer(FadeLeft[quiet])
              BY <6>1, <6>2
            <6> QED
              BY <2>4, <6>3
          <5>2. CASE ~(quiet < Settle)
            <6>1. quiet' = quiet /\ quiet = Settle
              BY <1>1, <1>3, <1>4, <5>2
            <6>2. FadeLeft[quiet] = 0
              BY <6>1, SettleAssumption
            <6>3. Closer(0) = 0
              BY DEF Closer, SnapColorDelta
            <6> QED
              BY <6>1, <6>2, <6>3
          <5> QED
            BY <5>1, <5>2
        <4>4. Closer(FadeLeft[quiet]) \in Nat
          BY <2>4, CloserGrows
        <4>5. Gap(new[comp], t[comp]) = Closer(g)
          BY <3>3 DEF g
        <4> QED
          BY <2>4, <4>2, <4>3, <4>4, <4>5
      <3> QED
        BY <2>3, <3>3, <3>4
    <2> QED
      BY <2>6, <2>7
  <1>6. \A ch \in C : \E l \in DOMAIN remap : remap[l] = ch
    BY <1>3 DEF Aimed
  <1>7. C \in SUBSET ProChannels
    BY <1>3, <1>6 DEF Routes
  <1>8. /\ current' \in [C -> Channels] /\ DOMAIN current' = C
        /\ \A ch \in C : current'[ch].ID = ch
    BY <1>2, <1>5, <1>6
  <1>9. /\ \A i \in DOMAIN p : p[i].ID \in C /\ p[i] = current'[p[i].ID]
        /\ \A ch \in C : \E i \in DOMAIN p : p[i].ID = ch
    <2>1. p = Parse(Encode(FrameOf(current'))).channels
      BY <1>2
    <2> DEFINE f == current'
    <2>2. f \in [C -> Channels] /\ DOMAIN f = C /\ \A ch \in C : f[ch].ID = ch
      BY <1>8
    <2>3. p = Parse(Encode(FrameOf(f))).channels
      BY <2>1
    <2> HIDE DEF f, p, C
    <2>4. /\ \A i \in DOMAIN p : p[i].ID \in C /\ p[i] = f[p[i].ID]
          /\ \A ch \in C : \E i \in DOMAIN p : p[i].ID = ch
      BY <1>7, <2>2, <2>3, SentFrame
    <2> QED
      BY <2>4 DEF f
  <1> HIDE DEF p
  <1>10. ASSUME NEW l \in DOMAIN remap, remap[l] \in C
         PROVE  shown'[l] = OnStream(current'[remap[l]])
    <2>1. l \in Lamps
      BY <1>3 DEF Routes
    <2>2. On(l) # {}
      BY <1>9, <1>10
    <2> DEFINE i == CHOOSE j \in On(l) : TRUE
    <2>3. i \in On(l)
      BY <2>2
    <2>4. shown'[l] = OnStream(p[i])
      BY <1>2, <2>1, <2>2
    <2> HIDE DEF i
    <2>5. p[i] = current'[remap[l]]
      BY <1>9, <2>3
    <2> QED
      BY <2>4, <2>5
  <1>11. Faded'
    BY <1>1, <1>5, <1>8, <1>10 DEF Faded
  <1>12. Routes' /\ Aimed'
    BY <1>1, <1>3 DEF Routes, Aimed
  <1>13. Received'
    <2>1. DOMAIN shown' = Lamps
      BY <1>2
    <2> QED
      BY <1>1, <1>3, <2>1 DEF Received
  <1> QED
    BY <1>1, <1>4, <1>11, <1>12, <1>13 DEF FramesInv

(* A frame on the REST path: its lamps show it at once.                    *)
LEMMA PushRESTKeeps ==
  ASSUME FramesInv, NEW f \in Decoded, Heard(f), PushREST(f)
  PROVE  FramesInv'
  <1> DEFINE P(l) == Among(f, requested \cap {l})
             c(l) == f[CHOOSE i \in Among(f, {l}) : TRUE]
  <1>1. /\ path = "rest" /\ path' = path /\ requested' = requested /\ remap' = remap
        /\ quiet' = 0
        /\ shown' = [l \in Lamps |-> IF P(l) = {} THEN shown[l] ELSE ToHueV1State(c(l))]
        /\ raws' = [l \in Lamps |-> IF P(l) = {} THEN raws[l] ELSE Append(raws[l], c(l))]
    BY DEF PushREST, Heard, Driven, streamVars
  <1>2. Routes /\ Received
    BY DEF FramesInv
  <1>3. \A l \in Lamps : P(l) # {} => c(l) \in Picture(l)
    BY ColourOfLamp
  <1> HIDE DEF P, c
  <1>4. ASSUME NEW l \in Lamps
        PROVE  /\ raws'[l] \in Seq(Picture(l))
               /\ raws'[l] # <<>> => shown'[l] = ToHueV1State(raws'[l][Len(raws'[l])])
    <2>1. /\ raws[l] \in Seq(Picture(l))
          /\ raws[l] # <<>> => shown[l] = ToHueV1State(raws[l][Len(raws[l])])
      BY <1>1, <1>2 DEF Received
    <2>2. CASE P(l) = {}
      BY <1>1, <2>1, <2>2
    <2>3. CASE P(l) # {}
      <3>1. raws'[l] = Append(raws[l], c(l)) /\ shown'[l] = ToHueV1State(c(l))
        BY <1>1, <2>3
      <3>2. raws'[l] \in Seq(Picture(l)) /\ raws'[l][Len(raws'[l])] = c(l)
        BY <1>3, <2>1, <2>3, <3>1
      <3> QED
        BY <3>1, <3>2
    <2> QED
      BY <2>2, <2>3
  <1>5. Received'
    BY <1>1, <1>4 DEF Received
  <1>6. Routes'
    BY <1>1, <1>2 DEF Routes
  <1>7. path' # "dtls" /\ quiet' \in 0 .. Settle
    BY <1>1, SettleAssumption
  <1> QED
    BY <1>1, <1>5, <1>6, <1>7 DEF FramesInv

(* Nothing has been sent yet.                                              *)
LEMMA FramesInitially == FramesInit => FramesInv
  <1> SUFFICES ASSUME FramesInit  PROVE FramesInv
    OBVIOUS
  <1>1. DOMAIN remap = {} /\ path = "rest" /\ requested = Lamps /\ quiet = 0
    BY DEF FramesInit, Nowhere
  <1>2. DOMAIN raws = Lamps /\ DOMAIN shown = Lamps /\ \A l \in Lamps : raws[l] = <<>>
    BY DEF FramesInit
  <1>3. Routes
    BY <1>1 DEF Routes
  <1>4. Received
    <2>1. \A l \in Lamps : raws[l] \in Seq(Picture(l))
      <3>1. \A S : <<>> \in Seq(S)
        OBVIOUS
      <3> QED
        BY <1>2, <3>1, Zenon
    <2>2. path # "dtls"
      BY <1>1
    <2> QED
      BY <1>2, <2>1, <2>2 DEF Received
  <1> QED
    BY <1>1, <1>3, <1>4, SettleAssumption DEF FramesInv

(* A new zone: what the TV sent to the old one no longer counts, unless a  *)
(* stream goes on with the lamps it was established for.                   *)
LEMMA SetRequestedMembersKeeps ==
  ASSUME FramesInv, NEW z \in SUBSET Lamps, SetRequestedMembers(z)
  PROVE  FramesInv'
  <1>1. /\ path' = path /\ remap' = remap /\ latest' = latest /\ current' = current
        /\ history' = history /\ shown' = shown /\ quiet' = quiet /\ requested' = z
    BY DEF SetRequestedMembers, streamVars
  <1>2. Routes' /\ requested' \subseteq Lamps /\ quiet' \in 0 .. Settle
    BY <1>1 DEF FramesInv, Routes
  <1>3. CASE path = "rest"
    <2>1. raws' = [l \in Lamps |-> <<>>]
      BY <1>3 DEF SetRequestedMembers, Forget
    <2>2. Received'
      BY <1>1, <1>3, <2>1 DEF FramesInv, Received
    <2> QED
      BY <1>1, <1>2, <1>3, <2>2 DEF FramesInv
  <1>4. CASE path # "rest"
    <2>1. raws' = raws
      BY <1>4 DEF SetRequestedMembers
    <2>2. Received' /\ (path' = "dtls" => Aimed' /\ Faded')
      BY <1>1, <2>1 DEF FramesInv, Received, Aimed, Faded
    <2> QED
      BY <1>1, <1>2, <2>2 DEF FramesInv
  <1> QED
    BY <1>3, <1>4

(* A new stream starts from empty maps, whatever the channels carried.     *)
LEMMA EstablishKeeps ==
  ASSUME FramesInv, NEW rm \in Remaps, Establish(rm)
  PROVE  FramesInv'
  <1>1. /\ path' = "dtls" /\ remap' = rm /\ quiet' = 0
        /\ requested' = requested /\ shown' = shown
        /\ raws' = [l \in Lamps |-> <<>>]
    BY DEF Establish, Forget
  <1>2. DOMAIN latest' = {} /\ DOMAIN current' = {} /\ DOMAIN history' = {}
    BY DEF Establish, FreshMaps, Nowhere
  <1>3. /\ requested \subseteq Lamps /\ DOMAIN shown = Lamps
        /\ rm \in [requested -> ProChannels]
        /\ \A l, k \in requested : rm[l] = rm[k] => l = k
    BY DEF FramesInv, Received, Remaps
  <1>4. Routes'
    BY <1>1, <1>3 DEF Routes
  <1>5. Received'
    BY <1>1, <1>3 DEF Received
  <1>6. Aimed'
    <2>1. \A l \in DOMAIN remap' : raws'[l] = <<>>
      BY <1>1, <1>3
    <2> QED
      BY <1>2, <2>1 DEF Aimed
  <1>7. Faded'
    BY <1>1, <1>2 DEF Faded
  <1> QED
    BY <1>1, <1>3, <1>4, <1>5, <1>6, <1>7, SettleAssumption DEF FramesInv

(* The end of a stream: the maps stay, and are no longer looked at.        *)
LEMMA TeardownKeeps ==
  ASSUME FramesInv, Teardown
  PROVE  FramesInv'
  <1>1. /\ path' = "rest" /\ remap' = remap /\ quiet' = quiet
        /\ requested' = requested /\ shown' = shown
        /\ raws' = [l \in Lamps |-> <<>>]
    BY DEF Teardown, Forget
  <1>2. Routes' /\ Received'
    BY <1>1 DEF FramesInv, Routes, Received
  <1> QED
    BY <1>1, <1>2 DEF FramesInv

(* The invariant is inductive.                                             *)
LEMMA FramesStep == FramesInv /\ [FramesNext]_frameVars => FramesInv'
  <1> SUFFICES ASSUME FramesInv, [FramesNext]_frameVars  PROVE FramesInv'
    OBVIOUS
  <1>1. CASE \E z \in SUBSET Lamps : SetRequestedMembers(z)
    BY <1>1, SetRequestedMembersKeeps
  <1>2. CASE \E rm \in Remaps : Establish(rm)
    BY <1>2, EstablishKeeps
  <1>3. CASE \E pic \in [Lamps -> Values], cut \in {0, 1} : Receive(pic, cut)
    <2>1. PICK f \in Decoded : Heard(f) /\ (PushDTLS(f) \/ PushREST(f))
      BY <1>3, ReceivedFrame
    <2> QED
      BY <2>1, PushDTLSKeeps, PushRESTKeeps
  <1>4. CASE Teardown
    BY <1>4, TeardownKeeps
  <1>5. CASE SendTick
    BY <1>5, SendTickKeeps
  <1>6. CASE UNCHANGED frameVars
    BY <1>6 DEF frameVars, streamVars, FramesInv, Routes, Received, Aimed, Faded
  <1> QED
    BY <1>1, <1>2, <1>3, <1>4, <1>5, <1>6 DEF FramesNext

(* It holds in every state.                                                *)
LEMMA FramesInvariant == FramesSpec => []FramesInv
  BY FramesInitially, FramesStep, PTL DEF FramesSpec

-----------------------------------------------------------------------------
(* A lamp on the stream shows only colours between those the TV sent it    *)
(* since the stream was established: smoothToward never overshoots, and    *)
(* establish leaves nothing of an earlier stream in the maps.              *)
THEOREM OwnColoursAlways == FramesSpec => []OwnColours
  <1>1. FramesInv => OwnColours
    <2> SUFFICES ASSUME FramesInv, NEW l \in Lamps, path = "dtls", l \in DOMAIN remap,
                        remap[l] \in DOMAIN current, NEW comp \in {"A", "B", "C"}
                 PROVE  \E i, j \in DOMAIN raws[l] :
                          /\ raws[l][i][comp] <= shown[l][comp]
                          /\ shown[l][comp] <= raws[l][j][comp]
      BY DEF OwnColours
    <2>1. /\ Within(current[remap[l]], raws[l])
          /\ shown[l] = OnStream(current[remap[l]])
      BY DEF FramesInv, Faded
    <2>2. shown[l][comp] = current[remap[l]][comp]
      BY <2>1 DEF OnStream
    <2> QED
      BY <2>1, <2>2 DEF Within, Comps
  <1> QED
    BY <1>1, FramesInvariant, PTL

(* A spike never becomes a target: medianFilterLocked keeps a lamp's       *)
(* target within the threshold of the range of any majority of a full      *)
(* window, for every window size, threshold and order of arrival.          *)
THEOREM SpikesAlwaysDropped == FramesSpec => []SpikesDropped
  <1>1. FramesInv => SpikesDropped
    <2> SUFFICES ASSUME FramesInv, NEW l \in DOMAIN remap, path = "dtls", Window > 1,
                        Len(raws[l]) >= Window,
                        NEW most \in SUBSET (Len(raws[l]) - Window + 1 .. Len(raws[l])),
                        2 * Cardinality(most) >= Window, NEW comp \in {"A", "B", "C"}
                 PROVE  \E i, j \in most :
                          /\ raws[l][i][comp] - MedianThreshold <= latest[remap[l]][comp]
                          /\ latest[remap[l]][comp] <= raws[l][j][comp] + MedianThreshold
      BY DEF SpikesDropped
    <2>1. l \in Lamps /\ remap[l] \in ProChannels /\ raws[l] \in Seq(Picture(l))
      BY DEF FramesInv, Routes, Received
    <2>2. raws[l] # <<>>
      BY <2>1, WindowOdd
    <2>3. /\ IsRing(history[remap[l]], remap[l], raws[l])
          /\ latest[remap[l]] = Target(history[remap[l]], remap[l], raws[l])
      BY <2>2 DEF FramesInv, Aimed
    <2>4. remap[l] \in U16 /\ comp \in Comps
      BY <2>1, FramesAssumption, Widths DEF Comps
    <2> DEFINE r == raws[l]
               h == history[remap[l]]
               ch == remap[l]
               t == latest[remap[l]]
    <2>5. /\ r \in Seq(Picture(l)) /\ IsRing(h, ch, r) /\ Len(r) >= Window /\ ch \in U16
          /\ most \in SUBSET (Len(r) - Window + 1 .. Len(r)) /\ t = Target(h, ch, r)
      BY <2>1, <2>3, <2>4
    <2> HIDE DEF r, h, ch, t
    <2>6. \E i, j \in most : /\ r[i][comp] - MedianThreshold <= t[comp]
                             /\ t[comp] <= r[j][comp] + MedianThreshold
      BY <2>1, <2>4, <2>5, TargetByMajority
    <2> QED
      BY <2>6 DEF r, t
  <1> QED
    BY <1>1, FramesInvariant, PTL

(* What the TV shows steadily is what the lamp ends up with, exactly: no   *)
(* step of Parse, the remap, the median, smoothToward and Encode loses     *)
(* anything, and after Settle ticks no fade of the picture is left.        *)
THEOREM SteadyAlwaysShown == FramesSpec => []SteadyShown
  <1>1. FramesInv => SteadyShown
    <2> SUFFICES ASSUME FramesInv, NEW l \in Lamps, NEW v \in Values,
                        Steady(l, Colour(l, v)), path = "dtls" => quiet = Settle
                 PROVE  Shows(l, Colour(l, v))
      BY DEF SteadyShown
    <2> DEFINE c == Colour(l, v)
               r == raws[l]
    <2>1. /\ r \in Seq(Picture(l)) /\ c \in Picture(l)
          /\ Len(r) >= Span /\ \A i \in Len(r) - Span + 1 .. Len(r) : r[i] = c
      BY DEF FramesInv, Received, Steady, Picture
    <2>2. Span \in Nat \ {0}
      BY WindowOdd DEF Span
    <2>3. r # <<>> /\ r[Len(r)] = c
      BY <2>1, <2>2
    <2>4. CASE path = "rest"
      <3>1. shown[l] = ToHueV1State(c)
        BY <2>3, <2>4 DEF FramesInv, Received
      <3> QED
        BY <3>1 DEF Shows
    <2>5. CASE path = "dtls"
      <3> DEFINE ch == remap[l]
                 t == latest[ch]
                 cur == current[ch]
      <3>1. l \in DOMAIN remap
        BY <2>3, <2>5 DEF FramesInv, Received
      <3>2. quiet = Settle /\ quiet > 0
        BY <2>5, SettleAssumption
      <3>3. ch \in DOMAIN latest /\ ch \in DOMAIN current
        BY <2>3, <2>5, <3>1, <3>2 DEF FramesInv, Aimed, Faded
      <3>4. /\ cur \in Channels /\ shown[l] = OnStream(cur)
            /\ \A comp \in Comps : Gap(cur[comp], t[comp]) <= 0
        <4>1. FadeLeft[quiet] = 0
          BY <3>2, SettleAssumption
        <4> QED
          BY <2>5, <3>1, <3>3, <4>1 DEF FramesInv, Faded
      <3>5. ch \in U16 /\ t \in Channels
        BY <2>3, <2>5, <3>1, TargetsOfLamps
      <3>6. /\ Window > 1 => IsRing(history[ch], ch, r)
            /\ t = Target(history[ch], ch, r)
        BY <2>3, <2>5, <3>1 DEF FramesInv, Aimed
      <3> HIDE DEF c, r, ch, t, cur
      <3>7. \A comp \in Comps : t[comp] = c[comp]
        BY <2>1, <3>5, <3>6, TargetSteady
      <3>8. \A comp \in Comps : cur[comp] = c[comp]
        <4>1. \A comp \in Comps : cur[comp] \in Nat /\ t[comp] \in Nat
          BY <3>4, <3>5, Widths DEF Channels, Comps
        <4>2. \A comp \in Comps : cur[comp] = t[comp]
          BY <3>4, <4>1 DEF Gap
        <4> QED
          BY <3>7, <4>2
      <3>9. OnStream(cur) = OnStream(c)
        BY <3>8 DEF OnStream, Comps
      <3> QED
        BY <3>4, <3>9 DEF Shows, OnStream, c
    <2> QED
      BY <2>4, <2>5 DEF FramesInv
  <1> QED
    BY <1>1, FramesInvariant, PTL

(* Types: the maps of a stream hold channels the Pro assigned and 16-bit   *)
(* colours, a ring never exceeds the window, the counters stay in bounds.  *)
THEOREM FramesTypes == FramesSpec => []FramesTypeOK
  <1>1. FramesInit => FramesTypeOK
    <2> SUFFICES ASSUME FramesInit  PROVE FramesTypeOK
      OBVIOUS
    <2>1. /\ DOMAIN remap = {} /\ DOMAIN latest = {}
          /\ DOMAIN current = {} /\ DOMAIN history = {}
      BY DEF FramesInit, Nowhere
    <2> QED
      BY <2>1, FramesAssumption DEF FramesInit, FramesTypeOK
  <1>2. ASSUME FramesTypeOK, FramesInv, FramesInv', [FramesNext]_frameVars
        PROVE  FramesTypeOK'
    <2>1. /\ path' \in {"rest", "dtls"}
          /\ requested' \subseteq Lamps /\ DOMAIN remap' \subseteq Lamps
      BY <1>2 DEF FramesInv, Routes
    <2>2. frames' \in 0 .. MaxFrames /\ sessions' \in 0 .. MaxSessions
      <3>1. \/ frames' = frames /\ sessions' = sessions
            \/ frames < MaxFrames /\ frames' = frames + 1 /\ sessions' = sessions
            \/ sessions < MaxSessions /\ sessions' = sessions + 1 /\ frames' = frames
        <4>1. ASSUME NEW pic \in [Lamps -> Values], NEW cut \in {0, 1}, Receive(pic, cut)
              PROVE  frames < MaxFrames /\ frames' = frames + 1 /\ sessions' = sessions
          BY <4>1 DEF Receive, PushDTLS, PushREST, Noted
        <4>2. ASSUME NEW rm \in Remaps, Establish(rm)
              PROVE  sessions < MaxSessions /\ sessions' = sessions + 1 /\ frames' = frames
          BY <4>2 DEF Establish
        <4>3. ASSUME NEW z \in SUBSET Lamps, SetRequestedMembers(z)
              PROVE  frames' = frames /\ sessions' = sessions
          BY <4>3 DEF SetRequestedMembers
        <4>4. ASSUME Teardown \/ SendTick \/ UNCHANGED frameVars
              PROVE  frames' = frames /\ sessions' = sessions
          BY <4>4 DEF Teardown, SendTick, frameVars
        <4> QED
          BY <1>2, <4>1, <4>2, <4>3, <4>4 DEF FramesNext
      <3> QED
        BY <1>2, <3>1, FramesAssumption DEF FramesTypeOK
    <2> DEFINE Maps == /\ DOMAIN latest' \subseteq ProChannels
                       /\ DOMAIN current' \subseteq ProChannels
                       /\ \A ch \in DOMAIN current' : \A comp \in {"A", "B", "C"} :
                            current'[ch][comp] \in U16
                       /\ \A ch \in DOMAIN history' : Len(history'[ch]) <= Window
    <2>3. ASSUME latest' = latest, current' = current, history' = history  PROVE Maps
      BY <1>2, <2>3 DEF FramesTypeOK
    <2>4. ASSUME FreshMaps  PROVE Maps
      <3>1. DOMAIN latest' = {} /\ DOMAIN current' = {} /\ DOMAIN history' = {}
        BY <2>4 DEF FreshMaps, Nowhere
      <3> QED
        BY <3>1
    <2>5. ASSUME path' = "dtls",
                 ~(Window > 1) => \A ch \in DOMAIN history' : Len(history'[ch]) <= Window
          PROVE  Maps
      <3>1. /\ \A ch \in DOMAIN latest' :
                 \E l \in DOMAIN remap' : remap'[l] = ch /\ ch \in ProChannels
            /\ DOMAIN current' \subseteq DOMAIN latest'
            /\ \A l \in DOMAIN remap' : remap'[l] \in DOMAIN current' =>
                 current'[remap'[l]] \in Channels
        BY <1>2, <2>5 DEF FramesInv, Routes, Aimed, Faded
      <3>2. \A ch \in DOMAIN current' : current'[ch] \in Channels
        BY <3>1
      <3>3. \A ch \in DOMAIN history' : Len(history'[ch]) <= Window
        <4>1. CASE Window > 1
          <5> SUFFICES ASSUME NEW ch \in DOMAIN history'  PROVE Len(history'[ch]) <= Window
            OBVIOUS
          <5>1. PICK l \in DOMAIN remap' : remap'[l] = ch
            BY <1>2, <2>5, <3>1, <4>1 DEF FramesInv, Aimed
          <5>2. IsRing(history'[ch], ch, raws'[l]) /\ raws'[l] \in Seq(Picture(l))
            BY <1>2, <2>5, <4>1, <5>1 DEF FramesInv, Aimed, Routes, Received
          <5> QED
            BY <5>2, WindowOdd DEF IsRing
        <4> QED
          BY <2>5, <4>1
      <3> QED
        BY <3>1, <3>2, <3>3 DEF Channels
    <2>6. ASSUME \E f : PushDTLS(f)  PROVE Maps
      <3>1. PICK f : PushDTLS(f)
        BY <2>6
      <3>2. path' = "dtls"
        BY <3>1 DEF PushDTLS
      <3>3. ~(Window > 1) => \A ch \in DOMAIN history' : Len(history'[ch]) <= Window
        <4> SUFFICES ASSUME ~(Window > 1)
                     PROVE  \A ch \in DOMAIN history' : Len(history'[ch]) <= Window
          OBVIOUS
        <4>1. history' = [ch \in DOMAIN history |-> history[ch]]
          BY <3>1 DEF PushDTLS
        <4> QED
          BY <1>2, <4>1 DEF FramesTypeOK
      <3> QED
        BY <2>5, <3>2, <3>3
    <2>7. ASSUME SendTick  PROVE Maps
      <3>1. path' = "dtls" /\ history' = history
        BY <2>7 DEF SendTick
      <3> QED
        BY <1>2, <2>5, <3>1 DEF FramesTypeOK
    <2>8. Maps
      <3> HIDE DEF Maps
      <3>1. CASE \E z \in SUBSET Lamps : SetRequestedMembers(z)
        BY <2>3, <3>1 DEF SetRequestedMembers, streamVars
      <3>2. CASE \E rm \in Remaps : Establish(rm)
        BY <2>4, <3>2 DEF Establish
      <3>3. CASE \E pic \in [Lamps -> Values], cut \in {0, 1} : Receive(pic, cut)
        <4>1. PICK f \in Decoded : PushDTLS(f) \/ PushREST(f)
          BY <3>3, ReceivedFrame
        <4>2. CASE PushREST(f)
          BY <2>3, <4>2 DEF PushREST, streamVars
        <4> QED
          BY <2>6, <4>1, <4>2
      <3>4. CASE Teardown \/ UNCHANGED frameVars
        BY <2>3, <3>4 DEF Teardown, streamVars, frameVars
      <3> QED
        BY <1>2, <2>6, <2>7, <3>1, <3>2, <3>3, <3>4 DEF FramesNext
    <2> QED
      BY <2>1, <2>2, <2>8 DEF FramesTypeOK
  <1> QED
    BY <1>1, <1>2, FramesInvariant, PTL DEF FramesSpec

(* A fade of any length d arrives, within d ticks, whenever the weight is  *)
(* at least 1/514: beyond snapColorDelta a tick then moves a component by  *)
(* at least one, and the rest is snapped.  So there is a Settle for every  *)
(* picture, as SettleAssumption asks.                                      *)
THEOREM FadesArrive ==
  ASSUME AlphaDen <= 514 * AlphaNum,
         NEW d \in Nat, NEW f \in [Nat -> Nat],
         f[0] = d, \A q \in Nat : f[q + 1] = Closer(f[q])
  PROVE  f[d] = 0
  <1>1. ASSUME NEW e \in Nat  PROVE Closer(e) = 0 \/ Closer(e) < e
    <2>1. CASE e <= 256
      BY <2>1 DEF Closer, SnapColorDelta
    <2>2. CASE e >= 257
      <3> DEFINE N == AlphaNum
                 D == AlphaDen
                 y == 2 * D
                 x == 2 * e * N + D
      <3>1. N \in Nat /\ D \in Nat \ {0} /\ D <= 514 * N /\ y \in Nat \ {0}
        BY FramesAssumption
      <3>2. e * N \in Nat /\ 257 * N <= e * N
        BY <2>2, <3>1
      <3>3. x = 2 * (e * N) + D
        BY <3>1
      <3>4. x \in Nat /\ x >= y
        BY <3>1, <3>2, <3>3
      <3>5. Eased(e) = x \div y
        BY DEF Eased
      <3>6. x \div y \in Nat /\ x < y * (x \div y) + y
        BY <3>1, <3>4, Quotient
      <3>7. x \div y # 0
        <4> SUFFICES ASSUME x \div y = 0  PROVE FALSE
          OBVIOUS
        <4> HIDE DEF x, y
        <4>1. y * (x \div y) = 0
          BY <3>1
        <4> QED
          BY <3>1, <3>4, <3>6, <4>1
      <3>8. Eased(e) \in Nat /\ Eased(e) >= 1 /\ Eased(e) <= e
        BY <3>5, <3>6, <3>7, EasedPart
      <3> QED
        BY <2>2, <3>8 DEF Closer, SnapColorDelta
    <2> QED
      BY <2>1, <2>2
  <1>2. Closer(0) = 0
    BY DEF Closer, SnapColorDelta
  <1> DEFINE Bad == {q \in Nat : ~(f[q] = 0 \/ f[q] + q <= d)}
  <1>3. Bad = {}
    <2> SUFFICES ASSUME Bad # {}  PROVE FALSE
      OBVIOUS
    <2>1. PICK q \in Bad : \A k \in Bad : q <= k
      BY LeastNat
    <2>2. q \in Nat /\ f[q] # 0 /\ ~(f[q] + q <= d) /\ q # 0
      OBVIOUS
    <2>3. q - 1 \in Nat /\ (q - 1) + 1 = q /\ q - 1 \notin Bad
      BY <2>1, <2>2
    <2>4. f[q] = Closer(f[q - 1])
      BY <2>3
    <2>5. f[q - 1] \in Nat /\ f[q] \in Nat
      BY <2>2, <2>3
    <2>6. f[q - 1] # 0
      BY <1>2, <2>2, <2>4
    <2>7. f[q - 1] + (q - 1) <= d
      BY <2>3, <2>6
    <2>8. f[q] < f[q - 1]
      BY <1>1, <2>2, <2>4, <2>5
    <2> QED
      BY <2>2, <2>5, <2>7, <2>8
  <1>4. f[d] = 0 \/ f[d] + d <= d
    BY <1>3
  <1> QED
    BY <1>4
=============================================================================
