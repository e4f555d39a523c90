------------------------- MODULE StreamStateProofs -------------------------
(***************************************************************************)
(* The safety properties of StreamState for every set of request slots,    *)
(* both modes, with and without recovery, and every number of inputs.      *)
(***************************************************************************)
EXTENDS MCStreamState, TLAPS

(* In the initial state nothing is armed, latched or in flight.            *)
LEMMA InitStreamInv == Init => StreamInv
<1>. SUFFICES ASSUME Init PROVE StreamInv
  OBVIOUS
<1>1. TypeOK
  BY DEF Init, TypeOK, Steps, Bodies
<1>2. /\ StreamUpWins /\ GensHandedOut /\ OnlyCurrentTimerRuns
      /\ WatchingHasWatchdog /\ PendingNotFiring /\ WatchingAwaitsStream
      /\ LatchedInFallback /\ NoConfirmWhileLatched /\ NoticeMatchesEpisode
  BY DEF Init, StreamUpWins, GensHandedOut, OnlyCurrentTimerRuns,
         WatchingHasWatchdog, PendingNotFiring, WatchingAwaitsStream,
         LatchedInFallback, NoConfirmWhileLatched, NoticeMatchesEpisode
<1>. QED  BY <1>1, <1>2 DEF StreamInv

(* What stopping the old timer, and starting a new one, leaves running.    *)
LEMMA TimersType ==
  ASSUME TypeOK
  PROVE  /\ StoppedTimers \in SUBSET Nat
         /\ StartedTimers \in SUBSET Nat
         /\ NextGen \in Nat
<1>1. StoppedTimers \subseteq pending
  BY DEF StoppedTimers
<1>2. NextGen \in Nat
  BY DEF TypeOK, NextGen
<1>3. pending \subseteq Nat
  BY DEF TypeOK
<1>4. StoppedTimers \subseteq Nat
  BY <1>1, <1>3
<1>. QED  BY <1>2, <1>4 DEF StartedTimers

(* Every action keeps the types.                                           *)
LEMMA NextTypeOK == TypeOK /\ [Next]_vars => TypeOK'
<1>. SUFFICES ASSUME TypeOK, [Next]_vars PROVE TypeOK'
  OBVIOUS
<1>. USE DEF TypeOK, stateVars, timerVars, history, Goto, ClearFallback, Steps, Bodies
<1>1. ASSUME NEW h \in Handlers, NEW body \in Bodies, BeginUpdate(h, body)
      PROVE  TypeOK'
  BY <1>1 DEF BeginUpdate
<1>2. ASSUME NEW h \in Handlers, BeginGet(h) PROVE TypeOK'
  BY <1>2 DEF BeginGet
<1>3. ASSUME NEW h \in Handlers, TryRecover(h) PROVE TypeOK'
  <2>1. CASE EntertainmentMode /\ want[h] = "activate" /\ CanRecover
    BY <1>3, <2>1 DEF TryRecover
  <2>2. CASE ~(EntertainmentMode /\ want[h] = "activate" /\ CanRecover)
    BY <1>3, <2>2 DEF TryRecover
  <2>. QED  BY <2>1, <2>2
<1>4. ASSUME NEW h \in Handlers, CheckConfirms(h) PROVE TypeOK'
  <2>1. CASE ConfirmsEntertainment /\ want[h] # "none"
    BY <1>4, <2>1 DEF CheckConfirms
  <2>2. CASE ~(ConfirmsEntertainment /\ want[h] # "none")
    BY <1>4, <2>2 DEF CheckConfirms
  <2>. QED  BY <2>1, <2>2
<1>5. ASSUME NEW h \in Handlers, SetActive(h) PROVE TypeOK'
  BY <1>5 DEF SetActive
<1>6. ASSUME NEW h \in Handlers, ArmWatchdog(h) PROVE TypeOK'
  <2>1. CASE ~EntertainmentMode \/ fallback \/ streamUp
    BY <1>6, <2>1 DEF ArmWatchdog
  <2>2. CASE ~(~EntertainmentMode \/ fallback \/ streamUp)
    BY <1>6, <2>2, TimersType DEF ArmWatchdog
  <2>. QED  BY <2>1, <2>2
<1>7. ASSUME NEW h \in Handlers, DisarmWatchdog(h) PROVE TypeOK'
  BY <1>7, TimersType DEF DisarmWatchdog
<1>8. ASSUME NEW h \in Handlers, GetConfirms(h) PROVE TypeOK'
  BY <1>8 DEF GetConfirms
<1>9. ASSUME NEW h \in Handlers, Snapshot(h) PROVE TypeOK'
  BY <1>9 DEF Snapshot
<1>10. CASE MarkStreamUp
  <2>1. pending' \in SUBSET Nat /\ gen' \in Nat
    BY <1>10, TimersType DEF MarkStreamUp
  <2>2. latched' \in [Handlers -> BOOLEAN]
    BY <1>10 DEF MarkStreamUp
  <2>3. /\ active' \in BOOLEAN /\ cooled' \in BOOLEAN /\ firing' \in SUBSET Nat
        /\ pc' \in [Handlers -> Steps] /\ want' \in [Handlers -> Bodies]
    BY <1>10 DEF MarkStreamUp
  <2>4. watchdog' \in Nat /\ inputs' \in Nat
    BY <1>10 DEF MarkStreamUp
  <2>5. /\ streamUp' \in BOOLEAN /\ fallback' \in BOOLEAN
        /\ restNoticed' \in BOOLEAN /\ watching' \in BOOLEAN
        /\ unanswered' \in BOOLEAN
    BY <1>10, Zenon DEF MarkStreamUp
  <2>. QED  BY <2>1, <2>2, <2>3, <2>4, <2>5, Zenon
<1>11. CASE MarkStreamDown
  BY <1>11 DEF MarkStreamDown
<1>12. ASSUME NEW g \in pending, TimerElapses(g) PROVE TypeOK'
  BY <1>12 DEF TimerElapses
<1>13. ASSUME NEW g \in firing, WatchdogFired(g) PROVE TypeOK'
  BY <1>13 DEF WatchdogFired, ResetNotice
<1>14. CASE CooldownElapses
  BY <1>14 DEF CooldownElapses
<1>15. CASE NoteRESTDriving
  BY <1>15 DEF NoteRESTDriving
<1>16. CASE UNCHANGED vars
  BY <1>16 DEF vars
<1>. QED
  BY <1>1, <1>2, <1>3, <1>4, <1>5, <1>6, <1>7, <1>8, <1>9, <1>10, <1>11,
     <1>12, <1>13, <1>14, <1>15, <1>16 DEF Next, HandlerStep

(* THEOREM: the types hold in every reachable state.                       *)
THEOREM TypeCorrect == Spec => []TypeOK
<1>1. Init => TypeOK
  BY InitStreamInv DEF StreamInv
<1>. QED  BY <1>1, NextTypeOK, PTL DEF Spec

-----------------------------------------------------------------------------
(* The timers, the generation and the flags they decide.  Only arm,        *)
(* disarm, stream-up, recovery and the two timer steps touch them.         *)
TimerInv ==
  /\ StreamUpWins
  /\ GensHandedOut
  /\ OnlyCurrentTimerRuns
  /\ WatchingHasWatchdog
  /\ PendingNotFiring
  /\ WatchingAwaitsStream

(* Every action keeps TimerInv.                                            *)
LEMMA NextTimerInv == TypeOK /\ TimerInv /\ [Next]_vars => TimerInv'
<1>. SUFFICES ASSUME TypeOK, TimerInv, [Next]_vars PROVE TimerInv'
  OBVIOUS
<1>. USE DEF TimerInv, StreamUpWins, GensHandedOut, OnlyCurrentTimerRuns,
             WatchingHasWatchdog, PendingNotFiring, WatchingAwaitsStream
<1>1. ASSUME UNCHANGED <<streamUp, fallback, gen, watchdog, pending, firing,
                         watching>>
      PROVE  TimerInv'
  BY <1>1
<1>2. ASSUME NEW h \in Handlers, TryRecover(h) PROVE TimerInv'
  <2>1. UNCHANGED <<streamUp, gen, watchdog, pending, firing, watching>>
    BY <1>2 DEF TryRecover, timerVars
  <2>2. fallback' => fallback
    BY <1>2 DEF TryRecover, ClearFallback
  <2>. QED  BY <2>1, <2>2
<1>3. ASSUME NEW h \in Handlers, ArmWatchdog(h) PROVE TimerInv'
  <2>1. CASE ~EntertainmentMode \/ fallback \/ streamUp
    <3>1. UNCHANGED <<streamUp, fallback, gen, watchdog, pending, firing,
                      watching>>
      BY <1>3, <2>1 DEF ArmWatchdog
    <3>. QED  BY <3>1, <1>1
  <2>2. CASE ~(~EntertainmentMode \/ fallback \/ streamUp)
    <3>1. /\ gen' = gen + 1 /\ watchdog' = gen + 1
          /\ pending' = (pending \ {watchdog}) \cup {gen + 1}
          /\ watching' = TRUE
          /\ UNCHANGED <<streamUp, fallback, firing>>
      BY <1>3, <2>2 DEF ArmWatchdog, StartedTimers, StoppedTimers, NextGen
    <3>2. pending' = {gen + 1}
      BY <3>1
    <3>3. gen + 1 \notin firing /\ \A g \in firing : g <= gen + 1
      BY DEF TypeOK
    <3>. QED  BY <3>1, <3>2, <3>3, <2>2 DEF TypeOK
  <2>. QED  BY <2>1, <2>2
<1>4. ASSUME NEW h \in Handlers, DisarmWatchdog(h) PROVE TimerInv'
  <2>1. /\ gen' = gen + 1 /\ pending' = pending \ {watchdog}
        /\ watching' = FALSE
        /\ UNCHANGED <<streamUp, fallback, firing>>
    BY <1>4 DEF DisarmWatchdog, StoppedTimers, NextGen
  <2>2. pending' = {}
    BY <2>1
  <2>3. gen + 1 \notin firing /\ \A g \in firing : g <= gen + 1
    BY DEF TypeOK
  <2>. QED  BY <2>1, <2>2, <2>3
<1>5. CASE MarkStreamUp
  <2>1. /\ gen' = gen + 1 /\ pending' = pending \ {watchdog}
        /\ watching' = FALSE /\ fallback' = FALSE
        /\ UNCHANGED firing
    BY <1>5 DEF MarkStreamUp, ClearFallback, StoppedTimers, NextGen
  <2>2. pending' = {}
    BY <2>1
  <2>3. gen + 1 \notin firing /\ \A g \in firing : g <= gen + 1
    BY DEF TypeOK
  <2>. QED  BY <2>1, <2>2, <2>3
<1>6. CASE MarkStreamDown
  <2>1. /\ UNCHANGED <<fallback, gen, watchdog, pending, firing, watching>>
        /\ streamUp' = FALSE
    BY <1>6 DEF MarkStreamDown, timerVars, history
  <2>. QED  BY <2>1
<1>7. ASSUME NEW g \in pending, TimerElapses(g) PROVE TimerInv'
  <2>1. /\ pending' = pending \ {g} /\ firing' = firing \cup {g}
        /\ UNCHANGED <<streamUp, fallback, gen, watchdog, watching>>
    BY <1>7 DEF TimerElapses, stateVars, history
  <2>. QED  BY <2>1
<1>8. ASSUME NEW g \in firing, WatchdogFired(g) PROVE TimerInv'
  <2>1. firing' = firing \ {g} /\ UNCHANGED <<streamUp, gen, watchdog, pending>>
    BY <1>8 DEF WatchdogFired
  <2>2. CASE streamUp \/ g # gen
    <3>1. UNCHANGED <<fallback, watching>>
      BY <1>8, <2>2 DEF WatchdogFired, Superseded
    <3>. QED  BY <2>1, <2>2, <3>1
  <2>3. CASE ~(streamUp \/ g # gen)
    <3>1. watching' = FALSE
      BY <1>8, <2>3 DEF WatchdogFired, Superseded
    <3>2. gen \notin pending
      BY <2>3
    <3>. QED  BY <2>1, <2>3, <3>1, <3>2
  <2>. QED  BY <2>2, <2>3
<1>9. ASSUME NEW h \in Handlers,
             \/ \E body \in Bodies : BeginUpdate(h, body)
             \/ BeginGet(h) \/ CheckConfirms(h) \/ SetActive(h)
             \/ GetConfirms(h) \/ Snapshot(h)
      PROVE  TimerInv'
  BY <1>1, <1>9 DEF BeginUpdate, BeginGet, CheckConfirms, SetActive,
     GetConfirms, Snapshot, stateVars, timerVars, history
<1>10. CASE CooldownElapses \/ NoteRESTDriving \/ UNCHANGED vars
  BY <1>1, <1>10 DEF CooldownElapses, NoteRESTDriving, vars, stateVars,
     timerVars, history
<1>. QED
  BY <1>2, <1>3, <1>4, <1>5, <1>6, <1>7, <1>8, <1>9, <1>10
  DEF Next, HandlerStep

-----------------------------------------------------------------------------
(* Requests that arrived in fallback: the claim needs the fallback to still *)
(* hold, which recovery and stream-up end together with the flag.          *)
RequestInv == LatchedInFallback /\ NoConfirmWhileLatched

(* Every action keeps RequestInv.                                          *)
LEMMA NextRequestInv == TypeOK /\ RequestInv /\ [Next]_vars => RequestInv'
<1>. SUFFICES ASSUME TypeOK, RequestInv, [Next]_vars PROVE RequestInv'
  OBVIOUS
<1>. USE DEF RequestInv, LatchedInFallback, NoConfirmWhileLatched
<1>1. ASSUME latched' = [h \in Handlers |-> FALSE] PROVE RequestInv'
  BY <1>1
<1>2. ASSUME fallback => fallback', UNCHANGED <<latched, pc>> PROVE RequestInv'
  BY <1>2
<1>3. ASSUME NEW h \in Handlers, NEW s \in {"recover", "get"},
             Goto(h, s), latched' = [latched EXCEPT ![h] = fallback],
             UNCHANGED fallback
      PROVE  RequestInv'
  BY <1>3 DEF Goto, TypeOK
<1>4. ASSUME NEW h \in Handlers, NEW s \in {"confirm", "idle"},
             Goto(h, s), UNCHANGED <<latched, fallback>>
      PROVE  RequestInv'
  BY <1>4 DEF Goto, TypeOK
<1>5. ASSUME NEW h \in Handlers, NEW s \in {"set", "watchdog", "snapshot"},
             ~latched[h], Goto(h, s), UNCHANGED <<latched, fallback>>
      PROVE  RequestInv'
  BY <1>5 DEF Goto, TypeOK
<1>6. ASSUME NEW h \in Handlers, NEW body \in Bodies, BeginUpdate(h, body)
      PROVE  RequestInv'
  BY <1>3, <1>6 DEF BeginUpdate, stateVars
<1>7. ASSUME NEW h \in Handlers, BeginGet(h) PROVE RequestInv'
  BY <1>3, <1>7 DEF BeginGet, stateVars
<1>8. ASSUME NEW h \in Handlers, TryRecover(h) PROVE RequestInv'
  <2>1. CASE EntertainmentMode /\ want[h] = "activate" /\ CanRecover
    BY <1>1, <1>8, <2>1 DEF TryRecover, ClearFallback
  <2>2. CASE ~(EntertainmentMode /\ want[h] = "activate" /\ CanRecover)
    BY <1>4, <1>8, <2>2 DEF TryRecover
  <2>. QED  BY <2>1, <2>2
<1>9. ASSUME NEW h \in Handlers, CheckConfirms(h) PROVE RequestInv'
  <2>1. UNCHANGED <<latched, fallback>>
    BY <1>9 DEF CheckConfirms, stateVars, history
  <2>2. CASE ConfirmsEntertainment /\ want[h] # "none"
    <3>1. Goto(h, "set")
      BY <1>9, <2>2 DEF CheckConfirms
    <3>2. ~latched[h]
      BY <2>2 DEF ConfirmsEntertainment
    <3>. QED  BY <1>5, <2>1, <3>1, <3>2
  <2>3. CASE ~(ConfirmsEntertainment /\ want[h] # "none")
    BY <1>4, <1>9, <2>1, <2>3 DEF CheckConfirms
  <2>. QED  BY <2>2, <2>3
<1>10. ASSUME NEW h \in Handlers, SetActive(h) PROVE RequestInv'
  BY <1>5, <1>10 DEF SetActive
<1>11. ASSUME NEW h \in Handlers, ArmWatchdog(h) PROVE RequestInv'
  BY <1>4, <1>11 DEF ArmWatchdog
<1>12. ASSUME NEW h \in Handlers, DisarmWatchdog(h) PROVE RequestInv'
  BY <1>4, <1>12 DEF DisarmWatchdog
<1>13. ASSUME NEW h \in Handlers, GetConfirms(h) PROVE RequestInv'
  <2>1. UNCHANGED <<latched, fallback>>
    BY <1>13 DEF GetConfirms, stateVars, history
  <2>2. CASE ConfirmsEntertainment
    <3>1. Goto(h, "snapshot")
      BY <1>13, <2>2 DEF GetConfirms
    <3>2. ~latched[h]
      BY <2>2 DEF ConfirmsEntertainment
    <3>. QED  BY <1>5, <2>1, <3>1, <3>2
  <2>3. CASE ~ConfirmsEntertainment
    BY <1>4, <1>13, <2>1, <2>3 DEF GetConfirms
  <2>. QED  BY <2>2, <2>3
<1>14. ASSUME NEW h \in Handlers, Snapshot(h) PROVE RequestInv'
  BY <1>4, <1>14 DEF Snapshot, stateVars, history
<1>15. CASE MarkStreamUp
  BY <1>1, <1>15 DEF MarkStreamUp, ClearFallback
<1>16. ASSUME NEW g \in firing, WatchdogFired(g) PROVE RequestInv'
  BY <1>2, <1>16 DEF WatchdogFired
<1>17. ASSUME NEW g \in pending, TimerElapses(g) PROVE RequestInv'
  BY <1>2, <1>17 DEF TimerElapses, stateVars, history
<1>18. CASE MarkStreamDown \/ CooldownElapses \/ NoteRESTDriving \/ UNCHANGED vars
  BY <1>2, <1>18 DEF MarkStreamDown, CooldownElapses, NoteRESTDriving, vars,
     stateVars, history
<1>. QED
  BY <1>6, <1>7, <1>8, <1>9, <1>10, <1>11, <1>12, <1>13, <1>14, <1>15, <1>16,
     <1>17, <1>18 DEF Next, HandlerStep

-----------------------------------------------------------------------------
(* The REST notice: every transition that could contradict it resets it.   *)
LEMMA NextNotice ==
  TypeOK /\ NoticeMatchesEpisode /\ [Next]_vars => NoticeMatchesEpisode'
<1>. SUFFICES ASSUME TypeOK, NoticeMatchesEpisode, [Next]_vars
              PROVE  NoticeMatchesEpisode'
  OBVIOUS
<1>. USE DEF NoticeMatchesEpisode
<1>1. ASSUME restNoticed' = FALSE PROVE NoticeMatchesEpisode'
  BY <1>1
<1>2. ASSUME UNCHANGED <<restNoticed, streamUp, active>>, fallback' => fallback
      PROVE  NoticeMatchesEpisode'
  BY <1>2
<1>3. ASSUME NEW h \in Handlers, TryRecover(h) PROVE NoticeMatchesEpisode'
  BY <1>2, <1>3 DEF TryRecover, ClearFallback
<1>4. ASSUME NEW g \in firing, WatchdogFired(g) PROVE NoticeMatchesEpisode'
  <2>1. CASE Superseded(g)
    BY <1>2, <1>4, <2>1 DEF WatchdogFired
  <2>2. CASE ~Superseded(g)
    BY <1>1, <1>4, <2>2 DEF WatchdogFired, ResetNotice
  <2>. QED  BY <2>1, <2>2
<1>5. CASE MarkStreamUp \/ MarkStreamDown \/ \E h \in Handlers : SetActive(h)
  BY <1>1, <1>5 DEF MarkStreamUp, MarkStreamDown, SetActive
<1>6. CASE NoteRESTDriving
  BY <1>6 DEF NoteRESTDriving
<1>7. ASSUME NEW h \in Handlers,
             \/ \E body \in Bodies : BeginUpdate(h, body)
             \/ BeginGet(h) \/ CheckConfirms(h) \/ ArmWatchdog(h)
             \/ DisarmWatchdog(h) \/ GetConfirms(h) \/ Snapshot(h)
      PROVE  NoticeMatchesEpisode'
  BY <1>2, <1>7 DEF BeginUpdate, BeginGet, CheckConfirms, ArmWatchdog,
     DisarmWatchdog, GetConfirms, Snapshot, stateVars
<1>8. ASSUME NEW g \in pending, TimerElapses(g) PROVE NoticeMatchesEpisode'
  BY <1>2, <1>8 DEF TimerElapses, stateVars
<1>9. CASE CooldownElapses \/ UNCHANGED vars
  BY <1>2, <1>9 DEF CooldownElapses, vars, stateVars
<1>. QED
  BY <1>3, <1>4, <1>5, <1>6, <1>7, <1>8, <1>9 DEF Next, HandlerStep

-----------------------------------------------------------------------------
(* StreamInv is inductive, so it holds in every reachable state.           *)
THEOREM StreamInvariant == Spec => []StreamInv
<1>1. StreamInv /\ [Next]_vars => StreamInv'
  BY NextTypeOK, NextTimerInv, NextRequestInv, NextNotice
  DEF StreamInv, TimerInv, RequestInv
<1>. QED  BY <1>1, InitStreamInv, PTL DEF Spec

(* M1: relume-tv is never latched on the fallback while the stream is up.  *)
THEOREM StreamUpWinsAlways == Spec => []StreamUpWins
<1>1. StreamInv => StreamUpWins
  BY DEF StreamInv
<1>. QED  BY <1>1, StreamInvariant, PTL

(* The assumption tryRecoverFallback's comment makes about the watchdog.   *)
THEOREM NoWatchdogInFallback == Spec => []FallbackHasNoWatchdog
<1>1. StreamInv => FallbackHasNoWatchdog
  BY DEF StreamInv, FallbackHasNoWatchdog, WatchingAwaitsStream,
         WatchingHasWatchdog, OnlyCurrentTimerRuns
<1>. QED  BY <1>1, StreamInvariant, PTL

(* A request that arrived in fallback is not confirmed under it.           *)
THEOREM LatchedNotConfirmed == Spec => []NoConfirmWhileLatched
<1>1. StreamInv => NoConfirmWhileLatched
  BY DEF StreamInv
<1>. QED  BY <1>1, StreamInvariant, PTL

(* The REST notice never outlives the episode it was logged for.           *)
THEOREM NoticeAlwaysMatches == Spec => []NoticeMatchesEpisode
<1>1. StreamInv => NoticeMatchesEpisode
  BY DEF StreamInv
<1>. QED  BY <1>1, StreamInvariant, PTL

(* A stale watchdog callback never latches the fallback.                   *)
THEOREM OnlyCurrentLatches == Spec => LatchIsCurrent
<1>1. StreamInv /\ [Next]_vars => [~fallback /\ fallback' => watching]_vars
  <2>. SUFFICES ASSUME StreamInv, Next, ~fallback, fallback' PROVE watching
    OBVIOUS
  <2>1. PICK g \in firing : WatchdogFired(g)
    BY DEF Next, HandlerStep, BeginUpdate, BeginGet, TryRecover, CheckConfirms,
       SetActive, ArmWatchdog, DisarmWatchdog, GetConfirms, Snapshot,
       MarkStreamUp, MarkStreamDown, ClearFallback, TimerElapses,
       CooldownElapses, NoteRESTDriving, stateVars
  <2>2. g = gen
    BY <2>1 DEF WatchdogFired, Superseded
  <2>. QED  BY <2>1, <2>2 DEF StreamInv, WatchingHasWatchdog
<1>. QED  BY <1>1, StreamInvariant, PTL DEF Spec, LatchIsCurrent

-----------------------------------------------------------------------------
(* Requests one at a time.                                                 *)

PutSteps == {"recover", "confirm", "set", "watchdog"}

(* While requests come one at a time, the one being served is the last to  *)
(* have arrived, and a watchdog that outlives the arrival of a             *)
(* deactivation is one that this deactivation will still disarm: with a    *)
(* watchdog running there is no fallback, so it is confirmed.              *)
OneAtATime ==
  /\ watching => EntertainmentMode
  /\ ~overlapped =>
       /\ \A h, k \in Serving : h = k
       /\ \A h \in Handlers : pc[h] \in PutSteps => want[h] = lastBody
       /\ lastBody = "deactivate" /\ watching =>
            \E h \in Handlers : pc[h] \in PutSteps

(* A step that neither moves a request nor arms a watchdog keeps it.       *)
LEMMA OneAtATimeQuiet ==
  ASSUME OneAtATime, UNCHANGED <<pc, want>>, watching' => watching,
         overlapped' = (overlapped \/ \E h, k \in Serving' : h # k),
         lastBody' = lastBody
  PROVE  OneAtATime'
<1>1. Serving' = Serving
  BY DEF Serving
<1>. QED  BY <1>1 DEF OneAtATime

(* Nor does any other step of requests that do not overlap end it.         *)
LEMMA NextOneAtATime ==
  TypeOK /\ WatchingAwaitsStream /\ OneAtATime /\ [MCNext]_mcVars => OneAtATime'
<1>. SUFFICES ASSUME TypeOK, WatchingAwaitsStream, OneAtATime, [MCNext]_mcVars
              PROVE  OneAtATime'
  OBVIOUS
<1>0. pc \in [Handlers -> Steps] /\ want \in [Handlers -> Bodies]
  BY DEF TypeOK
<1>1. CASE UNCHANGED mcVars
  BY <1>1 DEF mcVars, vars, history, OneAtATime, Serving
<1>2. CASE MCNext
  <2>1. /\ overlapped' = (overlapped \/ \E h, k \in Serving' : h # k)
        /\ lastBody' = IF Arrived = {} THEN lastBody
                       ELSE want'[CHOOSE h \in Arrived : TRUE]
    BY <1>2 DEF MCNext
  <2>2. CASE UNCHANGED <<pc, want>> /\ (watching' => watching)
    <3>1. Arrived = {}
      BY <2>2 DEF Arrived
    <3>. QED  BY <2>1, <2>2, <3>1, OneAtATimeQuiet
  <2>3. CASE \E h \in Handlers, body \in Bodies : BeginUpdate(h, body)
    <3>1. PICK h \in Handlers, body \in Bodies : BeginUpdate(h, body)
      BY <2>3
    <3>2. /\ pc[h] = "idle" /\ pc' = [pc EXCEPT ![h] = "recover"]
          /\ want' = [want EXCEPT ![h] = body] /\ watching' = watching
      BY <3>1 DEF BeginUpdate, Goto
    <3>3. Arrived = {h}
      BY <1>0, <3>2 DEF Arrived
    <3>4. lastBody' = body
      BY <1>0, <2>1, <3>2, <3>3
    <3>5. pc'[h] = "recover" /\ want'[h] = body
      BY <1>0, <3>2
    <3>6. ASSUME ~overlapped'
          PROVE  /\ \A i, j \in Serving' : i = j
                 /\ \A k \in Handlers : pc'[k] \in PutSteps => want'[k] = lastBody'
      <4>1. \A i, j \in Serving' : i = j
        BY <2>1, <3>6
      <4>2. \A k \in Handlers : pc'[k] # "idle" => k = h
        BY <3>5, <4>1 DEF Serving
      <4>. QED  BY <3>4, <3>5, <4>1, <4>2 DEF PutSteps
    <3>7. watching' => EntertainmentMode
      BY <3>2 DEF OneAtATime
    <3>8. \E k \in Handlers : pc'[k] \in PutSteps
      BY <3>5 DEF PutSteps
    <3>. QED  BY <3>6, <3>7, <3>8 DEF OneAtATime
  <2>4. ASSUME NEW h \in Handlers, NEW s \in Steps \ {"recover"},
               pc' = [pc EXCEPT ![h] = s], want' = want,
               pc[h] \notin PutSteps, s \notin PutSteps, watching' = watching
        PROVE  OneAtATime'
    <3>1. Arrived = {}
      BY <1>0, <2>4 DEF Arrived
    <3>2. lastBody' = lastBody
      BY <2>1, <3>1
    <3>. QED  BY <1>0, <2>1, <2>4, <3>2 DEF OneAtATime, Serving
  <2>5. ASSUME NEW h \in Handlers, NEW s \in PutSteps \ {"recover"},
               pc' = [pc EXCEPT ![h] = s], want' = want,
               pc[h] \in PutSteps, watching' = watching
        PROVE  OneAtATime'
    <3>1. Arrived = {}
      BY <1>0, <2>5 DEF Arrived
    <3>2. lastBody' = lastBody
      BY <2>1, <3>1
    <3>. QED  BY <1>0, <2>1, <2>5, <3>2 DEF OneAtATime, Serving, PutSteps
  <2>6. ASSUME NEW h \in Handlers, pc' = [pc EXCEPT ![h] = "idle"], want' = want,
               pc[h] \in PutSteps, watching' => EntertainmentMode,
               want[h] = "deactivate" => ~watching'
        PROVE  OneAtATime'
    <3>1. Arrived = {}
      BY <1>0, <2>6 DEF Arrived
    <3>2. lastBody' = lastBody
      BY <2>1, <3>1
    <3>. QED  BY <1>0, <2>1, <2>6, <3>2 DEF OneAtATime, Serving, PutSteps
  <2>7. ASSUME NEW h \in Handlers, BeginGet(h) \/ GetConfirms(h) \/ Snapshot(h)
        PROVE  OneAtATime'
    <3>1. /\ want' = want /\ watching' = watching /\ pc[h] \notin PutSteps
          /\ \E s \in {"get", "snapshot", "idle"} : pc' = [pc EXCEPT ![h] = s]
      BY <2>7 DEF BeginGet, GetConfirms, Snapshot, Goto, history, PutSteps
    <3>. QED  BY <2>4, <3>1 DEF Steps, PutSteps
  <2>8. ASSUME NEW h \in Handlers, TryRecover(h) \/ SetActive(h)
        PROVE  OneAtATime'
    BY <2>5, <2>8 DEF TryRecover, SetActive, Goto, PutSteps
  <2>9. ASSUME NEW h \in Handlers, CheckConfirms(h)
        PROVE  OneAtATime'
    <3>1. want' = want /\ watching' = watching /\ pc[h] = "confirm"
      BY <2>9 DEF CheckConfirms, history
    <3>2. CASE ConfirmsEntertainment /\ want[h] # "none"
      BY <2>5, <2>9, <3>1, <3>2 DEF CheckConfirms, Goto, PutSteps
    <3>3. CASE ~(ConfirmsEntertainment /\ want[h] # "none")
      <4>1. want[h] = "deactivate" => ~watching
        BY <3>3 DEF ConfirmsEntertainment, OneAtATime, WatchingAwaitsStream
      <4>2. watching => EntertainmentMode
        BY DEF OneAtATime
      <4>3. pc' = [pc EXCEPT ![h] = "idle"] /\ pc[h] \in PutSteps
        BY <2>9, <3>3 DEF CheckConfirms, Goto, PutSteps
      <4>. QED  BY <2>6, <3>1, <4>1, <4>2, <4>3
    <3>. QED  BY <3>2, <3>3
  <2>10. ASSUME NEW h \in Handlers, ArmWatchdog(h) \/ DisarmWatchdog(h)
         PROVE  OneAtATime'
    <3>1. /\ pc' = [pc EXCEPT ![h] = "idle"] /\ pc[h] \in PutSteps /\ want' = want
          /\ want[h] = "deactivate" => ~watching'
      BY <2>10 DEF ArmWatchdog, DisarmWatchdog, Goto, PutSteps
    <3>2. watching' => EntertainmentMode
      BY <2>10 DEF ArmWatchdog, DisarmWatchdog, OneAtATime
    <3>. QED  BY <2>6, <3>1, <3>2
  <2>11. CASE MarkStreamUp \/ MarkStreamDown \/ CooldownElapses \/ NoteRESTDriving
    BY <2>2, <2>11 DEF MarkStreamUp, MarkStreamDown, CooldownElapses,
       NoteRESTDriving, history
  <2>12. ASSUME NEW g \in pending, TimerElapses(g) PROVE OneAtATime'
    BY <2>2, <2>12 DEF TimerElapses, history
  <2>13. ASSUME NEW g \in firing, WatchdogFired(g) PROVE OneAtATime'
    BY <2>2, <2>13 DEF WatchdogFired
  <2>. QED
    BY <1>2, <2>3, <2>7, <2>8, <2>9, <2>10, <2>11, <2>12, <2>13
    DEF MCNext, Next, HandlerStep
<1>. QED  BY <1>1, <1>2

(* "A deactivation cancels any pending watchdog": whatever the mode, the   *)
(* recovery setting and the races with timers and streams, once a          *)
(* deactivation that no other request overlapped was answered, none of the *)
(* watchdogs armed before it can latch the fallback.                       *)
THEOREM DeactivationAlwaysCancels == MCSpec => []DeactivationCancels
<1>1. MCInit => OneAtATime
  BY DEF MCInit, Init, OneAtATime, Serving, PutSteps
<1>2. [MCNext]_mcVars => [Next]_vars
  BY DEF MCNext, mcVars
<1>3. MCSpec => []StreamInv
  <2>1. MCSpec => Spec
    BY <1>2, PTL DEF MCSpec, MCInit, Spec
  <2>. QED  BY <2>1, StreamInvariant, PTL
<1>4. StreamInv => TypeOK /\ WatchingAwaitsStream
  BY DEF StreamInv
<1>5. OneAtATime => DeactivationCancels
  BY DEF OneAtATime, DeactivationCancels, Serving, PutSteps
<1>. QED  BY <1>1, <1>3, <1>4, <1>5, NextOneAtATime, PTL DEF MCSpec
=============================================================================
