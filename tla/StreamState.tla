---------------------------- MODULE StreamState ----------------------------
(***************************************************************************)
(* The TV-side activation handshake of relume-tv (internal/clipv1): the    *)
(* streamState record behind one mutex, the HTTP handlers that use it, the *)
(* fallback watchdog and the DTLS stream-up/stream-down callbacks.         *)
(*                                                                         *)
(* Every streamState method runs under the mutex, so it is one action (or  *)
(* one operator of an action).  A handler is NOT atomic: handleGroupUpdate *)
(* calls four such methods in turn, each under its own lock section, and   *)
(* everything else may run between two of them.  A request in flight is a  *)
(* process h with a program counter pc[h].                                 *)
(*                                                                         *)
(* A watchdog armed by armWatchdog is a time.AfterFunc timer.  It is first *)
(* in "pending" (running; Stop removes it); when it elapses it moves to    *)
(* "firing" (its goroutine has started and waits for the mutex; Stop can   *)
(* no longer reach it).  Both sets hold the generation it captured.        *)
(***************************************************************************)
EXTENDS Naturals, FiniteSets

CONSTANTS
  Handlers,           \* HTTP request slots that may be in flight at once
  EntertainmentMode,  \* -mode entertainment (TRUE) or rest (FALSE)
  RecoveryEnabled,    \* recoveryCooldown > 0
  MaxInputs           \* bound: group updates and stream-ups in a behaviour

ASSUME ConstantsAssumption ==
  /\ EntertainmentMode \in BOOLEAN
  /\ RecoveryEnabled \in BOOLEAN
  /\ MaxInputs \in Nat

VARIABLES
  active,       \* the stream activation the TV requested
  streamUp,     \* a TV DTLS stream is connected
  fallback,     \* entertainment mode is latched on REST-follow
  cooled,       \* now - fallbackAt >= recoveryCooldown
  gen,          \* watchdog generation token
  watchdog,     \* generation of the timer the pointer refers to; 0 is nil
  restNoticed,  \* the "driving via REST" line was logged in this episode
  pending,      \* generations of the running timers
  firing,       \* generations of the callbacks that wait for the mutex
  pc,           \* program counter of each request
  want,         \* stream.active in the body of each request, or "none"
  inputs,       \* number of bounded inputs so far
  (* History, written for the properties only. *)
  watching,     \* a confirmed activation was armed and nothing ended it yet
  unanswered,   \* an activation was confirmed, no stream came up since
  latched       \* fallback has held ever since the request arrived

stateVars == <<active, streamUp, fallback, cooled, gen, watchdog, restNoticed>>
timerVars == <<pending, firing>>
history == <<watching, unanswered, latched>>
vars == <<stateVars, timerVars, pc, want, inputs, history>>

Bodies == {"activate", "deactivate", "none"}
Steps == {"idle", "recover", "confirm", "set", "watchdog", "get", "snapshot"}

TypeOK ==
  /\ active \in BOOLEAN /\ streamUp \in BOOLEAN /\ fallback \in BOOLEAN
  /\ cooled \in BOOLEAN /\ restNoticed \in BOOLEAN
  /\ gen \in Nat /\ watchdog \in Nat /\ inputs \in Nat
  /\ pending \in SUBSET Nat /\ firing \in SUBSET Nat
  /\ pc \in [Handlers -> Steps]
  /\ want \in [Handlers -> Bodies]
  /\ watching \in BOOLEAN /\ unanswered \in BOOLEAN
  /\ latched \in [Handlers -> BOOLEAN]

Init ==
  /\ active = FALSE /\ streamUp = FALSE /\ fallback = FALSE
  /\ cooled = FALSE /\ restNoticed = FALSE
  /\ gen = 0 /\ watchdog = 0 /\ inputs = 0
  /\ pending = {} /\ firing = {}
  /\ pc = [h \in Handlers |-> "idle"]
  /\ want = [h \in Handlers |-> "none"]
  /\ watching = FALSE /\ unanswered = FALSE
  /\ latched = [h \in Handlers |-> FALSE]

Goto(h, s) == pc' = [pc EXCEPT ![h] = s]

(* Every arm, disarm and stream-up hands out a new generation. *)
NextGen == gen + 1

(* Mutant: the confirmation forgets the fallback. *)
ConfirmsInFallback == EntertainmentMode
(***************************************************************************)
(* confirmsEntertainment: one locked read of fallback.                     *)
(***************************************************************************)
ConfirmsEntertainment == EntertainmentMode /\ ~fallback

(* Mutant: fallback is left latched. *)
KeepFallback == UNCHANGED <<fallback, latched>>
(* No request may still claim an uninterrupted fallback once it cleared.   *)
ClearFallback ==
  /\ fallback' = FALSE
  /\ latched' = [h \in Handlers |-> FALSE]

-----------------------------------------------------------------------------
(* PUT /groups/{id}.                                                       *)

BeginUpdate(h, body) ==
  /\ pc[h] = "idle"
  /\ inputs < MaxInputs
  /\ inputs' = inputs + 1
  /\ want' = [want EXCEPT ![h] = body]
  /\ latched' = [latched EXCEPT ![h] = fallback]
  /\ Goto(h, "recover")
  /\ UNCHANGED <<stateVars, timerVars, watching, unanswered>>

(***************************************************************************)
(* tryRecoverFallback, called for an activation in entertainment mode.     *)
(***************************************************************************)
CanRecover == fallback /\ RecoveryEnabled /\ cooled

TryRecover(h) ==
  /\ pc[h] = "recover"
  /\ Goto(h, "confirm")
  /\ IF EntertainmentMode /\ want[h] = "activate" /\ CanRecover
     THEN ClearFallback
     ELSE UNCHANGED <<fallback, latched>>
  /\ UNCHANGED <<active, streamUp, cooled, gen, watchdog, restNoticed,
                 timerVars, want, inputs, watching, unanswered>>

(***************************************************************************)
(* The confirmsEntertainment test.  A body without stream.active, and any  *)
(* body in fallback or REST mode, gets the generic ack.                    *)
(***************************************************************************)
CheckConfirms(h) ==
  /\ pc[h] = "confirm"
  /\ Goto(h, IF ConfirmsEntertainment /\ want[h] # "none" THEN "set" ELSE "idle")
  /\ UNCHANGED <<stateVars, timerVars, want, inputs, history>>

SetActive(h) ==
  /\ pc[h] = "set"
  /\ active' = (want[h] = "activate")
  /\ unanswered' = (want[h] = "activate")
  /\ restNoticed' = FALSE
  /\ Goto(h, "watchdog")
  /\ UNCHANGED <<streamUp, fallback, cooled, gen, watchdog, timerVars, want,
                 inputs, watching, latched>>

(* Mutant: the superseded timer is left running. *)
TimersLeftRunning == pending
(* time.Timer.Stop on the timer the pointer refers to, if any.             *)
StoppedTimers == pending \ {watchdog}

(* Mutant: the old timer is stopped and no new one is started. *)
NoNewTimer == StoppedTimers
(* time.AfterFunc for the new generation, after the old timer's Stop.      *)
StartedTimers == StoppedTimers \cup {NextGen}

ArmWatchdog(h) ==
  /\ pc[h] = "watchdog" /\ want[h] = "activate"
  /\ Goto(h, "idle")
  /\ IF ~EntertainmentMode \/ fallback \/ streamUp
     THEN UNCHANGED <<gen, watchdog, pending, watching>>
     ELSE /\ gen' = NextGen
          /\ watchdog' = NextGen
          /\ pending' = StartedTimers
          /\ watching' = TRUE
  /\ UNCHANGED <<active, streamUp, fallback, cooled, restNoticed, firing,
                 want, inputs, unanswered, latched>>

(* Mutant: a deactivation leaves the watchdog armed. *)
DisarmNothing(h) ==
  /\ pc[h] = "watchdog" /\ want[h] = "deactivate"
  /\ Goto(h, "idle")
  /\ UNCHANGED <<stateVars, timerVars, want, inputs, history>>

DisarmWatchdog(h) ==
  /\ pc[h] = "watchdog" /\ want[h] = "deactivate"
  /\ Goto(h, "idle")
  /\ gen' = NextGen
  /\ watchdog' = 0
  /\ pending' = StoppedTimers
  /\ watching' = FALSE
  /\ UNCHANGED <<active, streamUp, fallback, cooled, restNoticed, firing,
                 want, inputs, unanswered, latched>>

-----------------------------------------------------------------------------
(* GET /groups/1: bridgeGroup reads fallback, then the activation, in two  *)
(* lock sections.                                                          *)

BeginGet(h) ==
  /\ pc[h] = "idle"
  /\ latched' = [latched EXCEPT ![h] = fallback]
  /\ Goto(h, "get")
  /\ UNCHANGED <<stateVars, timerVars, want, inputs, watching, unanswered>>

GetConfirms(h) ==
  /\ pc[h] = "get"
  /\ Goto(h, IF ConfirmsEntertainment THEN "snapshot" ELSE "idle")
  /\ UNCHANGED <<stateVars, timerVars, want, inputs, history>>

Snapshot(h) ==
  /\ pc[h] = "snapshot"
  /\ Goto(h, "idle")
  /\ UNCHANGED <<stateVars, timerVars, want, inputs, history>>

-----------------------------------------------------------------------------
(* The DTLS receiver's callbacks.  It brackets every session with exactly  *)
(* one stream-up and one stream-down and never overlaps two (Receiver).    *)

MarkStreamUp ==
  /\ ~streamUp
  /\ inputs < MaxInputs
  /\ inputs' = inputs + 1
  /\ streamUp' = TRUE
  /\ pending' = StoppedTimers
  /\ watchdog' = 0
  /\ ClearFallback
  /\ gen' = NextGen
  /\ restNoticed' = FALSE
  /\ watching' = FALSE
  /\ unanswered' = FALSE
  /\ UNCHANGED <<active, cooled, firing, pc, want>>

MarkStreamDown ==
  /\ streamUp
  /\ streamUp' = FALSE
  /\ restNoticed' = FALSE
  /\ UNCHANGED <<active, fallback, cooled, gen, watchdog, timerVars, pc,
                 want, inputs, history>>

-----------------------------------------------------------------------------
(* The watchdog timer and the clock.                                       *)

TimerElapses(g) ==
  /\ g \in pending
  /\ pending' = pending \ {g}
  /\ firing' = firing \cup {g}
  /\ UNCHANGED <<stateVars, pc, want, inputs, history>>

(* Mutant: the callback trusts that its timer was never superseded. *)
StreamCameUp(g) == streamUp
Superseded(g) == streamUp \/ g # gen

(* Mutant: the notice is not re-armed by the fallback. *)
KeepNotice == restNoticed
ResetNotice == FALSE

WatchdogFired(g) ==
  /\ g \in firing
  /\ firing' = firing \ {g}
  /\ IF Superseded(g)
     THEN UNCHANGED <<fallback, cooled, active, restNoticed, watching, unanswered>>
     ELSE /\ fallback' = TRUE
          /\ cooled' = FALSE
          /\ active' = FALSE
          /\ restNoticed' = ResetNotice
          /\ watching' = FALSE
          /\ unanswered' = FALSE
  /\ UNCHANGED <<streamUp, gen, watchdog, pending, pc, want, inputs, latched>>

CooldownElapses ==
  /\ fallback /\ ~cooled
  /\ cooled' = TRUE
  /\ UNCHANGED <<active, streamUp, fallback, gen, watchdog, restNoticed,
                 timerVars, pc, want, inputs, history>>

(***************************************************************************)
(* noteRESTDriving, the locked part of PUT /lights/{id}/state.             *)
(***************************************************************************)
NoteRESTDriving ==
  /\ EntertainmentMode
  /\ ~streamUp /\ ~fallback /\ ~active /\ ~restNoticed
  /\ restNoticed' = TRUE
  /\ UNCHANGED <<active, streamUp, fallback, cooled, gen, watchdog, timerVars,
                 pc, want, inputs, history>>

-----------------------------------------------------------------------------
HandlerStep(h) ==
  \/ TryRecover(h) \/ CheckConfirms(h) \/ SetActive(h)
  \/ ArmWatchdog(h) \/ DisarmWatchdog(h)
  \/ GetConfirms(h) \/ Snapshot(h)

Next ==
  \/ \E h \in Handlers : \/ \E body \in Bodies : BeginUpdate(h, body)
                         \/ BeginGet(h)
                         \/ HandlerStep(h)
  \/ MarkStreamUp \/ MarkStreamDown
  \/ \E g \in pending : TimerElapses(g)
  \/ \E g \in firing : WatchdogFired(g)
  \/ CooldownElapses
  \/ NoteRESTDriving

(***************************************************************************)
(* Go runs every started request to its end, fires a timer that nobody     *)
(* stops and hands the mutex to every waiter.  What the TV sends, and when *)
(* its stream opens or closes, is not assumed.                             *)
(***************************************************************************)
Fairness ==
  /\ \A h \in Handlers : WF_vars(HandlerStep(h))
  /\ WF_vars(\E g \in pending : TimerElapses(g))
  /\ WF_vars(\E g \in firing : WatchdogFired(g))

Spec == Init /\ [][Next]_vars

FairSpec == Spec /\ Fairness

-----------------------------------------------------------------------------
(* Properties.                                                             *)

(* M1: "stream came up wins over a racing watchdog".  However a stream-up, *)
(* an elapsing timer and the handlers interleave, relume-tv is never       *)
(* latched on REST-follow while the TV's DTLS stream is connected.         *)
StreamUpWins == streamUp => ~fallback

(* What tryRecoverFallback relies on to clear the flag without a           *)
(* generation bump: during fallback no timer runs, and no callback that    *)
(* waits for the mutex still carries the current generation.               *)
FallbackHasNoWatchdog == fallback => pending = {} /\ gen \notin firing

(* Fallback latches only for the activation that was armed last, and only  *)
(* if since that arm no stream came up and no deactivation disarmed it: a  *)
(* stale callback never latches.                                           *)
LatchIsCurrent == [][~fallback /\ fallback' => watching]_vars

(* "Subsequent activations get the generic ack and GET /groups/1 reports   *)
(* the stream inactive": a request that arrived in fallback, and under     *)
(* which the fallback never cleared, is not confirmed and does not read    *)
(* the activation.                                                         *)
NoConfirmWhileLatched ==
  \A h \in Handlers : latched[h] => pc[h] \notin {"set", "watchdog", "snapshot"}

(* The one-shot REST-driving notice never outlives its episode: while it   *)
(* is latched there is no stream, no activation and no fallback, whichever *)
(* transition came last.                                                   *)
NoticeMatchesEpisode == restNoticed => ~streamUp /\ ~fallback /\ ~active

(* An armed watchdog never hangs: the stream comes up, a deactivation      *)
(* disarms it, or it fires and falls back.                                 *)
WatchdogEnds == watching ~> ~watching

(* docs/DESIGN.md: "when relume-tv confirms an activation it waits 5s for  *)
(* the TV's DTLS stream; if none arrives it stickily reverts to            *)
(* REST-follow".  Every confirmed activation whose stream did not come up  *)
(* is resolved by a stream, the fallback or a deactivation.                *)
ConfirmedActivationResolves ==
  (unanswered /\ active /\ ~streamUp) ~> (streamUp \/ fallback \/ ~active)

-----------------------------------------------------------------------------
(* The inductive invariant behind the safety properties.                   *)

(* A generation is handed out once: no timer or callback is ahead of gen.  *)
GensHandedOut == \A g \in pending \cup firing : g <= gen

(* The pointer refers to the only running timer, which is the current one. *)
OnlyCurrentTimerRuns == pending \subseteq {watchdog} /\ pending \subseteq {gen}

(* A watchdog is awaited iff a timer or callback has the current generation.*)
WatchingHasWatchdog == watching <=> gen \in pending \cup firing

(* A timer leaves pending when it enters firing.                           *)
PendingNotFiring == pending \cap firing = {}

WatchingAwaitsStream == watching => ~fallback /\ ~streamUp

LatchedInFallback == \A h \in Handlers : latched[h] => fallback

StreamInv ==
  /\ TypeOK
  /\ StreamUpWins
  /\ GensHandedOut
  /\ OnlyCurrentTimerRuns
  /\ WatchingHasWatchdog
  /\ PendingNotFiring
  /\ WatchingAwaitsStream
  /\ LatchedInFallback
  /\ NoConfirmWhileLatched
  /\ NoticeMatchesEpisode
=============================================================================
