------------------------------ MODULE IdleOff ------------------------------
(***************************************************************************)
(* The idle-off monitor: the TV sends no off signal, so once it has been   *)
(* silent for the timeout of the current control path, the lamps it drove  *)
(* are turned off (monitorIdle and deriveServeConfig in                    *)
(* cmd/relume-tv/main.go, activityTracker in internal/clipv1/state.go,     *)
(* ControlledSet and TurnOffControlled in internal/bridge).                *)
(*                                                                         *)
(* Time is counted in ticks of the monitor; instead of time stamps the     *)
(* state holds ages, capped at MaxAge.  TV writes, frames of a DTLS        *)
(* stream, writes still on their way to the Pro and zone changes           *)
(* interleave with the monitor's tick and its turn-off calls.              *)
(***************************************************************************)
EXTENDS Naturals, FiniteSets

CONSTANTS
  Lamps,
  EntertainmentMode,
  IdleOffRest,            \* idle-off timeout of the REST path, in ticks, 0 = disabled
  IdleOffEntertainment,   \* ... of the entertainment path
  ControlledLightWindow,  \* the configured sliding window, in ticks
  Margin,                 \* what the window must exceed the timeouts by
  MaxFaults,              \* bound on failing Pro calls
  MaxChanges,             \* bound on changes of the zone and of the control path
  MaxSlow                 \* ticks the calls of one turn-off may take together

ASSUME IdleAssumption ==
  /\ IsFiniteSet(Lamps) /\ EntertainmentMode \in BOOLEAN
  /\ IdleOffRest \in Nat /\ IdleOffEntertainment \in Nat
  /\ ControlledLightWindow \in Nat /\ Margin \in Nat
  /\ MaxFaults \in Nat /\ MaxChanges \in Nat /\ MaxSlow \in Nat

VARIABLES
  actAge,    \* age of the last activity
  active,    \* there was activity since the start
  fresh,     \* there was activity since the monitor last looked
  fired,     \* the monitor fired for this silence
  due,       \* the ticker fired and the monitor has not looked yet
  slow,      \* ticks the current turn-off has taken
  target,    \* lamps the current turn-off has still to turn off
  seen,      \* ControlledSet.seen: the age of each lamp in it
  last,      \* ControlledSet.last
  pending,   \* lamps with a write on its way to the Pro
  zone,      \* lamps of the zone the TV declared
  fallback,  \* entertainment mode is latched on REST
  lit,       \* history: "write" or "stream", what lit each lamp; "no" when it
             \* was turned off; "excused" when the code gives it up by design
  faults, changes

timeVars == <<actAge, active, fresh, due, slow>>
setVars == <<seen, last>>
envVars == <<zone, fallback, changes>>
vars == <<timeVars, fired, target, setVars, pending, envVars, lit, faults>>

(* idleTimeoutFor.                                                         *)
IdleTimeoutFor(entertainment, onFallback) ==
  IF entertainment /\ ~onFallback THEN IdleOffEntertainment ELSE IdleOffRest

LongestIdle ==
  LET idleOff == IdleTimeoutFor(EntertainmentMode, FALSE)
      idleOffFallback == IdleTimeoutFor(EntertainmentMode, TRUE)
  IN IF idleOff > idleOffFallback THEN idleOff ELSE idleOffFallback

(* Mutant: the window is used as configured.                               *)
WindowAsConfigured == ControlledLightWindow

(* deriveServeConfig raises a window that does not exceed the timeouts.    *)
Window ==
  IF LongestIdle > 0 /\ ControlledLightWindow < LongestIdle + Margin
  THEN LongestIdle + Margin ELSE ControlledLightWindow

MaxAge == Window + 1
Gone == MaxAge + 1
Older(a) == IF a < MaxAge THEN a + 1 ELSE a

Init ==
  /\ actAge = MaxAge /\ active = FALSE /\ fresh = FALSE /\ fired = FALSE
  /\ due = FALSE /\ slow = 0 /\ target = {}
  /\ seen = [l \in Lamps |-> Gone] /\ last = {}
  /\ pending = {}
  /\ zone = Lamps /\ fallback = FALSE
  /\ lit = [l \in Lamps |-> "no"]
  /\ faults = 0 /\ changes = 0

Fault == faults < MaxFaults /\ faults' = faults + 1
Change == changes < MaxChanges /\ changes' = changes + 1

-----------------------------------------------------------------------------
(* The TV.                                                                 *)

(* recordWriteTime and markActivity.                                       *)
RecordWriteTime ==
  /\ actAge' = 0 /\ active' = TRUE /\ fresh' = TRUE
  /\ UNCHANGED <<due, slow>>

(* PUT /lights/{id}/state.  A write outside the zone is a true no-op.      *)
SetLightState(l) ==
  /\ l \in zone
  /\ RecordWriteTime
  /\ pending' = pending \cup {l}
  /\ UNCHANGED <<fired, target, setVars, envVars, lit, faults>>

(* PUT /groups/{id}/action fans out to the zone and records no activity.   *)
GroupAction ==
  /\ pending' = pending \cup zone
  /\ UNCHANGED <<timeVars, fired, target, setVars, envVars, lit, faults>>

(* A frame of the DTLS stream, forwarded over the Pro's own stream: it is  *)
(* activity, and the ControlledSet never hears of the lamps.               *)
StreamFrame ==
  /\ EntertainmentMode /\ ~fallback
  /\ RecordWriteTime
  /\ lit' = [l \in Lamps |-> IF l \in zone THEN "stream" ELSE lit[l]]
  /\ UNCHANGED <<fired, target, setVars, pending, envVars, faults>>

(* The drain goroutine forwards a write and marks the lamp as driven, or   *)
(* the call fails.  A write may land after the monitor has fired.          *)
Forward(l) ==
  /\ l \in pending
  /\ pending' = pending \ {l}
  /\ \/ /\ seen' = [seen EXCEPT ![l] = 0]
        /\ lit' = [lit EXCEPT ![l] = IF (fired /\ ~fresh) \/ ~active THEN "excused" ELSE "write"]
        /\ UNCHANGED faults
     \/ Fault /\ UNCHANGED <<seen, lit>>
  /\ UNCHANGED <<timeVars, fired, target, last, envVars>>

SetZone(z) ==
  /\ z # zone /\ Change
  /\ zone' = z
  /\ UNCHANGED <<timeVars, fired, target, setVars, pending, fallback, lit, faults>>

SetFallback ==
  /\ EntertainmentMode /\ Change
  /\ fallback' = ~fallback
  /\ UNCHANGED <<timeVars, fired, target, setVars, pending, zone, lit, faults>>

-----------------------------------------------------------------------------
(* The ControlledSet.                                                      *)
InWindow == {l \in Lamps : seen[l] <= Window}

(* Mutant: an empty window empties the set.                                *)
NotRetained == InWindow

(* Current: the lamps in the window, or the last set that was not empty.   *)
Current == IF InWindow # {} THEN InWindow ELSE last

Pruned ==
  /\ seen' = [l \in Lamps |-> IF l \in InWindow THEN seen[l] ELSE Gone]
  /\ last' = Current

(* History: lamps that left the set because a newer window that is not     *)
(* empty lacks them, which is how the set is meant to forget.              *)
LeftLiveWindow == {l \in Lamps : lit[l] = "write" /\ InWindow # {} /\ l \notin InWindow}

(* History: lamps lost with a window that emptied before anybody read it,  *)
(* although the TV was active all the time: its later writes failed, still *)
(* wait, or it went over to streaming.                                     *)
LostUnread ==
  {l \in Lamps : lit[l] = "write" /\ InWindow = {} /\ l \notin last /\ actAge <= Window}

(* The activity summary reads it too, if the TV wrote or polled since the  *)
(* last one; polls change nothing else and may come at any time.           *)
FlushActivity ==
  /\ Pruned
  /\ lit' = [l \in Lamps |-> IF l \in LeftLiveWindow THEN "excused" ELSE lit[l]]
  /\ UNCHANGED <<timeVars, fired, target, pending, envVars, faults>>

-----------------------------------------------------------------------------
(* monitorIdle.                                                            *)

(* The ticker.  A monitor that waits looks at every tick; one that is      *)
(* turning lamps off misses a few.                                         *)
TimePasses ==
  /\ \/ target = {} /\ ~due /\ due' = TRUE /\ slow' = 0
     \/ target # {} /\ slow < MaxSlow /\ slow' = slow + 1 /\ UNCHANGED due
  /\ actAge' = Older(actAge)
  /\ seen' = [l \in Lamps |-> IF seen[l] = Gone THEN Gone ELSE Older(seen[l])]
  /\ UNCHANGED <<active, fresh, fired, target, last, pending, envVars, lit, faults>>

(* Mutant: new activity does not re-arm the monitor.                       *)
StaysFired == fired

Rearmed == FALSE

(* Activity since the last look re-arms the monitor.                       *)
SeesActivity ==
  /\ due /\ target = {} /\ fresh
  /\ due' = FALSE /\ fresh' = FALSE
  /\ fired' = Rearmed
  /\ UNCHANGED <<actAge, active, slow, target, setVars, pending, envVars, lit, faults>>

IdleShouldFire ==
  LET timeout == IdleTimeoutFor(EntertainmentMode, fallback) IN
  timeout > 0 /\ ~fired /\ active /\ actAge >= timeout

KeepsWaiting ==
  /\ due /\ target = {} /\ ~fresh /\ ~IdleShouldFire
  /\ due' = FALSE
  /\ UNCHANGED <<actAge, active, fresh, slow, fired, target, setVars, pending, envVars, lit, faults>>

(* The monitor fires: the lamps of the ControlledSet that are still in the *)
(* zone (inZoneUUIDs) are to be turned off.                                *)
Fires ==
  /\ due /\ target = {} /\ ~fresh /\ IdleShouldFire
  /\ due' = FALSE
  /\ fired' = TRUE
  /\ target' = Current \cap zone
  /\ Pruned
  /\ lit' = [l \in Lamps |->
               IF l \in LeftLiveWindow \cup LostUnread \/ (lit[l] = "write" /\ l \notin zone)
               THEN "excused" ELSE lit[l]]
  /\ UNCHANGED <<actAge, active, fresh, slow, pending, envVars, faults>>

(* TurnOffControlled, one call per lamp; a failing call is only logged.    *)
TurnOff(l) ==
  /\ l \in target
  /\ target' = target \ {l}
  /\ \/ lit' = [lit EXCEPT ![l] = "no"] /\ UNCHANGED faults
     \/ Fault /\ lit' = [lit EXCEPT ![l] = IF @ = "no" THEN "no" ELSE "excused"]
  /\ UNCHANGED <<timeVars, fired, setVars, pending, envVars>>

Monitor == SeesActivity \/ KeepsWaiting \/ Fires \/ \E l \in Lamps : TurnOff(l)

Next ==
  \/ \E l \in Lamps : SetLightState(l) \/ Forward(l)
  \/ GroupAction \/ StreamFrame
  \/ \E z \in SUBSET Lamps \ {{}} : SetZone(z)
  \/ SetFallback \/ FlushActivity
  \/ TimePasses \/ Monitor

Spec == Init /\ [][Next]_vars

(* Time passes, the monitor runs and the drain goroutine forwards.         *)
FairSpec ==
  /\ Spec
  /\ WF_vars(TimePasses) /\ WF_vars(Monitor)
  /\ \A l \in Lamps : WF_vars(Forward(l))

-----------------------------------------------------------------------------
TypeOK ==
  /\ actAge \in 0 .. MaxAge /\ active \in BOOLEAN /\ fresh \in BOOLEAN
  /\ fired \in BOOLEAN /\ due \in BOOLEAN /\ slow \in 0 .. MaxSlow
  /\ target \subseteq Lamps /\ last \subseteq Lamps /\ pending \subseteq Lamps
  /\ seen \in [Lamps -> 0 .. Gone] /\ zone \subseteq Lamps /\ fallback \in BOOLEAN
  /\ lit \in [Lamps -> {"no", "write", "stream", "excused"}]
  /\ faults \in 0 .. MaxFaults /\ changes \in 0 .. MaxChanges

(* A TV that goes silent for good leaves no lamp on: every lamp it lit     *)
(* with a write that reached the Pro before the monitor fired is turned    *)
(* off, whatever the control path and its timeout, unless its own turn-off *)
(* call failed, the TV had dropped it from its zone, or no write to it had *)
(* succeeded for a whole window although the TV was active (LeftLiveWindow *)
(* and LostUnread).  A lamp that leaves the ControlledSet because the TV   *)
(* fell silent has no excuse.                                              *)
SilentMeansOff ==
  <>[](actAge = MaxAge) => <>[](\A l \in Lamps : lit[l] # "write")

(* The window outlasts the timeout: when the monitor fires, a lamp that    *)
(* was driven no earlier than the last activity is among its targets, even *)
(* if nobody had read the set since (controlled-light-window raised to     *)
(* exceed the idle-off timeouts).                                          *)
LastDrivenTargeted ==
  [][~fired /\ fired' =>
       {l \in zone : lit[l] = "write" /\ seen[l] <= actAge} \subseteq target']_vars

(* README: "-idle-off-timeout-entertainment ... when the TV stops driving  *)
(* the lights for this long, turn them off", "same as above but for the    *)
(* DTLS stream path".                                                      *)
StreamedLampsTargeted ==
  [][~fired /\ fired' => {l \in zone : lit[l] = "stream"} \subseteq target']_vars
=============================================================================
