--------------------------- MODULE IdleOffProofs ---------------------------
(***************************************************************************)
(* When the idle-off monitor fires in time, for every set of lamps, every  *)
(* pair of timeouts and every window.                                      *)
(***************************************************************************)
EXTENDS IdleOff, TLAPS

-----------------------------------------------------------------------------
(* What the property needs of the configuration.                           *)

(* Idle-off is enabled on every control path.  With one timeout disabled   *)
(* the monitor waits on that path without bound, and fires with an old     *)
(* activity as soon as the control path changes.                           *)
EveryPathTimed == IdleOffRest > 0 /\ (EntertainmentMode => IdleOffEntertainment > 0)

(* The calls of one turn-off, and the two ticks until the monitor can fire *)
(* again, are over before the window is.                                   *)
TurnOffFitsWindow == MaxSlow + 2 <= Window

-----------------------------------------------------------------------------
(* The inductive invariant.                                                *)

(* Lamps are being turned off only after the monitor fired, and the ticker *)
(* is looked at only when none are left.                                   *)
TurningOff ==
  /\ target # {} => fired /\ ~due
  /\ due => slow = 0

(* Activity the monitor has not seen is at most one turn-off and one tick  *)
(* old.                                                                    *)
UnseenIsYoung == fresh => actAge <= IF due THEN MaxSlow + 1 ELSE slow

(* An armed monitor looks at every tick, so the activity it has seen is    *)
(* not much older than the longest timeout.                                *)
ArmedIsYoung ==
  active /\ ~fresh /\ ~fired =>
    \/ actAge <= MaxSlow + (IF due THEN 2 ELSE 1)
    \/ actAge <= LongestIdle - (IF due THEN 0 ELSE 1)

IdleInv == TypeOK /\ TurningOff /\ UnseenIsYoung /\ ArmedIsYoung

-----------------------------------------------------------------------------
(* The timeout of either control path is at most the longest, and the      *)
(* window outlasts it.                                                     *)
LEMMA WindowFacts ==
  /\ Window \in Nat /\ MaxAge \in Nat /\ MaxAge = Window + 1
  /\ Gone \in Nat /\ Gone = MaxAge + 1
  /\ LongestIdle \in Nat
  /\ LongestIdle <= Window
  /\ \A f \in BOOLEAN : /\ IdleTimeoutFor(EntertainmentMode, f) \in Nat
                        /\ IdleTimeoutFor(EntertainmentMode, f) <= LongestIdle
                        /\ EveryPathTimed => IdleTimeoutFor(EntertainmentMode, f) > 0
<1>1. /\ \A f \in BOOLEAN : IdleTimeoutFor(EntertainmentMode, f) \in Nat
      /\ \A f \in BOOLEAN : EveryPathTimed => IdleTimeoutFor(EntertainmentMode, f) > 0
  BY IdleAssumption DEF IdleTimeoutFor, EveryPathTimed
<1>2. /\ LongestIdle \in Nat
      /\ \A f \in BOOLEAN : IdleTimeoutFor(EntertainmentMode, f) <= LongestIdle
  BY IdleAssumption DEF IdleTimeoutFor, LongestIdle
<1>3. Window \in Nat /\ LongestIdle <= Window
  BY <1>2, IdleAssumption DEF Window
<1>4. MaxAge \in Nat /\ MaxAge = Window + 1 /\ Gone \in Nat /\ Gone = MaxAge + 1
  BY <1>3 DEF MaxAge, Gone
<1>. QED  BY <1>1, <1>2, <1>3, <1>4

(* Ages grow by one, up to the cap.                                        *)
LEMMA OlderFacts ==
  ASSUME NEW a \in 0 .. MaxAge
  PROVE  Older(a) \in 0 .. MaxAge /\ Older(a) <= a + 1
  BY WindowFacts DEF Older

(* A fault or a change stays within its bound.                             *)
LEMMA BoundTypes ==
  ASSUME TypeOK
  PROVE  /\ Fault \/ UNCHANGED faults => faults' \in 0 .. MaxFaults
         /\ Change => changes' \in 0 .. MaxChanges
  BY IdleAssumption DEF TypeOK, Fault, Change

(* The window and the set that outlives it hold lamps.                     *)
LEMMA PrunedTypes ==
  ASSUME TypeOK
  PROVE  /\ InWindow \subseteq Lamps /\ Current \subseteq Lamps
         /\ Pruned => seen' \in [Lamps -> 0 .. Gone] /\ last' \subseteq Lamps
<1>1. InWindow \subseteq Lamps
  BY DEF InWindow
<1>2. Current \subseteq Lamps
  BY <1>1 DEF Current, TypeOK
<1>. QED  BY <1>1, <1>2, WindowFacts DEF Pruned, TypeOK

-----------------------------------------------------------------------------
(* The monitor starts with nothing seen and nothing to turn off.           *)
LEMMA InitIdleInv == Init => IdleInv
<1>. SUFFICES ASSUME Init PROVE IdleInv
  OBVIOUS
<1>. USE WindowFacts, IdleAssumption
<1>1. TypeOK
  <2>1. seen \in [Lamps -> 0 .. Gone] /\ lit \in [Lamps -> {"no", "write", "stream", "excused"}]
    BY DEF Init
  <2>2. /\ actAge \in 0 .. MaxAge /\ slow \in 0 .. MaxSlow
        /\ faults \in 0 .. MaxFaults /\ changes \in 0 .. MaxChanges
    BY DEF Init
  <2>3. /\ active \in BOOLEAN /\ fresh \in BOOLEAN /\ fired \in BOOLEAN /\ due \in BOOLEAN
        /\ fallback \in BOOLEAN
        /\ target \subseteq Lamps /\ last \subseteq Lamps /\ pending \subseteq Lamps
        /\ zone \subseteq Lamps
    BY DEF Init
  <2>. QED  BY <2>1, <2>2, <2>3 DEF TypeOK
<1>2. TurningOff /\ UnseenIsYoung /\ ArmedIsYoung
  BY DEF Init, TurningOff, UnseenIsYoung, ArmedIsYoung
<1>. QED  BY <1>1, <1>2 DEF IdleInv

(* Every action keeps the types.                                           *)
LEMMA NextTypeOK == TypeOK /\ [Next]_vars => TypeOK'
<1>. SUFFICES ASSUME TypeOK, [Next]_vars PROVE TypeOK'
  OBVIOUS
<1>. USE DEF timeVars, setVars, envVars
<1>1. ASSUME NEW l \in Lamps, SetLightState(l) PROVE TypeOK'
  BY <1>1, WindowFacts DEF SetLightState, RecordWriteTime, TypeOK
<1>2. ASSUME NEW l \in Lamps, Forward(l) PROVE TypeOK'
  <2>1. faults' \in 0 .. MaxFaults
    BY <1>2, BoundTypes DEF Forward
  <2>2. seen' \in [Lamps -> 0 .. Gone]
    BY <1>2, WindowFacts DEF Forward, TypeOK
  <2>3. lit' \in [Lamps -> {"no", "write", "stream", "excused"}]
    BY <1>2 DEF Forward, TypeOK
  <2>. QED  BY <1>2, <2>1, <2>2, <2>3 DEF Forward, TypeOK
<1>3. CASE GroupAction
  BY <1>3 DEF GroupAction, TypeOK
<1>4. CASE StreamFrame
  BY <1>4, WindowFacts DEF StreamFrame, RecordWriteTime, TypeOK
<1>5. ASSUME NEW z \in SUBSET Lamps \ {{}}, SetZone(z) PROVE TypeOK'
  BY <1>5, BoundTypes DEF SetZone, TypeOK
<1>6. CASE SetFallback
  BY <1>6, BoundTypes DEF SetFallback, TypeOK
<1>7. CASE FlushActivity
  <2>1. seen' \in [Lamps -> 0 .. Gone] /\ last' \subseteq Lamps
    BY <1>7, PrunedTypes DEF FlushActivity
  <2>. QED  BY <1>7, <2>1 DEF FlushActivity, TypeOK
<1>8. CASE TimePasses
  <2>1. actAge' \in 0 .. MaxAge
    BY <1>8, OlderFacts DEF TimePasses, TypeOK
  <2>2. ASSUME NEW l \in Lamps, seen[l] # Gone PROVE Older(seen[l]) \in 0 .. Gone
    <3>1. seen[l] \in 0 .. MaxAge
      BY <2>2, WindowFacts DEF TypeOK
    <3>2. Older(seen[l]) \in 0 .. MaxAge
      BY <3>1, OlderFacts
    <3>. QED  BY <3>2, WindowFacts
  <2>3. seen' \in [Lamps -> 0 .. Gone]
    <3>1. seen' = [l \in Lamps |-> IF seen[l] = Gone THEN Gone ELSE Older(seen[l])]
      BY <1>8 DEF TimePasses
    <3>2. Gone \in 0 .. Gone
      BY WindowFacts
    <3>. QED  BY <2>2, <3>1, <3>2
  <2>4. slow' \in 0 .. MaxSlow
    BY <1>8, IdleAssumption DEF TimePasses, TypeOK
  <2>5. due' \in BOOLEAN
    BY <1>8 DEF TimePasses, TypeOK
  <2>. QED  BY <1>8, <2>1, <2>3, <2>4, <2>5 DEF TimePasses, TypeOK
<1>9. CASE SeesActivity \/ KeepsWaiting
  BY <1>9 DEF SeesActivity, KeepsWaiting, Rearmed, TypeOK
<1>10. CASE Fires
  <2>1. /\ seen' \in [Lamps -> 0 .. Gone] /\ last' \subseteq Lamps
        /\ target' \subseteq Lamps
    BY <1>10, PrunedTypes DEF Fires, TypeOK
  <2>2. lit' \in [Lamps -> {"no", "write", "stream", "excused"}]
    BY <1>10 DEF Fires, TypeOK
  <2>. QED  BY <1>10, <2>1, <2>2 DEF Fires, TypeOK
<1>11. ASSUME NEW l \in Lamps, TurnOff(l) PROVE TypeOK'
  <2>1. faults' \in 0 .. MaxFaults
    BY <1>11, BoundTypes DEF TurnOff
  <2>. QED  BY <1>11, <2>1 DEF TurnOff, TypeOK
<1>12. CASE UNCHANGED vars
  BY <1>12 DEF vars, TypeOK
<1>. QED
  BY <1>1, <1>2, <1>3, <1>4, <1>5, <1>6, <1>7, <1>8, <1>9, <1>10, <1>11, <1>12
  DEF Next, Monitor

-----------------------------------------------------------------------------
(* Only the passing of time makes the last activity older, and only the    *)
(* monitor's look arms, fires or clears the ticker.                        *)
LEMMA NextIdleInv ==
  ASSUME EveryPathTimed, IdleInv, [Next]_vars
  PROVE  IdleInv'
<1>t. TypeOK'
  BY NextTypeOK DEF IdleInv
<1>. DEFINE AgesOK == TurningOff /\ UnseenIsYoung /\ ArmedIsYoung
<1>s. SUFFICES AgesOK'
  BY <1>t DEF IdleInv
<1>. USE DEF timeVars, setVars, envVars, TurningOff, UnseenIsYoung, ArmedIsYoung
<1>c. /\ actAge \in 0 .. MaxAge /\ slow \in 0 .. MaxSlow /\ MaxSlow \in Nat
      /\ LongestIdle \in Nat /\ MaxAge \in Nat
  BY WindowFacts, IdleAssumption DEF IdleInv, TypeOK
<1>u. ASSUME UNCHANGED <<actAge, active, fresh, due, slow, fired>>, target' \subseteq target
      PROVE  AgesOK'
  <2>1. LongestIdle' = LongestIdle
    OBVIOUS
  <2>. QED  BY <1>u, <2>1 DEF IdleInv
<1>1. CASE RecordWriteTime /\ UNCHANGED <<fired, target>>
  BY <1>1, <1>c DEF RecordWriteTime, IdleInv
<1>2. CASE TimePasses
  <2>1. actAge' = Older(actAge) /\ Older(actAge) \in 0 .. MaxAge /\ Older(actAge) <= actAge + 1
    BY <1>2, <1>c, OlderFacts DEF TimePasses
  <2>2. CASE target = {} /\ ~due /\ due' = TRUE /\ slow' = 0
    BY <1>2, <1>c, <2>1, <2>2 DEF TimePasses, IdleInv
  <2>3. CASE target # {} /\ slow < MaxSlow /\ slow' = slow + 1 /\ UNCHANGED due
    BY <1>2, <1>c, <2>1, <2>3 DEF TimePasses, IdleInv
  <2>. QED  BY <1>2, <2>2, <2>3 DEF TimePasses
<1>3. CASE SeesActivity
  <2>1. actAge <= MaxSlow + 1
    BY <1>3, <1>c DEF SeesActivity, IdleInv
  <2>. QED  BY <1>3, <1>c, <2>1 DEF SeesActivity, IdleInv
<1>4. CASE KeepsWaiting
  <2>1. ASSUME active, ~fired PROVE actAge <= LongestIdle - 1
    <3>. DEFINE timeout == IdleTimeoutFor(EntertainmentMode, fallback)
    <3>1. timeout \in Nat /\ timeout <= LongestIdle /\ timeout > 0
      BY WindowFacts DEF IdleInv, TypeOK
    <3>2. ~(actAge >= timeout)
      BY <1>4, <2>1, <3>1 DEF KeepsWaiting, IdleShouldFire
    <3>. QED  BY <3>1, <3>2, <1>c
  <2>. QED  BY <1>4, <1>c, <2>1 DEF KeepsWaiting, IdleInv
<1>5. CASE Fires
  BY <1>5, <1>c DEF Fires, IdleInv
<1>6. ASSUME NEW l \in Lamps, TurnOff(l) PROVE AgesOK'
  BY <1>6, <1>u DEF TurnOff
<1>7. CASE UNCHANGED vars
  BY <1>7, <1>u DEF vars
<1>8. ASSUME NEW l \in Lamps, SetLightState(l) \/ Forward(l) PROVE AgesOK'
  BY <1>8, <1>1, <1>u DEF SetLightState, Forward
<1>9. CASE GroupAction \/ StreamFrame \/ SetFallback \/ FlushActivity
  BY <1>9, <1>1, <1>u DEF GroupAction, StreamFrame, SetFallback, FlushActivity
<1>10. ASSUME NEW z \in SUBSET Lamps \ {{}}, SetZone(z) PROVE AgesOK'
  BY <1>10, <1>u DEF SetZone
<1>. QED
  BY <1>2, <1>3, <1>4, <1>5, <1>6, <1>7, <1>8, <1>9, <1>10 DEF Next, Monitor

(* The types of IdleOff hold in every reachable state, in every            *)
(* configuration.                                                          *)
THEOREM IdleTypes == Spec => []TypeOK
<1>1. Init => TypeOK
  BY InitIdleInv DEF IdleInv
<1>. QED  BY <1>1, NextTypeOK, PTL DEF Spec

(* IdleInv is inductive where idle-off is enabled on every path.           *)
THEOREM IdleInvariant == EveryPathTimed => (Spec => []IdleInv)
<1>. SUFFICES ASSUME EveryPathTimed PROVE Spec => []IdleInv
  OBVIOUS
<1>1. IdleInv /\ [Next]_vars => IdleInv'
  BY NextIdleInv
<1>. QED  BY <1>1, InitIdleInv, PTL DEF Spec

(* When the monitor fires, the last activity is still within the window.   *)
LEMMA FiresYoung ==
  ASSUME TurnOffFitsWindow, IdleInv, Fires
  PROVE  actAge <= Window
<1>1. active /\ ~fresh /\ ~fired /\ due
  BY DEF Fires, IdleShouldFire
<1>2. actAge <= MaxSlow + 2 \/ actAge <= LongestIdle - 0
  BY <1>1 DEF IdleInv, ArmedIsYoung
<1>. QED  BY <1>2, WindowFacts, IdleAssumption DEF TurnOffFitsWindow, IdleInv, TypeOK

(* With idle-off enabled on every path and a turn-off that is over within  *)
(* the window, the monitor never fires too late: what was driven no        *)
(* earlier than the last activity is turned off, although nobody may have  *)
(* read the ControlledSet since, and whatever the control path does.       *)
THEOREM FiresInTime ==
  EveryPathTimed /\ TurnOffFitsWindow => (Spec => LastDrivenTargeted)
<1>. SUFFICES ASSUME EveryPathTimed, TurnOffFitsWindow PROVE Spec => LastDrivenTargeted
  OBVIOUS
<1>1. IdleInv /\ [Next]_vars
        => [~fired /\ fired' =>
              {l \in zone : lit[l] = "write" /\ seen[l] <= actAge} \subseteq target']_vars
  <2>. SUFFICES ASSUME IdleInv, Next, ~fired, fired',
                       NEW l \in zone, lit[l] = "write", seen[l] <= actAge
                PROVE  l \in target'
    OBVIOUS
  <2>1. Fires
    BY DEF Next, Monitor, SetLightState, Forward, GroupAction, StreamFrame, SetZone,
       SetFallback, FlushActivity, TimePasses, SeesActivity, Rearmed, KeepsWaiting, TurnOff
  <2>2. actAge <= Window
    BY <2>1, FiresYoung
  <2>3. l \in InWindow
    BY <2>2, WindowFacts DEF InWindow, IdleInv, TypeOK
  <2>4. l \in Current
    BY <2>3 DEF Current
  <2>. QED  BY <2>1, <2>4 DEF Fires
<1>2. Spec => []IdleInv
  BY IdleInvariant
<1>. QED  BY <1>1, <1>2, PTL DEF Spec, LastDrivenTargeted

-----------------------------------------------------------------------------
(* What SilentMeansOff rests on: a lamp lit by a write is about to be      *)
(* turned off, or the monitor is armed for it or will be when it looks.    *)
LitIsWatched ==
  \A l \in Lamps : lit[l] = "write" => l \in target \/ (active /\ (fresh \/ ~fired))

(* Every action leaves such a lamp to the monitor.                         *)
LEMMA NextLitIsWatched ==
  ASSUME TurnOffFitsWindow, IdleInv, LitIsWatched, [Next]_vars
  PROVE  LitIsWatched'
<1>. SUFFICES ASSUME NEW l \in Lamps, lit'[l] = "write"
              PROVE  l \in target' \/ (active' /\ (fresh' \/ ~fired'))
  BY DEF LitIsWatched
<1>. USE DEF timeVars, setVars, envVars
<1>c. lit \in [Lamps -> {"no", "write", "stream", "excused"}]
  BY DEF IdleInv, TypeOK
<1>u. ASSUME lit[l] = "write", target' = target, UNCHANGED <<active, fresh, fired>>
      PROVE  l \in target' \/ (active' /\ (fresh' \/ ~fired'))
  BY <1>u DEF LitIsWatched
<1>1. ASSUME RecordWriteTime
      PROVE  active' /\ fresh'
  BY <1>1 DEF RecordWriteTime
<1>2. ASSUME NEW k \in Lamps, SetLightState(k) \/ Forward(k)
      PROVE  l \in target' \/ (active' /\ (fresh' \/ ~fired'))
  <2>1. CASE SetLightState(k)
    BY <1>1, <2>1 DEF SetLightState
  <2>2. CASE Forward(k)
    <3>1. target' = target /\ UNCHANGED <<active, fresh, fired>>
      BY <2>2 DEF Forward
    <3>2. CASE lit[l] = "write"
      BY <1>u, <3>1, <3>2
    <3>3. CASE lit[l] # "write"
      <4>1. ~((fired /\ ~fresh) \/ ~active)
        BY <1>c, <2>2, <3>3 DEF Forward
      <4>. QED  BY <3>1, <4>1
    <3>. QED  BY <3>2, <3>3
  <2>. QED  BY <1>2, <2>1, <2>2
<1>3. CASE StreamFrame
  BY <1>1, <1>3 DEF StreamFrame
<1>4. CASE GroupAction \/ SetFallback \/ TimePasses \/ KeepsWaiting \/ UNCHANGED vars
  BY <1>u, <1>4 DEF GroupAction, SetFallback, TimePasses, KeepsWaiting, vars
<1>5. ASSUME NEW z \in SUBSET Lamps \ {{}}, SetZone(z)
      PROVE  l \in target' \/ (active' /\ (fresh' \/ ~fired'))
  BY <1>u, <1>5 DEF SetZone
<1>6. CASE FlushActivity
  <2>1. lit[l] = "write"
    BY <1>6 DEF FlushActivity
  <2>. QED  BY <1>u, <1>6, <2>1 DEF FlushActivity
<1>7. CASE SeesActivity
  <2>1. lit[l] = "write" /\ target = {} /\ active' = active /\ fired' = FALSE
    BY <1>7 DEF SeesActivity, Rearmed
  <2>. QED  BY <2>1 DEF LitIsWatched
<1>8. CASE Fires
  <2>1. /\ lit[l] = "write" /\ l \notin LeftLiveWindow /\ l \notin LostUnread /\ l \in zone
        /\ target' = Current \cap zone
    BY <1>8 DEF Fires
  <2>2. actAge <= Window
    BY <1>8, FiresYoung
  <2>3. l \in Current
    BY <2>1, <2>2 DEF LeftLiveWindow, LostUnread, Current
  <2>. QED  BY <2>1, <2>3
<1>9. ASSUME NEW k \in Lamps, TurnOff(k)
      PROVE  l \in target' \/ (active' /\ (fresh' \/ ~fired'))
  <2>1. UNCHANGED <<active, fresh, fired>> /\ target' = target \ {k}
    BY <1>9 DEF TurnOff
  <2>2. l # k /\ lit[l] = "write"
    BY <1>9, <1>c DEF TurnOff
  <2>. QED  BY <2>1, <2>2 DEF LitIsWatched
<1>. QED
  BY <1>2, <1>3, <1>4, <1>5, <1>6, <1>7, <1>8, <1>9 DEF Next, Monitor

(* No lamp the silent TV left on is lost by the ControlledSet:             *)
(* where idle-off is enabled on every path and a turn-off is over within   *)
(* the window, once the monitor has fired and worked through its targets   *)
(* with no activity since, no lamp lit by a write is on, whatever the      *)
(* order of writes, forwards, zone and path changes, reads of the set and  *)
(* turn-offs.  Excepted are the lamps SilentMeansOff excepts; without      *)
(* either condition the set may have collapsed when the monitor fires.     *)
THEOREM NoLampForgotten ==
  EveryPathTimed /\ TurnOffFitsWindow =>
    (Spec => [](fired /\ ~fresh /\ target = {} => \A l \in Lamps : lit[l] # "write"))
<1>. SUFFICES ASSUME EveryPathTimed, TurnOffFitsWindow
              PROVE  Spec => [](fired /\ ~fresh /\ target = {}
                                  => \A l \in Lamps : lit[l] # "write")
  OBVIOUS
<1>1. Init => LitIsWatched
  BY DEF Init, LitIsWatched
<1>2. LitIsWatched =>
        (fired /\ ~fresh /\ target = {} => \A l \in Lamps : lit[l] # "write")
  BY DEF LitIsWatched
<1>3. IdleInv /\ LitIsWatched /\ [Next]_vars => LitIsWatched'
  BY NextLitIsWatched
<1>4. Spec => []IdleInv
  BY IdleInvariant
<1>. QED  BY <1>1, <1>2, <1>3, <1>4, PTL DEF Spec
=============================================================================
