--------------------------- MODULE LightProvider ---------------------------
(***************************************************************************)
(* The REST write path of relume-tv: the coalescing light provider         *)
(* (internal/bridge/provider.go), the zone gate of PUT /lights/{id}/state  *)
(* in front of it (internal/clipv1/server.go) and the shutdown that closes *)
(* it and then turns the driven lights off (cmd/relume-tv/main.go).        *)
(*                                                                         *)
(* A light state is abstracted to the number of the write that carried it: *)
(* later writes have larger numbers, 0 stands for "no state".  The lights  *)
(* of the Hue Bridge Pro (external) show the number of the last write that *)
(* reached them, or 0 when they are off or were never driven.              *)
(*                                                                         *)
(* A drain goroutine is a process d with a program counter drain[d]:       *)
(*   off      not running                                                  *)
(*   top      before the lock at the head of the loop                      *)
(*   next     between two forwards of the batch                            *)
(*   fetch    forward waits for the light list (LightsV1)                  *)
(*   check    forward is about to test closed and start the write          *)
(*   write    SetLight is on its way to the Pro                            *)
(*   mark     SetLight succeeded, OnControlled not called yet              *)
(***************************************************************************)
EXTENDS Naturals, FiniteSets

CONSTANTS
  Lights,     \* v1 light ids
  Offered,    \* the ones the Pro lists (UUIDForV1 finds a UUID)
  Drains,     \* identities for drain goroutines
  NoDrain,    \* the nil channel
  MaxWrites   \* bound: writes queued in a behaviour

ASSUME LightsAssumption ==
  /\ Offered \subseteq Lights
  /\ NoDrain \notin Drains
  /\ MaxWrites \in Nat

VARIABLES
  zone,        \* the subset AllowsMember accepts (all until the TV declares one)
  admitted,    \* requests past the zone gate, before SetLightV1
  pending,     \* latest queued state per light, 0 if none
  drained,     \* the drain whose done channel the provider holds
  drain,       \* program counter of each drain
  batch,       \* states a drain took and has not forwarded yet
  cur,         \* the forward in progress in a drain: light and state
  closed,      \* Close has run
  loaded,      \* the v1 -> UUID mapping was built
  pro,         \* what the lights of the Pro show (external)
  controlled,  \* lights the ControlledSet saw within its window
  last,        \* the set it retains for an empty window
  shut,        \* program counter of the shutdown
  waitFor,     \* the drain Close waits for
  fenced,      \* CloseLightWrites reported that no write can still land
  targets,     \* lights the turn-off still has to write
  writes,      \* number of the last queued write
  noops,       \* the writes that StateV1ToV2 translates to nothing
  (* History, written for the properties only. *)
  accepted,    \* the last write queued per light
  settled,     \* the last write per light whose forward ended
  shown,       \* the last write per light that reached the Pro
  lost,        \* lights set by a write whose answer was lost
  underway,    \* lights whose write was at the Pro, or not yet marked, at Close
  missed       \* lights that aged out or that the turn-off did not reach

queueVars == <<pending, drained, drain, batch, cur, closed, loaded>>
proVars == <<pro, shown, lost>>
setVars == <<controlled, last, missed>>
shutVars == <<shut, waitFor, fenced, targets, underway>>
inputVars == <<zone, admitted, writes, noops, accepted>>
vars == <<queueVars, proVars, setVars, shutVars, inputVars, settled>>

Numbers == 0 .. MaxWrites
Empty == [l \in Lights |-> 0]
DrainSteps == {"off", "top", "next", "fetch", "check", "write", "mark"}
ShutSteps == {"serving", "fencing", "turnoff", "done"}

(* A forward in progress always carries a state.                           *)
TypeOK ==
  /\ zone \in SUBSET Lights /\ admitted \in SUBSET Lights
  /\ pending \in [Lights -> Numbers]
  /\ drained \in Drains \cup {NoDrain}
  /\ drain \in [Drains -> DrainSteps]
  /\ batch \in [Drains -> [Lights -> Numbers]]
  /\ cur \in [Drains -> [light : Lights, state : Numbers]]
  /\ closed \in BOOLEAN /\ loaded \in BOOLEAN /\ fenced \in BOOLEAN
  /\ pro \in [Lights -> Numbers]
  /\ controlled \in SUBSET Lights /\ last \in SUBSET Lights
  /\ shut \in ShutSteps
  /\ waitFor \in Drains \cup {NoDrain}
  /\ targets \in SUBSET Lights
  /\ writes \in Numbers
  /\ noops \in SUBSET Numbers
  /\ accepted \in [Lights -> Numbers] /\ settled \in [Lights -> Numbers]
  /\ shown \in [Lights -> Numbers]
  /\ lost \in SUBSET Lights /\ missed \in SUBSET Lights /\ underway \in SUBSET Lights
  /\ \A d \in Drains :
       drain[d] \in {"fetch", "check", "write", "mark"} => cur[d].state # 0

Init ==
  /\ zone = Lights /\ admitted = {}
  /\ pending = Empty
  /\ drained = NoDrain
  /\ drain = [d \in Drains |-> "off"]
  /\ batch = [d \in Drains |-> Empty]
  /\ cur \in [Drains -> [light : Lights, state : {0}]]
  /\ \A d, e \in Drains : cur[d] = cur[e]
  /\ closed = FALSE /\ loaded = FALSE /\ fenced = FALSE
  /\ pro = Empty /\ controlled = {} /\ last = {}
  /\ shut = "serving" /\ waitFor = NoDrain /\ targets = {}
  /\ writes = 0 /\ noops = {}
  /\ accepted = Empty /\ settled = Empty /\ shown = Empty
  /\ lost = {} /\ missed = {} /\ underway = {}

-----------------------------------------------------------------------------
(* The TV's requests.                                                      *)

(* setRequestedMembers: the TV declares a non-empty light subset.          *)
SetRequestedMembers(Z) ==
  /\ Z # {}
  /\ zone' = Z
  /\ UNCHANGED <<queueVars, proVars, setVars, shutVars, admitted, writes,
                 noops, accepted, settled>>

(* handleSetLightState up to the zone gate (a refused write ends there).   *)
AdmitWrite(l) ==
  /\ l \in zone
  /\ admitted' = admitted \cup {l}
  /\ UNCHANGED <<queueVars, proVars, setVars, shutVars, zone, writes, noops,
                 accepted, settled>>

(* Mutant: the write path stays open after Close. *)
AcceptsAlways == TRUE
Accepts == ~closed

(* SetLightV1: the newest state replaces a queued one; a write that finds  *)
(* no drain starts one; a closed provider drops the write.                 *)
SetLightV1(l, noop, d) ==
  /\ l \in admitted
  /\ admitted' = admitted \ {l}
  /\ IF Accepts
     THEN /\ writes < MaxWrites
          /\ writes' = writes + 1
          /\ noops' = IF noop THEN noops \cup {writes + 1} ELSE noops
          /\ pending' = [pending EXCEPT ![l] = writes + 1]
          /\ accepted' = [accepted EXCEPT ![l] = writes + 1]
          /\ IF drained = NoDrain
             THEN /\ drain[d] = "off"
                  /\ drained' = d
                  /\ drain' = [drain EXCEPT ![d] = "top"]
             ELSE d = drained /\ UNCHANGED <<drained, drain>>
     ELSE UNCHANGED <<writes, noops, pending, accepted, drained, drain>>
  /\ UNCHANGED <<batch, cur, closed, loaded, proVars, setVars, shutVars, zone,
                 settled>>

-----------------------------------------------------------------------------
(* The drain goroutines.                                                   *)

Goto(d, step) == drain' = [drain EXCEPT ![d] = step]

(* The forward of a light's state ended, whatever its outcome.             *)
Settle(l, state) == settled' = [settled EXCEPT ![l] = state]

(* Mutant: the drain exits without looking at the queue again. *)
NothingTaken == settled # Empty
QueueEmpty == pending = Empty

DrainExit(d) ==
  /\ drain[d] = "top" /\ QueueEmpty
  /\ Goto(d, "off")
  /\ drained' = NoDrain
  /\ UNCHANGED <<pending, batch, cur, closed, loaded, proVars, setVars,
                 shutVars, inputVars, settled>>

(* Mutant: the drain gives its channel up before it forwarded the batch. *)
ReleasedEarly == NoDrain
StillDraining == drained

TakeBatch(d) ==
  /\ drain[d] = "top" /\ ~QueueEmpty
  /\ batch' = [batch EXCEPT ![d] = pending]
  /\ pending' = Empty
  /\ drained' = StillDraining
  /\ Goto(d, "next")
  /\ UNCHANGED <<cur, closed, loaded, proVars, setVars, shutVars, inputVars,
                 settled>>

BatchDone(d) ==
  /\ drain[d] = "next" /\ batch[d] = Empty
  /\ Goto(d, "top")
  /\ UNCHANGED <<pending, drained, batch, cur, closed, loaded, proVars,
                 setVars, shutVars, inputVars, settled>>

(* UUIDForV1.                                                              *)
Known(l) == loaded /\ l \in Offered

(* Mutant: the drain forwards every light it knows. *)
AnyLight(d, l) == TRUE
InBatch(d, l) == batch[d][l] # 0

(* forward: an empty v2 body is skipped; without a UUID a closed provider  *)
(* drops the write and an open one asks for the light list.                *)
Forward(d, l) ==
  LET state == batch[d][l] IN
  /\ drain[d] = "next" /\ InBatch(d, l)
  /\ cur' = [cur EXCEPT ![d] = [light |-> l, state |-> state]]
  /\ batch' = [batch EXCEPT ![d][l] = 0]
  /\ \/ /\ state \in noops \/ (~Known(l) /\ closed)
        /\ Goto(d, "next")
        /\ Settle(l, state)
     \/ /\ state \notin noops /\ Known(l)
        /\ Goto(d, "check")
        /\ UNCHANGED settled
     \/ /\ state \notin noops /\ ~Known(l) /\ ~closed
        /\ Goto(d, "fetch")
        /\ UNCHANGED settled
  /\ UNCHANGED <<pending, drained, closed, loaded, proVars, setVars, shutVars,
                 inputVars>>

(* LightsV1 returned: there is a list, or the first fetch failed and there *)
(* is none; an id the Pro does not list is an error.                       *)
FetchLights(d, ok) ==
  /\ drain[d] = "fetch"
  /\ ok \/ ~loaded
  /\ loaded' = ok
  /\ IF ok /\ cur[d].light \in Offered
     THEN Goto(d, "check") /\ UNCHANGED settled
     ELSE Goto(d, "next") /\ Settle(cur[d].light, cur[d].state)
  /\ UNCHANGED <<pending, drained, batch, cur, closed, proVars, setVars,
                 shutVars, inputVars>>

(* Mutant: a write that waited for the light list leaves all the same.     *)
NotLookedAgain == FALSE

(* closed is tested again before the write leaves.                         *)
ClosedMeanwhile == closed

StartWrite(d) ==
  /\ drain[d] = "check"
  /\ IF ClosedMeanwhile
     THEN Goto(d, "next") /\ Settle(cur[d].light, cur[d].state)
     ELSE Goto(d, "write") /\ UNCHANGED settled
  /\ UNCHANGED <<pending, drained, batch, cur, closed, loaded, proVars,
                 setVars, shutVars, inputVars>>

(* client.SetLight (external): the Pro shows the state.                    *)
Applies(d) ==
  /\ pro' = [pro EXCEPT ![cur[d].light] = cur[d].state]
  /\ shown' = [shown EXCEPT ![cur[d].light] = cur[d].state]

WriteLands(d) ==
  /\ drain[d] = "write"
  /\ Applies(d)
  /\ Goto(d, "mark")
  /\ UNCHANGED <<pending, drained, batch, cur, closed, loaded, lost, setVars,
                 shutVars, inputVars, settled>>

(* It fails: the Pro refused the state, or applied it and the answer got   *)
(* lost.  Either way the light is not marked as controlled.                *)
WriteFails(d, applied) ==
  /\ drain[d] = "write"
  /\ Goto(d, "next")
  /\ Settle(cur[d].light, cur[d].state)
  /\ IF applied
     THEN Applies(d) /\ lost' = lost \cup {cur[d].light}
     ELSE UNCHANGED <<pro, shown, lost>>
  /\ UNCHANGED <<pending, drained, batch, cur, closed, loaded, setVars,
                 shutVars, inputVars>>

Marked(d) == controlled \cup {cur[d].light}

(* OnControlled, ControlledSet.Seen.                                       *)
MarkControlled(d) ==
  /\ drain[d] = "mark"
  /\ controlled' = Marked(d)
  /\ missed' = missed \ {cur[d].light}
  /\ Goto(d, "next")
  /\ Settle(cur[d].light, cur[d].state)
  /\ UNCHANGED <<pending, drained, batch, cur, closed, loaded, proVars, last,
                 shutVars, inputVars>>

-----------------------------------------------------------------------------
(* ControlledSet.Current: the lights within the window, or the last        *)
(* non-empty set it reported.                                              *)
Current == IF controlled # {} THEN controlled ELSE last

(* A light was not driven for a whole window.                              *)
AgesOut(l) ==
  /\ l \in controlled
  /\ controlled' = controlled \ {l}
  /\ missed' = missed \cup {l}
  /\ UNCHANGED <<queueVars, proVars, last, shutVars, inputVars, settled>>

(* The activity summary asks for the current set.                          *)
ReadControlled ==
  /\ last # Current
  /\ last' = Current
  /\ UNCHANGED <<queueVars, proVars, controlled, missed, shutVars, inputVars,
                 settled>>

-----------------------------------------------------------------------------
(* Shutdown.                                                               *)

(* CloseLightWrites and Close: refuse new writes, drop the queued ones and *)
(* remember the drain to wait for.                                         *)
CloseLightWrites ==
  /\ shut = "serving"
  /\ shut' = "fencing"
  /\ closed' = TRUE
  /\ pending' = Empty
  /\ waitFor' = drained
  /\ underway' = {cur[d].light : d \in {e \in Drains : drain[e] \in {"write", "mark"}}}
  /\ UNCHANGED <<drained, drain, batch, cur, loaded, proVars, setVars, fenced,
                 targets, inputVars, settled>>

(* The fence waits for the drain that was running when Close came. *)
WriteDone == \A d \in Drains : waitFor = d => drain[d] = "off"

(* The turn-off targets: Current, then inZoneUUIDs.                        *)
BeginTurnOff ==
  /\ shut' = "turnoff"
  /\ targets' = Current \cap zone
  /\ last' = Current
  /\ missed' = missed \cup (Current \ zone)

(* The drain ended within the budget.                                      *)
FenceHeld ==
  /\ shut = "fencing" /\ WriteDone
  /\ fenced' = TRUE
  /\ BeginTurnOff
  /\ UNCHANGED <<queueVars, proVars, controlled, waitFor, underway, inputVars, settled>>

(* It did not, and still has not when the shutdown asks again.             *)
FenceTimeout ==
  /\ shut = "fencing" /\ ~WriteDone
  /\ BeginTurnOff
  /\ UNCHANGED <<queueVars, proVars, controlled, waitFor, fenced, underway, inputVars,
                 settled>>

(* TurnOffControlled: one write per light; a failure is only logged.       *)
TurnOff(l) ==
  /\ shut = "turnoff" /\ l \in targets
  /\ targets' = targets \ {l}
  /\ pro' = [pro EXCEPT ![l] = 0]
  /\ UNCHANGED <<queueVars, shown, lost, setVars, shut, waitFor, fenced, underway,
                 inputVars, settled>>

TurnOffFails(l) ==
  /\ shut = "turnoff" /\ l \in targets
  /\ targets' = targets \ {l}
  /\ missed' = missed \cup {l}
  /\ UNCHANGED <<queueVars, proVars, controlled, last, shut, waitFor, fenced, underway,
                 inputVars, settled>>

(* turnOffBounded returns: all lights written, or the budget is over.      *)
ShutdownEnds ==
  /\ shut = "turnoff"
  /\ shut' = "done"
  /\ targets' = {}
  /\ missed' = missed \cup targets
  /\ UNCHANGED <<queueVars, proVars, controlled, last, waitFor, fenced, underway,
                 inputVars, settled>>

-----------------------------------------------------------------------------
DrainStep(d) ==
  \/ DrainExit(d) \/ TakeBatch(d) \/ BatchDone(d)
  \/ (\E l \in Lights : Forward(d, l))
  \/ (\E ok \in BOOLEAN : FetchLights(d, ok))
  \/ StartWrite(d) \/ WriteLands(d)
  \/ (\E applied \in BOOLEAN : WriteFails(d, applied))
  \/ MarkControlled(d)

ShutdownStep ==
  \/ FenceHeld \/ FenceTimeout \/ ShutdownEnds
  \/ (\E l \in Lights : TurnOff(l) \/ TurnOffFails(l))

Next ==
  \/ (\E Z \in SUBSET Lights : SetRequestedMembers(Z))
  \/ (\E l \in Lights : AdmitWrite(l))
  \/ (\E l \in Lights, noop \in BOOLEAN, d \in Drains : SetLightV1(l, noop, d))
  \/ (\E d \in Drains : DrainStep(d))
  \/ (\E l \in Lights : AgesOut(l))
  \/ ReadControlled
  \/ CloseLightWrites
  \/ ShutdownStep

(***************************************************************************)
(* A started goroutine runs, and every call to the Pro ends: its HTTP      *)
(* client has a timeout.  What the TV sends and when the process is told   *)
(* to stop are not assumed.                                                *)
(***************************************************************************)
Fairness ==
  /\ \A d \in Drains : WF_vars(DrainStep(d))
  /\ WF_vars(ShutdownStep)

Spec == Init /\ [][Next]_vars

FairSpec == Spec /\ Fairness

-----------------------------------------------------------------------------
(* Properties.                                                             *)

(* SetLightV1 and drain agree on who runs: at most one drain goroutine     *)
(* exists, and the provider holds the done channel of exactly that one, so *)
(* no write ever bypasses the one that is in flight.                       *)
OneDrain == \A d \in Drains : drain[d] # "off" <=> drained = d

(* No stale state overtakes a newer one: the writes of a light reach the   *)
(* Pro in the order in which the TV sent them.                             *)
NoStaleOverwrite == [][\A l \in Lights : shown'[l] >= shown[l]]_vars

(* Close's answer is final: once CloseLightWrites reported that no write   *)
(* can land any more, no drain runs, and none starts later.                *)
FenceIsFinal == fenced => \A d \in Drains : drain[d] = "off"

(* "The async drain cannot switch a light back on behind the turn-off":    *)
(* after a shutdown every light the TV drove over REST is off, but for the *)
(* ones that aged out of the window or lie outside the zone, whose off     *)
(* write failed, or whose write was applied and its answer lost.  If the   *)
(* fence timed out, the drain can do so only to the light it was writing   *)
(* when the writes were closed, never to another one of its batch, however *)
(* long it had waited for the light list.                                  *)
DrivenLightsEndOff ==
  shut = "done" =>
    \A l \in Lights :
      pro[l] # 0 => l \in lost \cup missed \/ (~fenced /\ l \in underway)

(* No acknowledged write is forgotten: unless the provider is closed, each *)
(* queued write, or a newer one of its light, is forwarded in the end (no  *)
(* lost wake-up between the drain's last look at the queue and its exit).  *)
WritesSettle ==
  \A l \in Lights, n \in Numbers :
    accepted[l] = n /\ n # 0 ~> settled[l] >= n \/ closed

-----------------------------------------------------------------------------
(* The inductive invariant behind the safety properties.                   *)

InFlight(d) == drain[d] \in {"fetch", "check", "write"}

(* A drain takes its batch only after it forwarded the one before.         *)
IdleHoldsNothing ==
  \A d \in Drains : drain[d] \in {"off", "top"} => batch[d] = Empty

(* The states of a light are, from old to new: the one shown, the one on   *)
(* its way, the one taken by the drain, the one queued; a light on its way *)
(* is no longer in the batch.                                              *)
WritesOrdered ==
  \A l \in Lights :
    /\ shown[l] <= writes /\ pending[l] <= writes
    /\ pending[l] # 0 => shown[l] <= pending[l]
    /\ \A d \in Drains :
         /\ batch[d][l] <= writes
         /\ batch[d][l] # 0 => /\ shown[l] <= batch[d][l]
                               /\ pending[l] # 0 => batch[d][l] <= pending[l]
         /\ InFlight(d) /\ cur[d].light = l =>
              /\ batch[d][l] = 0
              /\ cur[d].state <= writes
              /\ shown[l] <= cur[d].state
              /\ pending[l] # 0 => cur[d].state <= pending[l]

(* Close remembers the only drain there can be from then on.               *)
FenceState ==
  /\ closed <=> shut # "serving"
  /\ shut = "fencing" => \A d \in Drains : drain[d] # "off" => waitFor = d
  /\ fenced => shut \in {"turnoff", "done"}

(* Whatever is on was recorded as driven or is about to be, or is one of   *)
(* the exceptions of DrivenLightsEndOff.  From Close on only what was      *)
(* under way is written or marked, so once the targets are read the rest   *)
(* is frozen, and the turn-off works its targets off.                      *)
DrivenAccounted ==
  /\ \A l \in Lights :
       pro[l] # 0 => \/ l \in lost \cup missed \cup controlled
                     \/ \E d \in Drains : drain[d] = "mark" /\ cur[d].light = l
  /\ closed => \A d \in Drains : drain[d] \in {"write", "mark"} => cur[d].light \in underway
  /\ shut \in {"turnoff", "done"} =>
       \A l \in Lights :
         pro[l] # 0 => l \in lost \cup missed \cup targets \/ (~fenced /\ l \in underway)
  /\ shut = "done" => targets = {}

ProviderInv ==
  /\ TypeOK
  /\ OneDrain
  /\ IdleHoldsNothing
  /\ WritesOrdered
  /\ FenceState
  /\ FenceIsFinal
  /\ DrivenAccounted
=============================================================================
