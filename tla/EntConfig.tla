----------------------------- MODULE EntConfig -----------------------------
(***************************************************************************)
(* How the streamer finds, reuses, replaces or creates relume-tv's own     *)
(* entertainment_configuration on the Pro: ensureConfig in                 *)
(* internal/entertainment/streamer.go, over the calls of                   *)
(* internal/bridgepro.  Module ProStreamer takes this as one step; here it *)
(* is one step per call, and a call may fail before or after it took       *)
(* effect.                                                                 *)
(*                                                                         *)
(* Meanwhile lamps come and go, the TV changes its zone, the user deletes  *)
(* or edits a configuration in the Hue app, and the process may restart,   *)
(* which loses the cached id and the zone.  Lamps are numbers, ordered as  *)
(* their UUIDs are; so are configuration ids.                              *)
(***************************************************************************)
EXTENDS Naturals, FiniteSets

CONSTANTS
  Lamps,      \* lamps the Pro may know
  Colour,     \* those with colour
  Serviced,   \* those whose device has an entertainment service
  IDs,        \* ids the Pro gives to relume-tv's configurations
  Foreign,    \* ids of configurations of other applications
  Zones,      \* subsets of v1 ids the TV may request
  NoID,
  All,        \* no subset declared
  MaxFaults,  \* bound on failing calls
  MaxEvents   \* bound on lamp changes, user edits and restarts

ASSUME EntAssumption ==
  /\ Lamps \subseteq Nat /\ IsFiniteSet(Lamps)
  /\ Colour \subseteq Lamps /\ Serviced \subseteq Lamps
  /\ IDs \subseteq Nat /\ Foreign \subseteq Nat /\ IDs \cap Foreign = {}
  /\ NoID \notin IDs \cup Foreign
  /\ MaxFaults \in Nat /\ MaxEvents \in Nat

VARIABLES
  lights,     \* the lamps the Pro has
  configs,    \* its entertainment configurations: id -> lamps covered
  active,     \* the id of the configuration whose stream is active
  requested,  \* the zone the TV declared
  cached,     \* st.cachedConfigID
  persisted,  \* the id in the configuration store
  pc,         \* where the run goroutine is
  desired,    \* the lamps the configuration must cover
  id,         \* the candidate, then the resolved configuration
  kept,       \* history: stale configurations whose deletion failed
  faults, events

vars == <<lights, configs, active, requested, cached, persisted, pc, desired, id, kept,
          faults, events>>
proVars == <<lights, configs, active>>
idVars == <<cached, persisted>>
boundVars == <<faults, events>>

Ours == DOMAIN configs \cap IDs

Init ==
  /\ lights = Lamps
  /\ configs = [f \in Foreign |-> Lamps]
  /\ active = NoID
  /\ requested = All
  /\ cached = NoID /\ persisted = NoID
  /\ pc = "off" /\ desired = {} /\ id = NoID
  /\ kept = 0 /\ faults = 0 /\ events = 0

-----------------------------------------------------------------------------
Fault == faults < MaxFaults /\ faults' = faults + 1
Event == events < MaxEvents /\ events' = events + 1

(* translate.LightsV1: v1 ids number the colour lamps in UUID order.       *)
V1ID(l) == Cardinality({m \in lights \cap Colour : m <= l})

(* The lamps ensureConfig wants: colour lamps with an entertainment        *)
(* service, in the zone the TV declared.                                   *)
Members ==
  {l \in lights \cap Colour \cap Serviced : requested = All \/ V1ID(l) \in requested}

(* Mutant: a configuration with further lamps is taken as well.            *)
CoversAtLeast(c) == desired \subseteq configs[c]

(* configCoversServices: exactly the desired lamps.                        *)
Covers(c) == configs[c] = desired

Least(S) == CHOOSE x \in S : \A y \in S : x <= y

(* Mutant: the first configuration listed is taken.                        *)
FirstListed ==
  IF persisted \in DOMAIN configs THEN persisted
  ELSE IF DOMAIN configs # {} THEN Least(DOMAIN configs) ELSE NoID

(* Mutant: the persisted id is taken whether the Pro lists it or not.      *)
PersistedFirst ==
  IF persisted # NoID THEN persisted
  ELSE IF Ours # {} THEN Least(Ours) ELSE NoID

(* The persisted id if the Pro lists it, else the first configuration that *)
(* carries relume-tv's name.                                               *)
Candidate ==
  IF persisted \in DOMAIN configs THEN persisted
  ELSE IF Ours # {} THEN Least(Ours) ELSE NoID

Goto(l) == pc' = l

(* An error ends the attempt; run backs off and tries again.               *)
Fail == Goto("backoff") /\ id' = NoID

-----------------------------------------------------------------------------
(* The run goroutine.                                                      *)
Start ==
  /\ pc \in {"off", "backoff"}
  /\ Goto("lights")
  /\ UNCHANGED <<proVars, requested, idVars, desired, id, kept, boundVars>>

Stop ==
  /\ pc = "backoff"
  /\ Goto("off")
  /\ UNCHANGED <<proVars, requested, idVars, desired, id, kept, boundVars>>

(* Lights and EntertainmentServices, and the zone of this moment.          *)
ReadLights ==
  /\ pc = "lights"
  /\ \/ /\ Members # {}
        /\ desired' = Members
        /\ Goto(IF cached # NoID THEN "cached" ELSE "list")
        /\ UNCHANGED <<id, faults>>
     \/ Members = {} /\ Fail /\ UNCHANGED <<desired, faults>>
     \/ Fault /\ Fail /\ UNCHANGED desired
  /\ UNCHANGED <<proVars, requested, idVars, kept, events>>

(* The fast path: the id this process resolved earlier.                    *)
ReuseCached ==
  /\ pc = "cached"
  /\ cached \in DOMAIN configs /\ Covers(cached)
  /\ id' = cached
  /\ Goto("resolved")
  /\ UNCHANGED <<proVars, requested, idVars, desired, kept, boundVars>>

DropCached ==
  /\ pc = "cached"
  /\ \/ ~(cached \in DOMAIN configs /\ Covers(cached)) /\ UNCHANGED faults
     \/ Fault
  /\ cached' = NoID
  /\ Goto("list")
  /\ UNCHANGED <<proVars, requested, persisted, desired, id, kept, events>>

(* The slow path: the authoritative list.                                  *)
ListConfigs ==
  /\ pc = "list"
  /\ \/ /\ id' = Candidate
        /\ Goto(IF Candidate = NoID THEN "create" ELSE "validate")
        /\ UNCHANGED faults
     \/ Fault /\ Fail
  /\ UNCHANGED <<proVars, requested, idVars, desired, kept, events>>

Remember(c) == cached' = c /\ persisted' = c

(* Mutant: a candidate that cannot be read is taken for gone.              *)
UnreadableIsGone == Goto("create") /\ id' = NoID

(* A candidate that is listed and cannot be read is a transient error.     *)
Unreadable == Fail

ValidateCandidate ==
  /\ pc = "validate"
  /\ \/ /\ id \in DOMAIN configs /\ Covers(id)
        /\ Remember(id)
        /\ Goto("resolved")
        /\ UNCHANGED <<id, faults>>
     \/ /\ id \in DOMAIN configs /\ ~Covers(id)
        /\ Goto("stop")
        /\ UNCHANGED <<id, idVars, faults>>
     \/ id \notin DOMAIN configs /\ Unreadable /\ UNCHANGED <<idVars, faults>>
     \/ Fault /\ Unreadable /\ UNCHANGED idVars
  /\ UNCHANGED <<proVars, requested, desired, kept, events>>

(* A stale configuration is stopped, whatever the answer, ...              *)
StopStale ==
  /\ pc = "stop"
  /\ \/ active' = (IF active = id THEN NoID ELSE active) /\ UNCHANGED faults
     \/ Fault /\ UNCHANGED active
  /\ Goto("delete")
  /\ UNCHANGED <<lights, configs, requested, idVars, desired, id, kept, events>>

Without(c) == [x \in DOMAIN configs \ {c} |-> configs[x]]

(* ... and deleted.  A failing deletion is only logged; the Pro refuses to *)
(* delete an active one.                                                   *)
DeleteStale ==
  /\ pc = "delete"
  /\ \/ active # id /\ configs' = Without(id) /\ UNCHANGED <<kept, faults>>
     \/ active = id /\ kept' = kept + 1 /\ UNCHANGED <<configs, faults>>
     \/ Fault /\ kept' = kept + 1 /\ UNCHANGED configs
  /\ id' = NoID
  /\ Goto("create")
  /\ UNCHANGED <<lights, active, requested, idVars, desired, events>>

(* A new configuration under an id of the Pro's choice, which is none that *)
(* relume-tv still remembers.  The answer may be lost after the            *)
(* configuration was created.                                              *)
CreateConfig ==
  /\ pc = "create"
  /\ \/ \E c \in IDs \ (DOMAIN configs \cup {cached, persisted}) :
          /\ configs' = [x \in DOMAIN configs \cup {c} |->
                           IF x = c THEN desired \cap lights ELSE configs[x]]
          /\ \/ id' = c /\ Goto("readback") /\ UNCHANGED faults
             \/ Fault /\ Fail
     \/ Fault /\ Fail /\ UNCHANGED configs
  /\ UNCHANGED <<lights, active, requested, idVars, desired, kept, events>>

(* Its channels are read back; only then is its id remembered.             *)
ReadBack ==
  /\ pc = "readback"
  /\ \/ /\ id \in DOMAIN configs /\ configs[id] # {}
        /\ Remember(id)
        /\ Goto("resolved")
        /\ UNCHANGED <<id, faults>>
     \/ ~(id \in DOMAIN configs /\ configs[id] # {}) /\ Fail /\ UNCHANGED <<idVars, faults>>
     \/ Fault /\ Fail /\ UNCHANGED idVars
  /\ UNCHANGED <<proVars, requested, desired, kept, events>>

(* StartStream (with the stop and retry of establish), or its failure.     *)
StartStream ==
  /\ pc = "resolved"
  /\ \/ /\ id \in DOMAIN configs
        /\ active' = id
        /\ Goto("stream")
        /\ UNCHANGED <<id, faults>>
     \/ id \notin DOMAIN configs /\ Fail /\ UNCHANGED <<active, faults>>
     \/ Fault /\ Fail /\ UNCHANGED active
  /\ UNCHANGED <<lights, configs, requested, idVars, desired, kept, events>>

(* The stream ends; the StopStream of teardown may be lost.                *)
StreamEnds ==
  /\ pc = "stream"
  /\ \/ active' = NoID /\ UNCHANGED faults
     \/ Fault /\ UNCHANGED active
  /\ id' = NoID
  /\ \E l \in {"off", "backoff"} : Goto(l)
  /\ UNCHANGED <<lights, configs, requested, idVars, desired, kept, events>>

-----------------------------------------------------------------------------
(* Around it.                                                              *)

(* The TV declares its zone (SetRequestedMembers).                         *)
SetRequestedMembers(z) ==
  /\ z # requested /\ Event
  /\ requested' = z
  /\ UNCHANGED <<proVars, idVars, pc, desired, id, kept, faults>>

(* A lamp is added or removed; a removed lamp leaves every configuration.  *)
LampChanges(l) ==
  /\ Event
  /\ \/ l \notin lights /\ lights' = lights \cup {l} /\ UNCHANGED configs
     \/ /\ l \in lights /\ lights' = lights \ {l}
        /\ configs' = [c \in DOMAIN configs |->
                         IF c \in Foreign THEN configs[c] ELSE configs[c] \ {l}]
  /\ UNCHANGED <<active, requested, idVars, pc, desired, id, kept, faults>>

(* The user deletes a configuration of relume-tv, or adds a lamp to it.    *)
UserEdits(c) ==
  /\ c \in Ours /\ c # active /\ Event
  /\ \/ configs' = Without(c)
     \/ \E l \in lights \cap Colour \cap Serviced : configs' = [configs EXCEPT ![c] = @ \cup {l}]
  /\ UNCHANGED <<lights, active, requested, idVars, pc, desired, id, kept, faults>>

(* The process dies and restarts.  Before the setup is committed the id    *)
(* was never written.                                                      *)
Restart ==
  /\ Event
  /\ cached' = NoID
  /\ persisted' \in {persisted, NoID}
  /\ requested' = All
  /\ Goto("off") /\ id' = NoID
  /\ UNCHANGED <<proVars, desired, kept, faults>>

Ensure ==
  \/ Start \/ ReadLights \/ ReuseCached \/ DropCached \/ ListConfigs
  \/ ValidateCandidate \/ StopStale \/ DeleteStale \/ CreateConfig \/ ReadBack
  \/ StartStream

Next ==
  \/ Ensure \/ Stop \/ StreamEnds
  \/ \E z \in Zones : SetRequestedMembers(z)
  \/ \E l \in Lamps : LampChanges(l)
  \/ \E c \in IDs : UserEdits(c)
  \/ Restart

Spec == Init /\ [][Next]_vars

(* A started run goroutine keeps trying.                                   *)
FairSpec == Spec /\ WF_vars(Ensure)

-----------------------------------------------------------------------------
(* One configuration at a time: the Pro never holds more configurations of *)
(* relume-tv than one, plus one for each stale configuration whose         *)
(* deletion failed, whatever answers are lost and whenever the process     *)
(* restarts (the list is there to prevent duplicate creates).              *)
NoDuplicate == Cardinality(Ours) <= 1 + kept

(* A configuration of another application is never deleted, replaced or    *)
(* streamed to.                                                            *)
ForeignUntouched ==
  /\ \A f \in Foreign : f \in DOMAIN configs /\ configs[f] = Lamps
  /\ active \notin Foreign

(* Once the lamps and the zone stop changing, streams end up on a          *)
(* configuration of exactly the lamps the TV wants, provided the TV keeps  *)
(* reopening its stream: no cached, persisted, edited or left-behind       *)
(* configuration is reused for a light set it does not fit for ever.       *)
Converges ==
  []<>(pc = "off") => <>[](pc = "stream" => configs[id] = Members)

(* An attempt to open a stream gets there: a run goroutine that keeps      *)
(* trying while the Pro has lamps for the zone ends up with a stream on an *)
(* existing configuration, unless the TV gives up.                         *)
Resolves == []<>(pc \in {"stream", "off"} \/ Members = {})
=============================================================================
