-------------------------- MODULE EntConfigProofs --------------------------
(***************************************************************************)
(* ensureConfig for any lamps, zones, configuration ids, faults, edits and *)
(* restarts: it never multiplies relume-tv's configurations, and never     *)
(* touches another application's.                                          *)
(***************************************************************************)
EXTENDS EntConfig, FiniteSetTheorems, WellFoundedInduction, TLAPS

-----------------------------------------------------------------------------
(* The inductive invariant.                                                *)

(* The configurations are those of other applications and finitely many of *)
(* relume-tv's.                                                            *)
ConfigTypes ==
  /\ configs = [c \in DOMAIN configs |-> configs[c]]
  /\ DOMAIN configs \subseteq IDs \cup Foreign
  /\ IsFiniteSet(Ours)
  /\ kept \in Nat

(* Every id relume-tv remembers, works on or streams to is one of its own. *)
OwnIDs ==
  /\ cached \in IDs \cup {NoID} /\ persisted \in IDs \cup {NoID}
  /\ id \in IDs \cup {NoID} /\ active \in IDs \cup {NoID}
  /\ pc \in {"validate", "stop", "delete"} => id \in IDs

ForeignKept == \A f \in Foreign : f \in DOMAIN configs /\ configs[f] = Lamps

(* A run about to create has no configuration left but those it could not  *)
(* delete; so has one whose candidate disappears under its hands.          *)
CreateOnlyOne ==
  (\/ pc = "create"
   \/ pc \in {"validate", "stop", "delete"} /\ id \notin DOMAIN configs)
    => Cardinality(Ours) <= kept

ConfigInv ==
  /\ ConfigTypes /\ OwnIDs /\ ForeignKept
  /\ NoDuplicate /\ CreateOnlyOne
-----------------------------------------------------------------------------
(* Lemmas on the operators.                                                *)

(* The list has a first configuration of relume-tv if it has any.          *)
LEMMA LeastOfOurs ==
  ASSUME Ours # {}
  PROVE  Least(Ours) \in Ours
<1>1. Ours \subseteq Nat
  BY EntAssumption DEF Ours
<1>2. PICK x \in Ours : \A y \in Ours : <<y, x>> \notin OpToRel(<, Nat)
  BY <1>1, WFMin, NatLessThanWellFounded, Zenon
<1>3. \A y \in Ours : <<y, x>> \in Nat \X Nat
  BY <1>1
<1>4. \A y \in Ours : ~(y < x)
  BY <1>2, <1>3 DEF OpToRel
<1>5. \A y \in Ours : x <= y
  BY <1>1, <1>4
<1> QED BY <1>5 DEF Least

(* The candidate is relume-tv's and listed; there is none only if the Pro  *)
(* lists no configuration of relume-tv.                                    *)
LEMMA CandidateIsOurs ==
  ASSUME ConfigTypes, OwnIDs
  PROVE  \/ Candidate = NoID /\ Ours = {}
         \/ Candidate # NoID /\ Candidate \in Ours
<1>1. CASE persisted \in DOMAIN configs
  BY <1>1, EntAssumption DEF Candidate, Ours, OwnIDs, ConfigTypes
<1>2. CASE persisted \notin DOMAIN configs /\ Ours # {}
  <2>1. Candidate = Least(Ours)
    BY <1>2 DEF Candidate
  <2>2. Candidate \in Ours
    BY <1>2, <2>1, LeastOfOurs
  <2> QED BY <2>2, EntAssumption DEF Ours
<1>3. CASE persisted \notin DOMAIN configs /\ Ours = {}
  BY <1>3 DEF Candidate
<1> QED BY <1>1, <1>2, <1>3

(* A deletion takes away one configuration of relume-tv, if it is there,   *)
(* and nothing else.                                                       *)
LEMMA WithoutEffect ==
  ASSUME ConfigTypes, ForeignKept, NEW c \in IDs, configs' = Without(c)
  PROVE  /\ configs' = [x \in DOMAIN configs' |-> configs'[x]]
         /\ DOMAIN configs' = DOMAIN configs \ {c}
         /\ IsFiniteSet(Ours')
         /\ Cardinality(Ours') \in Nat /\ Cardinality(Ours) \in Nat
         /\ Cardinality(Ours') <= Cardinality(Ours)
         /\ c \in DOMAIN configs => Cardinality(Ours') + 1 = Cardinality(Ours)
         /\ ForeignKept'
<1>1. DOMAIN configs' = DOMAIN configs \ {c}
      /\ configs' = [x \in DOMAIN configs' |-> configs'[x]]
  BY DEF Without
<1>2. Ours' = Ours \ {c}
  BY <1>1 DEF Ours
<1>3. IsFiniteSet(Ours)
  BY DEF ConfigTypes
<1>4. /\ IsFiniteSet(Ours')
      /\ Cardinality(Ours') = IF c \in Ours THEN Cardinality(Ours) - 1 ELSE Cardinality(Ours)
  BY <1>2, <1>3, FS_RemoveElement
<1>5. Cardinality(Ours') \in Nat /\ Cardinality(Ours) \in Nat
  BY <1>3, <1>4, FS_CardinalityType
<1>6. c \in DOMAIN configs => c \in Ours
  BY DEF Ours
<1>7. ForeignKept'
  BY <1>1, EntAssumption DEF ForeignKept, Without
<1>8. /\ Cardinality(Ours') <= Cardinality(Ours)
      /\ c \in DOMAIN configs => Cardinality(Ours') + 1 = Cardinality(Ours)
  BY <1>4, <1>5, <1>6
<1> QED BY <1>1, <1>4, <1>5, <1>7, <1>8

(* A creation adds one configuration of relume-tv.                         *)
LEMMA CreateEffect ==
  ASSUME ConfigTypes, ForeignKept, NEW c \in IDs \ DOMAIN configs,
         configs' = [x \in DOMAIN configs \cup {c} |->
                       IF x = c THEN desired \cap lights ELSE configs[x]]
  PROVE  /\ configs' = [x \in DOMAIN configs' |-> configs'[x]]
         /\ DOMAIN configs' = DOMAIN configs \cup {c}
         /\ IsFiniteSet(Ours')
         /\ Cardinality(Ours) \in Nat
         /\ Cardinality(Ours') = Cardinality(Ours) + 1
         /\ ForeignKept'
<1>1. DOMAIN configs' = DOMAIN configs \cup {c}
      /\ configs' = [x \in DOMAIN configs' |-> configs'[x]]
  OBVIOUS
<1>2. Ours' = Ours \cup {c} /\ c \notin Ours
  BY <1>1 DEF Ours
<1>3. IsFiniteSet(Ours)
  BY DEF ConfigTypes
<1>4. IsFiniteSet(Ours') /\ Cardinality(Ours') = Cardinality(Ours) + 1
  BY <1>2, <1>3, FS_AddElement
<1>5. Cardinality(Ours) \in Nat
  BY <1>3, FS_CardinalityType
<1>6. ForeignKept'
  BY <1>1, EntAssumption DEF ForeignKept
<1> QED BY <1>1, <1>4, <1>5, <1>6

-----------------------------------------------------------------------------
(* The invariant.                                                          *)

(* It holds of a new process.                                              *)
LEMMA InitConfigInv == Init => ConfigInv
<1> SUFFICES ASSUME Init PROVE ConfigInv
  OBVIOUS
<1>1. DOMAIN configs = Foreign /\ configs = [f \in Foreign |-> Lamps]
  BY DEF Init
<1>2. Ours = {}
  BY <1>1, EntAssumption DEF Ours
<1>3. IsFiniteSet(Ours) /\ Cardinality(Ours) = 0
  BY <1>2, FS_EmptySet
<1>4. ConfigTypes
  BY <1>1, <1>3 DEF ConfigTypes, Init
<1>5. OwnIDs /\ ForeignKept
  BY <1>1 DEF OwnIDs, ForeignKept, Init
<1>6. NoDuplicate /\ CreateOnlyOne
  BY <1>3 DEF NoDuplicate, CreateOnlyOne, Init
<1> QED BY <1>4, <1>5, <1>6 DEF ConfigInv

(* A step that leaves the set of configurations and those of other         *)
(* applications alone need only place the run goroutine well.              *)
LEMMA SameConfigs ==
  ASSUME ConfigInv, DOMAIN configs' = DOMAIN configs,
         configs' = [x \in DOMAIN configs' |-> configs'[x]],
         \A f \in Foreign : configs'[f] = configs[f],
         kept' = kept, OwnIDs',
         \/ pc' \notin {"create", "validate", "stop", "delete"}
         \/ pc' = "create" /\ Ours = {}
         \/ pc' \in {"validate", "stop", "delete"} /\ id' \in DOMAIN configs
         \/ /\ pc' \in {"validate", "stop", "delete"}
            /\ pc \in {"validate", "stop", "delete"} /\ id' = id
         \/ pc' = "create" /\ pc = "create"
  PROVE  ConfigInv'
<1>1. Ours' = Ours
  BY DEF Ours
<1>2. IsFiniteSet(Ours) /\ kept \in Nat
  BY DEF ConfigInv, ConfigTypes
<1>3. Cardinality(Ours) \in Nat
  BY <1>2, FS_CardinalityType
<1>4. ConfigTypes' /\ ForeignKept'
  BY <1>1 DEF ConfigInv, ConfigTypes, ForeignKept
<1>5. NoDuplicate'
  BY <1>1 DEF ConfigInv, NoDuplicate
<1>6. Ours = {} => Cardinality(Ours) <= kept
  BY <1>2, FS_EmptySet
<1>7. CreateOnlyOne'
  BY <1>1, <1>6 DEF ConfigInv, CreateOnlyOne
<1> QED BY <1>4, <1>5, <1>7 DEF ConfigInv

(* Every step keeps it.                                                    *)
LEMMA StepConfigInv == ConfigInv /\ [Next]_vars => ConfigInv'
<1> SUFFICES ASSUME ConfigInv, [Next]_vars PROVE ConfigInv'
  OBVIOUS
<1> USE EntAssumption DEF proVars, idVars, boundVars, Goto, Fail
<1>0. ConfigTypes /\ OwnIDs /\ ForeignKept /\ NoDuplicate /\ CreateOnlyOne
  BY DEF ConfigInv
<1>t. configs = [c \in DOMAIN configs |-> configs[c]]
  BY <1>0 DEF ConfigTypes
<1>1. CASE Start \/ Stop \/ ReadLights \/ DropCached
  <2>1. UNCHANGED <<configs, kept>> /\ OwnIDs'
        /\ pc' \notin {"create", "validate", "stop", "delete"}
    BY <1>0, <1>1 DEF Start, Stop, ReadLights, DropCached, OwnIDs
  <2> QED BY <1>t, <2>1, SameConfigs
<1>2. CASE ReuseCached
  <2>1. UNCHANGED <<configs, kept>> /\ OwnIDs' /\ pc' = "resolved"
    BY <1>0, <1>2 DEF ReuseCached, OwnIDs
  <2> QED BY <1>t, <2>1, SameConfigs
<1>3. CASE ListConfigs
  <2>1. UNCHANGED <<configs, kept, cached, persisted, active>>
    BY <1>3 DEF ListConfigs
  <2>2. \/ pc' = "create" /\ Ours = {} /\ id' = NoID
        \/ pc' = "validate" /\ id' \in Ours
        \/ pc' = "backoff" /\ id' = NoID
    BY <1>0, <1>3, CandidateIsOurs DEF ListConfigs
  <2>3. OwnIDs'
    BY <1>0, <2>1, <2>2 DEF OwnIDs, Ours
  <2> QED BY <1>t, <2>1, <2>2, <2>3, SameConfigs DEF Ours
<1>4. CASE ValidateCandidate
  <2>1. UNCHANGED <<configs, kept>> /\ OwnIDs'
    BY <1>0, <1>4 DEF ValidateCandidate, OwnIDs, Remember, Unreadable
  <2>2. \/ pc' \in {"resolved", "backoff"}
        \/ pc' = "stop" /\ pc = "validate" /\ id' = id
    BY <1>4 DEF ValidateCandidate, Unreadable
  <2> QED BY <1>t, <2>1, <2>2, SameConfigs
<1>5. CASE StopStale
  <2>1. UNCHANGED <<configs, kept>> /\ OwnIDs' /\ id' = id
        /\ pc' = "delete" /\ pc = "stop"
    BY <1>0, <1>5 DEF StopStale, OwnIDs
  <2> QED BY <1>t, <2>1, SameConfigs
<1>6. CASE DeleteStale
  <2>1. /\ OwnIDs' /\ pc' = "create"
        /\ id \in IDs /\ pc = "delete"
    BY <1>0, <1>6 DEF DeleteStale, OwnIDs
  <2>2. kept \in Nat /\ IsFiniteSet(Ours)
    BY <1>0 DEF ConfigTypes
  <2>3. Cardinality(Ours) \in Nat
    BY <2>2, FS_CardinalityType
  <2>4. CASE configs' = Without(id) /\ kept' = kept
    <3>1. /\ configs' = [x \in DOMAIN configs' |-> configs'[x]]
          /\ DOMAIN configs' = DOMAIN configs \ {id}
          /\ IsFiniteSet(Ours')
          /\ Cardinality(Ours') \in Nat
          /\ Cardinality(Ours') <= Cardinality(Ours)
          /\ id \in DOMAIN configs => Cardinality(Ours') + 1 = Cardinality(Ours)
          /\ ForeignKept'
      BY <1>0, <2>1, <2>4, WithoutEffect
    <3>2. Cardinality(Ours) <= 1 + kept
      BY <1>0 DEF NoDuplicate
    <3>3. id \notin DOMAIN configs => Cardinality(Ours) <= kept
      BY <1>0, <2>1 DEF CreateOnlyOne
    <3>4. Cardinality(Ours') <= kept
      BY <2>2, <2>3, <3>1, <3>2, <3>3
    <3>5. ConfigTypes'
      BY <1>0, <2>4, <3>1 DEF ConfigTypes
    <3>6. NoDuplicate' /\ CreateOnlyOne'
      BY <2>2, <2>4, <3>1, <3>4 DEF NoDuplicate, CreateOnlyOne
    <3> QED BY <2>1, <3>1, <3>5, <3>6 DEF ConfigInv
  <2>5. CASE configs' = configs /\ kept' = kept + 1
    <3>1. Ours' = Ours
      BY <2>5 DEF Ours
    <3>2. ConfigTypes' /\ ForeignKept'
      BY <1>0, <2>2, <2>5, <3>1 DEF ConfigTypes, ForeignKept
    <3>3. Cardinality(Ours') <= kept'
      BY <1>0, <2>2, <2>3, <2>5, <3>1 DEF NoDuplicate
    <3>4. NoDuplicate' /\ CreateOnlyOne'
      BY <2>2, <2>3, <2>5, <3>1, <3>3 DEF NoDuplicate, CreateOnlyOne
    <3> QED BY <2>1, <3>2, <3>4 DEF ConfigInv
  <2> QED BY <1>6, <2>4, <2>5 DEF DeleteStale
<1>7. CASE CreateConfig
  <2>1. CASE Fail /\ configs' = configs
    <3>1. UNCHANGED kept /\ OwnIDs' /\ pc' = "backoff"
      BY <1>0, <1>7, <2>1 DEF CreateConfig, OwnIDs
    <3> QED BY <1>t, <2>1, <3>1, SameConfigs
  <2>2. CASE ~(Fail /\ configs' = configs)
    <3>1. PICK c \in IDs \ (DOMAIN configs \cup {cached, persisted}) :
            /\ configs' = [x \in DOMAIN configs \cup {c} |->
                             IF x = c THEN desired \cap lights ELSE configs[x]]
            /\ \/ id' = c /\ pc' = "readback"
               \/ id' = NoID /\ pc' = "backoff"
      BY <1>7, <2>2 DEF CreateConfig
    <3>2. /\ configs' = [x \in DOMAIN configs' |-> configs'[x]]
          /\ DOMAIN configs' = DOMAIN configs \cup {c}
          /\ IsFiniteSet(Ours')
          /\ Cardinality(Ours) \in Nat
          /\ Cardinality(Ours') = Cardinality(Ours) + 1
          /\ ForeignKept'
      BY <1>0, <3>1, CreateEffect
    <3>3. pc = "create" /\ UNCHANGED <<kept, active, cached, persisted>>
      BY <1>7 DEF CreateConfig
    <3>4. OwnIDs'
      BY <1>0, <3>1, <3>3 DEF OwnIDs
    <3>5. ConfigTypes'
      BY <1>0, <3>1, <3>2, <3>3 DEF ConfigTypes
    <3>6. Cardinality(Ours) <= kept /\ kept \in Nat
      BY <1>0, <3>3 DEF CreateOnlyOne, ConfigTypes
    <3>7. NoDuplicate' /\ CreateOnlyOne'
      BY <3>1, <3>2, <3>3, <3>6 DEF NoDuplicate, CreateOnlyOne
    <3> QED BY <3>2, <3>4, <3>5, <3>7 DEF ConfigInv
  <2> QED BY <2>1, <2>2
<1>8. CASE ReadBack \/ StartStream \/ StreamEnds
  <2>1. UNCHANGED <<configs, kept>> /\ OwnIDs'
        /\ pc' \notin {"create", "validate", "stop", "delete"}
    <3>1. CASE ReadBack
      BY <1>0, <3>1 DEF ReadBack, Remember, OwnIDs
    <3>2. CASE StartStream
      BY <1>0, <3>2 DEF StartStream, OwnIDs
    <3>3. CASE StreamEnds
      BY <1>0, <3>3 DEF StreamEnds, OwnIDs
    <3> QED BY <1>8, <3>1, <3>2, <3>3
  <2> QED BY <1>t, <2>1, SameConfigs
<1>9. CASE \E z \in Zones : SetRequestedMembers(z)
  <2>1. UNCHANGED <<configs, kept, pc, id>> /\ OwnIDs'
    BY <1>0, <1>9 DEF SetRequestedMembers, OwnIDs
  <2> QED BY <1>t, <2>1, SameConfigs
<1>10. CASE \E l \in Lamps : LampChanges(l)
  <2>1. UNCHANGED <<kept, pc, id>> /\ OwnIDs'
    BY <1>0, <1>10 DEF LampChanges, OwnIDs
  <2>2. /\ DOMAIN configs' = DOMAIN configs
        /\ configs' = [x \in DOMAIN configs' |-> configs'[x]]
        /\ \A f \in Foreign : configs'[f] = configs[f]
    BY <1>0, <1>t, <1>10 DEF LampChanges, ForeignKept
  <2> QED BY <2>1, <2>2, SameConfigs
<1>11. CASE \E c \in IDs : UserEdits(c)
  <2>1. PICK c \in IDs : UserEdits(c)
    BY <1>11
  <2>2. UNCHANGED <<kept, pc, id>> /\ OwnIDs'
    BY <1>0, <2>1 DEF UserEdits, OwnIDs
  <2>3. CASE configs' = Without(c)
    <3>1. c \in DOMAIN configs
      BY <2>1 DEF UserEdits, Ours
    <3>2. /\ configs' = [x \in DOMAIN configs' |-> configs'[x]]
          /\ DOMAIN configs' = DOMAIN configs \ {c}
          /\ IsFiniteSet(Ours')
          /\ Cardinality(Ours') \in Nat /\ Cardinality(Ours) \in Nat
          /\ Cardinality(Ours') + 1 = Cardinality(Ours)
          /\ ForeignKept'
      BY <1>0, <2>3, <3>1, WithoutEffect
    <3>3. kept \in Nat /\ Cardinality(Ours) <= 1 + kept
      BY <1>0 DEF ConfigTypes, NoDuplicate
    <3>4. Cardinality(Ours') <= kept
      BY <3>2, <3>3
    <3>5. ConfigTypes'
      BY <1>0, <2>2, <3>2 DEF ConfigTypes
    <3>6. NoDuplicate' /\ CreateOnlyOne'
      BY <2>2, <3>2, <3>3, <3>4 DEF NoDuplicate, CreateOnlyOne
    <3> QED BY <2>2, <3>2, <3>5, <3>6 DEF ConfigInv
  <2>4. CASE \E l \in lights \cap Colour \cap Serviced :
               configs' = [configs EXCEPT ![c] = @ \cup {l}]
    <3>1. /\ DOMAIN configs' = DOMAIN configs
          /\ configs' = [x \in DOMAIN configs' |-> configs'[x]]
          /\ \A f \in Foreign : configs'[f] = configs[f]
      BY <1>0, <1>t, <2>4 DEF ForeignKept
    <3> QED BY <2>2, <3>1, SameConfigs
  <2> QED BY <2>1, <2>3, <2>4 DEF UserEdits
<1>12. CASE Restart
  <2>1. UNCHANGED <<configs, kept>> /\ OwnIDs' /\ pc' = "off"
    BY <1>0, <1>12 DEF Restart, OwnIDs
  <2> QED BY <1>t, <2>1, SameConfigs
<1>13. CASE UNCHANGED vars
  <2>1. UNCHANGED <<configs, kept, pc, id>> /\ OwnIDs'
    BY <1>0, <1>13 DEF vars, OwnIDs
  <2> QED BY <1>t, <2>1, SameConfigs
<1> QED
  BY <1>1, <1>2, <1>3, <1>4, <1>5, <1>6, <1>7, <1>8, <1>9, <1>10, <1>11, <1>12,
     <1>13 DEF Next, Ensure

(* The inductive invariant holds.                                          *)
THEOREM ConfigInvariant == Spec => []ConfigInv
BY InitConfigInv, StepConfigInv, PTL DEF Spec

(* For any number of lost answers, edits in the Hue app and restarts,      *)
(* ensureConfig leaves at most one configuration of relume-tv on the Pro   *)
(* besides those whose deletion failed.                                    *)
THEOREM NeverDuplicates == Spec => []NoDuplicate
<1>1. ConfigInv => NoDuplicate
  BY DEF ConfigInv
<1> QED BY <1>1, ConfigInvariant, PTL

(* ensureConfig and the stream never delete, replace or stream to a        *)
(* configuration of another application.                                   *)
THEOREM ForeignNeverTouched == Spec => []ForeignUntouched
<1>1. ConfigInv => ForeignUntouched
  BY EntAssumption DEF ConfigInv, ForeignKept, OwnIDs, ForeignUntouched
<1> QED BY <1>1, ConfigInvariant, PTL
=============================================================================
