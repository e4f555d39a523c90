---------------------------- MODULE SetupProofs ----------------------------
(***************************************************************************)
(* The configuration store and the wizard for every set of usernames,      *)
(* devicetypes, pairings, concurrent requests, and every number of crashes *)
(* and failing saves: the types, the two safety invariants of Setup, and   *)
(* that the store implements DurableStore.                                 *)
(***************************************************************************)
EXTENDS Setup, TLAPS

-----------------------------------------------------------------------------
(* The inductive invariant.                                                *)

(* A temporary file of the running process belongs to the save that holds  *)
(* c.mu, and memory has not changed since it was written.                  *)
TempIsMem == up /\ temp # NoFile => saver # NoOne /\ temp = mem

(* Only a committed configuration is ever saved, by a running process; a   *)
(* process that has a file writes every change through.                    *)
SavesCommitted ==
  /\ saver # NoOne => up /\ persist
  /\ up /\ disk # NoFile => persist

(* What is written through is complete, because Commit comes last.         *)
Complete(c) == c.pro # NoPro /\ c.users # {}
CommittedComplete == persist => Complete(mem)

(* With no save under way, memory authorises nobody the file does not,     *)
(* except for what a failed save left behind.                              *)
NamesSaved ==
  up /\ disk # NoFile /\ saver = NoOne => NamesIn(mem) \subseteq NamesIn(disk) \cup unsaved

StoreInv ==
  TempIsMem /\ SavesCommitted /\ CommittedComplete /\ FileIsComplete /\ NamesSaved

(* The wizard's step proves what its gates asked for.                      *)
WizardInv ==
  /\ step > 1 => mem.pro # NoPro
  /\ step > 4 => mem.users # {}

(* What a handler that is minting, saving or about to answer relies on.    *)
HandlerInv ==
  \A h \in Handlers :
    /\ ~up => pc[h] = "idle"
    /\ pc[h] = "mint" => user[h].type \in DeviceTypes
    /\ pc[h] \in {"saving", "saved"} => user[h] \in mem.users
    /\ saver = h => pc[h] = "saving"
    /\ pc[h] = "saved" /\ disk # NoFile => user[h].name \in NamesIn(disk) \cup unsaved

(* AckedAuthorised, and what it needs across a restart.                    *)
AckedInv ==
  /\ AckedAuthorised
  /\ ~up => acked \subseteq NamesIn(disk)

SetupInv == TypeOK /\ StoreInv /\ WizardInv /\ HandlerInv /\ AckedInv

-----------------------------------------------------------------------------
(* Facts about the operators.                                              *)

(* The updates of a Config are Configs.                                    *)
LEMMA ConfigUpdates ==
  ASSUME NEW c \in Config
  PROVE  /\ \A u \in APIUser : [c EXCEPT !.users = @ \cup {u}] \in Config
         /\ \A v \in Pros : [c EXCEPT !.pro = v] \in Config
         /\ \A id \in EntIDs \cup {NoEnt} : [c EXCEPT !.ent = id] \in Config
  BY DEF Config

(* The configuration of a first start is a Config.                         *)
LEMMA FreshConfig == Fresh \in Config
  BY DEF Fresh, Config

(* No Config is the absence of a file.                                     *)
LEMMA ConfigNotNoFile == NoFile \notin Config
  BY StoreAssumption DEF Config, APIUser

(* The names a Config authorises, and that they grow with its users.       *)
LEMMA NamesOfConfig ==
  ASSUME NEW c \in Config
  PROVE  /\ NamesIn(c) \subseteq Names
         /\ \A u \in c.users : u.name \in NamesIn(c)
         /\ \A d \in Config : c.users \subseteq d.users => NamesIn(c) \subseteq NamesIn(d)
<1>1. c # NoFile /\ \A d \in Config : d # NoFile
  BY ConfigNotNoFile
<1>2. NamesIn(c) = {u.name : u \in c.users}
  BY <1>1 DEF NamesIn
<1>3. \A d \in Config : NamesIn(d) = {u.name : u \in d.users}
  BY <1>1 DEF NamesIn
<1>4. c.users \subseteq APIUser
  BY DEF Config
<1>5. \A u \in APIUser : u.name \in Names
  BY DEF APIUser
<1>. QED  BY <1>2, <1>3, <1>4, <1>5

(* No file authorises nobody.                                              *)
LEMMA NamesOfNoFile == NamesIn(NoFile) = {}
  BY DEF NamesIn

(* The goroutines that save are told apart.                                *)
LEMMA GoroutinesNotNoOne ==
  /\ \A p \in Goroutines : p # NoOne
  /\ {"link", "streamer", "wizard"} \subseteq Goroutines
  /\ Handlers \subseteq Goroutines
  /\ \A h \in Handlers : h \notin {"link", "streamer", "wizard", NoOne}
  BY SetupAssumption DEF Goroutines

(* recompute stops at some step: the first whose signal G lacks, or the    *)
(* last.                                                                   *)
LEMMA FirstGap ==
  ASSUME NEW G \in SUBSET (1 .. 6), NEW n \in 1 .. 7
  PROVE  \E s \in n .. 7 : /\ s = 7 \/ s \notin G
                           /\ \A r \in n .. (s - 1) : r \in G
<1>. DEFINE Stops(m, s) == (s = 7 \/ s \notin G) /\ \A r \in m .. (s - 1) : r \in G
<1>1. \E s \in 7 .. 7 : Stops(7, s)
  OBVIOUS
<1>2. ASSUME NEW m \in 1 .. 6, \E s \in (m + 1) .. 7 : Stops(m + 1, s)
      PROVE  \E s \in m .. 7 : Stops(m, s)
  <2>1. CASE m \notin G
    <3>1. Stops(m, m)
      BY <2>1
    <3>. QED  BY <3>1
  <2>2. CASE m \in G
    <3>1. PICK s \in (m + 1) .. 7 : Stops(m + 1, s)
      BY <1>2
    <3>2. Stops(m, s)
      <4>. SUFFICES ASSUME NEW r \in m .. (s - 1) PROVE r \in G
        BY <3>1
      <4>1. r = m \/ r \in (m + 1) .. (s - 1)
        OBVIOUS
      <4>. QED  BY <4>1, <3>1, <2>2
    <3>. QED  BY <3>2
  <2>. QED  BY <2>1, <2>2
<1>. DEFINE Any(m) == \E s \in m .. 7 : Stops(m, s)
<1>3. Any(7) /\ \A m \in 1 .. 6 : Any(m + 1) => Any(m)
  BY <1>1, <1>2
<1>. HIDE DEF Any, Stops
<1>4. Any(6) /\ Any(5)
  <2>1. Any(6)
    BY <1>3, 6 \in 1 .. 6, 6 + 1 = 7
  <2>. QED  BY <2>1, <1>3, 5 \in 1 .. 6, 5 + 1 = 6
<1>5. Any(4) /\ Any(3)
  <2>1. Any(4)
    BY <1>3, <1>4, 4 \in 1 .. 6, 4 + 1 = 5
  <2>. QED  BY <2>1, <1>3, 3 \in 1 .. 6, 3 + 1 = 4
<1>6. Any(2) /\ Any(1)
  <2>1. Any(2)
    BY <1>3, <1>5, 2 \in 1 .. 6, 2 + 1 = 3
  <2>. QED  BY <2>1, <1>3, 1 \in 1 .. 6, 1 + 1 = 2
<1>7. n \in {1, 2, 3, 4, 5, 6, 7}
  OBVIOUS
<1>8. Any(n)
  BY <1>3, <1>4, <1>5, <1>6, <1>7
<1>. QED  BY <1>8 DEF Any, Stops

(* The step recompute arrives at: not before the current one, and beyond a *)
(* step only if the signal of that step was there.                         *)
LEMMA ReachedStep ==
  ASSUME NEW ever, NEW now, NEW seen, step \in 1 .. stepDone
  PROVE  LET s == Reached(ever, now, seen) IN
         /\ s \in step .. stepDone
         /\ \A r \in step .. (s - 1) : Gate(r, ever, now, seen)
<1>. DEFINE G == {r \in 1 .. 6 : Gate(r, ever, now, seen)}
            Good(s) == /\ s = stepDone \/ ~Gate(s, ever, now, seen)
                       /\ \A r \in step .. (s - 1) : Gate(r, ever, now, seen)
<1>1. PICK s \in step .. 7 : /\ s = 7 \/ s \notin G
                             /\ \A r \in step .. (s - 1) : r \in G
  <2>1. G \in SUBSET (1 .. 6)
    OBVIOUS
  <2>2. step \in 1 .. 7
    BY DEF stepDone
  <2>. HIDE DEF G
  <2>. QED  BY <2>1, <2>2, FirstGap
<1>2. s \in step .. stepDone /\ Good(s)
  <2>1. s = 7 \/ (s \in 1 .. 6 /\ ~Gate(s, ever, now, seen))
    BY <1>1 DEF stepDone
  <2>2. \A r \in step .. (s - 1) : Gate(r, ever, now, seen)
    BY <1>1
  <2>. QED  BY <2>1, <2>2 DEF stepDone
<1>. HIDE DEF Good
<1>3. \E x \in step .. stepDone : Good(x)
  BY <1>2
<1>4. Reached(ever, now, seen) = CHOOSE x \in step .. stepDone : Good(x)
  BY DEF Reached, Good
<1>5. Reached(ever, now, seen) \in step .. stepDone /\ Good(Reached(ever, now, seen))
  BY <1>3, <1>4
<1>. QED  BY <1>5 DEF Good

-----------------------------------------------------------------------------
(* What any step does to the store: goroutine p changes the Config, only   *)
(* adding to it and committing only what is complete, or one of the steps  *)
(* of a save, a crash or a restart.                                        *)
StoreGrows(p) ==
  /\ up /\ saver = NoOne
  /\ mem' \in Config
  /\ mem.users \subseteq mem'.users
  /\ mem.pro # NoPro => mem'.pro # NoPro
  /\ persist' \in BOOLEAN
  /\ persist => persist'
  /\ persist' => persist \/ Complete(mem')
  /\ saver' = IF persist' THEN p ELSE NoOne
  /\ UNCHANGED <<up, disk, temp, unsaved>>

StoreStep ==
  \/ UNCHANGED storeVars
  \/ \E p \in Goroutines : StoreGrows(p)
  \/ WriteTemp \/ Rename \/ SaveFails \/ Crash \/ Load

(* recompute leaves the store alone or commits it, at the end of the       *)
(* wizard, where both pairings are there; it keeps WizardInv.              *)
LEMMA RecomputeStep ==
  ASSUME TypeOK, WizardInv, NEW ever, NEW now, NEW seen, Recompute(ever, now, seen)
  PROVE  /\ \/ UNCHANGED storeVars
            \/ StoreGrows("wizard") /\ mem' = mem
         /\ step' \in 1 .. stepDone
         /\ everReachable' = ever /\ proReachable' = now /\ tvDescriptorSeen' = seen
         /\ WizardInv'
<1>. DEFINE s == Reached(ever, now, seen)
<1>1. /\ s \in step .. stepDone
      /\ \A r \in step .. (s - 1) : Gate(r, ever, now, seen)
  BY ReachedStep DEF TypeOK
<1>2. step' = s /\ everReachable' = ever /\ proReachable' = now /\ tvDescriptorSeen' = seen
  BY DEF Recompute
<1>. HIDE DEF s
<1>3. step \in 1 .. stepDone /\ s \in 1 .. stepDone
  BY <1>1 DEF TypeOK, stepDone
<1>4. s > 1 => mem.pro # NoPro
  <2>. SUFFICES ASSUME s > 1 PROVE mem.pro # NoPro
    OBVIOUS
  <2>1. CASE step = 1
    <3>1. 1 \in step .. (s - 1)
      BY <1>3, <2>1 DEF stepDone
    <3>2. Gate(1, ever, now, seen)
      BY <1>1, <3>1
    <3>. QED  BY <3>2 DEF Gate
  <2>2. CASE step > 1
    BY <2>2 DEF WizardInv
  <2>. QED  BY <1>3, <2>1, <2>2 DEF stepDone
<1>5. s > 4 => mem.users # {}
  <2>. SUFFICES ASSUME s > 4 PROVE mem.users # {}
    OBVIOUS
  <2>1. CASE step <= 4
    <3>1. 4 \in step .. (s - 1)
      BY <1>3, <2>1 DEF stepDone
    <3>2. Gate(4, ever, now, seen)
      BY <1>1, <3>1
    <3>. QED  BY <3>2 DEF Gate, PairedDeviceTypes
  <2>2. CASE step > 4
    BY <2>2 DEF WizardInv
  <2>. QED  BY <1>3, <2>1, <2>2 DEF stepDone
<1>6. CASE step' = stepDone /\ step # stepDone
  <2>1. Commit("wizard")
    BY <1>6 DEF Recompute
  <2>2. mem' = mem /\ persist' = TRUE /\ saver' = "wizard"
    BY <2>1 DEF Commit, Change, Writes
  <2>3. Complete(mem')
    BY <1>2, <1>4, <1>5, <1>6, <2>2 DEF Complete, stepDone
  <2>4. up /\ saver = NoOne /\ UNCHANGED <<up, disk, temp, unsaved>>
    BY <2>1 DEF Commit, Change, Unlocked
  <2>5. StoreGrows("wizard")
    BY <2>2, <2>3, <2>4 DEF StoreGrows, TypeOK
  <2>. QED  BY <1>2, <1>3, <1>4, <1>5, <2>2, <2>5 DEF WizardInv
<1>7. CASE ~(step' = stepDone /\ step # stepDone)
  <2>1. UNCHANGED storeVars
    BY <1>7 DEF Recompute
  <2>. QED  BY <1>2, <1>3, <1>4, <1>5, <2>1 DEF WizardInv, storeVars
<1>. QED  BY <1>6, <1>7

(* A change that goroutine p saves.                                        *)
LEMMA ChangeGrows ==
  ASSUME TypeOK, NEW p \in Goroutines, NEW c \in Config, Change(p, c, persist),
         mem.users \subseteq c.users, mem.pro # NoPro => c.pro # NoPro
  PROVE  StoreGrows(p) /\ mem' = c
  BY DEF Change, StoreGrows, Writes, Unlocked, TypeOK

(* AddAPIUser is such a change.                                            *)
LEMMA MintGrows ==
  ASSUME TypeOK, HandlerInv, NEW h \in Handlers, Mint(h)
  PROVE  /\ StoreGrows(h)
         /\ persist' = persist
         /\ \E u \in APIUser : /\ mem' = [mem EXCEPT !.users = @ \cup {u}]
                               /\ user' = [user EXCEPT ![h] = u]
<1>1. PICK n \in Names : /\ AddAPIUser(h, [user[h] EXCEPT !.name = n])
                         /\ user' = [user EXCEPT ![h] = [user[h] EXCEPT !.name = n]]
  BY DEF Mint
<1>. DEFINE u == [user[h] EXCEPT !.name = n]
<1>2. u \in APIUser
  BY DEF TypeOK, HandlerInv, Mint, APIUser
<1>. DEFINE c == [mem EXCEPT !.users = @ \cup {u}]
<1>. HIDE DEF u
<1>3. c \in Config
  BY <1>2, ConfigUpdates DEF TypeOK
<1>4. mem.users \subseteq c.users /\ c.pro = mem.pro
  BY DEF TypeOK, Config
<1>5. Change(h, c, persist)
  BY <1>1 DEF AddAPIUser, u
<1>. HIDE DEF c
<1>6. StoreGrows(h) /\ mem' = c
  BY <1>3, <1>4, <1>5, ChangeGrows, GoroutinesNotNoOne
<1>7. persist' = persist
  BY <1>5 DEF Change
<1>. QED  BY <1>1, <1>2, <1>6, <1>7 DEF c, u

(* So is SetPro, ...                                                       *)
LEMMA SetProGrows ==
  ASSUME TypeOK, NEW v \in Pros, SetPro("link", v)
  PROVE  StoreGrows("link") /\ mem' \in Config /\ mem'.users = mem.users
<1>. DEFINE c == [mem EXCEPT !.pro = v]
<1>1. c \in Config /\ c.users = mem.users /\ c.pro = v
  BY ConfigUpdates DEF TypeOK, Config
<1>2. Change("link", c, persist)
  BY DEF SetPro
<1>. HIDE DEF c
<1>3. v # NoPro
  BY StoreAssumption
<1>. QED  BY <1>1, <1>2, <1>3, ChangeGrows, GoroutinesNotNoOne

(* ... and so is SaveEntConfigID.                                          *)
LEMMA SaveEntGrows ==
  ASSUME TypeOK, NEW id \in EntIDs \cup {NoEnt}, SaveEntConfigID("streamer", id)
  PROVE  /\ StoreGrows("streamer") \/ UNCHANGED storeVars
         /\ mem'.users = mem.users /\ mem'.pro = mem.pro
<1>1. CASE mem.ent = id
  BY <1>1 DEF SaveEntConfigID, storeVars
<1>2. CASE mem.ent # id
  <2>. DEFINE c == [mem EXCEPT !.ent = id]
  <2>1. c \in Config /\ c.users = mem.users /\ c.pro = mem.pro
    BY ConfigUpdates DEF TypeOK, Config
  <2>2. Change("streamer", c, persist)
    BY <1>2 DEF SaveEntConfigID
  <2>. HIDE DEF c
  <2>. QED  BY <2>1, <2>2, ChangeGrows, GoroutinesNotNoOne
<1>. QED  BY <1>1, <1>2

(* Every step of Setup is one of these steps of the store.                 *)
LEMMA NextStoreStep ==
  ASSUME TypeOK, WizardInv, HandlerInv, [Next]_vars
  PROVE  StoreStep
<1>. USE DEF StoreStep
<1>r. ASSUME NEW ever, NEW now, NEW seen, Recompute(ever, now, seen) PROVE StoreStep
  BY <1>r, RecomputeStep, GoroutinesNotNoOne
<1>1. ASSUME NEW h \in Handlers, NEW t \in DeviceTypes, PairRequest(h, t)
      PROVE  StoreStep
  BY <1>1 DEF PairRequest
<1>2. ASSUME NEW h \in Handlers, Mint(h) PROVE StoreStep
  BY <1>2, MintGrows, GoroutinesNotNoOne
<1>3. ASSUME NEW h \in Handlers, Answer(h) PROVE StoreStep
  BY <1>3, <1>r DEF Answer, RecomputeNow
<1>4. CASE DescriptorFetch
  BY <1>4, <1>r DEF DescriptorFetch
<1>5. ASSUME NEW v \in Pros, PairPro(v) \/ Reconnect(v) PROVE StoreStep
  BY <1>5, SetProGrows, GoroutinesNotNoOne DEF PairPro, Reconnect
<1>6. CASE StartWatcher
  BY <1>6, <1>r DEF StartWatcher, RecomputeNow
<1>7. ASSUME NEW b \in BOOLEAN, Tick(b) PROVE StoreStep
  BY <1>7, <1>r DEF Tick, SetReachable
<1>8. ASSUME NEW id \in EntIDs \cup {NoEnt}, SaveEnt(id) PROVE StoreStep
  BY <1>8, SaveEntGrows, GoroutinesNotNoOne DEF SaveEnt
<1>9. CASE SaveWrites \/ SaveSucceeds \/ SaveErrs
  BY <1>9 DEF SaveWrites, SaveSucceeds, SaveErrs
<1>10. CASE ProcessCrash \/ ProcessStart
  BY <1>10 DEF ProcessCrash, ProcessStart
<1>11. CASE TVDrives \/ TVStops \/ ProPower
  BY <1>11 DEF TVDrives, TVStops, ProPower
<1>12. CASE UNCHANGED vars
  BY <1>12 DEF vars
<1>. QED
  BY <1>1, <1>2, <1>3, <1>4, <1>5, <1>6, <1>7, <1>8, <1>9, <1>10, <1>11, <1>12 DEF Next

-----------------------------------------------------------------------------
(* Types.                                                                  *)

StoreTypeOK ==
  /\ up \in BOOLEAN /\ persist \in BOOLEAN
  /\ mem \in Config
  /\ disk \in Config \cup {NoFile} /\ temp \in Config \cup {NoFile}
  /\ saver \in Goroutines \cup {NoOne}
  /\ unsaved \subseteq Names

(* The steps of the store keep its types.                                  *)
LEMMA StoreStepType ==
  ASSUME TypeOK, StoreStep
  PROVE  StoreTypeOK'
<1>. USE DEF TypeOK, StoreTypeOK
<1>1. CASE UNCHANGED storeVars
  BY <1>1 DEF storeVars
<1>2. ASSUME NEW p \in Goroutines, StoreGrows(p) PROVE StoreTypeOK'
  BY <1>2 DEF StoreGrows
<1>3. CASE WriteTemp
  BY <1>3 DEF WriteTemp
<1>4. CASE Rename
  BY <1>4 DEF Rename
<1>5. CASE SaveFails
  <2>1. NamesIn(mem) \ NamesIn(disk) \subseteq Names
    BY NamesOfConfig
  <2>. QED  BY <1>5, <2>1 DEF SaveFails
<1>6. CASE Crash
  BY <1>6, FreshConfig DEF Crash
<1>7. CASE Load
  BY <1>7, FreshConfig DEF Load
<1>. QED  BY <1>1, <1>2, <1>3, <1>4, <1>5, <1>6, <1>7 DEF StoreStep

(* Every action keeps the types.                                           *)
LEMMA NextTypeOK ==
  ASSUME TypeOK, WizardInv, HandlerInv, [Next]_vars
  PROVE  TypeOK'
<1>. DEFINE RestOK ==
       /\ acked \subseteq Names
       /\ step \in 1 .. stepDone
       /\ everReachable \in BOOLEAN /\ proReachable \in BOOLEAN
       /\ tvDescriptorSeen \in BOOLEAN
       /\ link \in {"pairing", "paired", "setup", "steady"}
       /\ pc \in [Handlers -> {"idle", "mint", "saving", "saved"}]
       /\ user \in [Handlers -> [name : Names \cup {NoOne}, type : DeviceTypes \cup {NoOne}]]
       /\ driving \in BOOLEAN /\ proUp \in BOOLEAN
       /\ crashes \in 0 .. MaxCrashes /\ fails \in 0 .. MaxFails
<1>s. StoreTypeOK'
  BY NextStoreStep, StoreStepType
<1>t. SUFFICES RestOK'
  BY <1>s DEF StoreTypeOK, TypeOK
<1>. USE DEF TypeOK, wizardVars, envVars
<1>n. NoUser \in [name : Names \cup {NoOne}, type : DeviceTypes \cup {NoOne}]
  BY DEF NoUser
<1>1. ASSUME NEW h \in Handlers, NEW t \in DeviceTypes, PairRequest(h, t) PROVE RestOK'
  <2>1. CASE /\ \E u \in APIUserByDeviceType(t) : acked' = acked \cup {u.name}
             /\ UNCHANGED <<pc, user>>
    <3>1. PICK u \in mem.users : acked' = acked \cup {u.name}
      BY <2>1 DEF APIUserByDeviceType
    <3>2. u.name \in Names
      BY DEF Config, APIUser
    <3>. QED  BY <1>1, <2>1, <3>1, <3>2 DEF PairRequest
  <2>2. CASE /\ pc' = [pc EXCEPT ![h] = "mint"]
             /\ user' = [user EXCEPT ![h] = [NoUser EXCEPT !.type = t]]
             /\ UNCHANGED acked
    <3>1. [NoUser EXCEPT !.type = t]
            \in [name : Names \cup {NoOne}, type : DeviceTypes \cup {NoOne}]
      BY DEF NoUser
    <3>. QED  BY <1>1, <2>2, <3>1 DEF PairRequest
  <2>. QED  BY <1>1, <2>1, <2>2 DEF PairRequest
<1>2. ASSUME NEW h \in Handlers, Mint(h) PROVE RestOK'
  <2>1. PICK u \in APIUser : user' = [user EXCEPT ![h] = u]
    BY <1>2, MintGrows
  <2>2. user' \in [Handlers -> [name : Names \cup {NoOne}, type : DeviceTypes \cup {NoOne}]]
    BY <2>1 DEF APIUser
  <2>. QED  BY <1>2, <2>2 DEF Mint
<1>3. ASSUME NEW h \in Handlers, Answer(h) PROVE RestOK'
  <2>1. user[h] \in mem.users
    BY <1>3 DEF Answer, HandlerInv
  <2>2. user[h].name \in Names
    BY <2>1 DEF Config, APIUser
  <2>3. Recompute(everReachable, proReachable, tvDescriptorSeen)
    BY <1>3 DEF Answer, RecomputeNow
  <2>4. /\ step' \in 1 .. stepDone
        /\ UNCHANGED <<everReachable, proReachable, tvDescriptorSeen>>
    BY <2>3, RecomputeStep
  <2>. QED  BY <1>3, <1>n, <2>2, <2>4 DEF Answer
<1>4. CASE DescriptorFetch
  <2>1. step' \in 1 .. stepDone
    BY <1>4, RecomputeStep DEF DescriptorFetch
  <2>. QED  BY <1>4, <2>1 DEF DescriptorFetch, Recompute
<1>5. ASSUME NEW v \in Pros, PairPro(v) \/ Reconnect(v) PROVE RestOK'
  BY <1>5 DEF PairPro, Reconnect
<1>6. CASE StartWatcher
  <2>1. step' \in 1 .. stepDone
    BY <1>6, RecomputeStep DEF StartWatcher, RecomputeNow
  <2>. QED  BY <1>6, <2>1 DEF StartWatcher, RecomputeNow, Recompute
<1>7. ASSUME NEW b \in BOOLEAN, Tick(b) PROVE RestOK'
  <2>1. step' \in 1 .. stepDone
    BY <1>7, RecomputeStep DEF Tick, SetReachable
  <2>2. (everReachable \/ b) \in BOOLEAN
    OBVIOUS
  <2>. QED  BY <1>7, <2>1, <2>2 DEF Tick, SetReachable, Recompute
<1>8. ASSUME NEW id \in EntIDs \cup {NoEnt}, SaveEnt(id) PROVE RestOK'
  BY <1>8 DEF SaveEnt
<1>9. CASE SaveWrites \/ SaveSucceeds
  BY <1>9 DEF SaveWrites, SaveSucceeds, SaveEnds
<1>10. CASE SaveErrs
  BY <1>10, SetupAssumption DEF SaveErrs, SaveEnds
<1>11. CASE ProcessCrash
  <2>1. user' \in [Handlers -> [name : Names \cup {NoOne}, type : DeviceTypes \cup {NoOne}]]
    BY <1>11, <1>n DEF ProcessCrash
  <2>2. crashes' \in 0 .. MaxCrashes
    BY <1>11, SetupAssumption DEF ProcessCrash
  <2>3. /\ acked' \subseteq Names
        /\ pc' \in [Handlers -> {"idle", "mint", "saving", "saved"}]
    BY <1>11 DEF ProcessCrash
  <2>4. step' \in 1 .. stepDone /\ fails' \in 0 .. MaxFails
    BY <1>11 DEF ProcessCrash, stepDone
  <2>5. /\ everReachable' \in BOOLEAN /\ proReachable' \in BOOLEAN
        /\ tvDescriptorSeen' \in BOOLEAN /\ driving' \in BOOLEAN /\ proUp' \in BOOLEAN
        /\ link' \in {"pairing", "paired", "setup", "steady"}
    BY <1>11 DEF ProcessCrash
  <2>. QED  BY <2>1, <2>2, <2>3, <2>4, <2>5
<1>12. CASE ProcessStart
  BY <1>12 DEF ProcessStart, stepDone
<1>13. CASE TVDrives \/ TVStops
  BY <1>13 DEF TVDrives, TVStops
<1>14. CASE ProPower
  BY <1>14 DEF ProPower
<1>15. CASE UNCHANGED vars
  BY <1>15 DEF vars, storeVars
<1>. QED
  BY <1>1, <1>2, <1>3, <1>4, <1>5, <1>6, <1>7, <1>8, <1>9, <1>10, <1>11, <1>12,
     <1>13, <1>14, <1>15 DEF Next

-----------------------------------------------------------------------------
(* The store.  A save writes what memory holds, since c.mu is held from    *)
(* the change to the rename.                                               *)
LEMMA StoreInvStep ==
  ASSUME TypeOK, StoreInv, AckedInv, StoreStep
  PROVE  StoreInv'
<1>. USE DEF StoreInv, TempIsMem, SavesCommitted, CommittedComplete, FileIsComplete,
             NamesSaved, TypeOK
<1>1. CASE UNCHANGED storeVars
  BY <1>1 DEF storeVars, Complete
<1>2. ASSUME NEW p \in Goroutines, StoreGrows(p) PROVE StoreInv'
  <2>1. p # NoOne
    BY GoroutinesNotNoOne
  <2>2. CommittedComplete'
    BY <1>2 DEF StoreGrows, Complete, Config
  <2>. QED  BY <1>2, <2>1, <2>2 DEF StoreGrows
<1>3. CASE WriteTemp
  BY <1>3 DEF WriteTemp, Complete
<1>4. CASE Rename
  <2>1. temp = mem
    BY <1>4 DEF Rename
  <2>2. FileIsComplete'
    BY <1>4, <2>1 DEF Rename, Complete
  <2>3. NamesSaved'
    BY <1>4, <2>1 DEF Rename
  <2>. QED  BY <1>4, <2>2, <2>3 DEF Rename, Complete
<1>5. CASE SaveFails
  BY <1>5 DEF SaveFails, Complete
<1>6. CASE Crash
  BY <1>6 DEF Crash
<1>7. CASE Load
  <2>1. saver = NoOne
    BY <1>7 DEF Load
  <2>2. CASE disk = NoFile
    BY <1>7, <2>1, <2>2 DEF Load
  <2>3. CASE disk # NoFile
    BY <1>7, <2>1, <2>3 DEF Load, Complete
  <2>. QED  BY <2>2, <2>3
<1>. QED  BY <1>1, <1>2, <1>3, <1>4, <1>5, <1>6, <1>7 DEF StoreStep

-----------------------------------------------------------------------------
(* The wizard: pairings are never taken back, and a restart begins at the  *)
(* end only with a complete file.                                          *)
LEMMA NextWizardInv ==
  ASSUME TypeOK, StoreInv, WizardInv, HandlerInv, [Next]_vars
  PROVE  WizardInv'
<1>r. ASSUME NEW ever, NEW now, NEW seen, Recompute(ever, now, seen) PROVE WizardInv'
  BY <1>r, RecomputeStep
<1>g. ASSUME NEW p, StoreGrows(p), UNCHANGED step PROVE WizardInv'
  BY <1>g DEF StoreGrows, WizardInv
<1>u. ASSUME UNCHANGED <<mem, step>> PROVE WizardInv'
  BY <1>u DEF WizardInv
<1>. USE DEF wizardVars, storeVars
<1>1. ASSUME NEW h \in Handlers, NEW t \in DeviceTypes, PairRequest(h, t) PROVE WizardInv'
  BY <1>1, <1>u DEF PairRequest
<1>2. ASSUME NEW h \in Handlers, Mint(h) PROVE WizardInv'
  BY <1>2, <1>g, MintGrows DEF Mint
<1>3. ASSUME NEW h \in Handlers, Answer(h) PROVE WizardInv'
  BY <1>3, <1>r DEF Answer, RecomputeNow
<1>4. CASE DescriptorFetch
  BY <1>4, <1>r DEF DescriptorFetch
<1>5. ASSUME NEW v \in Pros, PairPro(v) \/ Reconnect(v) PROVE WizardInv'
  BY <1>5, <1>g, SetProGrows DEF PairPro, Reconnect
<1>6. CASE StartWatcher
  BY <1>6, <1>r DEF StartWatcher, RecomputeNow
<1>7. ASSUME NEW b \in BOOLEAN, Tick(b) PROVE WizardInv'
  BY <1>7, <1>r DEF Tick, SetReachable
<1>8. ASSUME NEW id \in EntIDs \cup {NoEnt}, SaveEnt(id) PROVE WizardInv'
  BY <1>8, SaveEntGrows DEF SaveEnt, WizardInv
<1>9. CASE SaveWrites \/ SaveSucceeds \/ SaveErrs
  BY <1>9, <1>u DEF SaveWrites, SaveSucceeds, SaveErrs, WriteTemp, Rename, SaveFails
<1>10. CASE ProcessCrash
  BY <1>10 DEF ProcessCrash, WizardInv
<1>11. CASE ProcessStart
  <2>1. CASE disk = NoFile
    BY <1>11, <2>1 DEF ProcessStart, WizardInv
  <2>2. CASE disk # NoFile
    BY <1>11, <2>2 DEF ProcessStart, Load, StoreInv, FileIsComplete, WizardInv
  <2>. QED  BY <2>1, <2>2
<1>12. CASE TVDrives \/ TVStops \/ ProPower
  BY <1>12, <1>u DEF TVDrives, TVStops, ProPower
<1>13. CASE UNCHANGED vars
  BY <1>13, <1>u DEF vars
<1>. QED
  BY <1>1, <1>2, <1>3, <1>4, <1>5, <1>6, <1>7, <1>8, <1>9, <1>10, <1>11, <1>12,
     <1>13 DEF Next

-----------------------------------------------------------------------------
(* The handlers.                                                           *)

(* A handler whose own state a step leaves alone keeps what it relies on,  *)
(* whatever the step does to the store.                                    *)
LEMMA OtherHandlersKept ==
  ASSUME TypeOK, StoreInv, HandlerInv, TypeOK', NEW h \in Handlers,
         UNCHANGED <<pc[h], user[h]>>,
         \/ UNCHANGED storeVars
         \/ \E p \in Goroutines \ {h} : StoreGrows(p)
         \/ WriteTemp
         \/ (Rename \/ SaveFails) /\ saver # h
  PROVE  /\ ~up' => pc'[h] = "idle"
         /\ pc'[h] = "mint" => user'[h].type \in DeviceTypes
         /\ pc'[h] \in {"saving", "saved"} => user'[h] \in mem'.users
         /\ saver' = h => pc'[h] = "saving"
         /\ pc'[h] = "saved" /\ disk' # NoFile
              => user'[h].name \in NamesIn(disk)' \cup unsaved'
<1>. USE DEF HandlerInv
<1>1. CASE UNCHANGED storeVars
  BY <1>1 DEF storeVars, NamesIn
<1>2. ASSUME NEW p \in Goroutines \ {h}, StoreGrows(p)
      PROVE  /\ user[h] \in mem.users => user'[h] \in mem'.users
             /\ up' /\ saver' # h
             /\ NamesIn(disk)' = NamesIn(disk) /\ UNCHANGED <<disk, unsaved>>
  BY <1>2, GoroutinesNotNoOne DEF StoreGrows, NamesIn
<1>3. CASE WriteTemp
  BY <1>3 DEF WriteTemp, NamesIn
<1>4. CASE Rename /\ saver # h
  <2>1. up' /\ disk' = mem /\ mem' = mem /\ saver' = NoOne
    BY <1>4 DEF Rename, StoreInv, TempIsMem
  <2>2. \A u \in mem.users : u.name \in NamesIn(mem)
    BY NamesOfConfig DEF TypeOK
  <2>3. NamesIn(disk)' = NamesIn(mem)
    BY <2>1 DEF NamesIn
  <2>. QED  BY <2>1, <2>2, <2>3, GoroutinesNotNoOne
<1>5. CASE SaveFails /\ saver # h
  <2>1. /\ up' /\ mem' = mem /\ saver' = NoOne /\ disk' = disk
        /\ unsaved' = NamesIn(mem) \ NamesIn(disk)
    BY <1>5 DEF SaveFails
  <2>2. \A u \in mem.users : u.name \in NamesIn(mem)
    BY NamesOfConfig DEF TypeOK
  <2>3. NamesIn(disk)' = NamesIn(disk)
    BY <2>1 DEF NamesIn
  <2>. QED  BY <2>1, <2>2, <2>3, GoroutinesNotNoOne
<1>. QED  BY <1>1, <1>2, <1>3, <1>4, <1>5

(* Every action keeps HandlerInv.                                          *)
LEMMA NextHandlerInv ==
  ASSUME TypeOK, StoreInv, WizardInv, HandlerInv, TypeOK', [Next]_vars
  PROVE  HandlerInv'
<1>. DEFINE Fine(h) ==
       /\ ~up' => pc'[h] = "idle"
       /\ pc'[h] = "mint" => user'[h].type \in DeviceTypes
       /\ pc'[h] \in {"saving", "saved"} => user'[h] \in mem'.users
       /\ saver' = h => pc'[h] = "saving"
       /\ pc'[h] = "saved" /\ disk' # NoFile
            => user'[h].name \in NamesIn(disk)' \cup unsaved'
<1>s. SUFFICES \A h \in Handlers : Fine(h)
  BY DEF HandlerInv, NamesIn
<1>r. ASSUME NEW ever, NEW now, NEW seen, Recompute(ever, now, seen), NEW h \in Handlers,
             UNCHANGED <<pc[h], user[h]>>
      PROVE  Fine(h)
  <2>1. UNCHANGED storeVars \/ StoreGrows("wizard")
    BY <1>r, RecomputeStep
  <2>2. "wizard" \in Goroutines \ {h}
    BY GoroutinesNotNoOne
  <2>. QED  BY <1>r, <2>1, <2>2, OtherHandlersKept
<1>u. ASSUME UNCHANGED <<storeVars, pc, user>> PROVE \A h \in Handlers : Fine(h)
  BY <1>u, OtherHandlersKept
<1>1. ASSUME NEW h \in Handlers, NEW t \in DeviceTypes, PairRequest(h, t)
      PROVE  \A k \in Handlers : Fine(k)
  <2>1. UNCHANGED storeVars /\ saver = NoOne /\ up'
    BY <1>1 DEF PairRequest, Unlocked, storeVars
  <2>2. CASE UNCHANGED <<pc, user>>
    BY <2>1, <2>2, <1>u
  <2>3. CASE /\ pc' = [pc EXCEPT ![h] = "mint"]
             /\ user' = [user EXCEPT ![h] = [NoUser EXCEPT !.type = t]]
    <3>1. ASSUME NEW k \in Handlers \ {h} PROVE Fine(k)
      <4>1. UNCHANGED <<pc[k], user[k]>>
        BY <2>3 DEF TypeOK
      <4>. QED  BY <2>1, <4>1, OtherHandlersKept
    <3>2. pc'[h] = "mint" /\ user'[h].type = t
      BY <2>3 DEF TypeOK, NoUser
    <3>3. saver' # h
      BY <2>1, GoroutinesNotNoOne DEF storeVars
    <3>. QED  BY <2>1, <3>1, <3>2, <3>3
  <2>. QED  BY <1>1, <2>2, <2>3 DEF PairRequest
<1>2. ASSUME NEW h \in Handlers, Mint(h) PROVE \A k \in Handlers : Fine(k)
  <2>1. StoreGrows(h)
    BY <1>2, MintGrows
  <2>2. PICK u \in APIUser : /\ mem' = [mem EXCEPT !.users = @ \cup {u}]
                             /\ user' = [user EXCEPT ![h] = u]
    BY <1>2, MintGrows
  <2>3. persist' = persist
    BY <1>2, MintGrows
  <2>4. pc' = [pc EXCEPT ![h] = IF persist THEN "saving" ELSE "saved"]
    BY <1>2 DEF Mint
  <2>5. ASSUME NEW k \in Handlers \ {h} PROVE Fine(k)
    <3>1. UNCHANGED <<pc[k], user[k]>>
      BY <2>2, <2>4 DEF TypeOK
    <3>2. h \in Goroutines \ {k}
      BY GoroutinesNotNoOne
    <3>. QED  BY <2>1, <3>1, <3>2, OtherHandlersKept
  <2>6. user'[h] = u /\ u \in mem'.users /\ up'
    BY <2>1, <2>2 DEF TypeOK, Config, StoreGrows
  <2>7. CASE persist
    <3>1. pc'[h] = "saving"
      BY <2>4, <2>7 DEF TypeOK
    <3>. QED  BY <2>5, <2>6, <3>1
  <2>8. CASE ~persist
    <3>1. pc'[h] = "saved" /\ saver' = NoOne
      BY <2>1, <2>3, <2>4, <2>8 DEF TypeOK, StoreGrows
    <3>2. disk' = NoFile
      BY <2>1, <2>8 DEF StoreGrows, StoreInv, SavesCommitted
    <3>3. saver' # h
      BY <3>1, GoroutinesNotNoOne
    <3>. QED  BY <2>5, <2>6, <3>1, <3>2, <3>3
  <2>. QED  BY <2>7, <2>8 DEF TypeOK
<1>3. ASSUME NEW h \in Handlers, Answer(h) PROVE \A k \in Handlers : Fine(k)
  <2>1. Recompute(everReachable, proReachable, tvDescriptorSeen)
    BY <1>3 DEF Answer, RecomputeNow
  <2>2. ASSUME NEW k \in Handlers \ {h} PROVE Fine(k)
    <3>1. UNCHANGED <<pc[k], user[k]>>
      BY <1>3 DEF Answer, TypeOK
    <3>. QED  BY <2>1, <3>1, <1>r
  <2>3. pc'[h] = "idle" /\ saver # h
    BY <1>3 DEF Answer, TypeOK, HandlerInv
  <2>4. UNCHANGED storeVars \/ StoreGrows("wizard")
    BY <2>1, RecomputeStep
  <2>5. saver' # h
    BY <2>3, <2>4, GoroutinesNotNoOne DEF storeVars, StoreGrows
  <2>. QED  BY <2>2, <2>3, <2>5
<1>4. CASE DescriptorFetch
  BY <1>4, <1>r DEF DescriptorFetch
<1>5. ASSUME NEW v \in Pros, PairPro(v) \/ Reconnect(v) PROVE \A h \in Handlers : Fine(h)
  <2>1. StoreGrows("link") /\ UNCHANGED <<pc, user>>
    BY <1>5, SetProGrows DEF PairPro, Reconnect
  <2>2. \A h \in Handlers : "link" \in Goroutines \ {h}
    BY GoroutinesNotNoOne
  <2>. QED  BY <2>1, <2>2, OtherHandlersKept
<1>6. CASE StartWatcher
  BY <1>6, <1>r DEF StartWatcher, RecomputeNow
<1>7. ASSUME NEW b \in BOOLEAN, Tick(b) PROVE \A h \in Handlers : Fine(h)
  BY <1>7, <1>r DEF Tick, SetReachable
<1>8. ASSUME NEW id \in EntIDs \cup {NoEnt}, SaveEnt(id) PROVE \A h \in Handlers : Fine(h)
  <2>1. /\ StoreGrows("streamer") \/ UNCHANGED storeVars
        /\ UNCHANGED <<pc, user>>
    BY <1>8, SaveEntGrows DEF SaveEnt
  <2>2. \A h \in Handlers : "streamer" \in Goroutines \ {h}
    BY GoroutinesNotNoOne
  <2>. QED  BY <2>1, <2>2, OtherHandlersKept
<1>9. CASE SaveWrites
  BY <1>9, OtherHandlersKept DEF SaveWrites
<1>10. CASE SaveSucceeds
  <2>1. ASSUME NEW h \in Handlers, saver # h PROVE Fine(h)
    <3>1. UNCHANGED <<pc[h], user[h]>>
      BY <1>10, <2>1 DEF SaveSucceeds, SaveEnds
    <3>. QED  BY <1>10, <2>1, <3>1, OtherHandlersKept DEF SaveSucceeds
  <2>2. ASSUME NEW h \in Handlers, saver = h PROVE Fine(h)
    <3>1. user[h] \in mem.users
      BY <2>2 DEF HandlerInv
    <3>2. pc'[h] = "saved" /\ user'[h] = user[h]
      BY <1>10, <2>2 DEF SaveSucceeds, SaveEnds
    <3>3. up' /\ disk' = mem /\ mem' = mem /\ saver' = NoOne
      BY <1>10 DEF SaveSucceeds, Rename, StoreInv, TempIsMem
    <3>4. user[h].name \in NamesIn(mem)
      BY <3>1, NamesOfConfig DEF TypeOK
    <3>5. NamesIn(disk)' = NamesIn(mem)
      BY <3>3 DEF NamesIn
    <3>. QED  BY <3>1, <3>2, <3>3, <3>4, <3>5, GoroutinesNotNoOne
  <2>. QED  BY <2>1, <2>2
<1>11. CASE SaveErrs
  <2>1. ASSUME NEW h \in Handlers, saver # h PROVE Fine(h)
    <3>1. UNCHANGED <<pc[h], user[h]>>
      BY <1>11, <2>1 DEF SaveErrs, SaveEnds
    <3>. QED  BY <1>11, <2>1, <3>1, OtherHandlersKept DEF SaveErrs
  <2>2. ASSUME NEW h \in Handlers, saver = h PROVE Fine(h)
    <3>1. pc'[h] = "idle" /\ saver' = NoOne
      BY <1>11, <2>2 DEF SaveErrs, SaveEnds, SaveFails
    <3>. QED  BY <3>1, GoroutinesNotNoOne
  <2>. QED  BY <2>1, <2>2
<1>12. CASE ProcessCrash
  BY <1>12, GoroutinesNotNoOne DEF ProcessCrash, Crash
<1>13. CASE ProcessStart
  <2>1. saver = NoOne /\ \A h \in Handlers : pc[h] = "idle"
    BY <1>13 DEF ProcessStart, Load, HandlerInv, StoreInv, SavesCommitted
  <2>2. UNCHANGED <<saver, pc>>
    BY <1>13 DEF ProcessStart, Load
  <2>. QED  BY <2>1, <2>2, GoroutinesNotNoOne
<1>14. CASE TVDrives \/ TVStops \/ ProPower
  BY <1>14, <1>u DEF TVDrives, TVStops, ProPower
<1>15. CASE UNCHANGED vars
  BY <1>15, <1>u DEF vars
<1>. QED
  BY <1>1, <1>2, <1>3, <1>4, <1>5, <1>6, <1>7, <1>8, <1>9, <1>10, <1>11, <1>12,
     <1>13, <1>14, <1>15 DEF Next

-----------------------------------------------------------------------------
(* What the TV was given.                                                  *)

(* A step of the store of the running process, or of the file of a stopped *)
(* one, takes no authorisation back that the TV relies on.                 *)
LEMMA AckedKept ==
  ASSUME TypeOK, StoreInv, AckedInv, TypeOK', StoreStep, ~Crash, UNCHANGED acked
  PROVE  AckedInv'
<1>. USE DEF AckedInv, AckedAuthorised
<1>m. NamesIn(mem)' = NamesIn(mem') /\ NamesIn(disk)' = NamesIn(disk')
  BY DEF NamesIn
<1>1. CASE UNCHANGED storeVars
  BY <1>1, <1>m DEF storeVars
<1>2. ASSUME NEW p \in Goroutines, StoreGrows(p) PROVE AckedInv'
  <2>1. NamesIn(mem) \subseteq NamesIn(mem')
    BY <1>2, NamesOfConfig DEF StoreGrows, TypeOK
  <2>. QED  BY <1>2, <1>m, <2>1 DEF StoreGrows
<1>3. CASE WriteTemp
  BY <1>3, <1>m DEF WriteTemp
<1>4. CASE Rename
  <2>1. disk' = mem /\ mem' = mem /\ up /\ up'
    BY <1>4 DEF Rename, StoreInv, TempIsMem
  <2>. QED  BY <2>1, <1>m
<1>5. CASE SaveFails
  BY <1>5, <1>m DEF SaveFails
<1>6. CASE Load
  <2>1. CASE disk = NoFile
    <3>1. acked = {}
      BY <1>6, <2>1, NamesOfNoFile DEF Load
    <3>. QED  BY <3>1
  <2>2. CASE disk # NoFile
    BY <1>6, <2>2, <1>m DEF Load
  <2>. QED  BY <2>1, <2>2
<1>. QED  BY <1>1, <1>2, <1>3, <1>4, <1>5, <1>6 DEF StoreStep

(* Every action keeps AckedInv.                                            *)
LEMMA NextAckedInv ==
  ASSUME TypeOK, StoreInv, WizardInv, HandlerInv, AckedInv, TypeOK', [Next]_vars
  PROVE  AckedInv'
<1>s. StoreStep
  BY NextStoreStep
<1>m. NamesIn(mem)' = NamesIn(mem') /\ NamesIn(disk)' = NamesIn(disk')
  BY DEF NamesIn
<1>1. ASSUME NEW h \in Handlers, NEW t \in DeviceTypes, PairRequest(h, t) PROVE AckedInv'
  <2>1. UNCHANGED storeVars /\ up /\ saver = NoOne
    BY <1>1 DEF PairRequest, Unlocked
  <2>2. acked' \subseteq acked \cup NamesIn(mem)
    <3>1. CASE UNCHANGED acked
      BY <3>1
    <3>2. CASE \E u \in APIUserByDeviceType(t) : acked' = acked \cup {u.name}
      <4>1. PICK u \in mem.users : acked' = acked \cup {u.name}
        BY <3>2 DEF APIUserByDeviceType
      <4>2. u.name \in NamesIn(mem)
        BY NamesOfConfig DEF TypeOK
      <4>. QED  BY <4>1, <4>2
    <3>. QED  BY <1>1, <3>1, <3>2 DEF PairRequest
  <2>. QED
    BY <2>1, <2>2, <1>m DEF AckedInv, AckedAuthorised, storeVars, StoreInv, NamesSaved
<1>2. ASSUME NEW h \in Handlers, Answer(h) PROVE AckedInv'
  <2>1. /\ up' = up /\ mem' = mem /\ disk' = disk /\ unsaved' = unsaved
    <3>1. UNCHANGED storeVars \/ (StoreGrows("wizard") /\ mem' = mem)
      BY <1>2, RecomputeStep DEF Answer, RecomputeNow
    <3>. QED  BY <3>1 DEF storeVars, StoreGrows
  <2>2. up /\ pc[h] = "saved" /\ acked' = acked \cup {user[h].name}
    BY <1>2 DEF Answer
  <2>3. user[h] \in mem.users
    BY <2>2 DEF HandlerInv
  <2>4. user[h].name \in NamesIn(mem)
    BY <2>3, NamesOfConfig DEF TypeOK
  <2>5. disk # NoFile => user[h].name \in NamesIn(disk) \cup unsaved
    BY <2>2 DEF HandlerInv
  <2>. QED  BY <2>1, <2>2, <2>4, <2>5, <1>m DEF AckedInv, AckedAuthorised
<1>3. CASE ProcessCrash
  <2>1. ~up' /\ disk' = disk /\ acked' = acked \cap NamesIn(disk)
    BY <1>3 DEF ProcessCrash, Crash
  <2>. QED  BY <2>1, <1>m DEF AckedInv, AckedAuthorised
<1>4. ASSUME UNCHANGED acked, ~Crash PROVE AckedInv'
  BY <1>4, <1>s, AckedKept
<1>5. ASSUME UNCHANGED acked, up' PROVE AckedInv'
  BY <1>4, <1>5 DEF Crash
<1>6. ASSUME NEW h \in Handlers, Mint(h) PROVE AckedInv'
  <2>1. StoreGrows(h) /\ UNCHANGED acked
    BY <1>6, MintGrows DEF Mint
  <2>. QED  BY <2>1, <1>5 DEF StoreGrows
<1>7. CASE DescriptorFetch \/ StartWatcher \/ \E b \in BOOLEAN : Tick(b)
  <2>1. PICK ever, now, seen : Recompute(ever, now, seen)
    BY <1>7 DEF DescriptorFetch, StartWatcher, Tick, RecomputeNow, SetReachable
  <2>2. up /\ UNCHANGED acked
    BY <1>7 DEF DescriptorFetch, StartWatcher, Tick
  <2>3. UNCHANGED storeVars \/ StoreGrows("wizard")
    BY <2>1, RecomputeStep
  <2>4. up'
    BY <2>2, <2>3 DEF storeVars, StoreGrows
  <2>. QED  BY <2>2, <2>4, <1>5
<1>8. ASSUME NEW v \in Pros, PairPro(v) \/ Reconnect(v) PROVE AckedInv'
  BY <1>8, <1>5, SetProGrows DEF PairPro, Reconnect, StoreGrows
<1>9. ASSUME NEW id \in EntIDs \cup {NoEnt}, SaveEnt(id) PROVE AckedInv'
  <2>1. StoreGrows("streamer") \/ UNCHANGED storeVars
    BY <1>9, SaveEntGrows DEF SaveEnt
  <2>2. ~Crash
    BY <2>1 DEF StoreGrows, storeVars, Crash
  <2>. QED  BY <1>9, <1>4, <2>2 DEF SaveEnt
<1>10. CASE SaveWrites \/ SaveSucceeds \/ SaveErrs
  BY <1>10, <1>5 DEF SaveWrites, SaveSucceeds, SaveErrs, WriteTemp, Rename, SaveFails
<1>11. CASE ProcessStart
  BY <1>11, <1>5 DEF ProcessStart, Load
<1>12. CASE TVDrives \/ TVStops \/ ProPower \/ UNCHANGED vars
  <2>1. UNCHANGED <<storeVars, acked>>
    BY <1>12 DEF TVDrives, TVStops, ProPower, vars
  <2>2. ~Crash
    BY <2>1 DEF storeVars, Crash
  <2>. QED  BY <2>1, <2>2, <1>4
<1>. QED
  BY <1>1, <1>2, <1>3, <1>6, <1>7, <1>8, <1>9, <1>10, <1>11, <1>12 DEF Next

-----------------------------------------------------------------------------
(* A first start satisfies the invariant.                                  *)
LEMMA InitSetupInv == Init => SetupInv
<1>. SUFFICES ASSUME Init PROVE SetupInv
  OBVIOUS
<1>1. TypeOK
  <2>1. NoUser \in [name : Names \cup {NoOne}, type : DeviceTypes \cup {NoOne}]
    BY DEF NoUser
  <2>2. user \in [Handlers -> [name : Names \cup {NoOne}, type : DeviceTypes \cup {NoOne}]]
    BY <2>1 DEF Init
  <2>3. pc \in [Handlers -> {"idle", "mint", "saving", "saved"}]
    BY DEF Init
  <2>4. /\ mem \in Config /\ disk \in Config \cup {NoFile} /\ temp \in Config \cup {NoFile}
        /\ saver \in Goroutines \cup {NoOne} /\ unsaved \subseteq Names /\ acked \subseteq Names
    BY FreshConfig DEF Init, StoreInit
  <2>5. step \in 1 .. stepDone /\ crashes \in 0 .. MaxCrashes /\ fails \in 0 .. MaxFails
    BY SetupAssumption DEF Init, stepDone
  <2>6. /\ up \in BOOLEAN /\ persist \in BOOLEAN /\ driving \in BOOLEAN /\ proUp \in BOOLEAN
        /\ everReachable \in BOOLEAN /\ proReachable \in BOOLEAN
        /\ tvDescriptorSeen \in BOOLEAN
        /\ link \in {"pairing", "paired", "setup", "steady"}
    BY DEF Init, StoreInit
  <2>. QED  BY <2>2, <2>3, <2>4, <2>5, <2>6 DEF TypeOK
<1>2. StoreInv
  BY DEF Init, StoreInit, StoreInv, TempIsMem, SavesCommitted, CommittedComplete,
         FileIsComplete, NamesSaved
<1>3. WizardInv
  BY DEF Init, WizardInv
<1>4. HandlerInv
  BY GoroutinesNotNoOne DEF Init, StoreInit, HandlerInv
<1>5. AckedInv
  BY DEF Init, StoreInit, AckedInv, AckedAuthorised
<1>. QED  BY <1>1, <1>2, <1>3, <1>4, <1>5 DEF SetupInv

(* SetupInv is inductive, so it holds in every reachable state.            *)
THEOREM SetupInvariant == Spec => []SetupInv
<1>1. ASSUME SetupInv, [Next]_vars PROVE SetupInv'
  <2>. USE <1>1 DEF SetupInv
  <2>1. StoreStep
    BY NextStoreStep
  <2>2. TypeOK'
    BY NextTypeOK
  <2>3. StoreInv'
    BY <2>1, StoreInvStep
  <2>4. WizardInv'
    BY NextWizardInv
  <2>5. HandlerInv'
    BY <2>2, NextHandlerInv
  <2>6. AckedInv'
    BY <2>2, NextAckedInv
  <2>. QED  BY <2>2, <2>3, <2>4, <2>5, <2>6
<1>. QED  BY <1>1, InitSetupInv, PTL DEF Spec

(* No crash and no failing save leaves a configuration file (which Load    *)
(* takes for a completed setup) without a paired Pro and a paired TV.      *)
THEOREM FileAlwaysComplete == Spec => []FileIsComplete
<1>1. SetupInv => FileIsComplete
  BY DEF SetupInv, StoreInv
<1>. QED  BY <1>1, SetupInvariant, PTL

(* A username that POST /api answered stays authorised: by this process,   *)
(* and by the file unless its own save failed.                             *)
THEOREM AckedAlwaysAuthorised == Spec => []AckedAuthorised
<1>1. SetupInv => AckedAuthorised
  BY DEF SetupInv, AckedInv
<1>. QED  BY <1>1, SetupInvariant, PTL

-----------------------------------------------------------------------------
(* The refinement.                                                         *)

(* A step of the store is a step of DurableStore or a stutter: memory      *)
(* changes, a rename is the atomic Sync, the rest of a save is invisible.  *)
LEMMA StoreStepSimulates ==
  ASSUME TypeOK, StoreInv, StoreStep
  PROVE  [Durable!Next]_(Durable!vars)
<1>. USE DEF Durable!Next, Durable!vars
<1>1. CASE UNCHANGED storeVars
  BY <1>1 DEF storeVars
<1>2. ASSUME NEW p \in Goroutines, StoreGrows(p) PROVE Durable!Change
  BY <1>2 DEF StoreGrows, Durable!Change
<1>3. CASE WriteTemp \/ SaveFails
  BY <1>3 DEF WriteTemp, SaveFails
<1>4. CASE Rename
  <2>1. Durable!Sync
    BY <1>4 DEF Rename, StoreInv, TempIsMem, Durable!Sync
  <2>. QED  BY <2>1
<1>5. CASE Crash
  <2>1. Durable!Crash
    BY <1>5 DEF Crash, Durable!Crash
  <2>. QED  BY <2>1
<1>6. CASE Load
  <2>1. Durable!Restart
    BY <1>6 DEF Load, Durable!Restart
  <2>. QED  BY <2>1
<1>. QED  BY <1>1, <1>2, <1>3, <1>4, <1>5, <1>6 DEF StoreStep

(* The configuration store, with its mutex, temporary file and rename, and *)
(* with every goroutine that uses it, implements an atomic durable value.  *)
THEOREM StoreImplementsDurable == Spec => StoreIsAtomic
<1>1. Init => Durable!Init
  BY DEF Init, StoreInit, Durable!Init
<1>2. ASSUME SetupInv, [Next]_vars PROVE [Durable!Next]_(Durable!vars)
  <2>. USE <1>2 DEF SetupInv
  <2>1. StoreStep
    BY NextStoreStep
  <2>. QED  BY <2>1, StoreStepSimulates
<1>. QED  BY <1>1, <1>2, SetupInvariant, PTL DEF Spec, StoreIsAtomic, Durable!Spec
=============================================================================
