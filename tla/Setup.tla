------------------------------- MODULE Setup -------------------------------
(***************************************************************************)
(* The first run of the program: the configuration store composed with the *)
(* goroutines that change it and with the setup wizard they drive          *)
(* (cmd/relume-tv/setup.go, handlePairing and handleDescription in         *)
(* internal/clipv1/server.go, the wiring in cmd/relume-tv/main.go).        *)
(*                                                                         *)
(* The goroutines are the handlers of POST /api, "link" (autoPairPro and   *)
(* then the reachability watcher), "streamer" (which saves the id of its   *)
(* entertainment configuration) and "wizard" (whoever runs the Commit of   *)
(* recompute, holding setupStatus.mu).  The process may crash at any step  *)
(* and start again.                                                        *)
(*                                                                         *)
(* recompute reads the Config in several lock sections.  Users and the Pro *)
(* are only ever added and setupStatus.mu is held throughout, so reading   *)
(* them at once differs from the code only in states nobody can observe.   *)
(***************************************************************************)
EXTENDS ConfigStore, Naturals

CONSTANTS
  Handlers,    \* concurrent POST /api requests
  MaxCrashes,  \* bound on crashes
  MaxFails     \* bound on failing saves

Goroutines == Handlers \cup {"link", "streamer", "wizard"}

ASSUME SetupAssumption ==
  /\ MaxCrashes \in Nat /\ MaxFails \in Nat
  /\ NoOne \notin Goroutines
  /\ Handlers \cap {"link", "streamer", "wizard"} = {}

VARIABLES
  step,              \* setupStatus.step
  everReachable,     \* setupStatus.everReachable
  proReachable,      \* setupStatus.proReachable
  tvDescriptorSeen,  \* setupStatus.tvDescriptorSeen
  link,              \* where the link goroutine is
  pc,                \* where each POST /api handler is
  user,              \* the user each handler minted
  acked,             \* usernames the TV was given
  driving,           \* the TV drives the lights (liveColors is fresh)
  proUp,             \* the Pro answers
  crashes, fails

wizardVars == <<step, everReachable, proReachable, tvDescriptorSeen>>
envVars == <<driving, proUp, crashes, fails>>
vars == <<storeVars, wizardVars, link, pc, user, acked, envVars>>

stepDone == 7
NoUser == [name |-> NoOne, type |-> NoOne]

Init ==
  /\ StoreInit
  /\ step = 1
  /\ everReachable = FALSE /\ proReachable = FALSE /\ tvDescriptorSeen = FALSE
  /\ link = "pairing"
  /\ pc = [h \in Handlers |-> "idle"]
  /\ user = [h \in Handlers |-> NoUser]
  /\ acked = {}
  /\ driving = FALSE /\ proUp \in BOOLEAN
  /\ crashes = 0 /\ fails = 0

-----------------------------------------------------------------------------
(* The wizard.                                                             *)

(* Mutant: only a power cycle of the Pro leads past step 2.                *)
GateNeedsPowerCycle(s, ever, now, seen) ==
  LET tvPaired == PairedDeviceTypes # {} IN
  \/ s = 1 /\ mem.pro # NoPro
  \/ s = 2 /\ ever /\ ~now
  \/ s = 3 /\ (tvPaired \/ seen)
  \/ s = 4 /\ tvPaired
  \/ s = 5 /\ now
  \/ s = 6 /\ driving

(* The completion signal of each step, given the reachability latches.  A  *)
(* paired TV is the signal of steps 2 to 4.                                *)
Gate(s, ever, now, seen) ==
  LET tvPaired == PairedDeviceTypes # {} IN
  \/ s = 1 /\ mem.pro # NoPro
  \/ s = 2 /\ (tvPaired \/ (ever /\ ~now))
  \/ s = 3 /\ (tvPaired \/ seen)
  \/ s = 4 /\ tvPaired
  \/ s = 5 /\ now
  \/ s = 6 /\ driving

(* recompute advances over every step whose signal is there.               *)
Reached(ever, now, seen) ==
  CHOOSE s \in step .. stepDone :
    /\ s = stepDone \/ ~Gate(s, ever, now, seen)
    /\ \A r \in step .. (s - 1) : Gate(r, ever, now, seen)

(* recompute under setupStatus.mu with the given latches.  Arriving at     *)
(* stepDone commits the configuration in the same critical section; the    *)
(* result of that Commit is only logged.                                   *)
Recompute(ever, now, seen) ==
  /\ saver # "wizard"
  /\ step # stepDone => Unlocked
  /\ everReachable' = ever /\ proReachable' = now /\ tvDescriptorSeen' = seen
  /\ step' = Reached(ever, now, seen)
  /\ IF step' = stepDone /\ step # stepDone
     THEN Commit("wizard")
     ELSE UNCHANGED storeVars

RecomputeNow == Recompute(everReachable, proReachable, tvDescriptorSeen)
SetReachable(b) == Recompute(everReachable \/ b, b, tvDescriptorSeen)

-----------------------------------------------------------------------------
(* POST /api.  Requests that are not the TV's change nothing.              *)

(* The lookup: a known devicetype is answered with its user at once.       *)
PairRequest(h, t) ==
  /\ pc[h] = "idle"
  /\ Unlocked
  /\ \/ /\ \E u \in APIUserByDeviceType(t) : acked' = acked \cup {u.name}
        /\ UNCHANGED <<pc, user>>
     \/ /\ APIUserByDeviceType(t) = {}
        /\ pc' = [pc EXCEPT ![h] = "mint"]
        /\ user' = [user EXCEPT ![h] = [NoUser EXCEPT !.type = t]]
        /\ UNCHANGED acked
  /\ UNCHANGED <<storeVars, wizardVars, link, envVars>>

(* A user with a fresh random name, added in a second lock section.        *)
Mint(h) ==
  /\ pc[h] = "mint"
  /\ \E n \in Names \ (NamesIn(mem) \cup NamesIn(disk) \cup acked) :
       LET u == [user[h] EXCEPT !.name = n] IN
       /\ AddAPIUser(h, u)
       /\ user' = [user EXCEPT ![h] = u]
  /\ pc' = [pc EXCEPT ![h] = IF persist THEN "saving" ELSE "saved"]
  /\ UNCHANGED <<wizardVars, link, acked, envVars>>

(* The user is saved: the answer, and then OnPair.                         *)
Answer(h) ==
  /\ up /\ pc[h] = "saved"
  /\ acked' = acked \cup {user[h].name}
  /\ RecomputeNow
  /\ pc' = [pc EXCEPT ![h] = "idle"]
  /\ user' = [user EXCEPT ![h] = NoUser]
  /\ UNCHANGED <<link, envVars>>

(* The TV fetches /description.xml; it counts only while step 3 is active. *)
DescriptorFetch ==
  /\ up /\ step = 3
  /\ Recompute(everReachable, proReachable, TRUE)
  /\ UNCHANGED <<link, pc, user, acked, envVars>>

-----------------------------------------------------------------------------
(* The link goroutine and the streamer.                                    *)

(* autoPairPro got the credentials of a Pro.                               *)
PairPro(v) ==
  /\ link = "pairing" /\ proUp
  /\ SetPro("link", v)
  /\ link' = "paired"
  /\ UNCHANGED <<wizardVars, pc, user, acked, envVars>>

(* autoPairPro moves the wizard past step 1 and starts the watcher.        *)
StartWatcher ==
  /\ up /\ link = "paired" /\ saver # "link"
  /\ RecomputeNow
  /\ link' = "setup"
  /\ UNCHANGED <<pc, user, acked, envVars>>

(* A tick of the watcher that autoPairPro started.  An answer proves the   *)
(* Pro up; a tick may also miss a Pro that is up (throttled discovery).    *)
Tick(b) ==
  /\ up /\ link = "setup" /\ saver # "link"
  /\ b => proUp
  /\ SetReachable(b)
  /\ UNCHANGED <<link, pc, user, acked, envVars>>

(* A tick that finds the Pro elsewhere stores its new address.             *)
Reconnect(v) ==
  /\ link \in {"setup", "steady"} /\ proUp
  /\ v # mem.pro
  /\ SetPro("link", v)
  /\ UNCHANGED <<wizardVars, link, pc, user, acked, envVars>>

(* The streamer persists the id of its entertainment configuration.        *)
SaveEnt(id) ==
  /\ mem.pro # NoPro
  /\ SaveEntConfigID("streamer", id)
  /\ UNCHANGED <<wizardVars, link, pc, user, acked, envVars>>

-----------------------------------------------------------------------------
(* The steps of a save.  A handler learns how its save ended.              *)
SaveEnds(result) ==
  pc' = [h \in Handlers |-> IF saver = h THEN result ELSE pc[h]]

SaveWrites ==
  /\ WriteTemp
  /\ UNCHANGED <<wizardVars, link, pc, user, acked, envVars>>

SaveSucceeds ==
  /\ Rename
  /\ SaveEnds("saved")
  /\ UNCHANGED <<wizardVars, link, user, acked, envVars>>

(* Error 901 to the TV: its handler is done, the user stays in memory.     *)
SaveErrs ==
  /\ fails < MaxFails
  /\ SaveFails
  /\ SaveEnds("idle")
  /\ fails' = fails + 1
  /\ UNCHANGED <<wizardVars, link, user, acked, driving, proUp, crashes>>

(* The process dies.  What the TV was given and no file holds is lost.     *)
ProcessCrash ==
  /\ crashes < MaxCrashes
  /\ Crash
  /\ crashes' = crashes + 1
  /\ step' = 1
  /\ everReachable' = FALSE /\ proReachable' = FALSE /\ tvDescriptorSeen' = FALSE
  /\ link' = "pairing"
  /\ pc' = [h \in Handlers |-> "idle"]
  /\ user' = [h \in Handlers |-> NoUser]
  /\ acked' = acked \cap NamesIn(disk)
  /\ driving' = FALSE
  /\ UNCHANGED <<proUp, fails>>

(* main: a loaded file starts at stepDone, with a watcher that does not    *)
(* report to the wizard; without a paired Pro autoPairPro starts.          *)
ProcessStart ==
  /\ Load
  /\ step' = IF disk # NoFile THEN stepDone ELSE 1
  /\ link' = IF mem'.pro # NoPro THEN "steady" ELSE "pairing"
  /\ UNCHANGED <<everReachable, proReachable, tvDescriptorSeen, pc, user, acked, envVars>>

-----------------------------------------------------------------------------
(* The TV drives the lights once it is authorised and a Pro is there.      *)
TVDrives ==
  /\ Unlocked /\ ~driving
  /\ mem.pro # NoPro
  /\ \E n \in acked : HasAPIUser(n)
  /\ driving' = TRUE
  /\ UNCHANGED <<storeVars, wizardVars, link, pc, user, acked, proUp, crashes, fails>>

TVStops ==
  /\ driving
  /\ driving' = FALSE
  /\ UNCHANGED <<storeVars, wizardVars, link, pc, user, acked, proUp, crashes, fails>>

ProPower ==
  /\ proUp' = ~proUp
  /\ UNCHANGED <<storeVars, wizardVars, link, pc, user, acked, driving, crashes, fails>>

Next ==
  \/ \E h \in Handlers : (\E t \in DeviceTypes : PairRequest(h, t)) \/ Mint(h) \/ Answer(h)
  \/ DescriptorFetch
  \/ (\E v \in Pros : PairPro(v) \/ Reconnect(v)) \/ StartWatcher
  \/ \E b \in BOOLEAN : Tick(b)
  \/ \E id \in EntIDs \cup {NoEnt} : SaveEnt(id)
  \/ SaveWrites \/ SaveSucceeds \/ SaveErrs
  \/ ProcessCrash \/ ProcessStart
  \/ TVDrives \/ TVStops \/ ProPower

Spec == Init /\ [][Next]_vars

(* A save ends, a handler answers, the watcher is started and keeps        *)
(* ticking; a Pro that stays up is found by infinitely many ticks, which   *)
(* module ProLink shows (FollowsPro).                                      *)
Fairness ==
  /\ WF_vars(SaveWrites) /\ WF_vars(SaveSucceeds)
  /\ \A h \in Handlers : WF_vars(Answer(h))
  /\ WF_vars(StartWatcher)
  /\ WF_vars(Tick(TRUE))

FairSpec == Spec /\ Fairness

-----------------------------------------------------------------------------
TypeOK ==
  /\ up \in BOOLEAN /\ persist \in BOOLEAN
  /\ mem \in Config
  /\ disk \in Config \cup {NoFile} /\ temp \in Config \cup {NoFile}
  /\ saver \in Goroutines \cup {NoOne}
  /\ unsaved \subseteq Names /\ acked \subseteq Names
  /\ step \in 1 .. stepDone
  /\ everReachable \in BOOLEAN /\ proReachable \in BOOLEAN /\ tvDescriptorSeen \in BOOLEAN
  /\ link \in {"pairing", "paired", "setup", "steady"}
  /\ pc \in [Handlers -> {"idle", "mint", "saving", "saved"}]
  /\ user \in [Handlers -> [name : Names \cup {NoOne}, type : DeviceTypes \cup {NoOne}]]
  /\ driving \in BOOLEAN /\ proUp \in BOOLEAN
  /\ crashes \in 0 .. MaxCrashes /\ fails \in 0 .. MaxFails

(* The configuration file's existence means that the setup is complete     *)
(* (Load): no crash and no failing save ever leaves a file without a       *)
(* paired Pro and a paired TV, although both are paired long before the    *)
(* file is first written.                                                  *)
FileIsComplete == disk # NoFile => disk.pro # NoPro /\ disk.users # {}

(* A username the TV was given is authorised for as long as the process    *)
(* runs, and by any later process that finds a file: whatever goroutine is *)
(* saving, a crash at this moment loses no pairing the TV relies on,       *)
(* unless its own save failed.                                             *)
AckedAuthorised ==
  /\ up => acked \subseteq NamesIn(mem)
  /\ disk # NoFile => acked \subseteq NamesIn(disk) \cup unsaved

(* The store is an atomic durable value: the file only ever changes to     *)
(* exactly what memory holds at that moment, whatever the interleaving of  *)
(* saves, failing saves, crashes and restarts.                             *)
Durable == INSTANCE DurableStore WITH
  running <- up, volatile <- mem, durable <- disk,
  Values <- Config, Fresh <- Fresh, None <- NoFile

StoreIsAtomic == Durable!Spec

(* A wizard whose conditions hold from some moment on (the Pro stays up, a *)
(* TV is paired and drives the lights) completes, whatever happened before *)
(* and in whatever order: power cycles, early pairings, missed descriptor  *)
(* fetches, restarts.                                                      *)
WizardFinishes ==
  <>[](up /\ proUp /\ driving) => <>[](step = stepDone)
=============================================================================
