---------------------------- MODULE ConfigStore ----------------------------
(***************************************************************************)
(* The persistent configuration (internal/config/config.go): the in-memory *)
(* Config behind c.mu, and the file that save replaces atomically.         *)
(*                                                                         *)
(* A fresh install keeps everything in memory (persist is FALSE) until     *)
(* Commit; from then on every change is written through.  A save runs in   *)
(* three steps under c.mu: the change itself, the temporary file, and the  *)
(* rename.  The process may die between any two of them.  Module Setup     *)
(* composes these steps with the goroutines that take them.                *)
(***************************************************************************)
EXTENDS FiniteSets

CONSTANTS
  Names,        \* usernames that may be minted
  DeviceTypes,  \* devicetypes TVs pair with
  Pros,         \* Hue Bridge Pro pairings (host, keys and certificate)
  NoPro,
  EntIDs,       \* ids of relume-tv's entertainment configuration
  NoEnt,
  NoFile,
  NoOne         \* nobody holds c.mu

ASSUME StoreAssumption ==
  /\ NoPro \notin Pros /\ NoEnt \notin EntIDs
  /\ NoFile \notin [users : SUBSET [name : Names, type : DeviceTypes],
                    pro : Pros \cup {NoPro}, ent : EntIDs \cup {NoEnt}]

VARIABLES
  up,       \* the process runs
  mem,      \* the in-memory Config
  persist,  \* c.persist
  disk,     \* the configuration file
  temp,     \* the temporary file of a save
  saver,    \* the goroutine inside save, which holds c.mu
  unsaved   \* history: usernames a failed save left in memory only

storeVars == <<up, mem, persist, disk, temp, saver, unsaved>>

APIUser == [name : Names, type : DeviceTypes]
Config == [users : SUBSET APIUser, pro : Pros \cup {NoPro}, ent : EntIDs \cup {NoEnt}]
Fresh == [users |-> {}, pro |-> NoPro, ent |-> NoEnt]

(* The usernames a Config, or the absence of a file, authorises.           *)
NamesIn(c) == IF c = NoFile THEN {} ELSE {u.name : u \in c.users}

StoreInit ==
  /\ up = TRUE /\ mem = Fresh /\ persist = FALSE
  /\ disk = NoFile /\ temp = NoFile
  /\ saver = NoOne /\ unsaved = {}

(* Mutant: the Config is read and changed without c.mu.                    *)
NoMutex == up

(* c.mu can be taken.  Every reader and writer of the Config takes it.     *)
Unlocked == up /\ saver = NoOne

(* The readers.                                                            *)
HasAPIUser(name) == name \in NamesIn(mem)
APIUserByDeviceType(t) == {u \in mem.users : u.type = t}
PairedDeviceTypes == {u.type : u \in mem.users}

-----------------------------------------------------------------------------
(* Mutant: every change is written through, the setup complete or not.     *)
AlwaysWrites(keep) == TRUE

(* save writes only once the setup is committed, and returns nil before.   *)
Writes(keep) == keep

(* A change of the Config by goroutine p, followed by save.                *)
Change(p, c, keep) ==
  /\ Unlocked
  /\ mem' = c
  /\ persist' = keep
  /\ saver' = IF Writes(keep) THEN p ELSE NoOne
  /\ UNCHANGED <<up, disk, temp, unsaved>>

Commit(p) == Change(p, mem, TRUE)

(* Mutant: the user is added and not saved.                                *)
AddUnsaved(p, u) ==
  /\ Unlocked
  /\ mem' = [mem EXCEPT !.users = @ \cup {u}]
  /\ UNCHANGED <<up, persist, disk, temp, saver, unsaved>>

AddAPIUser(p, u) == Change(p, [mem EXCEPT !.users = @ \cup {u}], persist)
SetPro(p, v) == Change(p, [mem EXCEPT !.pro = v], persist)

(* An unchanged id is not written again.                                   *)
SaveEntConfigID(p, id) ==
  IF mem.ent = id
  THEN Unlocked /\ UNCHANGED storeVars
  ELSE Change(p, [mem EXCEPT !.ent = id], persist)

(* fsx.WriteFileAtomic: the marshalled Config in a temporary file, synced, *)
(* and then renamed over the configuration file.                           *)
WriteTemp ==
  /\ up /\ saver # NoOne /\ temp = NoFile
  /\ temp' = mem
  /\ UNCHANGED <<up, mem, persist, disk, saver, unsaved>>

Rename ==
  /\ up /\ saver # NoOne /\ temp # NoFile
  /\ disk' = temp
  /\ temp' = NoFile
  /\ saver' = NoOne
  /\ unsaved' = {}
  /\ UNCHANGED <<up, mem, persist>>

(* Any step of save may fail; the change stays in memory.                  *)
SaveFails ==
  /\ up /\ saver # NoOne
  /\ temp' = NoFile
  /\ saver' = NoOne
  /\ unsaved' = NamesIn(mem) \ NamesIn(disk)
  /\ UNCHANGED <<up, mem, persist, disk>>

(* The process dies: memory is lost, a temporary file may stay behind.     *)
Crash ==
  /\ up
  /\ up' = FALSE
  /\ mem' = Fresh /\ persist' = FALSE
  /\ saver' = NoOne
  /\ unsaved' = {}
  /\ UNCHANGED <<disk, temp>>

(* Load removes orphaned temporary files; the file's existence means that  *)
(* the setup is complete.                                                  *)
Load ==
  /\ ~up
  /\ up' = TRUE
  /\ temp' = NoFile
  /\ mem' = IF disk = NoFile THEN Fresh ELSE disk
  /\ persist' = (disk # NoFile)
  /\ UNCHANGED <<disk, saver, unsaved>>
=============================================================================
