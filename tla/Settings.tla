------------------------------ MODULE Settings ------------------------------
(***************************************************************************)
(* How a settings save takes effect.  The store's mutex is held from the   *)
(* first check of the caller to the publication of the candidate; what the *)
(* requests read, the runtime configuration and the pool, is swapped one   *)
(* after the other before that.  What a request makes of such a save is in *)
(* Proxy, and what a user's sessions make of it is in Access.              *)
(*                                                                         *)
(* A published configuration or pool is the document it was derived from.  *)
(* The file is written under another name, synced, and renamed; then the   *)
(* directory is synced, and an error of that last step is ignored.  The    *)
(* process may end between any two steps, alone or with the power, and the *)
(* next one reads the file without a sync of the directory.                *)
(***************************************************************************)
EXTENDS Config

CONSTANTS
  Handler,    \* the tasks that serve the settings forms
  Found,      \* the documents the first start may find
  Saves,      \* bound: saves in all
  Nothing     \* no document

ASSUME SettingsAssumption ==
  /\ Nothing \notin Document
  /\ \A doc \in Found : doc \in Document /\ Valid(doc)
  /\ Saves \in Nat

VARIABLES
  store,      \* the document of record, inside its mutex
  saves,      \* the saves begun so far
  cfg,        \* the document of the runtime configuration in force
  pool,       \* the document of the pool in force
  setup,      \* setup_required
  disk,       \* the configuration file
  saver       \* where each handler stands

vars == <<store, saves, cfg, pool, setup, disk, saver>>

InForce == <<store, cfg, pool, setup>>

\* file: what config.json leads to, Nothing if to data that is not synced.
\* durable: what it leads to after a power loss.  tmp: config.json.tmp.
\* behind: history, that the sync of the last rename failed or was never made.
Disk ==
  [ file : Document \cup {Nothing}, durable : Document,
    tmp : Document \cup {Nothing}, behind : BOOLEAN ]

\* The steps of commit, in order, between one to get there and one to leave.
Saving == {"create", "rename", "dirsync", "cfg", "pool", "publish"}

\* then: what a handler does once it has let go of the mutex.
Saver ==
  [ pc : Saving \cup {"idle", "hash", "after"},
    cand : Document \cup {Nothing}, then : {"answer", "open"} ]

NoSave == [pc |-> "idle", cand |-> Nothing, then |-> "answer"]

TypeOK ==
  /\ store \in Document /\ cfg \in Document /\ pool \in Document
  /\ saves \in 0 .. Saves
  /\ setup \in BOOLEAN
  /\ disk \in Disk
  /\ saver \in [Handler -> Saver]

Init ==
  /\ \E doc \in Found :
       /\ store = doc /\ cfg = doc /\ pool = doc /\ setup = ~Claimed(doc)
       /\ disk = [file |-> doc, durable |-> doc, tmp |-> Nothing, behind |-> FALSE]
  /\ saves = 0
  /\ saver = [h \in Handler |-> NoSave]

-----------------------------------------------------------------------------
(* The forms.                                                              *)

At(h, pc) == saver[h].pc = pc
Go(h, pc) == saver' = [saver EXCEPT ![h].pc = pc]
Leave(h) == saver' = [saver EXCEPT ![h] = NoSave]

FreeOnceRenamed == \A h \in Handler : saver[h].pc \notin {"create", "rename"}

\* Nobody holds the store's mutex.
Free == \A h \in Handler : saver[h].pc \notin Saving

\* The candidate is built from the store and validated; a save begins.  A form
\* that is refused changes nothing.
Commit(h, candidates, then) ==
  /\ Free /\ saves < Saves
  /\ \E cand \in candidates :
       /\ Valid(cand)
       /\ saver' = [saver EXCEPT ![h] = [pc |-> "create", cand |-> cand, then |-> then]]
  /\ saves' = saves + 1
  /\ UNCHANGED <<InForce, disk>>

NimKeysForm(h) == At(h, "idle") /\ \E u \in Name : Commit(h, NimKeys(store, u), "answer")
ClientsForm(h) == At(h, "idle") /\ \E u \in Name : Commit(h, Clients(store, u), "answer")
UpstreamsForm(h) == At(h, "idle") /\ \E u \in Name : Commit(h, Upstreams(store, u), "answer")
ModelsForm(h) == At(h, "idle") /\ \E u \in Name : Commit(h, Models(store, u), "answer")

\* The server, limits, history and governor forms.
SectionForm(h) == At(h, "idle") /\ \E u \in Name : Commit(h, Section(store, u), "answer")

LocaleForm(h) == At(h, "idle") /\ \E u \in Name : Commit(h, DefaultLocale(store, u), "answer")

\* The hash is made before the mutex is taken for the last time.
UsersForm(h) ==
  /\ At(h, "idle")
  /\ \E u \in Name, hash \in Hash : Commit(h, Users(store, u, hash), "answer")

\* Access says what is checked before it.
AccountForm(h) ==
  /\ At(h, "idle")
  /\ \E u \in Name, hash \in Hash : Commit(h, Account(store, u, hash), "answer")

\* A claim: setup_required is read, and a hash is made without the mutex.
SetupHash(h) ==
  /\ At(h, "idle") /\ setup
  /\ Go(h, "hash")
  /\ UNCHANGED <<InForce, saves, disk>>

SetupForm(h) ==
  /\ At(h, "hash")
  /\ \E u \in Name, hash \in Hash : Commit(h, SetupSubmit(store, u, hash), "open")

\* Another claim was first, or the rulebook refuses this one.
SetupRefused(h) ==
  /\ At(h, "hash") /\ Free
  /\ Leave(h)
  /\ UNCHANGED <<InForce, saves, disk>>

-----------------------------------------------------------------------------
(* commit, with the mutex held.                                            *)

WriteUnsynced(h) ==
  /\ At(h, "create")
  /\ disk' = [disk EXCEPT !.tmp = Nothing]
  /\ Go(h, "rename") \/ Leave(h)
  /\ UNCHANGED <<InForce, saves>>

WriteUnchecked(h) ==
  /\ At(h, "create")
  /\ \/ disk' = [disk EXCEPT !.tmp = saver[h].cand] /\ Go(h, "rename")
     \/ disk' = [disk EXCEPT !.tmp = Nothing] /\ Go(h, "cfg")
  /\ UNCHANGED <<InForce, saves>>

\* The old temporary file is removed; the new one is written and synced, or is
\* left in pieces by an error that ends the save.
Write(h) ==
  /\ At(h, "create")
  /\ \/ /\ disk' = [disk EXCEPT !.tmp = saver[h].cand]
        /\ Go(h, "rename")
     \/ /\ disk' = [disk EXCEPT !.tmp = Nothing]
        /\ Leave(h)
  /\ UNCHANGED <<InForce, saves>>

Rename(h) ==
  /\ At(h, "rename")
  /\ \/ /\ disk' = [disk EXCEPT !.file = disk.tmp, !.tmp = Nothing]
        /\ Go(h, "dirsync")
     \/ /\ disk' = disk
        /\ Leave(h)
  /\ UNCHANGED <<InForce, saves>>

SyncDirectory(h) ==
  /\ At(h, "dirsync")
  /\ \/ disk' = [disk EXCEPT !.durable = disk.file, !.behind = FALSE]
     \/ disk' = [disk EXCEPT !.behind = TRUE]
  /\ Go(h, "cfg")
  /\ UNCHANGED <<InForce, saves>>

SwapConfig(h) ==
  /\ At(h, "cfg")
  /\ cfg' = saver[h].cand
  /\ Go(h, "pool")
  /\ UNCHANGED <<store, saves, pool, setup, disk>>

SwapPool(h) ==
  /\ At(h, "pool")
  /\ pool' = saver[h].cand
  /\ Go(h, "publish")
  /\ UNCHANGED <<store, saves, cfg, setup, disk>>

\* The candidate becomes the store's truth, and the mutex is released.
Publish(h) ==
  /\ At(h, "publish")
  /\ store' = saver[h].cand
  /\ saver' = [saver EXCEPT ![h].pc = "after", ![h].cand = Nothing]
  /\ UNCHANGED <<saves, cfg, pool, setup, disk>>

\* After the mutex: the answer, and the claim opens the proxy.
After(h) ==
  /\ At(h, "after")
  /\ setup' = (setup /\ saver[h].then # "open")
  /\ Leave(h)
  /\ UNCHANGED <<store, saves, cfg, pool, disk>>

-----------------------------------------------------------------------------
(* The process and its disk.                                               *)

\* The directory may reach the disk of itself.
WriteBack ==
  /\ disk.durable # disk.file
  /\ disk' = [disk EXCEPT !.durable = disk.file, !.behind = FALSE]
  /\ UNCHANGED <<InForce, saves, saver>>

\* load: the next process starts from the document it finds.
Start(doc) ==
  /\ store' = doc /\ cfg' = doc /\ pool' = doc /\ setup' = ~Claimed(doc)
  /\ saver' = [h \in Handler |-> NoSave]
  /\ UNCHANGED saves

\* The process ends, and the next one removes the temporary file.  What config.json
\* leads to is read and not synced: a rename whose sync is missing goes on missing it.
Crash ==
  /\ disk.file # Nothing
  /\ Start(disk.file)
  /\ disk' = [disk EXCEPT !.tmp = Nothing, !.behind = @ \/ disk.durable # disk.file]

\* The power is lost, and with it what has not reached the disk.
PowerLoss ==
  /\ Start(disk.durable)
  /\ disk' = [file |-> disk.durable, durable |-> disk.durable, tmp |-> Nothing, behind |-> FALSE]

-----------------------------------------------------------------------------

Form(h) ==
  \/ NimKeysForm(h) \/ ClientsForm(h) \/ UpstreamsForm(h) \/ ModelsForm(h)
  \/ SectionForm(h) \/ LocaleForm(h) \/ UsersForm(h) \/ AccountForm(h)
  \/ SetupHash(h) \/ SetupForm(h) \/ SetupRefused(h)

Save(h) ==
  \/ Write(h) \/ Rename(h) \/ SyncDirectory(h) \/ SwapConfig(h) \/ SwapPool(h)
  \/ Publish(h) \/ After(h)

Next ==
  \/ \E h \in Handler : Form(h) \/ Save(h)
  \/ WriteBack \/ Crash \/ PowerLoss

Spec == Init /\ [][Next]_vars

-----------------------------------------------------------------------------
(* Properties.                                                             *)

\* "A failed disk write applies nothing" (settings.rs), and a save that worked
\* applies everything: between saves the runtime configuration, the pool, the
\* store and the file are one document, and nothing is in force, at any moment,
\* that the file does not hold or held before the save under way.
PublishedWhole ==
  /\ Free => cfg = store /\ pool = store /\ disk.file = store
  /\ \A h \in Handler : saver[h].pc \in Saving =>
       /\ {cfg, pool} \subseteq {store, saver[h].cand}
       /\ pool # store => cfg = pool
       /\ cfg # store => disk.file = cfg

\* "A crash at any point leaves either the old file or the new one, never a torn
\* mix" (config.rs): both are valid, so that the process starts.  They differ only
\* between the rename and its sync, unless that sync has failed or a process ended
\* before it: then an older file may come back until the directory reaches the disk.
CrashSafe ==
  /\ \A doc \in {disk.file, disk.durable} : doc # Nothing /\ Valid(doc)
  /\ disk.durable # disk.file =>
       disk.behind \/ \E h \in Handler : At(h, "dirsync") /\ disk.durable = store

\* Some lane of a superuser is on, and every key belongs to a user there is.
KeepsFloor(doc) ==
  /\ \E lane \in PoolSpecs(doc) : lane.enabled /\ lane.owner \in Superusers(doc)
  /\ Owned(doc)

\* Each claimed configuration and pool the proxy may be running with, in the middle
\* of a save or after any restart, keeps the pool floor, and a removed user's keys
\* go with them.  While the proxy is open all of them are claimed; only a power loss
\* may close it again, by taking back a claim whose rename was never synced.
FloorKept ==
  /\ \A doc \in {store, cfg, pool, disk.durable} : Claimed(doc) => KeepsFloor(doc)
  /\ ~setup => /\ \A doc \in {store, cfg, pool, disk.file} : Claimed(doc)
               /\ Claimed(disk.durable) \/ disk.behind

\* "Two claimers raced; the store lock made the first win whole" (settings.rs):
\* who claimed the proxy stays its superuser, whoever else was hashing at the
\* time, whatever the admins do, and through every restart.  A power loss may take
\* back the whole claim, if its rename was never synced; it never brings another.
OneClaim ==
  [][ Claimed(store) => \/ Superusers(store') = Superusers(store)
                        \/ PowerLoss /\ disk.behind /\ ~Claimed(store') ]_vars

\* The page and the forms are of one mind, though each asks in its own way: a key
\* is shown to a user exactly if they may remove it, and it has the padlock exactly
\* if the rulebook would refuse to have it removed or switched off.
PageMatchesForms ==
  \A u \in Names(store.users) :
    LET cands == NimKeys(store, u)
        gone(k) == {cand \in cands : k \notin cand.keys}
    IN  /\ {row.key : row \in ApiConfig(store, u).keys} = {k \in store.keys : gone(k) # {}}
        /\ Claimed(store) =>
             \A row \in ApiConfig(store, u).keys :
               \A cand \in gone(row.key) : Valid(cand) <=> ~row.guarded

\* Some user may have a form make the one of the other, and the rulebook accepts it.
Follows(doc, cand) ==
  /\ \E u \in Name :
       \/ cand \in NimKeys(doc, u) \/ cand \in Clients(doc, u) \/ cand \in Upstreams(doc, u)
       \/ cand \in Models(doc, u) \/ cand \in Section(doc, u) \/ cand \in DefaultLocale(doc, u)
       \/ \E hash \in Hash :
            \/ cand \in Users(doc, u, hash) \/ cand \in Account(doc, u, hash)
            \/ cand \in SetupSubmit(doc, u, hash)
  /\ Valid(cand)

\* The save that holds the mutex.
Underway ==
  IF Free THEN Nothing ELSE saver[CHOOSE h \in Handler : saver[h].pc \in Saving].cand

\* Its directory could not be synced.
SyncFailed == disk.behind /\ \E h \in Handler : saver[h].pc \in {"cfg", "pool", "publish"}

Service == INSTANCE SettingsService WITH
  document <- store, next <- Underway, file <- disk.file,
  past <- {disk.durable} \ {disk.file}, unsynced <- SyncFailed

\* Saves that race never undo each other.  A process that ends between any two steps
\* of one leaves the document from before it or the one it made; and what is answered
\* outlasts a loss of power too, unless the sync of that very save failed.
ImplementsSettingsService == Service!Spec

\* "A crash at any point leaves either the old file or the new one" (config.rs), of a
\* save that is under way: what a loss of power leaves is what it replaces or brings.
OldOrNew ==
  \A h \in Handler : saver[h].pc \in Saving => disk.durable \in {store, saver[h].cand}

\* pool.rs says of a filter that matches no lane "The proxy pre-checks this case
\* and answers model_not_found without queueing, so this is unreachable there".
LaneForEveryRoute ==
  \A m \in Model : ~setup /\ cfg = pool /\ RouteModel(Runtime(cfg), m) # {} =>
    \E lane \in PoolSpecs(pool) : lane.endpoint \in RouteModel(Runtime(cfg), m)

\* "the new superuser adopts any orphans, restoring both the ownership rule and
\* the pool-floor invariant" (settings.rs): a store with no user can be claimed.
ClaimPossible ==
  setup /\ Free /\ store.users = {} =>
    \A u \in Name : \E hash \in Hash : \E cand \in SetupSubmit(store, u, hash) : Valid(cand)
=============================================================================
