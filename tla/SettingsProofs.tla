--------------------------- MODULE SettingsProofs ---------------------------
(***************************************************************************)
(* What a save leaves behind, for any number of handlers and documents: a  *)
(* save is published whole, a crash finds a valid file, an open proxy      *)
(* keeps the pool floor, and the claim is made once.                       *)
(***************************************************************************)
EXTENDS Settings, ConfigProofs

-----------------------------------------------------------------------------
(* The inductive invariant.                                                *)

\* The mutex has one holder.
OneSaver ==
  \A g, h \in Handler : saver[g].pc \in Saving /\ saver[h].pc \in Saving => g = h

\* What is saved is valid and does not replace the superuser; a claim has one.
CandidatesValid ==
  \A h \in Handler : saver[h].pc \in Saving =>
    /\ saver[h].cand \in Document /\ Valid(saver[h].cand)
    /\ Claimed(store) => Superusers(saver[h].cand) = Superusers(store)
    /\ saver[h].then = "open" => Claimed(saver[h].cand)

\* How far each step of commit has carried the candidate.
Carried(h) ==
  LET cand == saver[h].cand
  IN  /\ At(h, "create") => cfg = store /\ pool = store /\ disk.file = store
      /\ At(h, "rename") => cfg = store /\ pool = store /\ disk.file = store /\ disk.tmp = cand
      /\ At(h, "dirsync") => cfg = store /\ pool = store /\ disk.file = cand
      /\ At(h, "cfg") => cfg = store /\ pool = store /\ disk.file = cand
      /\ At(h, "pool") => cfg = cand /\ pool = store /\ disk.file = cand
      /\ At(h, "publish") => cfg = cand /\ pool = cand /\ disk.file = cand

Stages ==
  /\ Free => cfg = store /\ pool = store /\ disk.file = store
  /\ \A h \in Handler : Carried(h)

\* The documents a process may start from are valid, the older of them is there
\* only while the directory is not synced, and both have one superuser, if the
\* older has one.
DiskValid ==
  /\ Valid(store) /\ disk.durable \in Document /\ Valid(disk.durable)
  /\ disk.durable # disk.file =>
       disk.behind \/ \E h \in Handler : At(h, "dirsync") /\ disk.durable = store
  /\ Claimed(disk.durable) => Superusers(disk.file) = Superusers(disk.durable)

\* The proxy is opened by a claim that was published.
Opened ==
  /\ ~setup => Claimed(store)
  /\ \A h \in Handler : At(h, "after") /\ saver[h].then = "open" => Claimed(store)

IInv == TypeOK /\ OneSaver /\ CandidatesValid /\ Stages /\ DiskValid /\ Opened

-----------------------------------------------------------------------------
(* Moves of one handler.                                                   *)

\* A handler that moves leaves the others where they are.
LEMMA Moves ==
  ASSUME TypeOK, NEW h \in Handler
  PROVE  /\ \A pc : Go(h, pc) =>
              /\ \A g \in Handler : g # h => saver'[g] = saver[g]
              /\ saver'[h].pc = pc /\ saver'[h].cand = saver[h].cand
              /\ saver'[h].then = saver[h].then
         /\ Leave(h) =>
              /\ \A g \in Handler : g # h => saver'[g] = saver[g]
              /\ saver'[h] = NoSave
  BY DEF TypeOK, Saver, Go, Leave

\* Where a handler goes it may be.
LEMMA MovesTyped ==
  ASSUME TypeOK, NEW h \in Handler
  PROVE  /\ \A pc \in Saving \cup {"idle", "hash", "after"} :
              Go(h, pc) => saver' \in [Handler -> Saver]
         /\ Leave(h) => saver' \in [Handler -> Saver]
  BY DEF TypeOK, Saver, Go, Leave, NoSave

\* A handler that saves is the only one.
LEMMA TheSaver ==
  ASSUME IInv, NEW h \in Handler, saver[h].pc \in Saving
  PROVE  /\ \A g \in Handler : g # h => saver[g].pc \notin Saving
         /\ ~Free
         /\ saver[h].cand \in Document /\ Valid(saver[h].cand)
         /\ Claimed(store) => Superusers(saver[h].cand) = Superusers(store)
         /\ saver[h].then = "open" => Claimed(saver[h].cand)
  BY DEF IInv, OneSaver, CandidatesValid, Free

\* A step of commit that goes on to another, or gives up the save.
LEMMA SaveStep ==
  ASSUME IInv, NEW h \in Handler, saver[h].pc \in Saving, UNCHANGED <<store, setup>>,
         \A g \in Handler : g # h => saver'[g] = saver[g],
         \/ /\ saver'[h].pc \in Saving /\ saver'[h].cand = saver[h].cand
            /\ saver'[h].then = saver[h].then
         \/ saver'[h] = NoSave
  PROVE  OneSaver' /\ CandidatesValid' /\ Opened'
<1>1. \A g \in Handler : g # h => saver'[g].pc \notin Saving
  BY TheSaver
<1>2. NoSave.pc = "idle"
  BY DEF NoSave
<1>3. OneSaver'
  BY <1>1 DEF OneSaver
<1>4. CandidatesValid'
  BY <1>1, <1>2, TheSaver DEF CandidatesValid, Claimed, Superusers, Saving
<1>5. Opened'
  BY <1>2 DEF IInv, Opened, At, Claimed, Superusers, Saving
<1> QED
  BY <1>3, <1>4, <1>5

-----------------------------------------------------------------------------
(* The forms.                                                              *)

\* A save begins, of a candidate that is valid and keeps the superuser.
LEMMA CommitBegins ==
  ASSUME IInv, NEW h \in Handler, NEW candidates, NEW then \in {"answer", "open"},
         Commit(h, candidates, then),
         \A cand \in candidates : Valid(cand) =>
           /\ cand \in Document
           /\ Claimed(store) => Superusers(cand) = Superusers(store)
           /\ then = "open" => Claimed(cand)
  PROVE  IInv'
<1>1. /\ Free /\ saves < Saves /\ saves' = saves + 1
      /\ UNCHANGED <<store, cfg, pool, setup, disk>>
  BY DEF Commit, InForce
<1>2. PICK cand \in candidates :
        /\ Valid(cand)
        /\ saver' = [saver EXCEPT ![h] = [pc |-> "create", cand |-> cand, then |-> then]]
  BY DEF Commit
<1>3. /\ cand \in Document /\ Valid(cand)
      /\ Claimed(store) => Superusers(cand) = Superusers(store)
      /\ then = "open" => Claimed(cand)
  BY <1>2
<1>4. /\ \A g \in Handler : g # h => saver'[g] = saver[g]
      /\ saver'[h].pc = "create" /\ saver'[h].cand = cand /\ saver'[h].then = then
  BY <1>2 DEF IInv, TypeOK
<1>5. TypeOK'
  <2>1. [pc |-> "create", cand |-> cand, then |-> then] \in Saver
    BY <1>3 DEF Saver, Saving
  <2>2. saver' \in [Handler -> Saver]
    BY <1>2, <2>1 DEF IInv, TypeOK
  <2>3. saves' \in 0 .. Saves
    BY <1>1, SettingsAssumption DEF IInv, TypeOK
  <2> QED
    BY <1>1, <2>2, <2>3 DEF IInv, TypeOK
<1>6. \A g \in Handler : g # h => saver'[g].pc \notin Saving
  BY <1>1, <1>4 DEF Free
<1>7. OneSaver'
  BY <1>6 DEF OneSaver
<1>8. CandidatesValid'
  BY <1>1, <1>3, <1>4, <1>6 DEF CandidatesValid, Claimed, Superusers
<1>9. cfg = store /\ pool = store /\ disk.file = store
  BY <1>1 DEF IInv, Stages
<1>10. Stages'
  <2>1. ~Free'
    BY <1>4 DEF Free, Saving
  <2>2. \A g \in Handler : Carried(g)'
    BY <1>1, <1>4, <1>6, <1>9 DEF Carried, At, Saving
  <2> QED
    BY <2>1, <2>2 DEF Stages
<1>11. DiskValid'
  <2>1. \A g \in Handler : ~At(g, "dirsync")
    BY <1>1 DEF Free, At, Saving
  <2> QED
    BY <1>1, <2>1 DEF IInv, DiskValid
<1>12. Opened'
  BY <1>1, <1>4 DEF IInv, Opened, At, Claimed, Superusers
<1> QED
  BY <1>5, <1>7, <1>8, <1>10, <1>11, <1>12 DEF IInv

\* The forms of users.
LEMMA UserForms ==
  ASSUME IInv, NEW h \in Handler,
         \/ NimKeysForm(h) \/ ClientsForm(h) \/ UpstreamsForm(h) \/ ModelsForm(h)
         \/ SectionForm(h) \/ LocaleForm(h) \/ UsersForm(h) \/ AccountForm(h)
  PROVE  IInv'
<1>1. store \in Document /\ Valid(store)
  BY DEF IInv, TypeOK, DiskValid
<1>2. ASSUME NEW candidates, Commit(h, candidates, "answer"),
             \A cand \in candidates : cand \in Document /\ Superusers(cand) = Superusers(store)
      PROVE  IInv'
  BY <1>2, CommitBegins
<1>3. ASSUME NEW u \in Name, NEW candidates, Commit(h, candidates, "answer"),
             \/ candidates = NimKeys(store, u) \/ candidates = Clients(store, u)
             \/ candidates = Upstreams(store, u) \/ candidates = Models(store, u)
             \/ candidates = Section(store, u) \/ candidates = DefaultLocale(store, u)
      PROVE  IInv'
  BY <1>1, <1>2, <1>3, FormDocument
<1>4. ASSUME NEW u \in Name, NEW hash \in Hash, NEW candidates, Commit(h, candidates, "answer"),
             candidates = Users(store, u, hash) \/ candidates = Account(store, u, hash)
      PROVE  IInv'
  BY <1>1, <1>2, <1>4, UsersDocument, AccountDocument
<1> QED
  BY <1>3, <1>4 DEF NimKeysForm, ClientsForm, UpstreamsForm, ModelsForm, SectionForm, LocaleForm,
     UsersForm, AccountForm

\* The claim, and a visitor who does not get to it.
LEMMA SetupForms ==
  ASSUME IInv, NEW h \in Handler, SetupHash(h) \/ SetupForm(h) \/ SetupRefused(h)
  PROVE  IInv'
<1>1. store \in Document /\ Valid(store)
  BY DEF IInv, TypeOK, DiskValid
<1>2. CASE SetupForm(h)
  <2>1. PICK u \in Name, hash \in Hash : Commit(h, SetupSubmit(store, u, hash), "open")
    BY <1>2 DEF SetupForm
  <2>2. \A cand \in SetupSubmit(store, u, hash) :
          cand \in Document /\ Claimed(cand) /\ ~Claimed(store)
    BY <1>1, ClaimDocument DEF Claimed
  <2> QED
    BY <2>1, <2>2, CommitBegins
<1>3. CASE SetupHash(h) \/ SetupRefused(h)
  <2>1. saver[h].pc \notin Saving /\ UNCHANGED <<store, cfg, pool, setup, disk, saves>>
    BY <1>3 DEF SetupHash, SetupRefused, At, Saving, InForce
  <2>2. /\ \A g \in Handler : g # h => saver'[g] = saver[g]
        /\ saver'[h].pc \in {"idle", "hash"}
    BY <1>3, Moves DEF IInv, SetupHash, SetupRefused, NoSave
  <2>3. TypeOK'
    <3>1. saver' \in [Handler -> Saver]
      BY <1>3, MovesTyped DEF IInv, SetupHash, SetupRefused
    <3> QED
      BY <2>1, <3>1 DEF IInv, TypeOK
  <2>4. OneSaver'
    BY <2>2 DEF IInv, OneSaver, Saving
  <2>5. CandidatesValid'
    BY <2>1, <2>2 DEF IInv, CandidatesValid, Saving
  <2>6. Stages'
    <3>1. \A g \in Handler : Carried(g)'
      BY <2>1, <2>2 DEF IInv, Stages, Carried, At
    <3>2. Free' => Free
      BY <2>1, <2>2 DEF Free
    <3> QED
      BY <2>1, <3>1, <3>2 DEF IInv, Stages
  <2>7. DiskValid'
    BY <2>1, <2>2 DEF IInv, DiskValid, At, Saving
  <2>8. Opened'
    BY <2>1, <2>2 DEF IInv, Opened, At
  <2> QED
    BY <2>3, <2>4, <2>5, <2>6, <2>7, <2>8 DEF IInv
<1> QED
  BY <1>2, <1>3

-----------------------------------------------------------------------------
(* The steps of commit.                                                    *)

\* A step up to the sync of the directory: what is in force stays in force.
LEMMA FileSteps ==
  ASSUME IInv, NEW h \in Handler, Write(h) \/ Rename(h) \/ SyncDirectory(h)
  PROVE  IInv'
<1>1. /\ saver[h].pc \in {"create", "rename", "dirsync"} /\ saver[h].pc \in Saving
      /\ UNCHANGED <<store, cfg, pool, setup, saves>>
  BY DEF Write, Rename, SyncDirectory, At, Saving, InForce
<1>2. /\ \A g \in Handler : g # h => saver'[g] = saver[g] /\ saver[g].pc \notin Saving
      /\ saver[h].cand \in Document /\ Valid(saver[h].cand)
  BY <1>1, Moves, TheSaver DEF IInv, Write, Rename, SyncDirectory
<1>3. Carried(h) /\ cfg = store /\ pool = store
  BY <1>1 DEF IInv, Stages, Carried, At
<1>4. \/ /\ At(h, "create") /\ Go(h, "rename")
         /\ disk' = [disk EXCEPT !.tmp = saver[h].cand]
      \/ At(h, "create") /\ Leave(h) /\ disk' = [disk EXCEPT !.tmp = Nothing]
      \/ /\ At(h, "rename") /\ Go(h, "dirsync")
         /\ disk' = [disk EXCEPT !.file = disk.tmp, !.tmp = Nothing]
      \/ At(h, "rename") /\ Leave(h) /\ disk' = disk
      \/ /\ At(h, "dirsync") /\ Go(h, "cfg")
         /\ disk' = [disk EXCEPT !.durable = disk.file, !.behind = FALSE]
      \/ /\ At(h, "dirsync") /\ Go(h, "cfg")
         /\ disk' = [disk EXCEPT !.behind = TRUE]
  BY DEF Write, Rename, SyncDirectory
<1>5. \/ /\ saver'[h].pc \in Saving /\ saver'[h].cand = saver[h].cand
         /\ saver'[h].then = saver[h].then
      \/ saver'[h] = NoSave
  BY <1>4, Moves DEF IInv, Saving
<1>6. OneSaver' /\ CandidatesValid' /\ Opened'
  BY <1>1, <1>2, <1>5, SaveStep
<1>7. TypeOK'
  <2>1. saver' \in [Handler -> Saver]
    BY <1>4, MovesTyped DEF IInv, Saving
  <2>2. disk' \in Disk
    BY <1>2, <1>3, <1>4 DEF IInv, TypeOK, Disk, Carried
  <2> QED
    BY <1>1, <2>1, <2>2 DEF IInv, TypeOK
<1>8. NoSave.pc = "idle"
  BY DEF NoSave
<1>9. disk \in Disk
  BY DEF IInv, TypeOK
<1>10. Stages'
  <2>1. CASE Leave(h)
    <3>1. disk'.file = store /\ saver'[h] = NoSave
      BY <1>3, <1>4, <1>9, <2>1, Moves DEF Carried, At, Go, Leave, NoSave, IInv, TypeOK, Disk, Saver
    <3>2. \A g \in Handler : Carried(g)'
      BY <1>2, <1>8, <3>1 DEF Carried, At, Saving
    <3> QED
      BY <1>1, <1>3, <3>1, <3>2 DEF Stages
  <2>2. CASE At(h, "create") /\ Go(h, "rename") /\ disk' = [disk EXCEPT !.tmp = saver[h].cand]
    <3>1. /\ saver'[h].pc = "rename" /\ saver'[h].cand = saver[h].cand
          /\ disk'.file = store /\ disk'.tmp = saver[h].cand
      BY <1>3, <1>9, <2>2, Moves DEF Carried, IInv, Disk
    <3>2. \A g \in Handler : Carried(g)'
      BY <1>1, <1>2, <1>3, <3>1 DEF Carried, At, Saving
    <3> QED
      BY <3>1, <3>2 DEF Stages, Free, Saving
  <2>3. CASE /\ At(h, "rename") /\ Go(h, "dirsync")
             /\ disk' = [disk EXCEPT !.file = disk.tmp, !.tmp = Nothing]
    <3>1. /\ saver'[h].pc = "dirsync" /\ saver'[h].cand = saver[h].cand
          /\ disk'.file = saver[h].cand
      BY <1>3, <1>9, <2>3, Moves DEF Carried, IInv, Disk
    <3>2. \A g \in Handler : Carried(g)'
      BY <1>1, <1>2, <1>3, <3>1 DEF Carried, At, Saving
    <3> QED
      BY <3>1, <3>2 DEF Stages, Free, Saving
  <2>4. CASE At(h, "dirsync") /\ Go(h, "cfg") /\ disk'.file = disk.file
    <3>1. saver'[h].pc = "cfg" /\ saver'[h].cand = saver[h].cand /\ disk'.file = saver[h].cand
      BY <1>3, <2>4, Moves DEF Carried, IInv
    <3>2. \A g \in Handler : Carried(g)'
      BY <1>1, <1>2, <1>3, <3>1 DEF Carried, At, Saving
    <3> QED
      BY <3>1, <3>2 DEF Stages, Free, Saving
  <2> QED
    BY <1>4, <1>9, <2>1, <2>2, <2>3, <2>4 DEF Disk
<1>11. DiskValid'
  <2>1. \A g \in Handler : g # h => ~At(g, "dirsync") /\ ~At(g, "dirsync")'
    BY <1>2 DEF At, Saving
  <2>2. CASE At(h, "create") \/ Leave(h)
    <3>1. ~At(h, "dirsync")
      BY <1>4, <2>2 DEF At, Go, Leave, NoSave, IInv, TypeOK, Saver
    <3>2. disk'.file = disk.file /\ disk'.durable = disk.durable /\ disk'.behind = disk.behind
      BY <1>4, <1>9, <2>2, Moves, <1>8 DEF Disk, At, IInv
    <3> QED
      BY <1>1, <2>1, <3>1, <3>2 DEF IInv, DiskValid
  <2>3. CASE /\ At(h, "rename") /\ Go(h, "dirsync")
             /\ disk' = [disk EXCEPT !.file = disk.tmp, !.tmp = Nothing]
    <3>1. disk'.durable = disk.durable /\ disk'.behind = disk.behind /\ At(h, "dirsync")'
      BY <1>9, <2>3, Moves DEF Disk, IInv, At
    <3>2. disk.file = store /\ disk'.file = saver[h].cand
      BY <1>3, <1>9, <2>3 DEF Carried, Disk
    <3>3. disk.durable # store => disk.behind
      BY <2>1, <2>3, <3>2 DEF IInv, DiskValid, At
    <3>4. Claimed(disk.durable) => Superusers(saver[h].cand) = Superusers(disk.durable)
      <4>1. Claimed(disk.durable) => Superusers(store) = Superusers(disk.durable) /\ Claimed(store)
        BY <3>2 DEF IInv, DiskValid, Claimed
      <4>2. Claimed(store) => Superusers(saver[h].cand) = Superusers(store)
        BY <1>1, TheSaver
      <4> QED
        BY <4>1, <4>2
    <3> QED
      BY <1>1, <3>1, <3>2, <3>3, <3>4 DEF IInv, DiskValid
  <2>4. CASE /\ At(h, "dirsync") /\ Go(h, "cfg")
             /\ disk' = [disk EXCEPT !.durable = disk.file, !.behind = FALSE]
    <3>1. disk'.durable = saver[h].cand /\ disk'.file = saver[h].cand
      BY <1>3, <1>9, <2>4 DEF Carried, Disk
    <3> QED
      BY <1>1, <1>2, <3>1 DEF IInv, DiskValid
  <2>5. CASE At(h, "dirsync") /\ Go(h, "cfg") /\ disk' = [disk EXCEPT !.behind = TRUE]
    <3>1. disk'.durable = disk.durable /\ disk'.file = disk.file /\ disk'.behind
      BY <1>9, <2>5 DEF Disk
    <3> QED
      BY <1>1, <3>1 DEF IInv, DiskValid
  <2> QED
    BY <1>4, <2>2, <2>3, <2>4, <2>5
<1> QED
  BY <1>6, <1>7, <1>10, <1>11 DEF IInv

\* A swap of the runtime configuration or of the pool.
LEMMA Swaps ==
  ASSUME IInv, NEW h \in Handler, SwapConfig(h) \/ SwapPool(h)
  PROVE  IInv'
<1>1. /\ saver[h].pc \in {"cfg", "pool"} /\ saver[h].pc \in Saving
      /\ UNCHANGED <<store, setup, saves, disk>>
  BY DEF SwapConfig, SwapPool, At, Saving
<1>2. /\ \A g \in Handler : g # h => saver'[g] = saver[g] /\ saver[g].pc \notin Saving
      /\ saver[h].cand \in Document /\ Valid(saver[h].cand)
  BY <1>1, Moves, TheSaver DEF IInv, SwapConfig, SwapPool
<1>3. Carried(h)
  BY DEF IInv, Stages
<1>4. saver'[h].cand = saver[h].cand /\ saver'[h].then = saver[h].then
  BY Moves DEF IInv, SwapConfig, SwapPool
<1>5. \/ At(h, "cfg") /\ At(h, "pool")' /\ cfg' = saver[h].cand /\ pool' = pool
      \/ At(h, "pool") /\ At(h, "publish")' /\ pool' = saver[h].cand /\ cfg' = cfg
  BY Moves DEF IInv, SwapConfig, SwapPool, At
<1>6. OneSaver' /\ CandidatesValid' /\ Opened'
  BY <1>1, <1>2, <1>4, <1>5, SaveStep DEF At, Saving
<1>7. TypeOK'
  <2>1. saver' \in [Handler -> Saver]
    BY MovesTyped DEF IInv, SwapConfig, SwapPool, Saving
  <2> QED
    BY <1>1, <1>2, <1>5, <2>1 DEF IInv, TypeOK
<1>8. Stages'
  <2>1. \A g \in Handler : Carried(g)'
    BY <1>1, <1>2, <1>3, <1>4, <1>5 DEF Carried, At, Saving
  <2>2. ~Free'
    BY <1>5 DEF Free, At, Saving
  <2> QED
    BY <2>1, <2>2 DEF Stages
<1>9. DiskValid'
  <2>1. \A g \in Handler : ~At(g, "dirsync")
    BY <1>1, <1>2 DEF At, Saving
  <2> QED
    BY <1>1, <2>1 DEF IInv, DiskValid
<1> QED
  BY <1>6, <1>7, <1>8, <1>9 DEF IInv

\* The candidate becomes the store's.
LEMMA Publishes ==
  ASSUME IInv, NEW h \in Handler, Publish(h)
  PROVE  IInv'
<1>1. /\ At(h, "publish") /\ saver[h].pc \in Saving /\ store' = saver[h].cand
      /\ UNCHANGED <<cfg, pool, setup, saves, disk>>
      /\ saver' = [saver EXCEPT ![h].pc = "after", ![h].cand = Nothing]
  BY DEF Publish, At, Saving
<1>2. /\ \A g \in Handler : g # h => saver[g].pc \notin Saving
      /\ saver[h].cand \in Document /\ Valid(saver[h].cand)
      /\ Claimed(store) => Superusers(saver[h].cand) = Superusers(store)
      /\ saver[h].then = "open" => Claimed(saver[h].cand)
  BY <1>1, TheSaver
<1>3. /\ \A g \in Handler : g # h => saver'[g] = saver[g]
      /\ saver'[h].pc = "after" /\ saver'[h].then = saver[h].then
      /\ saver' \in [Handler -> Saver]
  BY <1>1, ZenonT(30) DEF IInv, TypeOK, Saver
<1>4. cfg = saver[h].cand /\ pool = saver[h].cand /\ disk.file = saver[h].cand
  BY <1>1 DEF IInv, Stages, Carried
<1>5. \A g \in Handler : saver'[g].pc \notin Saving
  BY <1>2, <1>3 DEF Saving
<1>6. TypeOK'
  BY <1>1, <1>2, <1>3 DEF IInv, TypeOK
<1>7. OneSaver' /\ CandidatesValid'
  BY <1>5 DEF OneSaver, CandidatesValid
<1>8. Stages'
  BY <1>1, <1>4, <1>5 DEF Stages, Carried, At, Saving
<1>9. DiskValid'
  <2>1. \A g \in Handler : ~At(g, "dirsync")
    BY <1>1, <1>2 DEF At, Saving
  <2> QED
    BY <1>1, <1>2, <2>1 DEF IInv, DiskValid
<1>10. Claimed(store) => Claimed(saver[h].cand)
  BY <1>2 DEF Claimed
<1>11. Opened'
  BY <1>1, <1>2, <1>3, <1>10 DEF IInv, Opened, At
<1> QED
  BY <1>6, <1>7, <1>8, <1>9, <1>11 DEF IInv

\* The end of a save.
LEMMA Afters ==
  ASSUME IInv, NEW h \in Handler, After(h)
  PROVE  IInv'
<1>1. /\ At(h, "after") /\ saver[h].pc \notin Saving /\ setup' = (setup /\ saver[h].then # "open")
      /\ UNCHANGED <<store, saves, cfg, pool, disk>>
  BY DEF After, At, Saving
<1>2. /\ \A g \in Handler : g # h => saver'[g] = saver[g]
      /\ saver'[h] = NoSave /\ saver' \in [Handler -> Saver]
  BY Moves, MovesTyped DEF IInv, After
<1>3. NoSave.pc = "idle"
  BY DEF NoSave
<1>4. setup' \in BOOLEAN
  BY <1>1, Zenon
<1>5. TypeOK'
  BY <1>1, <1>2, <1>4 DEF IInv, TypeOK
<1>6. OneSaver' /\ CandidatesValid'
  BY <1>1, <1>2, <1>3 DEF IInv, OneSaver, CandidatesValid, Saving
<1>7. Stages'
  <2>1. Free' => Free
    BY <1>1, <1>2 DEF Free
  <2>2. \A g \in Handler : Carried(g)'
    BY <1>1, <1>2, <1>3 DEF IInv, Stages, Carried, At
  <2> QED
    BY <1>1, <2>1, <2>2 DEF IInv, Stages
<1>8. DiskValid'
  BY <1>1, <1>2 DEF IInv, DiskValid, At
<1>9. Opened'
  <2>1. ~setup' => Claimed(store)
    BY <1>1 DEF IInv, Opened
  <2> QED
    BY <1>1, <1>2, <1>3, <2>1 DEF IInv, Opened, At
<1> QED
  BY <1>5, <1>6, <1>7, <1>8, <1>9 DEF IInv

\* The file is one of the documents of record.
LEMMA FileKnown ==
  ASSUME IInv
  PROVE  /\ disk.file \in Document /\ Valid(disk.file)
         /\ Claimed(store) => Superusers(disk.file) = Superusers(store)
<1>1. CASE Free
  BY <1>1 DEF IInv, TypeOK, Stages, DiskValid
<1>2. ASSUME NEW h \in Handler, saver[h].pc \in Saving
      PROVE  /\ disk.file \in Document /\ Valid(disk.file)
             /\ Claimed(store) => Superusers(disk.file) = Superusers(store)
  <2>1. disk.file = store \/ disk.file = saver[h].cand
    BY <1>2 DEF IInv, Stages, Carried, At, Saving
  <2> QED
    BY <1>2, <2>1, TheSaver DEF IInv, TypeOK, DiskValid
<1> QED
  BY <1>1, <1>2 DEF Free

\* The directory reaches the disk.
LEMMA WritesBack ==
  ASSUME IInv, WriteBack
  PROVE  IInv'
<1>1. disk.file \in Document /\ Valid(disk.file)
  BY FileKnown
<1>2. /\ UNCHANGED <<store, cfg, pool, setup, saves, saver>>
      /\ disk' = [disk EXCEPT !.durable = disk.file, !.behind = FALSE]
  BY DEF WriteBack, InForce
<1>3. disk' \in Disk /\ disk'.durable = disk.file /\ disk'.file = disk.file /\ disk'.tmp = disk.tmp
  BY <1>1, <1>2 DEF IInv, TypeOK, Disk
<1>4. TypeOK' /\ OneSaver' /\ CandidatesValid' /\ Opened'
  BY <1>2, <1>3 DEF IInv, TypeOK, OneSaver, CandidatesValid, Opened, At
<1>5. Stages'
  BY <1>2, <1>3 DEF IInv, Stages, Carried, At, Free
<1>6. DiskValid'
  BY <1>1, <1>2, <1>3 DEF IInv, DiskValid
<1> QED
  BY <1>4, <1>5, <1>6 DEF IInv

\* A process that starts from a valid document runs with it alone, whatever older
\* one the disk may still have.
LEMMA Starts ==
  ASSUME NEW doc \in Document, Valid(doc), TypeOK, Start(doc),
         disk' \in Disk, disk'.file = doc, Valid(disk'.durable),
         disk'.durable # doc => disk'.behind,
         Claimed(disk'.durable) => Superusers(doc) = Superusers(disk'.durable)
  PROVE  IInv'
<1>1. /\ store' = doc /\ cfg' = doc /\ pool' = doc /\ setup' = ~Claimed(doc)
      /\ saver' = [h \in Handler |-> NoSave] /\ saves' = saves
  BY DEF Start
<1>2. \A h \in Handler : saver'[h].pc = "idle" /\ saver'[h] \in Saver
  BY <1>1 DEF NoSave, Saver
<1>3. setup' \in BOOLEAN
  BY <1>1, Zenon
<1>4. TypeOK'
  BY <1>1, <1>2, <1>3 DEF TypeOK
<1>5. OneSaver' /\ CandidatesValid'
  BY <1>2 DEF OneSaver, CandidatesValid, Saving
<1>6. Stages'
  BY <1>1, <1>2 DEF Stages, Carried, At, Saving
<1>7. DiskValid'
  BY <1>1 DEF DiskValid, Disk
<1>8. Opened'
  <2>1. ~setup' => Claimed(doc)
    BY <1>1
  <2> QED
    BY <1>1, <1>2, <2>1 DEF Opened, At
<1> QED
  BY <1>4, <1>5, <1>6, <1>7, <1>8 DEF IInv

\* The process ends alone: what is durable stays as it was.
LEMMA Crashes ==
  ASSUME IInv, Crash
  PROVE  IInv'
<1>1. disk.file \in Document /\ Valid(disk.file)
  BY FileKnown
<1>2. disk \in Disk /\ TypeOK
  BY DEF IInv, TypeOK
<1>3. /\ Start(disk.file)
      /\ disk' = [disk EXCEPT !.tmp = Nothing, !.behind = disk.behind \/ disk.durable # disk.file]
  BY DEF Crash
<1>4. (disk.behind \/ disk.durable # disk.file) \in BOOLEAN
  BY <1>2, Zenon DEF Disk
<1>5. /\ disk' \in Disk /\ disk'.file = disk.file /\ disk'.durable = disk.durable
      /\ disk'.behind = (disk.behind \/ disk.durable # disk.file)
  BY <1>2, <1>3, <1>4 DEF Disk
<1>6. disk'.durable # disk.file => disk'.behind
  BY <1>5, Zenon
<1>7. /\ Valid(disk'.durable)
      /\ Claimed(disk'.durable) => Superusers(disk.file) = Superusers(disk'.durable)
  BY <1>5 DEF IInv, DiskValid
<1> QED
  BY <1>1, <1>2, <1>3, <1>5, <1>6, <1>7, Starts

\* The process ends with the power: what is durable is all there is.
LEMMA PowerLosses ==
  ASSUME IInv, PowerLoss
  PROVE  IInv'
<1>1. disk.durable \in Document /\ Valid(disk.durable) /\ TypeOK
  BY DEF IInv, DiskValid
<1>2. /\ Start(disk.durable)
      /\ disk' = [file |-> disk.durable, durable |-> disk.durable, tmp |-> Nothing, behind |-> FALSE]
  BY DEF PowerLoss
<1>3. /\ disk' \in Disk /\ disk'.file = disk.durable /\ disk'.durable = disk.durable
  BY <1>1, <1>2 DEF Disk
<1> QED
  BY <1>1, <1>2, <1>3, Starts

-----------------------------------------------------------------------------
(* The theorems.                                                           *)

LEMMA InitInvariant ==
  Init => IInv
<1> SUFFICES ASSUME Init PROVE IInv
  OBVIOUS
<1>1. PICK doc \in Found :
        /\ store = doc /\ cfg = doc /\ pool = doc /\ setup = ~Claimed(doc)
        /\ disk = [file |-> doc, durable |-> doc, tmp |-> Nothing, behind |-> FALSE]
  BY DEF Init
<1>2. saver = [h \in Handler |-> NoSave] /\ saves = 0
  BY DEF Init
<1>3. doc \in Document /\ Valid(doc) /\ saves \in 0 .. Saves
  BY <1>2, SettingsAssumption
<1>4. \A h \in Handler : saver[h].pc = "idle" /\ saver[h] \in Saver
  BY <1>2 DEF NoSave, Saver
<1>5. setup \in BOOLEAN
  BY <1>1, Zenon
<1>6. TypeOK
  BY <1>1, <1>2, <1>3, <1>4, <1>5 DEF TypeOK, Disk
<1>7. OneSaver /\ CandidatesValid
  BY <1>4 DEF OneSaver, CandidatesValid, Saving
<1>8. Stages
  BY <1>1, <1>4 DEF Stages, Carried, At
<1>9. DiskValid
  BY <1>1, <1>3 DEF DiskValid
<1>10. Opened
  BY <1>1, <1>4 DEF Opened, At
<1> QED
  BY <1>6, <1>7, <1>8, <1>9, <1>10 DEF IInv

LEMMA NextInvariant ==
  IInv /\ [Next]_vars => IInv'
<1> SUFFICES ASSUME IInv, [Next]_vars PROVE IInv'
  OBVIOUS
<1>1. CASE UNCHANGED vars
  BY <1>1 DEF vars, IInv, TypeOK, OneSaver, CandidatesValid, Stages, Carried, DiskValid, Opened,
     At, Free
<1>2. ASSUME NEW h \in Handler, Form(h)
      PROVE  IInv'
  BY <1>2, UserForms, SetupForms DEF Form
<1>3. ASSUME NEW h \in Handler, Save(h)
      PROVE  IInv'
  BY <1>3, FileSteps, Swaps, Publishes, Afters DEF Save
<1>4. CASE WriteBack \/ Crash \/ PowerLoss
  BY <1>4, WritesBack, Crashes, PowerLosses
<1> QED
  BY <1>1, <1>2, <1>3, <1>4 DEF Next

\* The invariant holds in every reachable state.
THEOREM Invariant == Spec => []IInv
<1>1. Init => IInv
  BY InitInvariant
<1>2. IInv /\ [Next]_vars => IInv'
  BY NextInvariant
<1> QED
  BY <1>1, <1>2, PTL DEF Spec

\* The variables stay in their types.
THEOREM TypeCorrect == Spec => []TypeOK
<1>1. IInv => TypeOK
  BY DEF IInv
<1> QED
  BY <1>1, Invariant, PTL

\* A save is published whole or not at all, and nothing is in force that the
\* file does not hold or held before the save under way.
THEOREM SavesWhole == Spec => []PublishedWhole
<1>1. IInv => PublishedWhole
  BY DEF IInv, Stages, Carried, At, PublishedWhole, Saving
<1> QED
  BY <1>1, Invariant, PTL

\* A process that starts, at any point of a save, finds a valid file, and another than
\* the one in use only if the power is lost before the directory is synced.
THEOREM CrashesSafe == Spec => []CrashSafe
<1>1. IInv => CrashSafe
  <2> SUFFICES ASSUME IInv PROVE CrashSafe
    OBVIOUS
  <2>1. disk.file # Nothing /\ Valid(disk.file)
    BY FileKnown, SettingsAssumption
  <2>2. disk.durable # Nothing /\ Valid(disk.durable)
    BY SettingsAssumption DEF IInv, DiskValid
  <2> QED
    BY <2>1, <2>2 DEF IInv, DiskValid, CrashSafe
<1> QED
  BY <1>1, Invariant, PTL

\* A claimed and valid document keeps the floor.
LEMMA ValidFloor ==
  ASSUME NEW doc, Valid(doc), Claimed(doc)
  PROVE  KeepsFloor(doc)
<1>1. Floor(doc) /\ Owned(doc)
  BY DEF Valid
<1>2. PICK k \in doc.keys : k.enabled /\ On(doc, k.group) /\ k.owner \in Superusers(doc)
  BY <1>1 DEF Floor
<1> DEFINE lane == [ key |-> k.key, endpoint |-> Place(doc, k.group), group |-> k.group,
                     owner |-> k.owner, enabled |-> k.enabled /\ On(doc, k.group) ]
<1>3. lane \in PoolSpecs(doc)
  BY DEF PoolSpecs
<1>4. lane.enabled /\ lane.owner \in Superusers(doc)
  BY <1>2
<1> QED
  BY <1>1, <1>3, <1>4 DEF KeepsFloor

\* What the proxy runs with is the document of record or the file.
LEMMA InForceKnown ==
  ASSUME IInv
  PROVE  cfg \in {store, disk.file} /\ pool \in {store, disk.file}
<1>1. CASE Free
  BY <1>1 DEF IInv, Stages
<1>2. ASSUME NEW h \in Handler, saver[h].pc \in Saving
      PROVE  cfg \in {store, disk.file} /\ pool \in {store, disk.file}
  BY <1>2 DEF IInv, Stages, Carried, At, Saving
<1> QED
  BY <1>1, <1>2 DEF Free

\* What the proxy runs with, or may start with, keeps the pool floor once it is claimed,
\* and a claim in force can be lost only with a rename that was never synced.
THEOREM FloorAlways == Spec => []FloorKept
<1>1. IInv => FloorKept
  <2> SUFFICES ASSUME IInv PROVE FloorKept
    OBVIOUS
  <2>1. ASSUME NEW doc \in {store, cfg, pool, disk.durable}, Claimed(doc)
        PROVE  KeepsFloor(doc)
    <3>1. Valid(doc)
      BY FileKnown, InForceKnown DEF IInv, DiskValid
    <3> QED
      BY <2>1, <3>1, ValidFloor
  <2>2. ~setup => Claimed(store) /\ Claimed(disk.file)
    BY FileKnown DEF IInv, Opened, Claimed
  <2>3. ~setup => \A doc \in {store, cfg, pool, disk.file} : Claimed(doc)
    BY <2>2, InForceKnown
  <2>4. ~setup => Claimed(disk.durable) \/ disk.behind
    <3>1. disk.durable = disk.file \/ disk.durable = store \/ disk.behind
      BY DEF IInv, DiskValid
    <3> QED
      BY <2>2, <3>1
  <2> QED
    BY <2>1, <2>3, <2>4 DEF FloorKept
<1> QED
  BY <1>1, Invariant, PTL

\* Who claimed the proxy stays its superuser, unless a loss of power takes back the
\* claim itself, whose rename was never synced.
THEOREM ClaimedOnce == Spec => OneClaim
<1>1. IInv /\ [Next]_vars =>
        [ Claimed(store) => \/ Superusers(store') = Superusers(store)
                            \/ PowerLoss /\ disk.behind /\ ~Claimed(store') ]_vars
  <2> SUFFICES ASSUME IInv, Next, Claimed(store), ~(PowerLoss /\ disk.behind /\ ~Claimed(store'))
               PROVE  Superusers(store') = Superusers(store)
    OBVIOUS
  <2>1. CASE store' = store
    BY <2>1
  <2>2. ASSUME NEW h \in Handler, Publish(h)
        PROVE  Superusers(store') = Superusers(store)
    BY <2>2, TheSaver DEF Publish, At, Saving
  <2>3. CASE Crash
    BY <2>3, FileKnown DEF Crash, Start
  <2>4. CASE PowerLoss
    <3>1. store' = disk.durable
      BY <2>4 DEF PowerLoss, Start
    <3>2. Superusers(disk.file) = Superusers(store)
      BY FileKnown
    <3>3. CASE Claimed(disk.durable)
      BY <3>1, <3>2, <3>3 DEF IInv, DiskValid
    <3>4. CASE ~Claimed(disk.durable)
      <4>1. ~disk.behind
        BY <2>4, <3>1, <3>4
      <4>2. disk.durable = disk.file \/ disk.durable = store
        BY <4>1 DEF IInv, DiskValid
      <4> QED
        BY <3>1, <3>2, <4>2
    <3> QED
      BY <3>3, <3>4
  <2>5. ASSUME NEW h \in Handler, Form(h)
        PROVE  store' = store
    BY <2>5 DEF Form, NimKeysForm, ClientsForm, UpstreamsForm, ModelsForm, SectionForm,
       LocaleForm, UsersForm, AccountForm, SetupHash, SetupForm, SetupRefused, Commit, InForce
  <2>6. ASSUME NEW h \in Handler, Save(h), ~Publish(h)
        PROVE  store' = store
    BY <2>6 DEF Save, Write, Rename, SyncDirectory, SwapConfig, SwapPool, After, InForce
  <2>7. CASE WriteBack
    BY <2>7 DEF WriteBack, InForce
  <2> QED
    BY <2>1, <2>2, <2>3, <2>4, <2>5, <2>6, <2>7 DEF Next
<1> QED
  BY <1>1, Invariant, PTL DEF Spec, OneClaim

\* What the page shows a user of the keys.
LEMMA PageRows ==
  ASSUME NEW doc, NEW u
  PROVE  /\ \A row \in ApiConfig(doc, u).keys :
              row.key \in Seen(doc, u, doc.keys) /\ row.guarded = Guarded(doc, row.key)
         /\ \A k \in Seen(doc, u, doc.keys) : \E row \in ApiConfig(doc, u).keys : row.key = k
<1>1. ApiConfig(doc, u).keys = {[key |-> k, guarded |-> Guarded(doc, k)] : k \in Seen(doc, u, doc.keys)}
  BY DEF ApiConfig, KeyRows
<1> DEFINE rows == ApiConfig(doc, u).keys
<1>2. rows = {[key |-> k, guarded |-> Guarded(doc, k)] : k \in Seen(doc, u, doc.keys)}
  BY <1>1
<1> HIDE DEF rows
<1>3. \A row \in rows : row.key \in Seen(doc, u, doc.keys) /\ row.guarded = Guarded(doc, row.key)
  BY <1>2
<1>4. ASSUME NEW k \in Seen(doc, u, doc.keys)
      PROVE  \E row \in rows : row.key = k
  <2>1. [key |-> k, guarded |-> Guarded(doc, k)] \in rows
    BY <1>2
  <2> QED
    BY <2>1
<1> QED
  BY <1>3, <1>4 DEF rows

\* A user sees the keys they may remove, and the padlock on those that the
\* rulebook would refuse to lose.
THEOREM PageRight == Spec => []PageMatchesForms
<1>1. IInv => PageMatchesForms
  <2> SUFFICES ASSUME IInv, NEW u \in Names(store.users)
               PROVE  LET cands == NimKeys(store, u)
                          gone(k) == {cand \in cands : k \notin cand.keys}
                      IN  /\ {row.key : row \in ApiConfig(store, u).keys}
                               = {k \in store.keys : gone(k) # {}}
                          /\ Claimed(store) =>
                               \A row \in ApiConfig(store, u).keys :
                                 \A cand \in gone(row.key) : Valid(cand) <=> ~row.guarded
    BY DEF PageMatchesForms
  <2> DEFINE gone(k) == {cand \in NimKeys(store, u) : k \notin cand.keys}
             rows == ApiConfig(store, u).keys
             seen == Seen(store, u, store.keys)
  <2>1. store \in Document /\ Valid(store)
    BY DEF IInv, TypeOK, DiskValid
  <2>2. u \in Name /\ Known(store, u)
    <3>1. PICK v \in store.users : v.name = u
      BY DEF Names
    <3>2. v \in User
      BY <2>1, <3>1, Fields
    <3> QED
      BY <3>1, <3>2 DEF User, Known, HasRole
  <2>3. /\ \A row \in rows : row.key \in seen /\ row.guarded = Guarded(store, row.key)
        /\ \A k \in seen : \E row \in rows : row.key = k
    BY PageRows
  <2>4. \A k : k \in seen <=> k \in store.keys /\ (Admin(store, u) \/ k.owner = u)
    BY DEF Seen
  <2>5. \A k \in store.keys : k \in seen <=> gone(k) # {}
    <3> SUFFICES ASSUME NEW k \in store.keys PROVE k \in seen <=> gone(k) # {}
      OBVIOUS
    <3>1. ASSUME k \in seen PROVE gone(k) # {}
      BY <2>1, <2>2, <2>4, <3>1, Removable
    <3>2. ASSUME NEW cand \in gone(k) PROVE k \in seen
      BY <2>1, <2>2, <2>4, <3>2, TakenAway
    <3> QED
      BY <3>1, <3>2
  <2>6. ASSUME Claimed(store), NEW row \in rows, NEW cand \in gone(row.key)
        PROVE  Valid(cand) <=> ~row.guarded
    <3>1. row.key \in store.keys /\ row.guarded = Guarded(store, row.key)
      BY <2>3, <2>4
    <3>2. cand \in NimKeys(store, u) /\ row.key \notin cand.keys
      OBVIOUS
    <3>3. cand = KeyGone(store, row.key) \/ cand = KeySwitched(store, row.key)
      BY <2>1, <2>2, <3>1, <3>2, TakenAway
    <3> QED
      BY <2>1, <2>6, <3>1, <3>2, <3>3, Padlock
  <2> HIDE DEF rows, seen
  <2>7. {row.key : row \in rows} = {k \in store.keys : gone(k) # {}}
    BY <2>3, <2>4, <2>5
  <2> QED
    BY <2>6, <2>7 DEF rows
<1> QED
  BY <1>1, Invariant, PTL
-----------------------------------------------------------------------------
(* The settings service.                                                   *)

\* The holder of the mutex is the one that is chosen.
LEMMA OneChosen ==
  ASSUME NEW s, NEW h \in Handler, s[h].pc \in Saving,
         \A g \in Handler : g # h => s[g].pc \notin Saving
  PROVE  s[CHOOSE g \in Handler : s[g].pc \in Saving] = s[h]
<1>1. \A g \in Handler : s[g].pc \in Saving => g = h
  OBVIOUS
<1>2. (CHOOSE g \in Handler : s[g].pc \in Saving) = h
  BY <1>1
<1> QED
  BY <1>2

\* The save under way, before and after a step.
LEMMA TheNext ==
  ASSUME IInv, IInv', NEW h \in Handler
  PROVE  /\ saver[h].pc \in Saving => Underway = saver[h].cand /\ Underway # Nothing
         /\ saver'[h].pc \in Saving => Underway' = saver'[h].cand /\ Underway' # Nothing
         /\ Free => Underway = Nothing
         /\ Free' => Underway' = Nothing
<1>1. ASSUME saver[h].pc \in Saving
      PROVE  Underway = saver[h].cand /\ Underway # Nothing
  <2>1. \A g \in Handler : g # h => saver[g].pc \notin Saving
    BY <1>1 DEF IInv, OneSaver
  <2>2. saver[CHOOSE g \in Handler : saver[g].pc \in Saving] = saver[h]
    BY <1>1, <2>1, OneChosen
  <2>3. ~Free /\ saver[h].cand # Nothing
    BY <1>1, SettingsAssumption DEF Free, IInv, CandidatesValid
  <2> QED
    BY <2>2, <2>3 DEF Underway
<1>2. ASSUME saver'[h].pc \in Saving
      PROVE  Underway' = saver'[h].cand /\ Underway' # Nothing
  <2>1. \A g \in Handler : g # h => saver'[g].pc \notin Saving
    BY <1>2 DEF IInv, OneSaver
  <2>2. saver'[CHOOSE g \in Handler : saver'[g].pc \in Saving] = saver'[h]
    BY <1>2, <2>1, OneChosen
  <2>3. ~Free' /\ saver'[h].cand # Nothing
    BY <1>2, SettingsAssumption DEF Free, IInv, CandidatesValid
  <2> QED
    BY <2>2, <2>3 DEF Underway
<1> QED
  BY <1>1, <1>2 DEF Underway

\* Whether its directory could not be synced, before and after a step.
LEMMA TheSync ==
  ASSUME IInv, IInv', NEW h \in Handler
  PROVE  /\ saver[h].pc \in Saving =>
              SyncFailed = (disk.behind /\ saver[h].pc \in {"cfg", "pool", "publish"})
         /\ saver'[h].pc \in Saving =>
              SyncFailed' = (disk'.behind /\ saver'[h].pc \in {"cfg", "pool", "publish"})
         /\ Free => SyncFailed = FALSE
         /\ Free' => SyncFailed' = FALSE
<1>1. {"cfg", "pool", "publish"} \subseteq Saving
  BY DEF Saving
<1>2. ASSUME saver[h].pc \in Saving
      PROVE  SyncFailed <=> (disk.behind /\ saver[h].pc \in {"cfg", "pool", "publish"})
  <2>1. \A g \in Handler : g # h => saver[g].pc \notin Saving
    BY <1>2 DEF IInv, OneSaver
  <2> QED
    BY <1>1, <2>1 DEF SyncFailed
<1>3. ASSUME saver'[h].pc \in Saving
      PROVE  SyncFailed' <=> (disk'.behind /\ saver'[h].pc \in {"cfg", "pool", "publish"})
  <2>1. \A g \in Handler : g # h => saver'[g].pc \notin Saving
    BY <1>3 DEF IInv, OneSaver
  <2> QED
    BY <1>1, <2>1 DEF SyncFailed
<1>4. (Free => ~SyncFailed) /\ (Free' => ~SyncFailed')
  BY <1>1 DEF Free, SyncFailed
<1>5. SyncFailed \in BOOLEAN /\ SyncFailed' \in BOOLEAN
  BY DEF SyncFailed
<1>6. disk.behind \in BOOLEAN /\ disk'.behind \in BOOLEAN
  BY DEF IInv, TypeOK, Disk
<1> QED
  BY <1>2, <1>3, <1>4, <1>5, <1>6

\* A form that begins a save makes its candidate of the document of record.
LEMMA FormBegins ==
  ASSUME IInv, IInv', NEW h \in Handler, Form(h)
  PROVE  [Service!Next]_(Service!vars)
<1> DEFINE Of(cand) == Follows(store, cand)
<1>1. ASSUME NEW candidates, NEW then, Commit(h, candidates, then),
             \A cand \in candidates : Valid(cand) => Of(cand)
      PROVE  Service!Begin
  <2>1. PICK cand \in candidates :
          /\ Valid(cand)
          /\ saver' = [saver EXCEPT ![h] = [pc |-> "create", cand |-> cand, then |-> then]]
    BY <1>1 DEF Commit
  <2>2. saver'[h].pc \in Saving /\ saver'[h].cand = cand
    BY <2>1 DEF IInv, TypeOK, Saving
  <2>3. Free /\ UNCHANGED <<store, disk>>
    BY <1>1 DEF Commit, InForce
  <2>4. Underway = Nothing /\ Underway' = cand /\ Underway' # Nothing
    BY <2>2, <2>3, TheNext
  <2>5. Of(cand)
    BY <1>1, <2>1
  <2>6. saver'[h].pc = "create"
    BY <2>1 DEF IInv, TypeOK
  <2>7. SyncFailed = FALSE /\ SyncFailed' = FALSE
    BY <2>2, <2>3, <2>6, TheSync
  <2> QED
    BY <2>3, <2>4, <2>5, <2>7 DEF Service!Begin
<1>2. ASSUME NEW u \in Name, NEW candidates, NEW then, Commit(h, candidates, then),
             \/ candidates = NimKeys(store, u) \/ candidates = Clients(store, u)
             \/ candidates = Upstreams(store, u) \/ candidates = Models(store, u)
             \/ candidates = Section(store, u) \/ candidates = DefaultLocale(store, u)
      PROVE  Service!Begin
  <2>1. \A cand \in candidates : Valid(cand) => Of(cand)
    BY <1>2 DEF Follows
  <2> QED
    BY <1>1, <1>2, <2>1
<1>3. ASSUME NEW u \in Name, NEW hash \in Hash, NEW candidates, NEW then, Commit(h, candidates, then),
             \/ candidates = Users(store, u, hash) \/ candidates = Account(store, u, hash)
             \/ candidates = SetupSubmit(store, u, hash)
      PROVE  Service!Begin
  <2>1. \A cand \in candidates : Valid(cand) => Of(cand)
    BY <1>3 DEF Follows
  <2> QED
    BY <1>1, <1>3, <2>1
<1>4. CASE SetupHash(h) \/ SetupRefused(h)
  <2>1. /\ UNCHANGED <<store, disk>> /\ (At(h, "idle") \/ At(h, "hash"))
        /\ saver'[h].pc \in {"hash", "idle"}
        /\ \A g \in Handler : g # h => saver'[g] = saver[g]
    BY <1>4, Moves DEF SetupHash, SetupRefused, InForce, IInv, NoSave
  <2>2. Underway' = Underway /\ SyncFailed' = SyncFailed
    <3>1. CASE Free
      <4>1. Free'
        BY <2>1, <3>1 DEF Free, Saving
      <4> QED
        BY <3>1, <4>1, TheNext, TheSync
    <3>2. ASSUME NEW g \in Handler, saver[g].pc \in Saving
          PROVE  Underway' = Underway /\ SyncFailed' = SyncFailed
      <4>1. g # h
        BY <2>1, <3>2 DEF At, Saving
      <4>2. saver'[g] = saver[g]
        BY <2>1, <4>1
      <4> QED
        BY <2>1, <3>2, <4>2, TheNext, TheSync
    <3> QED
      BY <3>1, <3>2 DEF Free
  <2> QED
    BY <2>1, <2>2 DEF Service!vars
<1> HIDE DEF Of
<1>5. CASE \/ NimKeysForm(h) \/ ClientsForm(h) \/ UpstreamsForm(h) \/ ModelsForm(h)
           \/ SectionForm(h) \/ LocaleForm(h)
  BY <1>2, <1>5 DEF NimKeysForm, ClientsForm, UpstreamsForm, ModelsForm, SectionForm, LocaleForm,
     Service!Next
<1>6. CASE UsersForm(h) \/ AccountForm(h) \/ SetupForm(h)
  BY <1>3, <1>6 DEF UsersForm, AccountForm, SetupForm, Service!Next
<1> QED
  BY <1>4, <1>5, <1>6 DEF Form

\* The steps of a save: the rename writes it, and the publication applies it.
LEMMA SaveServes ==
  ASSUME IInv, IInv', NEW h \in Handler, Save(h)
  PROVE  [Service!Next]_(Service!vars)
<1>1. disk \in Disk /\ Carried(h)
  BY DEF IInv, TypeOK, Stages
<1>2. ASSUME saver[h].pc \in Saving
      PROVE  /\ Underway = saver[h].cand /\ Underway # Nothing
             /\ SyncFailed = (disk.behind /\ saver[h].pc \in {"cfg", "pool", "publish"})
  BY <1>2, TheNext, TheSync
<1>3. ASSUME saver[h].pc \in Saving, \A g \in Handler : g # h => saver'[g] = saver[g],
             saver'[h].pc \notin Saving
      PROVE  Underway' = Nothing /\ SyncFailed' = FALSE
  <2>1. Free'
    BY <1>3, TheSaver DEF Free
  <2>2. Underway' = Nothing
    BY <2>1, TheNext
  <2>3. SyncFailed' = FALSE
    BY <2>1, TheSync
  <2> QED
    BY <2>2, <2>3
<1>4. ASSUME saver[h].pc \in Saving, saver'[h].pc \in Saving, saver'[h].cand = saver[h].cand
      PROVE  /\ Underway' = Underway
             /\ SyncFailed' = (disk'.behind /\ saver'[h].pc \in {"cfg", "pool", "publish"})
  <2>1. Underway' = Underway
    BY <1>4, TheNext
  <2>2. SyncFailed' = (disk'.behind /\ saver'[h].pc \in {"cfg", "pool", "publish"})
    BY <1>4, TheSync
  <2> QED
    BY <2>1, <2>2
<1>5. ASSUME saver[h].pc \in {"create", "rename"}, Leave(h), UNCHANGED store, disk.file = store,
             UNCHANGED <<disk.file, disk.durable>>
      PROVE  Service!Next
  <2>0. saver[h].pc \in Saving /\ saver'[h].pc \notin Saving
    BY <1>5, Moves DEF IInv, NoSave, Saving
  <2>1. Underway' = Nothing /\ SyncFailed' = FALSE
    BY <1>3, <1>5, <2>0, Moves DEF IInv
  <2>2. Underway # Nothing /\ SyncFailed = FALSE
    BY <1>2, <1>5 DEF Saving
  <2> QED
    BY <1>5, <2>1, <2>2 DEF Service!Abandon, Service!Next
<1>6. CASE Write(h)
  <2>1. /\ saver[h].pc = "create" /\ saver[h].pc \in Saving
        /\ disk.file = store /\ UNCHANGED store
        /\ UNCHANGED <<disk.file, disk.durable>>
    BY <1>1, <1>6 DEF Write, At, Saving, InForce, Carried, Disk
  <2>2. CASE Leave(h)
    BY <1>5, <2>1, <2>2
  <2>3. CASE Go(h, "rename")
    <3>1. saver'[h].pc = "rename" /\ saver'[h].cand = saver[h].cand
      BY <2>3, Moves DEF IInv
    <3>2. Underway' = Underway /\ SyncFailed' = FALSE
      BY <1>4, <2>1, <3>1 DEF Saving
    <3>3. SyncFailed = FALSE
      BY <1>2, <2>1
    <3> QED
      BY <2>1, <3>2, <3>3 DEF Service!vars
  <2> QED
    BY <1>6, <2>2, <2>3 DEF Write
<1>7. CASE Rename(h)
  <2>1. /\ saver[h].pc = "rename" /\ saver[h].pc \in Saving
        /\ disk.file = store /\ UNCHANGED store
        /\ disk.tmp = saver[h].cand
    BY <1>1, <1>7 DEF Rename, At, Saving, InForce, Carried
  <2>2. CASE Leave(h) /\ disk' = disk
    BY <1>5, <2>1, <2>2
  <2>3. CASE Go(h, "dirsync") /\ disk' = [disk EXCEPT !.file = disk.tmp, !.tmp = Nothing]
    <3>0. saver'[h].pc = "dirsync" /\ saver'[h].cand = saver[h].cand
      BY <2>3, Moves DEF IInv
    <3>1. Underway' = Underway /\ SyncFailed' = FALSE /\ SyncFailed = FALSE
      BY <1>2, <1>4, <2>1, <3>0 DEF Saving
    <3>2. disk'.file = saver[h].cand /\ disk'.durable = disk.durable
      BY <1>1, <2>1, <2>3 DEF Disk
    <3>3. {disk'.durable} \ {disk'.file} \subseteq ({disk.durable} \ {disk.file}) \cup {disk.file}
      BY <3>2
    <3>4. Service!Write
      BY <1>2, <2>1, <3>1, <3>2, <3>3 DEF Service!Write
    <3> QED
      BY <3>4 DEF Service!Next
  <2> QED
    BY <1>7, <2>2, <2>3 DEF Rename
<1>8. CASE SyncDirectory(h)
  <2>1. /\ saver[h].pc \in Saving /\ disk.file = saver[h].cand /\ UNCHANGED store
    BY <1>1, <1>8 DEF SyncDirectory, At, Saving, InForce, Carried
  <2>0. saver'[h].pc = "cfg" /\ saver'[h].cand = saver[h].cand
    BY <1>8, Moves DEF SyncDirectory, IInv
  <2>2. /\ Underway' = Underway /\ Underway = saver[h].cand /\ Underway # Nothing
        /\ SyncFailed' = (disk'.behind /\ TRUE)
    BY <1>2, <1>4, <2>0, <2>1 DEF Saving
  <2>3. CASE disk' = [disk EXCEPT !.durable = disk.file, !.behind = FALSE]
    <3>1. disk'.file = disk.file /\ disk'.durable = disk.file /\ disk'.behind = FALSE
      BY <1>1, <2>3 DEF Disk
    <3>2. {disk'.durable} \ {disk'.file} = {} /\ SyncFailed' = FALSE
      BY <2>2, <3>1
    <3> QED
      BY <2>1, <2>2, <3>1, <3>2 DEF Service!Settle, Service!Next
  <2>4. CASE disk' = [disk EXCEPT !.behind = TRUE]
    <3>1. disk'.file = disk.file /\ disk'.durable = disk.durable /\ disk'.behind = TRUE
      BY <1>1, <2>4 DEF Disk
    <3>2. SyncFailed' = TRUE
      BY <2>2, <3>1
    <3> QED
      BY <2>1, <2>2, <3>1, <3>2 DEF Service!SyncFails, Service!Next
  <2> QED
    BY <1>8, <2>3, <2>4 DEF SyncDirectory
<1>9. CASE SwapConfig(h) \/ SwapPool(h)
  <2>0. saver[h].pc \in {"cfg", "pool"} /\ UNCHANGED <<store, disk>>
    BY <1>9 DEF SwapConfig, SwapPool, At
  <2>1. saver[h].pc \in Saving /\ UNCHANGED <<store, disk>>
    BY <2>0 DEF Saving
  <2>3. saver'[h].pc \in {"pool", "publish"} /\ saver'[h].cand = saver[h].cand
    BY <1>9, Moves DEF SwapConfig, SwapPool, IInv
  <2>2. Underway' = Underway /\ SyncFailed' = SyncFailed
    BY <1>2, <1>4, <2>0, <2>1, <2>3 DEF Saving
  <2> QED
    BY <2>1, <2>2 DEF Service!vars
<1>10. CASE Publish(h)
  <2>1. /\ saver[h].pc \in Saving /\ disk.file = saver[h].cand /\ store' = saver[h].cand
        /\ UNCHANGED disk
    BY <1>1, <1>10 DEF Publish, At, Saving, Carried
  <2>2. saver'[h].pc = "after" /\ \A g \in Handler : g # h => saver'[g] = saver[g]
    BY <1>10 DEF Publish, IInv, TypeOK, Saver
  <2>3. Underway' = Nothing /\ SyncFailed' = FALSE
    BY <1>3, <2>1, <2>2 DEF Saving
  <2>4. {disk.durable} \ {disk.file} = {} \/ disk.behind = TRUE
    <3>1. \A g \in Handler : ~At(g, "dirsync")
      BY <1>10, <2>1, TheSaver DEF Publish, At, Saving
    <3> QED
      BY <1>1, <3>1 DEF IInv, DiskValid, Disk
  <2>5. SyncFailed = disk.behind
    BY <1>1, <1>2, <1>10, <2>1 DEF Publish, At, Disk
  <2> QED
    BY <1>2, <2>1, <2>3, <2>4, <2>5 DEF Service!Apply, Service!Next
<1>11. CASE After(h)
  <2>1. /\ UNCHANGED <<store, disk>> /\ saver[h].pc \notin Saving
        /\ saver'[h].pc \notin Saving /\ \A g \in Handler : g # h => saver'[g] = saver[g]
    BY <1>11, Moves DEF After, At, Saving, IInv, NoSave
  <2>2. Underway' = Underway /\ SyncFailed' = SyncFailed
    <3>1. CASE Free
      <4>1. Free'
        BY <2>1, <3>1 DEF Free
      <4> QED
        BY <3>1, <4>1, TheNext, TheSync
    <3>2. ASSUME NEW g \in Handler, saver[g].pc \in Saving
          PROVE  Underway' = Underway /\ SyncFailed' = SyncFailed
      <4>1. saver'[g] = saver[g]
        BY <2>1, <3>2
      <4> QED
        BY <2>1, <3>2, <4>1, TheNext, TheSync
    <3> QED
      BY <3>1, <3>2 DEF Free
  <2> QED
    BY <2>1, <2>2 DEF Service!vars
<1> QED
  BY <1>6, <1>7, <1>8, <1>9, <1>10, <1>11 DEF Save

\* Saves are applied one after another, each made of the document it replaces.  A
\* restart finds the document of record or the save about to replace it; a loss of
\* power may bring an older one back, but what was answered only if its sync failed.
THEOREM SettingsServiceImplemented == Spec => ImplementsSettingsService
<1>1. Init => Service!Init
  <2> SUFFICES ASSUME Init PROVE Service!Init
    OBVIOUS
  <2>1. PICK doc \in Found :
          /\ store = doc
          /\ disk = [file |-> doc, durable |-> doc, tmp |-> Nothing, behind |-> FALSE]
    BY DEF Init
  <2>2. Underway = Nothing
    <3>1. Free
      BY DEF Init, Free, NoSave, Saving
    <3> QED
      BY <3>1 DEF Underway
  <2>3. SyncFailed = FALSE
    BY <2>1 DEF SyncFailed
  <2> QED
    BY <2>1, <2>2, <2>3, SettingsAssumption DEF Service!Init
<1>2. IInv /\ IInv' /\ [Next]_vars => [Service!Next]_(Service!vars)
  <2> SUFFICES ASSUME IInv, IInv', [Next]_vars PROVE [Service!Next]_(Service!vars)
    OBVIOUS
  <2>1. CASE UNCHANGED vars
    BY <2>1 DEF vars, Service!vars, Underway, SyncFailed, Free
  <2>2. ASSUME NEW h \in Handler, Form(h) \/ Save(h)
        PROVE  [Service!Next]_(Service!vars)
    BY <2>2, FormBegins, SaveServes
  <2>3. CASE WriteBack
    <3>1. UNCHANGED <<store, saver>> /\ disk' = [disk EXCEPT !.durable = disk.file, !.behind = FALSE]
      BY <2>3 DEF WriteBack, InForce
    <3>2. disk'.file = disk.file /\ disk'.durable = disk.file /\ disk'.behind = FALSE
      BY <3>1 DEF IInv, TypeOK, Disk
    <3>3. {disk'.durable} \ {disk'.file} = {} /\ SyncFailed' = FALSE
      BY <3>2 DEF SyncFailed
    <3>4. Underway' = Underway
      BY <3>1 DEF Underway, Free
    <3> QED
      BY <3>1, <3>2, <3>3, <3>4 DEF Service!Settle, Service!Next
  <2>4. ASSUME NEW doc, Start(doc)
        PROVE  store' = doc /\ Underway' = Nothing /\ SyncFailed' = FALSE
    <3>1. Free' /\ store' = doc /\ \A h \in Handler : saver'[h].pc = "idle"
      BY <2>4 DEF Start, Free, NoSave, Saving
    <3> QED
      BY <3>1 DEF Underway, SyncFailed
  <2>5. CASE Crash
    <3>1. store' = disk.file /\ Underway' = Nothing /\ SyncFailed' = FALSE
      BY <2>4, <2>5 DEF Crash
    <3>2. disk'.file = disk.file /\ disk'.durable = disk.durable
      BY <2>5 DEF Crash, IInv, TypeOK, Disk
    <3> QED
      BY <3>1, <3>2 DEF Service!Restart, Service!Next
  <2>6. CASE PowerLoss
    <3>1. store' = disk.durable /\ Underway' = Nothing /\ SyncFailed' = FALSE
      BY <2>4, <2>6 DEF PowerLoss
    <3>2. disk'.file = disk.durable /\ disk'.durable = disk.durable
      BY <2>6 DEF PowerLoss
    <3>3. store' \in {disk.file} \cup ({disk.durable} \ {disk.file})
      BY <3>1
    <3>4. {disk'.durable} \ {disk'.file} = {}
      BY <3>2
    <3> QED
      BY <3>1, <3>2, <3>3, <3>4 DEF Service!PowerLoss, Service!Next
  <2> QED
    BY <2>1, <2>2, <2>3, <2>5, <2>6 DEF Next
<1> QED
  BY <1>1, <1>2, Invariant, PTL DEF Spec, ImplementsSettingsService, Service!Spec
=============================================================================
