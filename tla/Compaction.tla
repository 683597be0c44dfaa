----------------------------- MODULE Compaction -----------------------------
(***************************************************************************)
(* Who decides that the metrics log is compacted, and when.  Three kinds   *)
(* of threads meet here: the sampler, which appends; a settings save,      *)
(* which changes the retention; and the blocking worker that rewrites the  *)
(* log.  They share the retention, a pending and a running flag, a cutoff, *)
(* and a generation that every request and every cancellation advances.    *)
(*                                                                         *)
(* Time is relative: a point of the log is its age, a cutoff is the age up *)
(* to which points stay, and both grow with the clock.  A generation is    *)
(* only ever compared with the one a job was started under, so each job    *)
(* says whether its own is still the current one.                          *)
(*                                                                         *)
(* The log is the set of its visible observations; the hidden baselines a  *)
(* compaction leaves for the first difference are not points.  How many    *)
(* points expired since the last compaction is left open: the sampler may  *)
(* find the number above COMPACT_AFTER_EXPIRED_SAMPLES at any time.        *)
(*                                                                         *)
(* What is written under compaction_control is one step.  Everything read  *)
(* or written outside of it is a step of its own.                          *)
(***************************************************************************)
EXTENDS Integers, FiniteSets

CONSTANTS
  Sampler,     \* the thread of the sampler's append
  Settings,    \* the thread of a settings save
  Worker,      \* the blocking threads a compaction may run on
  Retention,   \* the retentions an operator may set, in ticks; 0 is unlimited
  Oldest       \* bound: ages stop counting here

Thread == Worker \cup {Sampler, Settings}

ASSUME CompactionAssumption ==
  /\ Sampler # Settings /\ Sampler \notin Worker /\ Settings \notin Worker
  /\ Oldest \in Nat
  /\ Retention \subseteq 0 .. Oldest - 1

VARIABLES
  days,      \* the retention now
  pending,   \* compaction_pending
  running,   \* compaction_running
  cutoff,    \* compaction_cutoff
  log,       \* the ages of the points in the file
  store,     \* what else the store knows of the file
  pc,        \* where each thread stands
  work       \* each thread's own variables

vars == <<days, pending, running, cutoff, log, store, pc, work>>

Age == 0 .. Oldest

\* sampled: a full sample of this process is in the log (last_state).
\* poisoned: an append failed, no other will be made.
\* gap: the age of the end of the newest recovery gap; -1 while it is open,
\* Oldest when there is none that matters.
Store == [sampled : BOOLEAN, poisoned : BOOLEAN, gap : -1 .. Oldest]

\* limit: the cutoff computed or loaded, 0 where the retention was unlimited.
\* fresh: no request or cancellation since the generation was loaded.
Work ==
  [ limit : Age, fresh : BOOLEAN,
    outcome : {"none", "durable", "unsynced", "deferred", "superseded", "failed"} ]

Nothing == [limit |-> 0, fresh |-> FALSE, outcome |-> "none"]

Place ==
  { "idle",
    "persist",                                           \* append
    "request", "start", "claim", "generation", "spawn",  \* starting a job
    "compact", "authorize",                              \* the job
    "settle", "clear", "recheck", "restore", "finish", "again" }

TypeOK ==
  /\ days \in Retention
  /\ pending \in BOOLEAN /\ running \in BOOLEAN
  /\ cutoff \in Age
  /\ log \in SUBSET Age
  /\ store \in Store
  /\ pc \in [Thread -> Place]
  /\ work \in [Thread -> Work]

\* History::open: the log may hold anything earlier processes left, and a gap
\* that this process's own boot record has just closed.
Init ==
  /\ days \in Retention
  /\ log \in SUBSET Age
  /\ store \in [sampled : {FALSE}, poisoned : {FALSE}, gap : {0, Oldest}]
  /\ pending = (days > 0 /\ (store.gap = 0 \/ \E a \in log : a > days))
  /\ cutoff = IF days > 0 THEN days ELSE Oldest
  /\ running = FALSE
  /\ pc = [t \in Thread |-> "idle"]
  /\ work = [t \in Thread |-> Nothing]

At(t, place) == pc[t] = place
Go(t, place) == pc' = [pc EXCEPT ![t] = place]

\* The generation moves: no job's generation is the current one any more.
Outdated == [t \in Thread |-> [work[t] EXCEPT !.fresh = FALSE]]

\* From the claim of the running flag to its release.
Claimed ==
  { "generation", "spawn", "compact", "authorize", "settle", "clear", "recheck",
    "restore", "finish" }

\* The worker holds the store's lock from validation to rename.
StoreFree == \A w \in Worker : ~At(w, "authorize")

-----------------------------------------------------------------------------
(* append.                                                                 *)

\* The retention is read once, under the index lock.
Sample ==
  /\ At(Sampler, "idle")
  /\ work' = [work EXCEPT ![Sampler] = [Nothing EXCEPT !.limit = days]]
  /\ Go(Sampler, "persist")
  /\ UNCHANGED <<days, pending, running, cutoff, log, store>>

\* The record is written and synced, or the store is poisoned: with nothing of
\* the record in the file, a torn piece, or the whole record unsynced.
Persist ==
  /\ At(Sampler, "persist") /\ StoreFree
  /\ \/ /\ store.poisoned
        /\ UNCHANGED <<log, store>>
     \/ /\ ~store.poisoned
        /\ log' = log \cup {0}
        /\ store' = [store EXCEPT !.sampled = TRUE]
     \/ /\ ~store.poisoned
        /\ \/ log' = log /\ store' = [store EXCEPT !.poisoned = TRUE]
           \/ log' = log /\ store' = [store EXCEPT !.poisoned = TRUE, !.gap = -1]
           \/ log' = log \cup {0} /\ store' = [store EXCEPT !.poisoned = TRUE]
  /\ Go(Sampler, "request")
  /\ UNCHANGED <<days, pending, running, cutoff, work>>

\* No compaction is asked for: the retention was unlimited as it was read, or
\* none is pending and too few points have expired.
Skip ==
  /\ At(Sampler, "request")
  /\ work[Sampler].limit = 0 \/ ~pending
  /\ Go(Sampler, "idle")
  /\ work' = [work EXCEPT ![Sampler] = Nothing]
  /\ UNCHANGED <<days, pending, running, cutoff, log, store>>

-----------------------------------------------------------------------------
(* reconfigure_retention.                                                  *)

\* Unlimited: the work is cancelled under the control lock.  Finite: the
\* retention is stored, the index pruned, and a compaction asked for.
Reconfigure(d) ==
  /\ At(Settings, "idle") /\ d # days
  /\ days' = d
  /\ \/ /\ d = 0
        /\ pending' = FALSE
        /\ work' = Outdated
        /\ UNCHANGED pc
     \/ /\ d > 0
        /\ work' = [work EXCEPT ![Settings] = [Nothing EXCEPT !.limit = d]]
        /\ Go(Settings, "request")
        /\ UNCHANGED pending
  /\ UNCHANGED <<running, cutoff, log, store>>

-----------------------------------------------------------------------------
(* request_compaction and start_pending_compaction, on any thread: the     *)
(* sampler, a save, or a worker that is done with its job.                 *)

Request(t) ==
  /\ At(t, "request") /\ work[t].limit > 0
  /\ cutoff' = work[t].limit
  /\ pending' = TRUE
  /\ work' = [Outdated EXCEPT ![t] = Nothing]
  /\ Go(t, "start")
  /\ UNCHANGED <<days, running, log, store>>

Start(t) ==
  /\ At(t, "start")
  /\ Go(t, IF pending THEN "claim" ELSE "idle")
  /\ work' = [work EXCEPT ![t] = Nothing]
  /\ UNCHANGED <<days, pending, running, cutoff, log, store>>

ClaimUnguarded(t) ==
  /\ At(t, "claim")
  /\ running' = TRUE
  /\ Go(t, "generation")
  /\ UNCHANGED <<days, pending, cutoff, log, store, work>>

\* compare_exchange: one thread at a time may run a compaction.
Claim(t) ==
  /\ At(t, "claim")
  /\ running' = TRUE
  /\ Go(t, IF running THEN "idle" ELSE "generation")
  /\ UNCHANGED <<days, pending, cutoff, log, store, work>>

LoadGeneration(t) ==
  /\ At(t, "generation")
  /\ work' = [work EXCEPT ![t].fresh = TRUE]
  /\ Go(t, "spawn")
  /\ UNCHANGED <<days, pending, running, cutoff, log, store>>

\* The cutoff is loaded after the generation; then a blocking task is spawned.
Spawn(t, w) ==
  /\ At(t, "spawn") /\ At(w, "idle")
  /\ work' = [work EXCEPT ![w] = [work[t] EXCEPT !.limit = cutoff], ![t] = Nothing]
  /\ pc' = [pc EXCEPT ![w] = "compact", ![t] = "idle"]
  /\ UNCHANGED <<days, pending, running, cutoff, log, store>>

-----------------------------------------------------------------------------
(* The worker.                                                             *)

Ends(w, outcome) == work' = [work EXCEPT ![w].outcome = outcome]

\* Under the store's lock the log is validated.  Replacement is deferred while
\* a recovery gap reaches into the window or this process has no full sample in
\* the log; else the retained records are written to a temporary file.
Compact(w) ==
  /\ At(w, "compact") /\ StoreFree
  /\ \/ /\ store.gap < work[w].limit \/ ~store.sampled
        /\ Ends(w, "deferred") /\ Go(w, "finish")
     \/ /\ Ends(w, "failed") /\ Go(w, "finish")
     \/ /\ store.gap >= work[w].limit /\ store.sampled
        /\ Go(w, "authorize") /\ UNCHANGED work
  /\ UNCHANGED <<days, pending, running, cutoff, log, store>>

\* The generation, the flag and the retention are looked at again.
Authorized(w) == work[w].fresh /\ pending /\ days > 0

\* Under the control lock as well: authorized, the temporary file replaces the
\* log, and the directory is synced last.
Replace(w) ==
  /\ At(w, "authorize")
  /\ \/ /\ ~Authorized(w)
        /\ Ends(w, "superseded") /\ Go(w, "finish")
        /\ UNCHANGED <<log, store>>
     \/ /\ Authorized(w)
        /\ Ends(w, "failed") /\ Go(w, "finish")
        /\ UNCHANGED <<log, store>>
     \/ /\ Authorized(w)
        /\ log' = {a \in log : a =< work[w].limit}
        /\ store' = [store EXCEPT !.gap = Oldest]
        /\ \/ Ends(w, "durable") /\ Go(w, "settle")
           \/ Ends(w, "unsynced") /\ Go(w, "finish")
  /\ UNCHANGED <<days, pending, running, cutoff>>

\* Durable, and nothing newer was asked for: the request is done with.
Settle(w) ==
  /\ At(w, "settle")
  /\ Go(w, IF work[w].fresh THEN "clear" ELSE "finish")
  /\ UNCHANGED <<days, pending, running, cutoff, log, store, work>>

Clear(w) ==
  /\ At(w, "clear")
  /\ pending' = FALSE
  /\ Go(w, "recheck")
  /\ UNCHANGED <<days, running, cutoff, log, store, work>>

RecheckNever(w) ==
  /\ At(w, "recheck")
  /\ Go(w, "finish")
  /\ UNCHANGED <<days, pending, running, cutoff, log, store, work>>

\* A request that came between the check and the clearing is put back.
Recheck(w) ==
  /\ At(w, "recheck")
  /\ Go(w, IF ~work[w].fresh /\ days > 0 THEN "restore" ELSE "finish")
  /\ UNCHANGED <<days, pending, running, cutoff, log, store, work>>

Restore(w) ==
  /\ At(w, "restore")
  /\ pending' = TRUE
  /\ Go(w, "finish")
  /\ UNCHANGED <<days, running, cutoff, log, store, work>>

FinishKeepsRunning(w) ==
  /\ At(w, "finish")
  /\ running' = (work[w].outcome = "deferred")
  /\ Go(w, "again")
  /\ UNCHANGED <<days, pending, cutoff, log, store, work>>

\* The flag comes down whatever the outcome.
Finish(w) ==
  /\ At(w, "finish")
  /\ running' = FALSE
  /\ Go(w, "again")
  /\ UNCHANGED <<days, pending, cutoff, log, store, work>>

\* What is still pending is started again, unless the file failed.
Again(w) ==
  LET retry == \/ work[w].outcome \in {"durable", "superseded"}
               \/ work[w].outcome = "unsynced" /\ ~work[w].fresh /\ days > 0
  IN  /\ At(w, "again")
      /\ Go(w, IF retry /\ pending THEN "start" ELSE "idle")
      /\ work' = [work EXCEPT ![w] = Nothing]
      /\ UNCHANGED <<days, pending, running, cutoff, log, store>>

-----------------------------------------------------------------------------

\* An open gap stays open.
Older(a) == IF a \in {-1, Oldest} THEN a ELSE a + 1

\* A tick is longer than an append, a save or a job takes.
Tick ==
  /\ \A t \in Thread : At(t, "idle")
  /\ log' = {Older(a) : a \in log}
  /\ cutoff' = Older(cutoff)
  /\ store' = [store EXCEPT !.gap = Older(@)]
  /\ UNCHANGED <<days, pending, running, pc, work>>

StartJob(t) ==
  \/ Request(t) \/ Start(t) \/ Claim(t) \/ LoadGeneration(t)
  \/ \E w \in Worker : Spawn(t, w)

Job(w) ==
  \/ Compact(w) \/ Replace(w) \/ Settle(w) \/ Clear(w) \/ Recheck(w) \/ Restore(w)
  \/ Finish(w) \/ Again(w)

Sampling == Sample \/ Persist \/ Skip

Next ==
  \/ Sampling
  \/ \E d \in Retention : Reconfigure(d)
  \/ \E t \in Thread : StartJob(t)
  \/ \E w \in Worker : Job(w)
  \/ Tick

Spec == Init /\ [][Next]_vars

\* Every thread that can run does, and the sampler samples for ever.  Nothing is
\* assumed of the disk or the operator.
FairSpec ==
  /\ Spec
  /\ WF_vars(Sampling) /\ SF_vars(Tick)
  /\ \A t \in Thread : WF_vars(StartJob(t))
  /\ \A w \in Worker : WF_vars(Job(w))

-----------------------------------------------------------------------------
(* Properties.                                                             *)

Busy == {t \in Thread : pc[t] \in Claimed}

\* One compaction at a time, from the claim of the running flag to its release,
\* though the sampler, a save and the tail of the last worker may all start one.
OneCompaction ==
  /\ \A t, u \in Busy : t = u
  /\ running <=> Busy # {}

\* Nothing leaves the log while the retention is unlimited, whatever job was
\* under way when it was set: "prevents a stale worker from renaming its
\* candidate" (knowledge/architecture/metrics-history.md).
UnlimitedKeepsAll == [][days = 0 => log \subseteq log' \/ Tick]_vars

\* When no compaction is pending, running or being asked for by a save, the log
\* holds nothing older than the last cutoff asked for: no request is lost
\* between a worker's check of the generation and its clearing of the flag.
QuietMeansCompacted ==
  days > 0 /\ ~pending /\ ~running /\ At(Settings, "idle") =>
    \A a \in log : a =< cutoff

Fault(w) ==
  /\ work[w].outcome = "none"
  /\ work'[w].outcome \in {"failed", "unsynced"}

\* A finite retention reaches the disk: once it is changed no more, the disk
\* works, the store is not poisoned, and a job is over by the time of the next
\* sample, no request stays pending for ever.
CompactionCompletes ==
  /\ \E d \in Retention \ {0} : <>[](days = d /\ ~store.poisoned)
  /\ <>[][ /\ \A w \in Worker : ~Fault(w)
           /\ ~(Sample /\ \E w \in Worker : ~At(w, "idle")) ]_vars
  => []<>~pending

\* knowledge/architecture/metrics-history.md "Setting `history.days` to `0`
\* invalidates the finite generation, clears pending work": once the retention
\* stays unlimited, nothing stays pending.
UnlimitedSettles == <>[](days = 0) => <>[]~pending

\* knowledge/architecture/metrics-history.md "A finite canonical cutoff is
\* now - history.days * 86,400": between saves, no step removes a point that the
\* retention in force still covers.
RetentionKept ==
  [][At(Settings, "idle") /\ ~Tick => \A a \in log \ log' : a > days]_vars
=============================================================================
