---------------------------- MODULE HistoryProofs ---------------------------
(***************************************************************************)
(* The metrics history. First the control of its compaction, for any set   *)
(* of worker threads, any choice of retentions and any bound on ages:      *)
(* types, mutual exclusion of the jobs, no removal under unlimited         *)
(* retention, and no request lost between a worker's check of the          *)
(* generation and its clearing of the flag. Then its log, for any horizon, *)
(* any size of log and any number of restarts: through appends, tears,     *)
(* crashes, repairs and compactions every sample that was acknowledged is  *)
(* still there, the log can be opened again, what is kept validates, and a *)
(* reader sees no difference. Last, what its lines say is what HistoryIndex*)
(* takes the file to hold (LogAsIndexed).                                  *)
(***************************************************************************)
EXTENDS Compaction, HistoryLog, FiniteSetTheorems, WellFoundedInduction, TLAPS

\* The threads are three kinds of different ones, and ages are naturals.
LEMMA ThreadFacts ==
  /\ Sampler \in Thread /\ Settings \in Thread /\ Worker \subseteq Thread
  /\ Sampler # Settings /\ Sampler \notin Worker /\ Settings \notin Worker
  /\ Oldest \in Nat /\ Retention \subseteq Age
  /\ Nothing \in Work
  /\ \A a \in Age : Older(a) \in Age /\ a =< Older(a)
  /\ \A a \in -1 .. Oldest : Older(a) \in -1 .. Oldest
BY CompactionAssumption DEF CompactionAssumption, Thread, Age, Nothing, Work, Older

\* Every place a thread is sent to is one.
LEMMA GoFacts ==
  ASSUME pc \in [Thread -> Place], NEW t \in Thread, NEW place \in Place, Go(t, place)
  PROVE  /\ pc' \in [Thread -> Place]
         /\ pc'[t] = place
         /\ \A u \in Thread \ {t} : pc'[u] = pc[u]
BY DEF Go

\* So is its record, when the generation moves.
LEMMA OutdatedFacts ==
  ASSUME work \in [Thread -> Work]
  PROVE  /\ Outdated \in [Thread -> Work]
         /\ \A t \in Thread : /\ Outdated[t].fresh = FALSE
                              /\ Outdated[t].limit = work[t].limit
BY DEF Outdated, Work

-----------------------------------------------------------------------------
(* Types.                                                                  *)

\* The process starts well typed.
LEMMA TypeInit == Init => TypeOK
<1> SUFFICES ASSUME Init PROVE TypeOK
  OBVIOUS
<1>1. days \in Age /\ Oldest \in Age /\ 0 \in Age
  BY ThreadFacts DEF Init, Age
<1>2. cutoff \in Age
  BY <1>1 DEF Init
<1>3. store \in Store
  <2>1. 0 \in -1 .. Oldest /\ Oldest \in -1 .. Oldest
    BY ThreadFacts
  <2> QED
    BY <2>1 DEF Init, Store
<1>4. pc \in [Thread -> Place] /\ work \in [Thread -> Work]
  BY ThreadFacts DEF Init, Place
<1>5. pending \in BOOLEAN
  <2>1. (days > 0 /\ (store.gap = 0 \/ \E a \in log : a > days)) \in BOOLEAN
    OBVIOUS
  <2> QED
    BY <2>1 DEF Init
<1> QED
  BY <1>2, <1>3, <1>4, <1>5 DEF Init, TypeOK

\* Types hold as the sampler appends.
LEMMA TypeSampling == TypeOK /\ Sampling => TypeOK'
<1> SUFFICES ASSUME TypeOK, Sampling PROVE TypeOK'
  OBVIOUS
<1>1. CASE Sample
  <2>1. [Nothing EXCEPT !.limit = days] \in Work
    BY ThreadFacts DEF TypeOK, Nothing, Work
  <2>2. work' \in [Thread -> Work]
    BY <1>1, <2>1, ThreadFacts DEF Sample, TypeOK
  <2>3. pc' \in [Thread -> Place]
    BY <1>1, GoFacts, ThreadFacts DEF Sample, TypeOK, Place
  <2> QED
    BY <1>1, <2>2, <2>3 DEF Sample, TypeOK
<1>2. CASE Persist
  <2>1. pc' \in [Thread -> Place]
    BY <1>2, GoFacts, ThreadFacts DEF Persist, TypeOK, Place
  <2>2. 0 \in Age
    BY ThreadFacts DEF Age
  <2>3. log' \in SUBSET Age
    BY <1>2, <2>2 DEF Persist, TypeOK
  <2>4. -1 \in -1 .. Oldest
    BY ThreadFacts
  <2>5. store' \in Store
    BY <1>2, <2>4 DEF Persist, TypeOK, Store
  <2> QED
    BY <1>2, <2>1, <2>3, <2>5 DEF Persist, TypeOK
<1>3. CASE Skip
  <2>1. pc' \in [Thread -> Place]
    BY <1>3, GoFacts, ThreadFacts DEF Skip, TypeOK, Place
  <2>2. work' \in [Thread -> Work]
    BY <1>3, ThreadFacts DEF Skip, TypeOK
  <2> QED
    BY <1>3, <2>1, <2>2 DEF Skip, TypeOK
<1> QED
  BY <1>1, <1>2, <1>3 DEF Sampling

\* Types hold as an operator changes the retention.
LEMMA TypeReconfigure ==
  ASSUME TypeOK, NEW d \in Retention, Reconfigure(d)
  PROVE  TypeOK'
<1>1. CASE d = 0
  <2>1. work' = Outdated /\ pending' = FALSE /\ UNCHANGED pc
    BY <1>1, ThreadFacts DEF Reconfigure, Age
  <2> QED
    BY <2>1, OutdatedFacts DEF Reconfigure, TypeOK
<1>2. CASE d > 0
  <2>1. [Nothing EXCEPT !.limit = d] \in Work
    BY ThreadFacts DEF Nothing, Work
  <2>2. /\ work' = [work EXCEPT ![Settings] = [Nothing EXCEPT !.limit = d]]
        /\ Go(Settings, "request") /\ UNCHANGED pending
    BY <1>2, ThreadFacts DEF Reconfigure, Age
  <2>3. pc' \in [Thread -> Place]
    BY <2>2, GoFacts, ThreadFacts DEF TypeOK, Place
  <2>4. work' \in [Thread -> Work]
    BY <2>1, <2>2, ThreadFacts DEF TypeOK
  <2> QED
    BY <2>2, <2>3, <2>4 DEF Reconfigure, TypeOK
<1> QED
  BY <1>1, <1>2 DEF Reconfigure

\* Types hold as a thread starts a job.
LEMMA TypeStartJob ==
  ASSUME TypeOK, NEW t \in Thread, StartJob(t)
  PROVE  TypeOK'
<1>1. CASE Request(t)
  <2>1. pc' \in [Thread -> Place]
    BY <1>1, GoFacts DEF Request, TypeOK, Place
  <2>2. work[t].limit \in Age
    BY DEF TypeOK, Work
  <2>3. work' \in [Thread -> Work]
    BY <1>1, OutdatedFacts, ThreadFacts DEF Request, TypeOK
  <2> QED
    BY <1>1, <2>1, <2>2, <2>3 DEF Request, TypeOK
<1>2. CASE Start(t)
  <2>1. pc' \in [Thread -> Place]
    BY <1>2, GoFacts DEF Start, TypeOK, Place
  <2>2. work' \in [Thread -> Work]
    BY <1>2, ThreadFacts DEF Start, TypeOK
  <2> QED
    BY <1>2, <2>1, <2>2 DEF Start, TypeOK
<1>3. CASE Claim(t)
  <2>1. pc' \in [Thread -> Place]
    BY <1>3, GoFacts DEF Claim, TypeOK, Place
  <2> QED
    BY <1>3, <2>1 DEF Claim, TypeOK
<1>4. CASE LoadGeneration(t)
  <2>1. pc' \in [Thread -> Place]
    BY <1>4, GoFacts DEF LoadGeneration, TypeOK, Place
  <2>2. work' \in [Thread -> Work]
    BY <1>4 DEF LoadGeneration, TypeOK, Work
  <2> QED
    BY <1>4, <2>1, <2>2 DEF LoadGeneration, TypeOK
<1>5. CASE \E w \in Worker : Spawn(t, w)
  <2>1. PICK w \in Worker : Spawn(t, w)
    BY <1>5
  <2>2. pc' \in [Thread -> Place]
    BY <2>1 DEF Spawn, TypeOK, Place
  <2>3. [work[t] EXCEPT !.limit = cutoff] \in Work
    BY DEF TypeOK, Work
  <2>4. work' \in [Thread -> Work]
    BY <2>1, <2>3, ThreadFacts DEF Spawn, TypeOK
  <2> QED
    BY <2>1, <2>2, <2>4 DEF Spawn, TypeOK
<1> QED
  BY <1>1, <1>2, <1>3, <1>4, <1>5 DEF StartJob

\* Types hold as a worker goes on with its job.
LEMMA TypeJob ==
  ASSUME TypeOK, NEW w \in Worker, Job(w)
  PROVE  TypeOK'
<1>0. w \in Thread
  BY ThreadFacts
<1>1. CASE Compact(w)
  <2>1. pc' \in [Thread -> Place]
    BY <1>0, <1>1, GoFacts DEF Compact, TypeOK, Place
  <2>2. work' \in [Thread -> Work]
    BY <1>0, <1>1 DEF Compact, Ends, TypeOK, Work
  <2> QED
    BY <1>1, <2>1, <2>2 DEF Compact, TypeOK
<1>2. CASE Replace(w)
  <2>1. pc' \in [Thread -> Place]
    BY <1>0, <1>2, GoFacts DEF Replace, TypeOK, Place
  <2>2. work' \in [Thread -> Work]
    BY <1>0, <1>2 DEF Replace, Ends, TypeOK, Work
  <2>3. Oldest \in -1 .. Oldest
    BY ThreadFacts
  <2>4. log' \in SUBSET Age /\ store' \in Store
    BY <1>2, <2>3 DEF Replace, TypeOK, Store
  <2> QED
    BY <1>2, <2>1, <2>2, <2>4 DEF Replace, TypeOK
<1>3. CASE Again(w)
  <2>1. pc' \in [Thread -> Place]
    BY <1>0, <1>3, GoFacts DEF Again, TypeOK, Place
  <2>2. work' \in [Thread -> Work]
    BY <1>0, <1>3, ThreadFacts DEF Again, TypeOK
  <2> QED
    BY <1>3, <2>1, <2>2 DEF Again, TypeOK
<1>4. CASE Settle(w) \/ Clear(w) \/ Recheck(w) \/ Restore(w) \/ Finish(w)
  <2>1. pc' \in [Thread -> Place]
    BY <1>0, <1>4, GoFacts DEF Settle, Clear, Recheck, Restore, Finish, TypeOK, Place
  <2> QED
    BY <1>4, <2>1 DEF Settle, Clear, Recheck, Restore, Finish, TypeOK
<1> QED
  BY <1>1, <1>2, <1>3, <1>4 DEF Job

\* Types hold as time passes.
LEMMA TypeTick == TypeOK /\ Tick => TypeOK'
<1> SUFFICES ASSUME TypeOK, Tick PROVE TypeOK'
  OBVIOUS
<1>1. log' \in SUBSET Age /\ cutoff' \in Age
  BY ThreadFacts DEF TypeOK, Tick
<1>2. store.gap \in -1 .. Oldest
  BY DEF TypeOK, Store
<1>3. Older(store.gap) \in -1 .. Oldest
  BY <1>2, ThreadFacts
<1>4. store' \in Store
  BY <1>3 DEF TypeOK, Tick, Store
<1> QED
  BY <1>1, <1>4 DEF TypeOK, Tick

\* The type invariant is inductive.
LEMMA TypeStep == TypeOK /\ [Next]_vars => TypeOK'
<1> SUFFICES ASSUME TypeOK, [Next]_vars PROVE TypeOK'
  OBVIOUS
<1>1. CASE UNCHANGED vars
  BY <1>1 DEF vars, TypeOK
<1> QED
  BY <1>1, TypeSampling, TypeReconfigure, TypeStartJob, TypeJob, TypeTick DEF Next

\* Every variable keeps its type under any interleaving of the three kinds of
\* threads.
THEOREM CompactionTyped == Spec => []TypeOK
BY TypeInit, TypeStep, PTL DEF Spec

-----------------------------------------------------------------------------
(* One compaction at a time.                                               *)

\* A thread that moves enters or leaves the claimed places, and no other does.
LEMMA Moved ==
  ASSUME pc \in [Thread -> Place], NEW t \in Thread, NEW place \in Place, Go(t, place)
  PROVE  Busy' = IF place \in Claimed THEN Busy \cup {t} ELSE Busy \ {t}
BY GoFacts DEF Busy

\* The mutual exclusion holds at the start, where every thread is idle.
LEMMA OneInit == Init => OneCompaction
BY DEF Init, OneCompaction, Busy, Claimed

\* The sampler moves outside the claimed places.
LEMMA OneSampling ==
  ASSUME TypeOK, OneCompaction, Sampling PROVE OneCompaction'
<1>1. pc \in [Thread -> Place] /\ Sampler \in Thread /\ Sampler \notin Busy
  BY ThreadFacts DEF TypeOK, Sampling, Sample, Persist, Skip, At, Busy, Claimed
<1>2. PICK place \in Place \ Claimed : Go(Sampler, place)
  BY DEF Sampling, Sample, Persist, Skip, Place, Claimed
<1>3. Busy' = Busy /\ running' = running
  BY <1>1, <1>2, Moved DEF Sampling, Sample, Persist, Skip
<1> QED
  BY <1>3 DEF OneCompaction

\* So does a save.
LEMMA OneReconfigure ==
  ASSUME TypeOK, OneCompaction, NEW d \in Retention, Reconfigure(d)
  PROVE  OneCompaction'
<1>1. CASE UNCHANGED pc
  BY <1>1 DEF OneCompaction, Busy, Reconfigure
<1>2. CASE Go(Settings, "request")
  <2>1. Settings \notin Busy /\ pc \in [Thread -> Place] /\ Settings \in Thread
    BY ThreadFacts DEF Reconfigure, At, Busy, Claimed, TypeOK
  <2>2. "request" \in Place /\ "request" \notin Claimed
    BY DEF Place, Claimed
  <2>3. Busy' = Busy
    BY <1>2, <2>1, <2>2, Moved
  <2> QED
    BY <2>3 DEF OneCompaction, Reconfigure
<1> QED
  BY <1>1, <1>2 DEF Reconfigure

\* A claim needs the flag down, so no thread is at a claimed place; a spawn hands
\* the claim over to the worker.
LEMMA OneStartJob ==
  ASSUME TypeOK, OneCompaction, NEW t \in Thread, StartJob(t)
  PROVE  OneCompaction'
<1>0. pc \in [Thread -> Place]
  BY DEF TypeOK
<1>1. CASE Request(t) \/ Start(t)
  <2>1. t \notin Busy
    BY <1>1 DEF Request, Start, At, Busy, Claimed
  <2>2. PICK place \in Place \ Claimed : Go(t, place)
    BY <1>1 DEF Request, Start, Place, Claimed
  <2>3. Busy' = Busy /\ running' = running
    BY <1>0, <1>1, <2>1, <2>2, Moved DEF Request, Start
  <2> QED
    BY <2>3 DEF OneCompaction
<1>2. CASE Claim(t)
  <2>1. t \notin Busy
    BY <1>2 DEF Claim, At, Busy, Claimed
  <2>2. CASE running
    <3>1. Go(t, "idle") /\ running' = TRUE
      BY <1>2, <2>2 DEF Claim
    <3>2. "idle" \in Place /\ "idle" \notin Claimed
      BY DEF Place, Claimed
    <3>3. Busy' = Busy
      BY <1>0, <2>1, <3>1, <3>2, Moved
    <3> QED
      BY <2>2, <3>1, <3>3 DEF OneCompaction
  <2>3. CASE ~running
    <3>1. Go(t, "generation") /\ running' = TRUE
      BY <1>2, <2>3 DEF Claim
    <3>2. "generation" \in Place /\ "generation" \in Claimed
      BY DEF Place, Claimed
    <3>3. Busy' = {t}
      BY <1>0, <2>3, <3>1, <3>2, Moved DEF OneCompaction
    <3> QED
      BY <3>1, <3>3 DEF OneCompaction
  <2> QED
    BY <2>2, <2>3
<1>3. CASE LoadGeneration(t)
  <2>1. t \in Busy /\ "spawn" \in Place /\ "spawn" \in Claimed
    BY <1>3 DEF LoadGeneration, At, Busy, Claimed, Place
  <2>2. Busy' = Busy /\ running' = running
    BY <1>0, <1>3, <2>1, Moved DEF LoadGeneration
  <2> QED
    BY <2>2 DEF OneCompaction
<1>4. CASE \E w \in Worker : Spawn(t, w)
  <2>1. PICK w \in Worker : Spawn(t, w)
    BY <1>4
  <2>2. t # w /\ w \in Thread
    BY <2>1, ThreadFacts DEF Spawn, At
  <2>3. Busy = {t} /\ running
    BY <2>1 DEF Spawn, At, Busy, Claimed, OneCompaction
  <2>4. /\ pc'[w] = "compact" /\ pc'[t] = "idle"
        /\ \A u \in Thread \ {t, w} : pc'[u] = pc[u]
    BY <1>0, <2>1, <2>2 DEF Spawn
  <2>5. Busy' = {w}
    BY <2>2, <2>3, <2>4 DEF Busy, Claimed
  <2> QED
    BY <2>1, <2>3, <2>5 DEF OneCompaction, Spawn
<1> QED
  BY <1>1, <1>2, <1>3, <1>4 DEF StartJob

\* A worker keeps its claim until it puts the flag down, and both go at once.
LEMMA OneJob ==
  ASSUME TypeOK, OneCompaction, NEW w \in Worker, Job(w)
  PROVE  OneCompaction'
<1>0. pc \in [Thread -> Place] /\ w \in Thread
  BY ThreadFacts DEF TypeOK
<1>1. CASE Compact(w) \/ Replace(w) \/ Settle(w) \/ Clear(w) \/ Recheck(w) \/ Restore(w)
  <2>1. w \in Busy
    BY <1>0, <1>1 DEF Compact, Replace, Settle, Clear, Recheck, Restore, At, Busy, Claimed
  <2>2. PICK place \in Place \cap Claimed : Go(w, place)
    BY <1>1 DEF Compact, Replace, Settle, Clear, Recheck, Restore, Place, Claimed
  <2>3. Busy' = Busy /\ running' = running
    BY <1>0, <1>1, <2>1, <2>2, Moved DEF Compact, Replace, Settle, Clear, Recheck, Restore
  <2> QED
    BY <2>3 DEF OneCompaction
<1>2. CASE Finish(w)
  <2>1. Busy = {w}
    BY <1>0, <1>2 DEF Finish, At, Busy, Claimed, OneCompaction
  <2>2. "again" \in Place /\ "again" \notin Claimed
    BY DEF Place, Claimed
  <2>3. Busy' = {} /\ running' = FALSE
    BY <1>0, <1>2, <2>1, <2>2, Moved DEF Finish
  <2> QED
    BY <2>3 DEF OneCompaction
<1>3. CASE Again(w)
  <2>1. w \notin Busy
    BY <1>3 DEF Again, At, Busy, Claimed
  <2>2. PICK place \in Place \ Claimed : Go(w, place)
    BY <1>3 DEF Again, Place, Claimed
  <2>3. Busy' = Busy /\ running' = running
    BY <1>0, <1>3, <2>1, <2>2, Moved DEF Again
  <2> QED
    BY <2>3 DEF OneCompaction
<1> QED
  BY <1>1, <1>2, <1>3 DEF Job

\* The mutual exclusion of the jobs is inductive beside the types.
LEMMA OneStep == TypeOK /\ OneCompaction /\ [Next]_vars => OneCompaction'
<1> SUFFICES ASSUME TypeOK, OneCompaction, [Next]_vars PROVE OneCompaction'
  OBVIOUS
<1>1. CASE UNCHANGED vars
  BY <1>1 DEF vars, OneCompaction, Busy
<1>2. CASE Tick
  BY <1>2 DEF Tick, OneCompaction, Busy
<1> QED
  BY <1>1, <1>2, OneSampling, OneReconfigure, OneStartJob, OneJob DEF Next

\* One compaction runs at a time, on any number of worker threads, and the
\* running flag is up exactly while one does.
THEOREM CompactionAlone == Spec => []OneCompaction
BY TypeInit, TypeStep, OneInit, OneStep, PTL DEF Spec

-----------------------------------------------------------------------------
(* Unlimited retention.                                                    *)

\* Only a replacement takes points out, and it is authorized only while the
\* retention is finite.
THEOREM CompactionKeeps == Spec => UnlimitedKeepsAll
<1>1. [Next]_vars => [days = 0 => log \subseteq log' \/ Tick]_vars
  <2> SUFFICES ASSUME Next, days = 0, ~Tick PROVE log \subseteq log'
    BY DEF vars
  <2>1. CASE Sampling
    BY <2>1 DEF Sampling, Sample, Persist, Skip
  <2>2. CASE \E d \in Retention : Reconfigure(d)
    BY <2>2 DEF Reconfigure
  <2>3. CASE \E t \in Thread : StartJob(t)
    BY <2>3 DEF StartJob, Request, Start, Claim, LoadGeneration, Spawn
  <2>4. CASE \E w \in Worker : Replace(w)
    BY <2>4 DEF Replace, Authorized
  <2>5. CASE \E w \in Worker : Job(w) /\ ~Replace(w)
    BY <2>5 DEF Job, Compact, Settle, Clear, Recheck, Restore, Finish, Again
  <2> QED
    BY <2>1, <2>2, <2>3, <2>4, <2>5 DEF Next
<1> QED
  BY <1>1, PTL DEF Spec, UnlimitedKeepsAll

-----------------------------------------------------------------------------
(* No request is lost.                                                     *)

Clean == \A a \in log : a =< cutoff

\* A job whose generation is current works with the cutoff last asked for.
FreshHasCutoff ==
  \A w \in Worker :
    /\ pc[w] \in {"compact", "authorize", "settle", "clear", "recheck"}
    /\ work[w].fresh
    => work[w].limit = cutoff

\* Once such a job has replaced the log, no point is older than that.
FreshMeansClean ==
  \A w \in Worker :
    pc[w] \in {"settle", "clear", "recheck"} /\ work[w].fresh => Clean

\* An old point with nothing pending is on somebody's mind: a save about to ask,
\* or the worker that cleared the flag and has yet to look at the generation.
OldPointAccounted ==
  days > 0 /\ ~pending =>
    \/ Clean
    \/ pc[Settings] = "request"
    \/ \E w \in Worker : \/ pc[w] = "recheck" /\ ~work[w].fresh
                         \/ pc[w] = "restore"

NotLost == FreshHasCutoff /\ FreshMeansClean /\ OldPointAccounted

\* At the start the flag says whether the log has an old point.
LEMMA NotLostInit == Init => NotLost
<1> SUFFICES ASSUME Init PROVE NotLost
  OBVIOUS
<1>1. \A w \in Worker : pc[w] = "idle"
  BY ThreadFacts DEF Init
<1>2. FreshHasCutoff /\ FreshMeansClean
  BY <1>1 DEF FreshHasCutoff, FreshMeansClean
<1>3. CASE days > 0 /\ ~pending
  <2>1. \A a \in log : a \in Int /\ ~(a > days)
    <3>1. pending = (days > 0 /\ (store.gap = 0 \/ \E a \in log : a > days))
      BY DEF Init
    <3>2. \A a \in log : ~(a > days)
      BY <1>3, <3>1, Zenon
    <3> QED
      BY <3>2, ThreadFacts DEF Init, Age
  <2>2. cutoff = days /\ days \in Int
    BY <1>3, ThreadFacts DEF Init, Age
  <2>3. Clean
    BY <2>1, <2>2 DEF Clean
  <2> QED
    BY <1>2, <2>3 DEF NotLost, OldPointAccounted
<1> QED
  BY <1>2, <1>3 DEF NotLost, OldPointAccounted

\* A new point has the age of now, and the sampler is no worker.
LEMMA NotLostSampling == TypeOK /\ NotLost /\ Sampling => NotLost'
<1> SUFFICES ASSUME TypeOK, NotLost, Sampling PROVE NotLost'
  OBVIOUS
<1>1. \A t \in Thread \ {Sampler} : pc'[t] = pc[t] /\ work'[t] = work[t]
  BY ThreadFacts DEF Sampling, Sample, Persist, Skip, Go, TypeOK
<1>2. \A w \in Worker : pc'[w] = pc[w] /\ work'[w] = work[w]
  BY <1>1, ThreadFacts
<1>3. pc'[Settings] = pc[Settings]
  BY <1>1, ThreadFacts
<1>4. UNCHANGED <<days, pending, cutoff>> /\ log' \subseteq log \cup {0}
  BY DEF Sampling, Sample, Persist, Skip
<1>5. cutoff \in Nat
  BY ThreadFacts DEF TypeOK, Age
<1>6. Clean => Clean'
  BY <1>4, <1>5 DEF Clean
<1> QED
  BY <1>2, <1>3, <1>4, <1>6 DEF NotLost, FreshHasCutoff, FreshMeansClean, OldPointAccounted

\* A save either makes the retention unlimited or is about to ask.
LEMMA NotLostReconfigure ==
  ASSUME TypeOK, NotLost, NEW d \in Retention, Reconfigure(d)
  PROVE  NotLost'
<1>1. UNCHANGED <<cutoff, log>> /\ days' = d /\ d \in Nat
  BY ThreadFacts DEF Reconfigure, Age
<1>2. Clean' = Clean
  BY <1>1 DEF Clean
<1>3. CASE d = 0
  <2>1. work' = Outdated
    BY <1>3 DEF Reconfigure
  <2>2. \A w \in Worker : work'[w].fresh = FALSE
    BY <2>1, OutdatedFacts, ThreadFacts DEF TypeOK
  <2> QED
    BY <1>1, <1>3, <2>2 DEF NotLost, FreshHasCutoff, FreshMeansClean, OldPointAccounted
<1>4. CASE d > 0
  <2>1. Go(Settings, "request") /\ UNCHANGED pending
    BY <1>4 DEF Reconfigure
  <2>2. pc'[Settings] = "request"
    BY <2>1, ThreadFacts DEF Go, TypeOK
  <2>3. \A w \in Worker : pc'[w] = pc[w] /\ work'[w] = work[w]
    BY <1>4, <2>1, ThreadFacts DEF Reconfigure, Go, TypeOK
  <2> QED
    BY <1>1, <1>2, <2>2, <2>3 DEF NotLost, FreshHasCutoff, FreshMeansClean, OldPointAccounted
<1> QED
  BY <1>1, <1>3, <1>4

\* A request raises the flag and outdates every job; what follows it leaves the
\* log, the cutoff and the flag alone, and a spawned job loads that cutoff.
LEMMA NotLostStartJob ==
  ASSUME TypeOK, NotLost, NEW t \in Thread, StartJob(t)
  PROVE  NotLost'
<1>0. pc \in [Thread -> Place] /\ work \in [Thread -> Work] /\ Worker \subseteq Thread
  BY ThreadFacts DEF TypeOK
<1>1. CASE Request(t)
  <2>1. pending' = TRUE
    BY <1>1 DEF Request
  <2>2. \A w \in Worker : work'[w].fresh = FALSE
    BY <1>0, <1>1, OutdatedFacts DEF Request, Nothing
  <2> QED
    BY <2>1, <2>2 DEF NotLost, FreshHasCutoff, FreshMeansClean, OldPointAccounted
<1>2. CASE Start(t) \/ Claim(t) \/ LoadGeneration(t)
  <2>1. UNCHANGED <<days, pending, cutoff, log>>
    BY <1>2 DEF Start, Claim, LoadGeneration
  <2>2. /\ pc[t] \in {"start", "claim", "generation"}
        /\ pc'[t] \in {"idle", "claim", "generation", "spawn"}
    BY <1>0, <1>2 DEF Start, Claim, LoadGeneration, At, Go
  <2>3. \A u \in Thread \ {t} : pc'[u] = pc[u] /\ work'[u] = work[u]
    BY <1>0, <1>2 DEF Start, Claim, LoadGeneration, Go
  <2>4. Clean' = Clean
    BY <2>1 DEF Clean
  <2>5. FreshHasCutoff' /\ FreshMeansClean'
    BY <1>0, <2>1, <2>2, <2>3, <2>4 DEF NotLost, FreshHasCutoff, FreshMeansClean
  <2>6. OldPointAccounted'
    BY <1>0, <2>1, <2>2, <2>3, <2>4, ThreadFacts DEF NotLost, OldPointAccounted
  <2> QED
    BY <2>5, <2>6 DEF NotLost
<1>3. CASE \E w \in Worker : Spawn(t, w)
  <2>1. PICK w \in Worker : Spawn(t, w)
    BY <1>3
  <2>2. UNCHANGED <<days, pending, cutoff, log>> /\ t # w
    BY <2>1 DEF Spawn, At
  <2>3. /\ pc[t] = "spawn" /\ pc'[t] = "idle"
        /\ pc[w] = "idle" /\ pc'[w] = "compact"
    BY <1>0, <2>1, <2>2 DEF Spawn, At
  <2>4. work'[w].limit = cutoff
    <3>1. work'[w] = [work[t] EXCEPT !.limit = cutoff]
      BY <1>0, <2>1, <2>2 DEF Spawn
    <3>2. work[t] \in Work
      BY <1>0
    <3> QED
      BY <3>1, <3>2 DEF Work
  <2>5. \A u \in Thread \ {t, w} : pc'[u] = pc[u] /\ work'[u] = work[u]
    BY <1>0, <2>1 DEF Spawn
  <2>6. Clean' = Clean
    BY <2>2 DEF Clean
  <2>7. FreshHasCutoff' /\ FreshMeansClean'
    BY <1>0, <2>2, <2>3, <2>4, <2>5, <2>6 DEF NotLost, FreshHasCutoff, FreshMeansClean
  <2>8. OldPointAccounted'
    BY <1>0, <2>2, <2>3, <2>5, <2>6, ThreadFacts DEF NotLost, OldPointAccounted
  <2> QED
    BY <2>7, <2>8 DEF NotLost
<1> QED
  BY <1>1, <1>2, <1>3 DEF StartJob

\* A job that replaces the log is fresh, so it leaves it clean; the worker that
\* clears the flag is then fresh still, or will find that it is not.
LEMMA NotLostJob ==
  ASSUME TypeOK, NotLost, NEW w \in Worker, Job(w)
  PROVE  NotLost'
<1>0. /\ pc \in [Thread -> Place] /\ work \in [Thread -> Work]
      /\ Worker \subseteq Thread /\ w \in Thread /\ w # Settings
  BY ThreadFacts DEF TypeOK
<1>1. UNCHANGED <<days, cutoff>> /\ log' \subseteq log
  BY DEF Job, Compact, Replace, Settle, Clear, Recheck, Restore, Finish, Again
<1>2. Clean => Clean'
  BY <1>1 DEF Clean
<1>3. \A u \in Thread \ {w} : pc'[u] = pc[u] /\ work'[u] = work[u]
  BY <1>0 DEF Job, Compact, Replace, Settle, Clear, Recheck, Restore, Finish, Again, Go, Ends
<1>4. CASE Replace(w)
  <2>1. work'[w].fresh = work[w].fresh /\ work'[w].limit = work[w].limit
    BY <1>0, <1>4 DEF Replace, Ends, Work
  <2>2. pc[w] = "authorize" /\ pc'[w] \in {"finish", "settle"} /\ pending' = pending
    BY <1>0, <1>4 DEF Replace, Go, At
  <2>3. pc'[w] = "settle" => Clean'
    <3>1. SUFFICES ASSUME pc'[w] = "settle" PROVE Clean'
      OBVIOUS
    <3>2. work[w].fresh /\ log' = {a \in log : a =< work[w].limit}
      BY <1>0, <1>4, <3>1 DEF Replace, Go, Authorized
    <3>3. work[w].limit = cutoff
      BY <2>2, <3>2 DEF NotLost, FreshHasCutoff
    <3> QED
      BY <1>1, <3>2, <3>3 DEF Clean
  <2>4. FreshHasCutoff' /\ FreshMeansClean'
    BY <1>0, <1>1, <1>2, <1>3, <2>1, <2>2, <2>3 DEF NotLost, FreshHasCutoff, FreshMeansClean
  <2>5. OldPointAccounted'
    BY <1>0, <1>1, <1>2, <1>3, <2>2, ThreadFacts DEF NotLost, OldPointAccounted
  <2> QED
    BY <2>4, <2>5 DEF NotLost
<1>5. CASE Compact(w)
  <2>1. work'[w].fresh = work[w].fresh /\ work'[w].limit = work[w].limit
    BY <1>0, <1>5 DEF Compact, Ends, Work
  <2>2. pc[w] = "compact" /\ pc'[w] \in {"finish", "authorize"} /\ pending' = pending
    BY <1>0, <1>5 DEF Compact, Go, At
  <2>3. FreshHasCutoff' /\ FreshMeansClean'
    BY <1>0, <1>1, <1>2, <1>3, <2>1, <2>2 DEF NotLost, FreshHasCutoff, FreshMeansClean
  <2>4. OldPointAccounted'
    BY <1>0, <1>1, <1>2, <1>3, <2>2, ThreadFacts DEF NotLost, OldPointAccounted
  <2> QED
    BY <2>3, <2>4 DEF NotLost
<1>6. CASE Settle(w)
  <2>1. /\ pc[w] = "settle" /\ pc'[w] \in {"clear", "finish"} /\ pending' = pending
        /\ work' = work
    BY <1>0, <1>6 DEF Settle, Go, At
  <2>2. FreshHasCutoff' /\ FreshMeansClean'
    BY <1>0, <1>1, <1>2, <1>3, <2>1 DEF NotLost, FreshHasCutoff, FreshMeansClean
  <2>3. OldPointAccounted'
    BY <1>0, <1>1, <1>2, <1>3, <2>1, ThreadFacts DEF NotLost, OldPointAccounted
  <2> QED
    BY <2>2, <2>3 DEF NotLost
<1>7. CASE Clear(w)
  <2>1. pc[w] = "clear" /\ pc'[w] = "recheck" /\ work' = work
    BY <1>0, <1>7 DEF Clear, Go, At
  <2>2. FreshHasCutoff' /\ FreshMeansClean'
    BY <1>0, <1>1, <1>2, <1>3, <2>1 DEF NotLost, FreshHasCutoff, FreshMeansClean
  <2>3. OldPointAccounted'
    <3>1. CASE work[w].fresh
      BY <1>2, <2>1, <3>1 DEF NotLost, FreshMeansClean, OldPointAccounted
    <3>2. CASE ~work[w].fresh
      BY <2>1, <3>2 DEF OldPointAccounted
    <3> QED
      BY <3>1, <3>2
  <2> QED
    BY <2>2, <2>3 DEF NotLost
<1>8. CASE Recheck(w)
  <2>1. pc[w] = "recheck" /\ pending' = pending /\ work' = work
    BY <1>8 DEF Recheck, At
  <2>2. pc'[w] = IF ~work[w].fresh /\ days > 0 THEN "restore" ELSE "finish"
    BY <1>0, <1>8 DEF Recheck, Go
  <2>3. FreshHasCutoff' /\ FreshMeansClean'
    BY <1>0, <1>1, <1>2, <1>3, <2>1, <2>2 DEF NotLost, FreshHasCutoff, FreshMeansClean
  <2>4. OldPointAccounted'
    BY <1>0, <1>1, <1>2, <1>3, <2>1, <2>2, ThreadFacts DEF NotLost, OldPointAccounted
  <2> QED
    BY <2>3, <2>4 DEF NotLost
<1>9. CASE Restore(w)
  <2>1. pc'[w] = "finish" /\ pending' = TRUE
    BY <1>0, <1>9 DEF Restore, Go
  <2> QED
    BY <1>0, <1>1, <1>2, <1>3, <2>1
    DEF NotLost, FreshHasCutoff, FreshMeansClean, OldPointAccounted
<1>10. CASE Finish(w) \/ Again(w)
  <2>1. /\ pc[w] \in {"finish", "again"} /\ pc'[w] \in {"again", "start", "idle"}
        /\ pending' = pending
    BY <1>0, <1>10 DEF Finish, Again, Go, At
  <2>2. FreshHasCutoff' /\ FreshMeansClean'
    BY <1>0, <1>1, <1>2, <1>3, <2>1 DEF NotLost, FreshHasCutoff, FreshMeansClean
  <2>3. OldPointAccounted'
    BY <1>0, <1>1, <1>2, <1>3, <2>1, ThreadFacts DEF NotLost, OldPointAccounted
  <2> QED
    BY <2>2, <2>3 DEF NotLost
<1> QED
  BY <1>4, <1>5, <1>6, <1>7, <1>8, <1>9, <1>10 DEF Job

\* Points and cutoff grow older together.
LEMMA NotLostTick == TypeOK /\ NotLost /\ Tick => NotLost'
<1> SUFFICES ASSUME TypeOK, NotLost, Tick PROVE NotLost'
  OBVIOUS
<1>1. \A t \in Thread : pc[t] = "idle" /\ pc'[t] = "idle"
  BY DEF Tick, At
<1>2. \A w \in Worker : pc'[w] = "idle"
  BY <1>1, ThreadFacts
<1>3. ASSUME Clean PROVE Clean'
  <2>1. \A a \in log : a \in Age /\ a =< cutoff
    BY <1>3 DEF Clean, TypeOK
  <2>2. \A a \in log : Older(a) =< Older(cutoff)
    BY <2>1, ThreadFacts DEF Older, Age, TypeOK
  <2> QED
    BY <2>2 DEF Clean, Tick
<1>4. FreshHasCutoff' /\ FreshMeansClean'
  BY <1>2 DEF FreshHasCutoff, FreshMeansClean
<1>5. OldPointAccounted'
  BY <1>1, <1>3, ThreadFacts DEF NotLost, OldPointAccounted, Tick
<1> QED
  BY <1>4, <1>5 DEF NotLost

\* The three facts are inductive beside the types.
LEMMA NotLostStep == TypeOK /\ NotLost /\ [Next]_vars => NotLost'
<1> SUFFICES ASSUME TypeOK, NotLost, [Next]_vars PROVE NotLost'
  OBVIOUS
<1>1. CASE UNCHANGED vars
  BY <1>1 DEF vars, NotLost, FreshHasCutoff, FreshMeansClean, OldPointAccounted, Clean
<1> QED
  BY <1>1, NotLostSampling, NotLostReconfigure, NotLostStartJob, NotLostJob, NotLostTick
  DEF Next

\* With nothing pending, nothing running and no save about to ask, the log holds
\* nothing older than the last cutoff asked for.
THEOREM CompactionQuiet == Spec => []QuietMeansCompacted
<1>1. TypeOK /\ OneCompaction /\ NotLost => QuietMeansCompacted
  <2> SUFFICES ASSUME TypeOK, OneCompaction, NotLost, days > 0, ~pending, ~running,
                      At(Settings, "idle")
               PROVE  Clean
    BY DEF QuietMeansCompacted, Clean
  <2>1. \A w \in Worker : pc[w] \notin Claimed
    BY ThreadFacts DEF OneCompaction, Busy
  <2> QED
    BY <2>1 DEF NotLost, OldPointAccounted, At, Claimed
<1> QED
  BY <1>1, TypeInit, TypeStep, OneInit, OneStep, NotLostInit, NotLostStep, PTL DEF Spec

-----------------------------------------------------------------------------
(* The log: positions.                                                     *)

\* Positions and times are integers.
LEMMA LogNumbers ==
  /\ MaxLine \in Nat /\ MaxTime \in Nat /\ Boots \in Nat
  /\ \A i \in Pos : i \in Nat /\ i <= MaxLine
  /\ \A t \in Time : t \in Nat /\ t < Forever
BY HistoryLogAssumption DEF HistoryLogAssumption, Pos, Time, Forever

\* A nonempty set of naturals has a least element.
LEMMA LeastOf ==
  ASSUME NEW S, S \subseteq Nat, S # {}
  PROVE  \E x \in S : \A y \in S : x <= y
<1>1. IsWellFoundedOn(OpToRel(<, Nat), Nat)
  BY NatLessThanWellFounded
<1>2. PICK x \in S : \A y \in S : ~ (<<y, x>> \in OpToRel(<, Nat))
  BY <1>1, WFMin, Zenon
<1>3. \A y \in S : ~ (y < x)
  BY <1>2, Zenon DEF OpToRel
<1> QED
  BY <1>3

\* Of a nonempty set of positions Latest is the greatest.
LEMMA LatestOf ==
  ASSUME NEW S, S \subseteq Pos, S # {}
  PROVE  Latest(S) \in S /\ \A j \in S : j <= Latest(S)
<1>0. \A i \in S : i \in Nat /\ i <= MaxLine
  BY LogNumbers
<1> DEFINE Dist == {MaxLine - i : i \in S}
<1>1. Dist \subseteq Nat /\ Dist # {}
  <2>1. \A i \in S : MaxLine - i \in Nat
    BY <1>0, LogNumbers
  <2>2. PICK i \in S : TRUE
    OBVIOUS
  <2> QED
    BY <2>1, <2>2
<1>2. PICK d \in Dist : \A e \in Dist : d <= e
  BY <1>1, LeastOf
<1>3. PICK i \in S : d = MaxLine - i
  BY <1>2
<1>4. \A j \in S : j <= i
  <2> TAKE j \in S
  <2>1. MaxLine - j \in Dist
    OBVIOUS
  <2>2. MaxLine - i <= MaxLine - j
    BY <1>2, <1>3, <2>1
  <2> QED
    BY <1>0, <2>2, LogNumbers
<1> HIDE DEF Dist
<1> QED
  BY <1>3, <1>4 DEF Latest

\* It is the only one.
LEMMA LatestIs ==
  ASSUME NEW S, S \subseteq Pos, NEW m \in S, \A j \in S : j <= m
  PROVE  Latest(S) = m
<1>1. Latest(S) \in S /\ \A j \in S : j <= Latest(S)
  BY LatestOf
<1>2. Latest(S) \in Int /\ m \in Int
  BY <1>1, LogNumbers
<1>3. Latest(S) <= m /\ m <= Latest(S)
  BY <1>1
<1> QED
  BY <1>2, <1>3

\* The end of a file is past its positions.
LEMMA EndPast ==
  ASSUME NEW L, DOMAIN L \subseteq Pos
  PROVE  /\ End(L) \in Nat /\ End(L) <= MaxLine + 1
         /\ \A i \in DOMAIN L : i \in Nat /\ i < End(L) /\ i <= Last(L)
         /\ DOMAIN L # {} => Last(L) \in DOMAIN L /\ End(L) = Last(L) + 1
         /\ DOMAIN L = {} => End(L) = 0
<1>1. CASE DOMAIN L = {}
  BY <1>1, LogNumbers DEF End
<1>2. CASE DOMAIN L # {}
  <2>1. Last(L) \in DOMAIN L /\ \A i \in DOMAIN L : i <= Last(L)
    BY <1>2, LatestOf DEF Last
  <2>2. Last(L) \in Nat /\ Last(L) <= MaxLine
    BY <2>1, LogNumbers
  <2>3. End(L) = Last(L) + 1
    BY <1>2 DEF End
  <2>4. \A i \in DOMAIN L : i \in Nat
    BY LogNumbers
  <2>5. \A i \in DOMAIN L : i < End(L)
    BY <2>1, <2>2, <2>3, <2>4
  <2> QED
    BY <1>2, <2>1, <2>2, <2>3, <2>4, <2>5, LogNumbers
<1> QED
  BY <1>1, <1>2

-----------------------------------------------------------------------------
(* The log: epochs, and what a compaction retains of them.                 *)

\* What a good line is, and where the epoch of a boot record lies.
LEMMA EpochFacts ==
  ASSUME NEW L, IsFile(L), NEW b \in BootLines(L)
  PROVE  /\ b \in DOMAIN L /\ b \in Nat /\ L[b].kind = "boot" /\ Good(L, b)
         /\ b \in Epoch(L, b) /\ Epoch(L, b) \subseteq DOMAIN L
         /\ \A i \in Epoch(L, b) : i \in Pos /\ i \in Nat /\ b <= i
         /\ \A i \in Epoch(L, b) : L[i].kind = "boot" /\ Good(L, i) => i = b
<1>1. b \in DOMAIN L /\ b \in Nat /\ L[b].kind = "boot" /\ Good(L, b)
  BY LogNumbers DEF IsFile, BootLines
<1>2. Epoch(L, b) \subseteq DOMAIN L
  BY DEF Epoch
<1>3. \A i \in Epoch(L, b) : i \in Pos /\ i \in Nat /\ b <= i
  BY LogNumbers DEF Epoch, IsFile
<1>4. \A c \in BootLines(L) : c \in Nat
  BY LogNumbers DEF IsFile, BootLines
<1>5. b \in Epoch(L, b)
  <2>1. \A c \in BootLines(L) : c <= b \/ b < c
    BY <1>1, <1>4
  <2> QED
    BY <1>1, <2>1 DEF Epoch
<1>6. ASSUME NEW i \in Epoch(L, b), L[i].kind = "boot", Good(L, i)
      PROVE  i = b
  <2>1. i \in BootLines(L)
    BY <1>2, <1>6 DEF BootLines
  <2>2. i <= b
    BY <1>3, <2>1, <1>6 DEF Epoch
  <2> QED
    BY <1>1, <1>3, <2>2
<1> QED
  BY <1>1, <1>2, <1>3, <1>5, <1>6

\* What is retained of a usable epoch lies in it, is good, and holds its boot
\* record.
LEMMA RetainedFacts ==
  ASSUME NEW L, IsFile(L), NEW b \in UsableBoots(L), NEW limit
  PROVE  /\ b \in BootLines(L)
         /\ b \in RetainedOf(L, b, limit)
         /\ RetainedOf(L, b, limit) \subseteq Epoch(L, b)
         /\ \A i \in Epoch(L, b) : Good(L, i) /\ L[i].boot = L[b].boot
<1>1. b \in BootLines(L) /\ \A i \in Epoch(L, b) : Good(L, i) /\ L[i].boot = L[b].boot
  BY DEF UsableBoots, Usable
<1>2. b \in Epoch(L, b)
  BY <1>1, EpochFacts
<1> QED
  BY <1>1, <1>2 DEF RetainedOf, Baseline

\* Of two records of a usable epoch the later is not of an earlier time.
LEMMA EpochInOrder ==
  ASSUME NEW L, IsFile(L), NEW b \in UsableBoots(L),
         NEW i \in Epoch(L, b), NEW j \in Epoch(L, b), j < i
  PROVE  L[j].at \in Nat /\ L[i].at \in Nat /\ L[j].at <= L[i].at
<1>1. b \in BootLines(L) /\ Good(L, i) /\ Good(L, j)
  BY RetainedFacts
<1>2. j \in DOMAIN L /\ i \in DOMAIN L
  BY <1>1, EpochFacts
<1>3. L[j].at \in Time /\ L[i].at \in Time
  BY <1>2 DEF IsFile, Line
<1> QED
  BY <1>1, <1>2, <1>3, LogNumbers DEF Good, InOrder

\* The first record retained after the boot record is a full sample.
LEMMA RetainedBegins ==
  ASSUME NEW L, IsFile(L), NEW b \in UsableBoots(L), NEW limit \in Time
  PROVE  \E i \in RetainedOf(L, b, limit) \ {b} :
           L[i].kind = "sample" /\ \A j \in RetainedOf(L, b, limit) \ {b} : i <= j
<1> DEFINE R == RetainedOf(L, b, limit)
           Early == {i \in Epoch(L, b) : L[i].kind = "sample" /\ L[i].at < limit}
<1>1. b \in BootLines(L) /\ R \subseteq Epoch(L, b) /\ b \in R
  BY RetainedFacts
<1>2. /\ L[b].kind = "boot"
      /\ \A i \in Epoch(L, b) : i \in Pos /\ i \in Nat /\ i \in DOMAIN L
  BY <1>1, EpochFacts
<1>3. limit \in Nat /\ \A i \in Epoch(L, b) : L[i].at \in Nat
  BY <1>2, LogNumbers DEF IsFile, Line
<1>4. CASE Early = {}
  <2>1. PICK f \in Epoch(L, b) \ {b} :
          L[f].kind = "sample" /\ \A j \in Epoch(L, b) \ {b} : f <= j
    BY DEF UsableBoots, Usable
  <2>2. L[f].at >= limit
    BY <1>3, <1>4, <2>1
  <2>3. f \in R
    BY <2>1, <2>2 DEF RetainedOf
  <2> QED
    BY <1>1, <2>1, <2>3
<1>5. CASE Early # {}
  <2>1. Latest(Early) \in Early /\ \A j \in Early : j <= Latest(Early)
    BY <1>2, <1>5, LatestOf
  <2> DEFINE m == Latest(Early)
  <2>2. m \in Epoch(L, b) /\ L[m].kind = "sample" /\ L[m].at < limit /\ m # b
    BY <1>2, <2>1
  <2>3. m \in Baseline(L, b, limit)
    BY <2>1, <2>2 DEF Baseline
  <2>4. m \in R
    BY <2>3 DEF RetainedOf
  <2>5. ASSUME NEW j \in R \ {b}
        PROVE  m <= j
    <3>1. CASE j \in Baseline(L, b, limit)
      BY <2>2, <3>1 DEF Baseline
    <3>2. CASE j \in Epoch(L, b) /\ L[j].at >= limit
      <4>1. ~ (j < m)
        <5> SUFFICES ASSUME j < m PROVE FALSE
          OBVIOUS
        <5>1. L[j].at <= L[m].at
          BY <2>2, <3>2, EpochInOrder
        <5> QED
          BY <1>3, <2>2, <3>2, <5>1
      <4> QED
        BY <1>2, <2>2, <3>2, <4>1
    <3> QED
      BY <2>5, <3>1, <3>2 DEF RetainedOf
  <2> HIDE DEF m
  <2> QED
    BY <2>2, <2>4, <2>5
<1> QED
  BY <1>4, <1>5

\* A line that is kept is in the epoch of a retained boot record, good in the
\* file and in what is kept of it.
LEMMA KeptLines ==
  ASSUME NEW L, IsFile(L), NEW limit, NEW live, NEW i \in Retained(L, limit, live)
  PROVE  /\ i \in DOMAIN L /\ i \in Pos /\ i \in Nat
         /\ Good(L, i) /\ Good(Kept(L, limit, live), i)
         /\ \E b \in RetainedBoots(L, limit, live) : i \in RetainedOf(L, b, limit)
         /\ \A b \in UsableBoots(L) : i \in Epoch(L, b) => i \in Replay(L)
<1>1. PICK b \in RetainedBoots(L, limit, live) : i \in RetainedOf(L, b, limit)
  BY DEF Retained
<1>2. b \in UsableBoots(L)
  BY DEF RetainedBoots
<1>3. i \in Epoch(L, b) /\ Good(L, i) /\ b \in BootLines(L)
  BY <1>1, <1>2, RetainedFacts
<1>4. i \in DOMAIN L /\ i \in Pos /\ i \in Nat
  BY <1>3, EpochFacts
<1>5. \A k \in Retained(L, limit, live) : k \in DOMAIN L
  <2> TAKE k \in Retained(L, limit, live)
  <2>1. PICK c \in RetainedBoots(L, limit, live) : k \in RetainedOf(L, c, limit)
    BY DEF Retained
  <2>2. c \in UsableBoots(L)
    BY DEF RetainedBoots
  <2> QED
    BY <2>1, <2>2, RetainedFacts, EpochFacts
<1>6. InOrder(Kept(L, limit, live), i)
  BY <1>3, <1>5 DEF InOrder, Good, Kept, Restrict
<1>7. Good(Kept(L, limit, live), i)
  BY <1>3, <1>6 DEF Good, Kept, Restrict
<1> QED
  BY <1>1, <1>3, <1>4, <1>7 DEF Replay

\* The boot records of what is kept are those retained, and what is left of
\* their epochs is what is retained of them.
LEMMA KeptEpochs ==
  ASSUME NEW L, IsFile(L), NEW limit \in Time, NEW live
  PROVE  /\ DOMAIN Kept(L, limit, live) = Retained(L, limit, live)
         /\ IsFile(Kept(L, limit, live))
         /\ BootLines(Kept(L, limit, live)) = RetainedBoots(L, limit, live)
         /\ \A b \in RetainedBoots(L, limit, live) :
              Epoch(Kept(L, limit, live), b) = RetainedOf(L, b, limit)
<1> DEFINE K == Kept(L, limit, live)
           R == Retained(L, limit, live)
           B == RetainedBoots(L, limit, live)
<1>1. DOMAIN K = R /\ \A i \in R : K[i] = L[i]
  BY DEF Kept, Restrict
<1>2. B \subseteq UsableBoots(L)
  BY DEF RetainedBoots
<1>3. IsFile(K)
  BY <1>1, KeptLines DEF IsFile
<1>4. ASSUME NEW b \in B PROVE b \in R /\ L[b].kind = "boot" /\ b \in BootLines(L) /\ b \in Nat
  BY <1>2, RetainedFacts, EpochFacts DEF Retained
<1>5. ASSUME NEW i \in R, L[i].kind = "boot" PROVE i \in B
  <2>1. PICK b \in B : i \in RetainedOf(L, b, limit)
    BY KeptLines
  <2>2. Good(L, i)
    BY KeptLines
  <2>3. i = b
    BY <1>2, <1>5, <2>1, <2>2, RetainedFacts, EpochFacts
  <2> QED
    BY <2>1, <2>3
<1>6. BootLines(K) = B
  <2>1. ASSUME NEW i \in BootLines(K) PROVE i \in B
    BY <1>1, <1>5, <2>1 DEF BootLines
  <2>2. ASSUME NEW b \in B PROVE b \in BootLines(K)
    BY <1>1, <1>4, <2>2, KeptLines DEF BootLines
  <2> QED
    BY <2>1, <2>2
<1>7. ASSUME NEW b \in B
      PROVE  Epoch(K, b) = RetainedOf(L, b, limit)
  <2>1. ASSUME NEW i \in RetainedOf(L, b, limit)
        PROVE  i \in Epoch(K, b)
    <3>1. i \in Epoch(L, b) /\ i \in R
      BY <1>2, RetainedFacts DEF Retained
    <3>2. b <= i /\ \A c \in BootLines(K) : c <= b \/ i < c
      BY <1>4, <1>6, <3>1 DEF Epoch
    <3> QED
      BY <1>1, <3>1, <3>2 DEF Epoch
  <2>2. ASSUME NEW i \in Epoch(K, b)
        PROVE  i \in RetainedOf(L, b, limit)
    <3>1. i \in R /\ b <= i
      BY <1>1 DEF Epoch
    <3>2. PICK c \in B : i \in RetainedOf(L, c, limit)
      BY <3>1, KeptLines
    <3>3. i \in Epoch(L, c) /\ c <= i /\ i \in Nat
      BY <1>2, <1>4, <3>2, RetainedFacts, EpochFacts
    <3>4. c <= b
      BY <1>4, <1>6, <3>2, <3>3, <2>2 DEF Epoch
    <3>5. b <= c
      BY <1>4, <3>1, <3>3 DEF Epoch
    <3>6. b = c
      BY <1>4, <3>4, <3>5
    <3> QED
      BY <3>2, <3>6
  <2> QED
    BY <2>1, <2>2
<1> HIDE DEF K, R, B
<1>8. DOMAIN K = R /\ IsFile(K) /\ BootLines(K) = B /\ \A b \in B : Epoch(K, b) = RetainedOf(L, b, limit)
  BY <1>1, <1>3, <1>6, <1>7
<1> QED
  BY <1>8 DEF K, R, B

\* Every epoch that is left can be replayed.
LEMMA KeptUsable ==
  ASSUME NEW L, IsFile(L), NEW limit \in Time, NEW live
  PROVE  /\ UsableBoots(Kept(L, limit, live)) = RetainedBoots(L, limit, live)
         /\ Replay(Kept(L, limit, live)) = Retained(L, limit, live)
         /\ Gaps(Kept(L, limit, live)) = {}
<1> DEFINE K == Kept(L, limit, live)
           B == RetainedBoots(L, limit, live)
<1>1. \A i \in DOMAIN K : K[i] = L[i] /\ i \in Retained(L, limit, live)
  BY DEF Kept, Restrict
<1>2. BootLines(K) = B /\ B \subseteq UsableBoots(L)
  BY KeptEpochs DEF RetainedBoots
<1>3. ASSUME NEW b \in B
      PROVE  Usable(K, b)
  <2>1. Epoch(K, b) = RetainedOf(L, b, limit) /\ Epoch(K, b) \subseteq DOMAIN K
    BY KeptEpochs DEF Epoch
  <2>2. b \in Epoch(K, b)
    BY <1>2, <2>1, RetainedFacts
  <2>3. \A i \in Epoch(K, b) : Good(K, i)
    BY <1>1, <2>1, KeptLines
  <2>4. \A i \in Epoch(K, b) : K[i].boot = K[b].boot
    BY <1>1, <1>2, <2>1, <2>2, RetainedFacts
  <2>5. PICK i \in Epoch(K, b) \ {b} :
          L[i].kind = "sample" /\ \A j \in Epoch(K, b) \ {b} : i <= j
    BY <1>2, <2>1, RetainedBegins
  <2>6. K[i].kind = "sample"
    BY <1>1, <2>1, <2>5
  <2> QED
    BY <2>3, <2>4, <2>5, <2>6 DEF Usable
<1>4. UsableBoots(K) = B
  BY <1>2, <1>3 DEF UsableBoots
<1>5. Replay(K) = UNION {RetainedOf(L, b, limit) : b \in B}
  BY <1>4, KeptEpochs DEF Replay
<1>6. Gaps(K) = {}
  BY <1>2, <1>4 DEF Gaps
<1> QED
  BY <1>4, <1>5, <1>6 DEF Retained

\* The check compaction makes of its replacement holds for any file, any cutoff
\* and any boot id.
LEMMA Validates ==
  ASSUME NEW L, IsFile(L), NEW limit \in Time, NEW live
  PROVE  /\ Replay(Kept(L, limit, live)) = DOMAIN Kept(L, limit, live)
         /\ Gaps(Kept(L, limit, live)) = {}
BY KeptUsable, KeptEpochs

-----------------------------------------------------------------------------
(* The log: what is observed, and that compaction does not change it.      *)

\* The last full sample up to a position.
SampleOf(L, i, s) ==
  /\ s \in DOMAIN L /\ s <= i /\ L[s].kind = "sample"
  /\ \A j \in DOMAIN L : j <= i /\ L[j].kind = "sample" => j <= s

\* It gives the state observed there.
LEMMA StateOf ==
  ASSUME NEW L, IsFile(L), NEW i \in DOMAIN L, NEW s, SampleOf(L, i, s)
  PROVE  StateAt(L, i) = L[s].state
<1> DEFINE S == {j \in DOMAIN L : j <= i /\ L[j].kind = "sample"}
<1>1. S \subseteq Pos /\ s \in S /\ \A j \in S : j <= s
  BY DEF SampleOf, IsFile
<1>2. Latest(S) = s
  BY <1>1, LatestIs
<1> QED
  BY <1>2 DEF StateAt

\* A record that is replayed, other than a boot record, comes after a full sample
\* of its own epoch.
LEMMA ReplayedSample ==
  ASSUME NEW L, IsFile(L), NEW b \in UsableBoots(L), NEW i \in Epoch(L, b),
         L[i].kind # "boot"
  PROVE  \E s \in Epoch(L, b) : SampleOf(L, i, s)
<1> DEFINE S == {j \in DOMAIN L : j <= i /\ L[j].kind = "sample"}
<1>1. /\ b \in BootLines(L) /\ L[b].kind = "boot" /\ b \in Nat
      /\ i \in DOMAIN L /\ i \in Nat /\ b <= i
  BY RetainedFacts, EpochFacts
<1>2. PICK f \in Epoch(L, b) \ {b} :
        L[f].kind = "sample" /\ \A j \in Epoch(L, b) \ {b} : f <= j
  BY DEF UsableBoots, Usable
<1>3. f <= i /\ f \in S /\ b <= f /\ f \in Nat
  BY <1>1, <1>2, EpochFacts
<1>4. S \subseteq Pos
  BY DEF IsFile
<1>5. PICK s \in S : \A j \in S : j <= s
  BY <1>3, <1>4, LatestOf
<1>6. SampleOf(L, i, s)
  BY <1>5 DEF SampleOf
<1>7. s \in Nat /\ s \in DOMAIN L /\ s <= i /\ b <= s
  BY <1>1, <1>3, <1>4, <1>5, LogNumbers
<1>8. \A c \in BootLines(L) : c \in Nat
  BY LogNumbers DEF IsFile, BootLines
<1>9. \A c \in BootLines(L) : c <= b \/ s < c
  <2> TAKE c \in BootLines(L)
  <2>1. c <= b \/ i < c
    BY DEF Epoch
  <2>2. c \in Nat /\ i \in Nat /\ s \in Nat /\ s <= i
    BY <1>1, <1>7, <1>8
  <2> QED
    BY <2>1, <2>2
<1>10. s \in Epoch(L, b)
  BY <1>7, <1>9 DEF Epoch
<1> QED
  BY <1>6, <1>10

\* The sample behind a record of the window is retained with it.
LEMMA KeptSample ==
  ASSUME NEW L, IsFile(L), NEW limit \in Time, NEW live,
         NEW b \in UsableBoots(L), NEW i \in Epoch(L, b),
         L[i].kind # "boot", L[i].at >= limit
  PROVE  /\ i \in Retained(L, limit, live)
         /\ \E s \in Retained(L, limit, live) :
              SampleOf(L, i, s) /\ SampleOf(Kept(L, limit, live), i, s)
<1> DEFINE R == Retained(L, limit, live)
<1>1. b \in RetainedBoots(L, limit, live)
  BY DEF RetainedBoots
<1>2. RetainedOf(L, b, limit) \subseteq R /\ i \in R
  BY <1>1 DEF Retained, RetainedOf
<1>3. PICK s \in Epoch(L, b) : SampleOf(L, i, s)
  BY ReplayedSample
<1>4. /\ b \in BootLines(L) /\ i \in Nat /\ s \in Nat
      /\ \A j \in Epoch(L, b) : j \in Nat /\ L[j].at \in Nat /\ j \in DOMAIN L
  <2>1. b \in BootLines(L)
    BY RetainedFacts
  <2>2. \A j \in Epoch(L, b) : j \in DOMAIN L /\ j \in Nat
    BY <2>1, EpochFacts
  <2> QED
    BY <2>1, <2>2, LogNumbers DEF IsFile, Line
<1>5. s \in RetainedOf(L, b, limit)
  <2>1. CASE L[s].at >= limit
    BY <2>1 DEF RetainedOf
  <2>2. CASE ~ (L[s].at >= limit)
    <3>1. L[s].at < limit
      BY <1>4, <2>2, LogNumbers
    <3>2. ASSUME NEW j \in Epoch(L, b), L[j].kind = "sample", L[j].at < limit
          PROVE  j <= s
      <4>0. /\ j \in DOMAIN L /\ j \in Nat /\ i \in Nat
            /\ L[i].at \in Nat /\ L[j].at \in Nat /\ limit \in Nat
        BY <1>4, LogNumbers
      <4>1. CASE j <= i
        BY <1>3, <3>2, <4>0, <4>1 DEF SampleOf
      <4>2. CASE i < j
        <5>1. L[i].at <= L[j].at
          BY <4>2, EpochInOrder
        <5> QED
          BY <3>2, <4>0, <5>1
      <4> QED
        BY <4>0, <4>1, <4>2
    <3>3. s \in Baseline(L, b, limit)
      BY <1>3, <3>1, <3>2 DEF Baseline, SampleOf
    <3> QED
      BY <3>3 DEF RetainedOf
  <2> QED
    BY <2>1, <2>2
<1>6. DOMAIN Kept(L, limit, live) = R /\ \A j \in R : Kept(L, limit, live)[j] = L[j] /\ j \in DOMAIN L
  BY KeptLines DEF Kept, Restrict
<1>7. s \in R
  BY <1>2, <1>5
<1>8. SampleOf(Kept(L, limit, live), i, s)
  BY <1>3, <1>6, <1>7 DEF SampleOf
<1> HIDE DEF R
<1>9. i \in R /\ s \in R /\ SampleOf(L, i, s) /\ SampleOf(Kept(L, limit, live), i, s)
  BY <1>2, <1>3, <1>7, <1>8
<1> QED
  BY <1>9 DEF R

\* From its cutoff on, what is kept tells exactly what the file told.
LEMMA KeepsWindow ==
  ASSUME NEW L, IsFile(L), NEW limit \in Time, NEW live
  PROVE  Since(Kept(L, limit, live), limit) = Since(L, limit)
<1> DEFINE K == Kept(L, limit, live)
           R == Retained(L, limit, live)
           Seen(M, i) == [at |-> M[i].at, boot |-> M[i].boot, state |-> StateAt(M, i)]
<1>1. /\ DOMAIN K = R /\ Replay(K) = R /\ IsFile(K)
      /\ \A i \in R : K[i] = L[i] /\ i \in DOMAIN L
  BY KeptEpochs, KeptUsable, KeptLines DEF Kept, Restrict
<1>2. ASSUME NEW i \in R, L[i].kind # "boot", L[i].at >= limit
      PROVE  i \in Replay(L) /\ Seen(K, i) = Seen(L, i)
  <2>1. PICK b \in UsableBoots(L) : i \in Epoch(L, b)
    BY KeptLines, RetainedFacts DEF RetainedBoots
  <2>2. PICK s \in R : SampleOf(L, i, s) /\ SampleOf(K, i, s)
    BY <1>2, <2>1, KeptSample
  <2>3. StateAt(L, i) = L[s].state /\ StateAt(K, i) = K[s].state
    BY <1>1, <2>2, StateOf
  <2>4. i \in Replay(L)
    BY <2>1 DEF Replay
  <2> QED
    BY <1>1, <2>2, <2>3, <2>4
<1>3. ASSUME NEW i \in Replay(L), L[i].kind # "boot", L[i].at >= limit
      PROVE  i \in R
  <2>1. PICK b \in UsableBoots(L) : i \in Epoch(L, b)
    BY DEF Replay
  <2> QED
    BY <1>3, <2>1, KeptSample
<1>4. Since(L, limit) = {Seen(L, i) : i \in {j \in Replay(L) : L[j].kind # "boot" /\ L[j].at >= limit}}
  BY DEF Since, Observations
<1>5. Since(K, limit) = {Seen(K, i) : i \in {j \in Replay(K) : K[j].kind # "boot" /\ K[j].at >= limit}}
  BY DEF Since, Observations
<1>6. {j \in Replay(K) : K[j].kind # "boot" /\ K[j].at >= limit}
        = {j \in Replay(L) : L[j].kind # "boot" /\ L[j].at >= limit}
  BY <1>1, <1>2, <1>3
<1>7. \A i \in {j \in Replay(L) : L[j].kind # "boot" /\ L[j].at >= limit} : Seen(K, i) = Seen(L, i)
  BY <1>2, <1>3
<1> HIDE DEF K, R, Seen
<1>8. Since(K, limit) = Since(L, limit)
  BY <1>4, <1>5, <1>6, <1>7
<1> QED
  BY <1>8 DEF K

-----------------------------------------------------------------------------
(* The log: the shape every failure leaves the file in.                    *)

\* Boot ids do not fall along the file, nor do the times of what parses.
Ordered(L) ==
  \A i, j \in DOMAIN L : j < i =>
    /\ L[j].boot <= L[i].boot
    /\ L[j].kind # "torn" /\ L[i].kind # "torn" => L[j].at <= L[i].at

\* Only the last line may lack its end.
OneTail(L) == \A i, j \in DOMAIN L : ~ L[i].ended => j <= i

FirstBoot(L, f) ==
  /\ f \in DOMAIN L /\ L[f].kind = "boot" /\ L[f].ended
  /\ \A i \in DOMAIN L : f <= i

BootsUpTo(L, n) == \A i \in DOMAIN L : L[i].boot <= n

WellFormed(L, n) ==
  /\ IsFile(L) /\ Ordered(L) /\ OneTail(L) /\ BootsUpTo(L, n)
  /\ DOMAIN L # {} => \E f \in DOMAIN L : FirstBoot(L, f)

\* The line an acknowledged observation was written to, and the sample it
\* repeats.
Witness(L, o, i) ==
  /\ i \in DOMAIN L /\ L[i].kind \in {"sample", "checkpoint"} /\ L[i].ended
  /\ L[i].at = o.at /\ L[i].boot = o.boot
  /\ \E s \in DOMAIN L : SampleOf(L, i, s) /\ L[s].state = o.state

\* Below a position two files say the same, and the second ends what the first
\* did.
Same(L, M, n) ==
  \A i \in Pos : i < n =>
    /\ i \in DOMAIN L <=> i \in DOMAIN M
    /\ i \in DOMAIN L =>
         /\ M[i].kind = L[i].kind /\ M[i].boot = L[i].boot
         /\ M[i].at = L[i].at /\ M[i].state = L[i].state
         /\ L[i].ended => M[i].ended

\* The fields of a line.
LEMMA LineFacts ==
  ASSUME NEW L, IsFile(L), NEW i \in DOMAIN L
  PROVE  /\ i \in Pos /\ i \in Nat /\ L[i] \in Line
         /\ L[i].at \in Time /\ L[i].at \in Nat
         /\ L[i].boot \in 1 .. Boots /\ L[i].boot \in Nat
         /\ L[i].kind \in Kind /\ L[i].state \in State \cup {Unknown}
         /\ L[i].ended \in BOOLEAN
<1>1. i \in Pos /\ L[i] \in Line
  BY DEF IsFile
<1>2. L[i].at \in Time /\ L[i].boot \in 1 .. Boots
  BY <1>1 DEF Line
<1> QED
  BY <1>1, <1>2, LogNumbers DEF Line

\* In such a file a line is good that parses and is ended.
LEMMA GoodLine ==
  ASSUME NEW L, IsFile(L), Ordered(L), NEW i \in DOMAIN L
  PROVE  Good(L, i) <=> L[i].kind # "torn" /\ L[i].ended
BY DEF Good, InOrder, Ordered

\* What was acknowledged is still there, and so is the first boot record.
LEMMA SameWitness ==
  ASSUME NEW L, NEW M, IsFile(L), IsFile(M), NEW n \in Nat, Same(L, M, n)
  PROVE  /\ \A o : \A i \in DOMAIN L : i < n /\ Witness(L, o, i) => Witness(M, o, i)
         /\ \A f \in DOMAIN L : f < n /\ FirstBoot(L, f) => FirstBoot(M, f)
<1>0. /\ \A i \in DOMAIN L : i \in Pos /\ i \in Nat
      /\ \A i \in DOMAIN M : i \in Pos /\ i \in Nat
  BY LineFacts
<1>1. ASSUME NEW o, NEW i \in DOMAIN L, i < n, Witness(L, o, i)
      PROVE  Witness(M, o, i)
  <2>1. PICK s \in DOMAIN L : SampleOf(L, i, s) /\ L[s].state = o.state
    BY <1>1 DEF Witness
  <2>2. s < n /\ s <= i
    BY <1>0, <1>1, <2>1 DEF SampleOf
  <2>3. /\ i \in DOMAIN M /\ M[i].kind = L[i].kind /\ M[i].ended
        /\ M[i].at = L[i].at /\ M[i].boot = L[i].boot
    BY <1>0, <1>1 DEF Same, Witness
  <2>4. s \in DOMAIN M /\ M[s].kind = "sample" /\ M[s].state = o.state
    BY <1>0, <2>1, <2>2 DEF Same, SampleOf
  <2>5. ASSUME NEW j \in DOMAIN M, j <= i, M[j].kind = "sample"
        PROVE  j <= s
    <3>1. j \in Pos /\ j < n
      BY <1>0, <1>1, <2>5
    <3>2. j \in DOMAIN L /\ L[j].kind = "sample"
      BY <2>5, <3>1 DEF Same
    <3> QED
      BY <2>1, <2>5, <3>2 DEF SampleOf
  <2>6. SampleOf(M, i, s)
    BY <2>2, <2>4, <2>5 DEF SampleOf
  <2> QED
    BY <1>1, <2>3, <2>4, <2>6 DEF Witness
<1>2. ASSUME NEW f \in DOMAIN L, f < n, FirstBoot(L, f)
      PROVE  FirstBoot(M, f)
  <2>1. f \in DOMAIN M /\ M[f].kind = "boot" /\ M[f].ended
    BY <1>0, <1>2 DEF Same, FirstBoot
  <2>2. ASSUME NEW i \in DOMAIN M PROVE f <= i
    <3>1. CASE i < n
      <4>1. i \in DOMAIN L
        BY <1>0, <3>1 DEF Same
      <4> QED
        BY <1>2, <4>1 DEF FirstBoot
    <3>2. CASE n <= i
      BY <1>0, <1>2, <3>2
    <3> QED
      BY <1>0, <3>1, <3>2
  <2> QED
    BY <2>1, <2>2 DEF FirstBoot
<1> QED
  BY <1>1, <1>2

\* A line written goes behind the others.
LEMMA WithFacts ==
  ASSUME NEW L, IsFile(L), NEW line
  PROVE  /\ DOMAIN With(L, line) = DOMAIN L \cup {End(L)}
         /\ End(L) \in Nat /\ End(L) \notin DOMAIN L
         /\ With(L, line)[End(L)] = line
         /\ \A i \in DOMAIN L : i \in Nat /\ i < End(L) /\ With(L, line)[i] = L[i]
         /\ Same(L, With(L, line), End(L))
<1>1. End(L) \in Nat /\ \A i \in DOMAIN L : i \in Nat /\ i < End(L)
  BY EndPast DEF IsFile
<1>2. End(L) \notin DOMAIN L
  BY <1>1
<1>3. /\ DOMAIN With(L, line) = DOMAIN L \cup {End(L)}
      /\ With(L, line)[End(L)] = line
      /\ \A i \in DOMAIN L : With(L, line)[i] = L[i]
  BY <1>2 DEF With
<1>4. Same(L, With(L, line), End(L))
  BY <1>1, <1>3, LogNumbers DEF Same
<1> QED
  BY <1>1, <1>2, <1>3, <1>4

\* A line that fits behind a file whose lines are all ended leaves it well formed.
Fits(L, line, n) ==
  /\ line \in Line /\ line.boot <= n
  /\ \A i \in DOMAIN L : L[i].boot <= line.boot
  /\ line.kind = "torn" \/ NotBehind(L, line.at)
  /\ DOMAIN L # {} \/ (line.kind = "boot" /\ line.ended)

\* A line that fits behind what is there keeps the log well formed.
LEMMA WithWellFormed ==
  ASSUME NEW L, NEW m, WellFormed(L, m), AllEnded(L), End(L) \in Pos,
         NEW n \in Nat, NEW line, Fits(L, line, n)
  PROVE  WellFormed(With(L, line), n)
<1> DEFINE M == With(L, line)
<1>1. /\ IsFile(L) /\ Ordered(L)
      /\ line \in Line /\ line.boot \in Nat /\ line.at \in Nat /\ line.boot <= n
  BY LogNumbers DEF WellFormed, Fits, Line
<1>2. /\ DOMAIN M = DOMAIN L \cup {End(L)} /\ M[End(L)] = line
      /\ End(L) \in Nat /\ End(L) \notin DOMAIN L
      /\ \A i \in DOMAIN L : i \in Nat /\ i < End(L) /\ M[i] = L[i]
      /\ Same(L, M, End(L))
  BY <1>1, WithFacts
<1>3. IsFile(M)
  BY <1>1, <1>2 DEF IsFile
<1> HIDE DEF M
<1>4. ASSUME NEW i \in DOMAIN M, NEW j \in DOMAIN M, j < i
      PROVE  /\ j \in DOMAIN L /\ M[j].ended /\ M[j].boot <= M[i].boot
             /\ M[j].kind # "torn" /\ M[i].kind # "torn" => M[j].at <= M[i].at
  <2>1. j \in DOMAIN L
    BY <1>2, <1>4
  <2>2. M[j].ended
    BY <1>2, <2>1 DEF AllEnded
  <2>3. CASE i \in DOMAIN L
    BY <1>1, <1>2, <1>4, <2>1, <2>2, <2>3 DEF Ordered
  <2>4. CASE i = End(L)
    BY <1>2, <2>1, <2>2, <2>4 DEF Fits, NotBehind
  <2> QED
    BY <1>2, <2>3, <2>4
<1>5. Ordered(M)
  BY <1>4 DEF Ordered
<1>6. OneTail(M)
  <2> SUFFICES ASSUME NEW i \in DOMAIN M, NEW j \in DOMAIN M, ~ M[i].ended
               PROVE  j <= i
    BY DEF OneTail
  <2>1. ~ (i < j)
    BY <1>4
  <2> QED
    BY <1>2, <2>1
<1>7. BootsUpTo(M, n)
  <2> SUFFICES ASSUME NEW i \in DOMAIN M PROVE M[i].boot <= n
    BY DEF BootsUpTo
  <2>1. CASE i \in DOMAIN L
    <3>1. M[i].boot = L[i].boot /\ L[i].boot <= line.boot /\ L[i].boot \in Nat
      BY <1>1, <1>2, <2>1, LineFacts DEF Fits
    <3> QED
      BY <1>1, <3>1
  <2>2. CASE i = End(L)
    BY <1>1, <1>2, <2>2
  <2> QED
    BY <1>2, <2>1, <2>2
<1>8. \E f \in DOMAIN M : FirstBoot(M, f)
  <2>1. CASE DOMAIN L = {}
    BY <1>2, <2>1 DEF FirstBoot, Fits
  <2>2. CASE DOMAIN L # {}
    <3>1. PICK f \in DOMAIN L : FirstBoot(L, f)
      BY <2>2 DEF WellFormed
    <3>2. FirstBoot(M, f)
      BY <1>1, <1>2, <1>3, <3>1, SameWitness
    <3> QED
      BY <3>2 DEF FirstBoot
  <2> QED
    BY <2>1, <2>2
<1>9. WellFormed(M, n)
  BY <1>3, <1>5, <1>6, <1>7, <1>8 DEF WellFormed
<1> QED
  BY <1>9 DEF M

\* So does what a failed write leaves of it.
LEMMA PieceFits ==
  ASSUME NEW L, NEW line, NEW n, Fits(L, line, n), DOMAIN L # {}
  PROVE  Fits(L, Torn(line), n) /\ Fits(L, Unended(line), n)
<1>1. line \in Line
  BY DEF Fits
<1>2. /\ Torn(line) \in Line /\ Torn(line).boot = line.boot /\ Torn(line).kind = "torn"
      /\ Unended(line) \in Line /\ Unended(line).boot = line.boot
      /\ Unended(line).kind = line.kind /\ Unended(line).at = line.at
  BY <1>1 DEF Torn, Unended, Line, Kind
<1>3. /\ \A i \in DOMAIN L : L[i].boot <= line.boot
      /\ line.boot <= n
      /\ line.kind = "torn" \/ NotBehind(L, line.at)
  BY DEF Fits
<1>4. Fits(L, Torn(line), n)
  BY <1>2, <1>3 DEF Fits
<1>5. Unended(line).kind = "torn" \/ NotBehind(L, Unended(line).at)
  BY <1>2, <1>3 DEF NotBehind
<1>6. Fits(L, Unended(line), n)
  BY <1>2, <1>3, <1>5 DEF Fits
<1> QED
  BY <1>4, <1>6

\* The delimiter changes nothing that is said.
LEMMA SeparatedFacts ==
  ASSUME NEW L, NEW n, WellFormed(L, n)
  PROVE  /\ WellFormed(Separated(L), n) /\ AllEnded(Separated(L))
         /\ DOMAIN Separated(L) = DOMAIN L
         /\ End(Separated(L)) = End(L) /\ Last(Separated(L)) = Last(L)
         /\ \A i \in DOMAIN L :
              /\ Separated(L)[i].kind = L[i].kind /\ Separated(L)[i].at = L[i].at
              /\ Separated(L)[i].boot = L[i].boot /\ Separated(L)[i].state = L[i].state
<1> DEFINE M == Separated(L)
<1>1. IsFile(L) /\ DOMAIN M = DOMAIN L
  BY DEF WellFormed, Separated
<1>2. ASSUME NEW i \in DOMAIN L
      PROVE  /\ M[i] \in Line /\ M[i].ended
             /\ M[i].kind = L[i].kind /\ M[i].at = L[i].at
             /\ M[i].boot = L[i].boot /\ M[i].state = L[i].state
  BY <1>1, LineFacts, ZenonT(30) DEF Separated, Line
<1>3. AllEnded(M) /\ OneTail(M) /\ IsFile(M)
  BY <1>1, <1>2 DEF AllEnded, OneTail, IsFile
<1>4. Ordered(M) /\ BootsUpTo(M, n)
  BY <1>1, <1>2 DEF WellFormed, Ordered, BootsUpTo
<1>5. DOMAIN M # {} => \E f \in DOMAIN M : FirstBoot(M, f)
  BY <1>1, <1>2 DEF WellFormed, FirstBoot
<1>6. Last(M) = Last(L) /\ End(M) = End(L)
  <2>1. Last(M) = Last(L)
    BY <1>1 DEF Last
  <2>2. DOMAIN M = {} <=> DOMAIN L = {}
    BY <1>1
  <2> QED
    BY <2>1, <2>2 DEF End
<1> HIDE DEF M
<1>7. WellFormed(M, n)
  BY <1>3, <1>4, <1>5 DEF WellFormed
<1> QED
  BY <1>1, <1>2, <1>3, <1>6, <1>7 DEF M

\* What is left of a well-formed file below one of its lines is well formed, and
\* all its lines are ended.
LEMMA HeadFacts ==
  ASSUME NEW L, NEW m, WellFormed(L, m), NEW n \in DOMAIN L,
         \E f \in DOMAIN L : FirstBoot(L, f) /\ f < n
  PROVE  LET head == Restrict(L, {i \in DOMAIN L : i < n})
         IN  /\ WellFormed(head, m) /\ AllEnded(head) /\ DOMAIN head # {}
             /\ Same(L, head, n) /\ Fits(head, L[n], m)
             /\ End(head) \in Pos /\ End(head) <= n
             /\ \A i \in DOMAIN L : i < n => i \in DOMAIN head /\ head[i] = L[i]
<1> DEFINE H == Restrict(L, {i \in DOMAIN L : i < n})
<1>1. /\ DOMAIN H = {i \in DOMAIN L : i < n} /\ \A i \in DOMAIN H : H[i] = L[i]
  BY DEF Restrict
<1> HIDE DEF H
<1>2. IsFile(L) /\ Ordered(L) /\ OneTail(L) /\ BootsUpTo(L, m) /\ n \in Nat /\ n <= MaxLine /\ n \in Pos
  BY LineFacts, LogNumbers DEF WellFormed
<1>3. \A i \in DOMAIN L : i \in Nat
  BY <1>2, LineFacts
<1>4. AllEnded(H)
  <2> SUFFICES ASSUME NEW i \in DOMAIN H PROVE H[i].ended
    BY DEF AllEnded
  <2>1. i < n /\ i \in DOMAIN L /\ H[i] = L[i]
    BY <1>1
  <2>2. ~ (n <= i)
    BY <1>2, <1>3, <2>1
  <2> QED
    BY <1>2, <2>1, <2>2 DEF OneTail
<1>5. IsFile(H) /\ Ordered(H) /\ BootsUpTo(H, m)
  BY <1>1, <1>2 DEF IsFile, Ordered, BootsUpTo
<1>6. OneTail(H)
  BY <1>4 DEF OneTail, AllEnded
<1>7. \E f \in DOMAIN H : FirstBoot(H, f)
  BY <1>1 DEF FirstBoot
<1>8. WellFormed(H, m) /\ DOMAIN H # {}
  BY <1>5, <1>6, <1>7 DEF WellFormed
<1>9. Same(L, H, n)
  BY <1>1 DEF Same
<1>10. Fits(H, L[n], m)
  <2>1. L[n] \in Line /\ L[n].boot <= m
    BY <1>2, LineFacts DEF BootsUpTo
  <2>2. \A i \in DOMAIN H : H[i].boot <= L[n].boot
    BY <1>1, <1>2 DEF Ordered
  <2>3. L[n].kind = "torn" \/ NotBehind(H, L[n].at)
    BY <1>1, <1>2 DEF Ordered, NotBehind
  <2> QED
    BY <1>8, <2>1, <2>2, <2>3 DEF Fits, NotBehind
<1>11. End(H) \in Nat /\ End(H) <= n
  <2>1. Last(H) \in DOMAIN H /\ End(H) = Last(H) + 1 /\ End(H) \in Nat
    BY <1>5, <1>8, EndPast DEF IsFile
  <2>2. Last(H) < n /\ Last(H) \in Nat
    BY <1>1, <1>3, <2>1
  <2> QED
    BY <1>2, <2>1, <2>2
<1>12. End(H) \in Pos
  BY <1>2, <1>11, LogNumbers DEF Pos
<1>13. \A i \in DOMAIN L : i < n => i \in DOMAIN H /\ H[i] = L[i]
  BY <1>1
<1> QED
  BY <1>4, <1>8, <1>9, <1>10, <1>11, <1>12, <1>13 DEF H

-----------------------------------------------------------------------------
(* The log: what a witness line is worth to a start and to a compaction.   *)

\* A gap ends at a later boot record, or never.
LEMMA GapEndFacts ==
  ASSUME NEW L, IsFile(L), NEW b \in BootLines(L)
  PROVE  \/ GapEnds(L, b) = Forever
         \/ \E c \in BootLines(L) : b < c /\ GapEnds(L, b) = L[c].at
<1> DEFINE later == {L[c].at : c \in {d \in BootLines(L) : b < d}}
<1>1. CASE later = {}
  BY <1>1 DEF GapEnds
<1>2. CASE later # {}
  <2>1. \A t \in later : t \in Nat
    BY LineFacts DEF BootLines
  <2>2. \E t \in later : \A s \in later : t <= s
    BY <1>2, <2>1, LeastOf
  <2>3. (CHOOSE t \in later : \A s \in later : t <= s) \in later
    BY <2>2
  <2>4. GapEnds(L, b) \in later
    BY <1>2, <2>3 DEF GapEnds
  <2> QED
    BY <2>4
<1> QED
  BY <1>1, <1>2

\* Without a later boot record it never ends.
LEMMA GapStaysOpen ==
  ASSUME NEW L, NEW b, \A c \in BootLines(L) : ~ (b < c)
  PROVE  GapEnds(L, b) = Forever
<1>1. {L[c].at : c \in {d \in BootLines(L) : b < d}} = {}
  OBVIOUS
<1> QED
  BY <1>1 DEF GapEnds

\* Every line that parses is in the epoch of a boot record, which is read, or
\* leaves a gap around the time of that line.
LEMMA InEpochOrGap ==
  ASSUME NEW L, IsFile(L), Ordered(L), NEW f, FirstBoot(L, f),
         NEW i \in DOMAIN L, L[i].kind \notin {"torn", "boot"}
  PROVE  \E b \in BootLines(L) :
           /\ i \in Epoch(L, b)
           /\ b \in UsableBoots(L) \/ (L[b].at <= L[i].at /\ L[i].at <= GapEnds(L, b))
<1>0. \A j \in DOMAIN L : j \in Pos /\ j \in Nat
  BY LineFacts
<1> DEFINE S == {c \in BootLines(L) : c <= i}
<1>1. S \subseteq Pos /\ BootLines(L) \subseteq DOMAIN L
  BY <1>0 DEF BootLines
<1>2. f \in S
  <2>1. f \in DOMAIN L /\ L[f].kind = "boot" /\ L[f].ended /\ f <= i
    BY DEF FirstBoot
  <2>2. Good(L, f)
    BY <2>1, GoodLine
  <2> QED
    BY <2>1, <2>2 DEF BootLines
<1>3. PICK b \in S : \A c \in S : c <= b
  BY <1>1, <1>2, LatestOf
<1>4. b \in BootLines(L) /\ b \in Nat /\ i \in Nat /\ b <= i
  BY <1>0, <1>1, <1>3
<1>5. i \in Epoch(L, b)
  <2>1. ASSUME NEW c \in BootLines(L) PROVE c <= b \/ i < c
    <3>1. c \in Nat
      BY <1>0, <1>1
    <3> QED
      BY <1>3, <1>4, <3>1
  <2> QED
    BY <1>4, <2>1 DEF Epoch
<1>6. L[b].at <= L[i].at
  <2>1. b \in DOMAIN L /\ L[b].kind = "boot"
    BY <1>4 DEF BootLines
  <2>2. b < i
    BY <1>4, <2>1
  <2> QED
    BY <2>1, <2>2 DEF Ordered
<1>7. L[i].at <= GapEnds(L, b)
  <2>1. CASE GapEnds(L, b) = Forever
    <3>1. L[i].at \in Nat /\ L[i].at < Forever /\ Forever \in Nat
      BY LineFacts, LogNumbers DEF Forever
    <3> QED
      BY <2>1, <3>1
  <2>2. CASE \E c \in BootLines(L) : b < c /\ GapEnds(L, b) = L[c].at
    <3>1. PICK c \in BootLines(L) : b < c /\ GapEnds(L, b) = L[c].at
      BY <2>2
    <3>2. c \in DOMAIN L /\ L[c].kind = "boot" /\ c \in Nat
      BY <1>0 DEF BootLines
    <3>3. c <= b \/ i < c
      BY <1>5 DEF Epoch
    <3>4. i < c
      BY <1>4, <3>1, <3>2, <3>3
    <3> QED
      BY <3>1, <3>2, <3>4 DEF Ordered
  <2> QED
    BY <1>4, <2>1, <2>2, GapEndFacts
<1> QED
  BY <1>4, <1>5, <1>6, <1>7

\* So an observation with a witness line is read, or lies in a gap.
LEMMA WitnessAcknowledged ==
  ASSUME NEW L, IsFile(L), Ordered(L), NEW f, FirstBoot(L, f),
         NEW o \in Observation, NEW i, Witness(L, o, i)
  PROVE  \/ o \in Observations(L)
         \/ \E gap \in Gaps(L) : gap.from <= o.at /\ o.at <= gap.to
<1>1. i \in DOMAIN L /\ L[i].kind \notin {"torn", "boot"} /\ L[i].at = o.at /\ L[i].boot = o.boot
  BY DEF Witness
<1>2. PICK b \in BootLines(L) :
        /\ i \in Epoch(L, b)
        /\ b \in UsableBoots(L) \/ (L[b].at <= L[i].at /\ L[i].at <= GapEnds(L, b))
  BY <1>1, InEpochOrGap
<1>3. CASE b \in UsableBoots(L)
  <2>1. i \in {j \in Replay(L) : L[j].kind # "boot"}
    BY <1>1, <1>2, <1>3 DEF Replay
  <2>2. StateAt(L, i) = o.state
    BY <1>1, StateOf DEF Witness
  <2>3. o = [at |-> L[i].at, boot |-> L[i].boot, state |-> StateAt(L, i)]
    BY <1>1, <2>2 DEF Observation
  <2> QED
    BY <2>1, <2>3 DEF Observations
<1>4. CASE b \notin UsableBoots(L)
  <2> DEFINE gap == [from |-> L[b].at, to |-> GapEnds(L, b)]
  <2>1. gap \in Gaps(L)
    BY <1>4 DEF Gaps
  <2>2. gap.from <= o.at /\ o.at <= gap.to
    BY <1>1, <1>2, <1>4
  <2> QED
    BY <2>1, <2>2
<1> QED
  BY <1>3, <1>4

\* What is read of a file has a witness line in it.
LEMMA ObservedWitness ==
  ASSUME NEW L, IsFile(L), NEW o \in Observations(L)
  PROVE  \E i \in DOMAIN L : Witness(L, o, i)
<1>1. PICK i \in Replay(L) :
        L[i].kind # "boot" /\ o = [at |-> L[i].at, boot |-> L[i].boot, state |-> StateAt(L, i)]
  BY DEF Observations
<1>2. PICK b \in UsableBoots(L) : i \in Epoch(L, b)
  BY DEF Replay
<1>3. i \in DOMAIN L /\ Good(L, i)
  BY <1>2, RetainedFacts, EpochFacts
<1>4. PICK s \in Epoch(L, b) : SampleOf(L, i, s)
  BY <1>1, <1>2, ReplayedSample
<1>5. s \in DOMAIN L /\ L[s].state = o.state
  <2>1. s \in DOMAIN L
    BY <1>4 DEF SampleOf
  <2>2. StateAt(L, i) = L[s].state
    BY <1>3, <1>4, StateOf
  <2> QED
    BY <1>1, <2>1, <2>2
<1>6. L[i].kind \in {"sample", "checkpoint"} /\ L[i].ended
  BY <1>1, <1>3, LineFacts DEF Good, Kind
<1>7. Witness(L, o, i)
  BY <1>1, <1>3, <1>4, <1>5, <1>6 DEF Witness
<1> QED
  BY <1>3, <1>7

-----------------------------------------------------------------------------
(* The log: compaction.                                                    *)

\* Over no gap, compaction keeps the witness of every observation behind its
\* cutoff.
LEMMA KeptWitness ==
  ASSUME NEW L, NEW n, WellFormed(L, n), NEW limit \in Time, NEW live,
         \A gap \in Gaps(L) : gap.to <= limit,
         NEW o \in Observation, o.at > limit, NEW i, Witness(L, o, i)
  PROVE  i \in DOMAIN Kept(L, limit, live) /\ Witness(Kept(L, limit, live), o, i)
<1> DEFINE K == Kept(L, limit, live)
<1>1. IsFile(L) /\ Ordered(L) /\ IsFile(K)
  BY KeptEpochs DEF WellFormed
<1>2. /\ i \in DOMAIN L /\ L[i].kind \in {"sample", "checkpoint"} /\ L[i].ended
      /\ L[i].at = o.at /\ L[i].boot = o.boot
  BY DEF Witness
<1>3. PICK f \in DOMAIN L : FirstBoot(L, f)
  BY <1>2 DEF WellFormed
<1>4. PICK b \in BootLines(L) :
        /\ i \in Epoch(L, b)
        /\ b \in UsableBoots(L) \/ (L[b].at <= L[i].at /\ L[i].at <= GapEnds(L, b))
  BY <1>1, <1>2, <1>3, InEpochOrGap
<1>5. limit \in Nat /\ o.at \in Nat /\ Forever \in Nat /\ limit < Forever
  BY LogNumbers DEF Observation, Forever
<1>6. b \in UsableBoots(L)
  <2> SUFFICES ASSUME b \notin UsableBoots(L) PROVE FALSE
    OBVIOUS
  <2> DEFINE gap == [from |-> L[b].at, to |-> GapEnds(L, b)]
  <2>1. gap \in Gaps(L)
    BY DEF Gaps
  <2>2. GapEnds(L, b) <= limit
    BY <2>1
  <2>3. o.at <= GapEnds(L, b)
    BY <1>2, <1>4
  <2>4. GapEnds(L, b) \in Nat
    BY <1>1, <1>5, GapEndFacts, LineFacts DEF BootLines
  <2> QED
    BY <1>5, <2>2, <2>3, <2>4
<1>7. L[i].kind # "boot" /\ L[i].at >= limit
  BY <1>2, <1>5
<1>8. /\ i \in Retained(L, limit, live)
      /\ \E s \in Retained(L, limit, live) : SampleOf(L, i, s) /\ SampleOf(K, i, s)
  BY <1>1, <1>4, <1>6, <1>7, KeptSample
<1>9. PICK s \in Retained(L, limit, live) : SampleOf(L, i, s) /\ SampleOf(K, i, s)
  BY <1>8
<1>10. DOMAIN K = Retained(L, limit, live) /\ \A j \in DOMAIN K : K[j] = L[j]
  BY DEF Kept, Restrict
<1>11. StateAt(L, i) = o.state /\ StateAt(L, i) = L[s].state
  BY <1>1, <1>2, <1>9, StateOf DEF Witness
<1> HIDE DEF K
<1>12. Witness(K, o, i)
  BY <1>2, <1>8, <1>9, <1>10, <1>11 DEF Witness
<1> QED
  BY <1>8, <1>10, <1>12 DEF K

\* What is kept of a well-formed file is well formed, and every line of it is
\* good.
LEMMA KeptWellFormed ==
  ASSUME NEW L, NEW n, WellFormed(L, n), NEW limit \in Time, NEW live
  PROVE  /\ WellFormed(Kept(L, limit, live), n) /\ AllEnded(Kept(L, limit, live))
         /\ \A i \in DOMAIN Kept(L, limit, live) : Kept(L, limit, live)[i].kind # "torn"
<1> DEFINE K == Kept(L, limit, live)
           B == RetainedBoots(L, limit, live)
<1>1. IsFile(L) /\ Ordered(L) /\ BootsUpTo(L, n)
  BY DEF WellFormed
<1>2. /\ IsFile(K) /\ BootLines(K) = B /\ DOMAIN K = Retained(L, limit, live)
      /\ \A i \in DOMAIN K : i \in DOMAIN L /\ K[i] = L[i]
  BY <1>1, KeptEpochs, KeptLines DEF Kept, Restrict
<1>3. \A i \in DOMAIN K : K[i].kind # "torn" /\ K[i].ended
  <2> TAKE i \in DOMAIN K
  <2>1. Good(K, i)
    BY <1>1, <1>2, KeptLines
  <2> QED
    BY <2>1 DEF Good
<1>4. AllEnded(K) /\ OneTail(K)
  BY <1>3 DEF AllEnded, OneTail
<1>5. Ordered(K) /\ BootsUpTo(K, n)
  BY <1>1, <1>2 DEF Ordered, BootsUpTo
<1>6. ASSUME DOMAIN K # {}
      PROVE  \E f \in DOMAIN K : FirstBoot(K, f)
  <2>1. \A b \in B : b \in DOMAIN K /\ b \in Nat /\ K[b].kind = "boot"
    BY <1>2, LogNumbers DEF BootLines, IsFile
  <2>2. \A i \in DOMAIN K : \E b \in B : b <= i /\ i \in Nat
    <3> TAKE i \in DOMAIN K
    <3>1. PICK b \in B : i \in RetainedOf(L, b, limit)
      BY <1>1, <1>2, KeptLines
    <3>2. b \in UsableBoots(L)
      BY DEF RetainedBoots
    <3> QED
      BY <1>1, <3>1, <3>2, RetainedFacts, EpochFacts
  <2>3. B # {}
    BY <1>6, <2>2
  <2>4. PICK f \in B : \A b \in B : f <= b
    BY <2>1, <2>3, LeastOf
  <2>5. \A i \in DOMAIN K : f <= i
    <3> TAKE i \in DOMAIN K
    <3>1. PICK b \in B : b <= i /\ i \in Nat
      BY <2>2
    <3>2. f \in Nat /\ b \in Nat /\ f <= b
      BY <2>1, <2>4
    <3> QED
      BY <3>1, <3>2
  <2> QED
    BY <1>3, <2>1, <2>4, <2>5 DEF FirstBoot
<1> HIDE DEF K
<1>7. WellFormed(K, n)
  BY <1>2, <1>4, <1>5, <1>6 DEF WellFormed
<1> QED
  BY <1>3, <1>4, <1>7 DEF K

\* The boot that runs has the last boot record.
Current(L, n) == \E c \in BootLines(L) : L[c].boot = n /\ \A d \in BootLines(L) : d <= c

\* Over no gap its epoch is read, and kept.
LEMMA KeptCurrent ==
  ASSUME NEW L, IsFile(L), NEW limit \in Time, NEW live, Current(L, live),
         \A gap \in Gaps(L) : gap.to <= limit
  PROVE  Current(Kept(L, limit, live), live) /\ DOMAIN Kept(L, limit, live) # {}
<1> DEFINE K == Kept(L, limit, live)
<1>1. PICK c \in BootLines(L) : L[c].boot = live /\ \A d \in BootLines(L) : d <= c
  BY DEF Current
<1>2. \A d \in BootLines(L) : d \in Nat
  BY LineFacts DEF BootLines
<1>3. c \in UsableBoots(L)
  <2> SUFFICES ASSUME c \notin UsableBoots(L) PROVE FALSE
    OBVIOUS
  <2> DEFINE gap == [from |-> L[c].at, to |-> GapEnds(L, c)]
  <2>1. gap \in Gaps(L)
    BY DEF Gaps
  <2>2. GapEnds(L, c) <= limit
    BY <2>1
  <2>3. \A d \in BootLines(L) : ~ (c < d)
    BY <1>1, <1>2
  <2>4. GapEnds(L, c) = Forever
    BY <2>3, GapStaysOpen
  <2>5. limit < Forever /\ limit \in Nat /\ Forever \in Nat
    BY LogNumbers DEF Forever
  <2> QED
    BY <2>2, <2>4, <2>5
<1>4. BootLines(K) = RetainedBoots(L, limit, live) /\ \A i \in DOMAIN K : K[i] = L[i]
  BY KeptEpochs DEF Kept, Restrict
<1>5. c \in BootLines(K) /\ c \in DOMAIN K
  <2>1. c \in RetainedBoots(L, limit, live)
    BY <1>1, <1>3 DEF RetainedBoots
  <2> QED
    BY <1>4, <2>1 DEF BootLines
<1>6. BootLines(K) \subseteq BootLines(L)
  BY <1>4 DEF RetainedBoots, UsableBoots
<1> HIDE DEF K
<1>7. Current(K, live)
  BY <1>1, <1>4, <1>5, <1>6 DEF Current
<1> QED
  BY <1>5, <1>7 DEF K

\* The writer remembers the state of the last full sample.
Remembered(L, state) ==
  state # Unknown => \E s \in DOMAIN L :
    /\ L[s].kind = "sample" /\ L[s].state = state
    /\ \A j \in DOMAIN L : L[j].kind = "sample" => j <= s

\* What the writer's memory is set to after a compaction.
LEMMA MemoryFollows ==
  ASSUME NEW K, NEW n \in Nat, WellFormed(K, n),
         \A i \in DOMAIN K : K[i].kind # "torn"
  PROVE  /\ LastState(K, n) \in State \cup {Unknown} /\ LastAt(K) \in Time
         /\ NotBehind(K, LastAt(K)) /\ Remembered(K, LastState(K, n))
<1> DEFINE S == {i \in DOMAIN K : K[i].kind = "sample" /\ K[i].boot = n}
<1>1. IsFile(K) /\ Ordered(K) /\ BootsUpTo(K, n)
  BY DEF WellFormed
<1>2. \A i \in DOMAIN K : i \in Pos /\ i \in Nat
  BY <1>1, LineFacts
<1>3. LastState(K, n) \in State \cup {Unknown} /\ Remembered(K, LastState(K, n))
  <2>1. CASE S = {}
    <3>1. LastState(K, n) = Unknown
      BY <2>1 DEF LastState
    <3> QED
      BY <3>1 DEF Remembered
  <2>2. CASE S # {}
    <3>1. Latest(S) \in S /\ \A j \in S : j <= Latest(S)
      BY <1>2, <2>2, LatestOf
    <3>2. LastState(K, n) = K[Latest(S)].state
      BY <2>2 DEF LastState
    <3>3. PICK s \in S : s = Latest(S)
      BY <3>1
    <3>4. \A j \in S : j <= s
      BY <3>1, <3>3
    <3> HIDE DEF S
    <3>5. s \in DOMAIN K /\ K[s].kind = "sample" /\ K[s].boot = n
      BY DEF S
    <3>6. ASSUME NEW j \in DOMAIN K, K[j].kind = "sample"
          PROVE  j <= s
      <4> SUFFICES ASSUME s < j PROVE FALSE
        BY <1>2, <3>5
      <4>1. n <= K[j].boot /\ K[j].boot <= n /\ K[j].boot \in Nat
        BY <1>1, <3>5, LineFacts DEF Ordered, BootsUpTo
      <4>2. j \in S
        BY <3>6, <4>1 DEF S
      <4> QED
        BY <1>2, <3>4, <3>5, <4>2
    <3>7. LastState(K, n) = K[s].state
      BY <3>2, <3>3
    <3> QED
      BY <1>1, <3>5, <3>6, <3>7, LineFacts DEF Remembered
  <2> QED
    BY <2>1, <2>2
<1>4. LastAt(K) \in Time /\ NotBehind(K, LastAt(K))
  <2>1. CASE DOMAIN K = {}
    BY <2>1, HistoryLogAssumption DEF LastAt, NotBehind, Time, HistoryLogAssumption
  <2>2. CASE DOMAIN K # {}
    <3>1. Last(K) \in DOMAIN K /\ \A i \in DOMAIN K : i <= Last(K)
      BY <1>1, <2>2, EndPast DEF IsFile
    <3>2. LastAt(K) = K[Last(K)].at
      BY <2>2 DEF LastAt
    <3>3. K[Last(K)].at \in Time
      BY <1>1, <3>1, LineFacts
    <3>4. ASSUME NEW i \in DOMAIN K PROVE K[i].at <= K[Last(K)].at
      <4>1. CASE i = Last(K)
        BY <3>3, <4>1, LogNumbers
      <4>2. CASE i < Last(K)
        BY <1>1, <3>1, <4>2 DEF Ordered
      <4> QED
        BY <1>2, <3>1, <4>1, <4>2
    <3> QED
      BY <3>2, <3>3, <3>4 DEF NotBehind
  <2> QED
    BY <2>1, <2>2
<1> QED
  BY <1>3, <1>4

-----------------------------------------------------------------------------
(* The log: the inductive invariant.                                       *)

\* The first boot record, and a witness of every observation owed, are on the
\* disk below a position.
Secured(L, os, n) ==
  /\ DOMAIN L # {} => \E f \in DOMAIN L : FirstBoot(L, f) /\ f < n
  /\ \A o \in os : \E i \in DOMAIN L : i < n /\ Witness(L, o, i)

\* While it may append, the writer stands behind a whole file and knows its last
\* state.
Ready ==
  /\ AllEnded(lines) /\ NotBehind(lines, lastAt) /\ Remembered(lines, lastState)

LogInv ==
  /\ LogTypeOK
  /\ WellFormed(lines, boots) /\ \A L \in stale : WellFormed(L, boots)
  /\ Secured(lines, owed, loose)
  /\ up => Current(lines, boots)
  /\ up /\ ~poisoned => Ready

\* There is nothing to begin with.
LEMMA LogInvInit == LogInit => LogInv
<1> SUFFICES ASSUME LogInit PROVE LogInv
  OBVIOUS
<1>1. DOMAIN lines = {} /\ owed = {} /\ stale = {} /\ up = FALSE
  BY DEF LogInit
<1>2. LogTypeOK
  <2>1. IsFile(lines)
    BY <1>1 DEF IsFile
  <2>2. loose \in 0 .. MaxLine + 1 /\ boots \in 0 .. Boots /\ lastAt \in Time
    BY LogNumbers DEF LogInit, Time
  <2> QED
    BY <1>1, <2>1, <2>2 DEF LogInit, LogTypeOK
<1>3. WellFormed(lines, boots)
  BY <1>1 DEF WellFormed, IsFile, Ordered, OneTail, BootsUpTo
<1>4. Secured(lines, owed, loose)
  BY <1>1 DEF Secured
<1> QED
  BY <1>1, <1>2, <1>3, <1>4 DEF LogInv

\* A file that says the same as far as the secured lines go is as secure.
LEMMA SecuredSame ==
  ASSUME NEW L, NEW M, NEW os, NEW n, NEW k \in Nat, NEW m,
         \A i \in DOMAIN L : i < n => i < k /\ i < m,
         IsFile(L), IsFile(M), DOMAIN L # {}, Same(L, M, k), Secured(L, os, n)
  PROVE  Secured(M, os, m)
<1>1. PICK f \in DOMAIN L : FirstBoot(L, f) /\ f < n
  BY DEF Secured
<1>2. FirstBoot(M, f) /\ f \in DOMAIN M /\ f < m
  <2>1. FirstBoot(M, f)
    BY <1>1, SameWitness
  <2> QED
    BY <1>1, <2>1 DEF FirstBoot
<1>3. ASSUME NEW o \in os PROVE \E i \in DOMAIN M : i < m /\ Witness(M, o, i)
  <2>1. PICK i \in DOMAIN L : i < n /\ Witness(L, o, i)
    BY DEF Secured
  <2>2. Witness(M, o, i)
    BY <2>1, SameWitness
  <2> QED
    BY <2>1, <2>2 DEF Witness
<1> QED
  BY <1>2, <1>3 DEF Secured

\* A file is as secure at its end as anywhere, and its last line may be left out
\* when that is not ended.
LEMMA SecuredFurther ==
  ASSUME NEW L, NEW os, NEW n \in Nat, IsFile(L), Secured(L, os, n)
  PROVE  /\ Secured(L, os, End(L))
         /\ OneTail(L) /\ ~ AllEnded(L) => Secured(L, os, Last(L))
<1>0. /\ \A i \in DOMAIN L : i \in Nat /\ i < End(L) /\ i <= Last(L)
      /\ DOMAIN L # {} => Last(L) \in DOMAIN L
  BY EndPast DEF IsFile
<1>1. Secured(L, os, End(L))
  BY <1>0 DEF Secured
<1>2. ASSUME OneTail(L), ~ AllEnded(L)
      PROVE  Secured(L, os, Last(L))
  <2>1. PICK u \in DOMAIN L : ~ L[u].ended
    BY <1>2 DEF AllEnded
  <2>2. u = Last(L)
    <3>1. Last(L) \in DOMAIN L /\ u <= Last(L) /\ Last(L) <= u
      BY <1>0, <1>2, <2>1 DEF OneTail
    <3> QED
      BY <1>0, <3>1
  <2>3. \A i \in DOMAIN L : L[i].ended => i < Last(L)
    <3> SUFFICES ASSUME NEW i \in DOMAIN L, L[i].ended PROVE i < Last(L)
      OBVIOUS
    <3>1. i # Last(L)
      BY <2>1, <2>2
    <3> QED
      BY <1>0, <2>2, <3>1
  <2> QED
    BY <2>3 DEF Secured, FirstBoot, Witness
<1> QED
  BY <1>1, <1>2

\* Boot ids only grow.
LEMMA BootsGrow ==
  ASSUME NEW L, NEW n \in Nat, NEW m \in Nat, n <= m, WellFormed(L, n)
  PROVE  WellFormed(L, m)
<1>1. IsFile(L) /\ BootsUpTo(L, n)
  BY DEF WellFormed
<1>2. BootsUpTo(L, m)
  <2> SUFFICES ASSUME NEW i \in DOMAIN L PROVE L[i].boot <= m
    BY DEF BootsUpTo
  <2>1. L[i].boot <= n /\ L[i].boot \in Nat
    BY <1>1, LineFacts DEF BootsUpTo
  <2> QED
    BY <2>1
<1> QED
  BY <1>2 DEF WellFormed

\* A start counts one more boot.
LEMMA BootFacts ==
  ASSUME LogInv, Boot
  PROVE  /\ boots \in Nat /\ boots' \in Nat /\ boots <= boots' /\ boots' = boots + 1
         /\ boots' \in 1 .. Boots /\ boots' \in 0 .. Boots
         /\ WellFormed(lines, boots') /\ \A L \in stale : WellFormed(L, boots')
<1>1. /\ boots \in Nat /\ boots' = boots + 1 /\ boots' \in 1 .. Boots /\ boots' \in 0 .. Boots
  BY LogNumbers DEF LogInv, LogTypeOK, Boot
<1>2. boots' \in Nat /\ boots <= boots'
  BY <1>1
<1>3. \A L : WellFormed(L, boots) => WellFormed(L, boots')
  BY <1>1, <1>2, BootsGrow
<1> QED
  BY <1>1, <1>2, <1>3 DEF LogInv

\* Behind a whole file that is in order, a boot record is the last of its kind.
LEMMA BootCurrent ==
  ASSUME NEW L, NEW line, NEW n, WellFormed(With(L, line), n), IsFile(L),
         line.kind = "boot", line.ended
  PROVE  Current(With(L, line), line.boot)
<1> DEFINE M == With(L, line)
<1>0. /\ DOMAIN M = DOMAIN L \cup {End(L)} /\ M[End(L)] = line /\ End(L) \in Nat
      /\ \A i \in DOMAIN L : i \in Nat /\ i < End(L)
  BY WithFacts
<1>1. /\ End(L) \in DOMAIN M /\ M[End(L)] = line
      /\ \A i \in DOMAIN M : i \in Nat /\ i <= End(L)
  BY <1>0
<1>2. IsFile(M) /\ Ordered(M)
  BY DEF WellFormed
<1> HIDE DEF M
<1>3. End(L) \in BootLines(M)
  BY <1>1, <1>2, GoodLine DEF BootLines
<1>4. Current(M, line.boot)
  BY <1>1, <1>3 DEF Current, BootLines
<1> QED
  BY <1>4 DEF M

\* A line of another kind leaves the last boot record the last.
LEMMA StillCurrent ==
  ASSUME NEW L, NEW line, NEW n, NEW m, WellFormed(L, n), WellFormed(With(L, line), m),
         line.kind # "boot", NEW k, Current(L, k)
  PROVE  Current(With(L, line), k)
<1> DEFINE M == With(L, line)
<1>1. IsFile(L) /\ Ordered(L) /\ IsFile(M) /\ Ordered(M)
  BY DEF WellFormed
<1>2. /\ DOMAIN M = DOMAIN L \cup {End(L)} /\ M[End(L)] = line
      /\ \A i \in DOMAIN L : M[i] = L[i]
  BY <1>1, WithFacts
<1> HIDE DEF M
<1>3. BootLines(M) = BootLines(L)
  <2>1. ASSUME NEW i \in DOMAIN L PROVE i \in BootLines(M) <=> i \in BootLines(L)
    BY <1>1, <1>2, GoodLine DEF BootLines
  <2>2. End(L) \notin BootLines(M)
    BY <1>2 DEF BootLines
  <2>3. BootLines(L) \subseteq DOMAIN L /\ BootLines(M) \subseteq DOMAIN M
    BY DEF BootLines
  <2> QED
    BY <1>2, <2>1, <2>2, <2>3
<1>4. \A c \in BootLines(L) : M[c] = L[c]
  BY <1>2 DEF BootLines
<1>5. Current(M, k)
  BY <1>3, <1>4 DEF Current
<1> QED
  BY <1>5 DEF M

-----------------------------------------------------------------------------
(* The log: every step keeps the invariant.                                *)

\* What the invariant says of the file.
LEMMA InvFacts ==
  ASSUME LogInv
  PROVE  /\ IsFile(lines) /\ WellFormed(lines, boots) /\ boots \in Nat
         /\ End(lines) \in Nat /\ \A i \in DOMAIN lines : i \in Nat /\ i < End(lines)
         /\ up => DOMAIN lines # {} /\ boots \in 1 .. Boots
         /\ lastAt \in Nat
<1>1. IsFile(lines) /\ WellFormed(lines, boots) /\ boots \in Nat /\ lastAt \in Nat
  BY LogNumbers DEF LogInv, LogTypeOK
<1>2. End(lines) \in Nat /\ \A i \in DOMAIN lines : i \in Nat /\ i < End(lines)
  BY <1>1, EndPast DEF IsFile
<1>3. ASSUME up PROVE DOMAIN lines # {} /\ boots \in 1 .. Boots
  <2>1. PICK c \in BootLines(lines) : lines[c].boot = boots
    BY <1>3 DEF LogInv, Current
  <2> QED
    BY <1>1, <2>1, LineFacts DEF BootLines
<1> QED
  BY <1>1, <1>2, <1>3

\* A whole line at a time that is not behind leaves the writer at that time.
LEMMA WithWhole ==
  ASSUME NEW L, IsFile(L), AllEnded(L), NEW at \in Nat, NotBehind(L, at),
         NEW line, line.ended = TRUE, line.at = at
  PROVE  AllEnded(With(L, line)) /\ NotBehind(With(L, line), at)
<1> DEFINE M == With(L, line)
<1>1. /\ DOMAIN M = DOMAIN L \cup {End(L)} /\ M[End(L)] = line
      /\ \A i \in DOMAIN L : M[i] = L[i]
  BY WithFacts, SMTT(25)
<1> HIDE DEF M
<1>2. AllEnded(M) /\ NotBehind(M, at)
  BY <1>1 DEF AllEnded, NotBehind
<1> QED
  BY <1>2 DEF M

\* A file that is not there is as good as any.
LEMMA NothingFits ==
  ASSUME NEW L, DOMAIN L = {}, IsFile(L), NEW n, NEW line \in Line,
         line.boot <= n, line.kind = "boot", line.ended
  PROVE  AllEnded(L) /\ End(L) \in Pos /\ Fits(L, line, n)
<1>1. End(L) = 0 /\ 0 \in Pos
  BY LogNumbers DEF End, Pos
<1>2. AllEnded(L) /\ NotBehind(L, line.at)
  BY DEF AllEnded, NotBehind
<1> QED
  BY <1>1, <1>2 DEF Fits

\* The boot record of a start.
LEMMA BootRecordFacts ==
  ASSUME boots' \in 1 .. Boots, NEW at \in Time
  PROVE  /\ Record("boot", at, Unknown) \in Line
         /\ Record("boot", at, Unknown).kind = "boot"
         /\ Record("boot", at, Unknown).at = at
         /\ Record("boot", at, Unknown).boot = boots'
         /\ Record("boot", at, Unknown).ended = TRUE
BY DEF Record, Line, Kind

\* The first start makes a file of one boot record.
LEMMA OpenFirstStep ==
  ASSUME LogInv, NEW at \in Time, OpenFirst(at)
  PROVE  LogInv'
<1> DEFINE line == Record("boot", at, Unknown)
<1>1. /\ Boot /\ DOMAIN lines = {} /\ owed' = owed
      /\ lines' = With(lines, line) /\ loose' = End(lines')
      /\ stale' \subseteq {lines}
  BY DEF OpenFirst, Publish
<1>2. /\ boots' \in Nat /\ boots' \in 1 .. Boots /\ boots' \in 0 .. Boots
      /\ WellFormed(lines, boots')
  BY <1>1, BootFacts
<1>3. IsFile(lines)
  BY InvFacts
<1>4. /\ line \in Line /\ line.kind = "boot" /\ line.at = at /\ line.boot = boots'
      /\ line.ended = TRUE
  BY <1>2, BootRecordFacts
<1> HIDE DEF line
<1>5. AllEnded(lines) /\ End(lines) \in Pos /\ Fits(lines, line, boots')
  BY <1>1, <1>2, <1>3, <1>4, NothingFits
<1>6. WellFormed(lines', boots')
  BY <1>1, <1>2, <1>5, WithWellFormed
<1>7. IsFile(lines') /\ \A L \in stale' : WellFormed(L, boots') /\ IsFile(L)
  BY <1>1, <1>2, <1>3, <1>6 DEF WellFormed
<1>8. loose' \in 0 .. MaxLine + 1 /\ \A i \in DOMAIN lines' : i < loose'
  BY <1>1, <1>7, EndPast, LogNumbers DEF IsFile
<1>9. owed = {}
  BY <1>1 DEF LogInv, Secured
<1>10. Secured(lines', owed', loose')
  BY <1>1, <1>6, <1>8, <1>9 DEF Secured, WellFormed
<1>11. CASE Opened(at)
  <2>1. up' = TRUE /\ lastState' = Unknown /\ lastAt' = at /\ poisoned' = FALSE
    BY <1>11 DEF Opened
  <2>2. Current(lines', boots')
    BY <1>1, <1>3, <1>4, <1>6, BootCurrent
  <2>3. NotBehind(lines, at)
    BY <1>1 DEF NotBehind
  <2>4. Ready'
    BY <1>1, <1>3, <1>4, <1>5, <2>1, <2>3, WithWhole, LogNumbers DEF Ready, Remembered
  <2>5. LogTypeOK'
    BY <1>1, <1>2, <1>7, <1>8, <1>9, <2>1 DEF LogTypeOK
  <2> QED
    BY <1>6, <1>7, <1>10, <2>1, <2>2, <2>4, <2>5 DEF LogInv
<1>12. CASE UNCHANGED Memory
  <2>1. up' = FALSE /\ lastState' = lastState /\ lastAt' = lastAt /\ poisoned' = poisoned
    BY <1>1, <1>12 DEF Memory, Boot, LogInv, LogTypeOK
  <2>2. LogTypeOK'
    BY <1>1, <1>2, <1>7, <1>8, <1>9, <2>1 DEF LogTypeOK, LogInv
  <2> QED
    BY <1>6, <1>7, <1>10, <2>1, <2>2 DEF LogInv
<1> QED
  BY <1>11, <1>12 DEF OpenFirst

\* A later one ends the file with the delimiter and writes its boot record.
LEMMA BootFits ==
  ASSUME LogInv, NEW at \in Time, Boot, DOMAIN lines # {}, NotBehind(lines, at),
         End(lines) <= MaxLine
  PROVE  LET line == Record("boot", at, Unknown)
             L == Separated(lines)
         IN  /\ WellFormed(L, boots') /\ AllEnded(L) /\ End(L) = End(lines)
             /\ DOMAIN L = DOMAIN lines /\ End(L) \in Pos /\ IsFile(L)
             /\ Fits(L, line, boots') /\ NotBehind(L, at) /\ Same(lines, L, End(lines))
             /\ line.kind = "boot" /\ line.at = at /\ line.boot = boots' /\ line.ended = TRUE
<1> DEFINE line == Record("boot", at, Unknown)
           L == Separated(lines)
<1>1. /\ boots \in Nat /\ boots' \in Nat /\ boots <= boots' /\ boots' \in 1 .. Boots
      /\ WellFormed(lines, boots')
  BY BootFacts
<1>2. IsFile(lines) /\ WellFormed(lines, boots) /\ End(lines) \in Nat
  BY InvFacts
<1>3. /\ WellFormed(L, boots') /\ AllEnded(L) /\ End(L) = End(lines)
      /\ DOMAIN L = DOMAIN lines
      /\ \A i \in DOMAIN lines :
           /\ L[i].kind = lines[i].kind /\ L[i].at = lines[i].at
           /\ L[i].boot = lines[i].boot /\ L[i].state = lines[i].state
  BY <1>1, SeparatedFacts
<1>4. /\ line \in Line /\ line.kind = "boot" /\ line.at = at /\ line.boot = boots'
      /\ line.ended = TRUE
  BY <1>1, BootRecordFacts
<1> HIDE DEF line, L
<1>5. End(L) \in Pos /\ IsFile(L)
  BY <1>2, <1>3, LogNumbers DEF Pos, WellFormed
<1>6. NotBehind(L, at)
  BY <1>3 DEF NotBehind
<1>7. \A i \in DOMAIN L : L[i].boot <= line.boot
  BY <1>3, <1>4 DEF WellFormed, BootsUpTo
<1>8. Fits(L, line, boots')
  BY <1>1, <1>4, <1>6, <1>7 DEF Fits
<1>9. Same(lines, L, End(lines))
  BY <1>3 DEF Same, AllEnded
<1> QED
  BY <1>3, <1>4, <1>5, <1>6, <1>8, <1>9 DEF L, line

\* What a write that fails may leave is well formed and says what the file said.
LEMMA PiecesFacts ==
  ASSUME NEW L, NEW n \in Nat, WellFormed(L, n), AllEnded(L), End(L) \in Pos,
         DOMAIN L # {}, NEW line, Fits(L, line, n), NEW M \in Pieces(L, line)
  PROVE  /\ WellFormed(M, n) /\ Same(L, M, End(L))
         /\ line.kind # "boot" => \A k : Current(L, k) => Current(M, k)
<1>1. IsFile(L) /\ End(L) \in Nat
  BY LogNumbers DEF WellFormed
<1>2. CASE M = L
  BY <1>2 DEF Same
<1>3. ASSUME NEW piece \in {line, Torn(line), Unended(line)}, M = With(L, piece)
      PROVE  /\ WellFormed(M, n) /\ Same(L, M, End(L))
             /\ line.kind # "boot" => \A k : Current(L, k) => Current(M, k)
  <2>1. Fits(L, piece, n)
    BY PieceFits
  <2>2. WellFormed(M, n) /\ Same(L, M, End(L))
    BY <1>1, <1>3, <2>1, WithWellFormed, WithFacts
  <2>3. line.kind # "boot" => piece.kind # "boot"
    <3>1. line \in Line
      BY DEF Fits
    <3> QED
      BY <3>1 DEF Torn, Unended, Line
  <2> QED
    BY <1>3, <2>2, <2>3, StillCurrent
<1> QED
  BY <1>2, <1>3 DEF Pieces

\* The boot record is there, whole.
LEMMA OpenStep ==
  ASSUME LogInv, NEW at \in Time, Open(at)
  PROVE  LogInv'
<1> DEFINE line == Record("boot", at, Unknown)
           L == Separated(lines)
<1>1. /\ Boot /\ DOMAIN lines # {} /\ NotBehind(lines, at) /\ End(lines) <= MaxLine
      /\ lines' = With(L, line) /\ loose' = End(lines')
      /\ stale' = stale /\ owed' = owed
      /\ up' = TRUE /\ lastState' = Unknown /\ lastAt' = at /\ poisoned' = FALSE
  BY DEF Open, Opened
<1>2. /\ WellFormed(L, boots') /\ AllEnded(L) /\ End(L) = End(lines)
      /\ DOMAIN L = DOMAIN lines /\ End(L) \in Pos /\ IsFile(L)
      /\ Fits(L, line, boots') /\ NotBehind(L, at) /\ Same(lines, L, End(lines))
      /\ line.kind = "boot" /\ line.at = at /\ line.boot = boots' /\ line.ended = TRUE
  BY <1>1, BootFits
<1> HIDE DEF line, L
<1>3. boots' \in Nat /\ boots' \in 0 .. Boots /\ \A F \in stale : WellFormed(F, boots')
  BY <1>1, BootFacts
<1>4. WellFormed(lines', boots') /\ IsFile(lines')
  BY <1>1, <1>2, <1>3, WithWellFormed DEF WellFormed
<1>5. /\ End(lines') \in Nat /\ End(lines') <= MaxLine + 1 /\ End(lines) < End(lines')
      /\ Same(L, lines', End(lines))
  <2>1. Same(L, lines', End(lines)) /\ End(lines) \in DOMAIN lines'
    BY <1>1, <1>2, WithFacts, ZenonT(30)
  <2>2. /\ End(lines') \in Nat /\ End(lines') <= MaxLine + 1
        /\ \A i \in DOMAIN lines' : i < End(lines')
    BY <1>4, EndPast DEF IsFile
  <2> QED
    BY <2>1, <2>2
<1>6. Same(lines, lines', End(lines))
  BY <1>2, <1>5 DEF Same
<1>7. Secured(lines, owed, loose) /\ loose \in Nat /\ IsFile(lines) /\ End(lines) \in Nat
  BY InvFacts, LogNumbers DEF LogInv, LogTypeOK
<1>8. \A i \in DOMAIN lines : i < loose => i < End(lines) /\ i < loose'
  BY <1>1, <1>5, InvFacts
<1>9. Secured(lines', owed', loose')
  BY <1>1, <1>4, <1>6, <1>7, <1>8, SecuredSame
<1>10. Current(lines', boots')
  BY <1>1, <1>2, <1>4, BootCurrent
<1>11. Ready'
  BY <1>1, <1>2, WithWhole, LogNumbers DEF Ready, Remembered
<1>12. LogTypeOK'
  <2>1. loose' \in 0 .. MaxLine + 1
    BY <1>1, <1>5, LogNumbers
  <2> QED
    BY <1>1, <1>3, <1>4, <2>1 DEF LogTypeOK, LogInv
<1> QED
  BY <1>1, <1>3, <1>4, <1>9, <1>10, <1>11, <1>12 DEF LogInv

\* A start that fails may leave any of it.
LEMMA OpenFailsStep ==
  ASSUME LogInv, NEW at \in Time, OpenFails(at)
  PROVE  LogInv'
<1> DEFINE line == Record("boot", at, Unknown)
           L == Separated(lines)
<1>1. /\ Boot /\ DOMAIN lines # {} /\ NotBehind(lines, at) /\ End(lines) <= MaxLine
      /\ lines' \in Pieces(L, line)
      /\ loose' = IF AllEnded(lines) THEN loose ELSE Last(lines)
      /\ stale' = stale /\ owed' = owed
      /\ up' = up /\ lastState' = lastState /\ lastAt' = lastAt /\ poisoned' = poisoned
      /\ ~ up
  BY DEF OpenFails, Memory, Boot
<1>2. /\ WellFormed(L, boots') /\ AllEnded(L) /\ End(L) = End(lines)
      /\ DOMAIN L = DOMAIN lines /\ End(L) \in Pos /\ IsFile(L)
      /\ Fits(L, line, boots') /\ Same(lines, L, End(lines))
  BY <1>1, BootFits
<1> HIDE DEF line, L
<1>3. boots' \in Nat /\ boots' \in 0 .. Boots /\ \A F \in stale : WellFormed(F, boots')
  BY <1>1, BootFacts
<1>4. WellFormed(lines', boots') /\ IsFile(lines') /\ Same(L, lines', End(lines))
  BY <1>1, <1>2, <1>3, PiecesFacts DEF WellFormed
<1>5. Same(lines, lines', End(lines))
  BY <1>2, <1>4 DEF Same
<1>6. Secured(lines, owed, loose) /\ loose \in Nat /\ IsFile(lines) /\ OneTail(lines)
  BY InvFacts, LogNumbers DEF LogInv, LogTypeOK, WellFormed
<1>7. Secured(lines, owed, loose') /\ loose' \in 0 .. MaxLine + 1
  <2>1. CASE AllEnded(lines)
    BY <1>1, <1>6, <2>1 DEF LogInv, LogTypeOK
  <2>2. CASE ~ AllEnded(lines)
    <3>1. Last(lines) \in DOMAIN lines
      BY <1>1, <1>6, EndPast DEF IsFile
    <3>2. Last(lines) \in 0 .. MaxLine + 1
      BY <1>6, <3>1, LineFacts, LogNumbers DEF Pos
    <3> QED
      BY <1>1, <1>6, <2>2, <3>2, SecuredFurther
  <2> QED
    BY <2>1, <2>2
<1>8. \A i \in DOMAIN lines : i < loose' => i < End(lines) /\ i < loose'
  BY InvFacts
<1>9. Secured(lines', owed', loose')
  BY <1>1, <1>4, <1>5, <1>6, <1>7, <1>8, InvFacts, SecuredSame
<1>10. LogTypeOK'
  BY <1>1, <1>3, <1>4, <1>7 DEF LogTypeOK, LogInv
<1> QED
  BY <1>1, <1>3, <1>4, <1>9, <1>10 DEF LogInv

\* The record of a sample.
LEMMA SampledFacts ==
  ASSUME boots' \in 1 .. Boots, NEW at \in Time, NEW state \in State
  PROVE  /\ Sampled(at, state) \in Line
         /\ Sampled(at, state).kind = IF state = lastState THEN "checkpoint" ELSE "sample"
         /\ Sampled(at, state).at = at
         /\ Sampled(at, state).boot = boots'
         /\ state # lastState => Sampled(at, state).state = state
         /\ Sampled(at, state).ended = TRUE
BY DEF Sampled, Record, Line, Kind

\* It fits behind the file while the writer is ready.
LEMMA SampledFits ==
  ASSUME LogInv, up, ~ poisoned, NEW at \in Time, NEW state \in State, lastAt <= at,
         End(lines) <= MaxLine, boots' = boots
  PROVE  /\ Fits(lines, Sampled(at, state), boots) /\ NotBehind(lines, at)
         /\ AllEnded(lines) /\ End(lines) \in Pos /\ DOMAIN lines # {}
<1> DEFINE line == Sampled(at, state)
<1>1. /\ IsFile(lines) /\ WellFormed(lines, boots) /\ boots \in 1 .. Boots /\ boots \in Nat
      /\ DOMAIN lines # {} /\ End(lines) \in Nat /\ lastAt \in Nat /\ at \in Nat
  BY InvFacts, LogNumbers
<1>2. line \in Line /\ line.at = at /\ line.boot = boots
  BY <1>1, SampledFacts
<1> HIDE DEF line
<1>3. Ready
  BY DEF LogInv
<1>4. NotBehind(lines, at)
  <2> SUFFICES ASSUME NEW i \in DOMAIN lines, lines[i].kind # "torn" PROVE lines[i].at <= at
    BY DEF NotBehind
  <2>1. lines[i].at <= lastAt /\ lines[i].at \in Nat
    BY <1>1, <1>3, LineFacts DEF Ready, NotBehind
  <2> QED
    BY <1>1, <2>1
<1>5. Fits(lines, line, boots)
  BY <1>1, <1>2, <1>4 DEF Fits, WellFormed, BootsUpTo
<1>6. End(lines) \in Pos
  BY <1>1, LogNumbers DEF Pos
<1> QED
  BY <1>1, <1>3, <1>4, <1>5, <1>6 DEF Ready, line

\* An acknowledged append is its own witness.
LEMMA AppendStep ==
  ASSUME LogInv, NEW at \in Time, NEW state \in State, Append(at, state)
  PROVE  LogInv'
<1> DEFINE line == Sampled(at, state)
           new == [at |-> at, boot |-> boots, state |-> state]
<1>1. /\ up /\ ~ poisoned /\ lastAt <= at /\ End(lines) <= MaxLine /\ boots' = boots
      /\ lines' = With(lines, line) /\ loose' = End(lines')
      /\ lastAt' = at /\ lastState' = state /\ owed' = owed \cup {new}
      /\ stale' = stale /\ up' = up /\ poisoned' = poisoned
  BY DEF Append
<1>2. /\ Fits(lines, line, boots) /\ NotBehind(lines, at)
      /\ AllEnded(lines) /\ End(lines) \in Pos /\ DOMAIN lines # {}
  BY <1>1, SampledFits
<1>3. /\ IsFile(lines) /\ WellFormed(lines, boots) /\ boots \in 1 .. Boots /\ boots \in Nat
      /\ End(lines) \in Nat /\ \A i \in DOMAIN lines : i \in Nat /\ i < End(lines)
  BY <1>1, InvFacts
<1>4. /\ line.kind = IF state = lastState THEN "checkpoint" ELSE "sample"
      /\ line.at = at /\ line.boot = boots /\ line.ended = TRUE
      /\ state # lastState => line.state = state
  BY <1>1, <1>3, SampledFacts
<1> HIDE DEF line
<1>5. WellFormed(lines', boots) /\ IsFile(lines')
  BY <1>1, <1>2, <1>3, WithWellFormed DEF WellFormed
<1>6. /\ DOMAIN lines' = DOMAIN lines \cup {End(lines)} /\ lines'[End(lines)] = line
      /\ \A i \in DOMAIN lines : lines'[i] = lines[i]
      /\ Same(lines, lines', End(lines))
  <2>1. /\ DOMAIN With(lines, line) = DOMAIN lines \cup {End(lines)}
        /\ With(lines, line)[End(lines)] = line
        /\ Same(lines, With(lines, line), End(lines))
    BY <1>3, WithFacts
  <2>2. \A i \in DOMAIN lines : With(lines, line)[i] = lines[i]
    BY <1>3 DEF With
  <2> QED
    BY <1>1, <2>1, <2>2
<1>7. /\ loose' \in 0 .. MaxLine + 1 /\ \A i \in DOMAIN lines' : i \in Nat /\ i < loose'
  BY <1>1, <1>5, EndPast, LogNumbers DEF IsFile
<1>8. \E s \in DOMAIN lines' :
        /\ lines'[s].kind = "sample" /\ lines'[s].state = state
        /\ \A j \in DOMAIN lines' : lines'[j].kind = "sample" => j <= s
  <2>1. CASE state = lastState
    <3>1. Remembered(lines, state) /\ state # Unknown
      BY <1>1, <2>1, HistoryLogAssumption DEF LogInv, Ready, HistoryLogAssumption
    <3>2. PICK s \in DOMAIN lines :
            /\ lines[s].kind = "sample" /\ lines[s].state = state
            /\ \A j \in DOMAIN lines : lines[j].kind = "sample" => j <= s
      BY <3>1 DEF Remembered
    <3> QED
      BY <1>4, <1>6, <2>1, <3>2
  <2>2. CASE state # lastState
    <3>1. \A j \in DOMAIN lines' : j <= End(lines)
      BY <1>3, <1>6
    <3> QED
      BY <1>4, <1>6, <2>2, <3>1
  <2> QED
    BY <2>1, <2>2
<1>9. Witness(lines', new, End(lines))
  <2>1. PICK s \in DOMAIN lines' :
        /\ lines'[s].kind = "sample" /\ lines'[s].state = state
        /\ \A j \in DOMAIN lines' : lines'[j].kind = "sample" => j <= s
    BY <1>8
  <2>2. s <= End(lines)
    BY <1>3, <1>6
  <2>3. SampleOf(lines', End(lines), s)
    BY <2>1, <2>2 DEF SampleOf
  <2> QED
    BY <1>4, <1>6, <2>1, <2>3 DEF Witness
<1>10. Secured(lines', owed', loose')
  <2>1. Secured(lines', owed, loose')
    <3>1. Secured(lines, owed, loose)
      BY DEF LogInv
    <3>2. \A i \in DOMAIN lines : i < loose => i < End(lines) /\ i < loose'
      BY <1>3, <1>6, <1>7
    <3> QED
      BY <1>2, <1>3, <1>5, <1>6, <3>1, <3>2, SecuredSame
  <2>2. End(lines) \in DOMAIN lines' /\ End(lines) < loose'
    BY <1>6, <1>7
  <2> QED
    BY <1>1, <1>9, <2>1, <2>2 DEF Secured
<1>11. Current(lines', boots)
  <2>1. Current(lines, boots) /\ line.kind # "boot"
    BY <1>1, <1>4 DEF LogInv
  <2> QED
    BY <1>1, <1>3, <1>5, <2>1, StillCurrent
<1>12. Ready'
  <2>1. AllEnded(lines') /\ NotBehind(lines', at)
    BY <1>1, <1>2, <1>3, <1>4, WithWhole, LogNumbers
  <2> QED
    BY <1>1, <1>8, <2>1 DEF Ready, Remembered
<1>13. LogTypeOK'
  <2>1. new \in Observation
    BY <1>3 DEF Observation
  <2> QED
    BY <1>1, <1>5, <1>7, <2>1 DEF LogTypeOK, LogInv
<1> QED
  BY <1>1, <1>5, <1>10, <1>11, <1>12, <1>13 DEF LogInv

\* One that failed is followed by no other.
LEMMA AppendFailsStep ==
  ASSUME LogInv, NEW at \in Time, NEW state \in State, AppendFails(at, state)
  PROVE  LogInv'
<1> DEFINE line == Sampled(at, state)
<1>1. /\ up /\ ~ poisoned /\ lastAt <= at /\ End(lines) <= MaxLine /\ boots' = boots
      /\ lines' \in Pieces(lines, line) /\ poisoned' = TRUE
      /\ loose' = loose /\ stale' = stale /\ up' = up /\ lastState' = lastState
      /\ lastAt' = lastAt /\ owed' = owed
  BY DEF AppendFails
<1>2. /\ Fits(lines, line, boots)
      /\ AllEnded(lines) /\ End(lines) \in Pos /\ DOMAIN lines # {}
  BY <1>1, SampledFits
<1>3. /\ IsFile(lines) /\ WellFormed(lines, boots) /\ boots \in 1 .. Boots /\ boots \in Nat
      /\ End(lines) \in Nat /\ \A i \in DOMAIN lines : i \in Nat /\ i < End(lines)
  BY <1>1, InvFacts
<1>4. line.kind # "boot"
  BY <1>1, <1>3, SampledFacts
<1> HIDE DEF line
<1>5. /\ WellFormed(lines', boots) /\ Same(lines, lines', End(lines))
      /\ \A k : Current(lines, k) => Current(lines', k)
  BY <1>1, <1>2, <1>3, <1>4, PiecesFacts
<1>6. IsFile(lines')
  BY <1>5 DEF WellFormed
<1>7. Secured(lines', owed', loose')
  <2>1. Secured(lines, owed, loose)
    BY DEF LogInv
  <2> QED
    BY <1>1, <1>2, <1>3, <1>5, <1>6, <2>1, SecuredSame
<1>8. LogTypeOK'
  BY <1>1, <1>6 DEF LogTypeOK, LogInv
<1> QED
  BY <1>1, <1>5, <1>7, <1>8 DEF LogInv

\* A compaction over no gap keeps what is owed behind its cutoff, and leaves the
\* writer what it needs.
LEMMA CompactLogStep ==
  ASSUME LogInv, NEW limit \in Time, CompactLog(limit)
  PROVE  LogInv'
<1> DEFINE K == Kept(lines, limit, boots)
<1>1. /\ up /\ \A gap \in Gaps(lines) : gap.to <= limit
      /\ lines' = K /\ loose' = End(K)
      /\ lastState' = LastState(K, boots) /\ lastAt' = LastAt(K)
      /\ stale' \subseteq {lines}
      /\ owed' = {o \in owed : o.at > limit}
      /\ up' = up /\ boots' = boots /\ poisoned' = poisoned
  BY DEF CompactLog, Compactable
<1>2. IsFile(lines) /\ WellFormed(lines, boots) /\ boots \in Nat /\ owed \subseteq Observation
  BY InvFacts DEF LogInv, LogTypeOK
<1>3. /\ WellFormed(K, boots) /\ AllEnded(K) /\ \A i \in DOMAIN K : K[i].kind # "torn"
  BY <1>2, KeptWellFormed
<1>4. Current(K, boots)
  BY <1>1, <1>2, KeptCurrent DEF LogInv
<1>5. /\ LastState(K, boots) \in State \cup {Unknown} /\ LastAt(K) \in Time
      /\ NotBehind(K, LastAt(K)) /\ Remembered(K, LastState(K, boots))
  BY <1>2, <1>3, MemoryFollows
<1>6. ASSUME NEW o \in owed'
      PROVE  \E i \in DOMAIN K : Witness(K, o, i)
  <2>1. o \in owed /\ o.at > limit /\ o \in Observation
    BY <1>1, <1>2, <1>6
  <2>2. PICK i \in DOMAIN lines : Witness(lines, o, i)
    BY <2>1 DEF LogInv, Secured
  <2> QED
    BY <1>1, <1>2, <2>1, <2>2, KeptWitness
<1> HIDE DEF K
<1>7. /\ End(K) \in 0 .. MaxLine + 1 /\ \A i \in DOMAIN K : i < End(K)
      /\ IsFile(K)
  BY <1>3, EndPast, LogNumbers DEF IsFile, WellFormed
<1>8. Secured(lines', owed', loose')
  <2>1. DOMAIN K # {} => \E f \in DOMAIN K : FirstBoot(K, f)
    BY <1>3 DEF WellFormed
  <2> QED
    BY <1>1, <1>6, <1>7, <2>1 DEF Secured
<1>9. LogTypeOK'
  BY <1>1, <1>2, <1>5, <1>7 DEF LogTypeOK, LogInv
<1>10. Ready'
  BY <1>1, <1>3, <1>5 DEF Ready
<1> QED
  BY <1>1, <1>2, <1>3, <1>4, <1>8, <1>9, <1>10 DEF LogInv

\* What a process leaves that ends, when its file is as secure as it was.
LEMMA StoppedStep ==
  ASSUME LogInv, Stopped, boots' = boots, owed' \subseteq owed, stale' \subseteq stale,
         WellFormed(lines', boots), loose' \in 0 .. MaxLine + 1,
         Secured(lines', owed', loose')
  PROVE  LogInv'
<1>1. up' = FALSE /\ lastState' = Unknown /\ lastAt' = 0 /\ poisoned' = FALSE
  BY DEF Stopped
<1>2. 0 \in Time /\ IsFile(lines')
  BY LogNumbers DEF Time, WellFormed
<1>3. LogTypeOK'
  BY <1>1, <1>2 DEF LogTypeOK, LogInv
<1> QED
  BY <1>1, <1>3 DEF LogInv

\* A power loss leaves what was synced.
LEMMA PowerLossStep == LogInv /\ PowerLoss => LogInv'
<1> SUFFICES ASSUME LogInv, PowerLoss PROVE LogInv'
  OBVIOUS
<1>1. /\ up /\ Stopped /\ boots' = boots /\ owed' = owed /\ stale' = {}
      /\ lines' \in {lines} \cup Cut(lines, loose) /\ loose' = End(lines')
  BY DEF PowerLoss
<1>2. /\ IsFile(lines) /\ WellFormed(lines, boots) /\ boots \in Nat /\ DOMAIN lines # {}
      /\ Secured(lines, owed, loose) /\ loose \in Nat
      /\ \A i \in DOMAIN lines : i \in Nat /\ i < End(lines)
  BY <1>1, InvFacts, LogNumbers DEF LogInv, LogTypeOK
<1>3. WellFormed(lines', boots) /\ Secured(lines', owed, loose')
  <2>1. CASE lines' = lines
    BY <1>1, <1>2, <2>1, SecuredFurther
  <2>2. CASE lines' \in Cut(lines, loose)
    <3>1. PICK n \in DOMAIN lines :
            /\ loose <= n
            /\ LET head == Restrict(lines, {i \in DOMAIN lines : i < n})
               IN  lines' \in {head, With(head, Torn(lines[n])), With(head, Unended(lines[n]))}
      BY <2>2 DEF Cut
    <3>2. PICK head : /\ head = Restrict(lines, {i \in DOMAIN lines : i < n})
                      /\ lines' \in {head, With(head, Torn(lines[n])), With(head, Unended(lines[n]))}
      BY <3>1
    <3>3. \E f \in DOMAIN lines : FirstBoot(lines, f) /\ f < n
      BY <1>2, <3>1 DEF Secured
    <3>4. /\ WellFormed(head, boots) /\ AllEnded(head) /\ DOMAIN head # {}
          /\ Same(lines, head, n) /\ Fits(head, lines[n], boots)
          /\ End(head) \in Pos /\ End(head) <= n
          /\ \A i \in DOMAIN lines : i < n => i \in DOMAIN head
      BY <1>2, <3>2, <3>3, HeadFacts
    <3>5. IsFile(head) /\ End(head) \in Nat /\ \A i \in DOMAIN head : i \in Nat /\ i < End(head)
      BY <3>4, EndPast DEF WellFormed, IsFile
    <3>6. /\ Fits(head, Torn(lines[n]), boots) /\ Fits(head, Unended(lines[n]), boots)
      BY <3>4, PieceFits
    <3>7. WellFormed(lines', boots) /\ Same(head, lines', End(head))
      <4>1. CASE lines' = head
        BY <3>4, <4>1 DEF Same
      <4>2. CASE lines' = With(head, Torn(lines[n]))
        BY <1>2, <3>4, <3>5, <3>6, <4>2, WithWellFormed, WithFacts
      <4>3. CASE lines' = With(head, Unended(lines[n]))
        BY <1>2, <3>4, <3>5, <3>6, <4>3, WithWellFormed, WithFacts
      <4> QED
        BY <3>2, <4>1, <4>2, <4>3
    <3>8. Same(lines, lines', End(head))
      <4>1. Same(lines, head, End(head))
        BY <1>2, <3>1, <3>4, <3>5, LogNumbers DEF Same
      <4> QED
        BY <3>7, <4>1 DEF Same
    <3>9. \A i \in DOMAIN lines : i < loose => i < End(head) /\ i < loose'
      <4> SUFFICES ASSUME NEW i \in DOMAIN lines, i < loose
                   PROVE  i < End(head) /\ i < loose'
        OBVIOUS
      <4>1. i < n
        BY <1>2, <3>1
      <4>2. i \in DOMAIN head /\ i < End(head)
        BY <3>4, <3>5, <4>1
      <4>3. i \in DOMAIN lines'
        <5>1. i \in Pos
          BY <1>2, LineFacts
        <5> QED
          BY <3>7, <4>2, <5>1 DEF Same
      <4>4. i < loose'
        BY <1>1, <3>7, <4>3, EndPast DEF WellFormed, IsFile
      <4> QED
        BY <4>2, <4>4
    <3>10. IsFile(lines')
      BY <3>7 DEF WellFormed
    <3>11. Secured(lines', owed, loose')
      BY <1>2, <3>5, <3>8, <3>9, <3>10, SecuredSame
    <3> QED
      BY <3>7, <3>11
  <2> QED
    BY <1>1, <2>1, <2>2
<1>4. loose' \in 0 .. MaxLine + 1
  BY <1>1, <1>3, EndPast, LogNumbers DEF WellFormed, IsFile
<1> QED
  BY <1>1, <1>3, <1>4, StoppedStep

\* Behind an old file nothing is owed that it does not hold.
LEMMA OldFileStep == LogInv /\ OldFile => LogInv'
<1> SUFFICES ASSUME LogInv, OldFile PROVE LogInv'
  OBVIOUS
<1>1. /\ Stopped /\ boots' = boots /\ stale' = {}
      /\ lines' \in stale /\ loose' = End(lines')
      /\ owed' = owed \cap Observations(lines')
  BY DEF OldFile
<1>2. WellFormed(lines', boots) /\ IsFile(lines')
  BY <1>1 DEF LogInv, WellFormed
<1>3. loose' \in 0 .. MaxLine + 1 /\ \A i \in DOMAIN lines' : i < loose'
  BY <1>1, <1>2, EndPast, LogNumbers DEF IsFile
<1>4. \A o \in owed' : \E i \in DOMAIN lines' : Witness(lines', o, i)
  BY <1>1, <1>2, ObservedWitness
<1>5. Secured(lines', owed', loose')
  BY <1>2, <1>3, <1>4 DEF Secured, WellFormed
<1> QED
  BY <1>1, <1>2, <1>3, <1>5, StoppedStep

\* The invariant is inductive.
LEMMA LogInvStep == LogInv /\ [LogNext]_logVars => LogInv'
<1> SUFFICES ASSUME LogInv, [LogNext]_logVars PROVE LogInv'
  OBVIOUS
<1>1. CASE WriteBack
  BY <1>1 DEF WriteBack, Memory, LogInv, LogTypeOK, Ready
<1>2. CASE Crash
  <2>1. /\ Stopped /\ lines' = lines /\ loose' = loose /\ stale' = stale
        /\ boots' = boots /\ owed' = owed
    BY <1>2 DEF Crash
  <2>2. /\ WellFormed(lines, boots) /\ loose \in 0 .. MaxLine + 1
        /\ Secured(lines, owed, loose)
    BY DEF LogInv, LogTypeOK
  <2> QED
    BY <2>1, <2>2, StoppedStep
<1>3. CASE UNCHANGED logVars
  BY <1>3 DEF logVars, LogInv, LogTypeOK, Ready
<1>4. CASE \E at \in Time : OpenFirst(at) \/ Open(at) \/ OpenFails(at)
  BY <1>4, OpenFirstStep, OpenStep, OpenFailsStep
<1>5. CASE \E at \in Time, state \in State : Append(at, state) \/ AppendFails(at, state)
  BY <1>5, AppendStep, AppendFailsStep
<1>6. CASE \E limit \in Time : CompactLog(limit)
  BY <1>6, CompactLogStep
<1> QED
  BY <1>1, <1>2, <1>3, <1>4, <1>5, <1>6, PowerLossStep, OldFileStep DEF LogNext

\* The inductive invariant holds throughout, whatever fails and is compacted.
LEMMA LogInvariant == LogSpec => []LogInv
BY LogInvInit, LogInvStep, PTL DEF LogSpec

-----------------------------------------------------------------------------
(* The log: what it promises.                                              *)

\* Every variable of the log keeps its type.
THEOREM LogTyped == LogSpec => []LogTypeOK
<1>1. LogInv => LogTypeOK
  BY DEF LogInv
<1> QED
  BY <1>1, LogInvariant, PTL

\* Whatever fails or is compacted, an acknowledged observation is read by the
\* next start in the state it was made in, or lies in a gap that start reports.
THEOREM LogAcknowledged == LogSpec => []Acknowledged
<1>1. LogInv => Acknowledged
  <2> SUFFICES ASSUME LogInv, NEW o \in owed
               PROVE  \/ o \in Observations(lines)
                      \/ \E gap \in Gaps(lines) : gap.from <= o.at /\ o.at <= gap.to
    BY DEF Acknowledged
  <2>1. PICK i \in DOMAIN lines : Witness(lines, o, i)
    BY DEF LogInv, Secured
  <2>2. IsFile(lines) /\ Ordered(lines) /\ o \in Observation
    BY DEF LogInv, LogTypeOK, WellFormed
  <2>3. PICK f \in DOMAIN lines : FirstBoot(lines, f)
    BY <2>1 DEF LogInv, WellFormed
  <2> QED
    BY <2>1, <2>2, <2>3, WitnessAcknowledged
<1> QED
  BY <1>1, LogInvariant, PTL

\* No failure and no compaction leaves a file a start would refuse.
THEOREM LogReopenable == LogSpec => []Reopenable
<1>1. LogInv => Reopenable
  <2> SUFFICES ASSUME LogInv, up \/ DOMAIN lines # {}
               PROVE  \E b \in BootLines(lines) : \A i \in DOMAIN lines : b <= i
    BY DEF Reopenable
  <2>1. DOMAIN lines # {} /\ IsFile(lines) /\ Ordered(lines)
    BY InvFacts DEF LogInv, WellFormed
  <2>2. PICK f \in DOMAIN lines : FirstBoot(lines, f)
    BY <2>1 DEF LogInv, WellFormed
  <2>3. f \in BootLines(lines)
    BY <2>1, <2>2, GoodLine DEF FirstBoot, BootLines
  <2> QED
    BY <2>2, <2>3 DEF FirstBoot
<1> QED
  BY <1>1, LogInvariant, PTL

\* The check a compaction makes of its replacement cannot fail, and compaction
\* changes nothing of what is read from its cutoff on.
THEOREM LogTransparent == LogSpec => []Transparent
<1>1. LogInv => Transparent
  BY Validates, KeepsWindow DEF LogInv, LogTypeOK, Transparent
<1> QED
  BY <1>1, LogInvariant, PTL

-----------------------------------------------------------------------------
(* The log: whose records they are.                                        *)

\* A boot record is the first line of its boot.
Begun(L) ==
  \A i, b \in DOMAIN L : i < b /\ L[b].kind = "boot" => L[i].boot < L[b].boot

\* A checkpoint repeats a sample of its own boot.
Repeats(L) ==
  \A i \in DOMAIN L : L[i].kind = "checkpoint" =>
    \E s \in DOMAIN L : s < i /\ L[s].kind = "sample" /\ L[s].boot = L[i].boot

Booked(L) == Begun(L) /\ Repeats(L)

\* The state the writer remembers is one of this boot.
Remembering ==
  up /\ lastState # Unknown =>
    \E s \in DOMAIN lines : lines[s].kind = "sample" /\ lines[s].boot = boots

BookInv == Booked(lines) /\ (\A L \in stale : Booked(L)) /\ Remembering

\* Whose line may come next.
Follows(L, line) ==
  /\ line.kind = "boot" => \A i \in DOMAIN L : L[i].boot < line.boot
  /\ line.kind = "checkpoint" =>
       \E s \in DOMAIN L : L[s].kind = "sample" /\ L[s].boot = line.boot

\* Such a line keeps the books.
LEMMA BookedWith ==
  ASSUME NEW L, IsFile(L), Booked(L), NEW line, Follows(L, line)
  PROVE  Booked(With(L, line))
<1> DEFINE M == With(L, line)
<1>1. /\ DOMAIN M = DOMAIN L \cup {End(L)} /\ M[End(L)] = line
      /\ End(L) \in Nat /\ \A i \in DOMAIN L : i \in Nat /\ i < End(L) /\ M[i] = L[i]
  BY WithFacts
<1> HIDE DEF M
<1>2. Begun(M)
  <2> SUFFICES ASSUME NEW i \in DOMAIN M, NEW b \in DOMAIN M, i < b, M[b].kind = "boot"
               PROVE  M[i].boot < M[b].boot
    BY DEF Begun
  <2>1. i \in DOMAIN L
    BY <1>1
  <2>2. CASE b \in DOMAIN L
    BY <1>1, <2>1, <2>2 DEF Booked, Begun
  <2>3. CASE b = End(L)
    BY <1>1, <2>1, <2>3 DEF Follows
  <2> QED
    BY <1>1, <2>2, <2>3
<1>3. Repeats(M)
  <2> SUFFICES ASSUME NEW i \in DOMAIN M, M[i].kind = "checkpoint"
               PROVE  \E s \in DOMAIN M : s < i /\ M[s].kind = "sample" /\ M[s].boot = M[i].boot
    BY DEF Repeats
  <2>1. CASE i \in DOMAIN L
    <3>1. PICK s \in DOMAIN L : s < i /\ L[s].kind = "sample" /\ L[s].boot = L[i].boot
      BY <1>1, <2>1 DEF Booked, Repeats
    <3> QED
      BY <1>1, <2>1, <3>1
  <2>2. CASE i = End(L)
    <3>1. PICK s \in DOMAIN L : L[s].kind = "sample" /\ L[s].boot = line.boot
      BY <1>1, <2>2 DEF Follows
    <3> QED
      BY <1>1, <2>2, <3>1
  <2> QED
    BY <1>1, <2>1, <2>2
<1>4. Booked(M)
  BY <1>2, <1>3 DEF Booked
<1> QED
  BY <1>4 DEF M

\* So do its pieces, and they move no line.
LEMMA BookedPieces ==
  ASSUME NEW L, IsFile(L), Booked(L), NEW line \in Line, Follows(L, line),
         NEW M \in Pieces(L, line)
  PROVE  /\ Booked(M)
         /\ \A i \in DOMAIN L : i \in DOMAIN M /\ M[i] = L[i]
<1>1. CASE M = L
  BY <1>1
<1>2. ASSUME NEW piece \in {line, Torn(line), Unended(line)}, M = With(L, piece)
      PROVE  /\ Booked(M)
             /\ \A i \in DOMAIN L : i \in DOMAIN M /\ M[i] = L[i]
  <2>1. /\ piece.boot = line.boot
        /\ piece.kind = "boot" => line.kind = "boot"
        /\ piece.kind = "checkpoint" => line.kind = "checkpoint"
    BY DEF Torn, Unended, Line
  <2>2. Follows(L, piece)
    BY <2>1 DEF Follows
  <2>3. Booked(M)
    BY <1>2, <2>2, BookedWith
  <2>4. DOMAIN M = DOMAIN L \cup {End(L)} /\ \A i \in DOMAIN L : M[i] = L[i]
    BY <1>2, WithFacts
  <2> QED
    BY <2>3, <2>4
<1> QED
  BY <1>1, <1>2 DEF Pieces

\* Ending the lines changes neither kinds nor boots.
LEMMA BookedSeparated ==
  ASSUME NEW L, IsFile(L), Booked(L)
  PROVE  Booked(Separated(L))
<1>1. \A i \in DOMAIN L : L[i] \in Line
  BY LineFacts
<1>2. /\ DOMAIN Separated(L) = DOMAIN L
      /\ \A i \in DOMAIN L : Separated(L)[i].kind = L[i].kind /\ Separated(L)[i].boot = L[i].boot
  BY <1>1 DEF Separated, Line
<1> QED
  BY <1>2 DEF Booked, Begun, Repeats

\* The head of the file has what its lines rest on.
LEMMA BookedHead ==
  ASSUME NEW L, IsFile(L), Booked(L), NEW n \in Nat
  PROVE  Booked(Restrict(L, {i \in DOMAIN L : i < n}))
<1> DEFINE H == Restrict(L, {i \in DOMAIN L : i < n})
<1>1. DOMAIN H = {i \in DOMAIN L : i < n} /\ \A i \in DOMAIN H : H[i] = L[i]
  BY DEF Restrict
<1>2. \A i \in DOMAIN L : i \in Nat
  BY LineFacts
<1> HIDE DEF H
<1>3. Begun(H)
  BY <1>1 DEF Booked, Begun
<1>4. Repeats(H)
  <2> SUFFICES ASSUME NEW i \in DOMAIN H, H[i].kind = "checkpoint"
               PROVE  \E s \in DOMAIN H : s < i /\ H[s].kind = "sample" /\ H[s].boot = H[i].boot
    BY DEF Repeats
  <2>1. PICK s \in DOMAIN L : s < i /\ L[s].kind = "sample" /\ L[s].boot = L[i].boot
    BY <1>1 DEF Booked, Repeats
  <2>2. s \in DOMAIN H
    BY <1>1, <1>2, <2>1
  <2> QED
    BY <1>1, <2>1, <2>2
<1>5. Booked(H)
  BY <1>3, <1>4 DEF Booked
<1> QED
  BY <1>5 DEF H

\* What a compaction keeps of an epoch begins with a sample.
LEMMA BookedKept ==
  ASSUME NEW L, IsFile(L), Booked(L), NEW limit \in Time, NEW live
  PROVE  Booked(Kept(L, limit, live))
<1> DEFINE K == Kept(L, limit, live)
<1>1. /\ DOMAIN K = Retained(L, limit, live) /\ DOMAIN K \subseteq DOMAIN L
      /\ \A i \in DOMAIN K : K[i] = L[i] /\ i \in Nat
  BY KeptLines DEF Kept, Restrict
<1>2. Begun(K)
  BY <1>1 DEF Booked, Begun
<1>3. ASSUME NEW i \in DOMAIN K, K[i].kind = "checkpoint"
      PROVE  \E s \in DOMAIN K : s < i /\ K[s].kind = "sample" /\ K[s].boot = K[i].boot
  <2>1. PICK b \in RetainedBoots(L, limit, live) : i \in RetainedOf(L, b, limit)
    BY <1>1, KeptLines
  <2>2. b \in UsableBoots(L) /\ RetainedOf(L, b, limit) \subseteq DOMAIN K
    BY <1>1 DEF RetainedBoots, Retained
  <2>3. /\ RetainedOf(L, b, limit) \subseteq Epoch(L, b) /\ b \in BootLines(L)
        /\ \A j \in Epoch(L, b) : L[j].boot = L[b].boot
    BY <2>2, RetainedFacts
  <2>4. i # b
    BY <1>1, <1>3, <2>3 DEF BootLines
  <2>5. PICK s \in RetainedOf(L, b, limit) \ {b} :
          L[s].kind = "sample" /\ \A j \in RetainedOf(L, b, limit) \ {b} : s <= j
    BY <2>2, RetainedBegins
  <2>6. s \in DOMAIN K /\ s <= i /\ K[s].kind = "sample" /\ K[s].boot = K[i].boot
    BY <1>1, <2>1, <2>2, <2>3, <2>4, <2>5
  <2>7. s # i
    BY <1>3, <2>6
  <2> QED
    BY <1>1, <2>6, <2>7
<1> HIDE DEF K
<1>4. Booked(K)
  BY <1>2, <1>3 DEF Booked, Repeats
<1> QED
  BY <1>4 DEF K

\* A start takes a boot id of its own.
LEMMA BookStart ==
  ASSUME LogInv, BookInv, NEW at \in Time, OpenFirst(at) \/ Open(at) \/ OpenFails(at)
  PROVE  BookInv'
<1> DEFINE line == Record("boot", at, Unknown)
           L == Separated(lines)
<1>1. Boot /\ boots' \in 1 .. Boots /\ boots = boots' - 1 /\ boots \in Nat
  <2>1. Boot
    BY DEF OpenFirst, Open, OpenFails
  <2> QED
    BY <2>1, BootFacts
<1>2. line \in Line /\ line.kind = "boot" /\ line.boot = boots'
  BY <1>1, BootRecordFacts
<1> HIDE DEF line
<1>3. IsFile(lines) /\ \A i \in DOMAIN lines : lines[i].boot < boots'
  <2>1. IsFile(lines) /\ BootsUpTo(lines, boots)
    BY InvFacts DEF WellFormed
  <2>2. \A i \in DOMAIN lines : lines[i].boot \in Nat
    BY <2>1, LineFacts
  <2> QED
    BY <1>1, <2>1, <2>2 DEF BootsUpTo
<1>4. ASSUME NEW M, IsFile(M), DOMAIN M = DOMAIN lines,
             \A i \in DOMAIN M : M[i].boot = lines[i].boot
      PROVE  Follows(M, line)
  BY <1>2, <1>3, <1>4 DEF Follows
<1>5. CASE OpenFirst(at)
  <2>1. /\ lines' = With(lines, line) /\ stale' \subseteq {lines}
        /\ up' => lastState' = Unknown
    BY <1>5 DEF OpenFirst, Publish, Opened, Memory, Boot, line
  <2>2. Follows(lines, line)
    BY <1>3, <1>4
  <2>3. Booked(lines')
    BY <1>3, <2>1, <2>2, BookedWith DEF BookInv
  <2> QED
    BY <2>1, <2>3 DEF BookInv, Remembering
<1>6. CASE Open(at) \/ OpenFails(at)
  <2>0. \A i \in DOMAIN lines : lines[i] \in Line
    BY <1>3, LineFacts
  <2>1. IsFile(L) /\ DOMAIN L = DOMAIN lines /\ \A i \in DOMAIN L : L[i].boot = lines[i].boot
    BY <1>3, <2>0 DEF Separated, IsFile, Line
  <2>2. Booked(L) /\ Follows(L, line)
    BY <1>3, <1>4, <2>1, BookedSeparated DEF BookInv
  <2> HIDE DEF L
  <2>3. lines' \in Pieces(L, line) /\ stale' = stale
    BY <1>6 DEF Open, OpenFails, Pieces, L, line
  <2>4. Booked(lines')
    BY <1>2, <2>1, <2>2, <2>3, BookedPieces
  <2>5. up' => lastState' = Unknown
    BY <1>6 DEF Open, OpenFails, Opened, Memory, Boot
  <2> QED
    BY <2>3, <2>4, <2>5 DEF BookInv, Remembering
<1> QED
  BY <1>5, <1>6

\* An append adds a line of the boot that runs; a checkpoint repeats what the
\* writer remembers.
LEMMA BookSample ==
  ASSUME LogInv, BookInv, NEW at \in Time, NEW state \in State,
         Append(at, state) \/ AppendFails(at, state)
  PROVE  BookInv'
<1> DEFINE line == Sampled(at, state)
<1>1. /\ up /\ ~ poisoned /\ boots' = boots /\ stale' = stale /\ up' = up
      /\ lines' \in Pieces(lines, line)
  BY DEF Append, AppendFails, Pieces
<1>2. IsFile(lines) /\ boots \in 1 .. Boots
  BY <1>1, InvFacts
<1>3. /\ line \in Line /\ line.boot = boots
      /\ line.kind = IF state = lastState THEN "checkpoint" ELSE "sample"
  BY <1>1, <1>2, SampledFacts
<1> HIDE DEF line
<1>4. state # Unknown
  BY HistoryLogAssumption DEF HistoryLogAssumption
<1>5. Follows(lines, line)
  BY <1>1, <1>3, <1>4 DEF Follows, BookInv, Remembering
<1>6. Booked(lines') /\ \A i \in DOMAIN lines : i \in DOMAIN lines' /\ lines'[i] = lines[i]
  BY <1>1, <1>2, <1>3, <1>5, BookedPieces DEF BookInv
<1>7. Remembering'
  <2>1. CASE AppendFails(at, state)
    <3>1. lastState' = lastState
      BY <2>1 DEF AppendFails
    <3> QED
      BY <1>1, <1>6, <3>1 DEF BookInv, Remembering
  <2>2. CASE Append(at, state)
    <3>1. lines' = With(lines, line)
      BY <2>2 DEF Append, line
    <3>2. CASE state = lastState
      BY <1>1, <1>4, <1>6, <3>2 DEF BookInv, Remembering
    <3>3. CASE state # lastState
      <4>1. End(lines) \in DOMAIN lines' /\ lines'[End(lines)] = line
        BY <1>2, <3>1, WithFacts
      <4> QED
        BY <1>1, <1>3, <3>3, <4>1 DEF Remembering
    <3> QED
      BY <3>2, <3>3
  <2> QED
    BY <2>1, <2>2
<1> QED
  BY <1>1, <1>6, <1>7 DEF BookInv

\* A compaction begins each boot it keeps with a sample.
LEMMA BookCompact ==
  ASSUME LogInv, BookInv, NEW limit \in Time, CompactLog(limit)
  PROVE  BookInv'
<1>1. /\ lines' = Kept(lines, limit, boots) /\ boots' = boots /\ stale' \subseteq {lines}
      /\ lastState' = LastState(lines', boots)
  BY DEF CompactLog
<1>2. IsFile(lines)
  BY InvFacts
<1>3. Booked(lines')
  BY <1>1, <1>2, BookedKept DEF BookInv
<1>4. Remembering'
  BY <1>1 DEF Remembering, LastState
<1> QED
  BY <1>1, <1>3, <1>4 DEF BookInv

\* A power loss leaves the lines before the one it tears.
LEMMA BookPowerLoss ==
  ASSUME LogInv, BookInv, PowerLoss
  PROVE  BookInv'
<1>1. /\ Stopped /\ stale' = {} /\ lines' \in {lines} \cup Cut(lines, loose)
  BY DEF PowerLoss
<1>2. IsFile(lines) /\ Booked(lines)
  BY InvFacts DEF BookInv
<1>3. Booked(lines')
  <2>1. CASE lines' = lines
    BY <1>2, <2>1
  <2>2. CASE lines' \in Cut(lines, loose)
    <3>1. PICK n \in DOMAIN lines : \E head \in {Restrict(lines, {i \in DOMAIN lines : i < n})} :
            lines' \in {head, With(head, Torn(lines[n])), With(head, Unended(lines[n]))}
      BY <2>2 DEF Cut
    <3> DEFINE head == Restrict(lines, {i \in DOMAIN lines : i < n})
    <3>2. lines' \in {head, With(head, Torn(lines[n])), With(head, Unended(lines[n]))}
      BY <3>1
    <3>3. n \in Nat /\ lines[n] \in Line /\ \A i \in DOMAIN lines : i \in Nat
      BY <1>2, LineFacts
    <3>4. Booked(head)
      BY <1>2, <3>3, BookedHead
    <3>5. DOMAIN head = {i \in DOMAIN lines : i < n} /\ \A i \in DOMAIN head : head[i] = lines[i]
      BY DEF Restrict
    <3> HIDE DEF head
    <3>6. IsFile(head)
      BY <1>2, <3>5 DEF IsFile
    <3>7. Follows(head, lines[n])
      <4>1. ASSUME lines[n].kind = "boot", NEW i \in DOMAIN head
            PROVE  head[i].boot < lines[n].boot
        BY <1>2, <3>5, <4>1 DEF Booked, Begun
      <4>2. ASSUME lines[n].kind = "checkpoint"
            PROVE  \E s \in DOMAIN head : head[s].kind = "sample" /\ head[s].boot = lines[n].boot
        <5>1. PICK s \in DOMAIN lines : s < n /\ lines[s].kind = "sample" /\ lines[s].boot = lines[n].boot
          BY <1>2, <4>2 DEF Booked, Repeats
        <5>2. s \in DOMAIN head
          BY <3>5, <5>1
        <5> QED
          BY <3>5, <5>1, <5>2
      <4> QED
        BY <4>1, <4>2 DEF Follows
    <3>8. lines' \in Pieces(head, lines[n])
      BY <3>2 DEF Pieces
    <3> QED
      BY <3>3, <3>4, <3>6, <3>7, <3>8, BookedPieces
  <2> QED
    BY <1>1, <2>1, <2>2
<1> QED
  BY <1>1, <1>3 DEF BookInv, Remembering, Stopped

\* The books are kept by every step.
LEMMA BookStep == LogInv /\ BookInv /\ [LogNext]_logVars => BookInv'
<1> SUFFICES ASSUME LogInv, BookInv, [LogNext]_logVars PROVE BookInv'
  OBVIOUS
<1>1. CASE WriteBack \/ UNCHANGED logVars
  BY <1>1 DEF WriteBack, Memory, logVars, BookInv, Remembering
<1>2. CASE Crash \/ OldFile
  BY <1>2 DEF Crash, OldFile, Stopped, BookInv, Remembering
<1>3. CASE \E at \in Time : OpenFirst(at) \/ Open(at) \/ OpenFails(at)
  BY <1>3, BookStart
<1>4. CASE \E at \in Time, state \in State : Append(at, state) \/ AppendFails(at, state)
  BY <1>4, BookSample
<1>5. CASE \E limit \in Time : CompactLog(limit)
  BY <1>5, BookCompact
<1> QED
  BY <1>1, <1>2, <1>3, <1>4, <1>5, BookPowerLoss DEF LogNext

\* They are kept throughout.
LEMMA BookInvariant == LogSpec => []BookInv
<1>1. LogInit => BookInv
  BY DEF LogInit, BookInv, Booked, Begun, Repeats, Remembering
<1> QED
  BY <1>1, BookStep, LogInvariant, PTL DEF LogSpec

-----------------------------------------------------------------------------
(* The log: what the index reads of the file is what its lines say.        *)

\* Boot records are told apart by their ids, which grow along the file.
LEMMA BootsApart ==
  ASSUME NEW L, IsFile(L), Begun(L), NEW b \in BootLines(L), NEW c \in BootLines(L)
  PROVE  /\ L[b].boot = L[c].boot => b = c
         /\ b < c <=> L[b].boot < L[c].boot
<1>1. /\ b \in DOMAIN L /\ b \in Nat /\ L[b].kind = "boot" /\ L[b].boot \in Nat
      /\ c \in DOMAIN L /\ c \in Nat /\ L[c].kind = "boot" /\ L[c].boot \in Nat
  BY LineFacts DEF BootLines
<1>2. /\ b < c => L[b].boot < L[c].boot
      /\ c < b => L[c].boot < L[b].boot
  BY <1>1 DEF Begun
<1> QED
  BY <1>1, <1>2

\* A record of its own boot's epoch.
LEMMA OwnFacts ==
  ASSUME NEW L, IsFile(L), NEW b \in BootLines(L), NEW i \in Own(L, b)
  PROVE  /\ i \in Epoch(L, b) /\ i \in DOMAIN L /\ i \in Pos /\ i \in Nat
         /\ L[i].kind \in {"sample", "checkpoint"} /\ L[i].kind # "boot"
         /\ Good(L, i) /\ L[i].boot = L[b].boot /\ L[i].at \in Nat
<1>1. /\ i \in Epoch(L, b) /\ L[i].kind \in {"sample", "checkpoint"}
      /\ Good(L, i) /\ L[i].boot = L[b].boot
  BY DEF Own
<1>2. i \in DOMAIN L
  BY <1>1, EpochFacts
<1> QED
  BY <1>1, <1>2, LineFacts

\* The parts of what is read.
LEMMA AsReadFacts ==
  ASSUME NEW L, IsFile(L), Begun(L)
  PROVE  /\ \A i : i \in DOMAIN AsRead(L).records <=> \E b \in BootLines(L) : i \in Own(L, b)
         /\ \A i \in DOMAIN AsRead(L).records :
              AsRead(L).records[i] =
                [ t |-> L[i].at, boot |-> L[i].boot, state |-> StateAt(L, i),
                  full |-> L[i].kind = "sample" ]
         /\ \A i \in DOMAIN AsRead(L).records :
              /\ AsRead(L).records[i].t = L[i].at
              /\ AsRead(L).records[i].boot = L[i].boot
              /\ AsRead(L).records[i].full <=> L[i].kind = "sample"
         /\ DOMAIN AsRead(L).began = {L[b].boot : b \in BootLines(L)}
         /\ \A b \in BootLines(L) : AsRead(L).began[L[b].boot] = L[b].at
         /\ \A b \in BootLines(L) :
              L[b].boot \in AsRead(L).torn
                <=> \E i \in Epoch(L, b) : ~ Good(L, i) \/ L[i].boot # L[b].boot
<1>1. /\ \A i : i \in DOMAIN AsRead(L).records <=> \E b \in BootLines(L) : i \in Own(L, b)
      /\ \A i \in DOMAIN AsRead(L).records :
           AsRead(L).records[i] =
             [ t |-> L[i].at, boot |-> L[i].boot, state |-> StateAt(L, i),
               full |-> L[i].kind = "sample" ]
  BY DEF AsRead
<1>5. ASSUME NEW i \in DOMAIN AsRead(L).records
      PROVE  /\ AsRead(L).records[i].t = L[i].at
             /\ AsRead(L).records[i].boot = L[i].boot
             /\ AsRead(L).records[i].full <=> L[i].kind = "sample"
  <2> DEFINE r == [ t |-> L[i].at, boot |-> L[i].boot, state |-> StateAt(L, i),
                    full |-> L[i].kind = "sample" ]
  <2>1. AsRead(L).records[i] = r
    BY <1>1
  <2>2. r.t = L[i].at /\ r.boot = L[i].boot /\ (r.full <=> L[i].kind = "sample")
    OBVIOUS
  <2> HIDE DEF r
  <2> QED
    BY <2>1, <2>2
<1>2. DOMAIN AsRead(L).began = {L[b].boot : b \in BootLines(L)}
  BY DEF AsRead
<1>3. ASSUME NEW b \in BootLines(L)
      PROVE  AsRead(L).began[L[b].boot] = L[b].at
  <2>1. \A c \in BootLines(L) : L[c].boot = L[b].boot => c = b
    BY BootsApart
  <2>2. (CHOOSE c \in BootLines(L) : L[c].boot = L[b].boot) = b
    BY <2>1
  <2>3. L[b].boot \in {L[c].boot : c \in BootLines(L)}
    OBVIOUS
  <2>4. AsRead(L).began[L[b].boot] = L[CHOOSE c \in BootLines(L) : L[c].boot = L[b].boot].at
    BY <2>3 DEF AsRead
  <2> QED
    BY <2>2, <2>4
<1>4. ASSUME NEW b \in BootLines(L)
      PROVE  L[b].boot \in AsRead(L).torn
               <=> \E i \in Epoch(L, b) : ~ Good(L, i) \/ L[i].boot # L[b].boot
  <2>1. AsRead(L).torn =
          { L[c].boot : c \in {d \in BootLines(L) :
              \E i \in Epoch(L, d) : ~ Good(L, i) \/ L[i].boot # L[d].boot} }
    BY DEF AsRead
  <2>2. \A c \in BootLines(L) : L[c].boot = L[b].boot => c = b
    BY BootsApart
  <2> QED
    BY <2>1, <2>2
<1> QED
  BY <1>1, <1>2, <1>3, <1>4, <1>5

\* The records of a boot are those of its epoch.
LEMMA OfAsRead ==
  ASSUME NEW L, IsFile(L), Begun(L), NEW b \in BootLines(L)
  PROVE  File!Of(AsRead(L), L[b].boot) = Own(L, b)
<1>1. ASSUME NEW i \in DOMAIN AsRead(L).records, AsRead(L).records[i].boot = L[b].boot
      PROVE  i \in Own(L, b)
  <2>1. PICK c \in BootLines(L) : i \in Own(L, c)
    BY AsReadFacts
  <2>2. L[i].boot = L[c].boot
    BY <2>1, OwnFacts
  <2>3. AsRead(L).records[i].boot = L[i].boot
    BY AsReadFacts
  <2>4. c = b
    BY <1>1, <2>2, <2>3, BootsApart
  <2> QED
    BY <2>1, <2>4
<1>2. ASSUME NEW i \in Own(L, b)
      PROVE  i \in DOMAIN AsRead(L).records /\ AsRead(L).records[i].boot = L[b].boot
  <2>1. i \in DOMAIN AsRead(L).records
    BY AsReadFacts
  <2>2. L[i].boot = L[b].boot
    BY OwnFacts
  <2>3. AsRead(L).records[i].boot = L[i].boot
    BY <2>1, AsReadFacts
  <2> QED
    BY <2>1, <2>2, <2>3
<1> QED
  BY <1>1, <1>2 DEF File!Of

\* An epoch is read if none of its lines is bad and it has a record: its first is
\* a sample then.
LEMMA UsableAsRead ==
  ASSUME NEW L, IsFile(L), Booked(L), NEW b \in BootLines(L)
  PROVE  File!Usable(AsRead(L), L[b].boot) <=> Usable(L, b)
<1> DEFINE Sound == \A i \in Epoch(L, b) : Good(L, i) /\ L[i].boot = L[b].boot
<1>0. Begun(L) /\ Repeats(L)
  BY DEF Booked
<1>1. File!Usable(AsRead(L), L[b].boot) <=> Sound /\ Own(L, b) # {}
  <2>1. L[b].boot \notin AsRead(L).torn <=> Sound
    BY <1>0, AsReadFacts
  <2>2. File!Of(AsRead(L), L[b].boot) = Own(L, b)
    BY <1>0, OfAsRead
  <2> HIDE DEF Sound
  <2> QED
    BY <2>1, <2>2 DEF File!Usable
<1>2. ASSUME Usable(L, b)
      PROVE  Sound /\ Own(L, b) # {}
  <2>1. PICK i \in Epoch(L, b) \ {b} : L[i].kind = "sample"
    BY <1>2 DEF Usable
  <2>2. Sound
    BY <1>2 DEF Usable
  <2>3. i \in Own(L, b)
    BY <2>1, <2>2 DEF Own
  <2> QED
    BY <2>2, <2>3
<1>3. ASSUME Sound, Own(L, b) # {}
      PROVE  Usable(L, b)
  <2> DEFINE Rest == Epoch(L, b) \ {b}
  <2>1. /\ b \in DOMAIN L /\ b \in Nat /\ L[b].kind = "boot" /\ Epoch(L, b) \subseteq DOMAIN L
        /\ \A i \in Epoch(L, b) : i \in Nat /\ b <= i
    BY EpochFacts
  <2>2. Rest \subseteq Nat /\ Rest # {}
    <3>1. PICK i : i \in Own(L, b)
      BY <1>3
    <3>2. i \in Epoch(L, b) /\ i # b
      BY <2>1, <3>1, OwnFacts
    <3> QED
      BY <2>1, <3>2
  <2>3. PICK f \in Rest : \A j \in Rest : f <= j
    BY <2>2, LeastOf
  <2>4. Good(L, f) /\ L[f].boot = L[b].boot /\ f \in Epoch(L, b) /\ f # b
    BY <1>3, <2>3
  <2>5. f \in DOMAIN L /\ f \in Nat /\ L[f].kind \in Kind /\ b < f
    BY <2>1, <2>4, LineFacts
  <2>6. L[f].kind # "boot" /\ L[f].kind # "torn"
    BY <2>4, EpochFacts DEF Good
  <2>7. L[f].kind # "checkpoint"
    <3> SUFFICES ASSUME L[f].kind = "checkpoint" PROVE FALSE
      OBVIOUS
    <3>1. PICK s \in DOMAIN L : s < f /\ L[s].kind = "sample" /\ L[s].boot = L[b].boot
      BY <1>0, <2>4, <2>5 DEF Repeats
    <3>2. s \in Nat /\ L[s].boot \in Nat
      BY <3>1, LineFacts
    <3>3. b < s
      <4>1. s # b
        BY <2>1, <3>1
      <4>2. ~ (s < b)
        <5> SUFFICES ASSUME s < b PROVE FALSE
          OBVIOUS
        <5>1. L[s].boot < L[b].boot
          BY <1>0, <2>1 DEF Begun
        <5> QED
          BY <3>1, <3>2, <5>1
      <4> QED
        BY <2>1, <3>2, <4>1, <4>2
    <3>4. \A c \in BootLines(L) : c <= b \/ s < c
      <4> TAKE c \in BootLines(L)
      <4>1. c <= b \/ f < c
        BY <2>4 DEF Epoch
      <4>2. c \in Nat
        BY LineFacts DEF BootLines
      <4> QED
        BY <2>5, <3>1, <3>2, <4>1, <4>2
    <3>5. s \in Rest
      BY <2>1, <3>1, <3>2, <3>3, <3>4 DEF Epoch
    <3>6. f <= s
      BY <2>3, <3>5
    <3> QED
      BY <2>5, <3>1, <3>2, <3>6
  <2>8. L[f].kind = "sample"
    BY <2>5, <2>6, <2>7 DEF Kind
  <2> QED
    BY <1>3, <2>3, <2>8 DEF Usable
<1> HIDE DEF Sound
<1> QED
  BY <1>1, <1>2, <1>3

\* What is read is what is replayed, boot records apart.
LEMMA ReadableAsRead ==
  ASSUME NEW L, IsFile(L), Booked(L)
  PROVE  File!Readable(AsRead(L)) = {i \in Replay(L) : L[i].kind # "boot"}
<1>0. Begun(L)
  BY DEF Booked
<1>1. ASSUME NEW i \in File!Readable(AsRead(L))
      PROVE  i \in Replay(L) /\ L[i].kind # "boot"
  <2>1. i \in DOMAIN AsRead(L).records /\ File!Usable(AsRead(L), AsRead(L).records[i].boot)
    BY DEF File!Readable
  <2>2. PICK b \in BootLines(L) : i \in Own(L, b)
    BY <1>0, <2>1, AsReadFacts
  <2>3. L[i].boot = L[b].boot /\ i \in Epoch(L, b) /\ L[i].kind # "boot"
    BY <2>2, OwnFacts
  <2>4. AsRead(L).records[i].boot = L[i].boot
    BY <1>0, <2>1, AsReadFacts
  <2>5. Usable(L, b)
    BY <2>1, <2>3, <2>4, UsableAsRead
  <2> QED
    BY <2>3, <2>5 DEF Replay, UsableBoots
<1>2. ASSUME NEW i \in Replay(L), L[i].kind # "boot"
      PROVE  i \in File!Readable(AsRead(L))
  <2>1. PICK b \in UsableBoots(L) : i \in Epoch(L, b)
    BY DEF Replay
  <2>2. b \in BootLines(L) /\ Usable(L, b) /\ Good(L, i) /\ L[i].boot = L[b].boot
    BY <2>1 DEF UsableBoots, Usable
  <2>3. L[i].kind \in {"sample", "checkpoint"}
    <3>1. i \in DOMAIN L
      BY <2>1, <2>2, EpochFacts
    <3>2. L[i].kind \in Kind
      BY <3>1, LineFacts
    <3> QED
      BY <1>2, <2>2, <3>2 DEF Kind, Good
  <2>4. i \in Own(L, b)
    BY <2>1, <2>2, <2>3 DEF Own
  <2>5. i \in DOMAIN AsRead(L).records
    BY <1>0, <2>2, <2>4, AsReadFacts
  <2>6. AsRead(L).records[i].boot = L[b].boot
    BY <1>0, <2>2, <2>5, AsReadFacts
  <2>7. File!Usable(AsRead(L), L[b].boot)
    BY <2>2, UsableAsRead
  <2> QED
    BY <2>5, <2>6, <2>7 DEF File!Readable
<1> QED
  BY <1>1, <1>2

\* An epoch that is not read ends where the file's next boot begins.
LEMMA EndAsRead ==
  ASSUME NEW L, IsFile(L), Begun(L), NEW b \in BootLines(L)
  PROVE  File!NextBegin(AsRead(L), L[b].boot) = GapEnds(L, b)
<1> DEFINE later == {L[c].at : c \in {d \in BootLines(L) : b < d}}
           begins == {AsRead(L).began[c] : c \in {d \in DOMAIN AsRead(L).began : L[b].boot < d}}
<1>1. \A t \in later : t \in Nat /\ t < Forever
  <2> TAKE t \in later
  <2>1. PICK c \in BootLines(L) : t = L[c].at
    OBVIOUS
  <2>2. L[c].at \in Time /\ L[c].at \in Nat
    BY LineFacts DEF BootLines
  <2> QED
    BY <2>1, <2>2, HistoryLogAssumption DEF Time, Forever
<1>2. Forever \in Nat /\ File!Forever = Forever
  BY HistoryLogAssumption DEF Forever, File!Forever
<1>3. begins = later
  <2>1. ASSUME NEW t \in later
        PROVE  t \in begins
    <3>1. PICK c \in BootLines(L) : b < c /\ t = L[c].at
      BY <2>1
    <3>2. L[b].boot < L[c].boot
      BY <3>1, BootsApart
    <3>3. L[c].boot \in DOMAIN AsRead(L).began /\ AsRead(L).began[L[c].boot] = L[c].at
      BY AsReadFacts
    <3> QED
      BY <3>1, <3>2, <3>3
  <2>2. ASSUME NEW t \in begins
        PROVE  t \in later
    <3>1. PICK id \in DOMAIN AsRead(L).began : L[b].boot < id /\ t = AsRead(L).began[id]
      BY <2>2
    <3>2. PICK c \in BootLines(L) : id = L[c].boot
      BY AsReadFacts
    <3>3. b < c
      BY <3>1, <3>2, BootsApart
    <3>4. AsRead(L).began[L[c].boot] = L[c].at
      BY AsReadFacts
    <3> QED
      BY <3>1, <3>2, <3>3, <3>4
  <2> QED
    BY <2>1, <2>2
<1>4. File!NextBegin(AsRead(L), L[b].boot)
        = CHOOSE x \in later \cup {Forever} : \A y \in later \cup {Forever} : x =< y
  <2>1. File!NextBegin(AsRead(L), L[b].boot) = File!Min(begins \cup {File!Forever})
    BY DEF File!NextBegin
  <2> HIDE DEF begins
  <2>2. File!NextBegin(AsRead(L), L[b].boot) = File!Min(later \cup {Forever})
    BY <1>2, <1>3, <2>1
  <2> QED
    BY <2>2 DEF File!Min
<1>5. GapEnds(L, b)
        = IF later = {} THEN Forever ELSE CHOOSE t \in later : \A s \in later : t <= s
  BY DEF GapEnds
<1> HIDE DEF later
<1>6. CASE later = {}
  <2>1. \A x \in later \cup {Forever} : x = Forever
    BY <1>6
  <2>2. Forever \in later \cup {Forever} /\ Forever =< Forever
    BY <1>2
  <2>3. (CHOOSE x \in later \cup {Forever} : \A y \in later \cup {Forever} : x =< y) = Forever
    BY <2>1, <2>2
  <2> QED
    BY <1>4, <1>5, <1>6, <2>3
<1>7. CASE later # {}
  <2> DEFINE first == CHOOSE t \in later : \A s \in later : t <= s
             least == CHOOSE x \in later \cup {Forever} : \A y \in later \cup {Forever} : x =< y
  <2>1. later \subseteq Nat
    BY <1>1
  <2>2. PICK m \in later : \A s \in later : m <= s
    BY <1>7, <2>1, LeastOf
  <2>3. first \in later /\ \A s \in later : first <= s
    BY <2>2
  <2>4. m < Forever /\ m \in Nat
    BY <1>1
  <2>5. \A y \in later \cup {Forever} : m =< y
    BY <1>2, <2>2, <2>4
  <2>6. least \in later \cup {Forever} /\ \A y \in later \cup {Forever} : least =< y
    BY <2>2, <2>5
  <2> HIDE DEF first, least
  <2>7. first = m
    BY <1>1, <2>2, <2>3
  <2>8. least <= m /\ least # Forever
    BY <1>2, <2>2, <2>4, <2>6
  <2>9. least = m
    BY <1>1, <2>2, <2>6, <2>8
  <2> QED
    BY <1>4, <1>5, <1>7, <2>7, <2>9 DEF first, least
<1> QED
  BY <1>6, <1>7

\* The gaps are the same.
LEMMA GapsAsRead ==
  ASSUME NEW L, IsFile(L), Booked(L)
  PROVE  File!GapsOf(AsRead(L)) = Gaps(L)
<1> DEFINE f == AsRead(L)
           gap(id) == [from |-> f.began[id], to |-> File!NextBegin(f, id)]
           lost(b) == [from |-> L[b].at, to |-> GapEnds(L, b)]
<1>0. Begun(L)
  BY DEF Booked
<1>1. \A b \in BootLines(L) : gap(L[b].boot) = lost(b)
  BY <1>0, AsReadFacts, EndAsRead
<1>2. \A b \in BootLines(L) :
        b \in UsableBoots(L) <=> File!Usable(f, L[b].boot)
  BY UsableAsRead DEF UsableBoots
<1>3. \A id : id \in DOMAIN f.began <=> \E b \in BootLines(L) : id = L[b].boot
  BY <1>0, AsReadFacts
<1>4. File!GapsOf(f) = {gap(id) : id \in {c \in DOMAIN f.began : ~ File!Usable(f, c)}}
  BY DEF File!GapsOf
<1>5. Gaps(L) = {lost(b) : b \in BootLines(L) \ UsableBoots(L)}
  BY DEF Gaps
<1> HIDE DEF f, gap, lost
<1>6. \A x : x \in File!GapsOf(f) => x \in Gaps(L)
  BY <1>1, <1>2, <1>3, <1>4, <1>5
<1>7. \A x : x \in Gaps(L) => x \in File!GapsOf(f)
  BY <1>1, <1>2, <1>3, <1>4, <1>5
<1>8. File!GapsOf(f) = Gaps(L)
  <2>1. File!GapsOf(f) \subseteq Gaps(L) /\ Gaps(L) \subseteq File!GapsOf(f)
    BY <1>6, <1>7
  <2> QED
    BY <2>1
<1> QED
  BY <1>8 DEF f

\* All of an epoch that is read, its boot record apart, is its boot's.
LEMMA UsableRecord ==
  ASSUME NEW L, IsFile(L), NEW b \in UsableBoots(L), NEW i \in Epoch(L, b), i # b
  PROVE  i \in Own(L, b)
<1>1. b \in BootLines(L) /\ Good(L, i) /\ L[i].boot = L[b].boot
  BY DEF UsableBoots, Usable
<1>2. i \in DOMAIN L /\ L[i].kind # "boot"
  BY <1>1, EpochFacts
<1>3. L[i].kind \in Kind
  BY <1>2, LineFacts
<1>4. L[i].kind \in {"sample", "checkpoint"}
  BY <1>1, <1>2, <1>3 DEF Kind, Good
<1> QED
  BY <1>1, <1>4 DEF Own

\* The epochs a compaction keeps are those it keeps of the index.
LEMMA StaysAsRead ==
  ASSUME NEW L, IsFile(L), Booked(L), NEW limit \in Time, NEW live, NEW b \in BootLines(L)
  PROVE  b \in RetainedBoots(L, limit, live) <=>
           File!Usable(AsRead(L), L[b].boot) /\ File!Stays(AsRead(L), live, L[b].boot, limit)
<1>0. Begun(L)
  BY DEF Booked
<1>1. File!Usable(AsRead(L), L[b].boot) <=> b \in UsableBoots(L)
  BY UsableAsRead DEF UsableBoots
<1>2. File!Stays(AsRead(L), live, L[b].boot, limit) <=>
        L[b].boot = live \/ L[b].at >= limit \/ \E i \in Own(L, b) : L[i].at >= limit
  <2>1. AsRead(L).began[L[b].boot] = L[b].at
    BY <1>0, AsReadFacts
  <2>2. \A i \in Own(L, b) : AsRead(L).records[i].t = L[i].at
    <3> TAKE i \in Own(L, b)
    <3>1. i \in DOMAIN AsRead(L).records
      BY <1>0, AsReadFacts
    <3> QED
      BY <1>0, <3>1, AsReadFacts
  <2>3. File!Of(AsRead(L), L[b].boot) = Own(L, b)
    BY <1>0, OfAsRead
  <2> QED
    BY <2>1, <2>2, <2>3 DEF File!Stays
<1>3. ASSUME b \in UsableBoots(L), NEW i \in Epoch(L, b), i # b
      PROVE  i \in Own(L, b)
  BY <1>3, UsableRecord
<1>4. Own(L, b) \subseteq Epoch(L, b) /\ b \in Epoch(L, b)
  BY EpochFacts DEF Own
<1>5. b \in UsableBoots(L) =>
        ((\E i \in Epoch(L, b) : L[i].at >= limit)
          <=> L[b].at >= limit \/ \E i \in Own(L, b) : L[i].at >= limit)
  BY <1>3, <1>4
<1> QED
  BY <1>1, <1>2, <1>5 DEF RetainedBoots

\* The baselines are the same.
LEMMA BaselineAsRead ==
  ASSUME NEW L, IsFile(L), Begun(L), NEW limit \in Time, NEW b \in UsableBoots(L),
         NEW i \in Own(L, b)
  PROVE  File!IsBaseline(AsRead(L), i, limit) <=> i \in Baseline(L, b, limit)
<1> DEFINE old == {j \in Own(L, b) : L[j].kind = "sample" /\ L[j].at < limit}
<1>1. b \in BootLines(L)
  BY DEF UsableBoots
<1>2. File!Of(AsRead(L), AsRead(L).records[i].boot) = Own(L, b)
  <2>1. i \in DOMAIN AsRead(L).records
    BY <1>1, AsReadFacts
  <2>2. AsRead(L).records[i].boot = L[i].boot
    BY <2>1, AsReadFacts
  <2>3. L[i].boot = L[b].boot
    BY <1>1, OwnFacts
  <2> QED
    BY <1>1, <2>2, <2>3, OfAsRead
<1>3. \A j \in Own(L, b) :
        /\ AsRead(L).records[j].full <=> L[j].kind = "sample"
        /\ AsRead(L).records[j].t = L[j].at
  <2> TAKE j \in Own(L, b)
  <2>1. j \in DOMAIN AsRead(L).records
    BY <1>1, AsReadFacts
  <2> QED
    BY <2>1, AsReadFacts
<1>4. File!IsBaseline(AsRead(L), i, limit) <=> i \in old /\ \A j \in old : j <= i
  <2> DEFINE full == {j \in File!Of(AsRead(L), AsRead(L).records[i].boot) :
                        AsRead(L).records[j].full /\ AsRead(L).records[j].t < limit}
  <2>1. File!IsBaseline(AsRead(L), i, limit) <=> i \in full /\ \A j \in full : j <= i
    BY DEF File!IsBaseline
  <2>2. full = old
    BY <1>2, <1>3
  <2> HIDE DEF full, old
  <2> QED
    BY <2>1, <2>2
<1>5. \A j : j \in old <=> j \in Epoch(L, b) /\ L[j].kind = "sample" /\ L[j].at < limit
  <2>1. Own(L, b) \subseteq Epoch(L, b)
    BY DEF Own
  <2>2. \A j \in Epoch(L, b) : L[j].kind = "sample" => j # b
    BY <1>1, EpochFacts
  <2>3. \A j \in Epoch(L, b) : j # b => j \in Own(L, b)
    BY UsableRecord
  <2> QED
    BY <2>1, <2>2, <2>3
<1> HIDE DEF old
<1> QED
  BY <1>4, <1>5 DEF Baseline

\* The records a compaction leaves.
LEMMA KeptOwn ==
  ASSUME NEW L, IsFile(L), NEW limit \in Time, NEW live,
         NEW b \in RetainedBoots(L, limit, live)
  PROVE  Own(Kept(L, limit, live), b)
           = {i \in Own(L, b) : L[i].at >= limit \/ i \in Baseline(L, b, limit)}
<1> DEFINE K == Kept(L, limit, live)
<1>1. /\ DOMAIN K = Retained(L, limit, live) /\ Epoch(K, b) = RetainedOf(L, b, limit)
      /\ \A i \in DOMAIN K : K[i] = L[i] /\ Good(K, i)
  BY KeptEpochs, KeptLines DEF Kept, Restrict
<1>2. b \in UsableBoots(L) /\ RetainedOf(L, b, limit) \subseteq DOMAIN K /\ b \in BootLines(L)
  BY <1>1 DEF RetainedBoots, Retained, UsableBoots
<1>3. /\ RetainedOf(L, b, limit) \subseteq Epoch(L, b) /\ b \in RetainedOf(L, b, limit)
      /\ \A i \in Epoch(L, b) : Good(L, i) /\ L[i].boot = L[b].boot
  BY <1>2, RetainedFacts
<1>4. Own(K, b) = {i \in RetainedOf(L, b, limit) : L[i].kind \in {"sample", "checkpoint"}}
  BY <1>1, <1>2, <1>3 DEF Own
<1>5. Own(L, b) = {i \in Epoch(L, b) : L[i].kind \in {"sample", "checkpoint"}}
  BY <1>3 DEF Own
<1>6. L[b].kind = "boot"
  BY <1>2 DEF BootLines
<1>7. \A i : i \in RetainedOf(L, b, limit) <=>
        i = b \/ i \in Baseline(L, b, limit) \/ (i \in Epoch(L, b) /\ L[i].at >= limit)
  BY DEF RetainedOf
<1> HIDE DEF K
<1>8. Own(K, b) = {i \in Own(L, b) : L[i].at >= limit \/ i \in Baseline(L, b, limit)}
  BY <1>3, <1>4, <1>5, <1>6, <1>7
<1> QED
  BY <1>8 DEF K

\* And the state each is read in.
LEMMA KeptStateAt ==
  ASSUME NEW L, IsFile(L), NEW limit \in Time, NEW live,
         NEW b \in RetainedBoots(L, limit, live), NEW i \in Own(L, b),
         L[i].at >= limit \/ i \in Baseline(L, b, limit)
  PROVE  StateAt(Kept(L, limit, live), i) = StateAt(L, i)
<1> DEFINE K == Kept(L, limit, live)
<1>1. b \in UsableBoots(L) /\ b \in BootLines(L) /\ i \in Epoch(L, b) /\ L[i].kind # "boot"
  BY DEF RetainedBoots, UsableBoots, Own
<1>2. /\ IsFile(K) /\ DOMAIN K = Retained(L, limit, live) /\ DOMAIN K \subseteq DOMAIN L
      /\ \A j \in DOMAIN K : K[j] = L[j]
  BY KeptEpochs, KeptLines DEF Kept, Restrict
<1>3. CASE L[i].at >= limit
  <2>1. i \in DOMAIN K
    BY <1>1, <1>2, <1>3, KeptSample
  <2>2. PICK s \in DOMAIN K : SampleOf(L, i, s) /\ SampleOf(K, i, s)
    BY <1>1, <1>2, <1>3, KeptSample
  <2>3. StateAt(L, i) = L[s].state
    BY <1>2, <2>1, <2>2, StateOf
  <2>4. StateAt(K, i) = K[s].state
    BY <1>2, <2>1, <2>2, StateOf
  <2> QED
    BY <1>2, <2>2, <2>3, <2>4
<1>4. CASE i \in Baseline(L, b, limit)
  <2>1. i \in RetainedOf(L, b, limit) /\ L[i].kind = "sample"
    BY <1>4 DEF RetainedOf, Baseline
  <2>2. i \in DOMAIN K /\ i \in DOMAIN L /\ K[i] = L[i] /\ i \in Nat
    BY <1>2, <2>1, LineFacts DEF Retained
  <2>3. SampleOf(L, i, i) /\ SampleOf(K, i, i)
    BY <2>1, <2>2 DEF SampleOf
  <2>4. StateAt(L, i) = L[i].state
    BY <2>2, <2>3, StateOf
  <2>5. StateAt(K, i) = K[i].state
    BY <1>2, <2>2, <2>3, StateOf
  <2> QED
    BY <2>2, <2>4, <2>5
<1> QED
  BY <1>3, <1>4

\* A compaction leaves of the lines what the index takes to be left.
LEMMA RetainedAsRead ==
  ASSUME NEW L, IsFile(L), Booked(L), NEW limit \in Time, NEW live
  PROVE  AsRead(Kept(L, limit, live)) = File!Retained(AsRead(L), live, limit)
<1> DEFINE K == Kept(L, limit, live)
           f == AsRead(L)
           g == AsRead(K)
           B == RetainedBoots(L, limit, live)
           ids == {id \in DOMAIN f.began : File!Usable(f, id) /\ File!Stays(f, live, id, limit)}
           kept == {i \in DOMAIN f.records :
                      /\ f.records[i].boot \in ids
                      /\ f.records[i].t >= limit \/ File!IsBaseline(f, i, limit)}
           record(M, i) == [ t |-> M[i].at, boot |-> M[i].boot, state |-> StateAt(M, i),
                             full |-> M[i].kind = "sample" ]
<1>1. /\ Begun(L) /\ IsFile(K) /\ Booked(K) /\ Begun(K)
      /\ BootLines(K) = B /\ B \subseteq UsableBoots(L) /\ B \subseteq BootLines(L)
  BY KeptEpochs, BookedKept DEF Booked, RetainedBoots, UsableBoots
<1>2. DOMAIN K \subseteq DOMAIN L /\ \A i \in DOMAIN K : K[i] = L[i] /\ Good(K, i)
  BY KeptEpochs, KeptLines DEF Kept, Restrict
<1>3. \A id : id \in ids <=> \E b \in B : id = L[b].boot
  <2>1. \A id : id \in DOMAIN f.began <=> \E b \in BootLines(L) : id = L[b].boot
    BY <1>1, AsReadFacts
  <2>2. \A b \in BootLines(L) :
          b \in B <=> File!Usable(f, L[b].boot) /\ File!Stays(f, live, L[b].boot, limit)
    BY StaysAsRead
  <2> HIDE DEF f, B
  <2> QED
    BY <1>1, <2>1, <2>2
<1>4. \A i : i \in kept <=> \E b \in B : i \in Own(K, b)
  <2>1. ASSUME NEW i \in DOMAIN f.records
        PROVE  i \in kept <=> \E b \in B : i \in Own(K, b)
    <3>1. PICK b \in BootLines(L) : i \in Own(L, b)
      BY <1>1, <2>1, AsReadFacts
    <3>2. f.records[i].boot = L[b].boot /\ f.records[i].t = L[i].at
      <4>1. f.records[i].boot = L[i].boot /\ f.records[i].t = L[i].at
        BY <1>1, <2>1, AsReadFacts
      <4> QED
        BY <3>1, <4>1, OwnFacts
    <3>3. \A c \in B : i \in Own(K, c) => c = b
      <4> TAKE c \in B
      <4> HAVE i \in Own(K, c)
      <4>1. i \in Own(L, c)
        BY KeptOwn
      <4>2. L[i].boot = L[c].boot /\ L[i].boot = L[b].boot
        BY <1>1, <3>1, <4>1, OwnFacts
      <4> QED
        BY <1>1, <4>2, BootsApart
    <3>4. L[b].boot \in ids <=> b \in B
      <4> HIDE DEF ids, B
      <4>1. b \in B => L[b].boot \in ids
        BY <1>3
      <4>2. ASSUME L[b].boot \in ids PROVE b \in B
        <5>1. PICK c \in B : L[b].boot = L[c].boot
          BY <1>3, <4>2
        <5> QED
          BY <1>1, <5>1, BootsApart
      <4> QED
        BY <4>1, <4>2
    <3>5. ASSUME b \in B
          PROVE  i \in Own(K, b) <=> L[i].at >= limit \/ File!IsBaseline(f, i, limit)
      <4>1. File!IsBaseline(f, i, limit) <=> i \in Baseline(L, b, limit)
        BY <1>1, <3>1, <3>5, BaselineAsRead
      <4>2. Own(K, b) = {j \in Own(L, b) : L[j].at >= limit \/ j \in Baseline(L, b, limit)}
        BY <3>5, KeptOwn
      <4> HIDE DEF K
      <4> QED
        BY <3>1, <4>1, <4>2
    <3>6. i \in kept <=> b \in B /\ (L[i].at >= limit \/ File!IsBaseline(f, i, limit))
      <4> HIDE DEF ids, B
      <4> QED
        BY <2>1, <3>2, <3>4
    <3> HIDE DEF kept, B, K
    <3> QED
      BY <3>3, <3>5, <3>6
  <2>2. ASSUME NEW b \in B, NEW i \in Own(K, b)
        PROVE  i \in DOMAIN f.records
    <3>1. i \in Own(L, b)
      BY KeptOwn
    <3> QED
      BY <1>1, <3>1, AsReadFacts
  <2>3. \A i \in kept : i \in DOMAIN f.records
    OBVIOUS
  <2> HIDE DEF kept, B, K, f
  <2> QED
    BY <2>1, <2>2, <2>3
<1>5. g.records = [i \in kept |-> f.records[i]]
  <2>1. g.records = [i \in UNION {Own(K, b) : b \in BootLines(K)} |-> record(K, i)]
    BY DEF AsRead
  <2>2. UNION {Own(K, b) : b \in BootLines(K)} = kept
    <3> HIDE DEF kept, B, K
    <3> QED
      BY <1>1, <1>4
  <2>3. \A i \in kept : record(K, i) = f.records[i]
    <3> TAKE i \in kept
    <3>1. PICK b \in B : i \in Own(K, b)
      BY <1>4
    <3>2. i \in Own(L, b) /\ (L[i].at >= limit \/ i \in Baseline(L, b, limit))
      BY <3>1, KeptOwn
    <3>3. StateAt(K, i) = StateAt(L, i)
      BY <3>2, KeptStateAt
    <3>4. i \in DOMAIN K /\ K[i] = L[i]
      <4>1. i \in Epoch(K, b)
        BY <3>1 DEF Own
      <4> QED
        BY <1>1, <1>2, <4>1, EpochFacts
    <3>5. i \in DOMAIN f.records
      BY <1>1, <3>2, AsReadFacts
    <3>6. f.records[i] = record(L, i)
      BY <1>1, <3>5, AsReadFacts
    <3> HIDE DEF K, f
    <3> QED
      BY <3>3, <3>4, <3>6
  <2> HIDE DEF kept, K, f, record, g
  <2> QED
    BY <2>1, <2>2, <2>3
<1>6. g.began = [id \in ids |-> f.began[id]]
  <2> DEFINE begin(id) == K[CHOOSE b \in BootLines(K) : K[b].boot = id].at
  <2>1. g.began = [id \in {K[b].boot : b \in BootLines(K)} |-> begin(id)]
    BY DEF AsRead
  <2>2. \A b \in B : b \in DOMAIN K /\ K[b] = L[b]
    BY <1>1, <1>2, EpochFacts
  <2>3. {K[b].boot : b \in BootLines(K)} = ids
    <3> HIDE DEF ids, B, K
    <3> QED
      BY <1>1, <1>3, <2>2
  <2>4. ASSUME NEW id \in ids
        PROVE  begin(id) = f.began[id]
    <3>1. PICK b \in B : id = L[b].boot
      BY <1>3
    <3>2. f.began[id] = L[b].at
      BY <1>1, <3>1, AsReadFacts
    <3>3. g.began[K[b].boot] = K[b].at
      BY <1>1, <3>1, AsReadFacts
    <3>4. g.began[id] = begin(id)
      <4> HIDE DEF g, K, ids, begin
      <4> QED
        BY <2>1, <2>3
    <3> HIDE DEF K, f, g, begin
    <3> QED
      BY <2>2, <3>1, <3>2, <3>3, <3>4
  <2> HIDE DEF K, f, g, ids, begin
  <2> QED
    BY <2>1, <2>3, <2>4
<1>7. g.torn = {}
  <2>1. g.torn = { K[b].boot : b \in {c \in BootLines(K) :
                     \E i \in Epoch(K, c) : ~ Good(K, i) \/ K[i].boot # K[c].boot} }
    BY DEF AsRead
  <2>2. ASSUME NEW b \in BootLines(K), NEW i \in Epoch(K, b)
        PROVE  Good(K, i) /\ K[i].boot = K[b].boot
    <3>1. b \in UsableBoots(K)
      BY <1>1, KeptUsable
    <3> QED
      BY <3>1 DEF UsableBoots, Usable
  <2> HIDE DEF K, g
  <2> QED
    BY <2>1, <2>2
<1>8. g = [records |-> g.records, began |-> g.began, torn |-> g.torn]
  BY DEF AsRead
<1>9. File!Retained(f, live, limit)
        = [ records |-> [i \in kept |-> f.records[i]], began |-> [id \in ids |-> f.began[id]],
            torn |-> {} ]
  BY DEF File!Retained, File!Rest
<1> HIDE DEF kept, ids, f, g
<1>10. g = File!Retained(f, live, limit)
  BY <1>5, <1>6, <1>7, <1>8, <1>9
<1> QED
  BY <1>10 DEF f, g

\* What HistoryIndex takes the file for is what the log's lines say of it, in
\* every state and for every cutoff.
THEOREM LogAsIndexed == LogSpec => []IndexReadsFile
<1>1. LogInv /\ BookInv => IndexReadsFile
  <2> SUFFICES ASSUME LogInv, BookInv PROVE IndexReadsFile
    OBVIOUS
  <2>1. IsFile(lines) /\ Booked(lines)
    BY DEF LogInv, LogTypeOK, BookInv
  <2> QED
    BY <2>1, ReadableAsRead, GapsAsRead, RetainedAsRead DEF IndexReadsFile
<1> QED
  BY <1>1, LogInvariant, BookInvariant, PTL
=============================================================================
