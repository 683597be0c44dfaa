---------------------------- MODULE HistoryIndex ----------------------------
(***************************************************************************)
(* The index of the metrics history: the points of counter increments that *)
(* are kept in memory, how a sample and a replayed record become points,   *)
(* the rollup of a window, the tail of what is counted since the last      *)
(* sample, and the page that adds the two up.                              *)
(*                                                                         *)
(* The file is that of HistoryFile, by its records and boots; HistoryLog   *)
(* has its lines.  When a compaction is asked for is in Compaction; here   *)
(* one may run whenever the retention is finite.  A record, its point and its event bear the    *)
(* number of their sample, of which only the order is used: one that is    *)
(* taken out moves no other.  A snapshot of the registry is a function     *)
(* from the series that exist to their counts.  Gauges replace one another *)
(* and are left out, and so is the capacity a sample carries.              *)
(***************************************************************************)
EXTENDS HistoryFile, Sequences, FiniteSets

CONSTANTS
  Series,      \* the counters of the registry
  Retention,   \* the days of history an operator may choose, 0 for all
  MaxCount,    \* bound: what a counter reaches in one run of the program
  Boots,       \* bound: starts of the program
  Samples,     \* bound: samples taken in all
  Revisions    \* bound: compactions begin while the revision is below it

ASSUME HistoryIndexAssumption ==
  /\ Retention \subseteq Nat
  /\ MaxTime \in Nat /\ MaxCount \in Nat /\ Boots \in Nat /\ Samples \in Nat
  /\ Revisions \in Nat

VARIABLES
  up,          \* the program runs
  boot,        \* its starts so far; the last is the boot id
  live,        \* the registry
  days,        \* the retention in force
  sampler,     \* the sample the sampler's task has in hand
  file,        \* the file: records by number, the boots begun, those with a bad line
  writer,      \* the last state and time of this boot the store has written
  poisoned,    \* an append failed, the file takes no more
  unended,     \* the last record in the file lacks its newline
  index,       \* the index in memory: its points and events by number
  worker,      \* the compaction under way
  taken,       \* the samples taken and not lost with the memory
  saved,       \* those of them that are in the file
  floor,       \* retention has removed what is older
  spans,       \* the gaps any start has reported
  healed       \* those of them this start reported of lines it then ended

indexVars ==
  << up, boot, live, days, sampler, file, writer, poisoned, unended, index, worker,
     taken, saved, floor, spans, healed >>

History == <<taken, saved, floor, spans, healed>>

Time == 1 .. MaxTime
None == [none |-> TRUE]
Unsampled == <<>>

Larger(a, b) == IF a >= b THEN a ELSE b
MonusDays(t, d) == Larger(t - d, 0)

\* The sum of a function of numbers, from the last.
Total(f) ==
  LET sum[S \in SUBSET DOMAIN f] == IF S = {} THEN 0 ELSE LET m == Max(S) IN f[m] + sum[S \ {m}]
  IN  sum[DOMAIN f]

Before(i, set) == {j \in set : j < i}

-----------------------------------------------------------------------------
(* Snapshots and increments.                                               *)

Count(snapshot, s) == IF s \in DOMAIN snapshot THEN snapshot[s] ELSE 0

\* A counter that came down means that all began anew.
InferredReset(previous, current, reset) ==
  /\ ~reset
  /\ \E s \in DOMAIN current \cap DOMAIN previous : current[s] < previous[s]

NormalizeNoReset(previous, current, reset) ==
  LET anew == InferredReset(previous, current, FALSE)
  IN  [s \in DOMAIN current |-> current[s] - (IF anew THEN 0 ELSE Count(previous, s))]

Normalize(previous, current, reset) ==
  LET anew == reset \/ InferredReset(previous, current, reset)
  IN  [s \in DOMAIN current |-> current[s] - (IF anew THEN 0 ELSE Count(previous, s))]

\* The point a record makes after the one before it, if there is one.
PointAfter(before, record) ==
  [ t |-> record.t,
    deltas |-> IF before = None THEN Normalize(Unsampled, record.state, FALSE)
               ELSE Normalize(before.state, record.state, before.boot # record.boot) ]

-----------------------------------------------------------------------------
(* The file.                                                               *)

\* The clock is not behind any record.
TimesOf(f) == {f.began[b] : b \in DOMAIN f.began} \cup {f.records[i].t : i \in DOMAIN f.records}

\* What the store takes over from a file it has replaced.
WriterOf(f) ==
  LET own == f.records[Max(Of(f, boot))] IN [state |-> [is |-> own.state], at |-> own.t]

\* The points of the records from the cutoff on; those before it still say
\* from where the first one counts.
PointsOf(f, cutoff) ==
  LET read == Readable(f)
      last(i) == IF Before(i, read) = {} THEN None ELSE f.records[Max(Before(i, read))]
  IN  [i \in {j \in read : f.records[j].t >= cutoff} |-> PointAfter(last(i), f.records[i])]

\* What was accepted, and when.
EventsOf(f) == [i \in Readable(f) |-> [t |-> f.records[i].t, full |-> f.records[i].full]]

-----------------------------------------------------------------------------
(* Queries.                                                                *)

Points == DOMAIN index.points

AvailableTo == IF Points = {} THEN 0 ELSE index.points[Max(Points)].t

\* A sample belongs to the window it ends in.
In(from, to) == {i \in Points : from < index.points[i].t /\ index.points[i].t <= to}

Delta(i, s) == Count(index.points[i].deltas, s)

Totals(from, to, s) == Total([i \in In(from, to) |-> Delta(i, s)])

Overlaps(gap, from, to) == gap.from < to /\ from < gap.to

Complete(from, to) ==
  /\ from < to /\ In(from, to) # {}
  /\ \A gap \in index.gaps : ~Overlaps(gap, from, to)

Bucket(t, from, to, budget) ==
  LET place == ((t - from) * budget) \div (to - from)
  IN  IF place < budget THEN place ELSE budget - 1

IntervalStartInvented(i, from) ==
  IF Before(i, Points) = {} THEN from ELSE Larger(index.points[Max(Before(i, Points))].t, from)

\* Nothing is known of the time before the first point.
IntervalStart(i, from) ==
  Larger(index.points[IF Before(i, Points) = {} THEN i ELSE Max(Before(i, Points))].t, from)

EffectiveFrom(from, to) ==
  LET first == Min(In(from, to))
      before == Before(first, Points)
  IN  IF before = {} THEN index.points[first].t ELSE Larger(from, index.points[Max(before)].t)

\* RollupPoint: what the points of one bucket come to.
Rollup(points, from) ==
  [ from |-> Min({IntervalStart(i, from) : i \in points}),
    to |-> Max({index.points[i].t : i \in points}),
    seconds |-> Total([i \in points |-> index.points[i].t - IntervalStart(i, from)]) ]

\* The buckets that have points.
Chart(from, to, budget) ==
  LET bucket == [i \in In(from, to) |-> Bucket(index.points[i].t, from, to, budget)]
  IN  [b \in Range(bucket) |-> Rollup({i \in DOMAIN bucket : bucket[i] = b}, from)]

\* What is counted since the last sample, against the registry as it is under
\* the index's lock.
TailOf(s) == Count(Normalize(index.last, live, index.lastBoot # boot), s)

-----------------------------------------------------------------------------
(* What was really counted.                                                *)

Sampled(b) == {i \in DOMAIN taken : taken[i].boot = b}

Increment(i, s) ==
  LET earlier == {j \in Sampled(taken[i].boot) : j < i}
  IN  Count(taken[i].state, s)
        - (IF earlier = {} THEN 0 ELSE Count(taken[Max(earlier)].state, s))

Counted(from, to, s) ==
  LET in == {i \in DOMAIN taken : from < taken[i].t /\ taken[i].t <= to}
  IN  Total([i \in in |-> Increment(i, s)])

\* By the last sample of each run before, and by this one now.
LastCount(b, s) ==
  LET samples == Sampled(b) IN IF samples = {} THEN 0 ELSE Count(taken[Max(samples)].state, s)

CountedSoFar(s) == Count(live, s) + Total([b \in 1 .. boot - 1 |-> LastCount(b, s)])

-----------------------------------------------------------------------------
(* The sampler's task and the registry.                                    *)

Idle == [at |-> "idle"]

EmptyFile == [records |-> <<>>, began |-> <<>>, torn |-> {}]

EmptyIndex ==
  [points |-> <<>>, revision |-> 0, last |-> Unsampled, lastBoot |-> 0, gaps |-> {}, events |-> <<>>]

\* A function of some of the elements of a set.
Partial(S, T) == UNION {[D -> T] : D \in SUBSET S}

Snapshot == Partial(Series, 1 .. MaxCount)

Gap == [from : Time, to : Time]

Record == [t : Time, boot : 1 .. Boots, state : Snapshot]

Line == [t : Time, boot : 1 .. Boots, state : Snapshot, full : BOOLEAN]

File == [records : Partial(1 .. Samples, Line), began : Partial(1 .. Boots, Time),
         torn : SUBSET (1 .. Boots)]

Point == [t : Time, deltas : Partial(Series, 0 .. MaxCount)]

Event == [t : Time, full : BOOLEAN]

Index == [points : Partial(1 .. Samples, Point), revision : Nat, last : Snapshot,
          lastBoot : 0 .. Boots, gaps : SUBSET Gap, events : Partial(1 .. Samples, Event)]

IndexTypeOK ==
  /\ up \in BOOLEAN /\ poisoned \in BOOLEAN /\ unended \in BOOLEAN
  /\ boot \in 0 .. Boots /\ days \in Retention
  /\ live \in Snapshot
  /\ sampler \in {Idle} \cup [at : {"rendered"}, snapshot : Snapshot]
                       \cup [at : {"indexed"}, n : {Len(taken)}, record : Record]
  /\ file \in File /\ index \in Index
  /\ DOMAIN file.records \subseteq 1 .. saved /\ DOMAIN file.began \subseteq 1 .. boot
  /\ file.torn \subseteq DOMAIN file.began
  /\ Points \subseteq DOMAIN taken /\ index.lastBoot <= boot
  /\ writer \in [state : {None} \cup [is : Snapshot], at : 0 .. MaxTime]
  /\ worker \in {Idle} \cup [at : {"started"}, revision : Nat]
                      \cup [at : {"replaced"}, revision : Nat, events : Partial(1 .. Samples, Event)]
  /\ taken \in Seq(Record) /\ saved \in 0 .. Len(taken) /\ Len(taken) <= Samples
  /\ floor \in 0 .. MaxTime /\ spans \subseteq Gap /\ healed \subseteq spans

NewWriter(now) == [state |-> None, at |-> now]

IndexInit ==
  /\ up = FALSE /\ boot = 0 /\ live = Unsampled /\ days \in Retention
  /\ sampler = Idle /\ file = EmptyFile /\ poisoned = FALSE /\ unended = FALSE
  /\ writer = NewWriter(0)
  /\ index = EmptyIndex /\ worker = Idle
  /\ taken = <<>> /\ saved = 0 /\ floor = 0 /\ spans = {} /\ healed = {}

\* The registry counts.
Observe(s) ==
  /\ up /\ Count(live, s) < MaxCount
  /\ live' = [r \in DOMAIN live \cup {s} |-> Count(live, r) + (IF r = s THEN 1 ELSE 0)]
  /\ UNCHANGED << up, boot, days, sampler, file, writer, poisoned, unended, index, worker, History >>

Render ==
  /\ up /\ sampler = Idle /\ Len(taken) < Samples
  /\ sampler' = [at |-> "rendered", snapshot |-> live]
  /\ UNCHANGED << up, boot, live, days, file, writer, poisoned, unended, index, worker, History >>

Cutoff(t, d) == IF d > 0 THEN MonusDays(t, d) ELSE 0

Pruned(points, cutoff) == [i \in {j \in DOMAIN points : points[j].t >= cutoff} |-> points[i]]

With(f, i, value) == [j \in DOMAIN f \cup {i} |-> IF j = i THEN value ELSE f[j]]

\* The clock may have moved back: a sample is never put before another.
Stamp(now) == Max({now, AvailableTo, writer.at})

IndexedUnnumbered(i, record, cutoff) ==
  LET before == IF index.lastBoot = 0 THEN None
                ELSE [state |-> index.last, boot |-> index.lastBoot]
  IN  [ index EXCEPT
          !.points = With(Pruned(@, cutoff), i, PointAfter(before, record)),
          !.last = record.state,
          !.lastBoot = boot,
          !.events = With(@, i, [t |-> record.t, full |-> TRUE]) ]

Indexed(i, record, cutoff) ==
  LET before == IF index.lastBoot = 0 THEN None
                ELSE [state |-> index.last, boot |-> index.lastBoot]
  IN  [ index EXCEPT
          !.points = With(Pruned(@, cutoff), i, PointAfter(before, record)),
          !.revision = @ + 1,
          !.last = record.state,
          !.lastBoot = boot,
          !.events = With(@, i, [t |-> record.t, full |-> TRUE]) ]

\* First the index, under its lock.
AppendToIndex(now) ==
  /\ sampler.at = "rendered"
  /\ LET t == Stamp(now)
         n == Len(taken) + 1
         record == [t |-> t, boot |-> boot, state |-> sampler.snapshot]
     IN  /\ index' = Indexed(n, record, Cutoff(t, days))
         /\ sampler' = [at |-> "indexed", n |-> n, record |-> record]
         /\ taken' = Append(taken, record)
         /\ floor' = Larger(floor, Cutoff(t, days))
  /\ UNCHANGED << up, boot, live, days, file, writer, poisoned, unended, worker, saved, spans, healed >>

\* The store writes a checkpoint when its last full sample has the same state.
Written(record) ==
  [ t |-> record.t, boot |-> boot, state |-> record.state,
    full |-> writer.state # [is |-> record.state] ]

\* Then the file, under its own.
AppendToFile ==
  /\ sampler.at = "indexed"
  /\ sampler' = Idle
  /\ IF poisoned THEN UNCHANGED <<file, writer, saved>>
     ELSE /\ file' = [file EXCEPT !.records = With(@, sampler.n, Written(sampler.record))]
          /\ writer' = [state |-> [is |-> sampler.record.state], at |-> sampler.record.t]
          /\ saved' = saved + 1
  /\ UNCHANGED << up, boot, live, days, poisoned, unended, index, worker, taken, floor, spans, healed >>

\* Nothing of the record is left, or a part, or all of it; or all but its newline,
\* without which the line is as bad as any part of it.
AppendFails ==
  /\ sampler.at = "indexed" /\ ~poisoned
  /\ sampler' = Idle /\ poisoned' = TRUE
  /\ \/ UNCHANGED <<file, saved, unended>>
     \/ file' = [file EXCEPT !.torn = @ \cup {boot}] /\ UNCHANGED <<saved, unended>>
     \/ /\ unended' \in BOOLEAN
        /\ file' = [file EXCEPT !.records = With(@, sampler.n, Written(sampler.record)),
                                !.torn = IF unended' THEN @ \cup {boot} ELSE @]
        /\ saved' = saved + 1
  /\ UNCHANGED << up, boot, live, days, writer, index, worker, taken, floor, spans, healed >>

-----------------------------------------------------------------------------
(* Start, crash, retention.                                                *)

ReplayedIndex(cutoff, gaps) ==
  LET read == Readable(file)
  IN  [ points |-> PointsOf(file, cutoff),
        revision |-> Cardinality(read),
        last |-> IF read = {} THEN Unsampled ELSE file.records[Max(read)].state,
        lastBoot |-> IF read = {} THEN 0 ELSE file.records[Max(read)].boot,
        gaps |-> gaps,
        events |-> EventsOf(file) ]

\* What the file says once a boot has begun.
Begun(now) == [file EXCEPT !.began = With(@, boot', now)]

\* The file is read as it was left; then a last line without its newline is
\* ended, and from now on is as good as any.
OpenHistory(now) ==
  /\ ~up /\ boot < Boots
  /\ \A t \in TimesOf(file) : t <= now
  /\ up' = TRUE /\ boot' = boot + 1 /\ live' = Unsampled
  /\ writer' = NewWriter(now)
  /\ file' = [Begun(now) EXCEPT !.torn = IF unended THEN @ \ {boot} ELSE @]
  /\ unended' = FALSE
  /\ LET gaps == {gap \in GapsOf(Begun(now)) : gap.to # Forever}
     IN  /\ index' = ReplayedIndex(Cutoff(now, days), gaps)
         /\ spans' = spans \cup gaps /\ healed' = gaps \ GapsOf(file')
  /\ floor' = Larger(floor, Cutoff(now, days))
  /\ UNCHANGED <<days, sampler, poisoned, worker, taken, saved>>

\* What was counted and not saved is gone.  A record that was being written may
\* be left in part.
Crash ==
  /\ up
  /\ \/ UNCHANGED file
     \/ /\ sampler.at = "indexed" /\ ~poisoned
        /\ file' = [file EXCEPT !.torn = @ \cup {boot}]
  /\ up' = FALSE /\ live' = Unsampled
  /\ sampler' = Idle /\ worker' = Idle /\ index' = EmptyIndex
  /\ writer' = NewWriter(0) /\ poisoned' = FALSE /\ healed' = {}
  /\ taken' = SubSeq(taken, 1, saved)
  /\ UNCHANGED <<boot, days, unended, saved, floor, spans>>

\* Visible points are pruned at once; nothing brings them back.
Reconfigure(d, now) ==
  /\ up /\ d # days
  /\ days' = d
  /\ LET kept == Pruned(index.points, Cutoff(now, d))
     IN  index' = [index EXCEPT !.points = kept,
                                !.revision = IF kept = index.points THEN @ ELSE @ + 1]
  /\ floor' = Larger(floor, Cutoff(now, d))
  /\ UNCHANGED << up, boot, live, sampler, file, writer, poisoned, unended, worker, taken, saved, spans,
                 healed >>

-----------------------------------------------------------------------------
(* Compaction.  The worker reads the revision, replaces the file under its *)
(* lock, and then installs what the new file says, unless the index moved. *)

StartWorker ==
  /\ up /\ days > 0 /\ floor > 0 /\ worker = Idle /\ index.revision < Revisions
  /\ worker' = [at |-> "started", revision |-> index.revision]
  /\ UNCHANGED << up, boot, live, days, sampler, file, writer, poisoned, unended, index, History >>

Compactable(cutoff) ==
  /\ writer.state # None
  /\ \A gap \in GapsOf(file) : gap.to <= cutoff

Replace(cutoff) ==
  /\ worker.at = "started" /\ days > 0 /\ cutoff <= floor /\ Compactable(cutoff)
  /\ file' = Retained(file, boot, cutoff) /\ writer' = WriterOf(file')
  /\ worker' = [at |-> "replaced", revision |-> worker.revision, events |-> EventsOf(file')]
  /\ UNCHANGED << up, boot, live, days, sampler, poisoned, unended, index, History >>

\* It is deferred, superseded, or fails before the rename.
GiveUp ==
  /\ worker.at = "started"
  /\ worker' = Idle
  /\ UNCHANGED << up, boot, live, days, sampler, file, writer, poisoned, unended, index, History >>

Install ==
  /\ worker.at = "replaced"
  /\ worker' = Idle
  /\ index' = IF index.revision # worker.revision THEN index
              ELSE [index EXCEPT !.gaps = {}, !.events = worker.events, !.revision = @ + 1]
  /\ UNCHANGED << up, boot, live, days, sampler, file, writer, poisoned, unended, History >>

-----------------------------------------------------------------------------

IndexNext ==
  \/ \E s \in Series : Observe(s)
  \/ Render \/ AppendToFile \/ AppendFails
  \/ \E now \in Time : AppendToIndex(now) \/ OpenHistory(now)
  \/ Crash
  \/ \E d \in Retention, now \in Time : Reconfigure(d, now)
  \/ StartWorker \/ GiveUp \/ Install
  \/ \E cutoff \in Time : Replace(cutoff)

IndexSpec == IndexInit /\ [][IndexNext]_indexVars

-----------------------------------------------------------------------------
(* Properties.                                                             *)

\* A window that is reported complete, and that retention has left alone, has
\* exactly the increments of the samples taken in it, over restarts, failed
\* appends and compactions: none twice, none lost.  The seconds in which an
\* unreadable boot began and ended are left out (see CompleteToTheSecond), and
\* the boot whose last line this start has ended (see CompleteWhenHealed).
AtAnEdge(from, to) == \E span \in spans : span.from = to \/ span.to = from + 1

Unread(from, to) == \E gap \in healed : Overlaps(gap, from, to)

TotalsExact ==
  \A from \in 0 .. MaxTime, to \in Time, s \in Series :
    up /\ Complete(from, to) /\ from + 1 >= floor /\ ~AtAnEdge(from, to) /\ ~Unread(from, to)
      => Totals(from, to, s) = Counted(from, to, s)

\* The page adds a range and the tail of the same revision, whichever it fetched
\* first: what it shows is never more than was counted.
Shown(s) == Totals(0, MaxTime, s)

NothingTwice ==
  [][ up /\ up' /\ index.revision = index'.revision =>
        \A s \in Series :
          /\ Shown(s) + (TailOf(s))' <= (CountedSoFar(s))'
          /\ (Shown(s))' + TailOf(s) <= CountedSoFar(s) ]_indexVars

\* The chart of a window is the window, whatever the number of buckets asked for:
\* each bucket stands for the time between its ends, begins where the one before
\* it ends, and together they last from the effective beginning to the effective
\* end: no time is counted twice, and none that was not observed.
Tiled(from, to, budget) ==
  LET chart == Chart(from, to, budget)
  IN  /\ \A b \in DOMAIN chart :
           /\ chart[b].seconds = chart[b].to - chart[b].from
           /\ \A c \in DOMAIN chart :
                (b < c /\ b + 1 .. c - 1 \cap DOMAIN chart = {}) => chart[b].to = chart[c].from
      /\ Total([b \in DOMAIN chart |-> chart[b].seconds])
           = index.points[Max(In(from, to))].t - EffectiveFrom(from, to)

Tiles ==
  \A from \in 0 .. MaxTime, to \in Time :
    In(from, to) # {} => \A budget \in {2, 3} : Tiled(from, to, budget)

-----------------------------------------------------------------------------
(* What the documents say and the code does not do.                        *)

\* "A window is complete only when [...] no recovery gap overlaps the requested
\* interval", and a sample belongs to the window it ends in.
CompleteToTheSecond ==
  \A from \in 0 .. MaxTime, to \in Time, s \in Series :
    up /\ Complete(from, to) /\ from + 1 >= floor
      => Totals(from, to, s) = Counted(from, to, s)

\* "This rule prevents validated-row rewriting from erasing evidence that still
\* makes a retained query incomplete."
CompleteWhenHealed ==
  \A from \in 0 .. MaxTime, to \in Time, s \in Series :
    up /\ Complete(from, to) /\ from + 1 >= floor /\ ~AtAnEdge(from, to)
      => Totals(from, to, s) = Counted(from, to, s)

\* A replay is installed "without overwriting newer append diagnostics or
\* events".
EventsKept ==
  \A to \in Time :
    up /\ ~poisoned =>
      Cardinality(In(0, to)) <= Cardinality({i \in DOMAIN index.events : index.events[i].t <= to})

\* "valid_samples and valid_checkpoints count accepted record kinds".
KindsCounted ==
  up /\ sampler = Idle =>
    \A i \in DOMAIN file.records :
      ~file.records[i].full => \E j \in DOMAIN index.events : ~index.events[j].full
=============================================================================
