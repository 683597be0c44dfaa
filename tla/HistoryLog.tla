----------------------------- MODULE HistoryLog -----------------------------
(***************************************************************************)
(* The canonical metrics history: an append-only file of boot, sample and  *)
(* checkpoint records, what a start reads out of it, and its compaction.   *)
(* When a compaction is asked for, and with which cutoff, is in Compaction.*)
(*                                                                         *)
(* The file is a function from positions to lines.  A line torn by a       *)
(* failed write does not parse; one that only lacks its newline (ended is  *)
(* false) is as bad until a later start ends it.  A power loss leaves some *)
(* of what was not synced, and a renamed file whose directory is not       *)
(* synced may turn out to be the old one.                                  *)
(***************************************************************************)
EXTENDS Integers, FiniteSets, Functions

CONSTANTS
  State,      \* the metric states a sample may hold
  Unknown,    \* no state
  MaxTime,    \* bound: the seconds the clock may show are 0 .. MaxTime
  Boots,      \* bound: starts of the program
  MaxLine     \* bound: positions of the file are 0 .. MaxLine

ASSUME HistoryLogAssumption ==
  /\ Unknown \notin State
  /\ MaxTime \in Nat /\ Boots \in Nat /\ MaxLine \in Nat

VARIABLES
  lines,      \* the file, empty when there is none
  loose,      \* the lines from this position on may not be on the disk
  stale,      \* the files the name may lead to after a power loss
  up,         \* the store is open
  boots,      \* the starts so far; the last is the boot id
  lastState,  \* the state of the last sample of this boot
  lastAt,     \* the time of the last record
  poisoned,   \* an append failed, the file takes no more
  owed        \* observations acknowledged, later than the last cutoff

logVars == <<lines, loose, stale, up, boots, lastState, lastAt, poisoned, owed>>

Memory == <<up, lastState, lastAt, poisoned>>

Time == 0 .. MaxTime
Forever == MaxTime + 1
Pos == 0 .. MaxLine
Kind == {"boot", "sample", "checkpoint", "torn"}

Line ==
  [ kind : Kind, boot : 1 .. Boots, at : Time, state : State \cup {Unknown}, ended : BOOLEAN ]

Observation == [at : Time, boot : 1 .. Boots, state : State \cup {Unknown}]

IsFile(L) == DOMAIN L \subseteq Pos /\ \A i \in DOMAIN L : L[i] \in Line

LogTypeOK ==
  /\ IsFile(lines) /\ \A L \in stale : IsFile(L)
  /\ loose \in 0 .. MaxLine + 1
  /\ up \in BOOLEAN /\ poisoned \in BOOLEAN
  /\ boots \in 0 .. Boots
  /\ lastState \in State \cup {Unknown}
  /\ lastAt \in Time
  /\ owed \subseteq Observation

-----------------------------------------------------------------------------
(* What a start reads.                                                     *)

Latest(set) == CHOOSE i \in set : \A j \in set : j <= i
Last(L) == Latest(DOMAIN L)
End(L) == IF DOMAIN L = {} THEN 0 ELSE Last(L) + 1

\* No record before it is of a later time.
InOrder(L, i) == \A j \in DOMAIN L : j < i /\ L[j].kind # "torn" => L[j].at <= L[i].at

Good(L, i) == L[i].kind # "torn" /\ L[i].ended /\ InOrder(L, i)

BootLines(L) == {i \in DOMAIN L : L[i].kind = "boot" /\ Good(L, i)}

\* A boot record and the lines up to the next one.
Epoch(L, b) == {i \in DOMAIN L : b <= i /\ \A c \in BootLines(L) : c <= b \/ i < c}

\* One bad line, one of another boot, or no sample to begin with, and nothing
\* of the epoch is read.
Usable(L, b) ==
  /\ \A i \in Epoch(L, b) : Good(L, i) /\ L[i].boot = L[b].boot
  /\ \E i \in Epoch(L, b) \ {b} :
       L[i].kind = "sample" /\ \A j \in Epoch(L, b) \ {b} : i <= j

UsableBoots(L) == {b \in BootLines(L) : Usable(L, b)}

\* The lines whose records are replayed.
Replay(L) == UNION {Epoch(L, b) : b \in UsableBoots(L)}

\* An epoch that is not read leaves a gap up to the next boot, if there is one.
GapEnds(L, b) ==
  LET later == {L[c].at : c \in {d \in BootLines(L) : b < d}}
  IN  IF later = {} THEN Forever ELSE CHOOSE t \in later : \A s \in later : t <= s

Gaps(L) ==
  {[from |-> L[b].at, to |-> GapEnds(L, b)] : b \in BootLines(L) \ UsableBoots(L)}

\* What the replayed lines say of the metrics; a checkpoint repeats the sample
\* before it.
StateAt(L, i) == L[Latest({j \in DOMAIN L : j <= i /\ L[j].kind = "sample"})].state

Observations(L) ==
  { [at |-> L[i].at, boot |-> L[i].boot, state |-> StateAt(L, i)] :
      i \in {j \in Replay(L) : L[j].kind # "boot"} }

-----------------------------------------------------------------------------
(* What a compaction retains.                                              *)

BaselineFirst(L, b, cutoff) ==
  { i \in Epoch(L, b) :
      /\ L[i].kind = "sample" /\ L[i].at < cutoff
      /\ \A j \in Epoch(L, b) : L[j].kind = "sample" /\ L[j].at < cutoff => i <= j }

\* The last sample before the cutoff.
Baseline(L, b, cutoff) ==
  { i \in Epoch(L, b) :
      /\ L[i].kind = "sample" /\ L[i].at < cutoff
      /\ \A j \in Epoch(L, b) : L[j].kind = "sample" /\ L[j].at < cutoff => j <= i }

RetainedOf(L, b, cutoff) ==
  {b} \cup Baseline(L, b, cutoff) \cup {i \in Epoch(L, b) : L[i].at >= cutoff}

RetainedBootsSince(L, cutoff, live) ==
  {b \in UsableBoots(L) : \E i \in Epoch(L, b) : L[i].at >= cutoff}

\* The epochs of the boot that runs, and those with a record of the window.
RetainedBoots(L, cutoff, live) ==
  { b \in UsableBoots(L) :
      L[b].boot = live \/ \E i \in Epoch(L, b) : L[i].at >= cutoff }

Retained(L, cutoff, live) ==
  UNION {RetainedOf(L, b, cutoff) : b \in RetainedBoots(L, cutoff, live)}

Kept(L, cutoff, live) == Restrict(L, Retained(L, cutoff, live))

-----------------------------------------------------------------------------
(* The file by what is in it.                                              *)

File == INSTANCE HistoryFile

\* The records that stand in the epoch of their own boot.
Own(L, b) ==
  { i \in Epoch(L, b) :
      L[i].kind \in {"sample", "checkpoint"} /\ Good(L, i) /\ L[i].boot = L[b].boot }

AsRead(L) ==
  [ records |->
      [ i \in UNION {Own(L, b) : b \in BootLines(L)} |->
          [ t |-> L[i].at, boot |-> L[i].boot, state |-> StateAt(L, i),
            full |-> L[i].kind = "sample" ] ],
    began |->
      [ id \in {L[b].boot : b \in BootLines(L)} |->
          L[CHOOSE b \in BootLines(L) : L[b].boot = id].at ],
    torn |->
      { L[b].boot : b \in {c \in BootLines(L) :
          \E i \in Epoch(L, c) : ~ Good(L, i) \/ L[i].boot # L[c].boot} } ]

-----------------------------------------------------------------------------
(* Writing.                                                                *)

Record(kind, at, state) ==
  [kind |-> kind, boot |-> boots', at |-> at, state |-> state, ended |-> TRUE]

With(L, line) == [i \in DOMAIN L \cup {End(L)} |-> IF i = End(L) THEN line ELSE L[i]]

Torn(line) == [line EXCEPT !.kind = "torn", !.state = Unknown, !.ended = FALSE]
Unended(line) == [line EXCEPT !.ended = FALSE]

\* The delimiter that ends what a failed write left.
Separated(L) == [i \in DOMAIN L |-> [L[i] EXCEPT !.ended = TRUE]]
AllEnded(L) == \A i \in DOMAIN L : L[i].ended

\* What an append that fails, at the write or at the sync, may leave.
Pieces(L, line) == {L, With(L, Torn(line)), With(L, Unended(line)), With(L, line)}

\* What a power loss may leave of a file synced up to a position.
Cut(L, from) ==
  UNION { LET head == Restrict(L, {i \in DOMAIN L : i < n})
          IN  {head, With(head, Torn(L[n])), With(head, Unended(L[n]))} :
            n \in {i \in DOMAIN L : from <= i} }

LogInit ==
  /\ lines = <<>> /\ loose = 0 /\ stale = {}
  /\ up = FALSE /\ boots = 0
  /\ lastState = Unknown /\ lastAt = 0 /\ poisoned = FALSE
  /\ owed = {}

Opened(at) ==
  /\ up' = TRUE /\ lastState' = Unknown /\ lastAt' = at /\ poisoned' = FALSE

Boot == ~up /\ boots < Boots /\ boots' = boots + 1

\* publish_first_boot: the file is prepared under another name, and the name is
\* linked; then the directory is synced, or the start fails.
Publish(at, synced) ==
  /\ lines' = With(lines, Record("boot", at, Unknown))
  /\ loose' = End(lines')
  /\ stale' = IF synced THEN {} ELSE {lines}

OpenFirst(at) ==
  /\ Boot /\ DOMAIN lines = {}
  /\ \/ Publish(at, TRUE) /\ Opened(at)
     \/ Publish(at, FALSE) /\ UNCHANGED Memory
  /\ UNCHANGED owed

\* The clock is not behind any record that parses.
NotBehind(L, at) == \A i \in DOMAIN L : L[i].kind # "torn" => L[i].at <= at

Open(at) ==
  /\ Boot /\ DOMAIN lines # {} /\ NotBehind(lines, at) /\ End(lines) <= MaxLine
  /\ lines' = With(Separated(lines), Record("boot", at, Unknown))
  /\ loose' = End(lines')
  /\ Opened(at)
  /\ UNCHANGED <<stale, owed>>

\* The delimiter or the boot record could not be written or synced.
OpenFails(at) ==
  /\ Boot /\ DOMAIN lines # {} /\ NotBehind(lines, at) /\ End(lines) <= MaxLine
  /\ lines' \in Pieces(Separated(lines), Record("boot", at, Unknown))
  /\ loose' = IF AllEnded(lines) THEN loose ELSE Last(lines)
  /\ UNCHANGED <<stale, Memory, owed>>

-----------------------------------------------------------------------------
(* Sampling.                                                               *)

\* A state that has not changed is a checkpoint.
Sampled(at, state) ==
  IF state = lastState THEN Record("checkpoint", at, Unknown) ELSE Record("sample", at, state)

Append(at, state) ==
  /\ up /\ ~poisoned /\ lastAt <= at /\ End(lines) <= MaxLine
  /\ UNCHANGED boots
  /\ lines' = With(lines, Sampled(at, state))
  /\ loose' = End(lines')
  /\ lastAt' = at /\ lastState' = state
  /\ owed' = owed \cup {[at |-> at, boot |-> boots, state |-> state]}
  /\ UNCHANGED <<stale, up, poisoned>>

AppendFailsUnnoticed(at, state) ==
  /\ up /\ ~poisoned /\ lastAt <= at /\ End(lines) <= MaxLine
  /\ UNCHANGED boots
  /\ lines' \in Pieces(lines, Sampled(at, state))
  /\ UNCHANGED <<loose, stale, Memory, owed>>

AppendFails(at, state) ==
  /\ up /\ ~poisoned /\ lastAt <= at /\ End(lines) <= MaxLine
  /\ UNCHANGED boots
  /\ lines' \in Pieces(lines, Sampled(at, state))
  /\ poisoned' = TRUE
  /\ UNCHANGED <<loose, stale, up, lastState, lastAt, owed>>

-----------------------------------------------------------------------------
(* Compaction.  An error before the rename, or another setting, leaves all *)
(* as it is.                                                               *)

\* Not over a gap that is not behind the cutoff, nor before the first sample.
Compactable(cutoff) ==
  /\ up /\ lastState # Unknown
  /\ \A gap \in Gaps(lines) : gap.to <= cutoff

\* The memory of the writer follows from what is left.
LastState(L, boot) ==
  LET samples == {i \in DOMAIN L : L[i].kind = "sample" /\ L[i].boot = boot}
  IN  IF samples = {} THEN Unknown ELSE L[Latest(samples)].state

LastAt(L) == IF DOMAIN L = {} THEN 0 ELSE L[Last(L)].at

CompactLog(cutoff) ==
  /\ Compactable(cutoff)
  /\ lines' = Kept(lines, cutoff, boots)
  /\ loose' = End(lines')
  /\ lastState' = LastState(lines', boots)
  /\ lastAt' = LastAt(lines')
  /\ \/ stale' = {}
     \/ stale = {} /\ stale' = {lines}
  /\ owed' = {o \in owed : o.at > cutoff}
  /\ UNCHANGED <<up, boots, poisoned>>

-----------------------------------------------------------------------------
(* Crashes.                                                                *)

WriteBack ==
  /\ stale # {}
  /\ stale' = {}
  /\ UNCHANGED <<lines, loose, Memory, boots, owed>>

Stopped == up' = FALSE /\ lastState' = Unknown /\ lastAt' = 0 /\ poisoned' = FALSE

Crash ==
  /\ up /\ Stopped
  /\ UNCHANGED <<lines, loose, stale, boots, owed>>

\* Of what was not synced some is left.
PowerLoss ==
  /\ up
  /\ Stopped
  /\ lines' \in {lines} \cup Cut(lines, loose)
  /\ loose' = End(lines')
  /\ stale' = {}
  /\ UNCHANGED <<boots, owed>>

\* Without the directory's sync, what was acknowledged since is lost with it.
OldFile ==
  /\ up
  /\ Stopped
  /\ lines' \in stale
  /\ loose' = End(lines')
  /\ stale' = {}
  /\ owed' = owed \cap Observations(lines')
  /\ UNCHANGED boots

-----------------------------------------------------------------------------

LogNext ==
  \/ \E at \in Time : OpenFirst(at) \/ Open(at) \/ OpenFails(at)
  \/ \E at \in Time, state \in State : Append(at, state) \/ AppendFails(at, state)
  \/ \E cutoff \in Time : CompactLog(cutoff)
  \/ WriteBack \/ Crash \/ PowerLoss \/ OldFile

LogSpec == LogInit /\ [][LogNext]_logVars

-----------------------------------------------------------------------------
(* Properties.                                                             *)

\* Whatever fails, an observation append_sample has acknowledged is read by the
\* next start, in the state it was made in, or lies within a gap that start
\* reports.
Acknowledged ==
  \A o \in owed :
    \/ o \in Observations(lines)
    \/ \E gap \in Gaps(lines) : gap.from <= o.at /\ o.at <= gap.to

\* A file that is there begins with a whole boot record: no failure leaves one
\* a start would refuse, and compaction never empties it.
Reopenable ==
  up \/ DOMAIN lines # {} => \E b \in BootLines(lines) : \A i \in DOMAIN lines : b <= i

Since(L, cutoff) == {o \in Observations(L) : o.at >= cutoff}

\* The check compaction makes of its replacement cannot fail, since all that is
\* retained is replayed without a gap; and from the cutoff on the replacement
\* reads as the file did, each observation in its state.
Transparent ==
  \A cutoff \in Time :
    Compactable(cutoff) =>
      LET kept == Kept(lines, cutoff, boots)
      IN  /\ Replay(kept) = DOMAIN kept /\ Gaps(kept) = {}
          /\ Since(kept, cutoff) = Since(lines, cutoff)

\* What HistoryIndex takes the file for is what its lines say: the records that
\* are read, the gaps, and what a compaction leaves of both.
IndexReadsFile ==
  LET f == AsRead(lines)
  IN  /\ File!Readable(f) = {i \in Replay(lines) : lines[i].kind # "boot"}
      /\ File!GapsOf(f) = Gaps(lines)
      /\ \A cutoff \in Time :
           Compactable(cutoff) =>
             AsRead(Kept(lines, cutoff, boots)) = File!Retained(f, boots, cutoff)
=============================================================================
