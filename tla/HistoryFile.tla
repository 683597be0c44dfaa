----------------------------- MODULE HistoryFile ----------------------------
(***************************************************************************)
(* The file of the metrics history by what is in it, not by its lines: the *)
(* records under their numbers, of which only the order is used, when each *)
(* boot began, and the boots in whose epoch a line is bad.  HistoryIndex   *)
(* is built on it; HistoryLog shows that its lines say exactly this.       *)
(***************************************************************************)
EXTENDS Integers, FiniteSetsExt

CONSTANT MaxTime   \* bound: the clock shows no later second

Forever == MaxTime + 1

\* A record is a sample, full or a checkpoint that repeats the state before.
Of(f, b) == {i \in DOMAIN f.records : f.records[i].boot = b}

Usable(f, b) == b \notin f.torn /\ Of(f, b) # {}

Readable(f) == {i \in DOMAIN f.records : Usable(f, f.records[i].boot)}

NextBegin(f, b) ==
  Min({f.began[c] : c \in {d \in DOMAIN f.began : b < d}} \cup {Forever})

\* A boot that cannot be read leaves a gap up to the next.
GapsOf(f) ==
  { [from |-> f.began[b], to |-> NextBegin(f, b)] :
      b \in {c \in DOMAIN f.began : ~Usable(f, c)} }

Stays(f, own, b, cutoff) ==
  b = own \/ f.began[b] >= cutoff \/ \E i \in Of(f, b) : f.records[i].t >= cutoff

IsBaselineAny(f, i, cutoff) ==
  LET old == {j \in Of(f, f.records[i].boot) : f.records[j].t < cutoff}
  IN  i \in old /\ \A j \in old : j <= i

\* The last full sample of its boot before the cutoff, whatever came after it.
IsBaseline(f, i, cutoff) ==
  LET old == {j \in Of(f, f.records[i].boot) : f.records[j].full /\ f.records[j].t < cutoff}
  IN  i \in old /\ \A j \in old : j <= i

Rest(f, boots, kept) ==
  [ records |-> [i \in kept |-> f.records[i]],
    began |-> [b \in boots |-> f.began[b]],
    torn |-> {} ]

\* What a compaction leaves in the file.
Retained(f, own, cutoff) ==
  LET boots == {b \in DOMAIN f.began : Usable(f, b) /\ Stays(f, own, b, cutoff)}
      kept == {i \in DOMAIN f.records :
                 /\ f.records[i].boot \in boots
                 /\ f.records[i].t >= cutoff \/ IsBaseline(f, i, cutoff)}
  IN  Rest(f, boots, kept)
=============================================================================
