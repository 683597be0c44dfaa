\* What the documents say of the history and the code does not do: TLC refutes the
\* invariant that is not commented out; uncomment another in its place.
\* CompleteToTheSecond: a boot, an unreadable one and the next within one second;
\* the gap between them is empty and hides what the unreadable one took away.
\* EventsKept: a replay is installed over the event of an append that has indexed
\* its sample and not yet written it.
\* CompleteWhenHealed: a start ends the line it has just reported as a gap, and the
\* next compaction drops the gap without reading what it hid.
\* KindsCounted: a checkpoint the store has written is counted as a sample.
SPECIFICATION IndexSpec
CONSTANTS
  requests = requests
  Series = {requests}
  Retention = {0, 1}
  MaxTime = 3
  MaxCount = 2
  Boots = 2
  Samples = 3
  Revisions = 3
INVARIANT CompleteToTheSecond
\* INVARIANT EventsKept
\* INVARIANT CompleteWhenHealed
\* INVARIANT KindsCounted

CHECK_DEADLOCK FALSE
