---------------------------- MODULE StreamProofs ----------------------------
(***************************************************************************)
(* What is recorded of a request, for any lanes, limits and deadlines,     *)
(* whatever the upstream and the client do; and what the observer of its   *)
(* stream makes of it, for any bytes in any fragments and any bounds: the  *)
(* memory it takes, the merging of what the stream told, and the honesty   *)
(* of its report.                                                          *)
(***************************************************************************)
EXTENDS Exchange, Observation, FiniteSetTheorems, TLAPS

-----------------------------------------------------------------------------
(* The inductive invariant.                                                *)

Working ==
  { "greet", "permit", "queue", "send", "headers", "sniff", "detail", "retrying", "relay",
    "pipe", "push" }

\* Until its stream is piped a request has no observer; the one it then has is
\* open until the request has been accounted for, which happens once.
Accounted ==
  /\ pc \in Working => recorded = (IF pc = "relay" THEN 1 ELSE 0)
  /\ pc \in Working \ {"pipe", "push"} => observer = "none" /\ observed = 0
  /\ pc \in {"pipe", "push"} => observer = "open" /\ observed = 0
  /\ pc = "notice" => recorded = 1 /\ observer # "open"
  /\ pc \in {"notice", "out"} => observer # "open" /\ recorded \in 0 .. 2
  /\ pc = "notice" \/ (pc = "out" /\ Stream) =>
       observed = (IF observer = "none" THEN 0 ELSE 1)
  /\ pc = "out" /\ ~Stream => observed \in 0 .. 1

\* Who stands where: a stream or not, with a lane in hand or not.
Placed ==
  /\ pc \in {"send", "headers", "sniff", "detail", "relay", "pipe", "push"} => lane \in Lane
  /\ pc \in {"greet", "retrying", "headers", "detail", "pipe", "push", "notice"} => Stream
  /\ pc = "relay" => ~Stream

IInv == TypeOK /\ Accounted /\ Placed

-----------------------------------------------------------------------------
(* Steps.                                                                  *)

\* The larger of two numbers.
LEMMA LargerNat ==
  /\ \A a, b \in Nat : Larger(a, b) \in Nat /\ a =< Larger(a, b) /\ b =< Larger(a, b)
  /\ \A a \in Nat : Larger(a - 1, 0) \in Nat
  /\ \A a \in -1 .. MaxWait : Larger(a - 1, -1) \in -1 .. MaxWait
  BY ExchangeAssumption DEF Larger

\* An attempt begins with no ticks spent.
LEMMA NoneSpent == 0 \in 0 .. Larger(Attempt, StreamIdle)
  BY LargerNat, ExchangeAssumption

\* A retry lets go of the lane and keeps its cooldown a number.
LEMMA AgainTyped ==
  ASSUME IInv, lane \in Lane, NEW backoff \in Nat, cool' = [cool EXCEPT ![lane] = Larger(@, backoff)]
  PROVE  cool' \in [Lane -> Nat]
<1>1. cool \in [Lane -> Nat]
  BY DEF IInv, TypeOK
<1>2. Larger(cool[lane], backoff) \in Nat
  BY <1>1, LargerNat
<1> QED
  BY <1>1, <1>2

\* What the steps leave of the types.
LEMMA Preserved ==
  ASSUME IInv, UNCHANGED Fixed,
         pc' \in Working \cup {"out", "notice"},
         cool' \in [Lane -> Nat], lane' \in Lane \cup {None}, spent' \in {spent, 0},
         fallback' \in BOOLEAN, noInject' \in BOOLEAN, UNCHANGED client,
         observer' \in {"none", "open", "taken"}, observed' \in 0 .. 2, recorded' \in 0 .. 2
  PROVE  TypeOK'
<1>1. spent' \in 0 .. Larger(Attempt, StreamIdle)
  BY NoneSpent DEF IInv, TypeOK
<1>2. /\ kind' \in {"buffered", "stream"} /\ wait' \in -1 .. MaxWait
      /\ deadline' \in Nat \cup {None} /\ client' \in {"reads", "stuck", "left"}
  BY DEF IInv, TypeOK, Fixed
<1> QED
  BY <1>1, <1>2, Zenon DEF TypeOK, Working

\* The steps up to a lane preserve it.
LEMMA ArriveStep == IInv /\ Arrive => IInv'
<1> SUFFICES ASSUME IInv, Arrive PROVE IInv'
  OBVIOUS
<1>1. fallback' \in BOOLEAN /\ noInject' \in BOOLEAN
  BY Zenon DEF IInv, TypeOK, Arrive
<1>2. wait' \in -1 .. MaxWait /\ deadline' \in Nat \cup {None}
  BY ExchangeAssumption DEF Arrive
<1>3. /\ kind' \in {"buffered", "stream"}
      /\ pc' \in {"greet", "permit"} /\ (pc' = "greet" => kind' = "stream")
      /\ client' = "reads" /\ observer' = "none" /\ observed' = 0 /\ recorded' = 0
      /\ UNCHANGED <<cool, lane, spent>>
  BY DEF Arrive
<1>4. TypeOK'
  BY <1>1, <1>2, <1>3 DEF IInv, TypeOK
<1>5. Accounted' /\ Placed'
  BY <1>3 DEF Accounted, Placed, Working, Stream
<1> QED
  BY <1>4, <1>5 DEF IInv

\* Before the answer: admission, the slot, the attempt and its retries.
LEMMA AdmissionStep ==
  ASSUME IInv, \/ Greet \/ Admit \/ TimedOut \/ (\E l \in Lane : Grant(l)) \/ Retrying \/ Notice
  PROVE  IInv'
<1>1. /\ UNCHANGED <<Fixed, cool, noInject, client, observer, observed>>
      /\ pc' \in Working \cup {"out", "notice"} /\ lane' \in Lane \cup {None}
      /\ spent' \in {spent, 0}
  BY DEF Greet, Admit, TimedOut, Grant, Retrying, Notice, End, Working, Record, IInv, TypeOK
<1>2. fallback' \in BOOLEAN
  <2>1. fallback \in BOOLEAN
    BY DEF IInv, TypeOK
  <2> QED
    BY <2>1, Zenon DEF Greet, Admit, TimedOut, Grant, Retrying, Notice
<1>3. Accounted' /\ Placed' /\ recorded' \in 0 .. 2
  <2>1. CASE Greet \/ Retrying
    BY <2>1 DEF Greet, Retrying, IInv, TypeOK, Accounted, Placed, Working, Recorded, End, Fixed, Stream
  <2>2. CASE Admit
    BY <2>2 DEF Admit, IInv, TypeOK, Accounted, Placed, Working, Fixed, Record, Stream
  <2>3. CASE TimedOut
    BY <2>3 DEF TimedOut, IInv, TypeOK, Accounted, Placed, Working, Fixed, Recorded, Stream
  <2>4. CASE \E l \in Lane : Grant(l)
    BY <2>4 DEF Grant, IInv, TypeOK, Accounted, Placed, Working, Fixed, Record, Stream
  <2>5. CASE Notice
    BY <2>5 DEF Notice, IInv, TypeOK, Accounted, Placed, Working, Fixed, Record, End, Stream
  <2> QED
    BY <2>1, <2>2, <2>3, <2>4, <2>5
<1>4. TypeOK'
  BY <1>1, <1>2, <1>3, Preserved DEF IInv, TypeOK
<1> QED
  BY <1>3, <1>4 DEF IInv

\* So do those of an attempt on a lane.
LEMMA AttemptStep ==
  ASSUME IInv, ConnectFails \/ Connected \/ Rejects \/ Retryable \/ Sniffed \/ Fails
  PROVE  IInv'
<1>1. /\ UNCHANGED <<Fixed, client, observer, observed>>
      /\ pc' \in Working \cup {"notice"} /\ lane' \in Lane \cup {None}
      /\ spent' \in {spent, 0}
  BY DEF ConnectFails, Connected, Rejects, Retryable, Sniffed, Fails, Again, Working, Record,
         IInv, TypeOK
<1>2. fallback' \in BOOLEAN /\ noInject' \in BOOLEAN
  BY DEF IInv, TypeOK, ConnectFails, Connected, Rejects, Retryable, Sniffed, Fails
<1>3. cool' \in [Lane -> Nat]
  <2>1. CASE ConnectFails \/ Rejects
    <3>1. lane \in Lane /\ \E backoff \in {0, Cooldown} : cool' = [cool EXCEPT ![lane] = Larger(@, backoff)]
      BY <2>1 DEF ConnectFails, Rejects, Again, Answered, IInv, Placed
    <3> QED
      BY <3>1, AgainTyped, ExchangeAssumption
  <2>2. CASE Sniffed
    <3>1. lane \in Lane /\ \E backoff \in {0} \cup RetryAfter :
            cool' = [cool EXCEPT ![lane] = Larger(@, backoff)]
      BY <2>2 DEF Sniffed, Again, IInv, Placed
    <3> QED
      BY <3>1, AgainTyped, ExchangeAssumption
  <2>3. CASE Connected \/ Retryable \/ Fails
    BY <2>3 DEF Connected, Retryable, Fails, IInv, TypeOK
  <2> QED
    BY <2>1, <2>2, <2>3
<1>4. Accounted' /\ Placed' /\ recorded' \in 0 .. 2
  <2>1. CASE ConnectFails
    BY <2>1 DEF ConnectFails, Again, IInv, TypeOK, Accounted, Placed, Working, Fixed, Record, Stream
  <2>2. CASE Connected
    BY <2>2 DEF Connected, IInv, TypeOK, Accounted, Placed, Working, Fixed, Record, Stream
  <2>3. CASE Rejects
    BY <2>3 DEF Rejects, Answered, Again, IInv, TypeOK, Accounted, Placed, Working, Fixed, Record, Stream
  <2>4. CASE Retryable
    BY <2>4 DEF Retryable, Answered, IInv, TypeOK, Accounted, Placed, Working, Fixed, Record, Stream
  <2>5. CASE Sniffed
    BY <2>5 DEF Sniffed, Again, IInv, TypeOK, Accounted, Placed, Working, Fixed, Record, Stream
  <2>6. CASE Fails
    BY <2>6 DEF Fails, IInv, TypeOK, Accounted, Placed, Working, Fixed, Recorded, Stream
  <2> QED
    BY <2>1, <2>2, <2>3, <2>4, <2>5, <2>6
<1>5. TypeOK'
  BY <1>1, <1>2, <1>3, <1>4, Preserved DEF IInv, TypeOK
<1> QED
  BY <1>4, <1>5 DEF IInv

\* Whoever takes the observer accounts for it.
LEMMA FinalizedOnce ==
  ASSUME IInv, Live, Finalized
  PROVE  /\ observer' \in {"none", "taken"}
         /\ Stream => observed' = (IF observer' = "none" THEN 0 ELSE 1)
         /\ ~Stream => observed' \in 0 .. 1
  BY DEF IInv, TypeOK, Accounted, Placed, Working, Live, Finalized, Stream

\* So do those of an answer that is passed on.
LEMMA AnswerStep ==
  ASSUME IInv, Respond \/ Relay \/ Pipe \/ Chunk \/ Disconnect \/ BreakOff \/ Completed \/ Deadline
  PROVE  IInv'
<1>1. /\ UNCHANGED <<Fixed, cool, fallback, noInject, client>>
      /\ pc' \in Working \cup {"out", "notice"} /\ lane' \in Lane \cup {None}
      /\ spent' \in {spent, 0}
  BY DEF Respond, Relay, Pipe, Chunk, Disconnect, BreakOff, Completed, Deadline, End, Working,
         Record, IInv, TypeOK
<1>2. /\ Accounted' /\ Placed'
      /\ observer' \in {"none", "open", "taken"} /\ observed' \in 0 .. 2 /\ recorded' \in 0 .. 2
  <2>1. CASE Respond
    BY <2>1 DEF Respond, IInv, TypeOK, Accounted, Placed, Working, Fixed, Recorded, Stream
  <2>2. CASE Relay
    BY <2>2 DEF Relay, IInv, TypeOK, Accounted, Placed, Working, Fixed, End, Stream
  <2>3. CASE Pipe
    BY <2>3 DEF Pipe, IInv, TypeOK, Accounted, Placed, Working, Fixed, Stream
  <2>4. CASE Chunk
    BY <2>4 DEF Chunk, IInv, TypeOK, Accounted, Placed, Working, Fixed, Record, Stream
  <2>5. CASE BreakOff
    BY <2>5, FinalizedOnce DEF BreakOff, IInv, TypeOK, Accounted, Placed, Working, Fixed, Recorded, Stream, Live
  <2>6. CASE Disconnect \/ Completed \/ Deadline
    <3>1. /\ Live /\ Finalized /\ Recorded /\ pc' = "out" /\ lane' = None /\ UNCHANGED Fixed
      BY <2>6 DEF Disconnect, Completed, Deadline, End, Live
    <3>2. recorded \in 0 .. 1
      BY <3>1 DEF IInv, TypeOK, Accounted, Working, Live
    <3>3. /\ observer' \in {"none", "taken"} /\ kind' = kind
          /\ Stream => observed' = (IF observer' = "none" THEN 0 ELSE 1)
          /\ ~Stream => observed' \in 0 .. 1
      BY <3>1, FinalizedOnce DEF Fixed
    <3>4. recorded' \in 0 .. 2
      BY <3>1, <3>2 DEF Recorded
    <3>5. observed' \in 0 .. 2
      BY <3>3
    <3> QED
      BY <3>1, <3>3, <3>4, <3>5 DEF Accounted, Placed, Working, Stream
  <2> QED
    BY <2>1, <2>2, <2>3, <2>4, <2>5, <2>6
<1>3. TypeOK'
  BY <1>1, <1>2, Preserved DEF IInv, TypeOK
<1> QED
  BY <1>2, <1>3 DEF IInv

\* So do the clock and the client.
LEMMA EnvironmentStep ==
  ASSUME IInv, Client \/ Tick \/ UNCHANGED vars
  PROVE  IInv'
<1>1. UNCHANGED <<pc, kind, lane, fallback, noInject, observer, observed, recorded>>
  BY DEF Client, Tick, vars, Fixed, Record
<1>2. Accounted' /\ Placed'
  BY <1>1 DEF IInv, Accounted, Placed, Stream
<1>3. client' \in {"reads", "stuck", "left"}
  BY DEF Client, Tick, vars, IInv, TypeOK
<1>4. wait' \in -1 .. MaxWait
  BY LargerNat DEF Client, Tick, vars, Fixed, IInv, TypeOK
<1>5. deadline' \in Nat \cup {None}
  BY LargerNat DEF Client, Tick, vars, Fixed, IInv, TypeOK
<1>6. cool' \in [Lane -> Nat]
  BY LargerNat DEF Client, Tick, vars, IInv, TypeOK
<1>7. spent' \in 0 .. Larger(Attempt, StreamIdle)
  <2>1. Larger(Attempt, StreamIdle) \in Nat /\ spent \in 0 .. Larger(Attempt, StreamIdle)
    BY LargerNat, ExchangeAssumption DEF IInv, TypeOK
  <2> QED
    BY <2>1 DEF Client, Tick, vars
<1>8. TypeOK'
  BY <1>1, <1>3, <1>4, <1>5, <1>6, <1>7 DEF IInv, TypeOK
<1> QED
  BY <1>2, <1>8 DEF IInv

-----------------------------------------------------------------------------
(* The theorems.                                                           *)

\* The strengthened invariant holds throughout.
THEOREM Invariant == Spec => []IInv
<1>1. Init => IInv
  <2> SUFFICES ASSUME Init PROVE IInv
    OBVIOUS
  <2>1. cool \in [Lane -> Nat] /\ wait \in -1 .. MaxWait
    BY ExchangeAssumption DEF Init
  <2>2. 0 \in 0 .. Larger(Attempt, StreamIdle) /\ None \in Nat \cup {None}
    BY NoneSpent
  <2>3. fallback \in BOOLEAN /\ noInject \in BOOLEAN
    BY DEF Init
  <2>4. TypeOK
    BY <2>1, <2>2, <2>3 DEF Init, TypeOK
  <2> QED
    BY <2>4 DEF Init, IInv, Accounted, Placed, Working, Stream
<1>2. IInv /\ [Next]_vars => IInv'
  BY ArriveStep, AdmissionStep, AttemptStep, AnswerStep, EnvironmentStep DEF Next, Task, Upstream
<1> QED
  BY <1>1, <1>2, PTL DEF Spec

\* The variables stay in their types.
THEOREM TypeCorrect == Spec => []TypeOK
<1>1. IInv => TypeOK
  BY DEF IInv
<1> QED
  BY <1>1, Invariant, PTL

\* However the deadline and the exits of the relay race, a stream that ended was
\* accounted for once if the upstream's stream had begun, and else not.
THEOREM AccountedOnce == Spec => []ObservedOnce
<1>1. IInv => ObservedOnce
  BY DEF IInv, Accounted, ObservedOnce
<1> QED
  BY <1>1, Invariant, PTL

-----------------------------------------------------------------------------
(* What is merged, and what is held.                                       *)

Merged ==
  [ usage : [Field -> Told], finishes : UNION {[S -> ToldReason] : S \in SUBSET Nat},
    overflowed : BOOLEAN, tools : SUBSET (Nat \X Nat), toolsBad : BOOLEAN, listed : BOOLEAN,
    calls : Nat \cup {Absent} ]

\* As many finishes as there is room for.
RoomFor(st) ==
  /\ IsFiniteSet(DOMAIN st.finishes) /\ Cardinality(DOMAIN st.finishes) <= MaxIndexed
  /\ Cardinality(st.tools) <= MaxIndexed

\* What is held of an event has room for a blank line behind it, and the line being
\* read has room behind what is held; nothing is held of an event that is discarded.
Room ==
  /\ RoomFor(state)
  /\ Len(data) < MaxEvent
  /\ Len(data) + Size(line) <= MaxEvent
  /\ discard.event => data = <<>> /\ line = <<>>

ObserverTyped == ObserverTypeOK /\ state \in Merged /\ text \in Seq(Byte)

\* A text's parts.
LEMMA TextFacts ==
  ASSUME NEW p \in Text
  PROVE  /\ p.usage \in [Field -> Told] /\ p.listed \in BOOLEAN
         /\ p.choice \notin {Absent, Bad} =>
              /\ p.choice \in Choice /\ p.choice.index \in Nat /\ p.choice.finish \in ToldReason
              /\ p.choice.tools \in SUBSET Nat /\ p.choice.toolsBad \in BOOLEAN
  BY DEF Text, Choice

\* A whole answer is merged like an event of a stream whose calls have no index.
LEMMA WholeFacts ==
  ASSUME NEW p \in Text
  PROVE  /\ Whole(p) \in Text /\ Whole(p).usage = p.usage
         /\ Calls(p) \in Nat /\ Calls(p) # Absent
         /\ p.choice \in {Absent, Bad} => Whole(p).choice = p.choice
         /\ p.choice \notin {Absent, Bad} =>
              /\ Whole(p).choice \notin {Absent, Bad}
              /\ Whole(p).choice.index = p.choice.index /\ Whole(p).choice.finish = p.choice.finish
<1>1. CASE p.choice \in {Absent, Bad}
  BY <1>1, ObservationAssumption DEF Whole, Calls
<1>2. CASE p.choice \notin {Absent, Bad}
  <2> DEFINE c == [p.choice EXCEPT !.tools = {}, !.toolsBad = (p.choice.calls = Bad)]
  <2>1. p.choice \in Choice
    BY <1>2 DEF Text
  <2>2. c \in Choice /\ c.index = p.choice.index /\ c.finish = p.choice.finish
    BY <2>1 DEF Choice
  <2>3. Whole(p) = [p EXCEPT !.choice = c]
    BY <1>2 DEF Whole, Text
  <2>4. c \notin {Absent, Bad}
    BY <2>2, ObservationAssumption
  <2>5. Calls(p) \in Nat
    BY <2>1 DEF Calls, Choice
  <2>6. Calls(p) # Absent
    BY <2>5, ObservationAssumption
  <2> HIDE DEF c
  <2>7. Whole(p) \in Text /\ Whole(p).usage = p.usage /\ Whole(p).choice = c
    BY <2>2, <2>3 DEF Text
  <2> QED
    BY <1>2, <2>2, <2>4, <2>5, <2>6, <2>7
<1> QED
  BY <1>1, <1>2

\* A value is kept among the values told.
LEMMA MergeTyped ==
  /\ \A a, b \in Told : Merge(a, b) \in Told
  /\ \A a, b \in ToldReason : Merge(a, b) \in ToldReason
  BY DEF Merge, Told, ToldReason

\* A finish is kept if there is room for its index.
LEMMA WithFinishTyped ==
  ASSUME NEW st \in Merged, RoomFor(st), NEW i \in Nat, NEW finish \in ToldReason
  PROVE  /\ WithFinish(st, i, finish) \in Merged
         /\ RoomFor(WithFinish(st, i, finish))
         /\ WithFinish(st, i, finish).usage = st.usage
<1> DEFINE known == DOMAIN st.finishes
           seen(j) == IF j \in known THEN st.finishes[j] ELSE Absent
           kept == [j \in known \cup {i} |-> IF j = i THEN Merge(seen(j), finish) ELSE seen(j)]
<1>1. PICK S \in SUBSET Nat : st.finishes \in [S -> ToldReason]
  BY DEF Merged
<1>2. known = S /\ \A j : seen(j) \in ToldReason
  BY <1>1 DEF ToldReason
<1>3. CASE i \notin known /\ Cardinality(known) >= MaxIndexed
  <2>1. WithFinish(st, i, finish) = [st EXCEPT !.overflowed = TRUE]
    BY <1>3 DEF WithFinish
  <2> QED
    BY <2>1 DEF Merged, RoomFor
<1>4. CASE ~(i \notin known /\ Cardinality(known) >= MaxIndexed)
  <2>1. WithFinish(st, i, finish) = [st EXCEPT !.finishes = kept]
    BY <1>4 DEF WithFinish
  <2>2. kept \in [known \cup {i} -> ToldReason]
    BY <1>2, MergeTyped
  <2>3. kept \in UNION {[T -> ToldReason] : T \in SUBSET Nat}
    BY <1>2, <2>2
  <2>4. IsFiniteSet(known \cup {i}) /\ Cardinality(known \cup {i}) <= MaxIndexed
    <3>1. IsFiniteSet(known) /\ Cardinality(known) <= MaxIndexed /\ Cardinality(known) \in Nat
      BY FS_CardinalityType DEF RoomFor
    <3>2. CASE i \in known
      <4>1. known \cup {i} = known
        BY <3>2
      <4> QED
        BY <3>1, <4>1
    <3>3. CASE i \notin known
      <4>1. Cardinality(known \cup {i}) = Cardinality(known) + 1 /\ IsFiniteSet(known \cup {i})
        BY <3>1, <3>3, FS_AddElement
      <4> QED
        BY <3>1, <4>1, <1>4, <3>3, ObservationAssumption
    <3> QED
      BY <3>2, <3>3
  <2>5. DOMAIN kept = known \cup {i}
    OBVIOUS
  <2> HIDE DEF kept
  <2> QED
    BY <2>1, <2>3, <2>4, <2>5 DEF Merged, RoomFor
<1> QED
  BY <1>3, <1>4

\* So are the tools.
LEMMA WithToolsTyped ==
  ASSUME NEW st \in Merged, RoomFor(st), NEW pairs \in SUBSET (Nat \X Nat), NEW bad \in BOOLEAN
  PROVE  /\ WithTools(st, pairs, bad) \in Merged
         /\ RoomFor(WithTools(st, pairs, bad))
         /\ WithTools(st, pairs, bad).usage = st.usage
<1>1. CASE Cardinality(st.tools \cup pairs) <= MaxIndexed
  <2>1. WithTools(st, pairs, bad)
          = [st EXCEPT !.tools = st.tools \cup pairs, !.toolsBad = st.toolsBad \/ bad]
    BY <1>1 DEF WithTools
  <2> QED
    BY <1>1, <2>1 DEF Merged, RoomFor
<1>2. CASE ~(Cardinality(st.tools \cup pairs) <= MaxIndexed)
  <2>1. WithTools(st, pairs, bad) = [st EXCEPT !.toolsBad = TRUE]
    BY <1>2 DEF WithTools
  <2> QED
    BY <2>1 DEF Merged, RoomFor
<1> QED
  BY <1>1, <1>2

\* The usage that is merged.
LEMMA WithUsageTyped ==
  ASSUME NEW st \in Merged, RoomFor(st), NEW p \in Text
  PROVE  LET told_ == [WithUsage(st, p) EXCEPT !.listed = @ \/ p.listed]
         IN  /\ told_ \in Merged /\ RoomFor(told_)
             /\ told_.usage = [f \in Field |-> Merge(st.usage[f], p.usage[f])]
             /\ told_.finishes = st.finishes /\ told_.tools = st.tools
             /\ told_.overflowed = st.overflowed /\ told_.toolsBad = st.toolsBad
             /\ told_.calls = st.calls
<1> DEFINE usage == [f \in Field |-> Merge(st.usage[f], p.usage[f])]
           told_ == [[st EXCEPT !.usage = usage] EXCEPT !.listed = st.listed \/ p.listed]
<1>1. usage \in [Field -> Told]
  BY TextFacts, MergeTyped DEF Merged
<1>2. [WithUsage(st, p) EXCEPT !.listed = @ \/ p.listed] = told_
  BY DEF WithUsage, Merged
<1> HIDE DEF usage
<1>3. told_ \in Merged /\ RoomFor(told_) /\ told_.usage = usage
      /\ told_.finishes = st.finishes /\ told_.tools = st.tools
      /\ told_.overflowed = st.overflowed /\ told_.toolsBad = st.toolsBad
      /\ told_.calls = st.calls
  BY <1>1, TextFacts DEF Merged, RoomFor
<1> HIDE DEF told_
<1> QED
  BY <1>2, <1>3 DEF usage

\* Whatever an event tells, what is merged keeps its bounds.
LEMMA ObserveTyped ==
  ASSUME NEW st \in Merged, RoomFor(st), NEW p \in Text
  PROVE  Observe(st, p) \in Merged /\ RoomFor(Observe(st, p))
<1> DEFINE told_ == [WithUsage(st, p) EXCEPT !.listed = @ \/ p.listed]
           c == p.choice
           finished == WithFinish(told_, c.index, c.finish)
<1>1. told_ \in Merged /\ RoomFor(told_)
  BY WithUsageTyped
<1> HIDE DEF told_
<1>2. CASE c = Absent
  BY <1>1, <1>2 DEF Observe, told_
<1>3. CASE c # Absent /\ c = Bad
  <2>1. Observe(st, p) = [told_ EXCEPT !.toolsBad = TRUE]
    BY <1>3, ObservationAssumption DEF Observe, told_
  <2> QED
    BY <1>1, <2>1 DEF Merged, RoomFor
<1>4. CASE c \notin {Absent, Bad}
  <2>1. Observe(st, p) = WithTools(finished, {c.index} \X c.tools, c.toolsBad)
    BY <1>4 DEF Observe, told_
  <2>2. finished \in Merged /\ RoomFor(finished)
    BY <1>1, <1>4, TextFacts, WithFinishTyped
  <2>3. {c.index} \X c.tools \in SUBSET (Nat \X Nat) /\ c.toolsBad \in BOOLEAN
    BY <1>4, TextFacts
  <2> HIDE DEF finished
  <2> QED
    BY <2>1, <2>2, <2>3, WithToolsTyped
<1> QED
  BY <1>2, <1>3, <1>4

\* Newlines, carriage returns, prefixes and the rest are no texts, and differ.
LEMMA Bytes ==
  /\ {LF, CR, Data, Other} \subseteq Byte /\ Payload \subseteq Byte
  /\ LF # CR /\ LF # Data /\ CR # Data
  /\ LF \notin Payload /\ CR \notin Payload /\ Data \notin Payload
<1>1. ASSUME NEW x, NEW y, NEW z PROVE Cardinality({x, y, z}) \in 0 .. 3
  <2>1. IsFiniteSet({}) /\ Cardinality({}) = 0
    BY FS_EmptySet
  <2>2. IsFiniteSet({z}) /\ Cardinality({z}) = 1
    BY FS_Singleton
  <2>3. IsFiniteSet({z} \cup {y}) /\ Cardinality({z} \cup {y}) \in 0 .. 2
    BY <2>2, FS_AddElement
  <2>4. IsFiniteSet({z} \cup {y} \cup {x}) /\ Cardinality({z} \cup {y} \cup {x}) \in 0 .. 3
    BY <2>3, FS_AddElement
  <2>5. {z} \cup {y} \cup {x} = {x, y, z}
    OBVIOUS
  <2> QED
    BY <2>4, <2>5
<1>2. Cardinality({LF, CR, Data, Other}) = 4
  BY ObservationAssumption
<1>3. LF # CR
  <2>1. LF = CR => {LF, CR, Data, Other} = {LF, Data, Other}
    OBVIOUS
  <2> QED
    BY <2>1, <1>1, <1>2, SMTT(25)
<1>4. LF # Data
  <2>1. LF = Data => {LF, CR, Data, Other} = {LF, CR, Other}
    OBVIOUS
  <2> QED
    BY <2>1, <1>1, <1>2
<1>5. CR # Data
  <2>1. CR = Data => {LF, CR, Data, Other} = {LF, CR, Other}
    OBVIOUS
  <2> QED
    BY <2>1, <1>1, <1>2
<1> QED
  BY <1>3, <1>4, <1>5, ObservationAssumption DEF Byte

\* A line without the carriage return that ends it.
LEMMA TrimmedFacts ==
  ASSUME NEW l \in Seq(Byte)
  PROVE  /\ Trimmed(l) \in Seq(Byte)
         /\ Len(Trimmed(l)) = IF l # <<>> /\ l[Len(l)] = CR THEN Len(l) - 1 ELSE Len(l)
         /\ \A k \in 1 .. Len(Trimmed(l)) : Trimmed(l)[k] = l[k]
         /\ IsData(Trimmed(l)) <=> IsData(l)
<1>1. CASE l # <<>> /\ l[Len(l)] = CR
  <2>1. Len(l) \in Nat \ {0} /\ l \in [1 .. Len(l) -> Byte]
    BY <1>1
  <2>2. /\ Trimmed(l) \in Seq(Byte) /\ Len(Trimmed(l)) = Len(l) - 1
        /\ \A k \in 1 .. Len(l) - 1 : Trimmed(l)[k] = l[k]
    BY <1>1, <2>1 DEF Trimmed
  <2>3. IsData(Trimmed(l)) <=> IsData(l)
    <3>1. CASE Len(l) = 1
      <4>1. l[1] = CR /\ Trimmed(l) = <<>>
        BY <1>1, <2>2, <3>1
      <4> QED
        BY <1>1, <4>1, Bytes DEF IsData
    <3>2. CASE Len(l) > 1
      <4>1. Trimmed(l) # <<>> /\ Trimmed(l)[1] = l[1]
        BY <2>1, <2>2, <3>2
      <4> QED
        BY <1>1, <4>1 DEF IsData
    <3> QED
      BY <2>1, <3>1, <3>2
  <2> QED
    BY <1>1, <2>2, <2>3
<1>2. CASE ~(l # <<>> /\ l[Len(l)] = CR)
  <2>1. Trimmed(l) = l
    BY <1>2 DEF Trimmed
  <2> QED
    BY <1>2, <2>1
<1> QED
  BY <1>1, <1>2

\* A data line that is joined to the data before.
LEMMA JoinedFacts ==
  ASSUME NEW d \in Seq(Byte), d = data, NEW l \in Seq(Byte), IsData(l)
  PROVE  /\ Len(l) >= 1
         /\ Joined(l) \in Seq(Byte)
         /\ d = <<>> => /\ Len(Joined(l)) = Len(l) - 1
                        /\ \A k \in 1 .. Len(l) - 1 : Joined(l)[k] = l[k + 1]
         /\ d # <<>> => /\ Len(Joined(l)) = Len(d) + Len(l)
                        /\ \A k \in 1 .. Len(d) : Joined(l)[k] = d[k]
                        /\ Joined(l)[Len(d) + 1] = LF
                        /\ \A k \in 1 .. Len(l) - 1 : Joined(l)[Len(d) + 1 + k] = l[k + 1]
<1>1. Len(l) >= 1 /\ l # <<>>
  BY DEF IsData
<1>2. /\ Tail(l) \in Seq(Byte) /\ Len(Tail(l)) = Len(l) - 1
      /\ \A k \in 1 .. Len(l) - 1 : Tail(l)[k] = l[k + 1]
  BY <1>1
<1>3. CASE d = <<>>
  BY <1>1, <1>2, <1>3 DEF Joined
<1>4. CASE d # <<>>
  <2>1. Joined(l) = (d \o <<LF>>) \o Tail(l)
    BY <1>4 DEF Joined
  <2>2. /\ d \o <<LF>> \in Seq(Byte) /\ Len(d \o <<LF>>) = Len(d) + 1
        /\ \A k \in 1 .. Len(d) : (d \o <<LF>>)[k] = d[k]
        /\ (d \o <<LF>>)[Len(d) + 1] = LF
    BY Bytes
  <2> DEFINE e == d \o <<LF>>
             r == Tail(l)
  <2>3. e \in Seq(Byte) /\ r \in Seq(Byte) /\ Len(e) \in Nat /\ Len(r) \in Nat
    BY <1>2, <2>2
  <2> HIDE DEF e, r
  <2>4. /\ e \o r \in Seq(Byte) /\ Len(e \o r) = Len(e) + Len(r)
        /\ \A k \in 1 .. Len(e) : (e \o r)[k] = e[k]
        /\ \A k \in 1 .. Len(r) : (e \o r)[Len(e) + k] = r[k]
    BY <2>3
  <2>5. Joined(l) \in Seq(Byte) /\ Len(Joined(l)) = Len(d) + Len(l)
    BY <1>1, <1>2, <2>1, <2>2, <2>4 DEF e, r
  <2>6. /\ \A k \in 1 .. Len(d) : Joined(l)[k] = d[k]
        /\ Joined(l)[Len(d) + 1] = LF
    BY <2>1, <2>2, <2>4 DEF e, r
  <2>7. \A k \in 1 .. Len(l) - 1 : Joined(l)[Len(d) + 1 + k] = l[k + 1]
    BY <1>1, <1>2, <2>1, <2>2, <2>4 DEF e, r
  <2> QED
    BY <1>1, <1>4, <2>5, <2>6, <2>7
<1> QED
  BY <1>3, <1>4

-----------------------------------------------------------------------------
(* The types and the bounds.                                               *)

\* The lines that are left over of a line that has ended.
LEMMA JoinedFits ==
  ASSUME ObserverTyped, Room, ~discard.event
  PROVE  Joined(Trimmed(line)) \in Seq(Byte) /\ Len(Joined(Trimmed(line))) < MaxEvent
<1> DEFINE l == Trimmed(line)
<1>1. data \in Seq(Byte) /\ line \in Seq(Byte) /\ MaxEvent \in Nat
  BY ObservationAssumption DEF ObserverTyped, ObserverTypeOK
<1>2. l \in Seq(Byte) /\ Len(l) <= Len(line) /\ (IsData(l) <=> IsData(line))
  BY <1>1, TrimmedFacts
<1> HIDE DEF l
<1>3. CASE ~IsData(l)
  <2>1. Joined(l) = data
    BY <1>3 DEF Joined
  <2> QED
    BY <1>1, <2>1 DEF Room, l
<1>4. CASE IsData(l)
  <2>1. Len(data) + Len(line) + 1 <= MaxEvent
    BY <1>2, <1>4 DEF Room, Size
  <2>2. Joined(l) \in Seq(Byte) /\ Len(Joined(l)) <= Len(data) + Len(l) /\ Len(l) >= 1
    BY <1>1, <1>2, <1>4, JoinedFacts
  <2> QED
    BY <1>1, <1>2, <2>1, <2>2 DEF l
<1> QED
  BY <1>3, <1>4

\* What the parser makes of bytes is a payload.
LEMMA ParsedText ==
  ASSUME NEW bytes, Parses(bytes)
  PROVE  Parsed(bytes) \in Payload
  BY DEF Parses, Parsed, OnlyText

\* The observer starts well typed, with room for an event.
LEMMA ObserverInitTyped ==
  ASSUME ObserverInit
  PROVE  ObserverTyped /\ Room
<1>1. MaxEvent \in Nat \ {0} /\ MaxIndexed \in Nat /\ Largest \in Nat
  BY ObservationAssumption
<1>2. [i \in {} |-> Absent] \in [{} -> ToldReason] /\ DOMAIN [i \in {} |-> Absent] = {}
  OBVIOUS
<1>3. Blank \in Merged
  BY <1>2 DEF Blank, Merged, Told
<1>4. RoomFor(Blank)
  BY <1>1, <1>2, FS_EmptySet DEF Blank, RoomFor
<1> QED
  BY <1>1, <1>3, <1>4, SMTT(25)
     DEF ObserverInit, ObserverTyped, ObserverTypeOK, Room, Size, Fresh, IsData, Blank, Merged

\* A byte of a line is kept only where there is room for it.
LEMMA PushTyped ==
  ASSUME ObserverTyped, Room, NEW b \in Byte, Push(b)
  PROVE  ObserverTyped' /\ Room'
<1>1. data \in Seq(Byte) /\ line \in Seq(Byte) /\ MaxEvent \in Nat \ {0} /\ text \in Seq(Byte)
  BY ObservationAssumption DEF ObserverTyped, ObserverTypeOK
<1>2. text' \in Seq(Byte)
  BY <1>1 DEF Push
<1>3. /\ discard' \in [event : BOOLEAN, content : BOOLEAN, cr : BOOLEAN]
      /\ discard'.event = (discard.event \/ Retained(Append(line, b)) > MaxEvent)
  <2>1. discard \in [event : BOOLEAN, content : BOOLEAN, cr : BOOLEAN]
    BY DEF ObserverTyped, ObserverTypeOK
  <2>2. CASE discard.event /\ Discarded(b)
    BY <2>1, <2>2 DEF Discarded
  <2>3. CASE ~discard.event /\ Retained(Append(line, b)) > MaxEvent /\ discard' = Discarding
    BY <2>3 DEF Discarding
  <2>4. CASE ~discard.event /\ Retained(Append(line, b)) <= MaxEvent /\ discard' = discard
    <3>1. ~(Retained(Append(line, b)) > MaxEvent)
      BY <1>1, <2>4 DEF Retained, Size
    <3> QED
      BY <2>1, <2>4, <3>1
  <2> QED
    BY <2>2, <2>3, <2>4 DEF Push
<1>4. CASE discard.event
  BY <1>1, <1>2, <1>3, <1>4 DEF Push, ObserverTyped, ObserverTypeOK, Room, Size, IsData, RoomFor
<1>5. CASE ~discard.event /\ Retained(Append(line, b)) > MaxEvent
  <2>1. /\ line' = <<>> /\ data' = <<>> /\ state' = state /\ events' = events /\ told' = told
    BY <1>1, <1>5 DEF Push, Retained, Size
  <2> QED
    BY <1>1, <1>2, <1>3, <2>1 DEF ObserverTyped, ObserverTypeOK, Room, Size, IsData, RoomFor
<1>6. CASE ~discard.event /\ Retained(Append(line, b)) <= MaxEvent
  <2>1. line' = Append(line, b) /\ data' = data /\ discard' = discard /\ state' = state
        /\ events' = events /\ told' = told
    BY <1>1, <1>6 DEF Push, Retained, Size
  <2>2. Len(data) + Size(line') <= MaxEvent
    BY <1>6, <2>1 DEF Retained
  <2>3. line' \in Seq(Byte)
    BY <1>1, <2>1
  <2>4. ObserverTyped'
    BY <1>1, <1>2, <1>3, <2>1, <2>3 DEF ObserverTyped, ObserverTypeOK
  <2>5. Room'
    BY <1>6, <2>1, <2>2 DEF Room, RoomFor, Size, IsData
  <2> QED
    BY <2>4, <2>5
<1> QED
  BY <1>1, <1>4, <1>5, <1>6 DEF Push

\* The end of a line joins it to the event, or drops the event, or merges it.
LEMMA NewlineTyped ==
  ASSUME ObserverTyped, Room, Newline
  PROVE  ObserverTyped' /\ Room'
<1>1. /\ data \in Seq(Byte) /\ line \in Seq(Byte) /\ MaxEvent \in Nat \ {0} /\ text \in Seq(Byte)
      /\ Largest \in Nat /\ events \in 0 .. Largest /\ state \in Merged /\ RoomFor(state)
      /\ told \subseteq Payload
  BY ObservationAssumption DEF ObserverTyped, ObserverTypeOK, Room
<1>2. text' \in Seq(Byte) /\ told' \subseteq Payload
  <2>1. Says(text) \subseteq Payload
    BY DEF Says
  <2>2. Append(text, LF) \in Seq(Byte) /\ <<>> \in Seq(Byte)
    BY <1>1, Bytes
  <2>3. text' \in {<<>>, Append(text, LF)} /\ told' \in {told, told \cup Says(text)}
    BY DEF Newline
  <2> QED
    BY <1>1, <2>1, <2>2, <2>3
<1>3. CASE EndEvent
  <2>1. state' \in Merged /\ RoomFor(state') /\ events' \in 0 .. Largest
    BY <1>1, <1>3, ParsedText, ObserveTyped, ObservationAssumption DEF EndEvent
  <2>2. /\ data' = <<>> /\ line' = <<>> /\ discard' = Fresh
        /\ Fresh \in [event : BOOLEAN, content : BOOLEAN, cr : BOOLEAN]
    BY <1>3 DEF EndEvent, Fresh
  <2>3. ObserverTyped'
    BY <1>2, <2>1, <2>2 DEF ObserverTyped, ObserverTypeOK, Merged
  <2>4. Room'
    BY <1>1, <2>1, <2>2 DEF Room, RoomFor, Size, IsData
  <2> QED
    BY <2>3, <2>4
<1>4. CASE EndLine
  <2>1. /\ line' = <<>> /\ state' = state /\ events' = events
        /\ discard' \in [event : BOOLEAN, content : BOOLEAN, cr : BOOLEAN]
        /\ discard'.event = discard.event
    BY <1>4 DEF EndLine, ObserverTyped, ObserverTypeOK
  <2>2. data' \in Seq(Byte) /\ Len(data') < MaxEvent /\ (discard.event => data' = <<>>)
    BY <1>1, <1>4, JoinedFits DEF EndLine, Room
  <2>3. ObserverTyped'
    BY <1>1, <1>2, <2>1, <2>2 DEF ObserverTyped, ObserverTypeOK
  <2>4. Room'
    BY <1>1, <2>1, <2>2 DEF Room, RoomFor, Size, IsData
  <2> QED
    BY <2>3, <2>4
<1> QED
  BY <1>3, <1>4 DEF Newline

\* The end of the stream only reports.
LEMMA EndTyped ==
  ASSUME ObserverTyped, Room,
         (\E outcome \in Outcome : StreamEnds(outcome)) \/ (\E p \in Payload : Buffered(p))
  PROVE  ObserverTyped' /\ Room'
<1>1. CASE \E outcome \in Outcome : StreamEnds(outcome)
  BY <1>1 DEF StreamEnds, Cut, ObserverTyped, ObserverTypeOK, Room, RoomFor, Size, IsData
<1>2. ASSUME NEW p \in Payload, Buffered(p) PROVE ObserverTyped' /\ Room'
  <2> DEFINE w == Observe(state, Whole(p))
  <2>2. p \in Text /\ state' = [w EXCEPT !.calls = Calls(p)]
    BY <1>2, ObservationAssumption DEF Buffered, ObserveWhole
  <2>3. w \in Merged /\ RoomFor(w) /\ Calls(p) \in Nat
    BY <2>2, WholeFacts, ObserveTyped DEF ObserverTyped, Room
  <2> HIDE DEF w
  <2>1. state' \in Merged /\ RoomFor(state')
    BY <2>2, <2>3 DEF Merged, RoomFor
  <2> QED
    BY <1>2, <2>1 DEF Buffered, Cut, ObserverTyped, ObserverTypeOK, Room, RoomFor, Size, IsData, Merged
<1> QED
  BY <1>1, <1>2

\* A step of something else changes nothing here.
LEMMA StutterTyped ==
  ASSUME ObserverTyped, Room, UNCHANGED observerVars
  PROVE  ObserverTyped' /\ Room'
  BY DEF observerVars, ObserverTyped, ObserverTypeOK, Room, RoomFor, Size, IsData

\* So the types and the room last.
LEMMA ObserverTypedInvariant == ObserverSpec => [](ObserverTyped /\ Room)
<1>1. ObserverTyped /\ Room /\ [ObserverNext]_observerVars => ObserverTyped' /\ Room'
  BY PushTyped, NewlineTyped, EndTyped, StutterTyped DEF ObserverNext
<1> QED
  BY <1>1, ObserverInitTyped, PTL DEF ObserverSpec

\* Every variable of the observer keeps its type, whatever bytes arrive: counts
\* and indexes are naturals, and a report is of one of the outcomes.
THEOREM ObserverTypes == ObserverSpec => []ObserverTypeOK
<1>1. ObserverTyped => ObserverTypeOK
  BY DEF ObserverTyped
<1> QED
  BY <1>1, ObserverTypedInvariant, PTL

\* Whatever the upstream sends, on however many lines, the observer holds no
\* more of an event, and remembers no more finishes and tool calls, than its
\* bounds allow.
THEOREM ObserverBounded == ObserverSpec => []BoundedMemory
<1>1. ObserverTyped /\ Room => BoundedMemory
  BY ObservationAssumption DEF ObserverTyped, ObserverTypeOK, Room, RoomFor, BoundedMemory, Size
<1> QED
  BY <1>1, ObserverTypedInvariant, PTL

-----------------------------------------------------------------------------
(* The bytes of an event.                                                  *)

\* A line begins at byte s.
Begins(t, s) == s = 1 \/ t[s - 1] = LF

\* What is known of the lines before a byte that a line begins at, stays so as the
\* next byte comes.
LEMMA BeforeExtended ==
  ASSUME NEW t \in Seq(Byte), NEW b \in Byte, NEW s \in 1 .. Len(t) + 1, Begins(t, s)
  PROVE  Before(Append(t, b), s) = Before(t, s)
<1> DEFINE n == Len(t)
           u == Append(t, b)
<1>1. n \in Nat /\ DOMAIN t = 1 .. n /\ Len(u) = n + 1 /\ DOMAIN u = 1 .. n + 1
      /\ \A i \in 1 .. n : u[i] = t[i]
  OBVIOUS
<1> HIDE DEF n, u
<1>2. ASSUME NEW i \in 1 .. n, i < s
      PROVE  i \in DataBytes(u) <=> i \in DataBytes(t)
  <2>1. \A r \in 1 .. i - 1 : u[r] = t[r] /\ (InLine(u, r, i) <=> InLine(t, r, i))
    BY <1>1 DEF InLine
  <2>2. u[i] = t[i]
    BY <1>1
  <2>3. CASE i < n
    BY <1>1, <2>1, <2>2, <2>3 DEF DataBytes
  <2>4. CASE i = n
    <3>1. s = n + 1 /\ t[n] = LF
      BY <1>1, <1>2, <2>4 DEF Begins, n
    <3> QED
      BY <1>1, <2>2, <2>4, <3>1 DEF DataBytes
  <2> QED
    BY <1>1, <2>3, <2>4
<1>3. DataBytes(u) \subseteq 1 .. n + 1 /\ DataBytes(t) \subseteq 1 .. n
  BY <1>1 DEF DataBytes
<1>4. \A i \in 1 .. n + 1 : i < s => i \in 1 .. n
  BY <1>1 DEF n
<1> QED
  BY <1>1, <1>2, <1>3, <1>4 DEF Before, u

\* A byte more at the end joins no more of the lines before it.
LEMMA JointsExtended ==
  ASSUME NEW t \in Seq(Byte), NEW b \in Byte, NEW s \in 1 .. Len(t) + 1, Begins(t, s)
  PROVE  Joints(Append(t, b), s) = Joints(t, s)
<1> DEFINE n == Len(t)
           u == Append(t, b)
<1>1. n \in Nat /\ DOMAIN t = 1 .. n /\ Len(u) = n + 1 /\ DOMAIN u = 1 .. n + 1
      /\ \A i \in 1 .. n : u[i] = t[i]
  OBVIOUS
<1>2. ASSUME NEW r \in 1 .. n, r < s
      PROVE  r \in Joints(u, s) <=> r \in Joints(t, s)
  <2>1. u[r] = t[r] /\ (InLine(u, r, r) <=> InLine(t, r, r))
    BY <1>1 DEF InLine
  <2>2. InLine(t, r, r) => Before(u, r) = Before(t, r)
    BY BeforeExtended DEF InLine, Begins
  <2> HIDE DEF n, u
  <2> QED
    BY <1>1, <1>2, <2>1, <2>2 DEF Joints
<1>3. Joints(u, s) \subseteq 1 .. n /\ Joints(t, s) \subseteq 1 .. n
  BY <1>1 DEF Joints
<1>4. \A r \in Joints(u, s) \cup Joints(t, s) : r < s
  BY DEF Joints
<1> QED
  BY <1>2, <1>3, <1>4

\* Nor does it change how much is held of them.
LEMMA HeldExtended ==
  ASSUME NEW t \in Seq(Byte), NEW b \in Byte, NEW s \in 1 .. Len(t) + 1, Begins(t, s)
  PROVE  Held(Append(t, b), s) = Held(t, s)
  BY BeforeExtended, JointsExtended DEF Held

\* What is held of the lines before a byte is finite, and nothing if there is no data.
LEMMA HeldFacts ==
  ASSUME NEW t \in Seq(Byte), NEW s \in Nat
  PROVE  /\ IsFiniteSet(Before(t, s)) /\ IsFiniteSet(Joints(t, s))
         /\ Cardinality(Before(t, s)) \in Nat /\ Cardinality(Joints(t, s)) \in Nat
         /\ Held(t, s) \in Nat
         /\ Held(t, s) = 0 <=> Before(t, s) = {}
<1>1. Before(t, s) \subseteq 1 .. Len(t) /\ Joints(t, s) \subseteq 1 .. Len(t)
  BY DEF Before, Joints, DataBytes
<1>2. IsFiniteSet(1 .. Len(t))
  BY FS_Interval
<1>3. IsFiniteSet(Before(t, s)) /\ IsFiniteSet(Joints(t, s))
  BY <1>1, <1>2, FS_Subset
<1>4. Cardinality(Before(t, s)) \in Nat /\ Cardinality(Joints(t, s)) \in Nat
  BY <1>3, FS_CardinalityType
<1>5. Before(t, s) = {} <=> Cardinality(Before(t, s)) = 0
  BY <1>3, FS_EmptySet
<1>6. Before(t, s) = {} => Joints(t, s) = {}
  <2>1. SUFFICES ASSUME Before(t, s) = {}, NEW r \in Joints(t, s) PROVE FALSE
    OBVIOUS
  <2>2. r \in Nat /\ r < s /\ Before(t, r) # {}
    BY DEF Joints
  <2>3. PICK i \in Before(t, r) : TRUE
    BY <2>2
  <2>4. i \in Before(t, s)
    BY <2>2, <2>3, <1>1 DEF Before, DataBytes
  <2> QED
    BY <2>1, <2>4
<1>7. Joints(t, s) = {} => Cardinality(Joints(t, s)) = 0
  BY FS_EmptySet
<1> QED
  BY <1>3, <1>4, <1>5, <1>6, <1>7 DEF Held

\* A line begins behind byte c, and has not ended since.
Unbroken(t, c) == Begins(t, c + 1) /\ \A k \in c + 1 .. Len(t) : t[k] # LF

\* The line that the last bytes of an event are in begins where it does.
LEMMA LastLine ==
  ASSUME NEW t \in Seq(Byte), NEW c \in 0 .. Len(t), Unbroken(t, c), NEW i \in c + 1 .. Len(t) + 1, NEW s \in 1 .. i
  PROVE  InLine(t, s, i) <=> s = c + 1
<1>1. CASE s < c + 1
  <2>1. t[c] = LF /\ c \in s .. i - 1
    BY <1>1 DEF Unbroken, Begins
  <2> QED
    BY <1>1, <2>1 DEF InLine
<1>2. CASE s > c + 1
  <2>1. s - 1 \in c + 1 .. Len(t) /\ s # 1
    BY <1>2
  <2> QED
    BY <1>2, <2>1 DEF Unbroken, InLine
<1>3. CASE s = c + 1
  BY <1>3 DEF Unbroken, InLine, Begins
<1> QED
  BY <1>1, <1>2, <1>3

\* As a byte comes, an event is too large if it was, or if the byte does not fit
\* behind what is held of the lines before its own.
LEMMA TooLargeExtended ==
  ASSUME NEW t \in Seq(Byte), NEW b \in Byte
  PROVE  /\ TooLarge(t) => TooLarge(Append(t, b))
         /\ \A c \in 0 .. Len(t) :
              Unbroken(t, c) =>
                (TooLarge(Append(t, b)) <=>
                   \/ TooLarge(t)
                   \/ /\ b # LF
                      /\ Held(t, c + 1) + ((Len(t) + 1) - c)
                           + (IF Append(t, b)[c + 1] = Data THEN 1 ELSE 0) > MaxEvent)
<1> DEFINE n == Len(t)
           u == Append(t, b)
           Over(v, i, s) ==
             /\ InLine(v, s, i) /\ v[i] # LF
             /\ Held(v, s) + (i - s + 1) + (IF v[s] = Data THEN 1 ELSE 0) > MaxEvent
<1>1. n \in Nat /\ DOMAIN t = 1 .. n /\ Len(u) = n + 1 /\ DOMAIN u = 1 .. n + 1
      /\ u[n + 1] = b /\ \A i \in 1 .. n : u[i] = t[i]
  OBVIOUS
<1>2. ASSUME NEW i \in 1 .. n, NEW s \in 1 .. i
      PROVE  Over(u, i, s) <=> Over(t, i, s)
  <2>1. u[i] = t[i] /\ u[s] = t[s] /\ (InLine(u, s, i) <=> InLine(t, s, i))
    BY <1>1 DEF InLine
  <2>2. InLine(t, s, i) => Held(u, s) = Held(t, s)
    BY HeldExtended DEF InLine, Begins
  <2> QED
    BY <2>1, <2>2
<1>3. TooLarge(t) <=> \E i \in 1 .. n : \E s \in 1 .. i : Over(t, i, s)
  BY <1>1 DEF TooLarge
<1>4. TooLarge(u) <=> \E i \in 1 .. n + 1 : \E s \in 1 .. i : Over(u, i, s)
  BY <1>1 DEF TooLarge
<1>5. TooLarge(u) <=> TooLarge(t) \/ \E s \in 1 .. n + 1 : Over(u, n + 1, s)
  <2> HIDE DEF Over
  <2>1. \A i \in 1 .. n + 1 : i = n + 1 \/ i \in 1 .. n
    BY <1>1
  <2>2. 1 .. n \subseteq 1 .. n + 1 /\ n + 1 \in 1 .. n + 1
    BY <1>1
  <2> HIDE DEF n, u
  <2> QED
    BY <1>2, <1>3, <1>4, <2>1, <2>2
<1>6. ASSUME NEW c \in 0 .. n, Unbroken(t, c)
      PROVE  TooLarge(u) <=>
               \/ TooLarge(t)
               \/ /\ b # LF
                  /\ Held(t, c + 1) + ((n + 1) - c) + (IF u[c + 1] = Data THEN 1 ELSE 0) > MaxEvent
  <2>1. ASSUME NEW s \in 1 .. n + 1 PROVE InLine(u, s, n + 1) <=> s = c + 1
    <3>1. InLine(u, s, n + 1) <=> InLine(t, s, n + 1)
      BY <1>1 DEF InLine
    <3> QED
      BY <1>6, <3>1, LastLine
  <2>2. Held(u, c + 1) = Held(t, c + 1)
    BY <1>6, HeldExtended DEF Unbroken
  <2>3. c + 1 \in 1 .. n + 1 /\ ((n + 1) - (c + 1)) + 1 = (n + 1) - c
    BY <1>1
  <2>4. (\E s \in 1 .. n + 1 : Over(u, n + 1, s)) <=> Over(u, n + 1, c + 1)
    BY <2>1, <2>3
  <2>5. Over(u, n + 1, c + 1) <=>
          /\ b # LF
          /\ Held(t, c + 1) + ((n + 1) - c) + (IF u[c + 1] = Data THEN 1 ELSE 0) > MaxEvent
    BY <1>1, <2>1, <2>2, <2>3
  <2> HIDE DEF Over, n, u
  <2> QED
    BY <1>5, <2>4, <2>5
<1>7. TooLarge(t) => TooLarge(u)
  BY <1>5
<1> QED
  BY <1>6, <1>7

\* A line ends at its last byte, or before the carriage return that this is.
LastByte(t, m) == m = IF t[Len(t)] = CR THEN Len(t) - 1 ELSE Len(t)

\* A line that has ended, and of it what data is made of.
LEMMA LineEnds ==
  ASSUME NEW t \in Seq(Byte), NEW c \in Nat, c < Len(t), Unbroken(t, c),
         NEW m \in Nat, LastByte(t, m)
  PROVE  /\ Before(Append(t, LF), Len(t) + 2)
              = Before(t, c + 1) \cup (IF t[c + 1] = Data THEN c + 2 .. m ELSE {})
         /\ Joints(Append(t, LF), Len(t) + 2)
              = Joints(t, c + 1)
                \cup (IF t[c + 1] = Data /\ Before(t, c + 1) # {} THEN {c + 1} ELSE {})
<1> DEFINE n == Len(t)
           u == Append(t, LF)
<1>1. /\ n \in Nat /\ DOMAIN t = 1 .. n /\ Len(u) = n + 1 /\ DOMAIN u = 1 .. n + 1
      /\ u[n + 1] = LF /\ \A i \in 1 .. n : u[i] = t[i]
  BY Bytes
<1>2. u \in Seq(Byte) /\ LF # Data /\ CR # Data /\ LF \in Byte /\ LF # CR
  BY Bytes
<1>0. n = Len(t) /\ c + 1 <= n /\ c \in Nat /\ m \in {n - 1, n} /\ (m = n - 1 <=> t[n] = CR)
      /\ \A k \in c + 1 .. n : t[k] # LF
  <2>1. n = Len(t) /\ n \in Nat /\ c < n /\ (\A k \in c + 1 .. n : t[k] # LF)
        /\ m = IF t[n] = CR THEN n - 1 ELSE n
    BY DEF Unbroken, LastByte
  <2> HIDE DEF n
  <2> QED
    BY <2>1
<1>3. c \in 0 .. n /\ c + 1 \in 1 .. n + 1 /\ Before(u, c + 1) = Before(t, c + 1) /\ Joints(u, c + 1) = Joints(t, c + 1)
  BY <1>2, BeforeExtended, JointsExtended DEF Unbroken
<1>4. ASSUME NEW i \in 1 .. n + 1, NEW s \in 1 .. i, i >= c + 1
      PROVE  InLine(u, s, i) <=> s = c + 1
  <2>1. (\A j \in s .. i - 1 : u[j] = t[j]) /\ (s = 1 \/ u[s - 1] = t[s - 1])
    <3> HIDE DEF n, u
    <3> QED
      BY <1>1
  <2>2. InLine(u, s, i) <=> InLine(t, s, i)
    BY <2>1 DEF InLine
  <2>3. i \in c + 1 .. n + 1 /\ c \in 0 .. n
    <3> HIDE DEF n, u
    <3> QED
      BY <1>0, <1>1, <1>4
  <2> QED
    BY <2>2, <2>3, LastLine
<1> HIDE DEF n, u
<1>5. ASSUME NEW i \in c + 1 .. n
      PROVE  i \in DataBytes(u) <=> t[c + 1] = Data /\ i \in c + 2 .. m
  <2>1. u[i] = t[i] /\ t[i] # LF /\ i \in 1 .. n + 1
    BY <1>0, <1>1
  <2>2. (\E s \in 1 .. i - 1 : u[s] = Data /\ InLine(u, s, i)) <=> t[c + 1] = Data /\ i >= c + 2
    <3>1. \A s \in 1 .. i - 1 : InLine(u, s, i) <=> s = c + 1
      BY <1>4, <2>1
    <3>2. u[c + 1] = t[c + 1]
      BY <1>1, <1>3
    <3>3. i >= c + 2 <=> c + 1 \in 1 .. i - 1
      BY <1>1, <1>3
    <3> QED
      BY <3>1, <3>2, <3>3
  <2>3. (u[i] = CR /\ i < Len(u) /\ u[i + 1] = LF) <=> i > m
    <3>1. i < n => u[i + 1] # LF
      BY <1>0, <1>1
    <3>2. i <= n /\ i \in Nat
      BY <1>0, <1>1
    <3>3. CASE i = n
      BY <1>0, <1>1, <2>1, <3>3
    <3>4. CASE i < n
      BY <1>0, <1>1, <2>1, <3>1, <3>4
    <3>5. i = n \/ i < n
      BY <3>2, <1>1
    <3> QED
      BY <3>3, <3>4, <3>5
  <2>4. i \in DataBytes(u) <=>
          u[i] # LF /\ ~(u[i] = CR /\ i < Len(u) /\ u[i + 1] = LF)
          /\ \E s \in 1 .. i - 1 : u[s] = Data /\ InLine(u, s, i)
    BY <1>1, <2>1 DEF DataBytes
  <2> QED
    BY <2>1, <2>2, <2>3, <2>4
<1>6. DataBytes(u) \subseteq 1 .. n
  <2>1. n + 1 \notin DataBytes(u) /\ DataBytes(u) \subseteq 1 .. n + 1
    BY <1>1 DEF DataBytes
  <2> QED
    BY <1>1, <2>1
<1>7. Before(u, n + 2) = Before(t, c + 1) \cup (IF t[c + 1] = Data THEN c + 2 .. m ELSE {})
  <2>1. \A i : i \in Before(u, n + 2) <=> i \in DataBytes(u)
    BY <1>1, <1>6 DEF Before
  <2>2. \A i : i \in Before(t, c + 1) <=> i \in DataBytes(u) /\ i < c + 1
    BY <1>3 DEF Before
  <2>3. m <= n
    BY <1>0, <1>1
  <2> QED
    BY <1>1, <1>3, <1>5, <1>6, <2>1, <2>2, <2>3
<1>8. Joints(u, n + 2)
        = Joints(t, c + 1) \cup (IF t[c + 1] = Data /\ Before(t, c + 1) # {} THEN {c + 1} ELSE {})
  <2>1. ASSUME NEW s \in 1 .. n + 1, s > c + 1
        PROVE  s \notin Joints(u, n + 2)
    <3>1. ~InLine(u, s, s)
      BY <1>1, <1>3, <1>4, <2>1
    <3> QED
      BY <3>1 DEF Joints
  <2>2. c + 1 \in Joints(u, n + 2) <=> t[c + 1] = Data /\ Before(t, c + 1) # {}
    <3>1. c + 1 \in 1 .. n + 1 /\ u[c + 1] = t[c + 1] /\ c + 1 < n + 2 /\ InLine(u, c + 1, c + 1)
      BY <1>1, <1>3, <1>4
    <3> QED
      BY <1>1, <1>3, <3>1 DEF Joints
  <2>3. \A s : s < c + 1 => (s \in Joints(u, n + 2) <=> s \in Joints(u, c + 1))
    BY <1>1, <1>3 DEF Joints
  <2>4. Joints(u, n + 2) \subseteq 1 .. n + 1 /\ \A s \in Joints(u, c + 1) : s \in 1 .. n + 1 /\ s < c + 1
    BY <1>1 DEF Joints
  <2>5. \A s \in 1 .. n + 1 : s < c + 1 \/ s = c + 1 \/ s > c + 1
    BY <1>1, <1>3
  <2> QED
    BY <1>3, <2>1, <2>2, <2>3, <2>4, <2>5
<1> QED
  BY <1>7, <1>8 DEF n, u

\* So what is held behind it.
LEMMA LineHeld ==
  ASSUME NEW t \in Seq(Byte), NEW c \in Nat, c < Len(t), Unbroken(t, c),
         NEW m \in Nat, LastByte(t, m)
  PROVE  Held(Append(t, LF), Len(t) + 2)
           = Held(t, c + 1) + (IF t[c + 1] # Data THEN 0
                               ELSE IF Held(t, c + 1) = 0 THEN m - c - 1 ELSE m - c)
<1> DEFINE u == Append(t, LF)
           n == Len(t)
           B == Before(t, c + 1)
           J == Joints(t, c + 1)
<1>0. n \in Nat /\ c \in Nat /\ c + 1 \in Nat /\ c + 1 <= n /\ m \in {n - 1, n} /\ (m = n - 1 <=> t[n] = CR)
  <2>1. n \in Nat /\ c < n /\ m = IF t[n] = CR THEN n - 1 ELSE n
    BY DEF LastByte
  <2> HIDE DEF n
  <2> QED
    BY <2>1
<1>1. /\ Before(u, n + 2) = B \cup (IF t[c + 1] = Data THEN c + 2 .. m ELSE {})
      /\ Joints(u, n + 2) = J \cup (IF t[c + 1] = Data /\ B # {} THEN {c + 1} ELSE {})
  BY LineEnds
<1>2. /\ IsFiniteSet(B) /\ IsFiniteSet(J) /\ Cardinality(B) \in Nat /\ Cardinality(J) \in Nat
      /\ Held(t, c + 1) = Cardinality(B) + Cardinality(J) /\ (Held(t, c + 1) = 0 <=> B = {})
  BY <1>0, HeldFacts DEF Held
<1>3. (\A i \in B : i < c + 1) /\ (\A s \in J : s < c + 1)
  BY DEF Before, Joints
<1>4. Held(u, n + 2) = Cardinality(Before(u, n + 2)) + Cardinality(Joints(u, n + 2))
  BY DEF Held
<1> HIDE DEF B, J, u, n
<1>5. CASE t[c + 1] # Data
  <2>1. Before(u, n + 2) = B /\ Joints(u, n + 2) = J
    BY <1>1, <1>5
  <2> QED
    BY <1>2, <1>4, <1>5, <2>1, <1>0 DEF u, n
<1>6. CASE t[c + 1] = Data
  <2>1. m >= c + 1
    <3>1. CASE n = c + 1
      BY <1>0, <1>6, <3>1, Bytes
    <3>2. CASE n > c + 1
      BY <1>0, <3>2
    <3> QED
      BY <1>0, <3>1, <3>2
  <2>2. IsFiniteSet(c + 2 .. m) /\ Cardinality(c + 2 .. m) = m - c - 1
    <3>1. c + 2 \in Int /\ m \in Int /\ (IF c + 2 > m THEN 0 ELSE m - (c + 2) + 1) = m - c - 1
      BY <1>0, <2>1
    <3> QED
      BY <3>1, FS_Interval
  <2>3. B \cap (c + 2 .. m) = {}
    BY <1>3
  <2>4. Cardinality(B \cup (c + 2 .. m)) = Cardinality(B) + (m - c - 1)
    <3>1. Cardinality({}) = 0
      BY FS_EmptySet
    <3>2. m - c - 1 \in Nat
      BY <1>0, <2>1
    <3>3. Cardinality(B \cup (c + 2 .. m))
            = Cardinality(B) + Cardinality(c + 2 .. m) - Cardinality(B \cap (c + 2 .. m))
      BY <1>2, <2>2, FS_Union
    <3>4. Cardinality(B \cup (c + 2 .. m)) = Cardinality(B) + (m - c - 1) - 0
      BY <2>2, <2>3, <3>1, <3>3
    <3> QED
      BY <1>2, <3>2, <3>4
  <2>5. c + 1 \notin J
    BY <1>3
  <2>6. Cardinality(J \cup {c + 1}) = Cardinality(J) + 1
    BY <1>2, <2>5, FS_AddElement
  <2>7. CASE B = {}
    <3>1. Joints(u, n + 2) = J
      BY <1>1, <2>7
    <3> QED
      BY <1>1, <1>2, <1>4, <1>6, <2>1, <2>4, <2>7, <3>1, <1>0 DEF u, n
  <2>8. CASE B # {}
    <3>1. Joints(u, n + 2) = J \cup {c + 1}
      BY <1>1, <1>6, <2>8
    <3>2. Before(u, n + 2) = B \cup (c + 2 .. m)
      BY <1>1, <1>6
    <3>3. Held(u, n + 2) = Cardinality(B) + (m - c - 1) + (Cardinality(J) + 1)
      BY <1>4, <2>4, <2>6, <3>1, <3>2
    <3>4. Held(t, c + 1) # 0
      BY <1>2, <2>8
    <3>5. Held(u, n + 2) = Cardinality(B) + Cardinality(J) + (m - c)
      <4>1. \A x, y, a, b \in Nat : x + (a - b - 1) + (y + 1) = x + y + (a - b)
        OBVIOUS
      <4>2. Cardinality(B) \in Nat /\ Cardinality(J) \in Nat
        BY <1>2
      <4> QED
        BY <3>3, <4>1, <4>2
    <3>6. Held(u, n + 2) = Held(t, c + 1) + (m - c)
      BY <1>2, <3>5
    <3> QED
      BY <1>6, <3>4, <3>6 DEF u, n
  <2> QED
    BY <2>7, <2>8
<1> QED
  BY <1>5, <1>6

\* On a blank line, all data is of the lines before.
LEMMA BlankLine ==
  ASSUME NEW t \in Seq(Byte), NEW c \in 0 .. Len(t), Unbroken(t, c), OnBlankLine(t)
  PROVE  DataBytes(t) = Before(t, c + 1)
<1>1. DOMAIN t = 1 .. Len(t) /\ DataBytes(t) \subseteq 1 .. Len(t)
  BY DEF DataBytes
<1>2. Len(t) \in {c, c + 1}
  BY DEF OnBlankLine, Unbroken
<1>3. ASSUME Len(t) = c + 1, c + 1 \in DataBytes(t) PROVE FALSE
  <2>1. PICK s \in 1 .. c : InLine(t, s, c + 1)
    BY <1>3 DEF DataBytes
  <2>2. s \in 1 .. c + 1 /\ c + 1 \in c + 1 .. Len(t) + 1
    BY <1>3
  <2>3. InLine(t, s, c + 1) <=> s = c + 1
    BY <2>2, LastLine
  <2> QED
    BY <2>1, <2>3
<1>4. \A i \in DataBytes(t) : i < c + 1
  <2>1. Len(t) \in Nat /\ c \in Nat
    OBVIOUS
  <2>2. CASE Len(t) = c
    BY <1>1, <2>1, <2>2
  <2>3. CASE Len(t) = c + 1
    BY <1>1, <1>3, <2>1, <2>3
  <2> QED
    BY <1>2, <2>2, <2>3
<1> QED
  BY <1>4 DEF Before

\* The one element of a set, and what stands there.
Sole(f, S, p) == \E i \in S : S = {i} /\ f[i] = p

\* The one byte of two parts that have none in common lies in one of them.
LEMMA SoleUnion ==
  ASSUME NEW f, NEW A, NEW L, A \cap L = {}, NEW p
  PROVE  Sole(f, A \cup L, p) <=> (L = {} /\ Sole(f, A, p)) \/ (A = {} /\ Sole(f, L, p))
<1>1. ASSUME Sole(f, A \cup L, p)
      PROVE  (L = {} /\ Sole(f, A, p)) \/ (A = {} /\ Sole(f, L, p))
  <2>1. PICK i \in A \cup L : A \cup L = {i} /\ f[i] = p
    BY <1>1 DEF Sole
  <2>2. CASE i \in A
    <3>1. L = {} /\ A = {i}
      BY <2>1, <2>2
    <3> QED
      BY <2>1, <3>1 DEF Sole
  <2>3. CASE i \in L
    <3>1. A = {} /\ L = {i}
      BY <2>1, <2>3
    <3> QED
      BY <2>1, <3>1 DEF Sole
  <2> QED
    BY <2>2, <2>3
<1>2. ASSUME L = {}, Sole(f, A, p) PROVE Sole(f, A \cup L, p)
  <2>1. A \cup L = A
    BY <1>2
  <2> QED
    BY <1>2, <2>1
<1>3. ASSUME A = {}, Sole(f, L, p) PROVE Sole(f, A \cup L, p)
  <2>1. A \cup L = L
    BY <1>3
  <2> QED
    BY <1>3, <2>1
<1> QED
  BY <1>1, <1>2, <1>3

\* M is L, d further, and the same stands there.
Shifted(f, L, d, g, M) ==
  /\ L \subseteq Int /\ d \in Int
  /\ \A i \in L : i + d \in M /\ g[i + d] = f[i]
  /\ \A k \in M : \E i \in L : k = i + d

\* The one byte of a part is that of its copy.
LEMMA SoleShift ==
  ASSUME NEW f, NEW L, NEW d, NEW g, NEW M, Shifted(f, L, d, g, M), NEW p
  PROVE  (L = {} <=> M = {}) /\ (Sole(f, L, p) <=> Sole(g, M, p))
<1>1. /\ L \subseteq Int /\ d \in Int
      /\ \A i \in L : i + d \in M /\ g[i + d] = f[i]
      /\ \A k \in M : \E i \in L : k = i + d
  BY DEF Shifted
<1>3. L = {} <=> M = {}
  BY <1>1
<1>4. ASSUME Sole(f, L, p) PROVE Sole(g, M, p)
  <2>1. PICK i \in L : L = {i} /\ f[i] = p
    BY <1>4 DEF Sole
  <2>2. M = {i + d}
    BY <1>1, <2>1
  <2> QED
    BY <1>1, <2>1, <2>2 DEF Sole
<1>5. ASSUME Sole(g, M, p) PROVE Sole(f, L, p)
  <2>1. PICK k \in M : M = {k} /\ g[k] = p
    BY <1>5 DEF Sole
  <2>2. PICK i \in L : k = i + d
    BY <1>1, <2>1
  <2>3. ASSUME NEW j \in L PROVE j = i
    <3>1. j + d = i + d /\ j \in Int /\ i \in Int /\ d \in Int
      BY <1>1, <2>1, <2>2
    <3> QED
      BY <3>1
  <2>4. L = {i}
    BY <1>1, <2>2, <2>3
  <2> QED
    BY <1>1, <2>1, <2>2, <2>4 DEF Sole
<1> QED
  BY <1>3, <1>4, <1>5

\* Data, a newline, and what is joined to it.
LEMMA Pieces ==
  ASSUME NEW a \in Nat, NEW b \in Nat, b >= 1, NEW o, o = a + 1
  PROVE  /\ o \in Nat /\ o + b - 1 = a + b
         /\ \A k \in 1 .. o + b - 1 : k \in 1 .. a \/ k = a + 1 \/ k \in o + 1 .. o + b - 1
         /\ \A k \in 1 .. a : k \in 1 .. o + b - 1 /\ k \notin o + 1 .. o + b - 1
         /\ \A k \in o + 1 .. o + b - 1 : k \in 1 .. o + b - 1
  OBVIOUS

\* The bytes that are no blanks to JSON, in data and in the lines before a byte.
SolidIn(d) == {k \in DOMAIN d : d[k] \notin {LF, CR}}
SolidOf(t, s) == {i \in Before(t, s) : t[i] # CR}

\* Of these there are none in both, or the same one, or several in both.
AsHeld(d, t, s) ==
  /\ SolidIn(d) = {} <=> SolidOf(t, s) = {}
  /\ \A p \in Byte : Sole(d, SolidIn(d), p) <=> Sole(t, SolidOf(t, s), p)

\* A byte that comes changes nothing in the lines before its own.
LEMMA AsHeldExtended ==
  ASSUME NEW t \in Seq(Byte), NEW b \in Byte, NEW s \in 1 .. Len(t) + 1, Begins(t, s),
         NEW d, AsHeld(d, t, s)
  PROVE  AsHeld(d, Append(t, b), s)
<1> DEFINE u == Append(t, b)
<1>1. Before(u, s) = Before(t, s)
  BY BeforeExtended
<1>2. \A i \in Before(t, s) : u[i] = t[i]
  BY DEF Before, DataBytes
<1> HIDE DEF u
<1>3. SolidOf(u, s) = SolidOf(t, s)
  BY <1>1, <1>2 DEF SolidOf
<1>4. \A i \in SolidOf(t, s) : u[i] = t[i]
  BY <1>2 DEF SolidOf
<1>5. \A p : Sole(u, SolidOf(t, s), p) <=> Sole(t, SolidOf(t, s), p)
  BY <1>4 DEF Sole
<1> QED
  BY <1>3, <1>5 DEF AsHeld, u

\* l is what the bytes behind byte c are, up to byte m.
Line(t, c, m, l) == Len(l) = m - c /\ \A k \in 1 .. Len(l) : l[k] = t[c + k]

\* A data line brings the same to both.
LEMMA LineContent ==
  ASSUME NEW t \in Seq(Byte), NEW c \in Nat, c < Len(t), Unbroken(t, c),
         NEW m \in Nat, LastByte(t, m),
         NEW d \in Seq(Byte), d = data,
         NEW l \in Seq(Byte), IsData(l), Line(t, c, m, l), AsHeld(d, t, c + 1)
  PROVE  AsHeld(Joined(l), Append(t, LF), Len(t) + 2)
<1> DEFINE n == Len(t)
           u == Append(t, LF)
           e == Joined(l)
           off == IF d = <<>> THEN 0 ELSE Len(d) + 1
           A == SolidIn(d)
           A2 == SolidOf(t, c + 1)
           L == {k \in off + 1 .. off + Len(l) - 1 : e[k] \notin {LF, CR}}
           L2 == {i \in c + 2 .. m : t[i] # CR}
           by == off - c - 1
<1>1. n \in Nat /\ m \in {n - 1, n} /\ c < n /\ t[c + 1] = Data /\ Len(l) >= 1 /\ Len(d) \in Nat
      /\ Len(l) = m - c
  <2>1. n \in Nat /\ m = IF t[n] = CR THEN n - 1 ELSE n
    BY DEF LastByte
  <2>2. Len(l) >= 1 /\ l[1] = Data
    BY DEF IsData
  <2> QED
    BY <2>1, <2>2, SMTT(25) DEF Line
<1>0. Len(l) \in Nat /\ Len(d) \in Nat /\ Len(l) >= 1
  BY <1>1
<1>2. DOMAIN u = 1 .. n + 1 /\ \A i \in 1 .. n : u[i] = t[i]
  BY Bytes
<1>3. Before(u, n + 2) = Before(t, c + 1) \cup (c + 2 .. m)
  BY <1>1, LineEnds
<1>4. Before(t, c + 1) \subseteq 1 .. c
  <2>1. Before(t, c + 1) \subseteq 1 .. n /\ \A i \in Before(t, c + 1) : i < c + 1
    BY DEF Before, DataBytes
  <2> HIDE DEF n
  <2> QED
    BY <1>1, <2>1
<1>5. SolidOf(u, n + 2) = A2 \cup L2
  <2>1. \A i \in Before(t, c + 1) \cup (c + 2 .. m) : i \in 1 .. n /\ u[i] = t[i]
    <3> HIDE DEF n, u
    <3> QED
      BY <1>1, <1>2, <1>4, SMTT(25)
  <2> HIDE DEF n, u
  <2> QED
    BY <1>3, <2>1 DEF SolidOf
<1>6. A2 \cap L2 = {}
  BY <1>4 DEF SolidOf
<1>7. /\ off \in Nat /\ e \in Seq(Byte) /\ DOMAIN e = 1 .. off + Len(l) - 1
      /\ \A k \in 1 .. Len(l) - 1 : e[off + k] = l[k + 1]
  <2>1. CASE d = <<>>
    <3>1. e \in Seq(Byte) /\ Len(e) = Len(l) - 1 /\ \A k \in 1 .. Len(l) - 1 : e[k] = l[k + 1]
      BY <2>1, JoinedFacts
    <3>2. off = 0
      BY <2>1
    <3> HIDE DEF e, off
    <3> QED
      BY <1>1, <3>1, <3>2
  <2>2. CASE d # <<>>
    <3>1. /\ e \in Seq(Byte) /\ Len(e) = Len(d) + Len(l)
          /\ \A k \in 1 .. Len(l) - 1 : e[Len(d) + 1 + k] = l[k + 1]
      BY <2>2, JoinedFacts
    <3>2. off = Len(d) + 1
      BY <2>2
    <3>4. DOMAIN e = 1 .. Len(e)
      BY <3>1
    <3> HIDE DEF e, off
    <3>3. off + Len(l) - 1 = Len(d) + Len(l)
      BY <1>0, <3>2, Pieces
    <3> QED
      BY <1>1, <3>1, <3>2, <3>3, <3>4
  <2> QED
    BY <2>1, <2>2
<1>8. SolidIn(e) = A \cup L /\ A \cap L = {} /\ \A k \in A : e[k] = d[k]
  <2>1. CASE d = <<>>
    <3>1. A = {} /\ off = 0
      BY <2>1 DEF SolidIn
    <3> HIDE DEF e, off, A
    <3> QED
      BY <1>7, <3>1 DEF SolidIn
  <2>2. CASE d # <<>>
    <3>1. /\ \A k \in 1 .. Len(d) : e[k] = d[k]
          /\ e[Len(d) + 1] = LF
      BY <2>2, JoinedFacts
    <3>2. off = Len(d) + 1 /\ DOMAIN d = 1 .. Len(d)
      BY <2>2
    <3> HIDE DEF e, off
    <3>7. off + Len(l) - 1 = Len(d) + Len(l) /\ Len(l) \in Nat /\ Len(l) >= 1
      BY <1>0, <3>2, Pieces
    <3>3. \A k \in 1 .. off + Len(l) - 1 :
            k \in 1 .. Len(d) \/ k = Len(d) + 1 \/ k \in off + 1 .. off + Len(l) - 1
      BY <1>0, <3>2, Pieces
    <3>4. \A k \in SolidIn(e) : k \in A \cup L
      BY <1>7, <3>1, <3>2, <3>3 DEF SolidIn
    <3>5. \A k \in A \cup L : k \in SolidIn(e)
      <4>1. 1 .. Len(d) \subseteq DOMAIN e /\ off + 1 .. off + Len(l) - 1 \subseteq DOMAIN e
        BY <1>0, <1>7, <3>2, Pieces
      <4> QED
        BY <3>1, <3>2, <4>1 DEF SolidIn
    <3>6. A \cap L = {}
      <4>1. \A k \in 1 .. Len(d) : k \notin off + 1 .. off + Len(l) - 1
        BY <1>0, <3>2, Pieces
      <4> QED
        BY <3>2, <4>1 DEF SolidIn
    <3> QED
      BY <3>1, <3>2, <3>4, <3>5, <3>6 DEF SolidIn
  <2> QED
    BY <2>1, <2>2
<1> HIDE DEF n, u, e, off, A, A2
<1>9. by \in Int /\ \A i \in c + 2 .. m : i + by \in off + 1 .. off + Len(l) - 1 /\ e[i + by] = t[i]
  <2>1. by \in Int
    BY <1>7
  <2>2. ASSUME NEW i \in c + 2 .. m PROVE i + by \in off + 1 .. off + Len(l) - 1 /\ e[i + by] = t[i]
    <3>1. i - c - 1 \in 1 .. Len(l) - 1 /\ i + by = off + (i - c - 1)
      <4>1. i \in Int /\ i >= c + 2 /\ i <= m /\ Len(l) - 1 = m - c - 1 /\ off \in Nat
        BY <1>1, <1>7, <2>2
      <4> QED
        BY <4>1
    <3>2. e[off + (i - c - 1)] = l[(i - c - 1) + 1]
      BY <1>7, <3>1
    <3>3. (i - c - 1) + 1 \in 1 .. Len(l) /\ c + ((i - c - 1) + 1) = i
      BY <1>1, <2>2, <3>1
    <3>4. l[(i - c - 1) + 1] = t[i]
      BY <3>3 DEF Line
    <3> QED
      BY <1>7, <3>1, <3>2, <3>4
  <2> QED
    BY <2>1, <2>2
<1>10. (\A i \in L2 : i + by \in L) /\ \A k \in L : \E i \in L2 : k = i + by
  <2>1. \A i \in L2 : i + by \in L
    <3>1. \A i \in L2 : t[i] # LF
      BY <1>1 DEF n, Unbroken
    <3> QED
      BY <1>9, <3>1
  <2>2. ASSUME NEW k \in L PROVE \E i \in L2 : k = i + by
    <3>1. k - by \in c + 2 .. m /\ k = (k - by) + by
      <4>1. k \in Int /\ k >= off + 1 /\ k <= off + (m - c) - 1 /\ off \in Nat
        BY <1>1, <1>7, <2>2 DEF L
      <4> QED
        BY <4>1 DEF by
    <3>2. e[k] = t[k - by]
      BY <1>9, <3>1
    <3> QED
      BY <2>2, <3>1, <3>2
  <2> HIDE DEF L, L2, by
  <2> QED
    BY <2>1, <2>2
<1>11. (L2 = {} <=> L = {}) /\ \A p : Sole(t, L2, p) <=> Sole(e, L, p)
  <2>1. by \in Int /\ L2 \in SUBSET Int /\ \A i \in L2 : e[i + by] = t[i]
    BY <1>9
  <2> HIDE DEF L, L2, by
  <2>2. Shifted(t, L2, by, e, L)
    BY <1>10, <2>1 DEF Shifted
  <2> QED
    BY <2>2, SoleShift
<1> HIDE DEF L, L2, by
<1>12. \A p : Sole(e, A, p) <=> Sole(d, A, p)
  BY <1>8 DEF Sole
<1>13. \A p : Sole(u, A2 \cup L2, p) <=> Sole(t, A2 \cup L2, p)
  <2>1. \A i \in A2 \cup L2 : i \in 1 .. n
    BY <1>1, <1>4 DEF A2, L2, SolidOf
  <2> QED
    BY <1>2, <2>1 DEF Sole
<1>14. ASSUME NEW p \in Byte
       PROVE  Sole(e, SolidIn(e), p) <=> Sole(u, SolidOf(u, n + 2), p)
  <2>1. Sole(e, A \cup L, p) <=> (L = {} /\ Sole(e, A, p)) \/ (A = {} /\ Sole(e, L, p))
    BY <1>8, SoleUnion
  <2>2. Sole(t, A2 \cup L2, p) <=> (L2 = {} /\ Sole(t, A2, p)) \/ (A2 = {} /\ Sole(t, L2, p))
    BY <1>6, SoleUnion
  <2>3. (A = {} <=> A2 = {}) /\ (Sole(d, A, p) <=> Sole(t, A2, p))
    BY DEF AsHeld, A, A2
  <2> QED
    BY <1>5, <1>8, <1>11, <1>12, <1>13, <2>1, <2>2, <2>3
<1>15. SolidIn(e) = {} <=> SolidOf(u, n + 2) = {}
  <2>1. A = {} <=> A2 = {}
    BY DEF AsHeld, A, A2
  <2> QED
    BY <1>5, <1>8, <1>11, <2>1
<1> QED
  BY <1>14, <1>15 DEF AsHeld, n, u, e

-----------------------------------------------------------------------------
(* What is merged is what has been told.                                   *)

\* The three verdicts.
LEMMA VerdictIs ==
  ASSUME NEW V
  PROVE  /\ V \subseteq {Absent} <=> Verdict(V) = Absent
         /\ \A v \in V : v # Absent /\ V \subseteq {Absent, v} => Verdict(V) = v
         /\ (\E v, w \in V : v # Absent /\ w # Absent /\ v # w) => Verdict(V) = Bad
<1>1. Absent # Bad
  BY ObservationAssumption
<1>2. CASE V \subseteq {Absent}
  <2>1. Verdict(V) = Absent
    BY <1>2 DEF Verdict
  <2> QED
    BY <1>2, <2>1
<1>3. ASSUME NEW v \in V, v # Absent, V \subseteq {Absent, v}
      PROVE  Verdict(V) = v
  <2>1. Verdict(V) = CHOOSE w \in V : w # Absent
    BY <1>3 DEF Verdict
  <2> QED
    BY <1>3, <2>1
<1>4. ASSUME NEW v \in V, NEW w \in V, v # Absent, w # Absent, v # w
      PROVE  Verdict(V) = Bad
  <2>1. ~(V \subseteq {Absent}) /\ ~\E x \in V : V \subseteq {Absent, x}
    BY <1>4
  <2> QED
    BY <2>1 DEF Verdict
<1>5. CASE ~(V \subseteq {Absent})
  <2>1. PICK v \in V : v # Absent
    BY <1>5
  <2>2. CASE V \subseteq {Absent, v}
    BY <1>3, <1>4, <1>5, <2>1, <2>2
  <2>3. CASE ~(V \subseteq {Absent, v})
    <3>1. PICK w \in V : w # Absent /\ w # v
      BY <2>3
    <3>2. Verdict(V) = Bad
      BY <1>4, <2>1, <3>1
    <3>3. \A x \in V : x # Absent => ~(V \subseteq {Absent, x})
      BY <2>1, <3>1
    <3> QED
      BY <1>1, <1>5, <3>2, <3>3
  <2> QED
    BY <2>2, <2>3
<1> QED
  BY <1>2, <1>5, <1>3, <1>4

\* One more value, as Merge has it.
LEMMA VerdictMore ==
  ASSUME NEW V, NEW v
  PROVE  Merge(Verdict(V), v) = Verdict(V \cup {v})
<1> DEFINE W == V \cup {v}
<1>1. Absent # Bad
  BY ObservationAssumption
<1>2. CASE v = Absent
  <2>1. Merge(Verdict(V), v) = Verdict(V)
    BY <1>2 DEF Merge
  <2>2. CASE V \subseteq {Absent}
    <3>1. W \subseteq {Absent}
      BY <1>2, <2>2
    <3> QED
      BY <2>1, <2>2, <3>1, VerdictIs
  <2>3. ASSUME NEW x \in V, x # Absent, V \subseteq {Absent, x}
        PROVE  Verdict(V) = Verdict(W)
    <3>1. W \subseteq {Absent, x} /\ x \in W
      BY <1>2, <2>3
    <3> QED
      BY <2>3, <3>1, VerdictIs
  <2>4. ASSUME NEW x \in V, NEW y \in V, x # Absent, y # Absent, x # y
        PROVE  Verdict(V) = Verdict(W)
    <3>1. x \in W /\ y \in W
      OBVIOUS
    <3>2. Verdict(V) = Bad
      BY <2>4, VerdictIs
    <3>3. Verdict(W) = Bad
      BY <2>4, <3>1, VerdictIs
    <3> QED
      BY <3>2, <3>3
  <2> QED
    BY <2>1, <2>2, <2>3, <2>4
<1>3. CASE v # Absent
  <2>0. v \in W
    OBVIOUS
  <2>1. CASE V \subseteq {Absent, v}
    <3>1. W \subseteq {Absent, v}
      BY <2>1
    <3>2. Verdict(W) = v
      BY <1>3, <2>0, <3>1, VerdictIs
    <3>3. Verdict(V) \in {Absent, v}
      <4>1. CASE V \subseteq {Absent}
        BY <4>1, VerdictIs
      <4>2. CASE v \in V
        BY <1>3, <2>1, <4>2, VerdictIs
      <4> QED
        BY <2>1, <4>1, <4>2
    <3> QED
      BY <1>3, <3>2, <3>3 DEF Merge
  <2>2. CASE ~(V \subseteq {Absent, v})
    <3>1. PICK w \in V : w # Absent /\ w # v
      BY <2>2
    <3>2. Verdict(W) = Bad
      <4>1. w \in W
        OBVIOUS
      <4> QED
        BY <1>3, <2>0, <3>1, <4>1, VerdictIs
    <3>3. Verdict(V) \in {w, Bad}
      <4>1. CASE V \subseteq {Absent, w}
        BY <3>1, <4>1, VerdictIs
      <4>2. ASSUME NEW y \in V, y # Absent, y # w PROVE Verdict(V) = Bad
        BY <3>1, <4>2, VerdictIs
      <4> QED
        BY <4>1, <4>2
    <3>4. Verdict(V) # Absent
      BY <3>1, VerdictIs
    <3>5. CASE Verdict(V) = Bad
      BY <1>1, <1>3, <3>2, <3>5 DEF Merge
    <3>6. CASE Verdict(V) = w
      BY <1>3, <3>1, <3>2, <3>6 DEF Merge
    <3> QED
      BY <3>3, <3>5, <3>6
  <2> QED
    BY <2>1, <2>2
<1> QED
  BY <1>2, <1>3

\* What MergedAsTold says of what is merged and what has been told.
Chosen(T) == {p.choice : p \in T} \ {Absent, Bad}
FinishesOf(C, i) == {c.finish : c \in {d \in C : d.index = i}}
ToolsOf(C) == UNION {{c.index} \X c.tools : c \in C}

UsageAs(st, T) == \A f \in Field : st.usage[f] = Verdict({p.usage[f] : p \in T})
FinishesAs(st, C) ==
  ~st.overflowed =>
    /\ DOMAIN st.finishes = {c.index : c \in C}
    /\ \A i \in DOMAIN st.finishes : st.finishes[i] = Verdict(FinishesOf(C, i))
ToolsAs(st, C) == st.calls = Absent /\ ~st.toolsBad => st.tools = ToolsOf(C)

MergedAs(st, T) == UsageAs(st, T) /\ FinishesAs(st, Chosen(T)) /\ ToolsAs(st, Chosen(T))

\* The property, as a relation of the state and what was told.
LEMMA MergedAsIs == MergedAsTold <=> MergedAs(state, told)
  BY DEF MergedAsTold, MergedAs, UsageAs, FinishesAs, ToolsAs, Chosen, FinishesOf, ToolsOf

\* A finish is merged with those of its index.
LEMMA FinishMore ==
  ASSUME NEW st \in Merged, RoomFor(st), NEW C, NEW c, c.index \in Nat, c.finish \in ToldReason,
         FinishesAs(st, C)
  PROVE  FinishesAs(WithFinish(st, c.index, c.finish), C \cup {c})
<1> DEFINE i == c.index
           w == WithFinish(st, i, c.finish)
           known == DOMAIN st.finishes
           seen(j) == IF j \in known THEN st.finishes[j] ELSE Absent
           kept == [j \in known \cup {i} |-> IF j = i THEN Merge(seen(j), c.finish) ELSE seen(j)]
<1>1. CASE i \notin known /\ Cardinality(known) >= MaxIndexed
  <2>1. w.overflowed
    BY <1>1 DEF WithFinish, Merged
  <2> QED
    BY <2>1 DEF FinishesAs
<1>2. CASE ~(i \notin known /\ Cardinality(known) >= MaxIndexed)
  <2>1. w = [st EXCEPT !.finishes = kept]
    BY <1>2 DEF WithFinish
  <2>2. w.finishes = kept /\ w.overflowed = st.overflowed
    <3> HIDE DEF kept
    <3> QED
      BY <2>1 DEF Merged
  <2>3. SUFFICES ASSUME ~st.overflowed
                 PROVE  /\ known \cup {i} = {d.index : d \in C \cup {c}}
                        /\ \A j \in known \cup {i} : kept[j] = Verdict(FinishesOf(C \cup {c}, j))
    <3>1. DOMAIN kept = known \cup {i}
      OBVIOUS
    <3> HIDE DEF kept
    <3> QED
      BY <2>2, <3>1 DEF FinishesAs
  <2>4. known = {d.index : d \in C} /\ \A j \in known : st.finishes[j] = Verdict(FinishesOf(C, j))
    BY <2>3 DEF FinishesAs
  <2>5. \A j : seen(j) = Verdict(FinishesOf(C, j))
    <3>1. ASSUME NEW j, j \notin known PROVE Verdict(FinishesOf(C, j)) = Absent
      <4>1. FinishesOf(C, j) = {}
        BY <2>4, <3>1 DEF FinishesOf
      <4> QED
        BY <4>1, VerdictIs
    <3> QED
      BY <2>4, <3>1
  <2>6. known \cup {i} = {d.index : d \in C \cup {c}}
    BY <2>4
  <2>7. ASSUME NEW j \in known \cup {i}
        PROVE  kept[j] = Verdict(FinishesOf(C \cup {c}, j))
    <3>1. CASE j = i
      <4>1. FinishesOf(C \cup {c}, i) = FinishesOf(C, i) \cup {c.finish}
        BY DEF FinishesOf
      <4>2. kept[i] = Merge(seen(i), c.finish)
        OBVIOUS
      <4>3. seen(i) = Verdict(FinishesOf(C, i))
        BY <2>5
      <4> HIDE DEF kept, seen, i
      <4> QED
        BY <3>1, <4>1, <4>2, <4>3, VerdictMore
    <3>2. CASE j # i
      <4>1. FinishesOf(C \cup {c}, j) = FinishesOf(C, j)
        BY <3>2 DEF FinishesOf
      <4>2. kept[j] = seen(j)
        BY <3>2
      <4> QED
        BY <2>5, <4>1, <4>2
    <3> QED
      BY <3>1, <3>2
  <2> QED
    BY <2>6, <2>7
<1> QED
  BY <1>1, <1>2

\* The tools are those of all choices, unless there is no room for them.
LEMMA ToolsMore ==
  ASSUME NEW st \in Merged, NEW C, NEW c, c.toolsBad \in BOOLEAN, ToolsAs(st, C)
  PROVE  ToolsAs(WithTools(st, {c.index} \X c.tools, c.toolsBad), C \cup {c})
<1> DEFINE pairs == {c.index} \X c.tools
           w == WithTools(st, pairs, c.toolsBad)
<1>1. ToolsOf(C \cup {c}) = ToolsOf(C) \cup pairs
  BY DEF ToolsOf
<1> HIDE DEF pairs
<1>2. CASE Cardinality(st.tools \cup pairs) <= MaxIndexed
  <2>1. w = [st EXCEPT !.tools = st.tools \cup pairs, !.toolsBad = st.toolsBad \/ c.toolsBad]
    BY <1>2 DEF WithTools
  <2>2. w.tools = st.tools \cup pairs /\ (~w.toolsBad => ~st.toolsBad) /\ w.calls = st.calls
    BY <2>1 DEF Merged
  <2> HIDE DEF w
  <2> QED
    BY <1>1, <2>2 DEF ToolsAs, w, pairs
<1>3. CASE ~(Cardinality(st.tools \cup pairs) <= MaxIndexed)
  <2>1. w.toolsBad
    BY <1>3 DEF WithTools, Merged
  <2> QED
    BY <2>1 DEF ToolsAs, pairs
<1> QED
  BY <1>2, <1>3

\* One more text.
LEMMA MergedMore ==
  ASSUME NEW st \in Merged, RoomFor(st), NEW T, NEW p \in Text, MergedAs(st, T)
  PROVE  MergedAs(Observe(st, p), T \cup {p})
<1> DEFINE told_ == [WithUsage(st, p) EXCEPT !.listed = @ \/ p.listed]
           c == p.choice
           C == Chosen(T)
           D == Chosen(T \cup {p})
           finished == WithFinish(told_, c.index, c.finish)
           w == Observe(st, p)
<1>1. /\ told_ \in Merged /\ RoomFor(told_)
      /\ told_.usage = [f \in Field |-> Merge(st.usage[f], p.usage[f])]
      /\ told_.finishes = st.finishes /\ told_.tools = st.tools
      /\ told_.overflowed = st.overflowed /\ told_.toolsBad = st.toolsBad
      /\ told_.calls = st.calls
  BY WithUsageTyped
<1>2. D = IF c \in {Absent, Bad} THEN C ELSE C \cup {c}
  BY DEF Chosen
<1>3. UsageAs(told_, T \cup {p})
  <2>1. ASSUME NEW f \in Field
        PROVE  Merge(st.usage[f], p.usage[f]) = Verdict({q.usage[f] : q \in T \cup {p}})
    <3>1. {q.usage[f] : q \in T \cup {p}} = {q.usage[f] : q \in T} \cup {p.usage[f]}
      OBVIOUS
    <3>2. st.usage[f] = Verdict({q.usage[f] : q \in T})
      BY DEF MergedAs, UsageAs
    <3> QED
      BY <3>1, <3>2, VerdictMore
  <2> HIDE DEF told_
  <2> QED
    BY <1>1, <2>1 DEF UsageAs
<1>4. FinishesAs(told_, C) /\ ToolsAs(told_, C)
  BY <1>1 DEF MergedAs, FinishesAs, ToolsAs
<1> HIDE DEF told_
<1>5. CASE c = Absent
  <2>1. w = told_ /\ D = C
    BY <1>2, <1>5 DEF Observe, told_
  <2> QED
    BY <1>3, <1>4, <2>1 DEF MergedAs
<1>6. CASE c # Absent /\ c = Bad
  <2>1. w = [told_ EXCEPT !.toolsBad = TRUE] /\ D = C
    BY <1>2, <1>6 DEF Observe, told_
  <2>2. w.usage = told_.usage /\ w.finishes = told_.finishes /\ w.overflowed = told_.overflowed
        /\ w.toolsBad
    BY <1>1, <2>1 DEF Merged
  <2>3. UsageAs(w, T \cup {p}) /\ FinishesAs(w, C) /\ ToolsAs(w, C)
    BY <1>3, <1>4, <2>2 DEF UsageAs, FinishesAs, ToolsAs
  <2> QED
    BY <2>1, <2>3 DEF MergedAs
<1>7. CASE c \notin {Absent, Bad}
  <2>1. w = WithTools(finished, {c.index} \X c.tools, c.toolsBad)
    BY <1>7 DEF Observe, told_
  <2>2. c.index \in Nat /\ c.finish \in ToldReason /\ c.tools \in SUBSET Nat /\ c.toolsBad \in BOOLEAN
    BY <1>7, TextFacts
  <2>3. finished \in Merged /\ RoomFor(finished) /\ finished.usage = told_.usage
    BY <1>1, <2>2, WithFinishTyped
  <2>4. FinishesAs(finished, C \cup {c})
    BY <1>1, <1>4, <2>2, FinishMore
  <2>5. finished.tools = told_.tools /\ finished.toolsBad = told_.toolsBad
        /\ finished.calls = told_.calls
    BY <1>1 DEF WithFinish, Merged
  <2>6. ToolsAs(finished, C)
    BY <1>4, <2>5 DEF ToolsAs
  <2> HIDE DEF finished
  <2>7. ToolsAs(w, C \cup {c})
    BY <2>1, <2>2, <2>3, <2>6, ToolsMore
  <2>8. w.usage = told_.usage
    BY <2>1, <2>2, <2>3, WithToolsTyped
  <2>9. w.finishes = finished.finishes /\ w.overflowed = finished.overflowed
    BY <2>1, <2>3 DEF WithTools, Merged
  <2>10. D = C \cup {c}
    BY <1>2, <1>7
  <2> HIDE DEF w, C, D, c
  <2>11. UsageAs(w, T \cup {p}) /\ FinishesAs(w, D) /\ ToolsAs(w, D)
    BY <1>3, <2>4, <2>7, <2>8, <2>9, <2>10 DEF UsageAs, FinishesAs
  <2> QED
    BY <2>11 DEF MergedAs, w, C, D, c
<1> QED
  BY <1>5, <1>6, <1>7

-----------------------------------------------------------------------------
(* What is held is what the bytes say.                                     *)

\* While an event is discarded, the line that the next newline would end is blank if
\* the bytes say that it is.
Dropped ==
  /\ text # <<>>
  /\ discard.content <=> ~OnBlankLine(text)
  /\ ~discard.content => (discard.cr <=> text[Len(text)] = CR)

\* Otherwise the line is the last one of the bytes, and data what the lines before have
\* brought.
Kept ==
  LET c == Len(text) - Len(line)
  IN  /\ c \in Nat /\ Unbroken(text, c) /\ Line(text, c, Len(text), line)
      /\ Len(data) = Held(text, c + 1)
      /\ AsHeld(data, text, c + 1)

Followed ==
  /\ discard.event <=> TooLarge(text)
  /\ discard.event => Dropped
  /\ ~discard.event => Kept

\* Of an event that has not begun.
LEMMA NothingHeld ==
  /\ ~TooLarge(<<>>) /\ Unbroken(<<>>, 0) /\ Line(<<>>, 0, 0, <<>>)
  /\ Held(<<>>, 1) = 0 /\ AsHeld(<<>>, <<>>, 1)
<1>1. Before(<<>>, 1) = {} /\ Joints(<<>>, 1) = {} /\ ~TooLarge(<<>>)
  BY DEF Before, Joints, DataBytes, TooLarge
<1>2. Held(<<>>, 1) = 0
  <2>1. Cardinality({}) = 0
    BY FS_EmptySet
  <2>2. Held(<<>>, 1) = Cardinality({}) + Cardinality({})
    BY <1>1, Zenon DEF Held
  <2> QED
    BY <2>1, <2>2
<1>3. SolidIn(<<>>) = {} /\ SolidOf(<<>>, 1) = {}
  BY <1>1 DEF SolidIn, SolidOf
<1>4. AsHeld(<<>>, <<>>, 1)
  BY <1>3 DEF AsHeld, Sole
<1>5. Unbroken(<<>>, 0) /\ Line(<<>>, 0, 0, <<>>)
  BY DEF Unbroken, Begins, Line
<1> QED
  BY <1>1, <1>2, <1>4, <1>5

\* An event that has not begun is held as it is.
LEMMA FreshFollowed ==
  ASSUME text = <<>>, line = <<>>, data = <<>>, discard = Fresh
  PROVE  Followed
  BY NothingHeld DEF Followed, Kept, Fresh

\* A line that is no data changes nothing.
LEMMA LineSkipped ==
  ASSUME NEW t \in Seq(Byte), NEW c \in Nat, c < Len(t), Unbroken(t, c), t[c + 1] # Data,
         NEW d, AsHeld(d, t, c + 1)
  PROVE  AsHeld(d, Append(t, LF), Len(t) + 2)
<1> DEFINE u == Append(t, LF)
           n == Len(t)
<1>1. PICK m \in Nat : LastByte(t, m)
  <2>1. n \in Nat /\ n >= 1
    OBVIOUS
  <2>2. n - 1 \in Nat
    BY <2>1
  <2> QED
    BY <2>1, <2>2 DEF LastByte
<1>2. Before(u, n + 2) = Before(t, c + 1)
  BY <1>1, LineEnds
<1>3. \A i \in Before(t, c + 1) : u[i] = t[i]
  BY Bytes DEF Before, DataBytes
<1> HIDE DEF u, n
<1>4. SolidOf(u, n + 2) = SolidOf(t, c + 1) /\ \A i \in SolidOf(t, c + 1) : u[i] = t[i]
  BY <1>2, <1>3 DEF SolidOf
<1>5. \A p : Sole(u, SolidOf(t, c + 1), p) <=> Sole(t, SolidOf(t, c + 1), p)
  BY <1>4 DEF Sole
<1> QED
  BY <1>4, <1>5 DEF AsHeld, u, n

\* What the next byte makes of the line.
LEMMA LineNext ==
  ASSUME ObserverTyped, Kept, NEW b \in Byte, NEW c, c = Len(text) - Len(line)
  PROVE  /\ c \in 0 .. Len(text)
         /\ Line(Append(text, b), c, Len(text) + 1, Append(line, b))
         /\ Size(Append(line, b))
              = ((Len(text) + 1) - c) + (IF Append(text, b)[c + 1] = Data THEN 1 ELSE 0)
<1> DEFINE n == Len(text)
           u == Append(text, b)
           l == Append(line, b)
           k == Len(line)
<1>1. /\ c \in Nat /\ k \in Nat /\ n \in Nat /\ k = n - c
      /\ \A j \in 1 .. k : line[j] = text[c + j]
  BY DEF ObserverTyped, ObserverTypeOK, Kept, Line
<1>2. /\ \A j \in 1 .. n : u[j] = text[j]
      /\ u[n + 1] = b
  BY DEF ObserverTyped
<1>3. /\ Len(l) = k + 1 /\ l # <<>> /\ l[k + 1] = b
      /\ \A j \in 1 .. k : l[j] = line[j]
  BY SMTT(25) DEF ObserverTyped, ObserverTypeOK
<1> HIDE DEF n, u, l, k
<1>4. \A j \in 1 .. k + 1 : l[j] = u[c + j]
  <2>1. l[k + 1] = u[c + (k + 1)]
    <3>1. c + (k + 1) = n + 1
      BY <1>1
    <3> QED
      BY <1>2, <1>3, <3>1
  <2>2. ASSUME NEW j \in 1 .. k PROVE l[j] = u[c + j]
    <3>1. c + j \in 1 .. n
      BY <1>1
    <3> QED
      BY <1>1, <1>2, <1>3, <3>1
  <2>3. \A j \in 1 .. k + 1 : j \in 1 .. k \/ j = k + 1
    <3>1. k \in Nat
      BY <1>1
    <3> QED
      BY <3>1
  <2> QED
    BY <2>1, <2>2, <2>3
<1>5. l[1] = u[c + 1]
  BY <1>1, <1>4
<1>6. c \in 0 .. n /\ k + 1 = (n + 1) - c
  BY <1>1
<1>7. Line(u, c, n + 1, l)
  <2>1. Len(l) = (n + 1) - c
    BY <1>3, <1>6
  <2>2. \A j \in 1 .. Len(l) : l[j] = u[c + j]
    BY <1>3, <1>4, Zenon
  <2> QED
    BY <2>1, <2>2 DEF Line
<1>8. Size(l) = ((n + 1) - c) + (IF u[c + 1] = Data THEN 1 ELSE 0)
  BY <1>3, <1>5, <1>6 DEF Size, IsData
<1> QED
  BY <1>6, <1>7, <1>8 DEF n, u, l, k

\* The handler and the bytes agree on whether a line is blank.
LEMMA BlankIs ==
  ASSUME ObserverTyped, Followed
  PROVE  (IF discard.event THEN ~discard.content ELSE Trimmed(line) = <<>>) <=> OnBlankLine(text)
<1>1. CASE discard.event
  BY <1>1 DEF Followed, Dropped
<1>2. CASE ~discard.event
  <2> DEFINE n == Len(text)
             k == Len(line)
             c == n - k
  <2>1. /\ c \in Nat /\ k \in Nat /\ n \in Nat
        /\ Unbroken(text, c) /\ \A j \in 1 .. k : line[j] = text[c + j]
    BY <1>2 DEF ObserverTyped, ObserverTypeOK, Followed, Kept, Line
  <2>2. line \in Seq(Byte) /\ text \in Seq(Byte)
    BY DEF ObserverTyped, ObserverTypeOK
  <2>3. /\ Trimmed(line) \in Seq(Byte)
        /\ Len(Trimmed(line)) = IF line # <<>> /\ line[k] = CR THEN k - 1 ELSE k
    BY <2>2, TrimmedFacts
  <2>4. Trimmed(line) = <<>> <=> k = 0 \/ (k = 1 /\ line[1] = CR)
    <3>1. Trimmed(line) = <<>> <=> Len(Trimmed(line)) = 0
      <4>1. \A l \in Seq(Byte) : l = <<>> <=> Len(l) = 0
        OBVIOUS
      <4> QED
        BY <2>3, <4>1
    <3>2. line = <<>> <=> k = 0
      BY <2>2
    <3> HIDE DEF n, k
    <3> QED
      BY <2>1, <2>3, <3>1, <3>2
  <2>5. OnBlankLine(text) <=> n = 0 \/ text[n] = LF \/ (text[n] = CR /\ (n = 1 \/ text[n - 1] = LF))
    BY <2>2 DEF OnBlankLine
  <2>6. (c = 0 \/ text[c] = LF) /\ \A j \in c + 1 .. n : text[j] # LF
    BY <2>1 DEF Unbroken, Begins
  <2>7. k = n - c
    BY <2>1
  <2> HIDE DEF n, k, c
  <2>8. (k = 0 \/ (k = 1 /\ line[1] = CR)) => OnBlankLine(text)
    <3>1. CASE k = 0
      <4>1. n = c
        BY <2>1, <2>7, <3>1
      <4> QED
        BY <2>5, <2>6, <4>1
    <3>2. CASE k = 1 /\ line[1] = CR
      <4>1. n = c + 1 /\ n - 1 = c /\ text[n] = CR
        BY <2>1, <2>7, <3>2
      <4> QED
        BY <2>1, <2>5, <2>6, <4>1
    <3> QED
      BY <3>1, <3>2
  <2>9. OnBlankLine(text) => k = 0 \/ (k = 1 /\ line[1] = CR)
    <3>1. CASE n = 0 \/ text[n] = LF
      <4>1. ~(n \in c + 1 .. n)
        BY <2>1, <2>6, <3>1
      <4> QED
        BY <2>1, <2>7, <4>1
    <3>2. CASE n # 0 /\ text[n] = CR /\ (n = 1 \/ text[n - 1] = LF)
      <4>1. n - 1 <= c
        BY <2>1, <2>6, <3>2
      <4>2. k = 0 \/ k = 1
        BY <2>1, <2>7, <4>1
      <4>3. k = 1 => line[1] = text[n]
        BY <2>1, <2>7
      <4> QED
        BY <3>2, <4>2, <4>3
    <3> QED
      BY <2>5, <3>1, <3>2
  <2> QED
    BY <1>2, <2>4, <2>8, <2>9
<1> QED
  BY <1>1, <1>2

\* A byte that comes while the event is discarded.
LEMMA PushDropped ==
  ASSUME ObserverTyped, Followed, NEW b \in Byte, Push(b), discard.event
  PROVE  Followed'
<1> DEFINE n == Len(text)
<1>1. /\ text \in Seq(Byte) /\ b # LF /\ n \in Nat \ {0} /\ TooLarge(text)
      /\ text' = Append(text, b) /\ Len(text') = n + 1 /\ text'[n + 1] = b /\ text'[n] = text[n]
  BY DEF ObserverTyped, Followed, Dropped, Push
<1>2. /\ discard' = IF b = CR THEN [discard EXCEPT !.content = @ \/ discard.cr, !.cr = TRUE]
                    ELSE [discard EXCEPT !.content = TRUE, !.cr = FALSE]
      /\ discard \in [event : BOOLEAN, content : BOOLEAN, cr : BOOLEAN]
  BY DEF Push, Discarded, ObserverTyped, ObserverTypeOK
<1>3. TooLarge(text')
  BY <1>1, TooLargeExtended
<1>4. text' # <<>> /\ (OnBlankLine(text') <=> b = CR /\ text[n] = LF)
  BY <1>1 DEF OnBlankLine
<1>5. OnBlankLine(text) => text[n] = LF \/ text[n] = CR
  BY <1>1 DEF OnBlankLine
<1>6. text[n] = LF => OnBlankLine(text)
  BY <1>1 DEF OnBlankLine
<1> HIDE DEF n
<1>7. CASE b = CR
  <2>1. /\ discard'.event /\ discard'.cr
        /\ discard'.content <=> discard.content \/ discard.cr
    BY <1>2, <1>7
  <2>2. discard'.content <=> ~OnBlankLine(text')
    BY <1>4, <1>5, <1>6, <1>7, <2>1, Bytes DEF Followed, Dropped, n
  <2> QED
    BY <1>1, <1>3, <1>4, <1>7, <2>1, <2>2 DEF Followed, Dropped
<1>8. CASE b # CR
  <2>1. discard'.event /\ discard'.content
    BY <1>2, <1>8
  <2> QED
    BY <1>3, <1>4, <1>8, <2>1 DEF Followed, Dropped
<1> QED
  BY <1>7, <1>8

\* A byte for which there is no room, and a byte that is kept.
LEMMA PushKept ==
  ASSUME ObserverTyped, Room, Followed, NEW b \in Byte, Push(b), ~discard.event
  PROVE  Followed'
<1> DEFINE n == Len(text)
           c == n - Len(line)
           l == Append(line, b)
<1>1. /\ text \in Seq(Byte) /\ line \in Seq(Byte) /\ b # LF /\ n \in Nat /\ ~TooLarge(text)
      /\ text' = Append(text, b) /\ Len(text') = n + 1 /\ text'[n + 1] = b
      /\ \A i \in 1 .. n : text'[i] = text[i]
  BY DEF ObserverTyped, ObserverTypeOK, Followed, Push
<1>2. /\ c \in Nat /\ Unbroken(text, c) /\ Len(data) = Held(text, c + 1)
      /\ AsHeld(data, text, c + 1) /\ Kept
  BY DEF Followed, Kept
<1>3. /\ c \in 0 .. n /\ Line(text', c, n + 1, l)
      /\ Size(l) = ((n + 1) - c) + (IF text'[c + 1] = Data THEN 1 ELSE 0)
  BY <1>1, <1>2, LineNext
<1>4. Len(data) \in Nat /\ MaxEvent \in Nat /\ Len(data) < MaxEvent
  BY ObservationAssumption DEF ObserverTyped, ObserverTypeOK, Room
<1>5. TooLarge(text') <=> Retained(l) > MaxEvent
  <2>1. TooLarge(text') <=>
          \/ TooLarge(text)
          \/ /\ b # LF
             /\ Held(text, c + 1) + ((n + 1) - c) + (IF text'[c + 1] = Data THEN 1 ELSE 0) > MaxEvent
    <3> HIDE DEF c, l
    <3>1. text \in Seq(Byte) /\ c \in 0 .. Len(text) /\ Unbroken(text, c)
      BY <1>1, <1>2, <1>3
    <3> QED
      BY <1>1, <3>1, TooLargeExtended
  <2>2. Held(text, c + 1) + ((n + 1) - c) + (IF text'[c + 1] = Data THEN 1 ELSE 0)
          = Held(text, c + 1) + (((n + 1) - c) + (IF text'[c + 1] = Data THEN 1 ELSE 0))
    <3>1. \A x, y, z \in Int : x + y + z = x + (y + z)
      OBVIOUS
    <3>2. Held(text, c + 1) \in Int /\ (n + 1) - c \in Int
          /\ (IF text'[c + 1] = Data THEN 1 ELSE 0) \in Int
      BY <1>1, <1>2, <1>4
    <3> QED
      BY <3>1, <3>2
  <2> HIDE DEF n, c, l
  <2> QED
    BY <1>1, <1>2, <1>3, <2>1, <2>2 DEF Retained
<1>6. CASE Retained(l) > MaxEvent
  <2>1. discard' = Discarding
    BY <1>4, <1>6 DEF Push, Retained, Size
  <2>2. ~OnBlankLine(text')
    <3>1. SUFFICES ASSUME OnBlankLine(text') PROVE FALSE
      OBVIOUS
    <3>2. b = CR /\ (n = 0 \/ text[n] = LF)
      BY <1>1, <3>1 DEF OnBlankLine
    <3>3. c = n
      <4> HIDE DEF n, c
      <4>1. n \in Nat /\ c \in 0 .. n /\ \A j \in c + 1 .. n : text[j] # LF
        BY <1>1, <1>2, <1>3 DEF Unbroken, n
      <4> QED
        BY <3>2, <4>1
    <3>4. text'[c + 1] = CR
      BY <1>1, <3>2, <3>3
    <3>5. Size(l) = 1
      <4> HIDE DEF n, c, l
      <4> QED
        BY <1>1, <1>3, <3>3, <3>4, Bytes
    <3> QED
      BY <1>4, <1>6, <3>5 DEF Retained
  <2>3. text' # <<>>
    BY <1>1
  <2> QED
    BY <1>5, <1>6, <2>1, <2>2, <2>3 DEF Followed, Dropped, Discarding
<1>7. CASE ~(Retained(l) > MaxEvent)
  <2>1. line' = l /\ data' = data /\ discard' = discard
    BY <1>7 DEF Push
  <2>2. Len(line') = Len(line) + 1
    BY <1>1, <2>1
  <2>3. Len(text') - Len(line') = c
    <3>1. \A x, y \in Nat : (x + 1) - (y + 1) = x - y
      OBVIOUS
    <3> QED
      BY <1>1, <2>2, <3>1
  <2>4. c + 1 \in 1 .. n + 1 /\ Begins(text, c + 1)
    BY <1>2, <1>3 DEF Unbroken
  <2>5. Held(text', c + 1) = Held(text, c + 1) /\ AsHeld(data, text', c + 1)
    BY <1>1, <1>2, <2>4, HeldExtended, AsHeldExtended
  <2>6. Unbroken(text', c)
    <3> HIDE DEF n, c
    <3>1. c = 0 \/ text'[c] = text[c]
      BY <1>1, <1>3
    <3>2. \A j \in c + 1 .. n + 1 : j = n + 1 \/ j \in c + 1 .. n
      BY <1>1, <1>3
    <3>3. \A j \in c + 1 .. n : text'[j] = text[j] /\ text[j] # LF
      BY <1>1, <1>2, <1>3 DEF Unbroken, n
    <3>4. c + 1 = 1 \/ text'[(c + 1) - 1] = LF
      BY <1>2, <1>3, <3>1 DEF Unbroken, Begins
    <3> QED
      BY <1>1, <3>2, <3>3, <3>4 DEF Unbroken, Begins
  <2> HIDE DEF n, c, l
  <2>7. Kept'
    BY <1>1, <1>2, <1>3, <2>1, <2>3, <2>5, <2>6 DEF Kept
  <2> QED
    BY <1>5, <1>7, <2>1, <2>7 DEF Followed
<1> QED
  BY <1>6, <1>7

\* A line that ends while its event is discarded.
LEMMA LineDropped ==
  ASSUME ObserverTyped, Followed, discard.event, EndLine, text' = Append(text, LF)
  PROVE  Followed'
<1>1. /\ text \in Seq(Byte) /\ Len(text) \in Nat /\ TooLarge(text)
      /\ discard \in [event : BOOLEAN, content : BOOLEAN, cr : BOOLEAN]
  BY DEF ObserverTyped, ObserverTypeOK, Followed
<1>2. TooLarge(text')
  BY <1>1, Bytes, TooLargeExtended
<1>3. text' # <<>> /\ text'[Len(text')] = LF
  BY <1>1, Bytes
<1>4. OnBlankLine(text')
  BY <1>3 DEF OnBlankLine
<1>5. discard'.event /\ ~discard'.content /\ ~discard'.cr
  BY <1>1 DEF EndLine
<1> QED
  BY <1>2, <1>3, <1>4, <1>5, Bytes DEF Followed, Dropped

\* A line that ends and is kept.
LEMMA LineKept ==
  ASSUME ObserverTyped, Followed, ~discard.event, ~OnBlankLine(text), EndLine,
         text' = Append(text, LF)
  PROVE  Followed'
<1> DEFINE n == Len(text)
           c == n - Len(line)
           l == Trimmed(line)
           m == c + Len(l)
<1>1. /\ text \in Seq(Byte) /\ line \in Seq(Byte) /\ data \in Seq(Byte) /\ n \in Nat
      /\ ~TooLarge(text) /\ Len(line) \in Nat /\ Len(data) \in Nat
  BY DEF ObserverTyped, ObserverTypeOK, Followed
<1>2. /\ c \in Nat /\ Unbroken(text, c) /\ Line(text, c, n, line) /\ Len(data) = Held(text, c + 1)
      /\ AsHeld(data, text, c + 1)
  BY DEF Followed, Kept
<1>3. /\ l \in Seq(Byte) /\ Len(l) = IF line # <<>> /\ line[Len(line)] = CR THEN Len(line) - 1 ELSE Len(line)
      /\ \A k \in 1 .. Len(l) : l[k] = line[k]
      /\ IsData(l) <=> IsData(line)
  BY <1>1, TrimmedFacts
<1>4. discard'.event = discard.event /\ data' = Joined(l) /\ line' = <<>>
  BY DEF EndLine, ObserverTyped, ObserverTypeOK
<1>5. Len(line) = n - c /\ \A k \in 1 .. Len(line) : line[k] = text[c + k]
  BY <1>2 DEF Line
<1> HIDE DEF n, c, l
<1>6. c < n /\ line # <<>> /\ Len(line) >= 1
  <2>1. CASE c = n
    <3>1. n = 0 \/ text[n] = LF
      BY <1>2, <2>1 DEF Unbroken, Begins
    <3>2. OnBlankLine(text)
      BY <1>1, <3>1 DEF OnBlankLine, n
    <3> QED
      BY <3>2
  <2>2. CASE c # n
    <3>1. Len(line) # 0
      BY <1>1, <1>2, <1>5, <2>2
    <3>2. c < n
      BY <1>1, <1>2, <1>5, <2>2
    <3> QED
      BY <1>1, <3>1, <3>2
  <2> QED
    BY <2>1, <2>2
<1>7. line[Len(line)] = text[n] /\ line[1] = text[c + 1]
  <2>1. c + Len(line) = n
    BY <1>1, <1>2, <1>5
  <2> QED
    BY <1>1, <1>5, <1>6, <2>1
<1>8. /\ m \in Nat /\ Len(l) = m - c /\ LastByte(text, m)
  <2>1. Len(l) \in Nat
    BY <1>3
  <2>2. m \in Nat /\ Len(l) = m - c
    BY <1>2, <2>1
  <2>3. m = IF text[n] = CR THEN n - 1 ELSE n
    BY <1>1, <1>2, <1>3, <1>5, <1>6, <1>7
  <2> QED
    BY <2>2, <2>3 DEF LastByte, n
<1> HIDE DEF m
<1>9. Line(text, c, m, l)
  <2>1. \A k \in 1 .. Len(l) : k \in 1 .. Len(line)
    <3>1. Len(l) \in Nat /\ Len(l) <= Len(line)
      BY <1>1, <1>3
    <3> QED
      BY <1>1, <3>1
  <2> QED
    BY <1>3, <1>5, <1>8, <2>1 DEF Line
<1>10. IsData(l) <=> text[c + 1] = Data
  BY <1>3, <1>6, <1>7 DEF IsData
<1>11. ~TooLarge(text')
  <2>1. c \in 0 .. Len(text)
    BY <1>1, <1>2, <1>6 DEF n
  <2> QED
    BY <1>1, <1>2, <2>1, Bytes, TooLargeExtended
<1>12. Len(text') = n + 1 /\ text'[n + 1] = LF
  BY <1>1, Bytes DEF n
<1>13. Len(data') = Held(text', n + 2)
  <2>1. Held(text', n + 2)
           = Held(text, c + 1) + (IF text[c + 1] # Data THEN 0
                                  ELSE IF Held(text, c + 1) = 0 THEN m - c - 1 ELSE m - c)
    BY <1>1, <1>2, <1>6, <1>8, LineHeld DEF n
  <2>2. CASE ~IsData(l)
    <3>1. data' = data
      BY <1>4, <2>2 DEF Joined
    <3> QED
      BY <1>1, <1>2, <1>10, <2>1, <2>2, <3>1
  <2>3. CASE IsData(l) /\ data = <<>>
    <3>1. Len(data') = Len(l) - 1 /\ Len(data) = 0
      BY <1>1, <1>3, <1>4, <2>3, JoinedFacts
    <3> QED
      BY <1>1, <1>2, <1>8, <1>10, <2>1, <2>3, <3>1
  <2>4. CASE IsData(l) /\ data # <<>>
    <3>1. Len(data') = Len(data) + Len(l) /\ Len(data) # 0
      BY <1>1, <1>3, <1>4, <2>4, JoinedFacts
    <3> QED
      BY <1>1, <1>2, <1>8, <1>10, <2>1, <2>4, <3>1
  <2> QED
    BY <2>2, <2>3, <2>4
<1>14. AsHeld(data', text', n + 2)
  <2>1. CASE ~IsData(l)
    <3>1. data' = data
      BY <1>4, <2>1 DEF Joined
    <3> QED
      BY <1>1, <1>2, <1>6, <1>10, <2>1, <3>1, LineSkipped DEF n
  <2>2. CASE IsData(l)
    BY <1>1, <1>2, <1>3, <1>4, <1>6, <1>8, <1>9, <2>2, LineContent DEF n
  <2> QED
    BY <2>1, <2>2
<1>15. Unbroken(text', n + 1) /\ Line(text', n + 1, n + 1, <<>>)
  <2>1. n + 1 \in Nat /\ ((n + 1) + 1) - 1 = n + 1 /\ (n + 1) - (n + 1) = 0
    BY <1>1
  <2>2. Begins(text', (n + 1) + 1)
    BY <1>12, <2>1 DEF Begins
  <2> QED
    BY <1>12, <2>1, <2>2 DEF Unbroken, Line
<1>16. Kept'
  <2>1. Len(text') - Len(line') = n + 1 /\ (n + 1) + 1 = n + 2 /\ n + 1 \in Nat
    BY <1>1, <1>4, <1>12
  <2> QED
    BY <1>4, <1>12, <1>13, <1>14, <1>15, <2>1 DEF Kept
<1> QED
  BY <1>4, <1>11, <1>16 DEF Followed

\* The text that data is, if it is one.
LEMMA ParsedIs ==
  ASSUME NEW d \in Seq(Byte)
  PROVE  /\ Parses(d) <=> \E p \in Payload : Sole(d, SolidIn(d), p)
         /\ \A p \in Payload : Sole(d, SolidIn(d), p) => Parsed(d) = p
<1>1. ASSUME NEW i \in DOMAIN d, d[i] \in Payload
      PROVE  OnlyText(d, i) <=> SolidIn(d) = {i}
  BY <1>1, Bytes DEF OnlyText, SolidIn
<1>2. ASSUME NEW p \in Payload, Sole(d, SolidIn(d), p)
      PROVE  Parses(d) /\ Parsed(d) = p
  <2>1. PICK i \in SolidIn(d) : SolidIn(d) = {i} /\ d[i] = p
    BY <1>2 DEF Sole
  <2>2. i \in DOMAIN d /\ OnlyText(d, i)
    BY <1>1, <2>1 DEF SolidIn
  <2>3. \A j \in DOMAIN d : OnlyText(d, j) => j = i
    <3>1. ASSUME NEW j \in DOMAIN d, OnlyText(d, j) PROVE j = i
      <4>1. SolidIn(d) = {j}
        BY <1>1, <3>1 DEF OnlyText
      <4> QED
        BY <2>1, <4>1
    <3> QED
      BY <3>1
  <2>4. (CHOOSE j \in DOMAIN d : OnlyText(d, j)) = i
    BY <2>2, <2>3
  <2> QED
    BY <2>1, <2>2, <2>4 DEF Parses, Parsed
<1>3. ASSUME Parses(d) PROVE \E p \in Payload : Sole(d, SolidIn(d), p)
  <2>1. PICK i \in DOMAIN d : OnlyText(d, i)
    BY <1>3 DEF Parses
  <2>2. d[i] \in Payload /\ SolidIn(d) = {i}
    BY <1>1, <2>1 DEF OnlyText
  <2> QED
    BY <2>2 DEF Sole
<1> QED
  BY <1>2, <1>3

\* On a blank line what the bytes say is what data is.
LEMMA SaysIs ==
  ASSUME ObserverTyped, Followed, OnBlankLine(text)
  PROVE  Says(text) = IF ~discard.event /\ Parses(data) THEN {Parsed(data)} ELSE {}
<1>1. CASE discard.event
  BY <1>1 DEF Followed, Says
<1>2. CASE ~discard.event
  <2> DEFINE c == Len(text) - Len(line)
             B == Before(text, c + 1)
             S == SolidOf(text, c + 1)
  <2>1. text \in Seq(Byte) /\ data \in Seq(Byte) /\ Len(line) \in Nat
    BY DEF ObserverTyped, ObserverTypeOK
  <2>2. ~TooLarge(text) /\ c \in Nat /\ Unbroken(text, c) /\ AsHeld(data, text, c + 1)
    BY <1>2 DEF Followed, Kept
  <2>3. c \in 0 .. Len(text)
    BY <2>1, <2>2
  <2> HIDE DEF c
  <2>4. DataBytes(text) = B
    BY <2>1, <2>2, <2>3, BlankLine
  <2>5. \A i \in B : text[i] \in Byte
    BY <2>1 DEF Before, DataBytes
  <2>6. S = {i \in B : text[i] # CR}
    BY DEF SolidOf
  <2> HIDE DEF B, S
  <2>7. ASSUME NEW p PROVE p \in Says(text) <=> p \in Payload /\ Sole(text, S, p)
    <3>1. ASSUME p \in Says(text) PROVE p \in Payload /\ Sole(text, S, p)
      <4>1. PICK i \in B : text[i] = p /\ p \in Payload /\ \A k \in B : k = i \/ text[k] = CR
        BY <2>4, <3>1 DEF Says
      <4>2. S = {i}
        BY <2>6, <4>1, Bytes
      <4> QED
        BY <4>1, <4>2 DEF Sole
    <3>2. ASSUME p \in Payload, Sole(text, S, p) PROVE p \in Says(text)
      <4>1. PICK i \in S : S = {i} /\ text[i] = p
        BY <3>2 DEF Sole
      <4>2. i \in B /\ \A k \in B : k = i \/ text[k] = CR
        BY <2>6, <4>1
      <4> QED
        BY <2>2, <2>4, <3>2, <4>1, <4>2 DEF Says
    <3> QED
      BY <3>1, <3>2
  <2>8. \A p \in Payload : Sole(text, S, p) <=> Sole(data, SolidIn(data), p)
    BY <2>2, Bytes DEF AsHeld, S
  <2>9. CASE Parses(data)
    <3>1. PICK q \in Payload : Sole(data, SolidIn(data), q)
      BY <2>1, <2>9, ParsedIs
    <3>2. Parsed(data) = q /\ \A p \in Payload : Sole(data, SolidIn(data), p) => p = q
      BY <2>1, <3>1, ParsedIs
    <3>3. \A p : p \in Says(text) <=> p = q
      BY <2>7, <2>8, <3>1, <3>2
    <3> QED
      BY <1>2, <2>9, <3>2, <3>3
  <2>10. CASE ~Parses(data)
    <3>1. \A p : p \notin Says(text)
      BY <2>1, <2>7, <2>8, <2>10, ParsedIs
    <3> QED
      BY <2>10, <3>1
  <2> QED
    BY <2>9, <2>10
<1> QED
  BY <1>1, <1>2

Merging == ObserverTyped /\ Room /\ Followed /\ MergedAs(state, told)

\* The end of a line follows the event, or, if the line is blank, merges what
\* it told.
LEMMA NewlineFollowed ==
  ASSUME Merging, Newline
  PROVE  Followed' /\ MergedAs(state', told')
<1> USE DEF Merging
<1>1. CASE OnBlankLine(text)
  <2>1. EndEvent /\ text' = <<>> /\ told' = told \cup Says(text)
    BY <1>1, BlankIs DEF Newline
  <2>2. Followed'
    BY <2>1, NothingHeld DEF EndEvent, Followed, Kept, Fresh
  <2>3. CASE ~discard.event /\ Parses(data)
    <3>1. state' = Observe(state, Parsed(data)) /\ told' = told \cup {Parsed(data)}
      BY <1>1, <2>1, <2>3, SaysIs DEF EndEvent
    <3>2. state \in Merged /\ RoomFor(state) /\ Parsed(data) \in Text
      BY <2>3, ParsedText, ObservationAssumption DEF ObserverTyped, Room
    <3> QED
      BY <2>2, <3>1, <3>2, MergedMore
  <2>4. CASE ~(~discard.event /\ Parses(data))
    <3>1. state' = state /\ told' = told
      BY <1>1, <2>1, <2>4, SaysIs DEF EndEvent
    <3> QED
      BY <2>2, <3>1
  <2> QED
    BY <2>3, <2>4
<1>2. CASE ~OnBlankLine(text)
  <2>1. EndLine /\ text' = Append(text, LF) /\ told' = told
    BY <1>2, BlankIs DEF Newline
  <2>2. state' = state
    BY <2>1 DEF EndLine
  <2> QED
    BY <1>2, <2>1, <2>2, LineDropped, LineKept
<1> QED
  BY <1>1, <1>2

\* Nothing has been told to begin with.
LEMMA InitFollowed ==
  ASSUME ObserverInit
  PROVE  Followed /\ MergedAs(state, told)
<1>1. Followed
  BY FreshFollowed DEF ObserverInit
<1>2. told = {} /\ state = Blank
  BY DEF ObserverInit
<1>3. \A f \in Field : {p.usage[f] : p \in told} = {} /\ Verdict({}) = Absent
  BY <1>2, VerdictIs
<1>4. Chosen(told) = {} /\ ToolsOf({}) = {}
  BY <1>2 DEF Chosen, ToolsOf
<1>5. Blank.usage = [f \in Field |-> Absent] /\ DOMAIN Blank.finishes = {} /\ Blank.tools = {}
  BY DEF Blank
<1> QED
  BY <1>1, <1>2, <1>3, <1>4, <1>5 DEF MergedAs, UsageAs, FinishesAs, ToolsAs

\* The inductive invariant is preserved.
LEMMA MergingStep ==
  ASSUME Merging, [ObserverNext]_observerVars
  PROVE  Merging'
<1> USE DEF Merging
<1>1. ASSUME NEW b \in Byte, Push(b) PROVE Merging'
  <2>1. Followed'
    BY <1>1, PushDropped, PushKept
  <2>2. state' = state /\ told' = told
    BY <1>1 DEF Push
  <2> QED
    BY <1>1, <2>1, <2>2, PushTyped
<1>2. CASE Newline
  BY <1>2, NewlineTyped, NewlineFollowed
<1>3. ASSUME NEW outcome \in Outcome, StreamEnds(outcome) PROVE Merging'
  <2>1. UNCHANGED <<data, line, discard, text, state, told>>
    BY <1>3 DEF StreamEnds, Cut
  <2> QED
    BY <1>3, <2>1, EndTyped DEF Followed, Kept, Dropped
<1>4. ASSUME NEW p \in Payload, Buffered(p) PROVE Merging'
  <2> DEFINE q == Whole(p)
             w == Observe(state, q)
  <2>1. /\ UNCHANGED <<data, line, discard, text>> /\ told = {} /\ told' = {p}
        /\ state' = [w EXCEPT !.calls = Calls(p)]
    BY <1>4 DEF Buffered, Cut, ObserveWhole
  <2>2. p \in Text /\ q \in Text /\ q.usage = p.usage /\ Calls(p) # Absent
    BY WholeFacts, ObservationAssumption
  <2>3. MergedAs(w, {} \cup {q}) /\ w \in Merged
    BY <2>1, <2>2, MergedMore, ObserveTyped DEF ObserverTyped, Room
  <2>4. UsageAs(w, {q}) /\ FinishesAs(w, Chosen({q}))
    BY <2>3 DEF MergedAs
  <2>5. state'.usage = w.usage /\ state'.finishes = w.finishes /\ state'.overflowed = w.overflowed
        /\ state'.calls = Calls(p)
    BY <2>1, <2>3 DEF Merged
  <2> HIDE DEF w
  <2>6. UsageAs(w, {p})
    <3>1. \A f \in Field : {t.usage[f] : t \in {q}} = {t.usage[f] : t \in {p}}
      BY <2>2
    <3> QED
      BY <2>4, <3>1 DEF UsageAs
  <2>7. FinishesAs(w, Chosen({p}))
    <3>1. CASE p.choice \in {Absent, Bad}
      <4>1. Chosen({p}) = {} /\ Chosen({q}) = {}
        BY <2>2, <3>1, WholeFacts DEF Chosen
      <4> QED
        BY <2>4, <4>1
    <3>2. CASE p.choice \notin {Absent, Bad}
      <4>1. /\ Chosen({p}) = {p.choice} /\ Chosen({q}) = {q.choice}
            /\ q.choice.index = p.choice.index /\ q.choice.finish = p.choice.finish
        BY <2>2, <3>2, WholeFacts DEF Chosen
      <4>2. {c.index : c \in {q.choice}} = {c.index : c \in {p.choice}}
        BY <4>1
      <4>3. \A i : FinishesOf({q.choice}, i) = FinishesOf({p.choice}, i)
        BY <4>1 DEF FinishesOf
      <4> QED
        BY <2>4, <4>1, <4>2, <4>3 DEF FinishesAs
    <3> QED
      BY <3>1, <3>2
  <2>8. MergedAs(state', told')
    BY <2>1, <2>2, <2>5, <2>6, <2>7 DEF MergedAs, UsageAs, FinishesAs, ToolsAs
  <2>9. Followed'
    BY <2>1 DEF Followed, Kept, Dropped
  <2> QED
    BY <1>4, <2>8, <2>9, EndTyped
<1>5. CASE UNCHANGED observerVars
  <2>1. UNCHANGED <<data, line, discard, text, state, told>>
    BY <1>5 DEF observerVars
  <2> QED
    BY <1>5, <2>1, StutterTyped DEF Followed, Kept, Dropped
<1> QED
  BY <1>1, <1>2, <1>3, <1>4, <1>5 DEF ObserverNext

\* So it holds however the stream is cut into reads and events.
LEMMA MergingInvariant == ObserverSpec => []Merging
<1>1. ObserverInit => Merging
  BY ObserverInitTyped, InitFollowed DEF Merging
<1>2. Merging /\ [ObserverNext]_observerVars => Merging'
  BY MergingStep
<1> QED
  BY <1>1, <1>2, PTL DEF ObserverSpec

\* However the stream is cut into reads, what has been merged is what its whole
\* events of a permitted size told, in whatever order they came, and no event
\* that was dropped takes a neighbour with it.
THEOREM ObserverMerges == ObserverSpec => []MergedAsTold
<1>1. Merging => MergedAsTold
  BY MergedAsIs DEF Merging
<1> QED
  BY <1>1, MergingInvariant, PTL

-----------------------------------------------------------------------------
(* The report.                                                             *)

\* What was told of a value that is known, and of one that is not.
LEMMA ToldIs ==
  ASSUME NEW V
  PROVE  /\ Verdict(V) = Absent => V \ {Absent} = {}
         /\ Verdict(V) \notin {Absent, Bad} => V \ {Absent} = {Verdict(V)}
<1>1. CASE Verdict(V) = Absent
  <2>1. V \subseteq {Absent}
    BY <1>1, VerdictIs
  <2> QED
    BY <1>1, <2>1
<1>2. CASE Verdict(V) \notin {Absent, Bad}
  <2>1. PICK v \in V : v # Absent
    BY <1>2, VerdictIs
  <2>2. V \subseteq {Absent, v}
    BY <1>2, <2>1, VerdictIs
  <2>3. Verdict(V) = v
    BY <2>1, <2>2, VerdictIs
  <2> QED
    BY <1>2, <2>1, <2>2, <2>3
<1> QED
  BY <1>1, <1>2

\* A field is measured only when it was told, once and for all.
LEMMA ResultIs ==
  ASSUME NEW s \in Told
  PROVE  /\ Result(s).kind \in {"measured", "unavailable", "invalid"}
         /\ Result(s).kind = "measured" =>
              Result(s).value = s /\ s \in Nat /\ s \notin {Absent, Bad}
         /\ Result(s).kind = "unavailable" => s = Absent
<1>1. CASE s = Absent
  BY <1>1 DEF Result, Unavailable
<1>2. CASE s # Absent /\ s = Bad
  BY <1>2 DEF Result, Invalid
<1>3. CASE s # Absent /\ s # Bad
  <2>1. s \in Nat
    BY <1>3, ObservationAssumption DEF Told
  <2> QED
    BY <1>3, <2>1 DEF Result, Measured
<1> QED
  BY <1>1, <1>2, <1>3

\* A usage that is reported, of what was told, and of what adds up to it.
Sound(u, usage, estimated) ==
  /\ \A f \in Field :
       /\ u[f].kind = "measured" => u[f].value = usage[f] /\ usage[f] \notin {Absent, Bad}
       /\ u[f].kind = "estimated" => usage[f] = Absent /\ f \in {"prompt", "completion"}
  /\ u["completion"].kind = "estimated" => estimated
  /\ u["prompt"].kind = "measured" /\ u["completion"].kind = "measured" /\ u["total"].kind = "measured" =>
       u["total"].value >= u["prompt"].value + u["completion"].value
  /\ u["cached"].kind = "measured" =>
       u["prompt"].kind = "measured" /\ u["cached"].value <= u["prompt"].value
  /\ u["reasoning"].kind = "measured" =>
       u["completion"].kind = "measured" /\ u["reasoning"].value <= u["completion"].value

\* A response that has no usage is sound.
LEMMA NoUsageSound ==
  ASSUME NEW usage, NEW estimated
  PROVE  Sound(NoUsage, usage, estimated)
<1>1. \A f \in Field : NoUsage[f].kind = "unavailable"
  BY DEF NoUsage, Unavailable
<1>2. {"prompt", "completion", "total", "cached", "reasoning"} = Field
  BY DEF Field
<1> QED
  BY <1>1, <1>2 DEF Sound

\* So is the usage that is reported of a merged one: parts within their whole,
\* estimates only of what is absent.
LEMMA UsageSound ==
  ASSUME NEW usage \in [Field -> Told], NEW estimate \in Nat, NEW prompt_estimate \in Nat
  PROVE  Sound(UsageResult(usage, estimate, prompt_estimate), usage, estimate > 0)
<1> DEFINE result(f) == Result(usage[f])
           u == UsageResult(usage, estimate, prompt_estimate)
           orElse(o, n) == IF Is(o, "unavailable") /\ n > 0 THEN Estimated(n) ELSE o
           part(o, whole) ==
             IF Is(o, "measured") /\ ~(Is(whole, "measured") /\ o.value <= whole.value)
             THEN Invalid ELSE o
           both == Is(result("prompt"), "measured") /\ Is(result("completion"), "measured")
           sum == result("prompt").value + result("completion").value
<1>1. /\ u["prompt"] = orElse(result("prompt"), prompt_estimate)
      /\ u["completion"] = orElse(result("completion"), estimate)
      /\ u["total"] = IF both /\ (sum > Largest \/ (Is(result("total"), "measured")
                                                     /\ result("total").value < sum))
                      THEN Invalid ELSE result("total")
      /\ u["cached"] = part(result("cached"), result("prompt"))
      /\ u["reasoning"] = part(result("reasoning"), result("completion"))
  BY DEF UsageResult
<1>2. ASSUME NEW f \in Field
      PROVE  /\ result(f).kind \in {"measured", "unavailable", "invalid"}
             /\ result(f).kind = "measured" =>
                  result(f).value = usage[f] /\ usage[f] \in Nat /\ usage[f] \notin {Absent, Bad}
             /\ result(f).kind = "unavailable" => usage[f] = Absent
  BY ResultIs
<1> HIDE DEF u, result
<1>3. Invalid.kind = "invalid" /\ \A n : Estimated(n).kind = "estimated"
  BY DEF Invalid, Estimated
<1>4. /\ "prompt" \in Field /\ "completion" \in Field /\ "total" \in Field /\ "cached" \in Field
      /\ "reasoning" \in Field
  BY DEF Field
<1>5. ASSUME NEW f \in {"prompt", "completion"}, NEW n \in Nat, u[f] = orElse(result(f), n)
      PROVE  /\ u[f].kind = "measured" <=> result(f).kind = "measured"
             /\ u[f].kind = "measured" => u[f] = result(f)
             /\ u[f].kind = "estimated" => usage[f] = Absent /\ n > 0
  BY <1>2, <1>3, <1>4, <1>5 DEF Is
<1>6. ASSUME NEW f \in Field, NEW g \in Field, u[f] = part(result(f), result(g))
      PROVE  /\ u[f].kind # "estimated"
             /\ u[f].kind = "measured" =>
                  u[f] = result(f) /\ result(g).kind = "measured" /\ u[f].value <= result(g).value
  BY <1>2, <1>3, <1>6 DEF Is
<1>7. /\ u["total"].kind # "estimated"
      /\ u["total"].kind = "measured" => u["total"] = result("total")
      /\ u["total"].kind = "measured" /\ both => ~(result("total").value < sum)
  BY <1>1, <1>2, <1>3, <1>4 DEF Is
<1>8. /\ u["prompt"].kind = "measured" <=> result("prompt").kind = "measured"
      /\ u["prompt"].kind = "measured" => u["prompt"] = result("prompt")
      /\ u["prompt"].kind = "estimated" => usage["prompt"] = Absent
  BY <1>1, <1>5
<1>9. /\ u["completion"].kind = "measured" <=> result("completion").kind = "measured"
      /\ u["completion"].kind = "measured" => u["completion"] = result("completion")
      /\ u["completion"].kind = "estimated" => usage["completion"] = Absent /\ estimate > 0
  BY <1>1, <1>5
<1>10. /\ u["cached"].kind # "estimated"
       /\ u["cached"].kind = "measured" =>
            /\ u["cached"] = result("cached") /\ result("prompt").kind = "measured"
            /\ u["cached"].value <= result("prompt").value
  BY <1>1, <1>4, <1>6
<1>11. /\ u["reasoning"].kind # "estimated"
       /\ u["reasoning"].kind = "measured" =>
            /\ u["reasoning"] = result("reasoning") /\ result("completion").kind = "measured"
            /\ u["reasoning"].value <= result("completion").value
  BY <1>1, <1>4, <1>6
<1>12. \A f \in Field :
         /\ u[f].kind = "measured" => u[f].value = usage[f] /\ usage[f] \notin {Absent, Bad}
         /\ u[f].kind = "estimated" => usage[f] = Absent /\ f \in {"prompt", "completion"}
  <2>1. ASSUME NEW f \in Field, u[f].kind = "measured" PROVE u[f] = result(f)
    BY <1>7, <1>8, <1>9, <1>10, <1>11, <2>1 DEF Field
  <2>2. ASSUME NEW f \in Field, u[f].kind = "estimated"
        PROVE  usage[f] = Absent /\ f \in {"prompt", "completion"}
    BY <1>7, <1>8, <1>9, <1>10, <1>11, <2>2 DEF Field
  <2> QED
    BY <1>2, <2>1, <2>2
<1>13. u["prompt"].kind = "measured" /\ u["completion"].kind = "measured" /\ u["total"].kind = "measured" =>
         u["total"].value >= u["prompt"].value + u["completion"].value
  <2>1. SUFFICES ASSUME u["prompt"].kind = "measured", u["completion"].kind = "measured",
                        u["total"].kind = "measured"
                 PROVE  u["total"].value >= u["prompt"].value + u["completion"].value
    OBVIOUS
  <2>2. /\ u["prompt"] = result("prompt") /\ u["completion"] = result("completion")
        /\ u["total"] = result("total") /\ both
    BY <1>7, <1>8, <1>9, <2>1 DEF Is
  <2>3. result("prompt").value \in Nat /\ result("completion").value \in Nat /\ result("total").value \in Nat
    BY <1>2, <1>4, <2>1, <2>2
  <2>4. ~(result("total").value < sum)
    BY <1>7, <2>1, <2>2
  <2> QED
    BY <2>2, <2>3, <2>4
<1>14. Sound(u, usage, estimate > 0)
  BY <1>8, <1>9, <1>10, <1>11, <1>12, <1>13 DEF Sound
<1> QED
  BY <1>14 DEF u

\* What a counter goes up by, and under which label.
LEMMA CountedIs ==
  ASSUME NEW r, NEW c \in Counted(r)
  PROVE  /\ c.by > 0
         /\ c.name = "completion_tokens" =>
              /\ c.source = IF Is(r.usage["completion"], "estimated") THEN "estimate" ELSE "usage"
              /\ c.by = IF r.usage["completion"].kind \in {"measured", "estimated"}
                        THEN r.usage["completion"].value ELSE 0
         /\ c.name = "tool_calls" => r.tools.kind = "measured"
         /\ c.name = "finish_reason" =>
              c.by = Cardinality({i \in DOMAIN r.finishes : Is(r.finishes[i], "measured")})
<1> DEFINE worth(o, kinds) == IF o.kind \in kinds THEN o.value ELSE 0
           up(name, source, by) == [name |-> name, source |-> source, by |-> by]
           completion == r.usage["completion"]
           told_ == {"measured", "estimated"}
           a1 == up("prompt_tokens", Absent, worth(r.usage["prompt"], told_))
           a2 == up("completion_tokens", IF Is(completion, "estimated") THEN "estimate" ELSE "usage",
                    worth(completion, told_))
           a3 == up("reasoning_tokens", Absent, worth(r.usage["reasoning"], {"measured"}))
           a4 == up("tool_calls", Absent, worth(r.tools, {"measured"}))
           a5 == up("finish_reason", Absent,
                    Cardinality({i \in DOMAIN r.finishes : Is(r.finishes[i], "measured")}))
<1>1. c \in {a1, a2, a3, a4, a5} /\ c.by > 0
  BY DEF Counted
<1>2. /\ a1.name = "prompt_tokens" /\ a2.name = "completion_tokens" /\ a3.name = "reasoning_tokens"
      /\ a4.name = "tool_calls" /\ a5.name = "finish_reason"
  OBVIOUS
<1>3. /\ a2.source = IF Is(completion, "estimated") THEN "estimate" ELSE "usage"
      /\ a2.by = worth(completion, told_) /\ a4.by = worth(r.tools, {"measured"})
      /\ a5.by = Cardinality({i \in DOMAIN r.finishes : Is(r.finishes[i], "measured")})
  OBVIOUS
<1> HIDE DEF a1, a2, a3, a4, a5
<1>4. c.name = "completion_tokens" => c = a2
  BY <1>1, <1>2
<1>5. c.name = "tool_calls" => c = a4
  BY <1>1, <1>2
<1>6. c.name = "finish_reason" => c = a5
  BY <1>1, <1>2
<1>7. ~(0 > 0)
  OBVIOUS
<1> QED
  BY <1>1, <1>3, <1>4, <1>5, <1>6, <1>7

\* What HonestReport says of a report, of what has been told and of whether the response
\* was cut off.
HonestOf(r, T, cutOff) ==
  LET u == r.usage
      label == UsageMetrics(u)
      measured(f) == label[f] = "measured"
      toldOf(f) == {p.usage[f] : p \in T} \ {Absent}
      up(name) == {c \in Counted(r) : c.name = name}
  IN  /\ cutOff =>
           /\ up("tool_calls") \cup up("finish_reason") = {}
           /\ \A c \in up("completion_tokens") : c.source = "usage"
      /\ \A c \in up("completion_tokens") :
           toldOf("completion") = IF c.source = "usage" THEN {c.by} ELSE {}
      /\ \A f \in Field :
           /\ measured(f) => toldOf(f) = {u[f].value}
           /\ label[f] = "estimated" => toldOf(f) = {} /\ f \in {"prompt", "completion"}
      /\ measured("prompt") /\ measured("completion") /\ measured("total") =>
           u["total"].value >= u["prompt"].value + u["completion"].value
      /\ measured("cached") => measured("prompt") /\ u["cached"].value <= u["prompt"].value
      /\ measured("reasoning") =>
           measured("completion") /\ u["reasoning"].value <= u["completion"].value

CutOff ==
  report.outcome # "completed" \/ DataBytes(text) # {}
  \/ (text # <<>> /\ text[Len(text)] # LF) \/ TooLarge(text)

\* The property, as a relation of the report and what was told.
LEMMA HonestIs == HonestReport <=> (report # Absent => HonestOf(report, told, CutOff))
  BY DEF HonestReport, HonestOf, CutOff

\* A report is honest if what it is made of was told, and nothing is estimated of, and
\* nothing counted in, a response that was cut off.
LEMMA ReportHonest ==
  ASSUME NEW st, st.usage \in [Field -> Told], NEW T, UsageAs(st, T),
         NEW outcome \in Outcome, NEW incomplete \in BOOLEAN, NEW count,
         NEW estimate \in Nat, NEW prompt_estimate \in Nat, incomplete => estimate = 0,
         NEW r, r = Report(st, outcome, incomplete, count, estimate, prompt_estimate),
         NEW cutOff \in BOOLEAN, cutOff => incomplete
  PROVE  HonestOf(r, T, cutOff)
<1> DEFINE u == r.usage
           label == UsageMetrics(u)
           toldOf(f) == {p.usage[f] : p \in T} \ {Absent}
           up(name) == {c \in Counted(r) : c.name = name}
<1>1. /\ u = IF outcome \in {"disconnected", "truncated"} THEN NoUsage
             ELSE UsageResult(st.usage, estimate, prompt_estimate)
      /\ incomplete => r.tools = Unavailable
      /\ \A i \in DOMAIN r.finishes : incomplete => r.finishes[i] = Unavailable
  BY DEF Report
<1>2. Sound(u, st.usage, estimate > 0)
  BY <1>1, NoUsageSound, UsageSound
<1>3. ASSUME NEW f \in Field
      PROVE  /\ label[f] = u[f].kind
             /\ st.usage[f] = Absent => toldOf(f) = {}
             /\ st.usage[f] \notin {Absent, Bad} => toldOf(f) = {st.usage[f]}
  <2>1. st.usage[f] = Verdict({p.usage[f] : p \in T})
    BY DEF UsageAs
  <2>2. label[f] = u[f].kind
    BY DEF UsageMetrics
  <2> QED
    BY <2>1, <2>2, ToldIs
<1> HIDE DEF u, label, toldOf
<1>4. /\ "prompt" \in Field /\ "completion" \in Field /\ "total" \in Field /\ "cached" \in Field
      /\ "reasoning" \in Field
  BY DEF Field
<1>5. \A f \in Field :
        /\ label[f] = "measured" => toldOf(f) = {u[f].value}
        /\ label[f] = "estimated" => toldOf(f) = {} /\ f \in {"prompt", "completion"}
  BY <1>2, <1>3 DEF Sound
<1>6. ASSUME NEW c \in up("completion_tokens")
      PROVE  /\ toldOf("completion") = IF c.source = "usage" THEN {c.by} ELSE {}
             /\ cutOff => c.source = "usage"
  <2>1. /\ c.by > 0
        /\ c.source = IF u["completion"].kind = "estimated" THEN "estimate" ELSE "usage"
        /\ c.by = IF u["completion"].kind \in {"measured", "estimated"} THEN u["completion"].value ELSE 0
    BY CountedIs DEF u, Is
  <2>2. CASE u["completion"].kind = "estimated"
    <3>1. c.source = "estimate" /\ label["completion"] = "estimated"
      BY <1>3, <1>4, <2>1, <2>2
    <3>2. toldOf("completion") = {} /\ estimate > 0
      BY <1>2, <1>4, <1>5, <2>2, <3>1 DEF Sound
    <3>3. ~cutOff
      BY <3>2
    <3> QED
      BY <3>1, <3>2, <3>3
  <2>3. CASE u["completion"].kind # "estimated"
    <3>1. ~(0 > 0)
      OBVIOUS
    <3>2. c.source = "usage" /\ u["completion"].kind = "measured" /\ c.by = u["completion"].value
      BY <2>1, <2>3, <3>1
    <3>3. toldOf("completion") = {u["completion"].value}
      BY <1>3, <1>4, <1>5, <3>2
    <3> QED
      BY <3>2, <3>3
  <2> QED
    BY <2>2, <2>3
<1>7. cutOff => up("tool_calls") \cup up("finish_reason") = {}
  <2>1. SUFFICES ASSUME cutOff, NEW c \in Counted(r), c.name \in {"tool_calls", "finish_reason"}
                 PROVE  FALSE
    BY Zenon
  <2>2. Unavailable.kind = "unavailable"
    BY DEF Unavailable
  <2>3. CASE c.name = "tool_calls"
    BY <1>1, <2>1, <2>2, <2>3, CountedIs
  <2>4. CASE c.name = "finish_reason"
    <3>1. {i \in DOMAIN r.finishes : Is(r.finishes[i], "measured")} = {}
      BY <1>1, <2>1, <2>2 DEF Is
    <3>2. c.by = Cardinality({i \in DOMAIN r.finishes : Is(r.finishes[i], "measured")}) /\ c.by > 0
      BY <2>4, CountedIs
    <3>3. Cardinality({}) = 0
      BY FS_EmptySet
    <3> QED
      BY <3>1, <3>2, <3>3
  <2> QED
    BY <2>1, <2>3, <2>4
<1>8. /\ label["prompt"] = "measured" /\ label["completion"] = "measured" /\ label["total"] = "measured" =>
           u["total"].value >= u["prompt"].value + u["completion"].value
      /\ label["cached"] = "measured" =>
           label["prompt"] = "measured" /\ u["cached"].value <= u["prompt"].value
      /\ label["reasoning"] = "measured" =>
           label["completion"] = "measured" /\ u["reasoning"].value <= u["completion"].value
  BY <1>2, <1>3, <1>4 DEF Sound
<1> HIDE DEF up
<1> QED
  BY <1>5, <1>6, <1>7, <1>8 DEF HonestOf, u, label, toldOf, up

\* Remembering an index changes no usage.
LEMMA RememberedUsage == Remembered.usage = state.usage
<1>1. ASSUME NEW st, NEW bytes PROVE Remembering(st, bytes).usage = st.usage
  BY DEF Remembering, WithFinish
<1> QED
  BY <1>1 DEF Remembered

\* An estimate of a prompt is a number.
LEMMA Estimates ==
  /\ \A chars \in Nat : PromptEstimate(chars) \in Nat
  BY DEF PromptEstimate

\* What has been read to its end has no event begun and none discarded.
LEMMA NothingCut ==
  ASSUME ObserverTyped, Followed, ~Unterminated
  PROVE  /\ DataBytes(text) = {} /\ (text # <<>> => text[Len(text)] = LF) /\ ~TooLarge(text)
<1>1. ~discard.event /\ data = <<>> /\ line = <<>> /\ text \in Seq(Byte)
  BY DEF Unterminated, ObserverTyped
<1>2. ~TooLarge(text) /\ Unbroken(text, Len(text)) /\ Held(text, Len(text) + 1) = 0
  BY <1>1 DEF Followed, Kept
<1>3. Before(text, Len(text) + 1) = {}
  BY <1>1, <1>2, HeldFacts
<1>4. DataBytes(text) = {}
  <2>1. \A i \in DataBytes(text) : i < Len(text) + 1
    BY <1>1 DEF DataBytes
  <2> QED
    BY <1>3, <2>1 DEF Before
<1>5. text # <<>> => text[Len(text)] = LF
  BY <1>1, <1>2 DEF Unbroken, Begins
<1> QED
  BY <1>2, <1>4, <1>5

\* However a stream ends, its report is honest.
LEMMA StreamHonest ==
  ASSUME Merging, NEW outcome \in Outcome, StreamEnds(outcome)
  PROVE  HonestReport'
<1> USE DEF Merging
<1> DEFINE whole == outcome = "completed" /\ ~Unterminated
           st == IF outcome = "completed" THEN Remembered ELSE state
           estimate == IF whole THEN events ELSE 0
<1>1. PICK chars \in Chars :
        report' = Report(st, outcome, ~whole, Cardinality(st.tools), estimate, PromptEstimate(chars))
  BY DEF StreamEnds
<1>2. UNCHANGED <<text, told>>
  BY DEF StreamEnds
<1>3. st.usage = state.usage /\ state.usage \in [Field -> Told] /\ events \in Nat
  BY RememberedUsage DEF ObserverTyped, ObserverTypeOK
<1>4. UsageAs(st, told)
  BY <1>3 DEF MergedAs, UsageAs
<1>5. report'.outcome = outcome
  BY <1>1 DEF Report
<1>6. CutOff' => ~whole
  BY <1>2, <1>5, NothingCut DEF CutOff
<1>7. PromptEstimate(chars) \in Nat /\ estimate \in Nat /\ whole \in BOOLEAN
  BY <1>3, Estimates, ObservationAssumption
<1>8. CutOff' \in BOOLEAN /\ (~whole => estimate = 0)
  BY DEF CutOff
<1> HIDE DEF st, whole, estimate
<1>9. HonestOf(report', told, CutOff')
  BY <1>1, <1>3, <1>4, <1>6, <1>7, <1>8, ReportHonest
<1>10. HonestOf(report', told', CutOff')
  BY <1>2, <1>9
<1> QED
  BY <1>10 DEF HonestReport, HonestOf, CutOff

\* So is that of a buffered answer.
LEMMA BufferedHonest ==
  ASSUME Merging, Merging', NEW p \in Payload, Buffered(p)
  PROVE  HonestReport'
<1> USE DEF Merging
<1>1. PICK chars \in Chars :
        report' = Report(state', "completed", FALSE, state'.calls, 0, PromptEstimate(chars))
  BY DEF Buffered
<1>2. text' = <<>>
  BY DEF Buffered
<1>3. state'.usage \in [Field -> Told] /\ UsageAs(state', told')
  BY DEF MergedAs, ObserverTyped, ObserverTypeOK
<1>4. report'.outcome = "completed"
  BY <1>1 DEF Report
<1>5. ~CutOff'
  <2>1. DataBytes(<<>>) = {}
    BY DEF DataBytes
  <2> QED
    BY <1>2, <1>4, <2>1, NothingHeld DEF CutOff
<1>6. PromptEstimate(chars) \in Nat /\ CutOff' \in BOOLEAN /\ "completed" \in Outcome
  BY Estimates, ObservationAssumption DEF CutOff, Outcome
<1>7. HonestOf(report', told', CutOff')
  BY <1>1, <1>3, <1>5, <1>6, ReportHonest
<1> QED
  BY <1>7 DEF HonestReport, HonestOf, CutOff

\* A report once made is not made again.
LEMMA HonestStep ==
  ASSUME Merging, HonestReport, [ObserverNext]_observerVars
  PROVE  HonestReport'
<1>1. CASE UNCHANGED observerVars
  BY <1>1 DEF observerVars, HonestReport
<1>2. ASSUME NEW b \in Byte, Push(b) PROVE HonestReport'
  BY <1>2 DEF Push, HonestReport
<1>3. CASE Newline
  BY <1>3 DEF Newline, HonestReport
<1>4. ASSUME NEW outcome \in Outcome, StreamEnds(outcome) PROVE HonestReport'
  BY <1>4, StreamHonest
<1>5. ASSUME NEW p \in Payload, Buffered(p) PROVE HonestReport'
  BY <1>5, MergingStep, BufferedHonest
<1> QED
  BY <1>1, <1>2, <1>3, <1>4, <1>5 DEF ObserverNext

\* What the observer reports was told: nothing is measured, estimated or
\* counted of a response that was cut off beyond what whole events said, and
\* measured parts add up.
THEOREM ObserverHonest == ObserverSpec => []HonestReport
<1>1. ObserverInit => HonestReport
  BY DEF ObserverInit, HonestReport
<1> QED
  BY <1>1, HonestStep, MergingInvariant, PTL DEF ObserverSpec
=============================================================================
