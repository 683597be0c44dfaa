-------------------------- MODULE DispatcherProofs --------------------------
(***************************************************************************)
(* The pool and the dispatcher, for every set of keys, requests and        *)
(* blueprints and every window, budget, patience and cooldown: what a      *)
(* lane's hint is and that it is exact, the dispatcher's safety, and that   *)
(* the two implement the slot service.                                     *)
(***************************************************************************)
EXTENDS Dispatcher, FiniteSetTheorems, WellFoundedInduction, TLAPS

-----------------------------------------------------------------------------
(* The pool.                                                               *)

\* A nonempty set of naturals has a least element, so Least(S) is one.
LEMMA LeastNat ==
  ASSUME NEW S, S \subseteq Nat, S # {}
  PROVE  Least(S) \in S /\ \A b \in S : Least(S) =< b
<1>1. IsWellFoundedOn(OpToRel(<, Nat), Nat)
  BY NatLessThanWellFounded
<1>2. PICK x \in S : \A y \in S : ~ (<<y, x>> \in OpToRel(<, Nat))
  BY <1>1, WFMin, Zenon
<1>3. \A y \in S : ~ (y < x)
  BY <1>2, Zenon DEF OpToRel
<1>4. \A y \in S : x =< y
  BY <1>3
<1> QED
  BY <1>4 DEF Least

\* An age is a natural below the window, and a fresh stamp has one.
LEMMA AgeFacts ==
  /\ Window \in Nat /\ Window > 0
  /\ 0 \in Age
  /\ \A a \in Age : a \in Nat /\ a < Window
BY PoolAssumption DEF Age, PoolAssumption

\* The stamps younger than a.
LOCAL Below(S, a) == {b \in S : b < a}

\* A set of ages is finite.
LEMMA AgesFinite ==
  ASSUME NEW S \in SUBSET Age
  PROVE  IsFiniteSet(S) /\ Cardinality(S) \in Nat
<1>1. IsFiniteSet(0 .. Window - 1)
  BY PoolAssumption, FS_Interval
<1> QED
  BY <1>1, FS_Subset, FS_CardinalityType DEF Age

\* One more stamp counts as soon as the bound passes it.
LEMMA BelowStep ==
  ASSUME NEW S \in SUBSET Age, NEW a \in Nat
  PROVE  /\ Cardinality(Below(S, a)) \in Nat
         /\ a \in S => Cardinality(Below(S, a + 1)) = Cardinality(Below(S, a)) + 1
         /\ a \notin S => Below(S, a + 1) = Below(S, a)
<1>0. \A b \in S : b \in Int
  BY AgeFacts
<1>1. Below(S, a) \in SUBSET Age
  BY DEF Below
<1>2. IsFiniteSet(Below(S, a)) /\ Cardinality(Below(S, a)) \in Nat
  BY <1>1, AgesFinite
<1>3. ASSUME a \in S
      PROVE  Cardinality(Below(S, a + 1)) = Cardinality(Below(S, a)) + 1
  <2>1. Below(S, a + 1) = Below(S, a) \cup {a}
    <3>1. \A b \in S : b < a + 1 <=> b < a \/ b = a
      BY <1>0
    <3> QED
      BY <1>3, <3>1 DEF Below
  <2>2. a \notin Below(S, a)
    BY DEF Below
  <2> QED
    BY <1>2, <2>1, <2>2, FS_AddElement
<1>4. a \notin S => Below(S, a + 1) = Below(S, a)
  BY <1>0 DEF Below
<1> QED
  BY <1>2, <1>3, <1>4

\* A window of at least n stamps has an n-th newest one, and n - 1 are newer.
LEMMA NthNewestExists ==
  ASSUME NEW S \in SUBSET Age, NEW n \in Nat \ {0}, n =< Cardinality(S)
  PROVE  /\ NthNewest(S, n) \in S
         /\ Cardinality(Below(S, NthNewest(S, n))) = n - 1
<1> DEFINE T == {a \in Nat : n =< Cardinality(Below(S, a))}
<1>1. Below(S, Window) = S
  BY AgeFacts DEF Below
<1>2. Window \in T
  BY <1>1, AgeFacts
<1>3. Least(T) \in T /\ \A b \in T : Least(T) =< b
  <2> HIDE DEF T
  <2>1. T \subseteq Nat
    BY DEF T
  <2> QED
    BY <1>2, <2>1, LeastNat
<1>4. PICK a \in Nat : a + 1 = Least(T)
  <2>1. Below(S, 0) = {}
    BY AgeFacts DEF Below
  <2>2. Cardinality(Below(S, 0)) = 0
    BY <2>1, FS_EmptySet
  <2>3. Least(T) # 0
    BY <1>3, <2>2
  <2>4. Least(T) \in Nat
    BY <1>3
  <2>5. Least(T) - 1 \in Nat /\ (Least(T) - 1) + 1 = Least(T)
    BY <2>3, <2>4
  <2> QED
    BY <2>5
<1>5. ~ (n =< Cardinality(Below(S, a)))
  BY <1>3, <1>4
<1>6. n =< Cardinality(Below(S, a + 1))
  BY <1>3, <1>4
<1>7. a \in S /\ Cardinality(Below(S, a)) = n - 1
  BY <1>5, <1>6, BelowStep
<1>8. \E c \in S : Cardinality({b \in S : b < c}) = n - 1
  BY <1>7 DEF Below
<1> QED
  BY <1>8 DEF NthNewest, Below

\* A stamp of age a is inside the window d ticks later iff a + d < Window: with
\* the n-th newest stamp still inside there are n of them, else fewer.
LEMMA StillInside ==
  ASSUME NEW S \in SUBSET Age, NEW n \in Nat \ {0}, n =< Cardinality(S), NEW d \in Nat
  PROVE  Cardinality({a \in S : a + d < Window}) < n <=> Window - NthNewest(S, n) =< d
<1> DEFINE nth == NthNewest(S, n)
           In == {a \in S : a + d < Window}
<1>1. nth \in S /\ Cardinality(Below(S, nth)) = n - 1
  BY NthNewestExists
<1>2. nth \in Nat /\ \A a \in S : a \in Nat
  BY <1>1, AgeFacts
<1>3. In \in SUBSET Age /\ IsFiniteSet(In) /\ Cardinality(In) \in Nat
  BY AgesFinite
<1>4. Below(S, nth) \in SUBSET Age /\ IsFiniteSet(Below(S, nth))
  BY AgesFinite DEF Below
<1>5. CASE Window - nth =< d
  <2>1. In \subseteq Below(S, nth)
    BY <1>2, <1>5, AgeFacts DEF Below
  <2>2. Cardinality(In) =< n - 1
    BY <1>1, <1>4, <2>1, FS_Subset
  <2> QED
    BY <1>3, <1>5, <2>2
<1>6. CASE ~ (Window - nth =< d)
  <2>1. Below(S, nth) \cup {nth} \in SUBSET In
    BY <1>1, <1>2, <1>6, AgeFacts DEF Below
  <2>2. nth \notin Below(S, nth)
    BY <1>2 DEF Below
  <2>3. Cardinality(Below(S, nth) \cup {nth}) = n
    BY <1>1, <1>4, <2>2, FS_AddElement
  <2>4. n =< Cardinality(In)
    BY <1>3, <2>1, <2>3, FS_Subset
  <2> QED
    BY <1>3, <1>6, <2>4
<1> QED
  BY <1>5, <1>6

\* The parts of a well formed pool that belong to one key.
LEMMA LaneFacts ==
  ASSUME NEW p \in PoolState, NEW k \in Key
  PROVE  /\ p.sent[k] \in SUBSET Age /\ IsFiniteSet(p.sent[k])
         /\ Load(p, k) \in Nat
         /\ p.rpm[k] \in Nat
         /\ p.cool[k] \in 0 .. MaxCool
BY AgesFinite, PoolAssumption DEF PoolState, Load, PoolAssumption

\* The hint of a lane is a delay within the window or the longest cooldown.
LEMMA ReadyInType ==
  ASSUME NEW p \in PoolState, NEW k \in Key
  PROVE  ReadyIn(p, k) \in 0 .. Larger(Window, MaxCool)
<1>1. WindowReadyIn(p, k) \in 0 .. Window
  <2>1. CASE Load(p, k) < p.rpm[k] \/ p.rpm[k] = 0
    BY <2>1, AgeFacts DEF WindowReadyIn
  <2>2. CASE ~ (Load(p, k) < p.rpm[k] \/ p.rpm[k] = 0)
    <3>1. NthNewest(p.sent[k], p.rpm[k]) \in Age
      BY <2>2, LaneFacts, NthNewestExists DEF Load
    <3> QED
      BY <2>2, <3>1, AgeFacts DEF WindowReadyIn
  <2> QED
    BY <2>1, <2>2
<1> QED
  BY <1>1, LaneFacts, AgeFacts, PoolAssumption DEF ReadyIn, Larger, PoolAssumption

\* What the hint of a lane says: it can be taken d ticks from now exactly from
\* the hint on, and a lane with no budget never.
LEMMA ReadyInExact ==
  ASSUME NEW p \in PoolState, NEW k \in Key, NEW d \in Nat
  PROVE  /\ FreeAfter(p, k, d) => ReadyIn(p, k) =< d
         /\ p.rpm[k] > 0 /\ ReadyIn(p, k) =< d => FreeAfter(p, k, d)
<1> DEFINE In == {a \in p.sent[k] : a + d < Window}
<1>1. In \in SUBSET Age /\ IsFiniteSet(In) /\ Cardinality(In) \in Nat
  BY LaneFacts, AgesFinite
<1>2. Cardinality(In) =< Load(p, k)
  BY LaneFacts, FS_Subset DEF Load
<1>3. CASE Load(p, k) < p.rpm[k]
  BY <1>1, <1>2, <1>3, LaneFacts DEF FreeAfter, ReadyIn, WindowReadyIn, Larger
<1>4. CASE p.rpm[k] = 0
  BY <1>1, <1>4 DEF FreeAfter
<1>5. CASE p.rpm[k] > 0 /\ ~ (Load(p, k) < p.rpm[k])
  <2>1. Cardinality(In) < p.rpm[k] <=> Window - NthNewest(p.sent[k], p.rpm[k]) =< d
    BY <1>5, LaneFacts, StillInside DEF Load
  <2>2. NthNewest(p.sent[k], p.rpm[k]) \in Age
    BY <1>5, LaneFacts, NthNewestExists DEF Load
  <2> QED
    BY <1>5, <2>1, <2>2, LaneFacts, AgeFacts DEF FreeAfter, ReadyIn, WindowReadyIn, Larger
<1> QED
  BY <1>3, <1>4, <1>5, LaneFacts

\* The dispatcher never sleeps past the opening of a lane its waiter may use.
LEMMA WaitForSoonest ==
  ASSUME NEW p \in PoolState, NEW allowed
  PROVE  /\ WaitFor(p, allowed) \in Nat
         /\ \A i \in AllowedLanes(p, allowed) : WaitFor(p, allowed) =< ReadyIn(p, p.order[i])
<1> DEFINE S == {Window} \cup {ReadyIn(p, p.order[i]) : i \in AllowedLanes(p, allowed)}
<1>1. \A i \in AllowedLanes(p, allowed) : p.order[i] \in Key
  BY DEF AllowedLanes, Lanes, PoolState
<1>2. \A i \in AllowedLanes(p, allowed) : ReadyIn(p, p.order[i]) \in Nat
  BY <1>1, ReadyInType
<1>3. S \subseteq Nat /\ S # {}
  BY <1>2, AgeFacts
<1>4. Least(S) \in S /\ \A b \in S : Least(S) =< b
  BY <1>3, LeastNat
<1> QED
  BY <1>3, <1>4 DEF WaitFor
-----------------------------------------------------------------------------
(* The dispatcher.                                                         *)

\* What the task has in hand follows from where it stands, and a slot exists
\* where one was granted.  TypeOK needs it: a reply reads the reservation, a
\* cooldown reads the slot.
HandsOK ==
  /\ pc \in {"serve", "reply", "sleep"} => cur \in Req
  /\ pc = "reply" => res \in Slot
  /\ \A r \in Req : req[r].st \in {"granted", "sending"} => req[r].slot \in Slot

Typed == TypeOK /\ HandsOK

\* Every blueprint a save may hand the pool is well formed.
LEMMA SpecFacts ==
  ASSUME NEW s \in PoolSpecs
  PROVE  /\ s \in PoolSpec
         /\ LaneOrder(s) \in Seq(Key)
         /\ Elements(s.keys) \subseteq Key
<1>1. s \in PoolSpec /\ LaneOrder(s) \in Seq(Key)
  BY DispatcherAssumption DEF DispatcherAssumption
<1>2. s.keys \in Seq(Key)
  BY <1>1 DEF PoolSpec
<1>3. Elements(s.keys) \subseteq Key
  BY <1>2 DEF Elements
<1> QED
  BY <1>1, <1>3

\* A pool put together from a blueprint is well formed.
LEMMA AssembleType ==
  ASSUME NEW s \in PoolSpecs,
         NEW sent \in [Key -> SUBSET Age], NEW cool \in [Key -> 0 .. MaxCool]
  PROVE  Assemble(s, sent, cool) \in PoolState
BY SpecFacts DEF Assemble, PoolState, PoolSpec

\* So is a pool rebuilt from the live one.
LEMMA RebuildType ==
  ASSUME NEW p \in PoolState, NEW s \in PoolSpecs
  PROVE  Rebuild(p, s) \in PoolState
<1> DEFINE kept == KnownKeys(p) \cap Elements(s.keys)
           sent == [k \in Key |-> IF k \in kept THEN p.sent[k] ELSE {}]
           cool == [k \in Key |-> IF k \in kept THEN p.cool[k] ELSE 0]
<1>1. sent \in [Key -> SUBSET Age] /\ cool \in [Key -> 0 .. MaxCool]
  BY PoolAssumption DEF PoolState, PoolAssumption
<1>2. Assemble(s, sent, cool) \in PoolState
  BY <1>1, AssembleType
<1> QED
  BY <1>2 DEF Rebuild

\* The lane of a reservation is an allowed one that can be taken.
LEMMA BestLaneFacts ==
  ASSUME NEW p \in PoolState, NEW prefer, NEW allowed, NEW i \in BestLanes(p, prefer, allowed)
  PROVE  /\ i \in AllowedLanes(p, allowed)
         /\ p.order[i] \in Key /\ p.order[i] \in ActiveKeys(p)
         /\ p.endpoint[p.order[i]] \in allowed \cap Endpoint
         /\ CanTake(p, p.order[i])
<1>1. i \in ReadyLanes(p, allowed)
  BY DEF BestLanes
<1>2. i \in AllowedLanes(p, allowed) /\ CanTake(p, p.order[i])
  BY <1>1 DEF ReadyLanes
<1>3. i \in Lanes(p) /\ p.endpoint[p.order[i]] \in allowed
  BY <1>2 DEF AllowedLanes
<1>4. p.order[i] \in Key /\ p.order[i] \in ActiveKeys(p)
  BY <1>3 DEF Lanes, PoolState, ActiveKeys, Elements
<1> QED
  BY <1>2, <1>3, <1>4 DEF PoolState

\* Time leaves a pool well formed.
LEMMA ElapseType ==
  ASSUME NEW p \in PoolState
  PROVE  Elapse(p) \in PoolState
<1>1. \A k \in Key : Larger(p.cool[k] - 1, 0) \in 0 .. MaxCool
  BY LaneFacts, PoolAssumption DEF Larger, PoolAssumption
<1>2. \A k \in Key : Older(p.sent[k]) \in SUBSET Age
  BY DEF Older
<1> QED
  BY <1>1, <1>2 DEF Elapse, PoolState

\* A request that has just left, in any state, is a well formed record.
LEMMA IdleFacts ==
  /\ Idle \in Request /\ Idle.st = "idle"
  /\ \A t \in {"closed", "failed", "idle"} : [Idle EXCEPT !.st = t] \in Request
BY DispatcherAssumption DEF Idle, Request, ReqState, DispatcherAssumption

-----------------------------------------------------------------------------

\* The process starts with a well formed pool and nobody waiting.
LEMMA TypedInit == Init => Typed
<1> SUFFICES ASSUME Init PROVE Typed
  OBVIOUS
<1>1. [k \in Key |-> {}] \in [Key -> SUBSET Age] /\ [k \in Key |-> 0] \in [Key -> 0 .. MaxCool]
  BY PoolAssumption DEF PoolAssumption
<1>2. FirstSpec \in PoolSpecs /\ SleepCap \in Nat
  BY DispatcherAssumption DEF DispatcherAssumption
<1>3. pool \in PoolState
  BY <1>1, <1>2, AssembleType DEF Init, NewPool
<1>4. req \in [Req -> Request]
  BY IdleFacts DEF Init
<1>5. queue \in Seq(Req) /\ timer \in 0 .. SleepCap
  BY <1>2 DEF Init
<1>6. TypeOK
  BY <1>1, <1>3, <1>4, <1>5 DEF Init, TypeOK
<1>7. HandsOK
  BY IdleFacts DEF Init, HandsOK
<1> QED
  BY <1>6, <1>7 DEF Typed

\* A request that is written anew, or not at all, keeps its record well formed.
LEMMA BecomeTyped ==
  ASSUME Typed, NEW r \in Req, NEW state \in {"closed", "failed", "idle"}, Become(r, state)
  PROVE  /\ req' \in [Req -> Request]
         /\ \A q \in Req : req'[q].st \in {"granted", "sending"} => req'[q].slot \in Slot
<1>1. req' = [req EXCEPT ![r] = [Idle EXCEPT !.st = state]]
  BY DEF Become
<1>2. [Idle EXCEPT !.st = state] \in Request
      /\ [Idle EXCEPT !.st = state].st \notin {"granted", "sending"}
  BY IdleFacts DEF Idle
<1> QED
  BY <1>1, <1>2 DEF Typed, TypeOK, HandsOK

\* Types hold as a waiter joins the channel.
LEMMA AcquireTyped ==
  ASSUME Typed, NEW r \in Req, NEW p \in Prefs, NEW a \in Filters, NEW d \in Patience,
         Acquire(r, p, a, d)
  PROVE  Typed'
<1> DEFINE q == [st |-> "queued", prefer |-> p, allowed |-> a, left |-> d, slot |-> None]
<1>1. q \in Request /\ q.st = "queued"
  <2>1. p \in Nat /\ a \in SUBSET Endpoint /\ d \in -1 .. MaxPatience
    BY DispatcherAssumption DEF DispatcherAssumption
  <2> QED
    BY <2>1 DEF Request, ReqState
<1>2. req' = [req EXCEPT ![r] = q]
  BY DEF Acquire
<1>3. req' \in [Req -> Request]
      /\ \A s \in Req : req'[s].st \in {"granted", "sending"} => req'[s].slot \in Slot
  BY <1>1, <1>2 DEF Typed, TypeOK, HandsOK
<1>4. queue' \in Seq(Req)
  BY DEF Acquire, Typed, TypeOK
<1> QED
  BY <1>3, <1>4 DEF Acquire, Typed, TypeOK, HandsOK

\* Types hold as a request takes its answer.
LEMMA ResolveTyped ==
  ASSUME Typed, NEW r \in Req, Resolve(r)
  PROVE  Typed'
<1>1. req' \in [Req -> Request]
      /\ \A q \in Req : req'[q].st \in {"granted", "sending"} => req'[q].slot \in Slot
  <2>1. CASE /\ Is(r, "granted")
             /\ req' = [req EXCEPT ![r].st = "sending", ![r].slot.age = 0]
    <3>1. req[r] \in Request /\ req[r].slot \in Slot
      BY <2>1 DEF Typed, TypeOK, HandsOK, Is
    <3>2. [req[r].slot EXCEPT !.age = 0] \in Slot
      BY <3>1, AgeFacts DEF Slot
    <3>3. [req[r] EXCEPT !.st = "sending", !.slot.age = 0] \in Request
      BY <3>1, <3>2 DEF Request, ReqState
    <3>4. [req[r] EXCEPT !.st = "sending", !.slot.age = 0].slot \in Slot
      BY <3>1, <3>2 DEF Request
    <3>5. req' = [req EXCEPT ![r] = [req[r] EXCEPT !.st = "sending", !.slot.age = 0]]
      BY <2>1
    <3> QED
      BY <3>3, <3>4, <3>5 DEF Typed, TypeOK, HandsOK
  <2>2. CASE Is(r, "failed") /\ Become(r, "idle")
    BY <2>2, BecomeTyped
  <2> QED
    BY <2>1, <2>2 DEF Resolve
<1> QED
  BY <1>1 DEF Resolve, Typed, TypeOK, HandsOK

\* Types hold as a waiting client leaves.
LEMMA HangUpTyped ==
  ASSUME Typed, NEW r \in Req, HangUp(r)
  PROVE  Typed'
<1>1. req' \in [Req -> Request]
      /\ \A q \in Req : req'[q].st \in {"granted", "sending"} => req'[q].slot \in Slot
  BY BecomeTyped DEF HangUp
<1>2. spent' \in [Key -> SUBSET Age]
  BY DEF HangUp, Typed, TypeOK
<1> QED
  BY <1>1, <1>2 DEF HangUp, Typed, TypeOK, HandsOK

\* Types hold as an exchange ends well.
LEMMA FinishTyped ==
  ASSUME Typed, NEW r \in Req, Finish(r)
  PROVE  Typed'
<1>1. req' \in [Req -> Request]
      /\ \A q \in Req : req'[q].st \in {"granted", "sending"} => req'[q].slot \in Slot
  BY BecomeTyped DEF Finish
<1> QED
  BY <1>1 DEF Finish, Typed, TypeOK, HandsOK

\* A cooldown leaves a pool well formed.
LEMMA PenalizeType ==
  ASSUME NEW p \in PoolState, NEW k \in Key, NEW b \in Backoffs
  PROVE  Penalize(p, k, b) \in PoolState
<1>1. b \in 0 .. MaxCool
  BY DispatcherAssumption DEF DispatcherAssumption
<1>2. Larger(p.cool[k], b) \in 0 .. MaxCool
  BY <1>1, LaneFacts DEF Larger
<1> QED
  BY <1>2 DEF Penalize, PoolState

\* Types hold as a failed exchange cools its lane.
LEMMA EnterCooldownTyped ==
  ASSUME Typed, NEW r \in Req, NEW b \in Backoffs, EnterCooldown(r, b)
  PROVE  Typed'
<1>1. req' \in [Req -> Request]
      /\ \A q \in Req : req'[q].st \in {"granted", "sending"} => req'[q].slot \in Slot
  BY BecomeTyped DEF EnterCooldown
<1>2. req[r].slot.key \in Key
  BY DEF EnterCooldown, Is, Typed, HandsOK, Slot
<1>3. pool' \in PoolState
  BY <1>2, PenalizeType DEF EnterCooldown, Typed, TypeOK
<1> QED
  BY <1>1, <1>3 DEF EnterCooldown, Typed, TypeOK, HandsOK

\* Types hold as the task takes the next waiter.
LEMMA RecvTyped ==
  ASSUME Typed, Recv
  PROVE  Typed'
<1>1. Head(queue) \in Req /\ Tail(queue) \in Seq(Req)
  BY DEF Recv, Typed, TypeOK
<1> QED
  BY <1>1 DEF Recv, Typed, TypeOK, HandsOK

\* Types hold as the task passes over a waiter that left.
LEMMA SkipClosedTyped ==
  ASSUME Typed, SkipClosed
  PROVE  Typed'
<1>1. cur \in Req
  BY DEF SkipClosed, Typed, HandsOK
<1>2. req' \in [Req -> Request]
      /\ \A q \in Req : req'[q].st \in {"granted", "sending"} => req'[q].slot \in Slot
  BY <1>1, BecomeTyped DEF SkipClosed
<1> QED
  BY <1>2 DEF SkipClosed, Typed, TypeOK, HandsOK

\* A reservation leaves a pool well formed.
LEMMA TakeType ==
  ASSUME NEW p \in PoolState, NEW k \in Key
  PROVE  Take(p, k) \in PoolState
BY AgeFacts DEF Take, PoolState

\* Types hold as the task reserves a slot.
LEMMA ReserveTyped ==
  ASSUME Typed, Reserve
  PROVE  Typed'
<1>1. PICK i \in BestLanes(pool, req[cur].prefer, req[cur].allowed) :
        LET k == pool.order[i]
        IN  /\ pool' = Take(pool, k)
            /\ res' = [key |-> k, endpoint |-> pool.endpoint[k], live |-> TRUE, age |-> 0]
            /\ spent' = [spent EXCEPT ![k] = @ \cup {0}]
  BY DEF Reserve
<1>2. pool \in PoolState
  BY DEF Typed, TypeOK
<1>3. pool.order[i] \in Key /\ pool.endpoint[pool.order[i]] \in Endpoint
  BY <1>2, BestLaneFacts
<1>4. pool' \in PoolState
  BY <1>1, <1>2, <1>3, TakeType
<1>5. res' \in Slot
  BY <1>1, <1>3, AgeFacts DEF Slot
<1>6. spent' \in [Key -> SUBSET Age]
  BY <1>1, <1>3, AgeFacts DEF Typed, TypeOK
<1> QED
  BY <1>4, <1>5, <1>6 DEF Reserve, Typed, TypeOK, HandsOK

\* Types hold as the task refuses a waiter.
LEMMA RejectTyped ==
  ASSUME Typed, Reject
  PROVE  Typed'
<1>1. cur \in Req
  BY DEF Reject, AllBusy, Typed, HandsOK
<1>2. req' \in [Req -> Request]
      /\ \A q \in Req : req'[q].st \in {"granted", "sending"} => req'[q].slot \in Slot
  BY <1>1, BecomeTyped DEF Reject
<1> QED
  BY <1>2 DEF Reject, Typed, TypeOK, HandsOK

\* Types hold as the task goes to sleep.
LEMMA SleepTyped ==
  ASSUME Typed, Sleep
  PROVE  Typed'
<1>1. WaitFor(pool, req[cur].allowed) \in Nat
  BY WaitForSoonest DEF Typed, TypeOK
<1>2. timer' \in 0 .. SleepCap
  BY <1>1, DispatcherAssumption DEF Sleep, Smaller, DispatcherAssumption
<1> QED
  BY <1>2 DEF Sleep, AllBusy, Typed, TypeOK, HandsOK

\* A release leaves a pool well formed.
LEMMA ReleaseType ==
  ASSUME NEW p \in PoolState, NEW k, NEW age
  PROVE  Release(p, k, age) \in PoolState
BY DEF Release, PoolState

\* Types hold as the task answers, or finds nobody to answer.
LEMMA ReplyTyped ==
  ASSUME Typed, Reply
  PROVE  Typed'
<1>1. cur \in Req /\ res \in Slot /\ res.key \in Key /\ pool \in PoolState
  BY DEF Reply, Typed, TypeOK, HandsOK, Slot
<1>2. SleepCap \in Nat \ {0} /\ 1 \in 0 .. SleepCap
  BY DispatcherAssumption DEF DispatcherAssumption
<1>3. CASE /\ Become(cur, "idle")
           /\ pool' = IF res.live THEN Release(pool, res.key, res.age) ELSE pool
           /\ spent' = [spent EXCEPT ![res.key] = @ \ {res.age}]
           /\ pc' = "recv"
           /\ UNCHANGED timer
  <2>1. req' \in [Req -> Request]
        /\ \A q \in Req : req'[q].st \in {"granted", "sending"} => req'[q].slot \in Slot
    BY <1>1, <1>3, BecomeTyped
  <2>2. pool' \in PoolState
    BY <1>1, <1>3, ReleaseType
  <2>3. spent' \in [Key -> SUBSET Age]
    BY <1>1, <1>3 DEF Typed, TypeOK
  <2> QED
    BY <1>3, <2>1, <2>2, <2>3 DEF Reply, Typed, TypeOK, HandsOK
<1>4. CASE /\ req' = [req EXCEPT ![cur] = [Idle EXCEPT !.st = "granted", !.slot = res]]
           /\ pc' = "gap" /\ timer' = 1
           /\ UNCHANGED <<pool, spent>>
  <2> DEFINE q == [Idle EXCEPT !.st = "granted", !.slot = res]
  <2>1. q \in Request /\ q.slot \in Slot
    BY <1>1, IdleFacts DEF Idle, Request, ReqState
  <2>2. req' \in [Req -> Request]
        /\ \A s \in Req : req'[s].st \in {"granted", "sending"} => req'[s].slot \in Slot
    BY <1>1, <1>4, <2>1 DEF Typed, TypeOK, HandsOK
  <2> QED
    BY <1>2, <1>4, <2>2 DEF Reply, Typed, TypeOK, HandsOK
<1> QED
  BY <1>3, <1>4 DEF Reply

\* Types hold as the task wakes.
LEMMA WakeTyped ==
  ASSUME Typed, Wake
  PROVE  Typed'
BY DEF Wake, Typed, TypeOK, HandsOK

\* A slot stays one as its pool is retired and as it ages.
LEMMA RetireType ==
  ASSUME NEW s
  PROVE  /\ s \in Slot => Retire(s) \in Slot /\ OlderSlot(s) \in Slot
         /\ s = None => Retire(s) = None /\ OlderSlot(s) = None
<1>1. ASSUME s \in Slot, s # None
      PROVE  Retire(s) \in Slot /\ OlderSlot(s) \in Slot
  <2>1. Smaller(s.age + 1, Window) \in 0 .. Window
    BY <1>1, AgeFacts DEF Slot, Smaller
  <2> QED
    BY <1>1, <2>1 DEF Retire, OlderSlot, Slot
<1> QED
  BY <1>1 DEF Retire, OlderSlot

\* Types hold as a save replaces the pool.
LEMMA SwapTyped ==
  ASSUME Typed, NEW s \in PoolSpecs, Swap(s)
  PROVE  Typed'
<1>1. pool' \in PoolState
  BY RebuildType DEF Swap, Typed, TypeOK
<1>2. ASSUME NEW r \in Req
      PROVE  /\ req'[r] \in Request
             /\ req'[r].st \in {"granted", "sending"} => req'[r].slot \in Slot
  <2>1. req[r] \in Request /\ req[r].slot \in Slot \cup {None}
    BY DEF Typed, TypeOK, Request
  <2>2. Retire(req[r].slot) \in Slot \cup {None}
    BY <2>1, RetireType
  <2>3. req'[r] = [req[r] EXCEPT !.slot = Retire(req[r].slot)]
    BY DEF Swap
  <2>4. req'[r] \in Request /\ req'[r].st = req[r].st /\ req'[r].slot = Retire(req[r].slot)
    BY <2>1, <2>2, <2>3 DEF Request
  <2> QED
    BY <2>4, RetireType DEF Typed, HandsOK
<1>3. req' \in [Req -> Request]
  BY <1>2 DEF Swap
<1>4. res' \in Slot \cup {None} /\ (res \in Slot => res' \in Slot)
  BY RetireType DEF Swap, Typed, TypeOK
<1>5. spent' \in [Key -> SUBSET Age]
  BY DEF Swap, Typed, TypeOK
<1> QED
  BY <1>1, <1>2, <1>3, <1>4, <1>5 DEF Swap, Typed, TypeOK, HandsOK

\* Types hold as time passes.
LEMMA TickTyped ==
  ASSUME Typed, Tick
  PROVE  Typed'
<1>1. pool' \in PoolState
  BY ElapseType DEF Tick, Typed, TypeOK
<1>2. ASSUME NEW r \in Req
      PROVE  /\ OlderRequest(req[r]) \in Request
             /\ OlderRequest(req[r]).st \in {"granted", "sending"} =>
                  OlderRequest(req[r]).slot \in Slot
  <2>1. req[r] \in Request
    BY DEF Typed, TypeOK
  <2>2. CASE req[r].st = "queued"
    <3>1. Larger(req[r].left - 1, -1) \in -1 .. MaxPatience
      BY <2>1, DispatcherAssumption DEF Request, Larger, DispatcherAssumption
    <3>2. OlderRequest(req[r]) = [req[r] EXCEPT !.left = Larger(req[r].left - 1, -1)]
      BY <2>2 DEF OlderRequest
    <3> QED
      BY <2>1, <2>2, <3>1, <3>2 DEF Request
  <2>3. CASE req[r].st = "granted"
    <3>1. OlderSlot(req[r].slot) \in Slot
      BY <2>3, RetireType DEF Typed, HandsOK
    <3>2. OlderRequest(req[r]) = [req[r] EXCEPT !.slot = OlderSlot(req[r].slot)]
      BY <2>3 DEF OlderRequest
    <3> QED
      BY <2>1, <2>3, <3>1, <3>2 DEF Request
  <2>4. CASE req[r].st # "queued" /\ req[r].st # "granted"
    BY <2>1, <2>4 DEF OlderRequest, Typed, HandsOK
  <2> QED
    BY <2>2, <2>3, <2>4
<1>3. req' \in [Req -> Request]
      /\ \A q \in Req : req'[q].st \in {"granted", "sending"} => req'[q].slot \in Slot
  BY <1>2 DEF Tick
<1>4. res' \in Slot \cup {None} /\ (res \in Slot => res' \in Slot)
  BY RetireType DEF Tick, Typed, TypeOK
<1>5. spent' \in [Key -> SUBSET Age]
  BY DEF Tick, Older, Typed, TypeOK
<1>6. timer' \in 0 .. SleepCap
  <2>1. SleepCap \in Nat /\ timer \in 0 .. SleepCap
    BY DispatcherAssumption DEF Typed, TypeOK, DispatcherAssumption
  <2>2. timer' = Larger(timer - 1, 0)
    BY DEF Tick
  <2> QED
    BY <2>1, <2>2 DEF Larger
<1> QED
  BY <1>1, <1>3, <1>4, <1>5, <1>6 DEF Tick, Typed, TypeOK, HandsOK

\* The typing invariant is inductive.
LEMMA TypedStep == Typed /\ [Next]_vars => Typed'
<1> SUFFICES ASSUME Typed, [Next]_vars PROVE Typed'
  OBVIOUS
<1>1. CASE Task
  BY <1>1, RecvTyped, SkipClosedTyped, ReserveTyped, RejectTyped, SleepTyped, ReplyTyped,
     WakeTyped DEF Task
<1>2. ASSUME NEW r \in Req, Client(r) PROVE Typed'
  BY <1>2, AcquireTyped, ResolveTyped, HangUpTyped, FinishTyped, EnterCooldownTyped DEF Client
<1>3. ASSUME NEW s \in PoolSpecs, Swap(s) PROVE Typed'
  BY <1>3, SwapTyped
<1>4. CASE Tick
  BY <1>4, TickTyped
<1>5. CASE UNCHANGED vars
  BY <1>5 DEF vars, Typed, TypeOK, HandsOK
<1> QED
  BY <1>1, <1>2, <1>3, <1>4, <1>5 DEF Next

\* Every variable keeps its type: no step of a client, of the task, of a save or
\* of the clock, in any order, leaves a slot half made.
THEOREM TypeCorrect == Spec => [](TypeOK /\ HandsOK)
<1>1. Typed => TypeOK /\ HandsOK
  BY DEF Typed
<1> QED
  BY <1>1, TypedInit, TypedStep, PTL DEF Spec

-----------------------------------------------------------------------------
(* The budget.                                                             *)

Covered == Typed /\ WindowCoversSpent

\* A reservation enters the window and the account together.
LEMMA CoveredReserve ==
  ASSUME Covered, Reserve
  PROVE  /\ WindowCoversSpent'
         /\ \E k \in ActiveKeys(pool) \cap Key :
              /\ spent' = [spent EXCEPT ![k] = @ \cup {0}]
              /\ CanTake(pool, k)
<1>1. PICK i \in BestLanes(pool, req[cur].prefer, req[cur].allowed) :
        /\ pool' = Take(pool, pool.order[i])
        /\ spent' = [spent EXCEPT ![pool.order[i]] = @ \cup {0}]
  BY DEF Reserve
<1> DEFINE k == pool.order[i]
<1>2. pool \in PoolState /\ spent \in [Key -> SUBSET Age]
  BY DEF Covered, Typed, TypeOK
<1>3. k \in Key /\ k \in ActiveKeys(pool) /\ CanTake(pool, k)
  BY <1>2, BestLaneFacts
<1>4. pool'.sent = [pool.sent EXCEPT ![k] = @ \cup {0}]
  BY <1>1, <1>2 DEF Take, PoolState
<1>5. WindowCoversSpent'
  BY <1>1, <1>2, <1>3, <1>4 DEF Covered, WindowCoversSpent, PoolState
<1> QED
  BY <1>1, <1>3, <1>5

\* No step takes from the window what is still charged.
LEMMA CoveredStep == Covered /\ [Next]_vars => WindowCoversSpent'
<1> SUFFICES ASSUME Covered, [Next]_vars PROVE WindowCoversSpent'
  OBVIOUS
<1> USE DEF Covered
<1>0. pool \in PoolState /\ spent \in [Key -> SUBSET Age]
  BY DEF Typed, TypeOK
<1>1. CASE Task
  <2>1. CASE Reserve
    BY <2>1, CoveredReserve
  <2>2. CASE Reply
    <3>1. CASE UNCHANGED <<pool, spent>>
      BY <3>1 DEF WindowCoversSpent
    <3>2. CASE /\ pool' = IF res.live THEN Release(pool, res.key, res.age) ELSE pool
               /\ spent' = [spent EXCEPT ![res.key] = @ \ {res.age}]
      <4>1. res.key \in Key
        BY <2>2 DEF Reply, Typed, HandsOK, Slot
      <4>2. \A k \in Key : pool.sent[k] \ {res.age} \subseteq pool'.sent[k]
                           /\ (k # res.key => pool.sent[k] = pool'.sent[k])
        BY <1>0, <3>2, <4>1 DEF Release, PoolState
      <4> QED
        BY <1>0, <3>2, <4>1, <4>2 DEF WindowCoversSpent
    <3> QED
      BY <2>2, <3>1, <3>2 DEF Reply
  <2>3. CASE Recv \/ SkipClosed \/ Reject \/ Sleep \/ Wake
    BY <2>3 DEF Recv, SkipClosed, Reject, Sleep, Wake, WindowCoversSpent
  <2> QED
    BY <1>1, <2>1, <2>2, <2>3 DEF Task
<1>2. ASSUME NEW r \in Req, Client(r) PROVE WindowCoversSpent'
  <2>1. CASE HangUp(r)
    <3>1. pool' = pool /\ \A k \in Key : spent'[k] \subseteq spent[k]
      BY <1>0, <2>1 DEF HangUp
    <3> QED
      BY <3>1 DEF WindowCoversSpent
  <2>2. ASSUME NEW b \in Backoffs, EnterCooldown(r, b) PROVE WindowCoversSpent'
    <3>1. spent' = spent /\ pool'.sent = pool.sent
      BY <1>0, <2>2 DEF EnterCooldown, Penalize, PoolState
    <3> QED
      BY <3>1 DEF WindowCoversSpent
  <2>3. ASSUME NEW p \in Prefs, NEW a \in Filters, NEW d \in Patience, Acquire(r, p, a, d)
        PROVE  WindowCoversSpent'
    BY <2>3 DEF Acquire, WindowCoversSpent
  <2>4. CASE Resolve(r) \/ Finish(r)
    BY <2>4 DEF Resolve, Finish, WindowCoversSpent
  <2> QED
    BY <1>2, <2>1, <2>2, <2>3, <2>4 DEF Client
<1>3. ASSUME NEW s \in PoolSpecs, Swap(s) PROVE WindowCoversSpent'
  <2>1. \A k \in Key : pool'.sent[k] =
          IF k \in KnownKeys(pool) \cap Elements(s.keys) THEN pool.sent[k] ELSE {}
    BY <1>3 DEF Swap, Rebuild, Assemble
  <2>2. \A k \in Key : spent'[k] =
          IF k \in KnownKeys(pool) \cap Elements(s.keys) THEN spent[k] ELSE {}
    BY <1>3 DEF Swap
  <2> QED
    BY <2>1, <2>2 DEF WindowCoversSpent
<1>4. CASE Tick
  <2>1. \A k \in Key : pool'.sent[k] = Older(pool.sent[k]) /\ spent'[k] = Older(spent[k])
    BY <1>0, <1>4 DEF Tick, Elapse, PoolState
  <2> QED
    BY <2>1 DEF Older, WindowCoversSpent
<1>5. CASE UNCHANGED vars
  BY <1>5 DEF vars, WindowCoversSpent
<1> QED
  BY <1>1, <1>2, <1>3, <1>4, <1>5 DEF Next

\* No reservation still charged to a key is missing from the live pool's window,
\* over any series of saves, hang ups and releases.
THEOREM NothingSpentTwice == Spec => []WindowCoversSpent
<1>1. Init => WindowCoversSpent
  BY DEF Init, NewPool, Assemble, WindowCoversSpent
<1>2. Covered /\ [Next]_vars => Covered'
  BY CoveredStep, TypedStep DEF Covered
<1>3. Init => Covered
  BY <1>1, TypedInit DEF Covered
<1>4. Covered => WindowCoversSpent
  BY DEF Covered
<1> QED
  BY <1>2, <1>3, <1>4, PTL DEF Spec

\* Only a reservation makes a stamp of age 0.
LEMMA FreshStamp ==
  ASSUME Covered, [Next]_vars, NEW k \in Key, 0 \in spent'[k], 0 \notin spent[k]
  PROVE  /\ k \in ActiveKeys(pool)
         /\ Cardinality(spent'[k]) =< pool.rpm[k]
<1>0. pool \in PoolState /\ spent \in [Key -> SUBSET Age]
  BY DEF Covered, Typed, TypeOK
<1>1. Reserve
  <2>1. ~ UNCHANGED spent
    OBVIOUS
  <2>2. ASSUME NEW r \in Req PROVE ~ HangUp(r)
    BY <1>0 DEF HangUp
  <2>3. ~ Reply
    BY <1>0 DEF Reply
  <2>4. ASSUME NEW s \in PoolSpecs PROVE ~ Swap(s)
    BY DEF Swap
  <2>5. ~ Tick
    BY <1>0, AgeFacts DEF Tick, Older
  <2> QED
    BY <2>1, <2>2, <2>3, <2>4, <2>5 DEF Next, Task, Client, vars, Recv, SkipClosed, Reject,
       Sleep, Wake, Acquire, Resolve, Finish, EnterCooldown
<1>2. PICK h \in ActiveKeys(pool) \cap Key :
        spent' = [spent EXCEPT ![h] = @ \cup {0}] /\ CanTake(pool, h)
  BY <1>1, CoveredReserve
<1>3. h = k /\ spent'[k] = spent[k] \cup {0}
  BY <1>0, <1>2
<1>4. IsFiniteSet(spent[k]) /\ Cardinality(spent'[k]) = Cardinality(spent[k]) + 1
      /\ Cardinality(spent[k]) \in Nat
  BY <1>0, <1>3, AgesFinite, FS_AddElement
<1>5. Cardinality(spent[k]) =< Load(pool, k)
  BY <1>0, LaneFacts, FS_Subset DEF Covered, WindowCoversSpent, Load
<1>6. Load(pool, k) < pool.rpm[k]
  BY <1>2, <1>3 DEF CanTake
<1> QED
  BY <1>0, <1>2, <1>3, <1>4, <1>5, <1>6, LaneFacts

\* A key is reserved only while enabled and within its budget as it now stands,
\* after any history of rebuilds.
THEOREM BudgetNeverExceeded == Spec => BudgetKept
<1>1. Covered /\ [Next]_vars =>
        [\A k \in Key : 0 \in spent'[k] /\ 0 \notin spent[k] =>
           /\ k \in ActiveKeys(pool)
           /\ Cardinality(spent'[k]) =< pool.rpm[k]]_vars
  BY FreshStamp
<1>2. Covered /\ [Next]_vars => Covered'
  BY CoveredStep, TypedStep DEF Covered
<1>3. Init => Covered
  BY TypedInit DEF Covered, Init, NewPool, Assemble, WindowCoversSpent
<1> QED
  BY <1>1, <1>2, <1>3, PTL DEF Spec, BudgetKept

-----------------------------------------------------------------------------
(* The hint and the grant.                                                 *)

\* The hint is exact in every well formed state.
LEMMA HintStep == Typed => HintExact
<1> SUFFICES ASSUME Typed, NEW k \in ActiveKeys(pool), pool.rpm[k] > 0
             PROVE  ReadyIn(pool, k) =
                      Least({d \in 0 .. Larger(Window, MaxCool) : FreeAfter(pool, k, d)})
  BY DEF HintExact
<1> DEFINE R == ReadyIn(pool, k)
           L == Larger(Window, MaxCool)
           D == {d \in 0 .. L : FreeAfter(pool, k, d)}
<1>1. pool \in PoolState /\ k \in Key
  BY DEF Typed, TypeOK, PoolState, ActiveKeys, Elements
<1>2. L \in Nat /\ R \in 0 .. L
  BY <1>1, ReadyInType, AgeFacts, PoolAssumption DEF Larger, PoolAssumption
<1>3. R \in Nat
  BY <1>2
<1>4. \A d \in Nat : FreeAfter(pool, k, d) <=> R =< d
  BY <1>1, ReadyInExact
<1> HIDE DEF R, L
<1>5. D \subseteq Nat /\ R \in D /\ \A d \in D : R =< d
  BY <1>2, <1>3, <1>4
<1>6. Least(D) \in D /\ \A d \in D : Least(D) =< d
  <2>1. D # {} /\ D \subseteq Nat
    BY <1>5
  <2> HIDE DEF D
  <2> QED
    BY <2>1, LeastNat
<1>7. Least(D) \in Nat /\ Least(D) =< R /\ R =< Least(D)
  BY <1>5, <1>6
<1>8. R = Least(D)
  BY <1>3, <1>7
<1> QED
  BY <1>8 DEF R, L

\* The dispatcher is told exactly when each enabled lane opens, whatever budget
\* and stamps it carries.
THEOREM HintsAreExact == Spec => []HintExact
BY TypedInit, TypedStep, HintStep, PTL DEF Spec

\* Only the task refuses, and only the waiter it serves.
LEMMA RefusedByTask ==
  ASSUME Typed, [Next]_vars, NEW r \in Req, Is(r, "queued"), req'[r].st = "failed"
  PROVE  Reject /\ cur = r
<1>0. req \in [Req -> Request] /\ req[r].st = "queued"
  BY DEF Typed, TypeOK, Is
<1>1. req' # req
  BY <1>0
<1>2. ASSUME NEW q \in Req, NEW state \in {"idle", "closed"} PROVE ~ Become(q, state)
  BY <1>0 DEF Become, Idle
<1>3. ASSUME NEW q \in Req PROVE ~ Client(q)
  <2>1. ASSUME NEW p \in Prefs, NEW a \in Filters, NEW d \in Patience PROVE ~ Acquire(q, p, a, d)
    BY <1>0 DEF Acquire
  <2>2. ~ Resolve(q)
    BY <1>0, <1>2 DEF Resolve, Is
  <2>3. ~ HangUp(q) /\ ~ Finish(q) /\ \A b \in Backoffs : ~ EnterCooldown(q, b)
    BY <1>2 DEF HangUp, Finish, EnterCooldown
  <2> QED
    BY <2>1, <2>2, <2>3 DEF Client
<1>4. ~ SkipClosed /\ ~ Reply
  <2>1. pc \in {"serve", "reply"} => cur \in Req
    BY DEF Typed, HandsOK
  <2> QED
    BY <1>0, <1>2, <2>1 DEF SkipClosed, Reply, Idle
<1>5. ~ Recv /\ ~ Reserve /\ ~ Sleep /\ ~ Wake
  BY <1>1 DEF Recv, Reserve, Sleep, Wake
<1>6. ASSUME NEW s \in PoolSpecs PROVE ~ Swap(s)
  BY <1>0 DEF Swap, Request
<1>7. ~ Tick
  BY <1>0 DEF Tick, OlderRequest, Request
<1>8. Reject
  BY <1>1, <1>3, <1>4, <1>5, <1>6, <1>7 DEF Next, Task, vars
<1>9. Become(cur, "failed")
  BY <1>8 DEF Reject
<1> QED
  BY <1>0, <1>8, <1>9 DEF Become

\* A refusal finds no lane that could be taken by the deadline.
LEMMA HopelessStep ==
  ASSUME Typed, [Next]_vars, NEW r \in Req, Is(r, "queued"), req'[r].st = "failed",
         NEW i \in AllowedLanes(pool, req[r].allowed), NEW d \in 0 .. req[r].left
  PROVE  ~ FreeAfter(pool, pool.order[i], d)
<1>1. pool \in PoolState /\ pool.order[i] \in Key /\ req[r] \in Request
  BY DEF Typed, TypeOK, AllowedLanes, Lanes, PoolState
<1>2. req[r].left < WaitFor(pool, req[r].allowed)
  BY RefusedByTask DEF Reject
<1>3. WaitFor(pool, req[r].allowed) \in Nat
      /\ WaitFor(pool, req[r].allowed) =< ReadyIn(pool, pool.order[i])
  BY <1>1, WaitForSoonest
<1>4. ReadyIn(pool, pool.order[i]) \in Int /\ req[r].left \in Int /\ d \in Nat
  <2>1. MaxPatience \in Nat /\ req[r].left \in -1 .. MaxPatience
    BY <1>1, DispatcherAssumption DEF Request, DispatcherAssumption
  <2> QED
    BY <1>1, <2>1, ReadyInType
<1>5. ~ (ReadyIn(pool, pool.order[i]) =< d)
  BY <1>2, <1>3, <1>4
<1> QED
  BY <1>1, <1>4, <1>5, ReadyInExact

\* A refused waiter could not have been served by its deadline.
THEOREM RefusalsAreHopeless == Spec => RefusedOnlyWhenHopeless
<1>1. Typed /\ [Next]_vars =>
        [\A r \in Req : Is(r, "queued") /\ req'[r].st = "failed" =>
           \A i \in AllowedLanes(pool, req[r].allowed), d \in 0 .. req[r].left :
             ~FreeAfter(pool, pool.order[i], d)]_vars
  BY HopelessStep
<1> QED
  BY <1>1, TypedInit, TypedStep, PTL DEF Spec, RefusedOnlyWhenHopeless

\* A reservation is made on a lane of an allowed group.
LEMMA GrantStep ==
  ASSUME Typed, [Next]_vars, res = None, res' # None
  PROVE  res'.endpoint \in req[cur].allowed
<1>1. Reserve
  <2>1. ASSUME NEW s \in PoolSpecs PROVE ~ Swap(s)
    BY RetireType DEF Swap
  <2>2. ~ Tick
    BY RetireType DEF Tick
  <2>3. ASSUME NEW r \in Req PROVE ~ Client(r)
    BY DEF Client, Acquire, Resolve, HangUp, Finish, EnterCooldown
  <2> QED
    BY <2>1, <2>2, <2>3 DEF Next, Task, Recv, SkipClosed, Reject, Sleep, Reply, Wake, vars
<1>2. PICK i \in BestLanes(pool, req[cur].prefer, req[cur].allowed) :
        res' = [key |-> pool.order[i], endpoint |-> pool.endpoint[pool.order[i]],
                live |-> TRUE, age |-> 0]
  BY <1>1 DEF Reserve
<1> QED
  BY <1>2, BestLaneFacts DEF Typed, TypeOK

\* No key of a group outside a request's filter is ever spent on it.
THEOREM GrantsAreAllowed == Spec => GrantAllowed
<1>1. Typed /\ [Next]_vars =>
        [res = None /\ res' # None => res'.endpoint \in req[cur].allowed]_vars
  BY GrantStep
<1> QED
  BY <1>1, TypedInit, TypedStep, PTL DEF Spec, GrantAllowed

-----------------------------------------------------------------------------
(* The slot service.                                                       *)

\* Who stands in line stands there once: first the waiter being served, if there
\* is one, and then the channel.
Lined ==
  /\ \A i, j \in DOMAIN queue : queue[i] = queue[j] => i = j
  /\ \A j \in DOMAIN queue : queue[j] # cur /\ req[queue[j]].st \in {"queued", "closed"}
  /\ \A r \in Req : req[r].st = "queued" => r = cur \/ \E j \in DOMAIN queue : queue[j] = r
  /\ pc \in {"serve", "reply", "sleep"} => req[cur].st \in {"queued", "closed"}
  /\ pc \in {"recv", "gap"} => cur = None

Served == Covered /\ Lined

\* Nobody is in line at the start.
LEMMA LinedInit == Init => Lined
<1> SUFFICES ASSUME Init PROVE Lined
  OBVIOUS
<1>1. DOMAIN queue = {} /\ \A r \in Req : req[r].st = "idle"
  BY DEF Init, Idle
<1> QED
  BY <1>1 DEF Init, Lined

\* A step that moves nobody in or out of the line leaves it in order.
LEMMA LineKept ==
  ASSUME Lined, Typed, UNCHANGED <<queue, cur>>,
         \A r \in Req : req'[r].st = req[r].st
                        \/ (req[r].st \notin {"queued", "closed"} /\ req'[r].st \notin {"queued", "closed"})
                        \/ (req[r].st = "queued" /\ req'[r].st = "closed"),
         pc' = pc \/ {pc, pc'} \subseteq {"serve", "reply", "sleep"} \/ {pc, pc'} \subseteq {"recv", "gap"}
  PROVE  Lined'
<1>1. queue \in Seq(Req) /\ \A j \in DOMAIN queue : queue[j] \in Req
  BY DEF Typed, TypeOK
<1>2. \A j \in DOMAIN queue : queue'[j] # cur' /\ req'[queue'[j]].st \in {"queued", "closed"}
  BY <1>1 DEF Lined
<1>3. pc' \in {"serve", "reply", "sleep"} => req'[cur'].st \in {"queued", "closed"}
  BY DEF Lined, Typed, HandsOK
<1>4. \A r \in Req : req'[r].st = "queued" => r = cur' \/ \E j \in DOMAIN queue' : queue'[j] = r
  BY DEF Lined
<1> QED
  BY <1>2, <1>3, <1>4 DEF Lined

\* When the waiter being served leaves, the rest stay in order.
LEMMA LineShortened ==
  ASSUME Lined, Typed, UNCHANGED queue, pc \in {"serve", "reply"}, cur' = None,
         pc' \in {"recv", "gap"},
         \A r \in Req \ {cur} : req'[r] = req[r],
         req'[cur].st \notin {"queued", "closed"}
  PROVE  Lined'
<1>1. queue \in Seq(Req) /\ (\A j \in DOMAIN queue : queue[j] \in Req) /\ cur \in Req
  BY DEF Typed, TypeOK, HandsOK
<1>2. None \notin Req
  BY DispatcherAssumption DEF DispatcherAssumption
<1>3. \A j \in DOMAIN queue : queue'[j] # cur' /\ req'[queue'[j]].st \in {"queued", "closed"}
  BY <1>1, <1>2 DEF Lined
<1>4. \A r \in Req : req'[r].st = "queued" => r = cur' \/ \E j \in DOMAIN queue' : queue'[j] = r
  BY <1>1 DEF Lined
<1> QED
  BY <1>3, <1>4 DEF Lined

\* A waiter that is written anew has the state it becomes.
LEMMA BecomeFacts ==
  ASSUME Typed, NEW r \in Req, NEW state, Become(r, state)
  PROVE  req'[r].st = state /\ \A q \in Req \ {r} : req'[q] = req[q]
BY DEF Become, Typed, TypeOK, Idle

\* A request that joins stands last, and nowhere else.
LEMMA LinedAcquire ==
  ASSUME Served, NEW r \in Req, NEW p \in Prefs, NEW a \in Filters, NEW d \in Patience,
         Acquire(r, p, a, d)
  PROVE  Lined'
<1>1. queue \in Seq(Req) /\ (\A j \in DOMAIN queue : queue[j] \in Req) /\ req \in [Req -> Request]
  BY DEF Served, Covered, Typed, TypeOK
<1>2. queue' = Append(queue, r) /\ DOMAIN queue = 1 .. Len(queue) /\ Len(queue) \in Nat
      /\ DOMAIN queue' = 1 .. Len(queue) + 1 /\ queue'[Len(queue) + 1] = r
      /\ \A j \in DOMAIN queue : queue'[j] = queue[j] /\ j \in DOMAIN queue'
  BY <1>1 DEF Acquire
<1>3. req[r].st = "idle" /\ req'[r].st = "queued" /\ (\A q \in Req \ {r} : req'[q] = req[q])
      /\ UNCHANGED <<cur, pc>>
  BY <1>1 DEF Acquire, Is
<1>4. \A j \in DOMAIN queue : queue[j] # r
  BY <1>3 DEF Served, Lined
<1>5. pc \in {"serve", "reply", "sleep"} => cur \in Req
  BY DEF Served, Covered, Typed, HandsOK
<1>6. None \notin Req
  BY DispatcherAssumption DEF DispatcherAssumption
<1>7. r # cur
  BY <1>3, <1>6 DEF Served, Covered, Typed, TypeOK, Lined
<1>8. \A i, j \in DOMAIN queue' : queue'[i] = queue'[j] => i = j
  BY <1>2, <1>4 DEF Served, Lined
<1>9. \A j \in DOMAIN queue' : queue'[j] # cur' /\ req'[queue'[j]].st \in {"queued", "closed"}
  BY <1>1, <1>2, <1>3, <1>4, <1>7 DEF Served, Lined
<1>10. \A q \in Req : req'[q].st = "queued" => q = cur' \/ \E j \in DOMAIN queue' : queue'[j] = q
  <2>1. Len(queue) + 1 \in DOMAIN queue'
    BY <1>2
  <2> QED
    BY <1>2, <1>3, <2>1 DEF Served, Lined
<1>11. pc' \in {"serve", "reply", "sleep"} => req'[cur'].st \in {"queued", "closed"}
  BY <1>3, <1>5, <1>7 DEF Served, Lined
<1>12. pc' \in {"recv", "gap"} => cur' = None
  BY <1>3 DEF Served, Lined
<1> QED
  BY <1>8, <1>9, <1>10, <1>11, <1>12 DEF Lined

\* The task takes the first of the channel, who then stands before it.
LEMMA LinedRecv ==
  ASSUME Served, Recv
  PROVE  Lined'
<1>1. queue \in Seq(Req) /\ queue # <<>> /\ cur = None
  BY DEF Served, Covered, Typed, TypeOK, Lined, Recv
<1>2. Len(queue) \in Nat \ {0} /\ DOMAIN queue = 1 .. Len(queue) /\ DOMAIN queue' = 1 .. Len(queue) - 1
      /\ \A j \in DOMAIN queue' : j + 1 \in DOMAIN queue /\ queue'[j] = queue[j + 1]
  BY <1>1 DEF Recv
<1>3. cur' = queue[1] /\ 1 \in DOMAIN queue /\ req' = req /\ pc' = "serve"
  BY <1>1, <1>2 DEF Recv
<1>4. \A j \in DOMAIN queue : j = 1 \/ (j - 1 \in DOMAIN queue' /\ queue'[j - 1] = queue[j])
  BY <1>2
<1>5. \A i, j \in DOMAIN queue' : queue'[i] = queue'[j] => i = j
  BY <1>2 DEF Served, Lined
<1>6. \A j \in DOMAIN queue' : queue'[j] # cur' /\ req'[queue'[j]].st \in {"queued", "closed"}
  <2> SUFFICES ASSUME NEW j \in DOMAIN queue'
               PROVE  queue'[j] # cur' /\ req'[queue'[j]].st \in {"queued", "closed"}
    OBVIOUS
  <2>1. j + 1 # 1 /\ j + 1 \in DOMAIN queue /\ queue'[j] = queue[j + 1]
    BY <1>2
  <2> QED
    BY <1>3, <2>1 DEF Served, Lined
<1>7. \A r \in Req : req'[r].st = "queued" => r = cur' \/ \E j \in DOMAIN queue' : queue'[j] = r
  <2> SUFFICES ASSUME NEW r \in Req, req'[r].st = "queued", r # cur'
               PROVE  \E j \in DOMAIN queue' : queue'[j] = r
    OBVIOUS
  <2>1. None \notin Req
    BY DispatcherAssumption DEF DispatcherAssumption
  <2>2. PICK j \in DOMAIN queue : queue[j] = r
    BY <1>1, <1>3, <2>1 DEF Served, Lined
  <2> QED
    BY <1>3, <1>4, <2>2
<1>8. req'[cur'].st \in {"queued", "closed"}
  BY <1>3 DEF Served, Lined
<1> QED
  BY <1>3, <1>5, <1>6, <1>7, <1>8 DEF Lined

\* A client changes its own place in line only.
LEMMA LinedClient ==
  ASSUME Served, NEW r \in Req, Client(r)
  PROVE  Lined'
<1>0. Typed /\ Lined
  BY DEF Served, Covered
<1>1. CASE \E p \in Prefs, a \in Filters, d \in Patience : Acquire(r, p, a, d)
  BY <1>1, LinedAcquire
<1>2. CASE Resolve(r)
  <2>1. req'[r].st \in {"sending", "idle"} /\ \A q \in Req \ {r} : req'[q] = req[q]
    BY <1>0, <1>2, BecomeFacts DEF Resolve, Typed, TypeOK, Request
  <2> QED
    BY <1>0, <1>2, <2>1, LineKept DEF Resolve, Is
<1>3. CASE HangUp(r)
  <2>1. (req[r].st = "queued" /\ req'[r].st = "closed") \/ (req[r].st = "granted" /\ req'[r].st = "idle")
    BY <1>0, <1>3, BecomeFacts DEF HangUp, Is
  <2>2. \A q \in Req \ {r} : req'[q] = req[q]
    BY <1>0, <1>3, BecomeFacts DEF HangUp
  <2> QED
    BY <1>0, <1>3, <2>1, <2>2, LineKept DEF HangUp
<1>4. CASE Finish(r) \/ \E b \in Backoffs : EnterCooldown(r, b)
  <2>1. req[r].st = "sending" /\ Become(r, "idle") /\ UNCHANGED <<queue, cur, pc>>
    BY <1>4 DEF Finish, EnterCooldown, Is
  <2>2. req'[r].st = "idle" /\ \A q \in Req \ {r} : req'[q] = req[q]
    BY <1>0, <2>1, BecomeFacts
  <2> QED
    BY <1>0, <2>1, <2>2, LineKept
<1> QED
  BY <1>1, <1>2, <1>3, <1>4 DEF Client

\* The task takes from the front.
LEMMA LinedTask ==
  ASSUME Served, Task
  PROVE  Lined'
<1>0. Typed /\ Lined
  BY DEF Served, Covered
<1>1. CASE Recv
  BY <1>1, LinedRecv
<1>2. CASE SkipClosed \/ Reject
  <2>1. pc = "serve" /\ cur' = None /\ pc' = "recv" /\ UNCHANGED queue /\ cur \in Req
    BY <1>0, <1>2 DEF SkipClosed, Reject, AllBusy, Typed, HandsOK
  <2>2. req'[cur].st \in {"idle", "failed"} /\ \A q \in Req \ {cur} : req'[q] = req[q]
    BY <1>0, <1>2, <2>1, BecomeFacts DEF SkipClosed, Reject
  <2> QED
    BY <1>0, <2>1, <2>2, LineShortened
<1>3. CASE Reply
  <2>1. pc = "reply" /\ cur' = None /\ pc' \in {"recv", "gap"} /\ UNCHANGED queue /\ cur \in Req
    BY <1>0, <1>3 DEF Reply, Typed, HandsOK
  <2>2. req'[cur].st \in {"idle", "granted"} /\ \A q \in Req \ {cur} : req'[q] = req[q]
    <3>1. CASE Become(cur, "idle")
      BY <1>0, <2>1, <3>1, BecomeFacts
    <3>2. CASE req' = [req EXCEPT ![cur] = [Idle EXCEPT !.st = "granted", !.slot = res]]
      BY <1>0, <2>1, <3>2 DEF Idle, Typed, TypeOK
    <3> QED
      BY <1>3, <3>1, <3>2 DEF Reply
  <2> QED
    BY <1>0, <2>1, <2>2, LineShortened
<1>4. CASE Reserve \/ Sleep \/ Wake
  BY <1>0, <1>4, LineKept DEF Reserve, Sleep, AllBusy, Wake
<1> QED
  BY <1>1, <1>2, <1>3, <1>4 DEF Task

\* What a save or the clock does to a request leaves its state, and the key of a slot.
LEMMA StatesKept ==
  ASSUME Served, Tick \/ \E s \in PoolSpecs : Swap(s)
  PROVE  /\ \A r \in Req : req'[r].st = req[r].st
         /\ pc = "reply" => res'.key = res.key
<1>0. req \in [Req -> Request] /\ (pc = "reply" => res \in Slot)
  BY DEF Served, Covered, Typed, TypeOK, HandsOK
<1>1. ASSUME NEW s \in PoolSpecs, Swap(s)
      PROVE  (\A r \in Req : req'[r].st = req[r].st) /\ (pc = "reply" => res'.key = res.key)
  BY <1>0, <1>1 DEF Swap, Retire, Request, Slot
<1>2. CASE Tick
  <2>1. \A r \in Req : req'[r].st = req[r].st
    BY <1>0, <1>2 DEF Tick, OlderRequest, Request
  <2>2. pc = "reply" => res'.key = res.key
    BY <1>0, <1>2 DEF Tick, OlderSlot, Slot
  <2> QED
    BY <2>1, <2>2
<1> QED
  BY <1>1, <1>2

\* Every step keeps the line, the window and the account in order.
LEMMA ServedStep == Served /\ [Next]_vars => Served'
<1> SUFFICES ASSUME Served, [Next]_vars PROVE Served'
  OBVIOUS
<1>1. Covered'
  BY CoveredStep, TypedStep DEF Served, Covered
<1>2. CASE Tick \/ \E s \in PoolSpecs : Swap(s)
  <2>1. UNCHANGED <<queue, pc, cur>>
    BY <1>2 DEF Tick, Swap
  <2> QED
    BY <1>1, <1>2, <2>1, StatesKept, LineKept DEF Served, Covered
<1>3. CASE UNCHANGED vars
  BY <1>1, <1>3, LineKept DEF Served, Covered, vars
<1> QED
  BY <1>1, <1>2, <1>3, LinedClient, LinedTask DEF Next, Served

-----------------------------------------------------------------------------
\* Whoever is in line stays where they are if their state and the channel do.
LEMMA OrderKept ==
  ASSUME UNCHANGED <<queue, cur>>, \A r \in Req : req'[r].st = req[r].st
  PROVE  InLine' = InLine /\ Order' = Order
BY DEF InLine, Order, Before, Is

\* One that leaves takes its pairs along and no other.
LEMMA OrderWithout ==
  ASSUME UNCHANGED queue, NEW c \in Req, cur' = cur \/ (cur = c /\ cur' = None),
         \A r \in Req \ {c} : req'[r].st = req[r].st, req'[c].st # "queued"
  PROVE  Service!Without(c)
<1>1. InLine' = InLine \ {c}
  BY DEF InLine, Is
<1>2. \A r, s \in Req : Before(r, s)' <=> Before(r, s) /\ r # c /\ s # c
  <2> SUFFICES ASSUME NEW r \in Req, NEW s \in Req
               PROVE  Before(r, s)' <=> Before(r, s) /\ r # c /\ s # c
    OBVIOUS
  <2>0. None \notin Req
    BY DispatcherAssumption DEF DispatcherAssumption
  <2>1. CASE r = c \/ s = c
    BY <2>1 DEF Before, Is
  <2>2. CASE r # c /\ s # c
    BY <2>0, <2>2 DEF Before, Is
  <2> QED
    BY <2>1, <2>2
<1>3. Order' = {p \in Order : p[1] # c /\ p[2] # c}
  BY <1>2 DEF Order
<1> QED
  BY <1>1, <1>3 DEF Service!Without

\* The waiter being served is at the head of the line.
LEMMA HeadServed ==
  ASSUME Served, pc \in {"serve", "reply"}, Is(cur, "queued")
  PROVE  cur \in Req /\ Service!Heads(cur)
<1>1. cur \in Req
  BY DEF Served, Covered, Typed, HandsOK
<1>2. ASSUME NEW d \in InLine \ {cur} PROVE <<cur, d>> \in Order
  <2>1. d \in Req /\ Is(d, "queued")
    BY DEF InLine
  <2>2. \E j \in DOMAIN queue : queue[j] = d
    BY <2>1 DEF Served, Lined, Is
  <2> QED
    BY <1>1, <2>1, <2>2 DEF Order, Before
<1> QED
  BY <1>1, <1>2 DEF Service!Heads, InLine

\* Joining the channel is joining the end of the line.
LEMMA ServiceAcquire ==
  ASSUME Served, NEW r \in Req, NEW p \in Prefs, NEW a \in Filters, NEW d \in Patience,
         Acquire(r, p, a, d)
  PROVE  Service!Join(r)
<1>1. queue \in Seq(Req) /\ (\A j \in DOMAIN queue : queue[j] \in Req) /\ req \in [Req -> Request]
  BY DEF Served, Covered, Typed, TypeOK
<1>2. queue' = Append(queue, r) /\ DOMAIN queue = 1 .. Len(queue) /\ Len(queue) \in Nat
      /\ DOMAIN queue' = 1 .. Len(queue) + 1 /\ queue'[Len(queue) + 1] = r
      /\ \A j \in DOMAIN queue : queue'[j] = queue[j] /\ j \in DOMAIN queue'
  BY <1>1 DEF Acquire
<1>3. req[r].st = "idle" /\ req'[r].st = "queued" /\ (\A q \in Req \ {r} : req'[q] = req[q])
      /\ UNCHANGED <<cur, pc, pool, res, spent>>
  BY <1>1 DEF Acquire, Is
<1>4. r \notin InLine /\ InLine' = InLine \cup {r}
  BY <1>3 DEF InLine, Is
<1>5. ASSUME NEW q \in Req, NEW s \in Req
      PROVE  Before(q, s)' <=> Before(q, s) \/ (Is(q, "queued") /\ s = r)
  <2>0. \A j \in DOMAIN queue' : j \in DOMAIN queue \/ j = Len(queue) + 1
    BY <1>2
  <2>1. r # cur /\ \A j \in DOMAIN queue : queue[j] # r
    <3>1. None \notin Req
      BY DispatcherAssumption DEF DispatcherAssumption
    <3>2. r # cur
      BY <1>3, <3>1 DEF Served, Covered, Typed, TypeOK, Lined
    <3>3. \A j \in DOMAIN queue : queue[j] # r
      BY <1>3 DEF Served, Lined
    <3> QED
      BY <3>2, <3>3
  <2>2. ~ Before(q, r) /\ ~ Before(r, s)
    BY <1>3 DEF Before, Is
  <2>3. CASE s = r
    <3>1. CASE Is(q, "queued")
      <4>1. q # r /\ Is(q, "queued")' /\ Is(s, "queued")'
        BY <1>3, <2>3, <3>1 DEF Is
      <4>2. q = cur \/ \E j \in DOMAIN queue : queue[j] = q
        BY <3>1 DEF Served, Lined, Is
      <4>3. Len(queue) + 1 \in DOMAIN queue' /\ \A j \in DOMAIN queue : j < Len(queue) + 1
        BY <1>2
      <4> QED
        BY <1>2, <1>3, <2>3, <3>1, <4>1, <4>2, <4>3 DEF Before
    <3>2. CASE ~ Is(q, "queued")
      <4>1. ~ Before(q, s)
        BY <3>2 DEF Before
      <4>2. ~ Before(q, s)'
        <5>1. CASE q # r
          BY <1>3, <3>2, <5>1 DEF Before, Is
        <5>2. CASE q = r
          <6>1. \A i \in DOMAIN queue' : queue'[i] = r => i = Len(queue) + 1
            BY <1>2, <2>0, <2>1
          <6>2. Len(queue) + 1 \in Nat /\ cur' # r
            BY <1>2, <1>3, <2>1
          <6> QED
            BY <1>3, <2>3, <5>2, <6>1, <6>2 DEF Before
        <5> QED
          BY <5>1, <5>2
      <4> QED
        BY <3>2, <4>1, <4>2
    <3> QED
      BY <3>1, <3>2
  <2>4. CASE s # r
    <3>1. CASE q = r
      <4>1. \A i \in DOMAIN queue' : queue'[i] = r => \A j \in DOMAIN queue' : ~ (i < j)
        BY <1>2, <2>0, <2>1
      <4> QED
        BY <1>3, <2>1, <2>2, <2>4, <3>1, <4>1 DEF Before
    <3>2. CASE q # r
      <4>1. Is(q, "queued")' <=> Is(q, "queued")
        BY <1>3, <3>2 DEF Is
      <4>2. Is(s, "queued")' <=> Is(s, "queued")
        BY <1>3, <2>4 DEF Is
      <4>3. (\E j \in DOMAIN queue' : queue'[j] = s) <=> (\E j \in DOMAIN queue : queue[j] = s)
        BY <1>2, <2>0, <2>4
      <4>4. (\E i, j \in DOMAIN queue' : i < j /\ queue'[i] = q /\ queue'[j] = s)
              <=> (\E i, j \in DOMAIN queue : i < j /\ queue[i] = q /\ queue[j] = s)
        BY <1>2, <2>0, <2>4, <3>2
      <4> QED
        BY <1>3, <2>4, <4>1, <4>2, <4>3, <4>4 DEF Before
    <3> QED
      BY <3>1, <3>2
  <2> QED
    BY <2>3, <2>4
<1>6. Order' = Order \cup (InLine \X {r})
  BY <1>5 DEF Order, InLine
<1>7. UNCHANGED <<Hand, Budget, spent>>
  BY <1>3 DEF Hand, Budget
<1> QED
  BY <1>4, <1>6, <1>7 DEF Service!Join

\* Taking the next waiter from the channel moves nobody.
LEMMA ServiceRecv ==
  ASSUME Served, Recv
  PROVE  UNCHANGED <<InLine, Order, Hand, Budget, spent>>
<1>1. queue \in Seq(Req) /\ queue # <<>> /\ cur = None /\ None \notin Req
  BY DispatcherAssumption DEF DispatcherAssumption, Served, Covered, Typed, TypeOK, Lined, Recv
<1>2. Len(queue) \in Nat \ {0} /\ DOMAIN queue = 1 .. Len(queue) /\ DOMAIN queue' = 1 .. Len(queue) - 1
      /\ \A j \in DOMAIN queue' : j + 1 \in DOMAIN queue /\ queue'[j] = queue[j + 1]
  BY <1>1 DEF Recv
<1>3. cur' = queue[1] /\ 1 \in DOMAIN queue /\ req' = req /\ pc' = "serve" /\ pc = "recv"
      /\ UNCHANGED <<pool, res, spent>>
  BY <1>1, <1>2 DEF Recv
<1>4. \A j \in DOMAIN queue : j = 1 \/ (j - 1 \in DOMAIN queue' /\ queue'[j - 1] = queue[j])
  BY <1>2
<1>5. ASSUME NEW q \in Req, NEW s \in Req PROVE Before(q, s)' <=> Before(q, s)
  <2>1. ASSUME Before(q, s)' PROVE Before(q, s)
    <3>1. CASE q = cur' /\ \E j \in DOMAIN queue' : queue'[j] = s
      <4>1. PICK j \in DOMAIN queue' : queue'[j] = s
        BY <3>1
      <4>2. 1 < j + 1 /\ j + 1 \in DOMAIN queue /\ queue[j + 1] = s
        BY <1>2, <4>1
      <4> QED
        BY <1>3, <2>1, <3>1, <4>2 DEF Before, Is
    <3>2. CASE \E i, j \in DOMAIN queue' : i < j /\ queue'[i] = q /\ queue'[j] = s
      <4>1. PICK i \in DOMAIN queue', j \in DOMAIN queue' : i < j /\ queue'[i] = q /\ queue'[j] = s
        BY <3>2
      <4>2. i + 1 < j + 1 /\ i + 1 \in DOMAIN queue /\ j + 1 \in DOMAIN queue
            /\ queue[i + 1] = q /\ queue[j + 1] = s
        BY <1>2, <4>1
      <4> QED
        BY <1>3, <2>1, <4>2 DEF Before, Is
    <3> QED
      BY <2>1, <3>1, <3>2 DEF Before
  <2>2. ASSUME Before(q, s) PROVE Before(q, s)'
    <3>1. PICK i \in DOMAIN queue, j \in DOMAIN queue : i < j /\ queue[i] = q /\ queue[j] = s
      BY <1>1, <2>2 DEF Before
    <3>2. j # 1 /\ j - 1 \in DOMAIN queue' /\ queue'[j - 1] = s
      BY <1>2, <1>4, <3>1
    <3>3. CASE i = 1
      BY <1>3, <2>2, <3>1, <3>2, <3>3 DEF Before, Is
    <3>4. CASE i # 1
      <4>1. i - 1 \in DOMAIN queue' /\ queue'[i - 1] = q /\ i - 1 < j - 1
        BY <1>2, <1>4, <3>1, <3>4
      <4> QED
        BY <1>3, <2>2, <3>2, <4>1 DEF Before, Is
    <3> QED
      BY <3>3, <3>4
  <2> QED
    BY <2>1, <2>2
<1> QED
  BY <1>3, <1>5 DEF InLine, Order, Is, Hand, Budget

\* Where the task has nothing in hand its steps leave the line, or take its head.
LEMMA ServiceTask ==
  ASSUME Served, Task
  PROVE  Service!Next \/ UNCHANGED <<InLine, Order, Hand, Budget, spent>>
<1>0. /\ Typed /\ Lined /\ pool \in PoolState /\ spent \in [Key -> SUBSET Age]
      /\ pc \in {"serve", "reply"} => cur \in Req
      /\ None \notin Key
  BY DispatcherAssumption DEF DispatcherAssumption, Served, Covered, Typed, TypeOK, HandsOK
<1>1. CASE Recv
  BY <1>1, ServiceRecv
<1>2. CASE SkipClosed
  <2>1. Become(cur, "idle") /\ pc = "serve" /\ pc' = "recv" /\ req[cur].st = "closed"
        /\ cur' = None /\ UNCHANGED <<pool, queue, res, spent>>
    BY <1>2 DEF SkipClosed, Is
  <2>2. Service!Without(cur)
    BY <1>0, <2>1, BecomeFacts, OrderWithout
  <2>3. cur \notin InLine /\ \A p \in Order : p[1] # cur /\ p[2] # cur
    BY <2>1 DEF InLine, Order, Before, Is
  <2>4. InLine' = InLine /\ Order' = Order
    BY <2>2, <2>3 DEF Service!Without
  <2> QED
    BY <2>1, <2>4 DEF Hand, Budget
<1>3. CASE Reserve
  <2>1. PICK k \in ActiveKeys(pool) \cap Key :
          spent' = [spent EXCEPT ![k] = @ \cup {0}] /\ CanTake(pool, k)
    BY <1>3, CoveredReserve DEF Served
  <2>2. PICK i \in BestLanes(pool, req[cur].prefer, req[cur].allowed) :
          /\ pool' = Take(pool, pool.order[i])
          /\ res' = [key |-> pool.order[i], endpoint |-> pool.endpoint[pool.order[i]],
                     live |-> TRUE, age |-> 0]
          /\ spent' = [spent EXCEPT ![pool.order[i]] = @ \cup {0}]
    BY <1>3 DEF Reserve
  <2> DEFINE h == pool.order[i]
  <2>10. res'.key = h
    BY <2>2
  <2>3. h \in Key /\ h \in ActiveKeys(pool) /\ CanTake(pool, h)
    BY <1>0, BestLaneFacts
  <2>4. pc = "serve" /\ pc' = "reply" /\ UNCHANGED <<queue, req, cur>> /\ Is(cur, "queued")
    BY <1>3 DEF Reserve
  <2>5. Hand = None /\ Hand' = h
    BY <2>10, <2>4 DEF Hand
  <2>6. Budget' = Budget
    BY <1>0, <2>2 DEF Budget, Take, ActiveKeys, PoolState
  <2>7. cur \in InLine /\ UNCHANGED <<InLine, Order>>
    BY <1>0, <2>4, OrderKept DEF InLine
  <2>8. Cardinality(spent[h]) < Budget[h]
    <3>1. Cardinality(spent[h]) =< Load(pool, h) /\ Cardinality(spent[h]) \in Nat
      BY <1>0, <2>3, LaneFacts, AgesFinite, FS_Subset, FS_CardinalityType DEF Served, Covered, WindowCoversSpent, Load
    <3>2. Load(pool, h) < pool.rpm[h] /\ Load(pool, h) \in Nat /\ pool.rpm[h] \in Nat
      BY <1>0, <2>3, LaneFacts DEF CanTake
    <3> QED
      BY <2>3, <3>1, <3>2 DEF Budget
  <2>11. spent' = [spent EXCEPT ![h] = @ \cup {0}]
    BY <2>2
  <2>9. Service!Reserve(h)
    <3>1. Service!Cardinality(spent[h]) = Cardinality(spent[h])
      BY DEF Cardinality, Service!Cardinality
    <3> HIDE DEF h
    <3> QED
      BY <2>5, <2>6, <2>7, <2>8, <2>11, <3>1 DEF Service!Reserve
  <2> QED
    BY <2>3, <2>9 DEF Service!Next
<1>4. CASE Reject
  <2>1. Become(cur, "failed") /\ pc = "serve" /\ pc' = "recv" /\ Is(cur, "queued")
        /\ cur' = None /\ UNCHANGED <<pool, queue, res, spent>>
    BY <1>4 DEF Reject, AllBusy
  <2>2. Service!Without(cur)
    BY <1>0, <2>1, BecomeFacts, OrderWithout
  <2>3. Service!Heads(cur) /\ cur \in Req
    BY <2>1, HeadServed
  <2>4. Hand = None /\ Hand' = None /\ UNCHANGED <<Budget, spent>>
    BY <2>1 DEF Hand, Budget
  <2>5. Service!Refuse(cur)
    BY <2>2, <2>3, <2>4 DEF Service!Refuse
  <2> QED
    BY <2>3, <2>5 DEF Service!Next
<1>5. CASE Sleep \/ Wake
  <2>1. UNCHANGED <<pool, queue, req, cur, res, spent>> /\ pc # "reply" /\ pc' # "reply"
    BY <1>5 DEF Sleep, AllBusy, Wake
  <2> QED
    BY <2>1, OrderKept DEF Hand, Budget
<1>6. CASE Reply
  <2>1. pc = "reply" /\ pc' \in {"recv", "gap"} /\ UNCHANGED queue /\ cur' = None
        /\ res \in Slot /\ cur \in Req
    BY <1>0, <1>6 DEF Reply, Typed, HandsOK
  <2>2. Hand = res.key /\ Hand' = None /\ res.key \in Key /\ Hand # None
    BY <1>0, <2>1 DEF Hand, Slot
  <2>3. CASE /\ Is(cur, "closed") /\ Become(cur, "idle")
             /\ pool' = IF res.live THEN Release(pool, res.key, res.age) ELSE pool
             /\ spent' = [spent EXCEPT ![res.key] = @ \ {res.age}]
    <3>1. Service!Without(cur)
      BY <1>0, <2>1, <2>3, BecomeFacts, OrderWithout
    <3>2. cur \notin InLine /\ \A p \in Order : p[1] # cur /\ p[2] # cur
      BY <2>3 DEF InLine, Order, Before, Is
    <3>3. InLine' = InLine /\ Order' = Order
      BY <3>1, <3>2 DEF Service!Without
    <3>4. Budget' = Budget
      BY <1>0, <2>3 DEF Budget, Release, ActiveKeys, PoolState
    <3>5. res.age \in Age \cup {Window}
      BY <2>1, AgeFacts DEF Slot, Age
    <3>6. Service!GiveBack(res.key, res.age)
      BY <2>2, <2>3, <3>3, <3>4 DEF Service!GiveBack
    <3> QED
      BY <2>2, <3>5, <3>6 DEF Service!Next, Service!Age, Age
  <2>4. CASE /\ Is(cur, "queued")
             /\ req' = [req EXCEPT ![cur] = [Idle EXCEPT !.st = "granted", !.slot = res]]
             /\ UNCHANGED <<pool, spent>>
    <3>1. req'[cur].st # "queued" /\ \A r \in Req \ {cur} : req'[r] = req[r]
      BY <1>0, <2>1, <2>4 DEF Idle, Typed, TypeOK
    <3>2. Service!Without(cur)
      BY <2>1, <3>1, OrderWithout
    <3>3. Service!Heads(cur)
      BY <2>1, <2>4, HeadServed
    <3>4. Service!Answer(cur)
      BY <2>2, <2>4, <3>2, <3>3 DEF Service!Answer, Budget
    <3> QED
      BY <2>1, <3>4 DEF Service!Next
  <2> QED
    BY <1>6, <2>3, <2>4 DEF Reply
<1> QED
  BY <1>1, <1>2, <1>3, <1>4, <1>5, <1>6 DEF Task

\* A client joins the line, leaves it, or gives back what it was granted.
LEMMA ServiceClient ==
  ASSUME Served, NEW r \in Req, Client(r)
  PROVE  Service!Next \/ UNCHANGED <<InLine, Order, Hand, Budget, spent>>
<1>0. /\ Typed /\ Lined /\ pool \in PoolState /\ spent \in [Key -> SUBSET Age]
      /\ req \in [Req -> Request]
  BY DEF Served, Covered, Typed, TypeOK
<1>1. ASSUME NEW p \in Prefs, NEW a \in Filters, NEW d \in Patience, Acquire(r, p, a, d)
      PROVE  Service!Next
  BY <1>1, ServiceAcquire DEF Service!Next
<1>2. ASSUME UNCHANGED <<pool, queue, pc, cur, res, spent>>, req[r].st # "queued", req'[r].st # "queued",
             \A q \in Req \ {r} : req'[q] = req[q]
      PROVE  UNCHANGED <<InLine, Order, Hand, Budget, spent>>
  BY <1>2 DEF InLine, Order, Before, Is, Hand, Budget
<1>3. CASE Resolve(r)
  <2>1. req[r].st # "queued" /\ req'[r].st # "queued" /\ \A q \in Req \ {r} : req'[q] = req[q]
    BY <1>0, <1>3, BecomeFacts DEF Resolve, Is, Request
  <2> QED
    BY <1>2, <1>3, <2>1 DEF Resolve
<1>4. CASE Finish(r)
  BY <1>0, <1>2, <1>4, BecomeFacts DEF Finish, Is
<1>5. ASSUME NEW b \in Backoffs, EnterCooldown(r, b)
      PROVE  UNCHANGED <<InLine, Order, Hand, Budget, spent>>
  <2>1. req[r].st = "sending" /\ Become(r, "idle") /\ UNCHANGED <<queue, cur, pc, res, spent>>
    BY <1>5 DEF EnterCooldown, Is
  <2>2. req'[r].st = "idle" /\ \A q \in Req \ {r} : req'[q] = req[q]
    BY <1>0, <2>1, BecomeFacts
  <2>3. UNCHANGED <<InLine, Order, Hand>>
    BY <2>1, <2>2 DEF InLine, Order, Before, Is, Hand
  <2>4. Budget' = Budget
    BY <1>0, <1>5 DEF EnterCooldown, Penalize, Budget, ActiveKeys, PoolState
  <2> QED
    BY <2>1, <2>3, <2>4
<1>6. CASE HangUp(r)
  <2>1. UNCHANGED <<pool, queue, pc, cur, res>> /\ \A q \in Req \ {r} : req'[q] = req[q]
    BY <1>0, <1>6, BecomeFacts DEF HangUp
  <2>2. UNCHANGED <<Hand, Budget>>
    BY <2>1 DEF Hand, Budget
  <2>3. CASE Is(r, "queued") /\ Become(r, "closed") /\ UNCHANGED spent
    <3>1. req'[r].st # "queued"
      BY <1>0, <2>3, BecomeFacts
    <3>2. Service!Without(r) /\ r \in InLine
      BY <2>1, <2>3, <3>1, OrderWithout DEF InLine
    <3>3. Service!Leave(r)
      BY <2>2, <2>3, <3>2 DEF Service!Leave
    <3> QED
      BY <3>3 DEF Service!Next
  <2>4. CASE /\ Is(r, "granted") /\ Become(r, "idle")
             /\ spent' = [spent EXCEPT ![req[r].slot.key] = @ \ {req[r].slot.age}]
    <3>1. req[r].slot \in Slot /\ req[r].st = "granted" /\ req'[r].st = "idle"
      BY <1>0, <2>4, BecomeFacts DEF Typed, HandsOK, Is
    <3>2. UNCHANGED <<InLine, Order>>
      BY <2>1, <3>1 DEF InLine, Order, Before, Is
    <3>3. Service!GiveBack(req[r].slot.key, req[r].slot.age)
      BY <2>2, <2>4, <3>2 DEF Service!GiveBack
    <3>4. req[r].slot.key \in Key /\ req[r].slot.age \in Age \cup {Window}
      BY <3>1, AgeFacts DEF Slot, Age
    <3> QED
      BY <3>3, <3>4 DEF Service!Next, Service!Age, Age
  <2> QED
    BY <1>6, <2>3, <2>4 DEF HangUp
<1> QED
  BY <1>1, <1>3, <1>4, <1>5, <1>6 DEF Client

\* A save is a configuration, and the clock is the clock.
LEMMA ServiceEnvironment ==
  ASSUME Served, Tick \/ \E s \in PoolSpecs : Swap(s)
  PROVE  Service!Next
<1>0. pool \in PoolState /\ spent \in [Key -> SUBSET Age] /\ Covered'
  <2>1. Covered'
    BY CoveredStep, TypedStep DEF Served, Covered, Next
  <2> QED
    BY <2>1 DEF Served, Covered, Typed, TypeOK
<1>1. UNCHANGED <<InLine, Order, Hand>>
  <2>1. UNCHANGED <<queue, pc, cur>>
    BY DEF Tick, Swap
  <2> QED
    BY <2>1, StatesKept, OrderKept DEF Hand
<1>2. ASSUME NEW s \in PoolSpecs, Swap(s) PROVE Service!Configure
  <2>1. Budget' \in [Key -> Nat]
    <3>1. pool' \in PoolState
      BY <1>0 DEF Covered, Typed, TypeOK
    <3> QED
      BY <3>1, PoolAssumption DEF Budget, PoolState, PoolAssumption
  <2> DEFINE out == Key \ (KnownKeys(pool) \cap Elements(s.keys))
  <2>2. out \in SUBSET Key /\ spent' = [k \in Key |-> IF k \in out THEN {} ELSE spent[k]]
    BY <1>2 DEF Swap
  <2> HIDE DEF out
  <2> QED
    BY <1>1, <2>1, <2>2 DEF Service!Configure
<1>3. CASE Tick
  <2>1. Budget' = Budget
    BY <1>0, <1>3 DEF Tick, Elapse, Budget, ActiveKeys, PoolState
  <2> QED
    BY <1>1, <1>3, <2>1 DEF Tick, Older, Service!Tick, Service!Age, Age, Service!Next
<1> QED
  BY <1>2, <1>3 DEF Service!Next

\* The dispatcher implements the slot service: whatever its task, clients, saves and
\* the clock do, slots are handed out in the order of arrival, and within the budgets.
THEOREM SlotServiceImplemented == Spec => ImplementsSlotService
<1>1. Init => Served /\ Service!Init
  <2> SUFFICES ASSUME Init PROVE Served /\ Service!Init
    OBVIOUS
  <2>1. Served
    BY TypedInit, LinedInit DEF Served, Covered, Init, NewPool, Assemble, WindowCoversSpent
  <2>2. InLine = {} /\ Order = {} /\ Hand = None
    BY DEF Init, InLine, Order, Before, Hand, Is, Idle
  <2>3. Budget \in [Key -> Nat]
    BY <2>1, PoolAssumption DEF Served, Covered, Typed, TypeOK, Budget, PoolState, PoolAssumption
  <2> QED
    BY <2>1, <2>2, <2>3 DEF Service!Init, Init
<1>2. Served /\ [Next]_vars => [Service!Next]_Service!vars
  <2> SUFFICES ASSUME Served, [Next]_vars PROVE [Service!Next]_Service!vars
    OBVIOUS
  <2>1. CASE UNCHANGED vars
    BY <2>1 DEF vars, Service!vars, InLine, Order, Before, Is, Hand, Budget
  <2> QED
    BY <2>1, ServiceTask, ServiceClient, ServiceEnvironment DEF Next, Service!vars
<1> QED
  BY <1>1, <1>2, ServedStep, PTL DEF Spec, ImplementsSlotService, Service!Spec
=============================================================================
