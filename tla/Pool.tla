-------------------------------- MODULE Pool --------------------------------
(***************************************************************************)
(* The key pool: one lane per API key, each with a sliding-window limiter  *)
(* and a cooldown.  A pool is a record                                     *)
(*                                                                         *)
(*   order     the enabled keys in lane order (lanes[..active]); lane i    *)
(*             serves key order[i]                                         *)
(*   carriers  the disabled keys kept past the active boundary for their   *)
(*             rate state                                                  *)
(*   rpm       each key's budget per window                                *)
(*   endpoint  the endpoint group each key belongs to                      *)
(*   sent      each key's reservations still inside the window, as ages    *)
(*   cool      ticks each key's cooldown has left                          *)
(*                                                                         *)
(* Keys are unique in the store, so a lane and its key stand for one       *)
(* another.  Time is relative: a stamp t of the code is its age now - t,   *)
(* and an instant u in the future is the u - now ticks left.  A stamp      *)
(* leaves the set as its age reaches Window: the code pops it from the     *)
(* front of the queue before it next reads the lane, so nothing sees the   *)
(* difference.  Two reservations never carry the same instant, so a set    *)
(* of ages loses nothing that the queue of stamps holds.                   *)
(***************************************************************************)
EXTENDS Integers, Sequences, FiniteSets

CONSTANTS
  Key,        \* the API keys an operator may configure
  Endpoint,   \* the indexes of endpoint groups
  Window,     \* the rolling window, in ticks
  MaxRpm,     \* bound: the largest budget of a key
  MaxCool     \* bound: the longest cooldown, in ticks

ASSUME PoolAssumption ==
  /\ IsFiniteSet(Key)
  /\ Window \in Nat \ {0}
  /\ MaxRpm \in Nat
  /\ MaxCool \in Nat

Age == 0 .. Window - 1

PoolState ==
  [ order    : Seq(Key),
    carriers : SUBSET Key,
    rpm      : [Key -> 0 .. MaxRpm],
    endpoint : [Key -> Endpoint],
    sent     : [Key -> SUBSET Age],
    cool     : [Key -> 0 .. MaxCool] ]

\* A settings save hands the pool its blueprint: every stored key in stored
\* order, which of them are enabled, and each one's budget and group.
PoolSpec ==
  [ keys     : Seq(Key),
    enabled  : SUBSET Key,
    rpm      : [Key -> 0 .. MaxRpm],
    endpoint : [Key -> Endpoint] ]

Elements(s) == {s[i] : i \in 1 .. Len(s)}

Lanes(p) == 1 .. Len(p.order)
ActiveKeys(p) == Elements(p.order)
KnownKeys(p) == ActiveKeys(p) \cup p.carriers
Load(p, k) == Cardinality(p.sent[k])

Larger(a, b) == IF a >= b THEN a ELSE b
Smaller(a, b) == IF a =< b THEN a ELSE b
Least(S) == CHOOSE a \in S : \A b \in S : a =< b

-----------------------------------------------------------------------------
(* Building a pool.                                                        *)

LaneOrder(s) == SelectSeq(s.keys, LAMBDA k : k \in s.enabled)

AssembleCold(s, sent, cool) ==
  [ order |-> LaneOrder(s), carriers |-> Elements(s.keys) \ s.enabled,
    rpm |-> s.rpm, endpoint |-> s.endpoint,
    sent |-> [k \in Key |-> {}], cool |-> cool ]

\* Enabled lanes first, carriers after; a key with no rate state starts clean.
Assemble(s, sent, cool) ==
  [ order |-> LaneOrder(s), carriers |-> Elements(s.keys) \ s.enabled,
    rpm |-> s.rpm, endpoint |-> s.endpoint,
    sent |-> sent, cool |-> cool ]

NewPool(s) == Assemble(s, [k \in Key |-> {}], [k \in Key |-> 0])

\* The replacement pool keeps the window and the cooldown of every key the old
\* pool knew, enabled or carrier, and of no other.
Rebuild(p, s) ==
  LET kept == KnownKeys(p) \cap Elements(s.keys)
  IN  Assemble(s, [k \in Key |-> IF k \in kept THEN p.sent[k] ELSE {}],
                  [k \in Key |-> IF k \in kept THEN p.cool[k] ELSE 0])

-----------------------------------------------------------------------------
(* Reserving a slot.                                                       *)

CanTake(p, k) == p.cool[k] = 0 /\ Load(p, k) < p.rpm[k]

Take(p, k) == [p EXCEPT !.sent[k] = @ \cup {0}]

\* The stamp with n - 1 younger ones: sent[len - n] of the code's queue.
NthNewest(S, n) == CHOOSE a \in S : Cardinality({b \in S : b < a}) = n - 1

\* Ticks until the key's window has room: the stamp that must leave is the
\* rpm-th from the end, which is the oldest only when the lane is exactly full.
WindowReadyIn(p, k) ==
  IF Load(p, k) < p.rpm[k] THEN 0
  ELSE IF p.rpm[k] = 0 THEN Window
  ELSE Window - NthNewest(p.sent[k], p.rpm[k])

ReadyIn(p, k) == Larger(WindowReadyIn(p, k), p.cool[k])

AllowedLanes(p, allowed) == {i \in Lanes(p) : p.endpoint[p.order[i]] \in allowed}

ReadyLanes(p, allowed) == {i \in AllowedLanes(p, allowed) : CanTake(p, p.order[i])}

BestLanesUnfiltered(p, prefer, allowed) ==
  IF prefer \in Lanes(p) /\ CanTake(p, p.order[prefer]) THEN {prefer}
  ELSE {i \in ReadyLanes(p, allowed) : \A j \in ReadyLanes(p, allowed) :
          Load(p, p.order[i]) =< Load(p, p.order[j])}

\* The lane a reservation lands on, as a set of at most one: the preferred lane
\* while it has room, else the least loaded ready one, the first among equals.
BestLanes(p, prefer, allowed) ==
  LET ready == ReadyLanes(p, allowed)
  IN  IF prefer \in ready THEN {prefer}
      ELSE {i \in ready : \A j \in ready :
             \/ Load(p, p.order[i]) < Load(p, p.order[j])
             \/ Load(p, p.order[i]) = Load(p, p.order[j]) /\ i =< j}

WaitForLatest(p, allowed) ==
  LET waits == {ReadyIn(p, p.order[i]) : i \in AllowedLanes(p, allowed)}
  IN  IF waits = {} THEN Window
      ELSE CHOOSE a \in waits : \A b \in waits : a >= b

\* How long the caller is told to wait when no allowed lane is ready: the
\* soonest opening, and never more than the window.
WaitFor(p, allowed) ==
  Least({Window} \cup {ReadyIn(p, p.order[i]) : i \in AllowedLanes(p, allowed)})

-----------------------------------------------------------------------------
(* What happens to a reservation afterwards.                               *)

\* An unused slot goes back: its stamp leaves the window.
Release(p, k, age) == [p EXCEPT !.sent[k] = @ \ {age}]

\* A cooldown is extended and never shortened.
Penalize(p, k, backoff) == [p EXCEPT !.cool[k] = Larger(@, backoff)]

\* One tick: stamps age and leave at Window, cooldowns run down.
Older(S) == {a \in Age : a - 1 \in S}
Elapse(p) ==
  [p EXCEPT !.sent = [k \in Key |-> Older(p.sent[k])],
            !.cool = [k \in Key |-> Larger(p.cool[k] - 1, 0)]]

\* Could key k be taken after d ticks in which nothing else happens to it?
FreeAfter(p, k, d) ==
  /\ p.cool[k] =< d
  /\ Cardinality({a \in p.sent[k] : a + d < Window}) < p.rpm[k]
=============================================================================
