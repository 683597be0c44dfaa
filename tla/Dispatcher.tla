----------------------------- MODULE Dispatcher -----------------------------
(***************************************************************************)
(* The global FIFO slot dispatcher over the key pool: one task takes the   *)
(* waiters from an unbounded channel in arrival order, reserves a slot for *)
(* the one at the head, and answers it through a oneshot channel.  Around  *)
(* it run the requests, which join, hang up, take their slot and report a  *)
(* failing upstream, and the settings saves, which swap the pool.          *)
(*                                                                         *)
(* A retired pool is not kept: rebuild reads the live pool only, so what   *)
(* happens to a retired one is never seen again.  A slot (and the          *)
(* dispatcher's own snapshot) records whether the pool that granted it is  *)
(* still the live one.                                                     *)
(*                                                                         *)
(* The dispatcher's task has no crash action: the pool and the queue are   *)
(* in memory only and end with the process.                                *)
(***************************************************************************)
EXTENDS Pool

CONSTANTS
  Req,         \* request identities; one is used again after it is answered
  None,        \* no request, no slot
  PoolSpecs,   \* the blueprints a settings save may hand the pool
  FirstSpec,   \* the blueprint the process starts with
  Prefs,       \* preferred lane indexes a request may carry; 0 is no preference
  Filters,     \* sets of endpoints a request may be restricted to
  Patience,    \* ticks between a request's arrival and its deadline
  MaxPatience, \* bound: the largest of them
  Backoffs,    \* cooldowns an upstream failure may ask for
  SleepCap     \* the longest single sleep of the dispatcher, in ticks

ASSUME DispatcherAssumption ==
  /\ None \notin Req \cup Key
  /\ FirstSpec \in PoolSpecs
  /\ \A s \in PoolSpecs :
       /\ s \in PoolSpec
       /\ LaneOrder(s) \in Seq(Key)
       /\ \A i \in 1 .. Len(LaneOrder(s)) : LaneOrder(s)[i] \in s.enabled
       /\ \A i \in 1 .. Len(LaneOrder(s)) : LaneOrder(s)[i] \in Elements(s.keys)
  /\ Prefs \subseteq Nat
  /\ Filters \subseteq SUBSET Endpoint
  /\ MaxPatience \in Nat
  /\ Patience \subseteq 0 .. MaxPatience
  /\ Backoffs \subseteq 0 .. MaxCool
  /\ SleepCap \in Nat \ {0}

VARIABLES
  pool,      \* the live pool
  queue,     \* the channel: waiters not yet taken by the dispatcher
  req,       \* each request's side of its oneshot channel
  pc,        \* where the dispatcher task stands
  cur,       \* the waiter it serves
  res,       \* the reservation it has in hand
  timer,     \* ticks of its current sleep left
  stamped,   \* a reservation was made at this very instant
  spent      \* history: each key's reservations of the last window that
             \* were not handed back, since the key entered the pool

vars == <<pool, queue, req, pc, cur, res, timer, stamped, spent>>

\* A slot: its key, the group read from the granting pool, whether that pool
\* is still live, and the age of its stamp while it can still be handed back.
Slot == [key : Key, endpoint : Endpoint, live : BOOLEAN, age : 0 .. Window]

\* idle: not in the dispatcher's world.  queued: a waiter with its receiver.
\* closed: the receiver was dropped, the waiter is still in the channel.
\* granted: the slot lies in the oneshot channel.  failed: the sender was
\* dropped without one.  sending: the request took the slot and uses it.
ReqState == {"idle", "queued", "closed", "granted", "failed", "sending"}

\* A request with what its waiter carries: the preferred lane, the endpoints
\* it may use and the ticks to its deadline, -1 once that has passed.
Request ==
  [ st : ReqState, prefer : Nat, allowed : SUBSET Endpoint,
    left : -1 .. MaxPatience, slot : Slot \cup {None} ]

Idle == [st |-> "idle", prefer |-> 0, allowed |-> {}, left |-> 0, slot |-> None]

TypeOK ==
  /\ pool \in PoolState
  /\ queue \in Seq(Req)
  /\ req \in [Req -> Request]
  /\ pc \in {"recv", "serve", "reply", "sleep", "gap"}
  /\ cur \in Req \cup {None}
  /\ res \in Slot \cup {None}
  /\ timer \in 0 .. SleepCap
  /\ stamped \in BOOLEAN
  /\ spent \in [Key -> SUBSET Age]

Init ==
  /\ pool = NewPool(FirstSpec)
  /\ queue = <<>>
  /\ req = [r \in Req |-> Idle]
  /\ pc = "recv" /\ cur = None /\ res = None /\ timer = 0
  /\ stamped = FALSE
  /\ spent = [k \in Key |-> {}]

-----------------------------------------------------------------------------
(* Requests.                                                               *)

Is(r, state) == req[r].st = state
Become(r, state) == req' = [req EXCEPT ![r] = [Idle EXCEPT !.st = state]]

\* acquire_filtered: the waiter joins the back of the channel.
Acquire(r, prefer, allowed, patience) ==
  /\ Is(r, "idle")
  /\ req' = [req EXCEPT ![r] = [st |-> "queued", prefer |-> prefer,
               allowed |-> allowed, left |-> patience, slot |-> None]]
  /\ queue' = Append(queue, r)
  /\ UNCHANGED <<pool, pc, cur, res, timer, stamped, spent>>

\* The receiver resolves: with the slot, or with an error.
Resolve(r) ==
  /\ \/ /\ Is(r, "granted")
        /\ req' = [req EXCEPT ![r].st = "sending", ![r].slot.age = 0]
     \/ /\ Is(r, "failed")
        /\ Become(r, "idle")
  /\ UNCHANGED <<pool, queue, pc, cur, res, timer, stamped, spent>>

\* The client hangs up while it waits and the receiver is dropped.  A waiter
\* stays in the channel; a slot already sent into the oneshot is dropped with
\* it, and a Slot returns nothing to the pool as it is dropped.
HangUp(r) ==
  /\ \/ /\ Is(r, "queued")
        /\ Become(r, "closed")
        /\ UNCHANGED spent
     \/ /\ Is(r, "granted")
        /\ Become(r, "idle")
        /\ spent' = [spent EXCEPT ![req[r].slot.key] = @ \ {req[r].slot.age}]
  /\ UNCHANGED <<pool, queue, pc, cur, res, timer, stamped>>

\* The exchange is over; the upstream answered.
Finish(r) ==
  /\ Is(r, "sending")
  /\ Become(r, "idle")
  /\ UNCHANGED <<pool, queue, pc, cur, res, timer, stamped, spent>>

\* The exchange failed and the lane goes into cooldown, on the granting pool.
EnterCooldown(r, backoff) ==
  /\ Is(r, "sending")
  /\ pool' = IF req[r].slot.live THEN Penalize(pool, req[r].slot.key, backoff) ELSE pool
  /\ Become(r, "idle")
  /\ UNCHANGED <<queue, pc, cur, res, timer, stamped, spent>>

-----------------------------------------------------------------------------
(* The dispatcher task.                                                    *)

RecvNewest ==
  /\ pc = "recv" /\ queue # <<>>
  /\ cur' = queue[Len(queue)]
  /\ queue' = SubSeq(queue, 1, Len(queue) - 1)
  /\ pc' = "serve"
  /\ UNCHANGED <<pool, req, res, timer, stamped, spent>>

Recv ==
  /\ pc = "recv" /\ queue # <<>>
  /\ cur' = Head(queue)
  /\ queue' = Tail(queue)
  /\ pc' = "serve"
  /\ UNCHANGED <<pool, req, res, timer, stamped, spent>>

\* The head waiter's client is gone before a slot was reserved for it.
SkipClosed ==
  /\ pc = "serve" /\ Is(cur, "closed")
  /\ Become(cur, "idle")
  /\ pc' = "recv" /\ cur' = None
  /\ UNCHANGED <<pool, queue, res, timer, stamped, spent>>

\* Snapshot and reserve under the read guard: a slot is there.
Reserve ==
  /\ pc = "serve" /\ Is(cur, "queued") /\ ~stamped
  /\ \E i \in BestLanes(pool, req[cur].prefer, req[cur].allowed) :
       LET k == pool.order[i]
       IN  /\ pool' = Take(pool, k)
           /\ res' = [key |-> k, endpoint |-> pool.endpoint[k], live |-> TRUE, age |-> 0]
           /\ spent' = [spent EXCEPT ![k] = @ \cup {0}]
  /\ stamped' = TRUE
  /\ pc' = "reply"
  /\ UNCHANGED <<queue, req, cur, timer>>

\* No allowed lane is ready.
AllBusy ==
  /\ pc = "serve" /\ Is(cur, "queued") /\ ~stamped
  /\ ReadyLanes(pool, req[cur].allowed) = {}

NeverReject == FALSE

\* Fail fast when the soonest opening lies past the waiter's deadline: the
\* sender is dropped and the caller sees an error.
Reject ==
  /\ AllBusy
  /\ WaitFor(pool, req[cur].allowed) > req[cur].left
  /\ Become(cur, "failed")
  /\ pc' = "recv" /\ cur' = None
  /\ UNCHANGED <<pool, queue, res, timer, stamped, spent>>

\* Else sleep towards that opening, at most SleepCap at a time, so that a hang
\* up and a swapped pool are noticed.
Sleep ==
  LET wait == WaitFor(pool, req[cur].allowed)
  IN  /\ AllBusy
      /\ wait =< req[cur].left
      /\ pc' = "sleep" /\ timer' = Smaller(wait, SleepCap)
      /\ UNCHANGED <<pool, queue, req, cur, res, stamped, spent>>

\* The reservation is sent.  If the receiver is gone the slot is released on
\* the pool that granted it; else the next grant waits out the gap.
Reply ==
  /\ pc = "reply"
  /\ \/ /\ Is(cur, "closed")
        /\ Become(cur, "idle")
        /\ pool' = IF res.live THEN Release(pool, res.key, res.age) ELSE pool
        /\ spent' = [spent EXCEPT ![res.key] = @ \ {res.age}]
        /\ pc' = "recv"
        /\ UNCHANGED timer
     \/ /\ Is(cur, "queued")
        /\ req' = [req EXCEPT ![cur] = [Idle EXCEPT !.st = "granted", !.slot = res]]
        /\ pc' = "gap" /\ timer' = 1
        /\ UNCHANGED <<pool, spent>>
  /\ cur' = None /\ res' = None
  /\ UNCHANGED <<queue, stamped>>

\* A sleep is over: the loop starts again, or the next waiter is received.
Wake ==
  /\ pc \in {"sleep", "gap"} /\ timer = 0
  /\ pc' = IF pc = "sleep" THEN "serve" ELSE "recv"
  /\ UNCHANGED <<pool, queue, req, cur, res, timer, stamped, spent>>

-----------------------------------------------------------------------------
(* Settings saves and time.                                                *)

Retire(s) == IF s = None THEN None ELSE [s EXCEPT !.live = FALSE]

\* commit, under the write lock: the rebuilt pool replaces the live one.
Swap(spec) ==
  /\ pool' = Rebuild(pool, spec)
  /\ req' = [r \in Req |-> [req[r] EXCEPT !.slot = Retire(@)]]
  /\ res' = Retire(res)
  /\ spent' = [k \in Key |-> IF k \in KnownKeys(pool) \cap Elements(spec.keys)
                             THEN spent[k] ELSE {}]
  /\ UNCHANGED <<queue, pc, cur, timer, stamped>>

OlderSlot(s) == IF s = None THEN None ELSE [s EXCEPT !.age = Smaller(@ + 1, Window)]

OlderRequest(q) ==
  CASE q.st = "queued"  -> [q EXCEPT !.left = Larger(@ - 1, -1)]
    [] q.st = "granted" -> [q EXCEPT !.slot = OlderSlot(@)]
    [] OTHER            -> q

Tick ==
  /\ pool' = Elapse(pool)
  /\ req' = [r \in Req |-> OlderRequest(req[r])]
  /\ res' = OlderSlot(res)
  /\ timer' = Larger(timer - 1, 0)
  /\ stamped' = FALSE
  /\ spent' = [k \in Key |-> Older(spent[k])]
  /\ UNCHANGED <<queue, pc, cur>>

-----------------------------------------------------------------------------

Task == Recv \/ SkipClosed \/ Reserve \/ Reject \/ Sleep \/ Reply \/ Wake

Client(r) ==
  \/ \E p \in Prefs, a \in Filters, d \in Patience : Acquire(r, p, a, d)
  \/ Resolve(r)
  \/ HangUp(r)
  \/ Finish(r)
  \/ \E b \in Backoffs : EnterCooldown(r, b)

Next ==
  \/ Task
  \/ \E r \in Req : Client(r)
  \/ \E s \in PoolSpecs : Swap(s)
  \/ Tick

Spec == Init /\ [][Next]_vars

\* The runtime polls the dispatcher's task whenever it can run, and time goes
\* on.  Nothing is assumed of the clients, the upstreams or the operator.
FairSpec == Spec /\ WF_vars(Task) /\ WF_vars(Tick)

\* The task has nothing to wait for but its own next step.
TaskReady ==
  \/ pc = "recv" /\ queue # <<>>
  \/ pc = "serve" /\ (Is(cur, "closed") \/ ~stamped)
  \/ pc = "reply"
  \/ pc \in {"sleep", "gap"} /\ timer = 0

\* The dispatcher at its best: the clock moves only while the task waits, so
\* none of its steps takes any time but the sleeps the code asks for.
PromptSpec == Init /\ [][Next /\ (Tick => ~TaskReady)]_vars

-----------------------------------------------------------------------------
(* Properties.                                                             *)

\* Every reservation still charged to a key (given to a request, or in the
\* dispatcher's hand) is in the live pool's window for that key, across swaps,
\* hang ups and releases on retired pools: a kept key is never spent twice.
\* Pool::rebuild carries `sent` over; release removes one's own stamp only.
WindowCoversSpent == \A k \in Key : spent[k] \subseteq pool.sent[k]

\* A key is reserved only while enabled, and with the new reservation it has
\* no more than its current budget of charged ones in the window: try_take,
\* after any history of rebuilds (a lowered rpm counts at once, a re-enabled
\* key comes back warm).
BudgetKept ==
  [][\A k \in Key : 0 \in spent'[k] /\ 0 \notin spent[k] =>
       /\ k \in ActiveKeys(pool)
       /\ Cardinality(spent'[k]) =< pool.rpm[k]]_vars

\* The opening reserve_filtered computes for a lane is the first tick at which
\* try_take would succeed if nothing else happened, also when a lowered budget
\* leaves more stamps in the window than the budget (sent[len - rpm]).
HintExact ==
  \A k \in ActiveKeys(pool) : pool.rpm[k] > 0 =>
    ReadyIn(pool, k) =
      Least({d \in 0 .. Larger(Window, MaxCool) : FreeAfter(pool, k, d)})

\* A waiter is refused only when no lane it may use could be taken at any tick
\* up to its deadline, as the pool then stands: `acquire` errors only "if no
\* slot can open before deadline".
RefusedOnlyWhenHopeless ==
  [][\A r \in Req : Is(r, "queued") /\ req'[r].st = "failed" =>
       \A i \in AllowedLanes(pool, req[r].allowed), d \in 0 .. req[r].left :
         ~FreeAfter(pool, pool.order[i], d)]_vars

\* A slot in hand is for a lane of a group the waiter may use.
GrantAllowed ==
  [][res = None /\ res' # None => res'.endpoint \in req[cur].allowed]_vars

\* The slot service the dispatcher implements: in line are those whose client is
\* still there, first the waiter being served and then the channel.
Before(r, s) ==
  /\ Is(r, "queued") /\ Is(s, "queued")
  /\ \/ r = cur /\ \E j \in DOMAIN queue : queue[j] = s
     \/ \E i, j \in DOMAIN queue : i < j /\ queue[i] = r /\ queue[j] = s

InLine == {r \in Req : Is(r, "queued")}
Order == {p \in Req \X Req : Before(p[1], p[2])}
Hand == IF pc = "reply" THEN res.key ELSE None
Budget == [k \in Key |-> IF k \in ActiveKeys(pool) THEN pool.rpm[k] ELSE 0]

Service == INSTANCE SlotService WITH
  Caller <- Req, Nobody <- None,
  waiting <- InLine, before <- Order, hand <- Hand, budget <- Budget

\* Slots are granted strictly in arrival order and within each key's budget,
\* whatever swaps, hang ups and sleeps happen in between.
ImplementsSlotService == Service!Spec

\* Every waiter leaves the queue: granted, refused, or gone by itself.  The head
\* is served or its deadline comes, however often the pool is swapped.
EveryWaiterAnswered == \A r \in Req : Is(r, "queued") ~> ~Is(r, "queued")

\* docs/openproxy-docs.md:536 "Max seconds a request waits in queue": no slot is
\* granted to a waiter whose deadline has passed.
GrantedInTime ==
  [][\A r \in Req : Is(r, "queued") /\ req'[r].st = "granted" => req[r].left >= 0]_vars

\* README.md:207 "a client that disconnects while queued returns its slot": once
\* the dispatcher has nothing in hand, the window holds no reservation but those
\* charged to a request that got its slot.
SlotsReturned == res = None => \A k \in Key : pool.sent[k] \subseteq spent[k]
=============================================================================
