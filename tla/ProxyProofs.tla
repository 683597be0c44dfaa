---------------------------- MODULE ProxyProofs -----------------------------
(***************************************************************************)
(* The requests of the proxy, for any number of requests, handlers, groups *)
(* and models: the counter is exact, those past the cap check are within   *)
(* the cap, and a request goes where its snapshot says the model is.       *)
(***************************************************************************)
EXTENDS Proxy, ConfigProofs, FiniteSetTheorems

-----------------------------------------------------------------------------
(* The inductive invariant.                                                *)

PastCheck == {"accepted", "queued", "sent", "catalog", "fetch", "asked"}

\* What a request carries: the snapshot it arrived under, a rank within that
\* snapshot's cap once it was let past, and the route it took.
Sound(q) ==
  /\ q.pc # "idle" => q.doc \in Document
  /\ q.pc \in PastCheck => q.rank <= MaxInflight[q.doc.limits]
  /\ q.pc \in {"queued", "sent"} => q.allowed = RouteModel(Runtime(q.doc), q.model)

Carried == \A r \in Request : request[r] \in Requests /\ Sound(request[r])

\* In any set of requests in flight one, the last to arrive, counted them all.
Ranked ==
  \A S \in SUBSET Busy : S # {} => \E r \in S : Cardinality(S) <= request[r].rank

Counted == inflight = Cardinality(Busy) /\ Ranked

PlacesKept == Placed(cfg) /\ Placed(pool)

IInv == TypeOK /\ Carried /\ Counted /\ PlacesKept

-----------------------------------------------------------------------------
(* Routes and lanes.                                                       *)

\* The snapshot of a document.
LEMMA RuntimeSnapshot ==
  ASSUME NEW doc \in Document
  PROVE  Runtime(doc) \in Snapshot
<1>1. Names(doc.clients) \subseteq Client
  BY Fields DEF Names, ClientKey
<1> DEFINE cs == IF doc.mode = "open" THEN {} ELSE Names(doc.clients)
<1>2. cs \in SUBSET Client
  BY <1>1
<1>3. Runtime(doc) = [ endpoints |-> doc.groups, disabled |-> doc.disabled,
                       limits |-> doc.limits, mode |-> doc.mode, clients |-> cs ]
  BY DEF Runtime
<1> HIDE DEF cs
<1> QED
  BY <1>2, <1>3, Fields DEF Snapshot

\* A route is made of indexes of groups.
LEMMA RouteIndexes ==
  ASSUME NEW doc \in Document, NEW m
  PROVE  /\ RouteModel(Runtime(doc), m) \subseteq DOMAIN doc.groups
         /\ DOMAIN doc.groups \subseteq Nat
<1>1. Runtime(doc).endpoints = doc.groups
  BY DEF Runtime
<1>2. RouteModel(Runtime(doc), m) \subseteq DOMAIN doc.groups
  BY <1>1 DEF RouteModel
<1>3. doc.groups \in Seq(Endpoint)
  BY Fields
<1> QED
  BY <1>2, <1>3

\* The groups of a route serve the model.
LEMMA RouteServes ==
  ASSUME NEW doc \in Document, NEW m, NEW i \in RouteModel(Runtime(doc), m)
  PROVE  Serves(doc, doc.groups[i].id, m)
<1> DEFINE on == {ep \in {doc.groups[j] : j \in DOMAIN doc.groups} : ep.enabled}
           pinning == {ep \in on : m \in ep.models}
           places == {j \in DOMAIN doc.groups : doc.groups[j].enabled}
           specific == {j \in places : m \in doc.groups[j].models}
<1>1. Runtime(doc).endpoints = doc.groups /\ Runtime(doc).disabled = doc.disabled
  BY DEF Runtime
<1>2. /\ m \notin doc.disabled
      /\ i \in IF specific # {} THEN specific ELSE {j \in places : doc.groups[j].models = {}}
  BY <1>1 DEF RouteModel
<1>3. i \in DOMAIN doc.groups /\ doc.groups[i] \in on
  BY <1>2
<1>4. pinning = {} <=> specific = {}
  OBVIOUS
<1>5. IF pinning = {} THEN doc.groups[i].models = {} ELSE doc.groups[i] \in pinning
  BY <1>2, <1>3, <1>4
<1> HIDE DEF places, specific
<1> QED
  BY <1>2, <1>3, <1>5 DEF Serves

\* A lane bears the index of its group.
LEMMA LaneIndex ==
  ASSUME NEW doc \in Document, Placed(doc), NEW lane \in PoolSpecs(doc)
  PROVE  /\ lane.endpoint \in DOMAIN doc.groups /\ doc.groups[lane.endpoint].id = lane.group
         /\ lane.group \in Group
<1>1. PICK k \in doc.keys : lane.endpoint = Place(doc, k.group) /\ lane.group = k.group
  BY DEF PoolSpecs
<1>2. k.group \in GroupIds(doc)
  BY <1>1 DEF Placed
<1> QED
  BY <1>1, <1>2, GroupsPlaced

\* A task that leaves the queue of the lock leaves it to tasks.
LEMMA LockLeft ==
  ASSUME NEW S, lock \in Seq(S), NEW p
  PROVE  Without(p) \in Seq(S)
<1>1. CASE Waiting(p)
  <2>1. Turn(p) \in DOMAIN lock
    BY <1>1 DEF Waiting, Turn
  <2> QED
    BY <1>1, <2>1, WithoutOne DEF Without
<1> QED
  BY <1>1 DEF Without

-----------------------------------------------------------------------------
(* The counter.                                                            *)

\* Sets of requests can be counted.
LEMMA Countable ==
  ASSUME NEW S \in SUBSET Request
  PROVE  IsFiniteSet(S) /\ Cardinality(S) \in Nat
  BY ProxyAssumption, FS_Subset, FS_CardinalityType

\* One request changes.
LEMMA Changed ==
  ASSUME TypeOK, NEW r \in Request, NEW q, To(r, q)
  PROVE  /\ request'[r] = q
         /\ \A s \in Request \ {r} : request'[s] = request[s]
         /\ (q \in Requests => request' \in [Request -> Requests])
  BY DEF TypeOK, To

\* A request in flight that stays so, and keeps its rank.
LEMMA CountKept ==
  ASSUME TypeOK, Counted, NEW r \in Request, NEW q, To(r, q), inflight' = inflight,
         request[r].pc # "idle", q.pc # "idle", q.rank = request[r].rank
  PROVE  Counted'
<1>1. /\ Busy' = Busy
      /\ \A s \in Request : request'[s].rank = request[s].rank
  BY Changed DEF Busy
<1>2. Busy \subseteq Request
  BY DEF Busy
<1> QED
  BY <1>1, <1>2 DEF Counted, Ranked

\* A request that leaves.
LEMMA CountLess ==
  ASSUME TypeOK, Counted, NEW r \in Request, NEW q, To(r, q), inflight' = inflight - 1,
         request[r].pc # "idle", q.pc = "idle"
  PROVE  Counted'
<1>1. /\ Busy' = Busy \ {r} /\ r \in Busy
      /\ \A s \in Request \ {r} : request'[s].rank = request[s].rank
  BY Changed DEF Busy
<1>2. Busy \in SUBSET Request
  BY DEF Busy
<1>3. Cardinality(Busy') = Cardinality(Busy) - 1
  BY <1>1, <1>2, Countable, FS_RemoveElement
<1>4. Ranked'
  BY <1>1, <1>2 DEF Counted, Ranked
<1> QED
  BY <1>3, <1>4 DEF Counted

\* A request that arrives, and counts itself.
LEMMA CountMore ==
  ASSUME TypeOK, Counted, NEW r \in Request, NEW q, To(r, q), inflight' = inflight + 1,
         request[r].pc = "idle", q.pc # "idle", q.rank = inflight + 1
  PROVE  Counted'
<1>1. /\ Busy' = Busy \cup {r} /\ r \notin Busy
      /\ request'[r].rank = inflight + 1
      /\ \A s \in Request \ {r} : request'[s].rank = request[s].rank
  BY Changed DEF Busy
<1>2. Busy \in SUBSET Request /\ Busy' \in SUBSET Request
  BY <1>1 DEF Busy
<1>3. Cardinality(Busy') = Cardinality(Busy) + 1 /\ Cardinality(Busy) \in Nat
  BY <1>1, <1>2, Countable, FS_AddElement
<1>4. ASSUME NEW S \in SUBSET Busy', S # {}
      PROVE  \E s \in S : Cardinality(S) <= request'[s].rank
  <2>1. CASE r \in S
    <3>1. Cardinality(S) <= Cardinality(Busy')
      BY <1>2, Countable, FS_Subset
    <3> QED
      BY <1>1, <1>3, <2>1, <3>1 DEF Counted
  <2>2. CASE r \notin S
    <3>1. S \in SUBSET Busy
      BY <1>1, <2>2
    <3>2. PICK s \in S : Cardinality(S) <= request[s].rank
      BY <1>4, <3>1 DEF Counted, Ranked
    <3>3. request'[s].rank = request[s].rank
      BY <1>1, <1>2, <2>2, <3>1, <3>2
    <3> QED
      BY <3>2, <3>3
  <2> QED
    BY <2>1, <2>2
<1>5. Ranked'
  BY <1>4 DEF Ranked
<1> QED
  BY <1>3, <1>5 DEF Counted

-----------------------------------------------------------------------------
(* Steps.                                                                  *)

\* A request in flight moves: its counters stand, if it keeps what it carries.
LEMMA Moves ==
  ASSUME IInv, NEW r \in Request, NEW q, To(r, q),
         request[r].pc # "idle", q.pc # "idle", q.rank = request[r].rank,
         q \in Requests, Sound(q),
         UNCHANGED <<InForce, inflight>>,
         catalog' \in (SUBSET Model) \cup {Nothing}, lock' \in Seq(Request \cup Handler)
  PROVE  IInv'
<1>1. /\ request' \in [Request -> Requests]
      /\ \A s \in Request : request'[s] \in Requests /\ Sound(request'[s])
  BY Changed DEF IInv, Carried
<1>2. TypeOK'
  BY <1>1 DEF IInv, TypeOK, InForce
<1>3. Carried'
  BY <1>1 DEF Carried, Sound
<1>4. Counted'
  BY CountKept DEF IInv
<1> QED
  BY <1>2, <1>3, <1>4 DEF IInv, PlacesKept, InForce

\* The next stage of a request, with nothing else changed but the lock.
LEMMA Stays ==
  ASSUME IInv, NEW r \in Request, NEW pc, Stay(r, pc),
         request[r].pc # "idle", pc \in Stages \ {"idle", "queued", "sent"},
         request[r].pc \in PastCheck \/ pc \notin PastCheck,
         UNCHANGED <<InForce, inflight>>,
         catalog' \in (SUBSET Model) \cup {Nothing}, lock' \in Seq(Request \cup Handler)
  PROVE  IInv'
<1> DEFINE q == [request[r] EXCEPT !.pc = pc]
<1>1. request[r] \in Requests /\ Sound(request[r])
  BY DEF IInv, Carried
<1>2. /\ q \in Requests /\ q.pc = pc /\ q.pc # "idle" /\ q.rank = request[r].rank
      /\ q.doc = request[r].doc
  BY <1>1 DEF Requests
<1>3. Sound(q)
  BY <1>1, <1>2 DEF Sound
<1>4. To(r, q)
  BY DEF Stay
<1> HIDE DEF q
<1> QED
  BY <1>2, <1>3, <1>4, Moves

\* The types of the catalog and of the lock.
LEMMA Shared ==
  ASSUME IInv
  PROVE  /\ catalog \in (SUBSET Model) \cup {Nothing}
         /\ lock \in Seq(Request \cup Handler)
         /\ \A p : Without(p) \in Seq(Request \cup Handler)
         /\ \A r \in Request : request[r] \in Requests /\ Sound(request[r])
         /\ \A r \in Request : Append(lock, r) \in Seq(Request \cup Handler)
<1>1. lock \in Seq(Request \cup Handler) /\ catalog \in (SUBSET Model) \cup {Nothing}
  BY DEF IInv, TypeOK
<1> QED
  BY <1>1, LockLeft DEF IInv, Carried

LEMMA ArriveStep ==
  ASSUME IInv, NEW r \in Request, Arrive(r)
  PROVE  IInv'
<1> DEFINE q == [NoRequest EXCEPT !.pc = "counted", !.doc = cfg, !.rank = inflight + 1]
<1>1. inflight \in Nat /\ cfg \in Document
  BY Countable DEF IInv, TypeOK, Counted, Busy
<1>2. q \in Requests /\ q.pc = "counted" /\ q.doc = cfg /\ q.rank = inflight + 1
  <2>1. NoRequest \in Requests
    BY DEF NoRequest, Requests, Stages
  <2>2. inflight + 1 \in Nat
    BY <1>1
  <2> QED
    BY <1>1, <2>1, <2>2 DEF Requests, Stages
<1>3. Sound(q)
  BY <1>1, <1>2 DEF Sound, PastCheck
<1>4. To(r, q) /\ inflight' = inflight + 1 /\ request[r].pc = "idle"
  BY DEF Arrive, At
<1> HIDE DEF q
<1>5. /\ request' \in [Request -> Requests]
      /\ \A s \in Request : request'[s] \in Requests /\ Sound(request'[s])
  BY <1>2, <1>3, <1>4, Changed DEF IInv, Carried
<1>6. TypeOK'
  BY <1>1, <1>4, <1>5 DEF IInv, TypeOK, Arrive, InForce
<1>7. Carried'
  BY <1>5 DEF Carried, Sound
<1>8. Counted'
  BY <1>2, <1>4, CountMore DEF IInv
<1> QED
  BY <1>6, <1>7, <1>8 DEF IInv, PlacesKept, Arrive, InForce

LEMMA AdmitStep ==
  ASSUME IInv, NEW r \in Request, Admit(r)
  PROVE  IInv'
<1>1. /\ request[r].pc = "counted" /\ UNCHANGED <<InForce, inflight, catalog, lock>>
      /\ request[r] \in Requests /\ Sound(request[r])
  BY Shared DEF Admit, At
<1>2. request[r].doc \in Document /\ request[r].doc.limits \in Limits
  BY <1>1, Fields DEF Sound
<1>3. request[r].rank \in Nat /\ MaxInflight[request[r].doc.limits] \in Nat
  BY <1>1, <1>2, ProxyAssumption DEF Requests
<1>4. CASE request[r].rank > MaxInflight[request[r].doc.limits]
  <2>1. Stay(r, "done")
    BY <1>4 DEF Admit
  <2> QED
    BY <1>1, <2>1, Shared, Stays DEF Stages, PastCheck
<1>5. CASE ~(request[r].rank > MaxInflight[request[r].doc.limits])
  <2> DEFINE q == [request[r] EXCEPT !.pc = "accepted"]
  <2>1. To(r, q)
    BY <1>5 DEF Admit, Stay
  <2>2. /\ q \in Requests /\ q.pc = "accepted" /\ q.rank = request[r].rank
        /\ q.doc = request[r].doc
    BY <1>1 DEF Requests, Stages
  <2>3. Sound(q)
    BY <1>2, <1>3, <1>5, <2>2 DEF Sound
  <2> HIDE DEF q
  <2> QED
    BY <1>1, <2>1, <2>2, <2>3, Shared, Moves
<1> QED
  BY <1>4, <1>5

LEMMA RouteStep ==
  ASSUME IInv, NEW r \in Request, NEW m \in Model \cup {Unnamed}, Route(r, m)
  PROVE  IInv'
<1> DEFINE allowed == RouteModel(Runtime(request[r].doc), m)
<1>1. /\ request[r].pc = "accepted" /\ UNCHANGED <<InForce, inflight, catalog>>
      /\ request[r] \in Requests /\ Sound(request[r])
  BY Shared DEF Route, At
<1>2. request[r].doc \in Document /\ request[r].rank <= MaxInflight[request[r].doc.limits]
  BY <1>1 DEF Sound, PastCheck
<1>3. allowed \in SUBSET Nat
  BY <1>2, RouteIndexes
<1>4. \/ Stay(r, "done") /\ UNCHANGED lock
      \/ To(r, [request[r] EXCEPT !.pc = "queued", !.model = m, !.allowed = allowed])
         /\ UNCHANGED lock
      \/ To(r, [request[r] EXCEPT !.pc = "catalog", !.model = m]) /\ lock' = Append(lock, r)
  BY DEF Route
<1> HIDE DEF allowed
<1>5. CASE Stay(r, "done") /\ UNCHANGED lock
  BY <1>1, <1>5, Shared, Stays DEF Stages, PastCheck
<1>6. CASE To(r, [request[r] EXCEPT !.pc = "queued", !.model = m, !.allowed = allowed])
           /\ UNCHANGED lock
  <2> DEFINE q == [request[r] EXCEPT !.pc = "queued", !.model = m, !.allowed = allowed]
  <2>1. /\ q \in Requests /\ q.pc = "queued" /\ q.rank = request[r].rank
        /\ q.doc = request[r].doc /\ q.model = m /\ q.allowed = allowed
    BY <1>1, <1>3 DEF Requests, Stages
  <2> HIDE DEF q
  <2>2. Sound(q)
    BY <1>2, <2>1 DEF Sound, allowed
  <2> QED
    BY <1>1, <1>6, <2>1, <2>2, Shared, Moves DEF q
<1>7. CASE To(r, [request[r] EXCEPT !.pc = "catalog", !.model = m]) /\ lock' = Append(lock, r)
  <2> DEFINE q == [request[r] EXCEPT !.pc = "catalog", !.model = m]
  <2>1. /\ q \in Requests /\ q.pc = "catalog" /\ q.rank = request[r].rank
        /\ q.doc = request[r].doc
    BY <1>1 DEF Requests, Stages
  <2> HIDE DEF q
  <2>2. Sound(q)
    BY <1>2, <2>1 DEF Sound
  <2> QED
    BY <1>1, <1>7, <2>1, <2>2, Shared, Moves DEF q
<1> QED
  BY <1>4, <1>5, <1>6, <1>7

LEMMA GrantStep ==
  ASSUME IInv, NEW r \in Request, Grant(r) \/ Retry(r)
  PROVE  IInv'
<1>1. /\ request[r].pc \in {"queued", "sent"} /\ UNCHANGED <<InForce, inflight, catalog, lock>>
      /\ request[r] \in Requests /\ Sound(request[r])
  BY Shared DEF Grant, Retry, At
<1>2. \E pc \in {"queued", "sent"}, g \in Group \cup {Nothing} :
        To(r, [request[r] EXCEPT !.pc = pc, !.sent = g])
  <2>1. CASE Grant(r)
    <3>1. PICK lane \in PoolSpecs(pool) :
            To(r, [request[r] EXCEPT !.pc = "sent", !.sent = lane.group])
      BY <2>1 DEF Grant
    <3>2. lane.group \in Group
      BY <3>1, LaneIndex DEF IInv, TypeOK, PlacesKept
    <3> QED
      BY <3>1, <3>2
  <2>2. CASE Retry(r)
    BY <2>2 DEF Retry
  <2> QED
    BY <2>1, <2>2
<1>3. PICK pc \in {"queued", "sent"}, g \in Group \cup {Nothing} :
        To(r, [request[r] EXCEPT !.pc = pc, !.sent = g])
  BY <1>2
<1> DEFINE q == [request[r] EXCEPT !.pc = pc, !.sent = g]
<1>4. /\ q \in Requests /\ q.pc = pc /\ q.rank = request[r].rank
      /\ q.doc = request[r].doc /\ q.model = request[r].model
      /\ q.allowed = request[r].allowed
  BY <1>1, <1>3 DEF Requests, Stages
<1> HIDE DEF q
<1>5. Sound(q)
  BY <1>1, <1>3, <1>4 DEF Sound, PastCheck
<1> QED
  BY <1>1, <1>3, <1>4, <1>5, Shared, Moves DEF q

LEMMA ReturnStep ==
  ASSUME IInv, NEW r \in Request, Return(r)
  PROVE  IInv'
<1>1. /\ request[r].pc # "idle" /\ To(r, NoRequest) /\ inflight' = inflight - 1
      /\ lock' = Without(r) /\ UNCHANGED <<InForce, catalog>>
  BY DEF Return
<1>2. NoRequest \in Requests /\ NoRequest.pc = "idle" /\ Sound(NoRequest)
  BY DEF NoRequest, Requests, Stages, Sound, PastCheck
<1>3. /\ request' \in [Request -> Requests]
      /\ \A s \in Request : request'[s] \in Requests /\ Sound(request'[s])
  BY <1>1, <1>2, Changed DEF IInv, Carried
<1>4. TypeOK'
  <2>1. lock' \in Seq(Request \cup Handler)
    BY <1>1, Shared
  <2> QED
    BY <1>1, <1>3, <2>1 DEF IInv, TypeOK, InForce
<1>5. Carried'
  BY <1>3 DEF Carried, Sound
<1>6. Counted'
  BY <1>1, <1>2, CountLess DEF IInv
<1> QED
  BY <1>1, <1>4, <1>5, <1>6 DEF IInv, PlacesKept, InForce

LEMMA CatalogStep ==
  ASSUME IInv, NEW r \in Request, OpenCache(r) \/ AwaitSlot(r) \/ Answered(r) \/ Refreshed(r)
  PROVE  IInv'
<1>1. /\ request[r].pc \in {"catalog", "fetch", "asked"} /\ UNCHANGED <<InForce, inflight>>
      /\ request[r] \in Requests /\ Sound(request[r])
  BY Shared DEF OpenCache, AwaitSlot, Answered, Refreshed, At
<1>2. request[r].doc \in Document /\ request[r].rank <= MaxInflight[request[r].doc.limits]
  BY <1>1 DEF Sound, PastCheck
<1>3. Targets(r) \in SUBSET Nat
  <2>1. request[r].doc.groups \in Seq(Endpoint)
    BY <1>2, Fields
  <2> QED
    BY <2>1 DEF Targets
<1>4. ASSUME NEW todo \in SUBSET Nat, NEW heard \in (SUBSET Model) \cup {Nothing},
             To(r, [request[r] EXCEPT !.pc = "fetch", !.todo = todo, !.heard = heard]),
             UNCHANGED <<catalog, lock>>
      PROVE  IInv'
  <2> DEFINE q == [request[r] EXCEPT !.pc = "fetch", !.todo = todo, !.heard = heard]
  <2>1. /\ q \in Requests /\ q.pc = "fetch" /\ q.rank = request[r].rank
        /\ q.doc = request[r].doc
    BY <1>1 DEF Requests, Stages
  <2> HIDE DEF q
  <2>2. Sound(q)
    BY <1>2, <2>1 DEF Sound
  <2> QED
    BY <1>1, <1>4, <2>1, <2>2, Shared, Moves DEF q
<1>5. /\ request[r].todo \in SUBSET Nat /\ request[r].heard \in (SUBSET Model) \cup {Nothing}
      /\ \A todo : [request[r] EXCEPT !.pc = "fetch", !.todo = todo] =
                   [request[r] EXCEPT !.pc = "fetch", !.todo = todo, !.heard = request[r].heard]
      /\ \A todo : request[r].pc = "fetch" => [request[r] EXCEPT !.todo = todo] =
                   [request[r] EXCEPT !.pc = "fetch", !.todo = todo, !.heard = request[r].heard]
  BY <1>1 DEF Requests
<1>6. CASE OpenCache(r)
  <2>1. CASE Stay(r, "done") /\ lock' = Without(r) /\ UNCHANGED catalog
    BY <1>1, <2>1, Shared, Stays DEF Stages, PastCheck
  <2>2. CASE /\ To(r, [request[r] EXCEPT !.pc = "fetch", !.todo = Targets(r)])
             /\ UNCHANGED <<catalog, lock>>
    BY <1>3, <1>4, <1>5, <2>2
  <2> QED
    BY <1>6, <2>1, <2>2 DEF OpenCache
<1>7. CASE AwaitSlot(r)
  <2>1. CASE Stay(r, "asked")
    BY <1>1, <1>7, <2>1, Shared, Stays DEF Stages, PastCheck, AwaitSlot
  <2>2. CASE To(r, [request[r] EXCEPT !.todo = @ \ {Target(r)}])
    <3>1. request[r].pc = "fetch" /\ UNCHANGED <<catalog, lock>>
      BY <1>7 DEF AwaitSlot, At
    <3>2. request[r].todo \ {Target(r)} \in SUBSET Nat
      BY <1>5
    <3> QED
      BY <1>4, <1>5, <2>2, <3>1, <3>2
  <2> QED
    BY <1>7, <2>1, <2>2 DEF AwaitSlot
<1>8. CASE Answered(r)
  <2>1. PICK models \in (SUBSET Model) \cup {Nothing} :
          To(r, [request[r] EXCEPT !.pc = "fetch", !.todo = @ \ {Target(r)},
                                   !.heard = Heard(@, models)])
    BY <1>8 DEF Answered
  <2>2. Heard(request[r].heard, models) \in (SUBSET Model) \cup {Nothing}
    BY <1>5, <2>1 DEF Heard
  <2>3. request[r].todo \ {Target(r)} \in SUBSET Nat
    BY <1>5
  <2>4. UNCHANGED <<catalog, lock>>
    BY <1>8 DEF Answered
  <2> QED
    BY <1>4, <2>1, <2>2, <2>3, <2>4
<1>9. CASE Refreshed(r)
  <2>1. catalog' \in (SUBSET Model) \cup {Nothing}
    BY <1>5, <1>9, Shared DEF Refreshed
  <2>2. lock' \in Seq(Request \cup Handler) /\ Stay(r, "done")
    BY <1>9, Shared DEF Refreshed
  <2> QED
    BY <1>1, <2>1, <2>2, Stays DEF Stages, PastCheck
<1> QED
  BY <1>6, <1>7, <1>8, <1>9

\* The forms, when they change what is served, make documents with placed keys.
LEMMA CandidatesPlaced ==
  ASSUME IInv, NEW u \in Name, NEW flush \in BOOLEAN, NEW doc \in Candidates(u, flush)
  PROVE  doc \in Document /\ Placed(doc)
<1>1. cfg \in Document /\ Placed(cfg)
  BY DEF IInv, TypeOK, PlacesKept
<1>2. \/ doc \in NimKeys(cfg, u) \/ doc \in Clients(cfg, u)
      \/ doc \in Upstreams(cfg, u) \/ doc \in Models(cfg, u) \/ doc \in Section(cfg, u)
  BY DEF Candidates
<1>3. Placed(doc)
  BY <1>1, <1>2, FormPlaced
<1> QED
  BY <1>1, <1>2, <1>3, FormDocument

LEMMA SaveStep ==
  ASSUME IInv, NEW h \in Handler, Save(h)
  PROVE  IInv'
<1>1. UNCHANGED <<inflight, request>>
  BY DEF Save, SwapConfig, SwapPool, Flush
<1>2. Carried' /\ Counted'
  BY <1>1 DEF IInv, Carried, Sound, Counted, Ranked, Busy
<1>3. cfg' \in Document /\ pool' \in Document /\ Placed(cfg') /\ Placed(pool')
  <2>1. CASE SwapConfig(h)
    BY <2>1, CandidatesPlaced DEF SwapConfig, IInv, TypeOK, PlacesKept
  <2>2. CASE SwapPool(h) \/ Flush(h)
    BY <2>2 DEF SwapPool, Flush, IInv, TypeOK, PlacesKept
  <2> QED
    BY <2>1, <2>2 DEF Save
<1>4. saves' \in Nat
  BY DEF Save, SwapConfig, SwapPool, Flush, IInv, TypeOK
<1>5. saver' \in [Handler -> [pc : {"idle", "pool", "flush"}, flush : BOOLEAN]]
  <2>1. saver \in [Handler -> [pc : {"idle", "pool", "flush"}, flush : BOOLEAN]]
    BY DEF IInv, TypeOK
  <2>2. NoSave \in [pc : {"idle", "pool", "flush"}, flush : BOOLEAN]
    BY DEF NoSave
  <2>3. CASE SwapConfig(h)
    BY <2>1, <2>3 DEF SwapConfig
  <2>4. CASE SwapPool(h)
    BY <2>1, <2>2, <2>4 DEF SwapPool
  <2>5. CASE Flush(h)
    BY <2>1, <2>2, <2>5 DEF Flush
  <2> QED
    BY <2>3, <2>4, <2>5 DEF Save
<1>6. catalog' \in (SUBSET Model) \cup {Nothing}
  BY Shared DEF Save, SwapConfig, SwapPool, Flush
<1>7. lock' \in Seq(Request \cup Handler)
  <2>1. lock \in Seq(Request \cup Handler)
    BY Shared
  <2>2. CASE SwapConfig(h)
    BY <2>1, <2>2 DEF SwapConfig
  <2>3. CASE SwapPool(h)
    BY <2>1, <2>3 DEF SwapPool
  <2>4. CASE Flush(h)
    BY <2>1, <2>4, HeadTailProperties DEF Flush, Holds
  <2> QED
    BY <2>2, <2>3, <2>4 DEF Save
<1>8. TypeOK'
  BY <1>1, <1>3, <1>4, <1>5, <1>6, <1>7, RuntimeSnapshot DEF IInv, TypeOK
<1> QED
  BY <1>2, <1>3, <1>8 DEF IInv, PlacesKept

LEMMA InitInvariant == Init => IInv
<1> SUFFICES ASSUME Init PROVE IInv
  OBVIOUS
<1>1. cfg \in Document /\ Placed(cfg) /\ pool = cfg
  BY ProxyAssumption DEF Init
<1>2. NoRequest \in Requests /\ NoRequest.pc = "idle" /\ Sound(NoRequest)
  BY DEF NoRequest, Requests, Stages, Sound, PastCheck
<1>3. NoSave \in [pc : {"idle", "pool", "flush"}, flush : BOOLEAN]
  BY DEF NoSave
<1>4. Runtime(cfg) \in Snapshot
  BY <1>1, RuntimeSnapshot
<1>5. /\ request \in [Request -> Requests]
      /\ saver \in [Handler -> [pc : {"idle", "pool", "flush"}, flush : BOOLEAN]]
      /\ lock \in Seq(Request \cup Handler)
  BY <1>2, <1>3 DEF Init
<1>6. TypeOK
  BY <1>1, <1>4, <1>5 DEF Init, TypeOK
<1>7. Carried
  BY <1>2 DEF Init, Carried
<1>8. Busy = {}
  BY <1>2 DEF Init, Busy
<1>9. Counted
  BY <1>8, FS_EmptySet DEF Counted, Ranked, Init
<1> QED
  BY <1>1, <1>6, <1>7, <1>9 DEF IInv, PlacesKept

LEMMA NextInvariant == IInv /\ [Next]_vars => IInv'
<1> SUFFICES ASSUME IInv, [Next]_vars PROVE IInv'
  OBVIOUS
<1>1. ASSUME NEW r \in Request, Serve(r)
      PROVE  IInv'
  <2>1. CASE Arrive(r)
    BY <2>1, ArriveStep
  <2>2. CASE Admit(r)
    BY <2>2, AdmitStep
  <2>3. CASE Refuse(r)
    BY <2>3, Shared, Stays DEF Refuse, At, Stages, PastCheck
  <2>4. ASSUME NEW m \in Model \cup {Unnamed}, Route(r, m)
        PROVE  IInv'
    BY <2>4, RouteStep
  <2>5. CASE Grant(r) \/ Retry(r)
    BY <2>5, GrantStep
  <2>6. CASE Return(r)
    BY <2>6, ReturnStep
  <2>7. CASE OpenCache(r) \/ AwaitSlot(r) \/ Answered(r) \/ Refreshed(r)
    BY <2>7, CatalogStep
  <2> QED
    BY <1>1, <2>1, <2>2, <2>3, <2>4, <2>5, <2>6, <2>7 DEF Serve
<1>2. CASE UNCHANGED vars
  <2>1. TypeOK' /\ Carried' /\ PlacesKept'
    BY <1>2 DEF vars, IInv, TypeOK, Carried, Sound, PlacesKept
  <2>2. Counted'
    BY <1>2 DEF vars, IInv, Counted, Ranked, Busy
  <2> QED
    BY <2>1, <2>2 DEF IInv
<1> QED
  BY <1>1, <1>2, SaveStep DEF Next

-----------------------------------------------------------------------------
(* The theorems.                                                           *)

\* The strengthened invariant holds throughout.
THEOREM Invariant == Spec => []IInv
<1>1. Init => IInv
  BY InitInvariant
<1>2. IInv /\ [Next]_vars => IInv'
  BY NextInvariant
<1> QED
  BY <1>1, <1>2, PTL DEF Spec

\* The variables stay in their types.
THEOREM TypeCorrect == Spec => []TypeOK
<1>1. IInv => TypeOK
  BY DEF IInv
<1> QED
  BY <1>1, Invariant, PTL

\* However many requests are counted between another's count and its check, the
\* counter is exact and those past the check are within the cap.
THEOREM LoadHeld == Spec => []LoadBounded
<1>1. IInv => LoadBounded
  <2> SUFFICES ASSUME IInv PROVE LoadBounded
    OBVIOUS
  <2>1. Accepted \in SUBSET Busy /\ Accepted \in SUBSET Request
    BY DEF Accepted, Past, Busy
  <2>2. ASSUME Accepted # {}
        PROVE  \E r \in Accepted :
                 Cardinality(Accepted) <= MaxInflight[request[r].doc.limits]
    <3>1. PICK r \in Accepted : Cardinality(Accepted) <= request[r].rank
      BY <2>1, <2>2 DEF IInv, Counted, Ranked
    <3>2. r \in Request /\ request[r].pc \in PastCheck
      BY <3>1 DEF Accepted, Past, PastCheck
    <3>3. request[r] \in Requests /\ Sound(request[r])
      BY <3>2, Shared
    <3>4. /\ request[r].doc \in Document
          /\ request[r].rank <= MaxInflight[request[r].doc.limits]
      BY <3>2, <3>3 DEF Sound, PastCheck
    <3>5. MaxInflight[request[r].doc.limits] \in Nat
      BY <3>4, Fields, ProxyAssumption
    <3>6. request[r].rank \in Nat /\ Cardinality(Accepted) \in Nat
      BY <2>1, <3>3, Countable DEF Requests
    <3> QED
      BY <3>1, <3>4, <3>5, <3>6
  <2> QED
    BY <2>2 DEF LoadBounded, IInv, Counted
<1> QED
  BY <1>1, Invariant, PTL

\* Whatever was saved since a request arrived, as long as no index has changed
\* hands, it is sent to a group its own snapshot allows.
THEOREM RoutedRight == Spec => RoutedWhereServed
<1>1. IInv /\ [Next]_vars =>
        [ \A r \in Request :
            At(r, "queued") /\ At(r, "sent")' /\ SameIndexes(request[r].doc, pool) =>
              Serves(request[r].doc, request[r].sent', request[r].model) ]_vars
  <2> SUFFICES ASSUME IInv, Next, NEW r \in Request,
                      At(r, "queued"), At(r, "sent")', SameIndexes(request[r].doc, pool)
               PROVE  Serves(request[r].doc, request[r].sent', request[r].model)
    OBVIOUS
  <2>1. Grant(r)
    <3>1. request[r].pc = "queued" /\ request'[r].pc = "sent"
      BY DEF At
    <3>2. request' # request
      BY <3>1
    <3>3. PICK s \in Request : Serve(s)
      BY <3>2 DEF Next, Save, SwapConfig, SwapPool, Flush
    <3>4. \E q : To(s, q)
      BY <3>3 DEF Serve, Arrive, Admit, Refuse, Route, Grant, Retry, Return, OpenCache,
                  AwaitSlot, Answered, Refreshed, Stay
    <3>5. s = r
      BY <3>1, <3>4, Changed DEF IInv
    <3>6. Grant(r) \/ Return(r)
      BY <3>1, <3>3, <3>5 DEF Serve, Arrive, Admit, Refuse, Route, Retry, OpenCache,
                              AwaitSlot, Answered, Refreshed, At
    <3>7. ~Return(r)
      BY <3>1, Changed DEF Return, IInv, NoRequest
    <3> QED
      BY <3>6, <3>7
  <2>2. PICK lane \in PoolSpecs(pool) :
          /\ lane.endpoint \in request[r].allowed
          /\ To(r, [request[r] EXCEPT !.pc = "sent", !.sent = lane.group])
    BY <2>1 DEF Grant
  <2>3. request[r] \in Requests /\ Sound(request[r]) /\ request[r].pc = "queued"
    BY Shared DEF At
  <2>4. /\ request[r].doc \in Document
        /\ lane.endpoint \in RouteModel(Runtime(request[r].doc), request[r].model)
    BY <2>2, <2>3 DEF Sound
  <2>5. request'[r].sent = lane.group
    <3>1. [request[r] EXCEPT !.pc = "sent", !.sent = lane.group].sent = lane.group
      BY <2>3 DEF Requests
    <3> QED
      BY <2>2, <3>1, Changed DEF IInv
  <2>6. /\ lane.endpoint \in DOMAIN pool.groups
        /\ pool.groups[lane.endpoint].id = lane.group
    BY <2>2, LaneIndex DEF IInv, TypeOK, PlacesKept
  <2>7. lane.endpoint \in DOMAIN request[r].doc.groups
    BY <2>4, RouteIndexes
  <2>8. request[r].doc.groups[lane.endpoint].id = lane.group
    BY <2>6, <2>7 DEF SameIndexes
  <2> QED
    BY <2>4, <2>5, <2>8, RouteServes
<1> QED
  BY <1>1, Invariant, PTL DEF Spec, RoutedWhereServed
=============================================================================
