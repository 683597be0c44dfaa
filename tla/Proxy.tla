------------------------------- MODULE Proxy --------------------------------
(***************************************************************************)
(* The requests of the proxy between their arrival and their lane, and the *)
(* catalog of models, while saves replace the configuration and the pool   *)
(* under them.  A request keeps the configuration it arrived under; the    *)
(* lane it is granted is one of the pool of that moment.                   *)
(*                                                                         *)
(* Settings says how a save reaches the disk, and Exchange what becomes of *)
(* a request that has its lane.  The proxy is set up.  The cache's lock is *)
(* tokio's: those who wait for it are served in the order they asked.      *)
(***************************************************************************)
EXTENDS Config

CONSTANTS
  Request,    \* the tasks that serve the requests
  Handler,    \* the tasks that serve the settings forms
  Found,      \* the documents of record at the start
  MaxInflight,\* the in-flight cap of each value of the limits
  Saves,      \* bound: saves in all
  Unnamed,    \* the model of a request that names none
  Nothing     \* no document, group or catalog

ASSUME ProxyAssumption ==
  /\ Nothing \notin Document /\ Nothing \notin Group
  /\ Unnamed \notin Model
  /\ \A doc \in Found : doc \in Document /\ Valid(doc) /\ Placed(doc) /\ Claimed(doc)
  /\ IsFiniteSet(Request)
  /\ MaxInflight \in [Limits -> Nat]
  /\ Saves \in Nat

VARIABLES
  cfg,        \* the document of the configuration in force
  pool,       \* the document of the pool in force
  saves,      \* the saves so far
  saver,      \* where each settings handler stands
  inflight,   \* the counter of requests in flight
  request,    \* where each request stands
  catalog,    \* the models the cached catalog lists, or Nothing
  lock        \* those who hold, first, and wait for the cache's lock

vars == <<cfg, pool, saves, saver, inflight, request, catalog, lock>>

InForce == <<cfg, pool, saves, saver>>

\* doc: the snapshot.  rank: what it counted in flight, itself included.
\* allowed: the indexes it may be sent to.  sent: the group it was sent to.
\* todo: the indexes still to be asked for their models; heard: what the others
\* answered, if any did.
NoRequest ==
  [ pc |-> "idle", doc |-> Nothing, rank |-> 0, model |-> Unnamed, allowed |-> {},
    sent |-> Nothing, todo |-> {}, heard |-> Nothing ]

Stages == {"idle", "counted", "accepted", "queued", "sent", "catalog", "fetch", "asked", "done"}

Requests ==
  [ pc : Stages, doc : Document \cup {Nothing}, rank : Nat, model : Model \cup {Unnamed},
    allowed : SUBSET Nat, sent : Group \cup {Nothing}, todo : SUBSET Nat,
    heard : (SUBSET Model) \cup {Nothing} ]

NoSave == [pc |-> "idle", flush |-> FALSE]

TypeOK ==
  /\ cfg \in Document /\ pool \in Document
  /\ Runtime(cfg) \in Snapshot
  /\ saves \in Nat
  /\ saver \in [Handler -> [pc : {"idle", "pool", "flush"}, flush : BOOLEAN]]
  /\ inflight \in Int
  /\ request \in [Request -> Requests]
  /\ catalog \in (SUBSET Model) \cup {Nothing}
  /\ lock \in Seq(Request \cup Handler)

Init ==
  /\ cfg \in Found /\ pool = cfg
  /\ saves = 0
  /\ saver = [h \in Handler |-> NoSave]
  /\ inflight = 0
  /\ request = [r \in Request |-> NoRequest]
  /\ catalog = Nothing /\ lock = <<>>

Holds(p) == lock # <<>> /\ Head(lock) = p

\* The queue once p no longer waits: nobody waits twice.
Waiting(p) == \E i \in DOMAIN lock : lock[i] = p
Turn(p) == CHOOSE i \in DOMAIN lock : lock[i] = p
Without(p) ==
  IF Waiting(p) THEN SubSeq(lock, 1, Turn(p) - 1) \o SubSeq(lock, Turn(p) + 1, Len(lock))
  ELSE lock

-----------------------------------------------------------------------------
(* Admission.                                                              *)

Busy == {r \in Request : request[r].pc # "idle"}
Past(r) == request[r].pc \in {"accepted", "queued", "sent", "catalog", "fetch", "asked"}
Accepted == {r \in Request : Past(r)}

At(r, pc) == request[r].pc = pc
To(r, changed) == request' = [request EXCEPT ![r] = changed]
Stay(r, pc) == To(r, [request[r] EXCEPT !.pc = pc])

\* The rank is the counter's value before the request is added.
ArriveCountingOthers(r) ==
  /\ At(r, "idle")
  /\ inflight' = inflight + 1
  /\ To(r, [NoRequest EXCEPT !.pc = "counted", !.doc = cfg, !.rank = inflight])
  /\ UNCHANGED <<InForce, catalog, lock>>

\* One snapshot of the configuration, and one more in flight.
Arrive(r) ==
  /\ At(r, "idle")
  /\ inflight' = inflight + 1
  /\ To(r, [NoRequest EXCEPT !.pc = "counted", !.doc = cfg, !.rank = inflight + 1])
  /\ UNCHANGED <<InForce, catalog, lock>>

\* Past the cap the request is shed.
Admit(r) ==
  /\ At(r, "counted")
  /\ Stay(r, IF request[r].rank > MaxInflight[request[r].doc.limits]
             THEN "done" ELSE "accepted")
  /\ UNCHANGED <<InForce, inflight, catalog, lock>>

\* No client key is good, or the caller's deadline cannot be read.
Refuse(r) ==
  /\ At(r, "accepted")
  /\ Stay(r, "done")
  /\ UNCHANGED <<InForce, inflight, catalog, lock>>

\* A model that is off, or that no group carries, is refused; so is a request
\* for the catalog, which is routed first like any other.
Route(r, m) ==
  LET allowed == RouteModel(Runtime(request[r].doc), m)
  IN  /\ At(r, "accepted")
      /\ \/ /\ allowed = {}
            /\ Stay(r, "done")
            /\ UNCHANGED lock
         \/ /\ allowed # {} /\ m \in Model
            /\ To(r, [request[r] EXCEPT !.pc = "queued", !.model = m, !.allowed = allowed])
            /\ UNCHANGED lock
         \/ /\ allowed # {}
            /\ To(r, [request[r] EXCEPT !.pc = "catalog", !.model = m])
            /\ lock' = Append(lock, r)
      /\ UNCHANGED <<InForce, inflight, catalog>>

\* A lane of the pool in force, of a group with an allowed index.  A stream
\* counts as in flight until its task ends.
Grant(r) ==
  /\ At(r, "queued")
  /\ \E lane \in PoolSpecs(pool) :
       /\ lane.enabled /\ lane.endpoint \in request[r].allowed
       /\ To(r, [request[r] EXCEPT !.pc = "sent", !.sent = lane.group])
  /\ UNCHANGED <<InForce, inflight, catalog, lock>>

\* A request that was sent may come back to the queue.
Retry(r) ==
  /\ At(r, "sent")
  /\ To(r, [request[r] EXCEPT !.pc = "queued", !.sent = Nothing])
  /\ UNCHANGED <<InForce, inflight, catalog, lock>>

\* Answered, past its deadline, or hung up on: at any await the task may be
\* dropped, with its guard and its place at the lock.
Return(r) ==
  /\ request[r].pc \notin {"idle", "counted"}
  /\ To(r, NoRequest)
  /\ inflight' = inflight - 1
  /\ lock' = Without(r)
  /\ UNCHANGED <<InForce, catalog>>

-----------------------------------------------------------------------------
(* The catalog, under the cache's lock.                                    *)

\* active_endpoints: the indexes that have an enabled lane.
Active == {lane.endpoint : lane \in {l \in PoolSpecs(pool) : l.enabled}}

Targets(r) ==
  {i \in DOMAIN request[r].doc.groups : request[r].doc.groups[i].enabled /\ i \in Active}

\* A catalog that is cached and not too old is the answer; else the groups that
\* have a lane are asked, if there are any.
OpenCache(r) ==
  /\ At(r, "catalog") /\ Holds(r)
  /\ \/ catalog # Nothing /\ Stay(r, "done") /\ lock' = Without(r)
     \/ Targets(r) = {} /\ Stay(r, "done") /\ lock' = Without(r)
     \/ /\ Targets(r) # {}
        /\ To(r, [request[r] EXCEPT !.pc = "fetch", !.todo = Targets(r)])
        /\ UNCHANGED lock
  /\ UNCHANGED <<InForce, inflight, catalog>>

\* The first of those to be asked.
Target(r) == CHOOSE i \in request[r].todo : \A j \in request[r].todo : i <= j

AwaitSlotForEver(r) ==
  /\ At(r, "fetch") /\ request[r].todo # {}
  /\ \E lane \in PoolSpecs(pool) : lane.enabled /\ lane.endpoint = Target(r) /\ Stay(r, "asked")
  /\ UNCHANGED <<InForce, inflight, catalog, lock>>

\* A lane of that index; or none in the 30 seconds a refresh waits for lanes.
AwaitSlot(r) ==
  /\ At(r, "fetch") /\ request[r].todo # {}
  /\ \/ \E lane \in PoolSpecs(pool) :
          lane.enabled /\ lane.endpoint = Target(r) /\ Stay(r, "asked")
     \/ To(r, [request[r] EXCEPT !.todo = @ \ {Target(r)}])
  /\ UNCHANGED <<InForce, inflight, catalog, lock>>

Heard(before, models) ==
  IF models = Nothing THEN before
  ELSE IF before = Nothing THEN models ELSE before \cup models

\* The models the group lists (none, if it cannot be read), or an error.
Answered(r) ==
  /\ At(r, "asked")
  /\ \E models \in (SUBSET Model) \cup {Nothing} :
       To(r, [request[r] EXCEPT
                !.pc = "fetch", !.todo = @ \ {Target(r)}, !.heard = Heard(@, models)])
  /\ UNCHANGED <<InForce, inflight, catalog, lock>>

\* What they list, without the models that are off, is cached; if none
\* answered, nothing is.
Refreshed(r) ==
  /\ At(r, "fetch") /\ request[r].todo = {}
  /\ catalog' = IF request[r].heard = Nothing THEN catalog
                ELSE request[r].heard \ request[r].doc.disabled
  /\ Stay(r, "done") /\ lock' = Without(r)
  /\ UNCHANGED <<InForce, inflight>>

-----------------------------------------------------------------------------
(* The saves.                                                              *)

\* Nobody holds the store's mutex.
Free == \A h \in Handler : saver[h].pc # "pool"

\* The forms that change what the requests are served with, and among them those
\* that flush the catalog; the server's does when it changes the first group.
Candidates(u, flush) ==
  Section(cfg, u) \cup
    IF flush THEN Upstreams(cfg, u) \cup Models(cfg, u)
    ELSE NimKeys(cfg, u) \cup Clients(cfg, u)

\* The candidate is in the file, and the configuration is swapped first.
SwapConfig(h) ==
  /\ saver[h].pc = "idle" /\ Free /\ saves < Saves
  /\ \E u \in Name, flush \in BOOLEAN :
       /\ cfg' \in {doc \in Candidates(u, flush) : Valid(doc)}
       /\ saver' = [saver EXCEPT ![h] = [pc |-> "pool", flush |-> flush]]
  /\ saves' = saves + 1
  /\ UNCHANGED <<pool, inflight, request, catalog, lock>>

\* Then the pool; a save that changes what the upstreams offer goes on to flush
\* the catalog, for which it waits.
SwapPool(h) ==
  /\ saver[h].pc = "pool"
  /\ pool' = cfg
  /\ \/ /\ saver[h].flush
        /\ saver' = [saver EXCEPT ![h].pc = "flush"]
        /\ lock' = Append(lock, h)
     \/ /\ ~saver[h].flush
        /\ saver' = [saver EXCEPT ![h] = NoSave]
        /\ UNCHANGED lock
  /\ UNCHANGED <<cfg, saves, inflight, request, catalog>>

Flush(h) ==
  /\ saver[h].pc = "flush" /\ Holds(h)
  /\ catalog' = Nothing
  /\ lock' = Tail(lock)
  /\ saver' = [saver EXCEPT ![h] = NoSave]
  /\ UNCHANGED <<cfg, pool, saves, inflight, request>>

-----------------------------------------------------------------------------

Serve(r) ==
  \/ Arrive(r) \/ Admit(r) \/ Refuse(r) \/ \E m \in Model \cup {Unnamed} : Route(r, m)
  \/ Grant(r) \/ Retry(r) \/ Return(r)
  \/ OpenCache(r) \/ AwaitSlot(r) \/ Answered(r) \/ Refreshed(r)

Save(h) == SwapConfig(h) \/ SwapPool(h) \/ Flush(h)

Next == (\E r \in Request : Serve(r)) \/ (\E h \in Handler : Save(h))

\* A task that can run does; an upstream that is asked for its models answers,
\* or its connection fails: nothing in the program limits how long it takes.
Fairness ==
  /\ \A r \in Request :
       /\ WF_vars(OpenCache(r)) /\ WF_vars(AwaitSlot(r))
       /\ WF_vars(Answered(r)) /\ WF_vars(Refreshed(r))
  /\ \A h \in Handler : WF_vars(SwapPool(h)) /\ WF_vars(Flush(h))

Spec == Init /\ [][Next]_vars
FairSpec == Spec /\ Fairness

-----------------------------------------------------------------------------
(* Properties.                                                             *)

\* "Shed load past the in-flight cap so a connection flood can't grow the queue
\* unbounded" (proxy.rs): the counter is exact on every path, streams and
\* refusals included, and of the requests past the cap check one at least was
\* allowed as many by the configuration it arrived under, however many were
\* counted between another's count and its check.
LoadBounded ==
  /\ inflight = Cardinality(Busy)
  /\ Accepted # {} =>
       \E r \in Accepted : Cardinality(Accepted) <= MaxInflight[request[r].doc.limits]

\* knowledge/architecture/multi-upstream.md "a model pinned in a group's allowlist
\* is served only by that group": although indexes are taken from one
\* configuration and used on the pool of another, a request is sent to a group
\* that its own snapshot allows, as long as no index has changed hands.
Serves(doc, g, m) ==
  LET on == {ep \in {doc.groups[i] : i \in DOMAIN doc.groups} : ep.enabled}
      pinning == {ep \in on : m \in ep.models}
  IN  /\ m \notin doc.disabled
      /\ \E ep \in on : /\ ep.id = g
                        /\ IF pinning = {} THEN ep.models = {} ELSE ep \in pinning

SameIndexes(doc, other) ==
  \A i \in DOMAIN doc.groups \cap DOMAIN other.groups : doc.groups[i].id = other.groups[i].id

RoutedWhereServed ==
  [][ \A r \in Request :
        At(r, "queued") /\ At(r, "sent")' /\ SameIndexes(request[r].doc, pool) =>
          Serves(request[r].doc, request[r].sent', request[r].model) ]_vars

\* A save is answered, even if it has to flush a catalog that is being fetched
\* from a group the same save took away: the fetch gives the lock up.
SavesEnd == \A h \in Handler : saver[h].pc # "idle" ~> saver[h].pc = "idle"

\* "Disabled models vanish from the merged /v1/models catalog" (settings.rs):
\* with no save under way, the cached catalog lists none of them.
CatalogHonoursToggles ==
  (\A h \in Handler : saver[h].pc = "idle") /\ catalog # Nothing =>
    catalog \cap cfg.disabled = {}

\* knowledge/architecture/multi-upstream.md "a key is never spent where the model
\* doesn't exist": the group a request is sent to is one its snapshot allows.
SpentWhereServed ==
  \A r \in Request : At(r, "sent") =>
    Serves(request[r].doc, request[r].sent, request[r].model)

\* knowledge/architecture/multi-upstream.md "`GET /v1/models` fans out with one
\* rate slot per group that has a key": it can be asked for if there is one.
CatalogAlwaysListed ==
  cfg = pool /\ Active # {} => RouteModel(Runtime(cfg), Unnamed) # {}
=============================================================================
