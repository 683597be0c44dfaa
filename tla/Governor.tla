------------------------------ MODULE Governor ------------------------------
(***************************************************************************)
(* The model-pressure governor: a per-model concurrency gate that engages  *)
(* when the upstream reports worker exhaustion, grows by one per stable    *)
(* interval, and dissolves after a long clean period.  With it run the     *)
(* requests, each on the configuration it saw on arrival: they poll for a  *)
(* permit, hold it through one upstream exchange, report an exhaustion     *)
(* while they hold it, and come back after a failure that can be retried.  *)
(*                                                                         *)
(* Each governor call runs under one mutex and is one step.  Time is       *)
(* relative: a stamp is the ticks since it was set, -1 for None, and stops *)
(* counting at the only threshold it is compared with.                     *)
(***************************************************************************)
EXTENDS Integers, FiniteSets

CONSTANTS
  Model,      \* the model labels requests carry
  Req,        \* request identities; one is used again when it is over
  Overrides,  \* caps an operator may pin; 0 stands for no override
  Poll,       \* POLL, in ticks
  Backoff,    \* EXHAUST_BACKOFF
  Grow,       \* GROW_INTERVAL
  Dissolve,   \* DISSOLVE_AFTER
  MaxLimit,   \* bound: growth stops here
  Patience,   \* ticks between a request's arrival and its deadline
  MaxPatience \* bound: the largest of them

ASSUME GovernorAssumption ==
  /\ Model # {}
  /\ IsFiniteSet(Req)
  /\ Overrides \subseteq Nat /\ 0 \in Overrides
  /\ Poll \in Nat \ {0} /\ Backoff \in Nat \ {0}
  /\ Grow \in Nat \ {0} /\ Dissolve \in Nat \ {0}
  /\ Backoff =< Dissolve
  /\ MaxLimit \in Nat /\ Cardinality(Req) =< MaxLimit
  /\ MaxPatience \in Nat
  /\ Patience \subseteq 0 .. MaxPatience

VARIABLES
  gov,      \* each model's state in the governor
  req,      \* the requests
  cfg       \* the live configuration: the toggle and the pinned caps

vars == <<gov, req, cfg>>

ModelState ==
  [ limit     : 0 .. MaxLimit,         \* current cap; 0 is ungoverned
    inflight  : 0 .. Cardinality(Req), \* permits held
    blocked   : 0 .. Backoff,          \* ticks until blocked_until
    exhausted : -1 .. Dissolve,        \* ticks since last_exhausted
    adjusted  : -1 .. Grow ]           \* ticks since last_adjusted

\* out: no request.  asking: in the admission loop.  sending: past it, waiting
\* for a rate slot or for the upstream.  sniffing: a status that can be retried
\* came back before the deadline, its body is being read.  noted: the
\* exhaustion is recorded, the permit not yet dropped.
ReqState == {"out", "asking", "sending", "sniffing", "noted"}

\* gated and pin are read from the configuration as the request arrives.
Request ==
  [ st : ReqState, model : Model, gated : BOOLEAN, pin : Overrides,
    left : -1 .. MaxPatience, timer : 0 .. Poll ]

TypeOK ==
  /\ gov \in [Model -> ModelState]
  /\ req \in [Req -> Request]
  /\ cfg \in [enabled : BOOLEAN, pin : [Model -> Overrides]]

Out == [st |-> "out", model |-> CHOOSE m \in Model : TRUE, gated |-> FALSE,
        pin |-> 0, left |-> 0, timer |-> 0]

Init ==
  /\ gov = [m \in Model |-> [limit |-> 0, inflight |-> 0, blocked |-> 0,
                             exhausted |-> -1, adjusted |-> -1]]
  /\ req = [r \in Req |-> Out]
  /\ cfg = [enabled |-> TRUE, pin |-> [m \in Model |-> 0]]

Is(r, state) == req[r].st = state

-----------------------------------------------------------------------------
(* The governor's calls, as functions of a model's state.                  *)

GrownNeverDissolves(s, pin) ==
  IF pin # 0 \/ s.limit = 0 THEN s
  ELSE IF s.adjusted = Grow /\ s.limit < MaxLimit
       THEN [s EXCEPT !.limit = @ + 1, !.adjusted = 0]
  ELSE s

\* admit, first half: an unpinned, governed model dissolves or grows.
Grown(s, pin) ==
  IF pin # 0 \/ s.limit = 0 THEN s
  ELSE IF s.exhausted = Dissolve
       THEN [s EXCEPT !.limit = 0, !.adjusted = 0]
  ELSE IF s.adjusted = Grow /\ s.limit < MaxLimit
       THEN [s EXCEPT !.limit = @ + 1, !.adjusted = 0]
  ELSE s

OpenDuringDrain(s, pin) ==
  LET cap == IF pin # 0 THEN pin ELSE s.limit
  IN  cap = 0 \/ s.inflight < cap

OpenAtCap(s, pin) ==
  LET cap == IF pin # 0 THEN pin ELSE s.limit
  IN  s.blocked = 0 /\ (cap = 0 \/ s.inflight =< cap)

\* admit, second half: not draining, and below the cap in force.
Open(s, pin) ==
  LET cap == IF pin # 0 THEN pin ELSE s.limit
  IN  s.blocked = 0 /\ (cap = 0 \/ s.inflight < cap)

Halved(n) == IF n \div 2 > 1 THEN n \div 2 ELSE 1

NotedHalvesCap(s, pin) ==
  LET t == [s EXCEPT !.blocked = Backoff, !.exhausted = 0]
  IN  IF pin # 0 THEN t
      ELSE [t EXCEPT !.limit = Halved(s.limit), !.adjusted = 0]

\* note_exhausted: the drain gap opens; unpinned, the cap falls to half of what
\* is in flight.
Noted(s, pin) ==
  LET t == [s EXCEPT !.blocked = Backoff, !.exhausted = 0]
  IN  IF pin # 0 THEN t
      ELSE [t EXCEPT !.limit = Halved(s.inflight), !.adjusted = 0]

Released(s) == [s EXCEPT !.inflight = IF @ = 0 THEN 0 ELSE @ - 1]

-----------------------------------------------------------------------------
(* A request.                                                              *)

\* The request holds a permit (a ModelPermit of its own).
Holds(r) == req[r].gated /\ req[r].st \in {"sending", "sniffing", "noted"}

\* handle: the configuration is read once.  Paths that do not generate are never
\* gated, nor is anything while the governor is off.
Arrive(r, m, generates, patience) ==
  /\ Is(r, "out")
  /\ req' = [req EXCEPT ![r] = [st |-> "asking", model |-> m,
               gated |-> cfg.enabled /\ generates, pin |-> cfg.pin[m],
               left |-> patience, timer |-> 0]]
  /\ UNCHANGED <<gov, cfg>>

\* acquire_model_permit of a request that is not gated.
Pass(r) ==
  /\ Is(r, "asking") /\ ~req[r].gated
  /\ req' = [req EXCEPT ![r].st = "sending"]
  /\ UNCHANGED <<gov, cfg>>

ExpiredNever(r) == FALSE

\* The next poll would come past the deadline.
Expired(r) == req[r].left < Poll

\* One turn of the poll loop.  Refused, the request gives up or sleeps.
Ask(r) ==
  LET m == req[r].model
      s == Grown(gov[m], req[r].pin)
  IN  /\ Is(r, "asking") /\ req[r].gated /\ req[r].timer = 0
      /\ \/ /\ Open(s, req[r].pin)
            /\ gov' = [gov EXCEPT ![m] = [s EXCEPT !.inflight = @ + 1]]
            /\ req' = [req EXCEPT ![r].st = "sending"]
         \/ /\ ~Open(s, req[r].pin) /\ Expired(r)
            /\ gov' = [gov EXCEPT ![m] = s]
            /\ req' = [req EXCEPT ![r] = Out]
         \/ /\ ~Open(s, req[r].pin) /\ ~Expired(r)
            /\ gov' = [gov EXCEPT ![m] = s]
            /\ req' = [req EXCEPT ![r].timer = Poll]
      /\ UNCHANGED cfg

PartKeepsPermit(r, next) ==
  /\ req' = [req EXCEPT ![r] = IF next = "out" THEN Out ELSE [@ EXCEPT !.st = next]]
  /\ gov' = IF Holds(r) /\ next = "out" THEN [gov EXCEPT ![req[r].model] = Released(@)]
            ELSE gov
  /\ UNCHANGED cfg

\* The exchange ends and the permit, if there is one, is dropped: for good, or
\* for another turn of the retry loop.
Part(r, next) ==
  /\ req' = [req EXCEPT ![r] = IF next = "out" THEN Out ELSE [@ EXCEPT !.st = next]]
  /\ gov' = IF Holds(r) THEN [gov EXCEPT ![req[r].model] = Released(@)] ELSE gov
  /\ UNCHANGED cfg

\* Answered, refused a rate slot, cut off, or the client is gone.
Leave(r) ==
  /\ \/ Is(r, "asking") /\ req[r].timer > 0
     \/ req[r].st \in {"sending", "sniffing", "noted"}
  /\ Part(r, "out")

\* A connection error is retried whatever the deadline; a retryable status
\* that is no exhaustion, once its body is read; an exhaustion, once recorded.
Retry(r) ==
  /\ req[r].st \in {"sending", "sniffing", "noted"}
  /\ Part(r, "asking")

\* A retryable status before the deadline.
Sniff(r) ==
  /\ Is(r, "sending") /\ req[r].left > 0
  /\ req' = [req EXCEPT ![r].st = "sniffing"]
  /\ UNCHANGED <<gov, cfg>>

\* The body carries the signature of worker exhaustion.
Note(r) ==
  /\ Is(r, "sniffing")
  /\ gov' = [gov EXCEPT ![req[r].model] = Noted(@, req[r].pin)]
  /\ req' = [req EXCEPT ![r].st = "noted"]
  /\ UNCHANGED cfg

\* A settings save changes the toggle and the pinned caps, never the governor.
Save(enabled, m, pin) ==
  /\ cfg' = [enabled |-> enabled, pin |-> [cfg.pin EXCEPT ![m] = pin]]
  /\ UNCHANGED <<gov, req>>

-----------------------------------------------------------------------------
(* Time.                                                                   *)

Since(t, most) == IF t = -1 \/ t = most THEN t ELSE t + 1
Until(t) == IF t = 0 THEN 0 ELSE t - 1

Tick ==
  /\ gov' = [m \in Model |->
       [gov[m] EXCEPT !.blocked = Until(@), !.exhausted = Since(@, Dissolve),
                      !.adjusted = Since(@, Grow)]]
  /\ req' = [r \in Req |->
       IF Is(r, "out") THEN req[r]
       ELSE [req[r] EXCEPT !.left = IF @ = -1 THEN -1 ELSE @ - 1, !.timer = Until(@)]]
  /\ UNCHANGED cfg

-----------------------------------------------------------------------------

Exchange(r) ==
  \/ \E m \in Model, g \in BOOLEAN, d \in Patience : Arrive(r, m, g, d)
  \/ Pass(r) \/ Ask(r) \/ Leave(r) \/ Retry(r) \/ Sniff(r) \/ Note(r)

Next ==
  \/ \E r \in Req : Exchange(r)
  \/ \E e \in BOOLEAN, m \in Model, c \in Overrides : Save(e, m, c)
  \/ Tick

Spec == Init /\ [][Next]_vars

\* A request's own steps towards a permit run whenever they can, and time goes
\* on.  Nothing is assumed of the upstream, the clients or the operator.
FairSpec ==
  Spec /\ WF_vars(Tick) /\ \A r \in Req : WF_vars(Pass(r) \/ Ask(r))

-----------------------------------------------------------------------------
(* Properties.                                                             *)

Holders(m) == {r \in Req : Holds(r) /\ req[r].model = m}
PinnedAt(m, p) == {r \in Holders(m) : req[r].pin = p}

\* The in-flight count of a model is the number of requests that hold one of
\* its permits, whatever retries, cut-offs, reports and saves come between:
\* ModelPermit releases once on every exit path.
PermitAccounting == \A m \in Model : gov[m].inflight = Cardinality(Holders(m))

\* While a cap is in force, the requests admitted without a pinned cap are at
\* most twice the cap and one: an exhaustion halves what is in flight, later
\* admissions stay below the cap, growth only raises it.  Requests pinned by
\* another configuration may sit on top.
OverloadBounded ==
  \A m \in Model : gov[m].limit > 0 =>
    Cardinality(PinnedAt(m, 0)) =< 2 * gov[m].limit + 1

\* No more requests hold permits under a pinned cap than the cap allows, though
\* others, pinned differently or not at all, come and go on the same counter.
PinnedCapHolds ==
  \A m \in Model, p \in Overrides \ {0} :
    Cardinality(PinnedAt(m, p)) =< p

\* note_exhausted "engages (or tightens) the cap": while no pinned request holds
\* a permit, a report never raises the cap it finds.
NoteTightens ==
  [][\A m \in Model :
       /\ gov[m].limit > 0
       /\ \A r \in Holders(m) : req[r].pin = 0
       /\ \E r \in Req : Is(r, "sniffing") /\ req'[r].st = "noted" /\ req[r].model = m
       => gov'[m].limit =< gov[m].limit]_vars

\* Nobody is admitted on a model within the drain gap of its last exhaustion,
\* pinned or not, the failing request's own retry included.
DrainHonoured ==
  [][\A m \in Model : gov'[m].inflight > gov[m].inflight =>
       gov[m].exhausted = -1 \/ gov[m].exhausted >= Backoff]_vars

\* The admission loop ends: with a permit, or at the deadline.
EveryAdmissionEnds == \A r \in Req : Is(r, "asking") ~> ~Is(r, "asking")

\* The governor lets go: when exhaustions stop and unpinned requests go on
\* asking for a model, it ends up ungoverned, whatever happened before.
UngovernedInTheEnd ==
  \A m \in Model :
    /\ <>[][\A r \in Req : ~Note(r)]_vars
    /\ []<><<\E r \in Req : req[r].model = m /\ req[r].pin = 0 /\ Ask(r)>>_vars
    => <>[](gov[m].limit = 0)

\* governor.rs:136 "Call while the failing request's permit is still held, so
\* the observed in-flight count includes it".
NotedUnderPermit ==
  [][\A r \in Req : Is(r, "sniffing") /\ req'[r].st = "noted" => Holds(r)]_vars
=============================================================================
