-------------------------- MODULE GovernorIndexProofs -------------------------
(***************************************************************************)
(* Two components that share nothing but this module. First the governor's *)
(* accounting and the bounds that rest on it, for every set of requests,   *)
(* models and pinned caps and every choice of its intervals. Then the      *)
(* index of the metrics history, for every set of counters and of          *)
(* retentions and whatever its bounds: that a window which is reported     *)
(* complete has the increments of its samples, each once, that the page    *)
(* never shows more than was counted, and that the chart is the window.    *)
(***************************************************************************)
EXTENDS Governor, HistoryIndex, FiniteSetTheorems, SequenceTheorems, WellFoundedInduction, TLAPS

\* The drain gap is at least as long as the time since the last report says.
DrainOpen ==
  \A m \in Model : gov[m].exhausted # -1 => gov[m].blocked + gov[m].exhausted >= Backoff

Sound == TypeOK /\ PermitAccounting /\ OverloadBounded /\ PinnedCapHolds /\ DrainOpen

-----------------------------------------------------------------------------
(* Arithmetic and counting.                                                *)

\* The constants are the naturals they stand for.
LEMMA ConstantFacts ==
  /\ IsFiniteSet(Req) /\ Cardinality(Req) \in Nat
  /\ MaxLimit \in Nat /\ Cardinality(Req) =< MaxLimit
  /\ Backoff \in Nat /\ Backoff > 0 /\ Backoff =< Dissolve
  /\ Grow \in Nat /\ Grow > 0 /\ Dissolve \in Nat /\ Poll \in Nat /\ Poll > 0
  /\ MaxPatience \in Nat /\ Patience \subseteq 0 .. MaxPatience
  /\ Overrides \subseteq Nat /\ 0 \in Overrides
  /\ Model # {}
<1>1. Cardinality(Req) \in Nat
  BY GovernorAssumption, FS_CardinalityType DEF GovernorAssumption
<1> QED
  BY <1>1, GovernorAssumption DEF GovernorAssumption

\* Sets of requests are finite, and smaller ones count less.
LEMMA Counting ==
  ASSUME NEW S \in SUBSET Req
  PROVE  /\ IsFiniteSet(S) /\ Cardinality(S) \in Nat /\ Cardinality(S) =< Cardinality(Req)
         /\ \A T \in SUBSET S : Cardinality(T) =< Cardinality(S)
         /\ \A r \in Req \ S :
              /\ Cardinality(S \cup {r}) = Cardinality(S) + 1
              /\ Cardinality(S) + 1 =< Cardinality(Req)
         /\ \A r \in S : Cardinality(S \ {r}) = Cardinality(S) - 1 /\ Cardinality(S) > 0
<1>1. IsFiniteSet(S) /\ Cardinality(S) \in Nat /\ Cardinality(S) =< Cardinality(Req)
  BY ConstantFacts, FS_Subset, FS_CardinalityType
<1>2. \A T \in SUBSET S : Cardinality(T) =< Cardinality(S)
  BY <1>1, FS_Subset
<1>3. ASSUME NEW r \in Req \ S
      PROVE  /\ Cardinality(S \cup {r}) = Cardinality(S) + 1
             /\ Cardinality(S) + 1 =< Cardinality(Req)
  <2>1. Cardinality(S \cup {r}) = Cardinality(S) + 1
    BY <1>1, <1>3, FS_AddElement
  <2>2. S \cup {r} \in SUBSET Req
    BY <1>3
  <2>3. Cardinality(S \cup {r}) =< Cardinality(Req)
    BY <2>2, ConstantFacts, FS_Subset
  <2> QED
    BY <2>1, <2>3
<1>4. ASSUME NEW r \in S
      PROVE  Cardinality(S \ {r}) = Cardinality(S) - 1 /\ Cardinality(S) > 0
  <2>1. Cardinality(S \ {r}) = Cardinality(S) - 1
    BY <1>1, <1>4, FS_RemoveElement
  <2>2. Cardinality(S \ {r}) \in Nat
    BY <1>1, FS_RemoveElement, FS_CardinalityType
  <2> QED
    BY <1>1, <2>1, <2>2
<1> QED
  BY <1>1, <1>2, <1>3, <1>4

\* Half of a count, and at least one.
LEMMA HalvedFacts ==
  ASSUME NEW n \in Nat
  PROVE  /\ Halved(n) \in Nat /\ Halved(n) >= 1
         /\ n =< 2 * Halved(n) + 1
         /\ \A c \in Nat \ {0} : n =< c => Halved(n) =< c
         /\ \A c \in Nat \ {0} : n =< 2 * c + 1 => Halved(n) =< c
<1>1. n \div 2 \in Nat /\ 2 * (n \div 2) =< n /\ n =< 2 * (n \div 2) + 1
  OBVIOUS
<1> QED
  BY <1>1 DEF Halved

\* A cap set anew just now; everything else stays as it is.
Adjusted(s, x) == [s EXCEPT !.limit = x, !.adjusted = 0]

\* What such a state looks like.
LEMMA AdjustedFacts ==
  ASSUME NEW s \in ModelState, NEW x \in 0 .. MaxLimit
  PROVE  /\ Adjusted(s, x) \in ModelState
         /\ Adjusted(s, x).limit = x /\ Adjusted(s, x).inflight = s.inflight
         /\ Adjusted(s, x).blocked = s.blocked /\ Adjusted(s, x).exhausted = s.exhausted
<1>1. 0 \in -1 .. Grow
  BY ConstantFacts
<1> QED
  BY <1>1 DEF Adjusted, ModelState

\* A lazy adjustment raises the cap or lifts it, and touches no count.
LEMMA GrownFacts ==
  ASSUME NEW s \in ModelState, NEW pin \in Overrides
  PROVE  /\ Grown(s, pin) \in ModelState
         /\ Grown(s, pin).inflight = s.inflight
         /\ Grown(s, pin).blocked = s.blocked
         /\ Grown(s, pin).exhausted = s.exhausted
         /\ Grown(s, pin).limit > 0 => s.limit > 0 /\ s.limit =< Grown(s, pin).limit
<1>1. s.limit \in Nat /\ s.limit =< MaxLimit
  BY ConstantFacts DEF ModelState
<1>2. CASE Grown(s, pin) = s
  BY <1>1, <1>2
<1>3. CASE Grown(s, pin) = Adjusted(s, 0)
  <2>1. 0 \in 0 .. MaxLimit
    BY ConstantFacts
  <2> QED
    BY <1>3, <2>1, AdjustedFacts
<1>4. CASE /\ s.limit > 0 /\ s.limit < MaxLimit
           /\ Grown(s, pin) = Adjusted(s, s.limit + 1)
  <2>1. s.limit + 1 \in 0 .. MaxLimit
    BY <1>1, <1>4, ConstantFacts
  <2> QED
    BY <1>1, <1>4, <2>1, AdjustedFacts
<1>5. \/ Grown(s, pin) = s
      \/ Grown(s, pin) = Adjusted(s, 0)
      \/ /\ s.limit > 0 /\ s.limit < MaxLimit
         /\ Grown(s, pin) = Adjusted(s, s.limit + 1)
  BY <1>1 DEF Grown, Adjusted
<1> QED
  BY <1>2, <1>3, <1>4, <1>5

\* The record of a request that is over.
LEMMA OutFacts == Out \in Request /\ Out.st = "out"
BY ConstantFacts DEF Out, Request, ReqState

-----------------------------------------------------------------------------
(* Who holds a permit.                                                     *)

\* Holders are requests, and pinned holders are holders.
LEMMA HolderFacts ==
  \A m, p : Holders(m) \in SUBSET Req /\ PinnedAt(m, p) \in SUBSET Holders(m)
BY DEF Holders, PinnedAt

\* A step that changes neither who holds nor what a holder carries.
LEMMA SameHolders ==
  ASSUME \A s \in Req : /\ Holds(s)' <=> Holds(s)
                        /\ Holds(s) => req'[s].model = req[s].model /\ req'[s].pin = req[s].pin
  PROVE  \A m, p : Holders(m)' = Holders(m) /\ PinnedAt(m, p)' = PinnedAt(m, p)
BY DEF Holders, PinnedAt

\* A step by which one request starts to hold.
LEMMA OneMoreHolder ==
  ASSUME NEW r \in Req, ~ Holds(r), Holds(r)',
         \A s \in Req \ {r} : req'[s] = req[s]
  PROVE  \A m, p :
           /\ r \notin Holders(m)
           /\ Holders(m)' = IF req'[r].model = m THEN Holders(m) \cup {r} ELSE Holders(m)
           /\ PinnedAt(m, p)' = IF req'[r].model = m /\ req'[r].pin = p
                                THEN PinnedAt(m, p) \cup {r} ELSE PinnedAt(m, p)
<1>1. \A s \in Req \ {r} : Holds(s)' <=> Holds(s)
  BY DEF Holds
<1> QED
  BY <1>1 DEF Holders, PinnedAt

\* A step by which one request ceases to hold.
LEMMA OneHolderLess ==
  ASSUME NEW r \in Req, Holds(r), ~ Holds(r)',
         \A s \in Req \ {r} : req'[s] = req[s]
  PROVE  \A m, p :
           /\ Holders(m)' = IF req[r].model = m THEN Holders(m) \ {r} ELSE Holders(m)
           /\ PinnedAt(m, p)' \in SUBSET PinnedAt(m, p)
<1>1. \A s \in Req \ {r} : Holds(s)' <=> Holds(s)
  BY DEF Holds
<1> QED
  BY <1>1 DEF Holders, PinnedAt

\* The counts move with the holders.
LEMMA SameCounts ==
  ASSUME Sound, TypeOK', DrainOpen',
         \A m, p : Holders(m)' = Holders(m) /\ PinnedAt(m, p)' = PinnedAt(m, p),
         \A m \in Model : gov'[m].inflight = gov[m].inflight,
         \A m \in Model : gov'[m].limit > 0 =>
           Cardinality(PinnedAt(m, 0)) =< 2 * gov'[m].limit + 1
  PROVE  Sound'
BY DEF Sound, PermitAccounting, OverloadBounded, PinnedCapHolds

\* A cap that is left alone or raised still bounds what it bounded.
LEMMA RaisedCap ==
  ASSUME Sound, NEW m \in Model, NEW n \in Nat, n > 0 => gov[m].limit > 0 /\ gov[m].limit =< n
  PROVE  n > 0 => Cardinality(PinnedAt(m, 0)) =< 2 * n + 1
<1>1. gov[m].limit \in Nat
  BY ConstantFacts DEF Sound, TypeOK, ModelState
<1>2. Cardinality(PinnedAt(m, 0)) \in Nat
  <2>1. PinnedAt(m, 0) \in SUBSET Req
    BY HolderFacts
  <2> QED
    BY <2>1, Counting
<1>3. gov[m].limit > 0 => Cardinality(PinnedAt(m, 0)) =< 2 * gov[m].limit + 1
  BY DEF Sound, OverloadBounded
<1> QED
  BY <1>1, <1>2, <1>3

-----------------------------------------------------------------------------
(* The steps.                                                              *)

\* At the start nobody holds anything.
LEMMA SoundInit == Init => Sound
<1> SUFFICES ASSUME Init PROVE Sound
  OBVIOUS
<1>1. TypeOK
  <2>1. req \in [Req -> Request]
    BY OutFacts DEF Init
  <2>2. gov \in [Model -> ModelState]
    BY ConstantFacts DEF Init, ModelState
  <2>3. cfg \in [enabled : BOOLEAN, pin : [Model -> Overrides]]
    BY ConstantFacts DEF Init
  <2> QED
    BY <2>1, <2>2, <2>3 DEF TypeOK
<1>2. \A m, p : Holders(m) = {} /\ PinnedAt(m, p) = {}
  BY OutFacts DEF Init, Holders, PinnedAt, Holds
<1>3. Cardinality({}) = 0
  BY FS_EmptySet
<1>4. \A m \in Model : gov[m].inflight = 0 /\ gov[m].limit = 0 /\ gov[m].exhausted = -1
  BY DEF Init
<1>5. PermitAccounting
  <2>1. \A m \in Model : Cardinality(Holders(m)) = 0
    BY <1>2, <1>3
  <2> QED
    BY <1>4, <2>1 DEF PermitAccounting
<1>6. OverloadBounded
  <2>1. \A m \in Model : ~ (gov[m].limit > 0)
    BY <1>4
  <2> QED
    BY <2>1 DEF OverloadBounded
<1>7. DrainOpen
  <2>1. \A m \in Model : ~ (gov[m].exhausted # -1)
    BY <1>4
  <2> QED
    BY <2>1 DEF DrainOpen
<1>8. PinnedCapHolds
  BY <1>2, <1>3, ConstantFacts DEF PinnedCapHolds
<1> QED
  BY <1>1, <1>5, <1>6, <1>7, <1>8 DEF Sound

\* The governor is not called.
LEMMA IdleStep ==
  ASSUME Sound, UNCHANGED gov, req' \in [Req -> Request],
         cfg' \in [enabled : BOOLEAN, pin : [Model -> Overrides]],
         \A s \in Req : /\ Holds(s)' <=> Holds(s)
                        /\ Holds(s) => req'[s].model = req[s].model /\ req'[s].pin = req[s].pin
  PROVE  Sound'
<1>1. TypeOK' /\ DrainOpen'
  BY DEF Sound, TypeOK, DrainOpen
<1>2. \A m, p : Holders(m)' = Holders(m) /\ PinnedAt(m, p)' = PinnedAt(m, p)
  BY SameHolders
<1> QED
  BY <1>1, <1>2, SameCounts DEF Sound, OverloadBounded

\* One request moves without starting or ceasing to hold.
LEMMA ArriveStep ==
  ASSUME Sound, NEW r \in Req, NEW m \in Model, NEW g \in BOOLEAN, NEW d \in Patience,
         Arrive(r, m, g, d)
  PROVE  Sound'
<1> DEFINE q == [st |-> "asking", model |-> m, gated |-> cfg.enabled /\ g,
                 pin |-> cfg.pin[m], left |-> d, timer |-> 0]
<1>1. q \in Request
  BY ConstantFacts DEF Sound, TypeOK, Request, ReqState
<1>2. req' = [req EXCEPT ![r] = q] /\ req[r].st = "out"
  BY DEF Arrive, Is
<1>3. req \in [Req -> Request]
  BY DEF Sound, TypeOK
<1>4. ~ Holds(r) /\ ~ Holds(r)' /\ \A s \in Req \ {r} : req'[s] = req[s]
  BY <1>2, <1>3 DEF Holds
<1> QED
  BY <1>1, <1>2, <1>3, <1>4, IdleStep DEF Arrive, Sound, TypeOK, Holds

\* Soundness holds as an ungoverned request passes.
LEMMA PassStep ==
  ASSUME Sound, NEW r \in Req, Pass(r)
  PROVE  Sound'
<1>1. req \in [Req -> Request] /\ req' = [req EXCEPT ![r].st = "sending"] /\ ~ req[r].gated
  BY DEF Pass, Sound, TypeOK
<1>2. req' \in [Req -> Request]
  BY <1>1 DEF Request, ReqState
<1>3. ~ Holds(r) /\ ~ Holds(r)' /\ \A s \in Req \ {r} : req'[s] = req[s]
  BY <1>1 DEF Holds, Request
<1> QED
  BY <1>1, <1>2, <1>3, IdleStep DEF Pass, Sound, TypeOK, Holds

\* Soundness holds as a failed answer is looked into.
LEMMA SniffStep ==
  ASSUME Sound, NEW r \in Req, Sniff(r)
  PROVE  Sound'
<1>1. req \in [Req -> Request] /\ req' = [req EXCEPT ![r].st = "sniffing"] /\ req[r].st = "sending"
  BY DEF Sniff, Is, Sound, TypeOK
<1>2. req' \in [Req -> Request]
  BY <1>1 DEF Request, ReqState
<1>3. /\ req'[r].model = req[r].model /\ req'[r].pin = req[r].pin
      /\ Holds(r)' <=> Holds(r)
      /\ \A s \in Req \ {r} : req'[s] = req[s]
  BY <1>1 DEF Holds, Request
<1> QED
  BY <1>2, <1>3, IdleStep DEF Sniff, Sound, TypeOK, Holds

\* Soundness holds as the operator changes toggle and caps.
LEMMA SaveStep ==
  ASSUME Sound, NEW e \in BOOLEAN, NEW m \in Model, NEW c \in Overrides, Save(e, m, c)
  PROVE  Sound'
<1>1. cfg' \in [enabled : BOOLEAN, pin : [Model -> Overrides]]
  BY DEF Save, Sound, TypeOK
<1> QED
  BY <1>1, IdleStep DEF Save, Sound, TypeOK, Holds

\* A refused poll may dissolve or raise the cap.
LEMMA RefusedStep ==
  ASSUME Sound, NEW r \in Req, Is(r, "asking"),
         NEW q \in Request, q.st \in {"out", "asking"},
         req' = [req EXCEPT ![r] = q],
         gov' = [gov EXCEPT ![req[r].model] = Grown(gov[req[r].model], req[r].pin)],
         UNCHANGED cfg
  PROVE  Sound'
<1> DEFINE m0 == req[r].model
<1>1. /\ req \in [Req -> Request] /\ gov \in [Model -> ModelState]
      /\ m0 \in Model /\ req[r].pin \in Overrides /\ gov[m0] \in ModelState
  BY DEF Sound, TypeOK, Request
<1>2. /\ Grown(gov[m0], req[r].pin) \in ModelState
      /\ Grown(gov[m0], req[r].pin).inflight = gov[m0].inflight
      /\ Grown(gov[m0], req[r].pin).blocked = gov[m0].blocked
      /\ Grown(gov[m0], req[r].pin).exhausted = gov[m0].exhausted
      /\ Grown(gov[m0], req[r].pin).limit > 0 =>
           gov[m0].limit > 0 /\ gov[m0].limit =< Grown(gov[m0], req[r].pin).limit
  BY <1>1, GrownFacts
<1>3. ~ Holds(r) /\ ~ Holds(r)' /\ \A s \in Req \ {r} : req'[s] = req[s]
  BY <1>1 DEF Holds, Is
<1>4. \A m, p : Holders(m)' = Holders(m) /\ PinnedAt(m, p)' = PinnedAt(m, p)
  <2>1. \A s \in Req : /\ Holds(s)' <=> Holds(s)
                       /\ Holds(s) => req'[s].model = req[s].model /\ req'[s].pin = req[s].pin
    BY <1>3 DEF Holds
  <2> QED
    BY <2>1, SameHolders
<1>5. TypeOK'
  BY <1>1, <1>2 DEF Sound, TypeOK
<1>6. DrainOpen'
  BY <1>1, <1>2 DEF Sound, DrainOpen
<1>7. \A m \in Model : gov'[m].inflight = gov[m].inflight
  BY <1>1, <1>2
<1>8. ASSUME NEW m \in Model
      PROVE  gov'[m].limit > 0 => Cardinality(PinnedAt(m, 0)) =< 2 * gov'[m].limit + 1
  <2>1. gov'[m].limit \in Nat
    BY <1>5, ConstantFacts DEF TypeOK, ModelState
  <2>2. gov'[m].limit > 0 => gov[m].limit > 0 /\ gov[m].limit =< gov'[m].limit
    <3>1. gov[m].limit \in Nat
      BY <1>1, ConstantFacts DEF ModelState
    <3> QED
      BY <1>1, <1>2, <3>1
  <2> QED
    BY <2>1, <2>2, RaisedCap
<1> QED
  BY <1>4, <1>5, <1>6, <1>7, <1>8, SameCounts

\* An admitted request is one more holder, below the cap that let it in.
LEMMA AdmittedStep ==
  ASSUME Sound, NEW r \in Req, Is(r, "asking"), req[r].gated,
         Open(Grown(gov[req[r].model], req[r].pin), req[r].pin),
         req' = [req EXCEPT ![r].st = "sending"],
         gov' = [gov EXCEPT ![req[r].model] =
                   [Grown(gov[req[r].model], req[r].pin) EXCEPT !.inflight = @ + 1]],
         UNCHANGED cfg
  PROVE  Sound'
<1> DEFINE m0 == req[r].model
           p0 == req[r].pin
           s0 == Grown(gov[m0], p0)
<1>1. /\ req \in [Req -> Request] /\ gov \in [Model -> ModelState]
      /\ m0 \in Model /\ p0 \in Overrides /\ gov[m0] \in ModelState
  BY DEF Sound, TypeOK, Request
<1>2. /\ s0 \in ModelState
      /\ s0.inflight = gov[m0].inflight
      /\ s0.blocked = gov[m0].blocked
      /\ s0.exhausted = gov[m0].exhausted
      /\ s0.limit > 0 => gov[m0].limit > 0 /\ gov[m0].limit =< s0.limit
  BY <1>1, GrownFacts
<1> HIDE DEF s0
<1>3. gov' = [gov EXCEPT ![m0] = [s0 EXCEPT !.inflight = s0.inflight + 1]]
  BY DEF s0
<1>4. /\ req'[r].model = m0 /\ req'[r].pin = p0
      /\ ~ Holds(r) /\ Holds(r)'
      /\ \A s \in Req \ {r} : req'[s] = req[s]
      /\ req' \in [Req -> Request]
  BY <1>1 DEF Holds, Is, Request, ReqState
<1>5. \A m, p :
        /\ r \notin Holders(m)
        /\ Holders(m)' = IF m0 = m THEN Holders(m) \cup {r} ELSE Holders(m)
        /\ PinnedAt(m, p)' = IF m0 = m /\ p0 = p THEN PinnedAt(m, p) \cup {r} ELSE PinnedAt(m, p)
  BY <1>4, OneMoreHolder
<1>6. \A m, p : /\ Holders(m) \in SUBSET Req /\ PinnedAt(m, p) \in SUBSET Req
               /\ r \notin PinnedAt(m, p)
  BY <1>5, HolderFacts
<1>7. \A m, p : /\ Cardinality(Holders(m) \cup {r}) = Cardinality(Holders(m)) + 1
               /\ Cardinality(Holders(m)) + 1 =< Cardinality(Req)
               /\ Cardinality(PinnedAt(m, p) \cup {r}) = Cardinality(PinnedAt(m, p)) + 1
               /\ Cardinality(PinnedAt(m, p)) \in Nat /\ Cardinality(Holders(m)) \in Nat
               /\ Cardinality(PinnedAt(m, p)) =< Cardinality(Holders(m))
  BY <1>5, <1>6, Counting, HolderFacts
<1>8. s0.inflight = Cardinality(Holders(m0))
  BY <1>1, <1>2 DEF Sound, PermitAccounting
<1>9. s0.inflight + 1 \in 0 .. Cardinality(Req)
  BY <1>7, <1>8, ConstantFacts
<1>10. [s0 EXCEPT !.inflight = s0.inflight + 1] \in ModelState
  BY <1>2, <1>9 DEF ModelState
<1>11. TypeOK'
  BY <1>1, <1>3, <1>4, <1>10 DEF Sound, TypeOK
<1>12. /\ gov'[m0].inflight = s0.inflight + 1 /\ gov'[m0].limit = s0.limit
       /\ gov'[m0].blocked = s0.blocked /\ gov'[m0].exhausted = s0.exhausted
       /\ \A m \in Model \ {m0} : gov'[m] = gov[m]
  BY <1>1, <1>2, <1>3, SMTT(25) DEF ModelState
<1>13. DrainOpen'
  BY <1>1, <1>2, <1>12, SMTT(25) DEF Sound, DrainOpen
<1>14. PermitAccounting'
  BY <1>5, <1>7, <1>8, <1>12, SMTT(25) DEF Sound, PermitAccounting
<1>15. s0.limit \in Nat /\ p0 \in Nat /\ s0.inflight \in Nat
  BY <1>1, <1>2, ConstantFacts DEF ModelState
<1>16. /\ p0 # 0 => s0.inflight < p0
       /\ p0 = 0 /\ s0.limit > 0 => s0.inflight < s0.limit
  BY <1>15 DEF Open, s0
<1>17. ASSUME NEW m \in Model, gov'[m].limit > 0
       PROVE  Cardinality(PinnedAt(m, 0)') =< 2 * gov'[m].limit + 1
  <2>1. CASE m # m0
    BY <1>5, <1>12, <1>17, <2>1 DEF Sound, OverloadBounded
  <2>2. CASE m = m0 /\ p0 # 0
    <3>1. PinnedAt(m, 0)' = PinnedAt(m, 0)
      BY <1>5, <2>2
    <3>2. Cardinality(PinnedAt(m, 0)) =< 2 * s0.limit + 1
      BY <1>1, <1>2, <1>12, <1>15, <1>17, <2>2, RaisedCap
    <3> QED
      BY <1>12, <2>2, <3>1, <3>2
  <2>3. CASE m = m0 /\ p0 = 0
    <3>1. Cardinality(PinnedAt(m, 0)') = Cardinality(PinnedAt(m, 0)) + 1
      BY <1>5, <1>7, <2>3
    <3>2. Cardinality(PinnedAt(m, 0)) =< s0.inflight /\ s0.inflight < s0.limit
      BY <1>7, <1>8, <1>12, <1>16, <1>17, <2>3
    <3> QED
      BY <1>7, <1>12, <1>15, <2>3, <3>1, <3>2
  <2> QED
    BY <2>1, <2>2, <2>3
<1>18. ASSUME NEW m \in Model, NEW p \in Overrides \ {0}
       PROVE  Cardinality(PinnedAt(m, p)') =< p
  <2>1. CASE m = m0 /\ p = p0
    <3>1. Cardinality(PinnedAt(m, p)') = Cardinality(PinnedAt(m, p)) + 1
      BY <1>5, <1>7, <2>1
    <3>2. Cardinality(PinnedAt(m, p)) =< s0.inflight /\ s0.inflight < p0
      BY <1>7, <1>8, <1>16, <1>18, <2>1
    <3> QED
      BY <1>7, <1>15, <2>1, <3>1, <3>2
  <2>2. CASE ~ (m = m0 /\ p = p0)
    BY <1>5, <2>2 DEF Sound, PinnedCapHolds
  <2> QED
    BY <2>1, <2>2
<1> QED
  BY <1>11, <1>13, <1>14, <1>17, <1>18 DEF Sound, OverloadBounded, PinnedCapHolds

\* Soundness holds over one turn of the poll loop.
LEMMA AskStep ==
  ASSUME Sound, NEW r \in Req, Ask(r)
  PROVE  Sound'
<1>1. req[r] \in Request /\ req \in [Req -> Request]
  BY DEF Sound, TypeOK
<1>2. CASE req' = [req EXCEPT ![r].st = "sending"]
  <2>1. /\ Open(Grown(gov[req[r].model], req[r].pin), req[r].pin)
        /\ gov' = [gov EXCEPT ![req[r].model] =
                     [Grown(gov[req[r].model], req[r].pin) EXCEPT !.inflight = @ + 1]]
    BY <1>1, <1>2, OutFacts DEF Ask, Is, Request
  <2> QED
    BY <1>2, <2>1, AdmittedStep DEF Ask
<1>3. CASE /\ gov' = [gov EXCEPT ![req[r].model] = Grown(gov[req[r].model], req[r].pin)]
           /\ req' = [req EXCEPT ![r] = Out]
  BY <1>3, OutFacts, RefusedStep DEF Ask
<1>4. CASE /\ gov' = [gov EXCEPT ![req[r].model] = Grown(gov[req[r].model], req[r].pin)]
           /\ req' = [req EXCEPT ![r].timer = Poll]
  <2>1. [req[r] EXCEPT !.timer = Poll] \in Request
    BY <1>1, ConstantFacts DEF Request
  <2>2. [req[r] EXCEPT !.timer = Poll].st = "asking"
    BY <1>1 DEF Ask, Is, Request
  <2>3. req' = [req EXCEPT ![r] = [req[r] EXCEPT !.timer = Poll]]
    BY <1>4
  <2> QED
    BY <1>4, <2>1, <2>2, <2>3, RefusedStep DEF Ask
<1> QED
  BY <1>2, <1>3, <1>4 DEF Ask

\* A request parts with its permit, if it has one.
LEMMA PartStep ==
  ASSUME Sound, NEW r \in Req, NEW next \in {"out", "asking"}, Part(r, next)
  PROVE  Sound'
<1> DEFINE m0 == req[r].model
           q == IF next = "out" THEN Out ELSE [req[r] EXCEPT !.st = next]
<1>1. /\ req \in [Req -> Request] /\ req[r] \in Request /\ m0 \in Model
      /\ gov \in [Model -> ModelState] /\ gov[m0] \in ModelState
  BY DEF Sound, TypeOK, Request
<1>2. q \in Request /\ q.st \in {"out", "asking"}
  BY <1>1, OutFacts DEF Request, ReqState
<1>3. req' = [req EXCEPT ![r] = q] /\ UNCHANGED cfg
  BY DEF Part
<1> HIDE DEF q
<1>4. /\ ~ Holds(r)' /\ req' \in [Req -> Request]
      /\ \A s \in Req \ {r} : req'[s] = req[s]
  BY <1>1, <1>2, <1>3 DEF Holds
<1>5. CASE ~ Holds(r)
  <2>1. \A s \in Req : /\ Holds(s)' <=> Holds(s)
                       /\ Holds(s) => req'[s].model = req[s].model /\ req'[s].pin = req[s].pin
    BY <1>4, <1>5 DEF Holds
  <2>2. UNCHANGED gov
    BY <1>5 DEF Part
  <2> QED
    BY <1>3, <1>4, <2>1, <2>2, IdleStep DEF Sound, TypeOK
<1>6. CASE Holds(r)
  <2>1. gov' = [gov EXCEPT ![m0] = Released(gov[m0])]
    BY <1>6 DEF Part
  <2>2. \A m, p :
          /\ Holders(m)' = IF m0 = m THEN Holders(m) \ {r} ELSE Holders(m)
          /\ PinnedAt(m, p)' \in SUBSET PinnedAt(m, p)
    BY <1>4, <1>6, OneHolderLess
  <2>3. r \in Holders(m0) /\ Holders(m0) \in SUBSET Req
    BY <1>6 DEF Holders
  <2>4. Cardinality(Holders(m0) \ {r}) = Cardinality(Holders(m0)) - 1
        /\ Cardinality(Holders(m0)) \in Nat /\ Cardinality(Holders(m0)) > 0
        /\ Cardinality(Holders(m0)) =< Cardinality(Req)
    BY <2>3, Counting
  <2>5. gov[m0].inflight = Cardinality(Holders(m0))
    BY <1>1 DEF Sound, PermitAccounting
  <2>6. Released(gov[m0]) = [gov[m0] EXCEPT !.inflight = gov[m0].inflight - 1]
    BY <2>4, <2>5 DEF Released
  <2>7. gov[m0].inflight - 1 \in 0 .. Cardinality(Req)
    BY <2>4, <2>5, ConstantFacts
  <2>8. [gov[m0] EXCEPT !.inflight = gov[m0].inflight - 1] \in ModelState
    BY <1>1, <2>7 DEF ModelState
  <2>9. /\ gov'[m0].inflight = gov[m0].inflight - 1 /\ gov'[m0].limit = gov[m0].limit
        /\ gov'[m0].blocked = gov[m0].blocked /\ gov'[m0].exhausted = gov[m0].exhausted
        /\ \A m \in Model \ {m0} : gov'[m] = gov[m]
    BY <1>1, <2>1, <2>6 DEF ModelState
  <2>10. TypeOK'
    BY <1>1, <1>3, <1>4, <2>1, <2>6, <2>8 DEF Sound, TypeOK
  <2>11. DrainOpen'
    BY <2>9 DEF Sound, DrainOpen
  <2>12. PermitAccounting'
    BY <2>2, <2>4, <2>5, <2>9 DEF Sound, PermitAccounting
  <2>13. \A m, p : /\ Cardinality(PinnedAt(m, p)') =< Cardinality(PinnedAt(m, p))
                   /\ Cardinality(PinnedAt(m, p)') \in Nat /\ Cardinality(PinnedAt(m, p)) \in Nat
    <3>1. \A m, p : PinnedAt(m, p) \in SUBSET Req /\ PinnedAt(m, p)' \in SUBSET Req
      BY <2>2, HolderFacts
    <3> QED
      BY <2>2, <3>1, Counting
  <2>14. OverloadBounded'
    <3>1. ASSUME NEW m \in Model, gov'[m].limit > 0
          PROVE  Cardinality(PinnedAt(m, 0)') =< 2 * gov'[m].limit + 1
      <4>1. gov'[m].limit = gov[m].limit /\ gov[m].limit \in Nat
        BY <1>1, <2>9, ConstantFacts DEF ModelState
      <4>2. Cardinality(PinnedAt(m, 0)) =< 2 * gov[m].limit + 1
        BY <3>1, <4>1 DEF Sound, OverloadBounded
      <4> QED
        BY <2>13, <4>1, <4>2
    <3> QED
      BY <3>1 DEF OverloadBounded
  <2>15. PinnedCapHolds'
    <3>1. ASSUME NEW m \in Model, NEW p \in Overrides \ {0}
          PROVE  Cardinality(PinnedAt(m, p)') =< p
      <4>1. Cardinality(PinnedAt(m, p)) =< p /\ p \in Nat
        BY ConstantFacts DEF Sound, PinnedCapHolds
      <4> QED
        BY <2>13, <4>1
    <3> QED
      BY <3>1 DEF PinnedCapHolds
  <2> QED
    BY <2>10, <2>11, <2>12, <2>14, <2>15 DEF Sound
<1> QED
  BY <1>5, <1>6

\* What a report makes of a model's state.
LEMMA NotedFacts ==
  ASSUME NEW s \in ModelState, NEW pin \in Overrides, Halved(s.inflight) =< MaxLimit
  PROVE  /\ Noted(s, pin) \in ModelState
         /\ Noted(s, pin).inflight = s.inflight
         /\ Noted(s, pin).blocked = Backoff /\ Noted(s, pin).exhausted = 0
         /\ Noted(s, pin).limit = IF pin = 0 THEN Halved(s.inflight) ELSE s.limit
<1>1. s.inflight \in Nat
  BY ConstantFacts DEF ModelState
<1>2. Halved(s.inflight) \in 0 .. MaxLimit
  BY <1>1, HalvedFacts, ConstantFacts
<1>3. 0 \in -1 .. Dissolve /\ 0 \in -1 .. Grow /\ Backoff \in 0 .. Backoff
  BY ConstantFacts
<1> DEFINE t == [s EXCEPT !.blocked = Backoff, !.exhausted = 0]
<1>4. /\ t \in ModelState /\ t.inflight = s.inflight /\ t.limit = s.limit
      /\ t.blocked = Backoff /\ t.exhausted = 0
  BY <1>3 DEF ModelState
<1> HIDE DEF t
<1>5. Noted(s, pin) = IF pin # 0 THEN t ELSE Adjusted(t, Halved(s.inflight))
  BY DEF Noted, Adjusted, t
<1>6. /\ Adjusted(t, Halved(s.inflight)) \in ModelState
      /\ Adjusted(t, Halved(s.inflight)).limit = Halved(s.inflight)
      /\ Adjusted(t, Halved(s.inflight)).inflight = s.inflight
      /\ Adjusted(t, Halved(s.inflight)).blocked = Backoff
      /\ Adjusted(t, Halved(s.inflight)).exhausted = 0
  BY <1>2, <1>4, AdjustedFacts
<1> QED
  BY <1>4, <1>5, <1>6

\* A report halves what is in flight; the reporter keeps its permit for now.
LEMMA NoteStep ==
  ASSUME Sound, NEW r \in Req, Note(r)
  PROVE  /\ Sound'
         /\ \A m \in Model : gov'[m].limit =
              IF m = req[r].model /\ req[r].pin = 0 THEN Halved(gov[m].inflight) ELSE gov[m].limit
<1> DEFINE m0 == req[r].model
           p0 == req[r].pin
<1>1. /\ req \in [Req -> Request] /\ req[r] \in Request
      /\ m0 \in Model /\ p0 \in Overrides
      /\ gov \in [Model -> ModelState] /\ gov[m0] \in ModelState
      /\ req[r].st = "sniffing" /\ req' = [req EXCEPT ![r].st = "noted"]
      /\ gov' = [gov EXCEPT ![m0] = Noted(gov[m0], p0)] /\ UNCHANGED cfg
  BY DEF Note, Is, Sound, TypeOK, Request
<1>2. \A m \in Model : gov[m].inflight \in Nat /\ gov[m].inflight =< Cardinality(Req)
                       /\ gov[m].limit \in Nat
  BY <1>1, ConstantFacts DEF ModelState
<1>3. Halved(gov[m0].inflight) =< MaxLimit
  <2>1. Cardinality(Req) > 0
    BY Counting, ConstantFacts
  <2>2. Cardinality(Req) \in Nat \ {0} /\ gov[m0].inflight =< Cardinality(Req)
    BY <1>1, <1>2, <2>1, ConstantFacts
  <2>3. Halved(gov[m0].inflight) =< Cardinality(Req) /\ Halved(gov[m0].inflight) \in Nat
    BY <1>1, <1>2, <2>2, HalvedFacts
  <2> QED
    BY <2>2, <2>3, ConstantFacts
<1>4. /\ Noted(gov[m0], p0) \in ModelState
      /\ Noted(gov[m0], p0).inflight = gov[m0].inflight
      /\ Noted(gov[m0], p0).blocked = Backoff /\ Noted(gov[m0], p0).exhausted = 0
      /\ Noted(gov[m0], p0).limit = IF p0 = 0 THEN Halved(gov[m0].inflight) ELSE gov[m0].limit
  BY <1>1, <1>3, NotedFacts
<1>5. /\ gov'[m0] = Noted(gov[m0], p0)
      /\ \A m \in Model \ {m0} : gov'[m] = gov[m]
  BY <1>1
<1>6. \A m \in Model : gov'[m].limit =
        IF m = m0 /\ p0 = 0 THEN Halved(gov[m].inflight) ELSE gov[m].limit
  BY <1>4, <1>5
<1>7. TypeOK'
  <2>1. req' \in [Req -> Request]
    BY <1>1 DEF Request, ReqState
  <2>2. gov' \in [Model -> ModelState]
    BY <1>1, <1>4
  <2> QED
    BY <1>1, <2>1, <2>2 DEF Sound, TypeOK
<1>8. DrainOpen'
  BY <1>4, <1>5, ConstantFacts DEF Sound, DrainOpen
<1>9. \A m, p : Holders(m)' = Holders(m) /\ PinnedAt(m, p)' = PinnedAt(m, p)
  <2>1. \A s \in Req : /\ Holds(s)' <=> Holds(s)
                       /\ Holds(s) => req'[s].model = req[s].model /\ req'[s].pin = req[s].pin
    BY <1>1 DEF Holds, Request
  <2> QED
    BY <2>1, SameHolders
<1>10. \A m \in Model : gov'[m].inflight = gov[m].inflight
  BY <1>4, <1>5
<1>11. ASSUME NEW m \in Model, gov'[m].limit > 0
       PROVE  Cardinality(PinnedAt(m, 0)) =< 2 * gov'[m].limit + 1
  <2>1. CASE m = m0 /\ p0 = 0
    <3>1. gov[m].inflight = Cardinality(Holders(m))
      BY DEF Sound, PermitAccounting
    <3>2. Cardinality(PinnedAt(m, 0)) =< Cardinality(Holders(m))
          /\ Cardinality(PinnedAt(m, 0)) \in Nat
      <4>1. Holders(m) \in SUBSET Req /\ PinnedAt(m, 0) \in SUBSET Holders(m)
            /\ PinnedAt(m, 0) \in SUBSET Req
        BY HolderFacts
      <4> QED
        BY <4>1, Counting
    <3>3. gov[m].inflight =< 2 * Halved(gov[m].inflight) + 1 /\ Halved(gov[m].inflight) \in Nat
      BY <1>2, HalvedFacts
    <3> QED
      BY <1>2, <1>6, <2>1, <3>1, <3>2, <3>3
  <2>2. CASE ~ (m = m0 /\ p0 = 0)
    BY <1>6, <1>11, <2>2 DEF Sound, OverloadBounded
  <2> QED
    BY <2>1, <2>2
<1> QED
  BY <1>6, <1>7, <1>8, <1>9, <1>10, <1>11, SameCounts

\* The clock moves deadlines, sleeps and ages, and nothing else.
LEMMA TickFacts ==
  ASSUME Sound, Tick
  PROVE  /\ \A r \in Req :
              /\ req'[r] \in Request /\ req'[r].st = req[r].st /\ req'[r].gated = req[r].gated
              /\ req'[r].model = req[r].model /\ req'[r].pin = req[r].pin
         /\ \A m \in Model :
              /\ gov'[m] \in ModelState /\ gov'[m].limit = gov[m].limit
              /\ gov'[m].inflight = gov[m].inflight
              /\ gov'[m].exhausted # -1 => gov'[m].blocked + gov'[m].exhausted >= Backoff
<1>1. req \in [Req -> Request] /\ gov \in [Model -> ModelState] /\ UNCHANGED cfg
  BY DEF Tick, Sound, TypeOK
<1>2. ASSUME NEW r \in Req
      PROVE  /\ req'[r] \in Request /\ req'[r].st = req[r].st /\ req'[r].gated = req[r].gated
             /\ req'[r].model = req[r].model /\ req'[r].pin = req[r].pin
  <2>1. req[r] \in Request
    BY <1>1
  <2>2. CASE Is(r, "out")
    BY <2>1, <2>2 DEF Tick
  <2>3. CASE ~ Is(r, "out")
    <3> DEFINE left == IF req[r].left = -1 THEN -1 ELSE req[r].left - 1
               timer == Until(req[r].timer)
    <3>1. left \in -1 .. MaxPatience /\ timer \in 0 .. Poll
      BY <2>1, ConstantFacts DEF Request, Until
    <3>2. req'[r] = [req[r] EXCEPT !.left = left, !.timer = timer]
      BY <2>3 DEF Tick
    <3> HIDE DEF left, timer
    <3> QED
      BY <2>1, <3>1, <3>2 DEF Request
  <2> QED
    BY <2>2, <2>3
<1>3. ASSUME NEW m \in Model
      PROVE  /\ gov'[m] \in ModelState /\ gov'[m].limit = gov[m].limit
             /\ gov'[m].inflight = gov[m].inflight
             /\ gov'[m].exhausted # -1 => gov'[m].blocked + gov'[m].exhausted >= Backoff
  <2> DEFINE b == Until(gov[m].blocked)
             e == Since(gov[m].exhausted, Dissolve)
             a == Since(gov[m].adjusted, Grow)
  <2>1. gov[m] \in ModelState /\ gov[m].blocked \in Nat /\ gov[m].exhausted \in Int
    BY <1>1, ConstantFacts DEF ModelState
  <2>2. b \in 0 .. Backoff /\ e \in -1 .. Dissolve /\ a \in -1 .. Grow
    BY <2>1, ConstantFacts DEF ModelState, Until, Since
  <2>3. gov[m].exhausted # -1 => gov[m].blocked + gov[m].exhausted >= Backoff
    BY DEF Sound, DrainOpen
  <2>4. e # -1 => b + e >= Backoff
    BY <2>1, <2>3, ConstantFacts DEF Until, Since, ModelState
  <2>5. gov'[m] = [gov[m] EXCEPT !.blocked = b, !.exhausted = e, !.adjusted = a]
    BY DEF Tick
  <2> HIDE DEF b, e, a
  <2> QED
    BY <2>1, <2>2, <2>4, <2>5 DEF ModelState
<1> QED
  BY <1>2, <1>3

\* Time passes.
LEMMA TickStep ==
  ASSUME Sound, Tick
  PROVE  Sound'
<1>1. TypeOK'
  <2>1. req' \in [Req -> Request]
    BY TickFacts DEF Tick
  <2>2. gov' \in [Model -> ModelState]
    BY TickFacts DEF Tick
  <2> QED
    BY <2>1, <2>2 DEF Tick, Sound, TypeOK
<1>2. DrainOpen'
  BY TickFacts DEF DrainOpen
<1>3. \A m, p : Holders(m)' = Holders(m) /\ PinnedAt(m, p)' = PinnedAt(m, p)
  <2>1. \A s \in Req : /\ Holds(s)' <=> Holds(s)
                       /\ Holds(s) => req'[s].model = req[s].model /\ req'[s].pin = req[s].pin
    BY TickFacts DEF Holds
  <2> QED
    BY <2>1, SameHolders
<1> QED
  BY <1>1, <1>2, <1>3, TickFacts, SameCounts DEF Sound, OverloadBounded

\* The strengthened invariant is inductive.
LEMMA SoundStep == Sound /\ [Next]_vars => Sound'
<1> SUFFICES ASSUME Sound, [Next]_vars PROVE Sound'
  OBVIOUS
<1>1. ASSUME NEW r \in Req, Exchange(r) PROVE Sound'
  <2>1. CASE Leave(r)
    BY <2>1, PartStep DEF Leave
  <2>2. CASE Retry(r)
    BY <2>2, PartStep DEF Retry
  <2> QED
    BY <1>1, <2>1, <2>2, ArriveStep, PassStep, AskStep, SniffStep, NoteStep DEF Exchange
<1>2. ASSUME NEW e \in BOOLEAN, NEW m \in Model, NEW c \in Overrides, Save(e, m, c)
      PROVE  Sound'
  BY <1>2, SaveStep
<1>3. CASE Tick
  BY <1>3, TickStep
<1>4. CASE UNCHANGED vars
  <2>1. \A s \in Req : Holds(s)' <=> Holds(s)
    BY <1>4 DEF vars, Holds
  <2> QED
    BY <1>4, <2>1, IdleStep DEF vars, Sound, TypeOK
<1> QED
  BY <1>1, <1>2, <1>3, <1>4 DEF Next

-----------------------------------------------------------------------------
(* What follows.                                                           *)

\* Every variable keeps its type; in particular no count passes the number of
\* requests and no cap its bound.
THEOREM GovernorTyped == Spec => []TypeOK
<1>1. Sound => TypeOK
  BY DEF Sound
<1> QED
  BY <1>1, SoundInit, SoundStep, PTL DEF Spec

\* One permit per holder on every path: retries, cut-offs, reports, saves.
THEOREM PermitsAccounted == Spec => []PermitAccounting
<1>1. Sound => PermitAccounting
  BY DEF Sound
<1> QED
  BY <1>1, SoundInit, SoundStep, PTL DEF Spec

\* What is in flight unpinned is bounded by the cap in force, also while pinned
\* requests of other configurations share the counter.
THEOREM OverloadIsBounded == Spec => []OverloadBounded
<1>1. Sound => OverloadBounded
  BY DEF Sound
<1> QED
  BY <1>1, SoundInit, SoundStep, PTL DEF Spec

\* A pinned cap is never exceeded by those it was given to.
THEOREM PinnedCapsHold == Spec => []PinnedCapHolds
<1>1. Sound => PinnedCapHolds
  BY DEF Sound
<1> QED
  BY <1>1, SoundInit, SoundStep, PTL DEF Spec

\* A report by which a request goes from sniffing to noted is a Note step.
LEMMA NotedByNote ==
  ASSUME Sound, [Next]_vars, NEW r \in Req, Is(r, "sniffing"), req'[r].st = "noted"
  PROVE  Note(r)
<1>1. req \in [Req -> Request] /\ req[r].st = "sniffing"
  BY DEF Sound, TypeOK, Is
<1>2. ASSUME NEW q \in Req, Exchange(q) PROVE Note(r)
  <2>1. CASE q # r
    <3>1. req'[r] = req[r]
      BY <1>1, <1>2, <2>1 DEF Exchange, Arrive, Pass, Ask, Leave, Retry, Part, Sniff, Note
    <3> QED
      BY <1>1, <3>1
  <2>2. CASE q = r
    <3>1. ~ Leave(r) /\ ~ Retry(r)
      <4>1. ASSUME NEW next \in {"out", "asking"}, Part(r, next) PROVE FALSE
        BY <1>1, <4>1, OutFacts DEF Part, Request
      <4> QED
        BY <4>1 DEF Leave, Retry
    <3>2. ~ Ask(r) /\ ~ Pass(r) /\ ~ Sniff(r)
      BY <1>1 DEF Ask, Pass, Sniff, Is
    <3>3. \A m \in Model, g \in BOOLEAN, d \in Patience : ~ Arrive(r, m, g, d)
      BY <1>1 DEF Arrive, Is
    <3> QED
      BY <1>2, <2>2, <3>1, <3>2, <3>3 DEF Exchange
  <2> QED
    BY <2>1, <2>2
<1>3. ~ Tick
  BY <1>1, TickFacts
<1>4. req' # req
  BY <1>1
<1> QED
  BY <1>2, <1>3, <1>4 DEF Next, Save, vars

\* A report with no pinned holder about never raises the cap.
LEMMA TightensStep ==
  ASSUME Sound, [Next]_vars, NEW m \in Model, gov[m].limit > 0,
         \A r \in Holders(m) : req[r].pin = 0,
         \E r \in Req : Is(r, "sniffing") /\ req'[r].st = "noted" /\ req[r].model = m
  PROVE  gov'[m].limit =< gov[m].limit
<1>1. PICK r \in Req : Note(r)
  BY NotedByNote
<1>2. gov'[m].limit = gov[m].limit \/ gov'[m].limit = Halved(gov[m].inflight)
  BY <1>1, NoteStep
<1>3. gov[m].limit \in Nat \ {0} /\ gov[m].inflight \in Nat
  BY ConstantFacts DEF Sound, TypeOK, ModelState
<1>4. PinnedAt(m, 0) = Holders(m)
  BY DEF PinnedAt
<1>5. gov[m].inflight =< 2 * gov[m].limit + 1
  BY <1>4 DEF Sound, OverloadBounded, PermitAccounting
<1>6. Halved(gov[m].inflight) =< gov[m].limit
  BY <1>3, <1>5, HalvedFacts
<1> QED
  BY <1>2, <1>3, <1>6

\* A report engages the cap or tightens it: unless pinned requests hold permits,
\* it never raises the cap in force.
THEOREM ReportsTighten == Spec => NoteTightens
<1>1. Sound /\ [Next]_vars =>
        [\A m \in Model :
           /\ gov[m].limit > 0
           /\ \A r \in Holders(m) : req[r].pin = 0
           /\ \E r \in Req : Is(r, "sniffing") /\ req'[r].st = "noted" /\ req[r].model = m
           => gov'[m].limit =< gov[m].limit]_vars
  BY TightensStep
<1> QED
  BY <1>1, SoundInit, SoundStep, PTL DEF Spec, NoteTightens

\* An admission finds the drain gap over.
LEMMA DrainStep ==
  ASSUME Sound, [Next]_vars, NEW m \in Model, gov'[m].inflight > gov[m].inflight
  PROVE  gov[m].exhausted = -1 \/ gov[m].exhausted >= Backoff
<1>1. /\ req \in [Req -> Request] /\ gov \in [Model -> ModelState]
      /\ gov[m].inflight \in Nat /\ gov[m].exhausted \in Int
  BY ConstantFacts DEF Sound, TypeOK, ModelState
<1>2. gov'[m] # gov[m]
  BY <1>1
<1>3. ~ Tick
  BY <1>1, TickFacts
<1>4. PICK r \in Req : Exchange(r)
  BY <1>2, <1>3 DEF Next, Save, vars
<1>5. req[r] \in Request /\ req[r].model \in Model /\ req[r].pin \in Overrides
  BY <1>1 DEF Request
<1>6. ~ Leave(r) /\ ~ Retry(r)
  <2>1. ASSUME NEW next, Part(r, next) PROVE FALSE
    <3>1. gov' = [gov EXCEPT ![req[r].model] = Released(gov[req[r].model])]
      BY <1>2, <2>1 DEF Part
    <3>2. m = req[r].model /\ gov'[m] = Released(gov[m])
      BY <1>1, <1>2, <3>1
    <3>3. Released(gov[m]).inflight \in Nat /\ Released(gov[m]).inflight =< gov[m].inflight
      BY <1>1 DEF Released, ModelState
    <3> QED
      BY <1>1, <3>2, <3>3
  <2> QED
    BY <2>1 DEF Leave, Retry
<1>7. ~ Note(r)
  <2>1. SUFFICES ASSUME Note(r) PROVE FALSE
    OBVIOUS
  <2>2. m = req[r].model /\ gov'[m] = Noted(gov[m], req[r].pin)
    BY <1>1, <1>2, <2>1 DEF Note
  <2>3. gov[m] \in ModelState
    BY <1>1
  <2>4. Noted(gov[m], req[r].pin).inflight = gov[m].inflight
    BY <2>3 DEF Noted, ModelState
  <2> QED
    BY <1>1, <2>2, <2>4
<1>8. Ask(r)
  BY <1>2, <1>4, <1>6, <1>7 DEF Exchange, Arrive, Pass, Sniff
<1> DEFINE s == Grown(gov[req[r].model], req[r].pin)
<1>9. s.inflight = gov[req[r].model].inflight /\ s.blocked = gov[req[r].model].blocked
  BY <1>1, <1>5, GrownFacts
<1>10. m = req[r].model
  BY <1>1, <1>2, <1>8 DEF Ask
<1>11. Open(s, req[r].pin)
  <2>1. SUFFICES ASSUME ~ Open(s, req[r].pin) PROVE FALSE
    OBVIOUS
  <2>2. gov'[m] = s
    BY <1>1, <1>8, <1>10, <2>1 DEF Ask
  <2> QED
    BY <1>1, <1>9, <1>10, <2>2
<1>12. gov[m].blocked = 0
  BY <1>9, <1>10, <1>11 DEF Open
<1> QED
  BY <1>1, <1>12 DEF Sound, DrainOpen

\* Nobody is admitted within the drain gap of the last report.
THEOREM DrainIsHonoured == Spec => DrainHonoured
<1>1. Sound /\ [Next]_vars =>
        [\A m \in Model : gov'[m].inflight > gov[m].inflight =>
           gov[m].exhausted = -1 \/ gov[m].exhausted >= Backoff]_vars
  BY DrainStep
<1> QED
  BY <1>1, SoundInit, SoundStep, PTL DEF Spec, DrainHonoured

-----------------------------------------------------------------------------
(* Numbers, and functions of some of them.                                 *)

\* The bounds are naturals, and times too.
LEMMA IndexNumbers ==
  /\ MaxTime \in Nat /\ MaxCount \in Nat /\ Boots \in Nat /\ Samples \in Nat
  /\ Forever = MaxTime + 1
  /\ \A t \in Time : t \in Nat /\ 1 <= t /\ t <= MaxTime
BY HistoryIndexAssumption DEF HistoryIndexAssumption, Time, Forever

\* What is true of 0, and of the number after any of which it is true, is true of all.
LEMMA Inductive ==
  ASSUME NEW S, 0 \in S, \A n \in Nat : n \in S => n + 1 \in S
  PROVE  \A n \in Nat : n \in S
<1> SUFFICES ASSUME Nat \ S # {} PROVE FALSE
  OBVIOUS
<1>1. IsWellFoundedOn(OpToRel(<, Nat), Nat)
  BY NatLessThanWellFounded
<1>2. PICK x \in Nat \ S : \A y \in Nat \ S : ~ (<<y, x>> \in OpToRel(<, Nat))
  BY <1>1, WFMin, Zenon
<1>3. \A y \in Nat \ S : ~ (y < x)
  BY <1>2, Zenon DEF OpToRel
<1>4. x \in Nat /\ x \notin S /\ x # 0
  OBVIOUS
<1>5. x - 1 \in Nat /\ x - 1 < x /\ x - 1 + 1 = x
  BY <1>4
<1>6. x - 1 \in S
  BY <1>3, <1>5
<1>7. x - 1 + 1 \in S
  BY <1>5, <1>6
<1> QED
  BY <1>4, <1>5, <1>7

\* A nonempty set of bounded numbers has a greatest and a least one, which Max and Min are.
LEMMA MaxFacts ==
  ASSUME NEW S, NEW N \in Nat, S \subseteq 0 .. N, S # {}
  PROVE  Max(S) \in S /\ \A x \in S : x <= Max(S)
<1> DEFINE T == {n \in Nat : (\E x \in S : x <= n) => \E x \in S : x <= n /\ \A y \in S : y <= n => y <= x}
<1>1. 0 \in T
  OBVIOUS
<1>2. ASSUME NEW n \in Nat, n \in T PROVE n + 1 \in T
  <2>1. CASE n + 1 \in S
    BY <2>1
  <2>2. CASE n + 1 \notin S
    <3>1. \A x \in S : x <= n + 1 => x <= n
      BY <2>2
    <3>2. \A x \in S : x <= n => x <= n + 1
      OBVIOUS
    <3> QED
      BY <1>2, <3>1, <3>2
  <2> QED
    BY <2>1, <2>2
<1>3. N \in T
  <2> HIDE DEF T
  <2> QED
    BY <1>1, <1>2, Inductive
<1>4. \E x \in S : \A y \in S : x >= y
  <2>1. \A x \in S : x <= N /\ x \in Nat
    OBVIOUS
  <2>2. PICK x \in S : x <= N /\ \A y \in S : y <= N => y <= x
    BY <1>3, <2>1
  <2>3. \A y \in S : x >= y
    BY <2>1, <2>2
  <2> QED
    BY <2>3
<1>5. Max(S) \in S /\ \A y \in S : Max(S) >= y
  BY <1>4 DEF Max
<1> QED
  BY <1>5

\* It is the only one.
LEMMA MaxIs ==
  ASSUME NEW S, NEW N \in Nat, S \subseteq 0 .. N, NEW m \in S, \A x \in S : x <= m
  PROVE  Max(S) = m
<1>1. Max(S) \in S /\ \A x \in S : x <= Max(S)
  BY MaxFacts
<1>2. Max(S) <= m /\ m <= Max(S)
  BY <1>1
<1>3. Max(S) \in 0 .. N /\ m \in 0 .. N
  BY <1>1
<1> QED
  BY <1>2, <1>3

LEMMA MinFacts ==
  ASSUME NEW S, NEW N \in Nat, S \subseteq 0 .. N, S # {}
  PROVE  Min(S) \in S /\ \A x \in S : Min(S) <= x
<1>1. IsWellFoundedOn(OpToRel(<, Nat), Nat)
  BY NatLessThanWellFounded
<1>2. S \subseteq Nat
  OBVIOUS
<1>3. PICK x \in S : \A y \in S : ~ (<<y, x>> \in OpToRel(<, Nat))
  BY <1>1, <1>2, WFMin, Zenon
<1>4. \A y \in S : ~ (y < x)
  BY <1>2, <1>3, Zenon DEF OpToRel
<1>5. \A y \in S : x =< y
  BY <1>4
<1> HIDE <1>4
<1> QED
  BY <1>5 DEF Min

\* A function of some elements is one on its domain.
LEMMA PartialFacts ==
  ASSUME NEW S, NEW T, NEW f
  PROVE  f \in Partial(S, T) <=> DOMAIN f \subseteq S /\ f \in [DOMAIN f -> T]
BY DEF Partial

LEMMA PartialWith ==
  ASSUME NEW S, NEW T, NEW f \in Partial(S, T), NEW i \in S, NEW x \in T
  PROVE  With(f, i, x) \in Partial(S, T)
BY PartialFacts DEF With

LEMMA WithFacts ==
  ASSUME NEW f, NEW i, NEW x
  PROVE  /\ DOMAIN With(f, i, x) = DOMAIN f \cup {i}
         /\ With(f, i, x)[i] = x
         /\ \A j \in DOMAIN f : j # i => With(f, i, x)[j] = f[j]
BY DEF With

LEMMA PartialSome ==
  ASSUME NEW S, NEW T, NEW f \in Partial(S, T), NEW D, D \subseteq DOMAIN f
  PROVE  [i \in D |-> f[i]] \in Partial(S, T)
BY PartialFacts

LEMMA PartialEmpty ==
  ASSUME NEW S, NEW T
  PROVE  <<>> \in Partial(S, T) /\ DOMAIN <<>> = {}
<1>1. <<>> \in [{} -> T]
  OBVIOUS
<1> QED
  BY <1>1 DEF Partial

\* Pruning keeps the points that are young enough, as they are.
LEMMA PrunedTyped ==
  ASSUME NEW S, NEW T, NEW f \in Partial(S, T), NEW cutoff
  PROVE  Pruned(f, cutoff) \in Partial(S, T)
BY PartialFacts DEF Pruned

LEMMA PrunedFacts ==
  ASSUME NEW f, NEW cutoff
  PROVE  /\ \A i : i \in DOMAIN Pruned(f, cutoff) <=> i \in DOMAIN f /\ f[i].t >= cutoff
         /\ \A i \in DOMAIN Pruned(f, cutoff) : Pruned(f, cutoff)[i] = f[i]
BY DEF Pruned

\* Counts are naturals.
LEMMA CountFacts ==
  ASSUME NEW a \in Snapshot, NEW s
  PROVE  Count(a, s) \in 0 .. MaxCount /\ Count(a, s) \in Nat
BY IndexNumbers, PartialFacts DEF Snapshot, Count

-----------------------------------------------------------------------------
(* Snapshots and increments.                                               *)

\* Of two snapshots the second counted all that the first did.
Grows(a, b) == \A s \in Series : Count(a, s) <= Count(b, s)

LEMMA UnsampledFacts == Unsampled \in Snapshot /\ \A s : Count(Unsampled, s) = 0
BY PartialEmpty DEF Unsampled, Snapshot, Count

LEMMA GrowsFacts ==
  ASSUME NEW a \in Snapshot, NEW b \in Snapshot, NEW c \in Snapshot
  PROVE  /\ Grows(a, a) /\ Grows(Unsampled, a)
         /\ Grows(a, b) /\ Grows(b, c) => Grows(a, c)
<1>1. \A s : Count(a, s) \in Nat /\ Count(b, s) \in Nat /\ Count(c, s) \in Nat /\ Count(Unsampled, s) = 0
  BY CountFacts, UnsampledFacts
<1> QED
  BY <1>1 DEF Grows

\* An increment is what was counted since, or all of it after a reset.
LEMMA NormalizeFacts ==
  ASSUME NEW a \in Snapshot, NEW b \in Snapshot, NEW reset \in BOOLEAN, ~reset => Grows(a, b)
  PROVE  /\ Normalize(a, b, reset) \in Partial(Series, 0 .. MaxCount)
         /\ \A s \in Series :
              /\ Count(Normalize(a, b, reset), s) = Count(b, s) - (IF reset THEN 0 ELSE Count(a, s))
              /\ Count(Normalize(a, b, reset), s) \in 0 .. Count(b, s)
<1>1. DOMAIN a \subseteq Series /\ DOMAIN b \subseteq Series
  BY PartialFacts DEF Snapshot
<1>2. ~ InferredReset(a, b, reset)
  <2> SUFFICES ASSUME ~reset, NEW s \in DOMAIN b \cap DOMAIN a, b[s] < a[s] PROVE FALSE
    BY DEF InferredReset
  <2>1. s \in Series /\ Count(a, s) = a[s] /\ Count(b, s) = b[s]
    BY <1>1 DEF Count
  <2>2. Count(a, s) <= Count(b, s) /\ Count(a, s) \in Nat /\ Count(b, s) \in Nat
    BY <2>1, CountFacts DEF Grows
  <2> QED
    BY <2>1, <2>2
<1>3. Normalize(a, b, reset) = [s \in DOMAIN b |-> b[s] - (IF reset THEN 0 ELSE Count(a, s))]
  BY <1>2 DEF Normalize
<1>4. \A s \in Series : Count(a, s) \in Nat /\ Count(b, s) \in 0 .. MaxCount
                        /\ (~reset => Count(a, s) <= Count(b, s))
  BY CountFacts DEF Grows
<1>5. \A s \in Series : /\ Count(Normalize(a, b, reset), s) = Count(b, s) - (IF reset THEN 0 ELSE Count(a, s))
                        /\ Count(Normalize(a, b, reset), s) \in 0 .. Count(b, s)
  <2> TAKE s \in Series
  <2>1. CASE s \in DOMAIN b
    <3>1. Count(Normalize(a, b, reset), s) = b[s] - (IF reset THEN 0 ELSE Count(a, s)) /\ Count(b, s) = b[s]
      BY <1>3, <2>1 DEF Count
    <3> QED
      BY <1>4, <3>1, IndexNumbers
  <2>2. CASE s \notin DOMAIN b
    <3>1. Count(Normalize(a, b, reset), s) = 0 /\ Count(b, s) = 0
      BY <1>3, <2>2 DEF Count
    <3> QED
      BY <1>4, <3>1
  <2> QED
    BY <2>1, <2>2
<1>6. \A s \in DOMAIN b : b[s] - (IF reset THEN 0 ELSE Count(a, s)) \in 0 .. MaxCount
  <2> TAKE s \in DOMAIN b
  <2>1. s \in Series /\ Count(b, s) = b[s]
    BY <1>1 DEF Count
  <2> QED
    BY <1>4, <2>1, IndexNumbers
<1>7. Normalize(a, b, reset) \in [DOMAIN b -> 0 .. MaxCount]
  BY <1>3, <1>6
<1>8. DOMAIN Normalize(a, b, reset) = DOMAIN b
  BY <1>3
<1> QED
  BY <1>1, <1>5, <1>7, <1>8, PartialFacts

\* What a record made after another adds.
LEMMA PointFacts ==
  ASSUME NEW before, NEW record, record.state \in Snapshot, record.t \in Time,
         before # None => /\ before.state \in Snapshot
                          /\ before.boot = record.boot => Grows(before.state, record.state)
  PROVE  /\ PointAfter(before, record) \in Point
         /\ PointAfter(before, record).t = record.t
         /\ \A s \in Series :
              /\ Count(PointAfter(before, record).deltas, s) =
                   Count(record.state, s)
                     - (IF before # None /\ before.boot = record.boot THEN Count(before.state, s) ELSE 0)
              /\ Count(PointAfter(before, record).deltas, s) \in 0 .. Count(record.state, s)
<1>1. CASE before = None
  <2>1. PointAfter(before, record) = [t |-> record.t, deltas |-> Normalize(Unsampled, record.state, FALSE)]
    BY <1>1 DEF PointAfter
  <2>2. Grows(Unsampled, record.state)
    BY GrowsFacts
  <2>3. /\ Normalize(Unsampled, record.state, FALSE) \in Partial(Series, 0 .. MaxCount)
        /\ \A s \in Series :
             /\ Count(Normalize(Unsampled, record.state, FALSE), s) = Count(record.state, s) - Count(Unsampled, s)
             /\ Count(Normalize(Unsampled, record.state, FALSE), s) \in 0 .. Count(record.state, s)
    BY <2>2, NormalizeFacts, UnsampledFacts
  <2>4. \A s \in Series : Count(record.state, s) - Count(Unsampled, s) = Count(record.state, s) - 0
    BY UnsampledFacts, CountFacts
  <2> DEFINE d == Normalize(Unsampled, record.state, FALSE)
  <2>6. d \in Partial(Series, 0 .. MaxCount) /\ PointAfter(before, record) = [t |-> record.t, deltas |-> d]
    BY <2>1, <2>3
  <2>5. /\ PointAfter(before, record).t = record.t /\ PointAfter(before, record).deltas = d
        /\ PointAfter(before, record) \in Point
    <3> HIDE DEF d
    <3> QED
      BY <2>6 DEF Point
  <2> QED
    BY <1>1, <2>3, <2>4, <2>5
<1>2. CASE before # None
  <2> DEFINE reset == before.boot # record.boot
  <2>1. PointAfter(before, record) = [t |-> record.t, deltas |-> Normalize(before.state, record.state, reset)]
    BY <1>2 DEF PointAfter
  <2>2. reset \in BOOLEAN /\ (~reset => Grows(before.state, record.state)) /\ before.state \in Snapshot
    BY <1>2
  <2>5. reset <=> before.boot # record.boot
    OBVIOUS
  <2> HIDE DEF reset
  <2>3. /\ Normalize(before.state, record.state, reset) \in Partial(Series, 0 .. MaxCount)
        /\ \A s \in Series :
             /\ Count(Normalize(before.state, record.state, reset), s)
                  = Count(record.state, s) - (IF reset THEN 0 ELSE Count(before.state, s))
             /\ Count(Normalize(before.state, record.state, reset), s) \in 0 .. Count(record.state, s)
    BY <2>2, NormalizeFacts
  <2>4. /\ PointAfter(before, record).t = record.t
        /\ PointAfter(before, record).deltas = Normalize(before.state, record.state, reset)
        /\ PointAfter(before, record) \in Point
    BY <2>1, <2>3 DEF Point
  <2> QED
    BY <1>2, <2>3, <2>4, <2>5
<1> QED
  BY <1>1, <1>2

-----------------------------------------------------------------------------
(* The invariant.                                                          *)

Numbers == DOMAIN taken

\* Samples are numbered boot by boot, and within a boot counts only grow.
InOrder ==
  \A i, j \in Numbers :
    i < j => /\ taken[i].boot <= taken[j].boot
             /\ taken[i].boot = taken[j].boot => Grows(taken[i].state, taken[j].state)

\* Where the sampler stands between the registry, the samples and the file.
SamplerStands ==
  /\ ~up => live = Unsampled /\ sampler = Idle /\ worker = Idle /\ Len(taken) = saved
  /\ \A i \in Numbers : taken[i].boot <= boot /\ (i > saved => taken[i].boot = boot)
  /\ up => /\ boot > 0
           /\ \A i \in Sampled(boot) : Grows(taken[i].state, live)
           /\ ~poisoned => Len(taken) = saved + (IF sampler.at = "indexed" THEN 1 ELSE 0)
  /\ sampler.at = "rendered" =>
       /\ Len(taken) < Samples
       /\ Grows(sampler.snapshot, live)
       /\ \A i \in Sampled(boot) : Grows(taken[i].state, sampler.snapshot)
  /\ sampler.at = "indexed" =>
       Len(taken) > saved /\ sampler.record = taken[Len(taken)] /\ sampler.record.boot = boot

\* The file has samples as they were taken, in the order of their times.
Filed ==
  /\ \A i \in DOMAIN file.records :
       LET r == file.records[i]
       IN  /\ r.t = taken[i].t /\ r.boot = taken[i].boot /\ r.state = taken[i].state
           /\ r.boot \in DOMAIN file.began /\ file.began[r.boot] <= r.t
           /\ \A c \in DOMAIN file.began : r.boot < c => r.t <= file.began[c]
           /\ \A j \in DOMAIN file.records : i < j => r.t <= file.records[j].t
  /\ \A b, c \in DOMAIN file.began : b < c => file.began[b] <= file.began[c]
  /\ up => boot \in DOMAIN file.began

\* A checkpoint repeats a full sample before it.
Repeats ==
  \A j \in DOMAIN file.records :
    \E f \in Of(file, file.records[j].boot) :
      f <= j /\ file.records[f].full /\ file.records[f].state = file.records[j].state

\* Before a record that is not too old there is one that counted all that any sample
\* before it did.
Preceded ==
  \A i \in DOMAIN file.records :
    file.records[i].t >= floor =>
      \A k \in Sampled(file.records[i].boot) :
        k < i => \E j \in Of(file, file.records[i].boot) :
                   j < i /\ Grows(taken[k].state, file.records[j].state)

Covers(gap, t) == gap.from <= t /\ t <= gap.to

\* A saved sample that the file has no more is too old, or fell into a gap that is.
Lost ==
  \A k \in 1 .. saved \ DOMAIN file.records :
    taken[k].t < floor \/ \E span \in spans : Covers(span, taken[k].t) /\ span.to <= floor

\* A gap that is over has been reported.
Reported == \A gap \in GapsOf(file) : gap.to # Forever => gap \in spans

FileInv == Filed /\ Repeats /\ Preceded /\ Lost /\ Reported

\* What the store remembers of this boot.
Remembered ==
  up =>
    /\ writer.state # None => Of(file, boot) # {}
    /\ ~poisoned =>
         /\ IF writer.state = None THEN \A k \in Sampled(boot) : k > saved
            ELSE \E j \in Of(file, boot) :
                   /\ writer.state = [is |-> file.records[j].state]
                   /\ \A k \in Sampled(boot) : k <= saved => Grows(taken[k].state, file.records[j].state)
         /\ file.began[boot] <= writer.at
         /\ \A j \in Of(file, boot) : file.records[j].t <= writer.at
         /\ sampler.at = "indexed" => writer.at <= sampler.record.t

\* What the index has of the samples, and has not.
Pointed ==
  up =>
    /\ \A i \in Points :
         /\ index.points[i].t = taken[i].t
         /\ taken[i].t >= floor => \A s \in Series : Delta(i, s) = Increment(i, s)
    /\ \A k \in Numbers \ Points :
         \/ taken[k].t < floor
         \/ \E gap \in index.gaps \cup healed : Covers(gap, taken[k].t)
         \/ \E span \in spans : Covers(span, taken[k].t) /\ span.to <= floor
    /\ IF Sampled(boot) = {} THEN index.lastBoot # boot
       ELSE index.lastBoot = boot /\ index.last = taken[Len(taken)].state

\* The points of a boot never come to more than its last one counted.
Apportioned ==
  up =>
    \A i \in Points, s \in Series :
      /\ 0 <= Delta(i, s) /\ Delta(i, s) <= Count(taken[i].state, s)
      /\ \A j \in Points :
           j < i /\ taken[j].boot = taken[i].boot =>
             Delta(i, s) <= Count(taken[i].state, s) - Count(taken[j].state, s)

PointsInOrder == \A i, j \in Points : i < j => index.points[i].t <= index.points[j].t

PointsInv == Pointed /\ Apportioned /\ PointsInOrder

\* Every gap the index shows is still in the file, or too old to matter, or was
\* healed after the index had read it.
GapsKnown ==
  up =>
    /\ index.gaps \subseteq spans
    /\ \A gap \in index.gaps : gap \in GapsOf(file) \/ gap.to <= floor \/ gap \in healed
    /\ worker.at = "replaced" => \A gap \in index.gaps : gap.to <= floor \/ gap \in healed

IndexInv ==
  /\ IndexTypeOK /\ InOrder /\ SamplerStands /\ FileInv /\ Remembered /\ PointsInv /\ GapsKnown

LEMMA IndexInvInit == IndexInit => IndexInv
<1> SUFFICES ASSUME IndexInit PROVE IndexInv
  OBVIOUS
<1>1. DOMAIN taken = {} /\ Len(taken) = 0 /\ taken \in Seq(Record) /\ ~up
  BY DEF IndexInit
<1>2. /\ index.points = <<>> /\ DOMAIN index.points = {} /\ index.lastBoot = 0
      /\ DOMAIN file.records = {} /\ DOMAIN file.began = {} /\ file.torn = {}
  BY DEF IndexInit, EmptyIndex, EmptyFile
<1>3. file \in File /\ index \in Index
  BY PartialEmpty, UnsampledFacts, IndexNumbers DEF IndexInit, EmptyIndex, EmptyFile, File, Index
<1>4. writer \in [state : {None} \cup [is : Snapshot], at : 0 .. MaxTime]
  BY IndexNumbers DEF IndexInit, NewWriter
<1>5. IndexTypeOK
  <2>1. up \in BOOLEAN /\ poisoned \in BOOLEAN /\ boot \in 0 .. Boots /\ days \in Retention
        /\ live \in Snapshot /\ sampler = Idle /\ worker = Idle /\ index.lastBoot <= boot
        /\ saved \in 0 .. Len(taken) /\ Len(taken) <= Samples /\ floor \in 0 .. MaxTime /\ spans \subseteq Gap
        /\ unended \in BOOLEAN /\ healed \subseteq spans
    <3>1. live \in Snapshot
      BY UnsampledFacts DEF IndexInit
    <3>2. worker = Idle /\ boot \in 0 .. Boots /\ floor \in 0 .. MaxTime
      BY IndexNumbers DEF IndexInit, Idle
    <3>3. index.lastBoot <= boot /\ saved \in 0 .. Len(taken) /\ Len(taken) <= Samples
      BY <1>1, <1>2, IndexNumbers DEF IndexInit
    <3> QED
      BY <3>1, <3>2, <3>3 DEF IndexInit
  <2> QED
    BY <1>1, <1>2, <1>3, <1>4, <2>1, Zenon DEF IndexTypeOK, Points
<1>6. InOrder /\ SamplerStands
  BY <1>1 DEF IndexInit, InOrder, SamplerStands, Numbers, Idle
<1>7. GapsOf(file) = {}
  BY <1>2 DEF GapsOf
<1>8. FileInv
  BY <1>1, <1>2, <1>7 DEF IndexInit, FileInv, Filed, Repeats, Preceded, Lost, Reported
<1>9. Remembered /\ PointsInv /\ GapsKnown
  BY <1>1, <1>2 DEF Remembered, PointsInv, Pointed, Apportioned, PointsInOrder, GapsKnown, Points
<1> QED
  BY <1>5, <1>6, <1>8, <1>9 DEF IndexInv

\* The types of what the invariant speaks of.
LEMMA IndexTypes ==
  ASSUME IndexTypeOK
  PROVE  /\ taken \in Seq(Record) /\ Numbers = 1 .. Len(taken) /\ Len(taken) \in 0 .. Samples
         /\ \A i \in Numbers : /\ taken[i] \in Record /\ taken[i].t \in Time
                               /\ taken[i].boot \in 1 .. Boots /\ taken[i].state \in Snapshot
         /\ saved \in 0 .. Len(taken) /\ boot \in 0 .. Boots /\ floor \in 0 .. MaxTime
         /\ file \in File /\ index \in Index
         /\ file.records \in Partial(1 .. Samples, Line) /\ file.began \in Partial(1 .. Boots, Time)
         /\ \A i \in DOMAIN file.records :
              /\ i \in Numbers /\ i <= saved /\ file.records[i] \in Line
              /\ file.records[i].t \in Time /\ file.records[i].boot \in 1 .. Boots
              /\ file.records[i].state \in Snapshot /\ file.records[i].full \in BOOLEAN
         /\ \A b \in DOMAIN file.began : b \in 1 .. boot /\ b \in 1 .. Boots /\ file.began[b] \in Time
         /\ file.torn \subseteq DOMAIN file.began
         /\ index.points \in Partial(1 .. Samples, Point)
         /\ \A i \in Points : /\ i \in Numbers /\ index.points[i] \in Point /\ index.points[i].t \in Time
                              /\ index.points[i].deltas \in Partial(Series, 0 .. MaxCount)
         /\ index.last \in Snapshot /\ index.lastBoot \in 0 .. boot
         /\ writer.at \in 0 .. MaxTime
<1>1. taken \in Seq(Record) /\ Numbers = 1 .. Len(taken) /\ Len(taken) \in 0 .. Samples
      /\ saved \in 0 .. Len(taken) /\ boot \in 0 .. Boots /\ floor \in 0 .. MaxTime
  BY DEF IndexTypeOK, Numbers
<1>2. \A i \in Numbers : /\ taken[i] \in Record /\ taken[i].t \in Time
                         /\ taken[i].boot \in 1 .. Boots /\ taken[i].state \in Snapshot
  <2>1. \A i \in 1 .. Len(taken) : taken[i] \in Record
    BY <1>1
  <2> QED
    BY <1>1, <2>1 DEF Record
<1>3. /\ file \in File /\ index \in Index
      /\ file.records \in Partial(1 .. Samples, Line) /\ file.began \in Partial(1 .. Boots, Time)
      /\ index.points \in Partial(1 .. Samples, Point)
      /\ index.last \in Snapshot
  BY DEF IndexTypeOK, File, Index
<1>4. file.records \in [DOMAIN file.records -> Line] /\ file.began \in [DOMAIN file.began -> Time]
      /\ index.points \in [Points -> Point] /\ DOMAIN file.began \subseteq 1 .. Boots
  BY <1>3, PartialFacts DEF Points
<1>5. \A i \in DOMAIN file.records :
              /\ i \in Numbers /\ i <= saved /\ file.records[i] \in Line
              /\ file.records[i].t \in Time /\ file.records[i].boot \in 1 .. Boots
              /\ file.records[i].state \in Snapshot /\ file.records[i].full \in BOOLEAN
  BY <1>1, <1>4 DEF IndexTypeOK, Line
<1>6. \A b \in DOMAIN file.began : b \in 1 .. boot /\ b \in 1 .. Boots /\ file.began[b] \in Time
  BY <1>4 DEF IndexTypeOK
<1>7. \A i \in Points : /\ i \in Numbers /\ index.points[i] \in Point /\ index.points[i].t \in Time
                        /\ index.points[i].deltas \in Partial(Series, 0 .. MaxCount)
  BY <1>4 DEF IndexTypeOK, Point, Numbers
<1>8. index.lastBoot \in 0 .. boot
  BY <1>1, <1>3 DEF IndexTypeOK, Index
<1>9. file.torn \subseteq DOMAIN file.began /\ writer.at \in 0 .. MaxTime
  BY DEF IndexTypeOK
<1> QED
  BY <1>1, <1>2, <1>3, <1>5, <1>6, <1>7, <1>8, <1>9

\* What a step leaves alone keeps what is said of it.
LEMMA FileInvKept ==
  ASSUME FileInv, UNCHANGED <<file, taken, saved, floor, spans, boot>>, up' => up
  PROVE  FileInv'
<1>1. Filed'
  BY DEF FileInv, Filed
<1>2. Repeats' /\ Reported'
  BY DEF FileInv, Repeats, Reported
<1>3. Preceded' /\ Lost'
  BY DEF FileInv, Preceded, Lost, Sampled
<1> QED
  BY <1>1, <1>2, <1>3 DEF FileInv

LEMMA PointsInvKept ==
  ASSUME PointsInv, UNCHANGED <<index, taken, floor, spans, healed, boot>>, up' => up
  PROVE  PointsInv'
<1>1. \A i, s : Delta(i, s)' = Delta(i, s) /\ Increment(i, s)' = Increment(i, s)
  BY DEF Delta, Increment, Sampled
<1>2. Points' = Points /\ Numbers' = Numbers /\ Sampled(boot)' = Sampled(boot)
  BY DEF Points, Numbers, Sampled
<1>3. Pointed'
  BY <1>1, <1>2 DEF PointsInv, Pointed
<1>4. Apportioned' /\ PointsInOrder'
  BY <1>1, <1>2 DEF PointsInv, Apportioned, PointsInOrder
<1> QED
  BY <1>3, <1>4 DEF PointsInv

LEMMA GapsKnownKept ==
  ASSUME GapsKnown, UNCHANGED <<index, file, floor, spans, healed>>, up' => up,
         worker'.at = "replaced" => worker.at = "replaced"
  PROVE  GapsKnown'
BY DEF GapsKnown

LEMMA RememberedKept ==
  ASSUME Remembered, UNCHANGED <<file, writer, poisoned, boot, taken, saved>>, up' => up,
         sampler'.at = "indexed" => sampler' = sampler
  PROVE  Remembered'
<1>1. Sampled(boot)' = Sampled(boot)
  BY DEF Sampled
<1> QED
  BY <1>1 DEF Remembered

\* The registry counts on.
LEMMA InvObserve ==
  ASSUME IndexInv, NEW s \in Series, Observe(s)
  PROVE  IndexInv'
<1> USE DEF IndexInv
<1>1. live' \in Snapshot /\ Grows(live, live')
  <2>1. live \in Snapshot /\ DOMAIN live \subseteq Series
    BY PartialFacts DEF IndexTypeOK, Snapshot
  <2>2. \A r \in Series : Count(live, r) \in Nat /\ Count(live, r) <= MaxCount
                          /\ (r \in DOMAIN live => Count(live, r) \in 1 .. MaxCount)
    BY <2>1, CountFacts, PartialFacts, IndexNumbers DEF Snapshot, Count
  <2>3. live' = [r \in DOMAIN live \cup {s} |-> Count(live, r) + (IF r = s THEN 1 ELSE 0)] /\ Count(live, s) < MaxCount
    BY DEF Observe
  <2>4. \A r \in DOMAIN live \cup {s} : Count(live, r) + (IF r = s THEN 1 ELSE 0) \in 1 .. MaxCount
    BY <2>1, <2>2, <2>3, IndexNumbers
  <2>5. live' \in Snapshot
    <3>1. DOMAIN live' \subseteq Series /\ live' \in [DOMAIN live' -> 1 .. MaxCount]
      BY <2>1, <2>3, <2>4
    <3> QED
      BY <3>1, PartialFacts DEF Snapshot
  <2>6. \A r \in Series : Count(live, r) <= Count(live', r)
    <3> TAKE r \in Series
    <3>1. CASE r \in DOMAIN live \cup {s}
      <4>1. Count(live', r) = Count(live, r) + (IF r = s THEN 1 ELSE 0)
        BY <2>3, <3>1 DEF Count
      <4> QED
        BY <2>2, <4>1
    <3>2. CASE r \notin DOMAIN live \cup {s}
      <4>1. Count(live', r) = 0 /\ Count(live, r) = 0
        BY <2>3, <3>2 DEF Count
      <4> QED
        BY <4>1
    <3> QED
      BY <3>1, <3>2
  <2> QED
    BY <2>5, <2>6 DEF Grows
<1>2. /\ UNCHANGED <<up, boot, days, sampler, file, writer, poisoned, unended, index, worker>>
      /\ UNCHANGED <<taken, saved, floor, spans, healed>>
  BY DEF Observe, History
<1>3. IndexTypeOK' /\ InOrder'
  BY <1>1, <1>2 DEF IndexTypeOK, InOrder, Numbers, Points
<1>4. SamplerStands'
  <2>1. \A a \in Snapshot : Grows(a, live) => Grows(a, live')
    BY <1>1, GrowsFacts DEF IndexTypeOK
  <2>2. \A i \in Numbers : taken[i].state \in Snapshot
    BY IndexTypes
  <2>3. sampler.at = "rendered" => sampler.snapshot \in Snapshot
    BY DEF IndexTypeOK, Idle
  <2>4. Sampled(boot)' = Sampled(boot) /\ Sampled(boot) \subseteq Numbers /\ Numbers' = Numbers
    BY <1>2 DEF Sampled, Numbers
  <2>5. up /\ \A i \in Sampled(boot) : Grows(taken[i].state, live')
    BY <2>1, <2>2, <2>4 DEF SamplerStands, Observe
  <2>6. sampler.at = "rendered" => Grows(sampler.snapshot, live')
    BY <2>1, <2>3 DEF SamplerStands
  <2> QED
    BY <1>2, <2>4, <2>5, <2>6 DEF SamplerStands
<1> QED
  BY <1>2, <1>3, <1>4, FileInvKept, PointsInvKept, GapsKnownKept, RememberedKept

\* The sampler takes a snapshot.
LEMMA InvRender ==
  ASSUME IndexInv, Render
  PROVE  IndexInv'
<1> USE DEF IndexInv
<1>1. /\ UNCHANGED <<up, boot, live, days, file, writer, poisoned, unended, index, worker>>
      /\ UNCHANGED <<taken, saved, floor, spans, healed>>
      /\ up /\ sampler' = [at |-> "rendered", snapshot |-> live] /\ Len(taken) < Samples
      /\ sampler.at = "idle"
  BY DEF Render, History, Idle
<1>2. IndexTypeOK' /\ InOrder'
  BY <1>1 DEF IndexTypeOK, InOrder, Numbers, Points
<1>3. SamplerStands'
  <2>1. Grows(live, live)
    BY GrowsFacts DEF IndexTypeOK
  <2>2. Sampled(boot)' = Sampled(boot) /\ Numbers' = Numbers
    BY <1>1 DEF Sampled, Numbers
  <2> QED
    BY <1>1, <2>1, <2>2 DEF SamplerStands
<1> QED
  BY <1>1, <1>2, <1>3, FileInvKept, PointsInvKept, GapsKnownKept, RememberedKept

\* The worker sets out, or gives up.
LEMMA InvWorker ==
  ASSUME IndexInv, StartWorker \/ GiveUp
  PROVE  IndexInv'
<1> USE DEF IndexInv
<1>1. /\ UNCHANGED <<up, boot, live, days, sampler, file, writer, poisoned, unended, index>>
      /\ UNCHANGED <<taken, saved, floor, spans, healed>>
      /\ worker' \in {Idle} \cup [at : {"started"}, revision : Nat]
      /\ worker'.at # "replaced"
      /\ up
  <2>1. index.revision \in Nat
    BY DEF IndexTypeOK, Index
  <2>2. CASE StartWorker
    BY <2>1, <2>2 DEF StartWorker, History
  <2>3. CASE GiveUp
    BY <2>3 DEF GiveUp, History, Idle, SamplerStands
  <2> QED
    BY <2>2, <2>3
<1>2. IndexTypeOK' /\ InOrder'
  BY <1>1 DEF IndexTypeOK, InOrder, Numbers, Points
<1>3. SamplerStands'
  BY <1>1 DEF SamplerStands, Sampled, Numbers
<1> QED
  BY <1>1, <1>2, <1>3, FileInvKept, PointsInvKept, GapsKnownKept, RememberedKept

\* When retention takes more, and the samples in the file stay, the file is as well kept.
LEMMA FileInvGrown ==
  ASSUME IndexTypeOK, FileInv, file'.records = file.records, file'.began = file.began, Reported',
         UNCHANGED <<saved, spans, boot>>, up' => up,
         floor' \in 0 .. MaxTime, floor <= floor',
         taken' \in Seq(Record), saved <= Len(taken'),
         \A i \in 1 .. saved : taken'[i] = taken[i]
  PROVE  FileInv'
<1>0. /\ Numbers = 1 .. Len(taken) /\ floor \in Nat /\ floor' \in Nat /\ saved \in Nat
      /\ saved <= Len(taken) /\ Len(taken) \in Nat /\ Len(taken') \in Nat
      /\ DOMAIN taken' = 1 .. Len(taken') /\ DOMAIN taken = 1 .. Len(taken)
  BY IndexTypes
<1>1. \A i \in DOMAIN file.records : /\ i \in 1 .. saved /\ taken'[i] = taken[i]
                                     /\ file.records[i].t \in Nat
  BY <1>0, IndexTypes, IndexNumbers
<1>2. Filed'
  BY <1>1 DEF FileInv, Filed
<1>3. Repeats'
  BY DEF FileInv, Repeats, Of
<1>4. Preceded'
  <2> SUFFICES ASSUME NEW i \in DOMAIN file.records, file.records[i].t >= floor',
                      NEW k \in Sampled(file.records[i].boot)', k < i
               PROVE  \E j \in Of(file, file.records[i].boot) :
                        j < i /\ Grows(taken'[k].state, file.records[j].state)
    BY DEF Preceded, Of
  <2>1. file.records[i].t >= floor
    BY <1>0, <1>1
  <2>2. k \in 1 .. saved /\ taken'[k] = taken[k] /\ taken'[k].boot = file.records[i].boot
    BY <1>0, <1>1 DEF Sampled
  <2>3. k \in Sampled(file.records[i].boot)
    BY <1>0, <2>2 DEF Sampled
  <2> QED
    BY <2>1, <2>2, <2>3 DEF FileInv, Preceded
<1>5. Lost'
  <2> SUFFICES ASSUME NEW k \in 1 .. saved \ DOMAIN file.records
               PROVE  taken'[k].t < floor' \/ \E span \in spans : Covers(span, taken'[k].t) /\ span.to <= floor'
    BY DEF Lost
  <2>1. taken'[k] = taken[k] /\ taken[k].t \in Nat
    BY <1>0, IndexTypes, IndexNumbers
  <2>2. \A span \in spans : span.to \in Nat
    BY IndexNumbers DEF IndexTypeOK, Gap
  <2>3. taken[k].t < floor => taken'[k].t < floor'
    BY <1>0, <2>1
  <2>4. \A span \in spans : span.to <= floor => span.to <= floor'
    BY <1>0, <2>2
  <2> QED
    BY <2>1, <2>3, <2>4 DEF FileInv, Lost
<1> QED
  BY <1>2, <1>3, <1>4, <1>5 DEF FileInv

\* What retention has removed only grows.
LEMMA CutoffFacts ==
  ASSUME NEW t \in Time, NEW d \in Retention, floor \in 0 .. MaxTime
  PROVE  /\ Cutoff(t, d) \in 0 .. MaxTime
         /\ Larger(floor, Cutoff(t, d)) \in 0 .. MaxTime
         /\ floor <= Larger(floor, Cutoff(t, d)) /\ Cutoff(t, d) <= Larger(floor, Cutoff(t, d))
<1>1. d \in Nat /\ t \in Nat /\ t <= MaxTime /\ MaxTime \in Nat
  BY IndexNumbers, HistoryIndexAssumption DEF HistoryIndexAssumption
<1>2. Cutoff(t, d) \in 0 .. MaxTime
  BY <1>1 DEF Cutoff, MonusDays, Larger
<1> QED
  BY <1>1, <1>2 DEF Larger

\* The last point is the latest, and a sample is never put before it.
LEMMA StampFacts ==
  ASSUME IndexTypeOK, NEW now \in Time
  PROVE  /\ AvailableTo \in 0 .. MaxTime
         /\ Points # {} => Max(Points) \in Points /\ AvailableTo = index.points[Max(Points)].t
                           /\ \A i \in Points : i <= Max(Points)
         /\ Stamp(now) \in Time
         /\ now <= Stamp(now) /\ AvailableTo <= Stamp(now) /\ writer.at <= Stamp(now)
<1>0. Points \subseteq 0 .. Samples /\ Samples \in Nat /\ MaxTime \in Nat
  BY IndexTypes, IndexNumbers
<1>1. Points # {} => Max(Points) \in Points /\ \A i \in Points : i <= Max(Points)
  BY <1>0, MaxFacts
<1>2. AvailableTo \in 0 .. MaxTime /\ (Points # {} => AvailableTo = index.points[Max(Points)].t)
  <2>1. Points # {} => index.points[Max(Points)].t \in Time
    BY <1>1, IndexTypes
  <2>2. Points # {} => AvailableTo = index.points[Max(Points)].t
    BY DEF AvailableTo
  <2>3. Points = {} => AvailableTo = 0
    BY DEF AvailableTo
  <2>4. \A t \in Time : t \in 0 .. MaxTime
    BY IndexNumbers
  <2>5. 0 \in 0 .. MaxTime
    BY <1>0
  <2> QED
    BY <2>1, <2>2, <2>3, <2>4, <2>5
<1> DEFINE S == {now, AvailableTo, writer.at}
<1>3. S \subseteq 0 .. MaxTime /\ S # {} /\ now \in S /\ AvailableTo \in S /\ writer.at \in S
  BY <1>2, IndexTypes, IndexNumbers
<1>4. Stamp(now) = Max(S)
  BY DEF Stamp
<1> HIDE DEF S
<1>5. Stamp(now) \in S /\ \A x \in S : x <= Stamp(now)
  BY <1>0, <1>3, <1>4, MaxFacts
<1>6. now <= Stamp(now) /\ Stamp(now) \in 0 .. MaxTime /\ now \in Nat /\ now >= 1
  BY <1>3, <1>5, IndexNumbers
<1>7. Stamp(now) \in Time
  BY <1>0, <1>6 DEF Time
<1> QED
  BY <1>1, <1>2, <1>3, <1>5, <1>7

\* The last sample of the boot that runs is the last of all.
LEMMA LastSampled ==
  ASSUME IndexTypeOK, InOrder, SamplerStands, Sampled(boot) # {}
  PROVE  Len(taken) \in Sampled(boot) /\ Max(Sampled(boot)) = Len(taken)
<1>1. PICK k \in Sampled(boot) : TRUE
  OBVIOUS
<1>2. /\ Numbers = 1 .. Len(taken) /\ Len(taken) \in Nat /\ k \in Numbers /\ taken[k].boot = boot
      /\ boot \in Nat /\ \A i \in Numbers : taken[i].boot \in Nat /\ taken[i].boot <= boot
  BY IndexTypes, IndexNumbers DEF Sampled, Numbers, SamplerStands
<1>3. Len(taken) \in Numbers /\ taken[Len(taken)].boot = boot
  BY <1>2 DEF InOrder
<1>4. Len(taken) \in Sampled(boot) /\ Sampled(boot) \subseteq 0 .. Len(taken)
      /\ \A i \in Sampled(boot) : i <= Len(taken)
  BY <1>2, <1>3 DEF Sampled, Numbers
<1> QED
  BY <1>2, <1>4, MaxIs

\* An increment depends on the samples up to its own.
LEMMA IncrementKept ==
  ASSUME taken \in Seq(Record), taken' \in Seq(Record), NEW i \in 1 .. Len(taken), i <= Len(taken'),
         \A j \in 1 .. i : taken'[j] = taken[j], NEW s
  PROVE  Increment(i, s)' = Increment(i, s)
<1>1. Len(taken) \in Nat /\ Len(taken') \in Nat /\ DOMAIN taken = 1 .. Len(taken) /\ DOMAIN taken' = 1 .. Len(taken')
  OBVIOUS
<1>2. taken'[i] = taken[i]
  BY <1>1
<1> DEFINE earlier == {j \in Sampled(taken[i].boot) : j < i}
<1> DEFINE later == {j \in {k \in DOMAIN taken' : taken'[k].boot = taken'[i].boot} : j < i}
<1>3. later = earlier
  BY <1>1, <1>2 DEF Sampled
<1>4. earlier # {} => Max(earlier) \in earlier
  <2>1. earlier \subseteq 0 .. Len(taken)
    BY <1>1 DEF Sampled
  <2> QED
    BY <1>1, <2>1, MaxFacts
<1>5. earlier # {} => taken'[Max(earlier)] = taken[Max(earlier)]
  <2>1. \A j \in earlier : j \in 1 .. i
    BY <1>1 DEF Sampled
  <2> QED
    BY <1>4, <2>1
<1>6. Increment(i, s) = Count(taken[i].state, s) - (IF earlier = {} THEN 0 ELSE Count(taken[Max(earlier)].state, s))
  BY DEF Increment
<1>7. Increment(i, s)' = Count(taken'[i].state, s) - (IF later = {} THEN 0 ELSE Count(taken'[Max(later)].state, s))
  BY DEF Increment, Sampled
<1> HIDE DEF earlier, later
<1> QED
  BY <1>2, <1>3, <1>5, <1>6, <1>7

\* The sampler's snapshot becomes a sample and a point.
LEMMA InvAppendToIndex ==
  ASSUME IndexInv, NEW now \in Time, AppendToIndex(now)
  PROVE  IndexInv'
<1> USE DEF IndexInv
<1>0. PICK n \in Nat : n = Len(taken) + 1
  BY DEF IndexTypeOK
<1> DEFINE t == Stamp(now)
           rec == [t |-> t, boot |-> boot, state |-> sampler.snapshot]
           c == Cutoff(t, days)
           before == IF index.lastBoot = 0 THEN None ELSE [state |-> index.last, boot |-> index.lastBoot]
           pt == PointAfter(before, rec)
<1>1. /\ sampler.at = "rendered" /\ sampler.snapshot \in Snapshot /\ up /\ boot \in 1 .. Boots
      /\ Len(taken) \in Nat /\ n = Len(taken) + 1 /\ n \in 1 .. Samples /\ n \in Nat /\ Samples \in Nat /\ Numbers = 1 .. Len(taken)
      /\ Grows(sampler.snapshot, live) /\ days \in Retention /\ saved <= Len(taken) /\ saved \in Nat
      /\ taken \in Seq(Record) /\ floor \in 0 .. MaxTime
  <2>1. sampler.at = "rendered"
    BY DEF AppendToIndex
  <2>2. sampler.snapshot \in Snapshot /\ up
    BY <2>1 DEF IndexTypeOK, Idle, SamplerStands
  <2>3. boot > 0 /\ Len(taken) < Samples /\ Grows(sampler.snapshot, live)
    BY <2>1, <2>2 DEF SamplerStands
  <2> QED
    BY <1>0, <2>1, <2>2, <2>3, IndexTypes, IndexNumbers DEF IndexTypeOK
<1>2. t \in Time /\ AvailableTo <= t /\ writer.at <= t
  BY StampFacts
<1>3. /\ index' = Indexed(n, rec, c)
      /\ sampler' = [at |-> "indexed", n |-> n, record |-> rec]
      /\ taken' = Append(taken, rec) /\ floor' = Larger(floor, c)
      /\ UNCHANGED <<up, boot, live, days, file, writer, poisoned, unended, worker, saved, spans, healed>>
  BY <1>0 DEF AppendToIndex
<1>4. c \in 0 .. MaxTime /\ floor' \in 0 .. MaxTime /\ floor <= floor' /\ c <= floor'
  BY <1>1, <1>2, <1>3, CutoffFacts
<1>5. rec \in Record /\ rec.t = t /\ rec.boot = boot /\ rec.state = sampler.snapshot
  BY <1>1, <1>2 DEF Record
<1>6. /\ taken' \in Seq(Record) /\ Len(taken') = n /\ DOMAIN taken' = 1 .. n /\ taken'[n] = rec
      /\ \A i \in 1 .. Len(taken) : taken'[i] = taken[i]
  BY <1>1, <1>3, <1>5
<1>7. /\ before = None <=> index.lastBoot = 0
      /\ before # None => before.state = index.last /\ before.boot = index.lastBoot
  <2>1. [state |-> index.last, boot |-> index.lastBoot] # None
    BY DEF None
  <2> QED
    BY <2>1
<1>8. Sampled(boot) # {} => /\ index.lastBoot = boot /\ index.last = taken[Len(taken)].state
                            /\ Len(taken) \in Sampled(boot) /\ Max(Sampled(boot)) = Len(taken)
                            /\ Grows(index.last, sampler.snapshot)
  <2>1. Sampled(boot) # {} => index.lastBoot = boot /\ index.last = taken[Len(taken)].state
    BY <1>1 DEF PointsInv, Pointed
  <2> QED
    BY <1>1, <2>1, LastSampled DEF SamplerStands
<1>9. Sampled(boot) = {} => index.lastBoot # boot
  BY <1>1 DEF PointsInv, Pointed
<1>10. /\ pt \in Point /\ pt.t = t
       /\ \A s \in Series :
            /\ Count(pt.deltas, s) = Count(sampler.snapshot, s)
                 - (IF Sampled(boot) # {} THEN Count(index.last, s) ELSE 0)
            /\ Count(pt.deltas, s) \in 0 .. Count(sampler.snapshot, s)
  <2>1. index.last \in Snapshot
    BY IndexTypes
  <2>2. before # None => before.state \in Snapshot /\ (before.boot = rec.boot => Grows(before.state, rec.state))
    BY <1>5, <1>7, <1>8, <1>9, <2>1
  <2>3. (before # None /\ before.boot = rec.boot) <=> Sampled(boot) # {}
    BY <1>1, <1>5, <1>7, <1>8, <1>9
  <2>4. before # None => before.state = index.last
    BY <1>7
  <2> HIDE DEF before, rec
  <2>5. /\ pt \in Point /\ pt.t = rec.t
        /\ \A s \in Series :
            /\ Count(pt.deltas, s) = Count(rec.state, s)
                 - (IF before # None /\ before.boot = rec.boot THEN Count(before.state, s) ELSE 0)
            /\ Count(pt.deltas, s) \in 0 .. Count(rec.state, s)
    BY <1>1, <1>2, <1>5, <2>2, PointFacts
  <2> QED
    BY <1>5, <2>3, <2>4, <2>5
<1> HIDE DEF before
<1>11. /\ index'.points = With(Pruned(index.points, c), n, pt)
       /\ index'.last = sampler.snapshot /\ index'.lastBoot = boot /\ index'.gaps = index.gaps
       /\ index'.events = With(index.events, n, [t |-> t, full |-> TRUE])
       /\ index'.revision = index.revision + 1
       /\ index' = [points |-> index'.points, revision |-> index'.revision, last |-> index'.last,
                    lastBoot |-> index'.lastBoot, gaps |-> index'.gaps, events |-> index'.events]
  BY <1>3, <1>5 DEF Indexed, before, IndexTypeOK, Index
<1> HIDE DEF pt, rec, t, c
<1>12. /\ Pruned(index.points, c) \in Partial(1 .. Samples, Point)
       /\ DOMAIN Pruned(index.points, c) = {i \in Points : index.points[i].t >= c}
       /\ \A i \in DOMAIN Pruned(index.points, c) : Pruned(index.points, c)[i] = index.points[i]
  <2>1. index.points \in Partial(1 .. Samples, Point)
    BY IndexTypes
  <2>2. Pruned(index.points, c) \in Partial(1 .. Samples, Point)
    BY <2>1, PrunedTyped
  <2>3. /\ \A i : i \in DOMAIN Pruned(index.points, c) <=> i \in Points /\ index.points[i].t >= c
        /\ \A i \in DOMAIN Pruned(index.points, c) : Pruned(index.points, c)[i] = index.points[i]
    BY PrunedFacts DEF Points
  <2> QED
    BY <2>2, <2>3
<1>13. /\ index'.points \in Partial(1 .. Samples, Point)
       /\ Points' = {i \in Points : index.points[i].t >= c} \cup {n}
       /\ index'.points[n] = pt
       /\ \A i \in Points' : i # n => i \in Points /\ index'.points[i] = index.points[i]
  <2> DEFINE old == Pruned(index.points, c)
  <2>1. old \in Partial(1 .. Samples, Point) /\ n \in 1 .. Samples /\ pt \in Point
    BY <1>1, <1>10, <1>12
  <2>2. index'.points = With(old, n, pt) /\ Points' = DOMAIN With(old, n, pt)
    BY <1>11 DEF Points
  <2>3. DOMAIN old = {i \in Points : index.points[i].t >= c} /\ \A i \in DOMAIN old : old[i] = index.points[i]
    BY <1>12
  <2> HIDE DEF old
  <2>4. With(old, n, pt) \in Partial(1 .. Samples, Point)
    BY <2>1, PartialWith
  <2>5. /\ DOMAIN With(old, n, pt) = DOMAIN old \cup {n} /\ With(old, n, pt)[n] = pt
        /\ \A j \in DOMAIN old : j # n => With(old, n, pt)[j] = old[j]
    BY DEF With
  <2> QED
    BY <2>2, <2>3, <2>4, <2>5
<1>14. Points \subseteq Numbers /\ Points' \subseteq 1 .. n /\ (\A i \in Points : i < n /\ i # n)
       /\ \A i \in Points' : i # n => i \in 1 .. Len(taken) /\ taken'[i] = taken[i]
  BY <1>1, <1>6, <1>13, IndexTypes
<1>15. IndexTypeOK'
  <2>1. index' \in Index
    <3>1. index'.events \in Partial(1 .. Samples, Event)
      <4> DEFINE e == [t |-> t, full |-> TRUE]
      <4>1. index.events \in Partial(1 .. Samples, Event) /\ e \in Event /\ n \in 1 .. Samples
        BY <1>1, <1>2 DEF IndexTypeOK, Index, Event
      <4>2. index'.events = With(index.events, n, e)
        BY <1>11
      <4> HIDE DEF e
      <4> QED
        BY <4>1, <4>2, PartialWith
    <3>2. index'.revision \in Nat /\ index'.last \in Snapshot /\ index'.lastBoot \in 0 .. Boots /\ index'.gaps \in SUBSET Gap
      BY <1>1, <1>11 DEF IndexTypeOK, Index
    <3> QED
      BY <1>11, <1>13, <3>1, <3>2 DEF Index
  <2>2. sampler' \in [at : {"indexed"}, n : {Len(taken')}, record : Record]
    BY <1>3, <1>5, <1>6
  <2>3. Points' \subseteq DOMAIN taken' /\ index'.lastBoot <= boot /\ saved \in 0 .. Len(taken') /\ Len(taken') <= Samples
    BY <1>1, <1>6, <1>11, <1>14
  <2> QED
    BY <1>1, <1>3, <1>4, <1>6, <2>1, <2>2, <2>3 DEF IndexTypeOK
<1>16. InOrder'
  <2> SUFFICES ASSUME NEW i \in 1 .. n, NEW j \in 1 .. n, i < j
               PROVE  /\ taken'[i].boot <= taken'[j].boot
                      /\ taken'[i].boot = taken'[j].boot => Grows(taken'[i].state, taken'[j].state)
    BY <1>6 DEF InOrder, Numbers
  <2>1. i \in 1 .. Len(taken) /\ i \in Numbers /\ taken'[i] = taken[i]
    BY <1>1, <1>6
  <2>2. CASE j = n
    <3>1. taken'[j].boot = boot /\ taken'[j].state = sampler.snapshot
      BY <1>5, <1>6, <2>2
    <3>2. taken[i].boot <= boot /\ (taken[i].boot = boot => Grows(taken[i].state, sampler.snapshot))
      BY <1>1, <2>1 DEF SamplerStands, Sampled, Numbers
    <3> QED
      BY <2>1, <3>1, <3>2
  <2>3. CASE j # n
    <3>1. j \in 1 .. Len(taken) /\ j \in Numbers /\ taken'[j] = taken[j]
      BY <1>1, <1>6, <2>3
    <3> QED
      BY <2>1, <3>1, Zenon DEF InOrder
  <2> QED
    BY <2>2, <2>3
<1>17. Sampled(boot)' = Sampled(boot) \cup {n}
  BY <1>1, <1>3, <1>5, <1>6 DEF Sampled, Numbers
<1>18. SamplerStands'
  <2>1. \A i \in Numbers' : taken'[i].boot <= boot /\ (i > saved => taken'[i].boot = boot)
    <3> SUFFICES ASSUME NEW i \in 1 .. n
                 PROVE  taken'[i].boot <= boot /\ (i > saved => taken'[i].boot = boot)
      BY <1>6 DEF Numbers
    <3>1. CASE i = n
      <4>1. taken'[i].boot = boot
        BY <1>5, <1>6, <3>1
      <4> QED
        BY <1>1, <4>1
    <3>2. CASE i # n
      <4>1. i \in Numbers /\ taken'[i] = taken[i]
        BY <1>1, <1>6, <3>2
      <4> QED
        BY <4>1 DEF SamplerStands
    <3> QED
      BY <3>1, <3>2
  <2>2. \A i \in Sampled(boot)' : Grows(taken'[i].state, live)
    BY <1>1, <1>5, <1>6, <1>17 DEF SamplerStands, Sampled, Numbers
  <2>3. ~poisoned => Len(taken') = saved + 1
    BY <1>1, <1>6 DEF SamplerStands
  <2>4. sampler'.at = "indexed" /\ sampler'.record = rec
    BY <1>3
  <2>5. Len(taken') > saved /\ boot > 0
    BY <1>1, <1>6
  <2> QED
    BY <1>1, <1>3, <1>5, <1>6, <2>1, <2>2, <2>3, <2>4, <2>5 DEF SamplerStands
<1>19. FileInv'
  <2>1. Reported'
    BY <1>3 DEF FileInv, Reported
  <2> QED
    BY <1>1, <1>3, <1>4, <1>6, <2>1, FileInvGrown
<1>20. Remembered'
  <2>1. \A k \in 1 .. saved : taken'[k] = taken[k]
    BY <1>1, <1>6
  <2>2. \A k \in Sampled(boot)' : k <= saved => k \in Sampled(boot) /\ taken'[k] = taken[k]
    BY <1>1, <1>6, <1>17 DEF Sampled, Numbers
  <2>3. \A k \in Sampled(boot)' : k \in Sampled(boot) \/ k > saved
    BY <1>1, <1>17
  <2>4. sampler'.record.t = t
    BY <1>3, <1>5
  <2> QED
    BY <1>1, <1>2, <1>3, <2>2, <2>3, <2>4 DEF Remembered
<1>21. Pointed'
  <2>1. \A i \in Points' : /\ index'.points[i].t = taken'[i].t
                           /\ taken'[i].t >= floor' => \A s \in Series : Delta(i, s)' = Increment(i, s)'
    <3> TAKE i \in Points'
    <3>1. CASE i # n
      <4>1. i \in Points /\ index'.points[i] = index.points[i] /\ i \in 1 .. Len(taken) /\ taken'[i] = taken[i]
        BY <1>13, <1>14, <3>1
      <4>2. \A s : Increment(i, s)' = Increment(i, s)
        BY <1>1, <1>6, <4>1, IncrementKept
      <4>3. \A s : Delta(i, s)' = Delta(i, s)
        BY <4>1 DEF Delta
      <4>4. index.points[i].t = taken[i].t /\ (taken[i].t >= floor => \A s \in Series : Delta(i, s) = Increment(i, s))
        BY <1>1, <4>1 DEF PointsInv, Pointed
      <4>5. taken[i].t \in Nat /\ floor \in Nat /\ floor' \in Nat
        BY <1>1, <1>4, <4>1, IndexTypes, IndexNumbers, SMTT(25)
      <4> QED
        BY <1>4, <4>1, <4>2, <4>3, <4>4, <4>5
    <3>2. CASE i = n
      <4> DEFINE earlier == {j \in {k \in DOMAIN taken' : taken'[k].boot = taken'[n].boot} : j < n}
      <4>1. earlier = Sampled(boot)
        BY <1>1, <1>5, <1>6 DEF Sampled, Numbers
      <4>2. ASSUME NEW s \in Series PROVE Increment(n, s)' = Count(pt.deltas, s)
        <5>1. Increment(n, s)' = Count(taken'[n].state, s)
                - (IF Sampled(boot) = {} THEN 0 ELSE Count(taken'[Max(Sampled(boot))].state, s))
          <6>1. Increment(n, s)' = Count(taken'[n].state, s)
                  - (IF earlier = {} THEN 0 ELSE Count(taken'[Max(earlier)].state, s))
            BY DEF Increment, Sampled
          <6> HIDE DEF earlier
          <6> QED
            BY <4>1, <6>1
        <5>2. Sampled(boot) # {} => taken'[Max(Sampled(boot))].state = index.last
          BY <1>1, <1>6, <1>8 DEF Sampled, Numbers
        <5> QED
          BY <1>5, <1>6, <1>10, <5>1, <5>2
      <4>3. ASSUME NEW s \in Series PROVE Delta(n, s)' = Count(pt.deltas, s)
        <5>1. Delta(n, s)' = Count(index'.points[n].deltas, s)
          BY DEF Delta
        <5> QED
          BY <1>13, <5>1
      <4>4. index'.points[n].t = taken'[n].t
        BY <1>5, <1>6, <1>10, <1>13
      <4>5. \A s \in Series : Delta(n, s)' = Increment(n, s)'
        BY <4>2, <4>3
      <4> QED
        BY <3>2, <4>4, <4>5
    <3> QED
      BY <3>1, <3>2
  <2>2. ASSUME NEW k \in Numbers' \ Points'
        PROVE  \/ taken'[k].t < floor'
               \/ \E gap \in index'.gaps \cup healed' : Covers(gap, taken'[k].t)
               \/ \E span \in spans' : Covers(span, taken'[k].t) /\ span.to <= floor'
    <3>1. k \in Numbers /\ taken'[k] = taken[k] /\ taken[k].t \in Nat
      BY <1>1, <1>6, <1>13, IndexTypes, IndexNumbers DEF Numbers
    <3>2. floor \in Nat /\ floor' \in Nat /\ c \in Nat
      BY <1>1, <1>4, IndexNumbers
    <3>3. CASE k \in Points
      <4>1. ~ (index.points[k].t >= c) /\ index.points[k].t = taken[k].t
        BY <1>1, <1>13, <3>3 DEF PointsInv, Pointed
      <4> QED
        BY <1>4, <3>1, <3>2, <4>1
    <3>4. CASE k \notin Points
      <4>1. \/ taken[k].t < floor
            \/ \E gap \in index.gaps \cup healed : Covers(gap, taken[k].t)
            \/ \E span \in spans : Covers(span, taken[k].t) /\ span.to <= floor
        BY <1>1, <3>1, <3>4 DEF PointsInv, Pointed
      <4>2. \A span \in spans : span.to <= floor => span.to <= floor'
        BY <1>4, <3>2, IndexNumbers DEF IndexTypeOK, Gap
      <4>3. taken[k].t < floor => taken[k].t < floor'
        BY <1>4, <3>1, <3>2
      <4> QED
        BY <1>3, <1>11, <3>1, <4>1, <4>2, <4>3
    <3> QED
      BY <3>3, <3>4
  <2>3. Sampled(boot)' # {} /\ index'.lastBoot = boot' /\ index'.last = taken'[Len(taken')].state
    BY <1>3, <1>5, <1>6, <1>11, <1>17
  <2> QED
    BY <2>1, <2>2, <2>3 DEF Pointed
<1>22. Apportioned'
  <2> SUFFICES ASSUME NEW i \in Points', NEW s \in Series
               PROVE  /\ 0 <= Delta(i, s)' /\ Delta(i, s)' <= Count(taken'[i].state, s)
                      /\ \A j \in Points' : j < i /\ taken'[j].boot = taken'[i].boot =>
                           Delta(i, s)' <= Count(taken'[i].state, s) - Count(taken'[j].state, s)
    BY DEF Apportioned
  <2>1. CASE i # n
    <3>1. i \in Points /\ index'.points[i] = index.points[i] /\ i \in 1 .. Len(taken) /\ taken'[i] = taken[i]
      BY <1>13, <1>14, <2>1
    <3>2. Delta(i, s)' = Delta(i, s)
      BY <3>1 DEF Delta
    <3>3. \A j \in Points' : j < i => j \in Points /\ taken'[j] = taken[j]
      BY <1>1, <1>13, <1>14, <3>1
    <3> QED
      BY <1>1, <3>1, <3>2, <3>3 DEF PointsInv, Apportioned
  <2>2. CASE i = n
    <3>1. Delta(n, s)' = Count(pt.deltas, s)
      <4>1. Delta(n, s)' = Count(index'.points[n].deltas, s)
        BY DEF Delta
      <4> QED
        BY <1>13, <4>1
    <3>2. taken'[n].state = sampler.snapshot /\ taken'[n].boot = boot
      BY <1>5, <1>6
    <3>3. ASSUME NEW j \in Points', j < n, taken'[j].boot = boot
          PROVE  Count(pt.deltas, s) <= Count(sampler.snapshot, s) - Count(taken'[j].state, s)
      <4>1. j \in Sampled(boot) /\ taken'[j] = taken[j] /\ j \in Numbers /\ j <= Len(taken)
        BY <1>1, <1>14, <3>3 DEF Sampled, Numbers
      <4>2. Grows(taken[j].state, index.last)
        <5>1. CASE j = Len(taken)
          BY <1>8, <4>1, <5>1, IndexTypes, GrowsFacts
        <5>2. CASE j # Len(taken)
          BY <1>1, <1>8, <4>1, <5>2 DEF InOrder, Sampled, Numbers
        <5> QED
          BY <5>1, <5>2
      <4>3. Count(taken[j].state, s) \in Nat /\ Count(index.last, s) \in Nat /\ Count(sampler.snapshot, s) \in Nat
        BY <1>1, <4>1, IndexTypes, CountFacts
      <4> QED
        BY <1>10, <4>1, <4>2, <4>3 DEF Grows
    <3>4. Count(pt.deltas, s) \in 0 .. Count(sampler.snapshot, s) /\ Count(sampler.snapshot, s) \in Nat
      BY <1>1, <1>10, CountFacts
    <3> QED
      BY <2>2, <3>1, <3>2, <3>3, <3>4
  <2> QED
    BY <2>1, <2>2
<1>23. PointsInOrder'
  <2> SUFFICES ASSUME NEW i \in Points', NEW j \in Points', i < j
               PROVE  index'.points[i].t <= index'.points[j].t
    BY DEF PointsInOrder
  <2>1. i # n /\ i \in Points /\ index'.points[i] = index.points[i]
    BY <1>1, <1>13, <1>14
  <2>2. CASE j # n
    BY <1>13, <2>1, <2>2 DEF PointsInv, PointsInOrder
  <2>3. CASE j = n
    <3>1. /\ Max(Points) \in Points /\ AvailableTo = index.points[Max(Points)].t /\ i <= Max(Points)
          /\ AvailableTo \in 0 .. MaxTime
      BY <2>1, StampFacts
    <3>2. i \in Nat /\ Max(Points) \in Nat /\ index.points[i].t \in Nat
      BY <2>1, <3>1, IndexTypes, IndexNumbers, SMTT(25)
    <3>3. index.points[i].t <= AvailableTo
      <4>1. CASE i = Max(Points)
        BY <3>1, <3>2, <4>1
      <4>2. CASE i < Max(Points)
        BY <2>1, <3>1, <4>2 DEF PointsInv, PointsInOrder
      <4> QED
        BY <3>1, <3>2, <4>1, <4>2
    <3>4. index'.points[j].t = t /\ t \in Nat
      BY <1>2, <1>10, <1>13, <2>3, IndexNumbers
    <3> QED
      BY <1>2, <2>1, <3>1, <3>2, <3>3, <3>4
  <2> QED
    BY <2>2, <2>3
<1>24. GapsKnown'
  <2>1. floor \in Nat /\ floor' \in Nat
    BY <1>1, <1>4, IndexNumbers
  <2>2. \A gap \in index.gaps : gap.to \in Nat
    BY IndexNumbers DEF IndexTypeOK, Index, Gap
  <2> QED
    BY <1>1, <1>3, <1>4, <1>11, <2>1, <2>2 DEF GapsKnown
<1> QED
  BY <1>15, <1>16, <1>18, <1>19, <1>20, <1>21, <1>22, <1>23, <1>24 DEF PointsInv

\* A boot ends when the next one begins.
LEMMA NextBeginFacts ==
  ASSUME NEW f \in File, NEW b
  PROVE  /\ NextBegin(f, b) \in 1 .. Forever
         /\ \A c \in DOMAIN f.began : b < c => NextBegin(f, b) <= f.began[c]
         /\ (\A c \in DOMAIN f.began : ~ (b < c)) => NextBegin(f, b) = Forever
         /\ NextBegin(f, b) # Forever => \E c \in DOMAIN f.began : b < c /\ NextBegin(f, b) = f.began[c]
<1> DEFINE later == {d \in DOMAIN f.began : b < d}
           S == {f.began[c] : c \in later} \cup {Forever}
<1>1. \A c \in DOMAIN f.began : f.began[c] \in Time
  <2>1. f.began \in Partial(1 .. Boots, Time)
    BY DEF File
  <2> QED
    BY <2>1, PartialFacts
<1>2. MaxTime \in Nat /\ Forever = MaxTime + 1 /\ \A t \in Time : t \in 1 .. MaxTime
  BY IndexNumbers
<1>3. S \subseteq 1 .. Forever /\ S \subseteq 0 .. Forever /\ Forever \in Nat /\ S # {}
  BY <1>1, <1>2
<1>4. Min(S) \in S /\ \A x \in S : Min(S) <= x
  <2> HIDE DEF S
  <2> QED
    BY <1>3, MinFacts
<1>5. NextBegin(f, b) = Min(S)
  BY DEF NextBegin
<1>6. \A c \in DOMAIN f.began : b < c => f.began[c] \in S
  OBVIOUS
<1>7. (\A c \in DOMAIN f.began : ~ (b < c)) => S = {Forever}
  OBVIOUS
<1>8. \A x \in S : x # Forever => \E c \in DOMAIN f.began : b < c /\ x = f.began[c]
  OBVIOUS
<1> HIDE DEF S
<1> QED
  BY <1>3, <1>4, <1>5, <1>6, <1>7, <1>8

\* What a boot leaves does not depend on what the last one does.
LEMMA GapsSame ==
  ASSUME NEW f \in File, NEW g \in File, NEW last, f.began = g.began,
         \A c \in DOMAIN f.began : ~ (last < c),
         \A c \in DOMAIN f.began : c # last => (Usable(f, c) <=> Usable(g, c)),
         NEW gap, gap.to # Forever
  PROVE  gap \in GapsOf(f) <=> gap \in GapsOf(g)
<1>1. \A b : NextBegin(f, b) = NextBegin(g, b)
  BY DEF NextBegin
<1>2. NextBegin(f, last) = Forever
  BY NextBeginFacts
<1>3. ASSUME gap \in GapsOf(f) PROVE gap \in GapsOf(g)
  <2>1. PICK b \in DOMAIN f.began : ~Usable(f, b) /\ gap = [from |-> f.began[b], to |-> NextBegin(f, b)]
    BY <1>3 DEF GapsOf
  <2>2. b # last
    BY <1>2, <2>1
  <2>3. b \in DOMAIN g.began /\ ~Usable(g, b) /\ gap = [from |-> g.began[b], to |-> NextBegin(g, b)]
    BY <1>1, <2>1, <2>2
  <2> QED
    BY <2>3 DEF GapsOf
<1>4. ASSUME gap \in GapsOf(g) PROVE gap \in GapsOf(f)
  <2>1. PICK b \in DOMAIN g.began : ~Usable(g, b) /\ gap = [from |-> g.began[b], to |-> NextBegin(g, b)]
    BY <1>4 DEF GapsOf
  <2>2. b # last
    BY <1>1, <1>2, <2>1
  <2>3. b \in DOMAIN f.began /\ ~Usable(f, b) /\ gap = [from |-> f.began[b], to |-> NextBegin(f, b)]
    BY <1>1, <2>1, <2>2
  <2> QED
    BY <2>3 DEF GapsOf
<1> QED
  BY <1>3, <1>4

\* A gap that has been reported is over.
LEMMA GapFacts ==
  ASSUME NEW gap \in Gap
  PROVE  gap.from \in Nat /\ gap.to \in Nat /\ gap.to # Forever
BY IndexNumbers DEF Gap

\* When the gaps that are over stay, what is known of them does.
LEMMA GapsStay ==
  ASSUME IndexTypeOK, FileInv, GapsKnown, file' \in File, file'.began = file.began,
         \A c \in DOMAIN file.began : c # boot => (Usable(file, c) <=> Usable(file', c)),
         UNCHANGED <<index, floor, spans, healed>>, up' => up, worker' = worker \/ ~up'
  PROVE  Reported' /\ GapsKnown'
<1>1. file \in File /\ \A c \in DOMAIN file.began : ~ (boot < c)
  BY IndexTypes
<1>2. \A gap : gap.to # Forever => (gap \in GapsOf(file) <=> gap \in GapsOf(file'))
  BY <1>1, GapsSame
<1>3. Reported'
  BY <1>2 DEF FileInv, Reported
<1>4. \A gap \in index.gaps : gap.to # Forever
  BY GapFacts DEF IndexTypeOK, Index
<1>5. GapsKnown'
  BY <1>2, <1>4 DEF GapsKnown
<1> QED
  BY <1>3, <1>5

\* A sample is filed.
LEMMA RecordFiled ==
  ASSUME IndexInv, sampler.at = "indexed", ~poisoned,
         NEW torn \in {file.torn, file.torn \cup {boot}},
         file' = [file EXCEPT !.records = With(@, sampler.n, Written(sampler.record)), !.torn = torn],
         saved' = saved + 1,
         UNCHANGED <<up, boot, index, worker, taken, floor, spans, healed>>
  PROVE  /\ file' \in File /\ DOMAIN file'.records \subseteq 1 .. saved' /\ file'.began = file.began
         /\ file'.torn \subseteq DOMAIN file'.began
         /\ saved' = Len(taken) /\ Len(taken) \in Of(file', boot)
         /\ file'.records[Len(taken)].state = taken[Len(taken)].state
         /\ file'.records[Len(taken)].t = taken[Len(taken)].t
         /\ \A j \in Of(file', boot) : j # Len(taken) => j \in Of(file, boot) /\ file'.records[j] = file.records[j]
         /\ FileInv' /\ GapsKnown'
<1> USE DEF IndexInv
<1> DEFINE n == Len(taken)
           line == Written(taken[n])
<1>1. /\ sampler.n = n /\ sampler.record = taken[n] /\ taken[n].boot = boot /\ up
      /\ saved \in Nat /\ n \in Nat /\ n = saved + 1 /\ n \in Numbers /\ n \in 1 .. Samples /\ boot \in 1 .. Boots
      /\ Numbers = 1 .. n
  <2>1. sampler.n = n
    BY DEF IndexTypeOK, Idle
  <2>2. up /\ sampler.record = taken[n] /\ sampler.record.boot = boot
    BY DEF SamplerStands, Idle
  <2>3. n = saved + 1 /\ boot > 0
    BY <2>2 DEF SamplerStands
  <2> QED
    BY <2>1, <2>2, <2>3, IndexTypes, IndexNumbers
<1>2. /\ line.t = taken[n].t /\ line.boot = boot /\ line.state = taken[n].state
      /\ line.full <=> writer.state # [is |-> taken[n].state]
      /\ line \in Line
  <2>1. taken[n].t \in Time /\ taken[n].state \in Snapshot
    BY <1>1, IndexTypes
  <2>2. line = [t |-> taken[n].t, boot |-> boot, state |-> taken[n].state,
                full |-> writer.state # [is |-> taken[n].state]]
    BY DEF Written
  <2>3. line.t = taken[n].t /\ line.boot = boot /\ line.state = taken[n].state
    BY <2>2
  <2>4. line.full <=> writer.state # [is |-> taken[n].state]
    <3> DEFINE b == writer.state # [is |-> taken[n].state]
    <3>1. line = [t |-> taken[n].t, boot |-> boot, state |-> taken[n].state, full |-> b]
      BY <2>2
    <3>2. line.full = b
      <4> HIDE DEF b
      <4> QED
        BY <3>1
    <3> QED
      BY <3>2
  <2>5. line \in Line
    <3> DEFINE b == writer.state # [is |-> taken[n].state]
    <3>1. b \in BOOLEAN /\ line = [t |-> taken[n].t, boot |-> boot, state |-> taken[n].state, full |-> b]
      BY <2>2
    <3> HIDE DEF b
    <3> QED
      BY <1>1, <2>1, <3>1 DEF Line
  <2> QED
    BY <2>3, <2>4, <2>5
<1> HIDE DEF line
<1>3. /\ file'.records = With(file.records, n, line)
      /\ file'.began = file.began /\ file'.torn = torn
      /\ file' = [records |-> file'.records, began |-> file'.began, torn |-> file'.torn]
  BY <1>1 DEF line, IndexTypeOK, File
<1>4. /\ DOMAIN file'.records = DOMAIN file.records \cup {n} /\ file'.records[n] = line
      /\ \A j \in DOMAIN file.records : j # n => file'.records[j] = file.records[j]
  BY <1>3 DEF With
<1>5. \A i \in DOMAIN file.records : i \in Nat /\ i <= saved /\ i < n /\ i # n /\ file'.records[i] = file.records[i]
  BY <1>1, <1>4, IndexTypes
<1>6. file' \in File /\ DOMAIN file'.records \subseteq 1 .. saved'
  <2>1. file'.records \in Partial(1 .. Samples, Line)
    BY <1>1, <1>2, <1>3, IndexTypes, PartialWith, ZenonT(30)
  <2>2. file'.began \in Partial(1 .. Boots, Time) /\ file'.torn \in SUBSET (1 .. Boots)
    BY <1>1, <1>3 DEF IndexTypeOK, File
  <2>3. DOMAIN file'.records \subseteq 1 .. saved'
    BY <1>1, <1>4 DEF IndexTypeOK
  <2> QED
    BY <1>3, <2>1, <2>2, <2>3 DEF File
<1>7. /\ \A b : b # boot => Of(file', b) = Of(file, b)
      /\ Of(file', boot) = Of(file, boot) \cup {n}
  BY <1>2, <1>4, <1>5 DEF Of
<1>8. /\ \A b : Of(file, b) \subseteq Of(file', b)
      /\ \A b : \A i \in Of(file, b) : i \in DOMAIN file.records /\ file.records[i].boot = b
  BY <1>7 DEF Of
<1>9. /\ boot \in DOMAIN file.began /\ file.began[boot] <= writer.at
      /\ \A j \in Of(file, boot) : file.records[j].t <= writer.at
      /\ writer.at <= taken[n].t
  BY <1>1 DEF FileInv, Filed, Remembered
<1>10. /\ writer.at \in Nat /\ taken[n].t \in Nat /\ \A c \in DOMAIN file.began : file.began[c] \in Nat /\ c <= boot
       /\ boot \in Nat
  BY <1>1, IndexTypes, IndexNumbers
<1>11. file.began[boot] <= taken[n].t
  BY <1>9, <1>10
<1>12. ASSUME NEW i \in DOMAIN file.records
       PROVE  file.records[i].t <= taken[n].t
  <2>1. file.records[i].t \in Nat /\ file.records[i].boot \in Nat
    BY IndexTypes, IndexNumbers
  <2>2. file.records[i].boot = taken[i].boot /\ taken[i].boot <= boot
    BY IndexTypes DEF FileInv, Filed, SamplerStands
  <2>3. CASE file.records[i].boot = boot
    <3>1. file.records[i].t <= writer.at
      BY <1>9, <2>3 DEF Of
    <3> QED
      BY <1>9, <1>10, <2>1, <3>1
  <2>4. CASE file.records[i].boot # boot
    <3>1. file.records[i].boot < boot
      BY <1>10, <2>1, <2>2, <2>4
    <3>2. file.records[i].t <= file.began[boot]
      BY <1>9, <3>1 DEF FileInv, Filed
    <3> QED
      BY <1>9, <1>10, <1>11, <2>1, <3>2
  <2> QED
    BY <2>3, <2>4
<1>13. Filed'
  <2>1. ASSUME NEW i \in DOMAIN file.records
        PROVE  /\ file'.records[i].t = taken[i].t /\ file'.records[i].boot = taken[i].boot
               /\ file'.records[i].state = taken[i].state
               /\ file'.records[i].boot \in DOMAIN file.began
               /\ file.began[file'.records[i].boot] <= file'.records[i].t
               /\ \A c \in DOMAIN file.began : file'.records[i].boot < c => file'.records[i].t <= file.began[c]
               /\ \A j \in DOMAIN file'.records : i < j => file'.records[i].t <= file'.records[j].t
    <3>1. file'.records[i] = file.records[i]
      BY <1>5
    <3>2. \A j \in DOMAIN file'.records : j # n => j \in DOMAIN file.records /\ file'.records[j] = file.records[j]
      BY <1>4
    <3>3. file'.records[i].t <= file'.records[n].t
      BY <1>2, <1>4, <1>12, <3>1
    <3> QED
      BY <3>1, <3>2, <3>3 DEF FileInv, Filed
  <2>2. /\ file'.records[n].t = taken[n].t /\ file'.records[n].boot = taken[n].boot
        /\ file'.records[n].state = taken[n].state
        /\ file'.records[n].boot \in DOMAIN file.began
        /\ file.began[file'.records[n].boot] <= file'.records[n].t
    BY <1>1, <1>2, <1>4, <1>9, <1>11
  <2>3. \A c \in DOMAIN file.began : ~ (file'.records[n].boot < c)
    BY <1>2, <1>4, <1>10, IndexTypes
  <2>4. \A j \in DOMAIN file'.records : ~ (n < j)
    BY <1>1, <1>4, <1>5
  <2>5. (up => boot \in DOMAIN file.began)
    BY <1>9
  <2>6. \A b, c \in DOMAIN file.began : b < c => file.began[b] <= file.began[c]
    BY DEF FileInv, Filed
  <2>7. \A i \in DOMAIN file'.records : i # n => i \in DOMAIN file.records
    BY <1>4
  <2> HIDE DEF n
  <2> QED
    BY <1>3, <2>1, <2>2, <2>3, <2>4, <2>5, <2>6, <2>7, SMTT(25) DEF Filed
<1>14. Repeats'
  <2> SUFFICES ASSUME NEW j \in DOMAIN file'.records
               PROVE  \E f \in Of(file', file'.records[j].boot) :
                        f <= j /\ file'.records[f].full /\ file'.records[f].state = file'.records[j].state
    BY DEF Repeats
  <2>1. ASSUME NEW k \in DOMAIN file.records
        PROVE  \E f \in Of(file', file.records[k].boot) :
                 f <= k /\ file'.records[f].full /\ file'.records[f].state = file.records[k].state
    <3>1. PICK f \in Of(file, file.records[k].boot) :
            f <= k /\ file.records[f].full /\ file.records[f].state = file.records[k].state
      BY DEF FileInv, Repeats
    <3>2. f \in Of(file', file.records[k].boot) /\ file'.records[f] = file.records[f]
      BY <1>5, <1>8
    <3> QED
      BY <3>1, <3>2
  <2>2. CASE j # n
    <3>1. j \in DOMAIN file.records /\ file'.records[j] = file.records[j]
      BY <1>4, <2>2
    <3> QED
      BY <2>1, <3>1
  <2>3. CASE j = n /\ line.full
    <3>1. n \in Of(file', boot) /\ n <= n
      BY <1>1, <1>7
    <3> QED
      BY <1>2, <1>4, <2>3, <3>1
  <2>4. CASE j = n /\ ~line.full
    <3>1. writer.state = [is |-> taken[n].state] /\ writer.state # None
      <4>1. writer.state = [is |-> taken[n].state]
        BY <1>2, <2>4, Zenon
      <4>2. [is |-> taken[n].state] # None
        BY DEF None
      <4> QED
        BY <4>1, <4>2, Zenon
    <3>2. PICK k \in Of(file, boot) : writer.state = [is |-> file.records[k].state]
      BY <1>1, <3>1 DEF Remembered
    <3>3. file.records[k].state = taken[n].state
      BY <3>1, <3>2
    <3>4. k \in DOMAIN file.records /\ file.records[k].boot = boot /\ k < n
      BY <1>5, <1>8
    <3>5. PICK f \in Of(file', boot) : f <= k /\ file'.records[f].full /\ file'.records[f].state = taken[n].state
      BY <2>1, <3>3, <3>4
    <3>6. f <= n
      BY <1>1, <1>5, <1>7, <3>4, <3>5, <1>8
    <3> QED
      BY <1>2, <1>4, <2>4, <3>5, <3>6
  <2> QED
    BY <2>2, <2>3, <2>4
<1>15. Preceded'
  <2> SUFFICES ASSUME NEW i \in DOMAIN file'.records, file'.records[i].t >= floor,
                      NEW k \in Sampled(file'.records[i].boot), k < i
               PROVE  \E j \in Of(file', file'.records[i].boot) :
                        j < i /\ Grows(taken[k].state, file'.records[j].state)
    BY DEF Preceded, Sampled
  <2>1. CASE i # n
    <3>1. i \in DOMAIN file.records /\ file'.records[i] = file.records[i]
      BY <1>4, <2>1
    <3>2. PICK j \in Of(file, file.records[i].boot) : j < i /\ Grows(taken[k].state, file.records[j].state)
      BY <3>1 DEF FileInv, Preceded
    <3>3. file'.records[j] = file.records[j] /\ j \in Of(file', file'.records[i].boot)
      BY <1>5, <1>8, <3>1
    <3> QED
      BY <3>2, <3>3
  <2>2. CASE i = n
    <3>1. k \in Sampled(boot) /\ k <= saved
      <4>1. k \in Sampled(boot) /\ k \in Numbers
        BY <1>2, <1>4, <2>2 DEF Sampled, Numbers
      <4> QED
        BY <1>1, <2>2, <4>1
    <3>2. writer.state # None
      BY <1>1, <3>1 DEF Remembered, Sampled
    <3>3. PICK j \in Of(file, boot) : \A m \in Sampled(boot) : m <= saved => Grows(taken[m].state, file.records[j].state)
      BY <1>1, <3>2 DEF Remembered
    <3>4. j < n /\ file'.records[j] = file.records[j] /\ j \in Of(file', boot)
      BY <1>5, <1>8
    <3>5. file'.records[i].boot = boot
      BY <1>2, <1>4, <2>2
    <3> QED
      BY <2>2, <3>1, <3>3, <3>4, <3>5
  <2> QED
    BY <2>1, <2>2
<1>16. Lost'
  <2>1. 1 .. saved' \ DOMAIN file'.records \subseteq 1 .. saved \ DOMAIN file.records
    BY <1>1, <1>4
  <2> QED
    BY <2>1 DEF FileInv, Lost
<1>17. Reported' /\ GapsKnown'
  <2>1. \A c \in DOMAIN file.began : c # boot => (Usable(file, c) <=> Usable(file', c))
    BY <1>3, <1>7 DEF Usable
  <2> QED
    BY <1>3, <1>6, <2>1, GapsStay
<1>18. /\ saved' = Len(taken) /\ Len(taken) \in Of(file', boot)
       /\ file'.records[Len(taken)].state = taken[Len(taken)].state
       /\ file'.records[Len(taken)].t = taken[Len(taken)].t
  BY <1>1, <1>2, <1>4, <1>7
<1>19. \A j \in Of(file', boot) : j # Len(taken) => j \in Of(file, boot) /\ file'.records[j] = file.records[j]
  BY <1>5, <1>7, <1>8
<1>20. file'.torn \subseteq DOMAIN file'.began
  BY <1>3, <1>9 DEF IndexTypeOK
<1> QED
  BY <1>3, <1>6, <1>13, <1>14, <1>15, <1>16, <1>17, <1>18, <1>19, <1>20 DEF FileInv

\* A sample is written, or the file takes no more.
LEMMA InvAppendToFile ==
  ASSUME IndexInv, AppendToFile
  PROVE  IndexInv'
<1> USE DEF IndexInv
<1>1. /\ sampler.at = "indexed" /\ sampler' = Idle /\ up /\ Idle.at = "idle"
      /\ UNCHANGED <<up, boot, live, days, poisoned, unended, index, worker, taken, floor, spans, healed>>
      /\ UNCHANGED Sampled(boot)
  BY DEF AppendToFile, SamplerStands, Idle, Sampled
<1>2. PointsInv' /\ InOrder'
  BY <1>1, PointsInvKept DEF InOrder, Numbers
<1>3. CASE poisoned
  <2>1. UNCHANGED <<file, writer, saved>>
    BY <1>3 DEF AppendToFile
  <2>2. IndexTypeOK'
    BY <1>1, <2>1 DEF IndexTypeOK, Points
  <2>3. SamplerStands'
    BY <1>1, <1>3, <2>1 DEF SamplerStands, Numbers
  <2>4. FileInv' /\ GapsKnown' /\ Remembered'
    BY <1>1, <2>1, FileInvKept, GapsKnownKept, RememberedKept
  <2> QED
    BY <1>2, <2>2, <2>3, <2>4
<1>4. CASE ~poisoned
  <2> DEFINE n == Len(taken)
  <2>1. /\ file' = [file EXCEPT !.records = With(@, sampler.n, Written(sampler.record))]
        /\ writer' = [state |-> [is |-> sampler.record.state], at |-> sampler.record.t]
        /\ saved' = saved + 1
    BY <1>4 DEF AppendToFile
  <2>2. /\ file' \in File /\ DOMAIN file'.records \subseteq 1 .. saved' /\ file'.began = file.began
        /\ file'.torn \subseteq DOMAIN file'.began /\ saved' = n /\ n \in Of(file', boot)
        /\ file'.records[n].state = taken[n].state /\ file'.records[n].t = taken[n].t
        /\ \A j \in Of(file', boot) : j # n => j \in Of(file, boot) /\ file'.records[j] = file.records[j]
        /\ FileInv' /\ GapsKnown'
    <3>1. file' = [file EXCEPT !.records = With(@, sampler.n, Written(sampler.record)), !.torn = file.torn]
      BY <2>1 DEF IndexTypeOK, File
    <3> QED
      BY <1>1, <1>4, <2>1, <3>1, RecordFiled
  <2>3. /\ sampler.record = taken[n] /\ n \in Numbers /\ Numbers = 1 .. n /\ n \in Nat
        /\ taken[n] \in Record /\ taken[n].t \in Time /\ taken[n].state \in Snapshot
        /\ n <= Samples
    <3>1. sampler.record = taken[n] /\ n > saved
      BY <1>1 DEF SamplerStands
    <3> QED
      BY <3>1, IndexTypes
  <2>4. writer'.state = [is |-> taken[n].state] /\ writer'.at = taken[n].t
    BY <2>1, <2>3
  <2>5. IndexTypeOK'
    <3>1. writer' \in [state : {None} \cup [is : Snapshot], at : 0 .. MaxTime]
      BY <2>1, <2>3, IndexNumbers
    <3>2. saved' \in 0 .. n
      BY <2>2, <2>3
    <3>3. DOMAIN file'.began \subseteq 1 .. boot /\ file'.torn \subseteq DOMAIN file'.began
      BY <2>2 DEF IndexTypeOK
    <3>4. sampler' \in {Idle}
      BY <1>1
    <3> HIDE DEF n
    <3> QED
      BY <1>1, <2>2, <3>1, <3>2, <3>3, <3>4 DEF IndexTypeOK, Points, n
  <2>6. SamplerStands'
    <3>1. \A i \in Numbers : taken[i].boot <= boot /\ ~ (i > saved')
      BY <2>2, <2>3 DEF SamplerStands
    <3>2. Len(taken) = saved' + 0
      BY <2>2, <2>3
    <3> QED
      BY <1>1, <3>1, <3>2 DEF SamplerStands, Numbers
  <2>7. Remembered'
    <3>1. ASSUME NEW k \in Sampled(boot)
          PROVE  Grows(taken[k].state, taken[n].state)
      <4>1. k \in Numbers /\ taken[k].boot = boot /\ taken[n].boot = boot
        BY <1>1, <2>3 DEF Sampled, Numbers, SamplerStands
      <4>2. CASE k = n
        BY <2>3, <4>2, GrowsFacts
      <4>3. CASE k # n
        BY <2>3, <4>1, <4>3 DEF InOrder
      <4> QED
        BY <4>2, <4>3
    <3>2. [is |-> taken[n].state] # None
      BY DEF None
    <3>3. /\ file.began[boot] <= writer.at /\ writer.at <= taken[n].t
          /\ \A j \in Of(file, boot) : file.records[j].t <= writer.at
      BY <1>1, <1>4, <2>3 DEF Remembered
    <3>4. /\ writer.at \in Nat /\ taken[n].t \in Nat /\ file.began[boot] \in Nat
          /\ \A j \in Of(file, boot) : file.records[j].t \in Nat
      <4>1. boot \in DOMAIN file.began
        BY <1>1 DEF FileInv, Filed
      <4> QED
        BY <2>3, <4>1, IndexTypes, IndexNumbers DEF Of
    <3>5. file'.began[boot] <= writer'.at
      BY <2>2, <2>4, <3>3, <3>4
    <3>6. \A j \in Of(file', boot) : file'.records[j].t <= writer'.at
      BY <2>2, <2>4, <3>3, <3>4
    <3>7. Of(file', boot) # {} /\ writer'.state # None
      BY <2>2, <2>4, <3>2
    <3>8. \E j \in Of(file', boot) :
             /\ writer'.state = [is |-> file'.records[j].state]
             /\ \A k \in Sampled(boot) : Grows(taken[k].state, file'.records[j].state)
      BY <2>2, <2>4, <3>1
    <3> QED
      BY <1>1, <3>5, <3>6, <3>7, <3>8 DEF Remembered
  <2> QED
    BY <1>2, <2>2, <2>5, <2>6, <2>7
<1> QED
  BY <1>3, <1>4

LEMMA TornFacts ==
  ASSUME IndexTypeOK, boot \in DOMAIN file.began, file' = [file EXCEPT !.torn = @ \cup {boot}]
  PROVE  /\ file' \in File /\ DOMAIN file'.records \subseteq 1 .. saved
         /\ file'.records = file.records /\ file'.began = file.began
         /\ file'.torn \subseteq DOMAIN file'.began
         /\ \A c : c # boot => (Usable(file, c) <=> Usable(file', c))
<1>1. file \in File
  BY DEF IndexTypeOK
<1>2. /\ file'.records = file.records /\ file'.began = file.began /\ file'.torn = file.torn \cup {boot}
      /\ file' = [records |-> file.records, began |-> file.began, torn |-> file.torn \cup {boot}]
  BY <1>1 DEF File
<1>3. file' \in File /\ DOMAIN file'.records \subseteq 1 .. saved /\ file'.torn \subseteq DOMAIN file'.began
  BY <1>1, <1>2, IndexTypes DEF IndexTypeOK, File
<1> QED
  BY <1>2, <1>3 DEF Usable, Of

\* A bad line in the boot that runs leaves what the file had.
LEMMA BootTorn ==
  ASSUME IndexInv, up, file' = [file EXCEPT !.torn = @ \cup {boot}],
         UNCHANGED <<boot, index, floor, spans, healed, saved>>, up' => up, worker' = worker \/ ~up',
         taken' \in Seq(Record), saved <= Len(taken'), \A i \in 1 .. saved : taken'[i] = taken[i]
  PROVE  /\ file' \in File /\ DOMAIN file'.records \subseteq 1 .. saved
         /\ file'.records = file.records /\ file'.began = file.began
         /\ file'.torn \subseteq DOMAIN file'.began
         /\ FileInv' /\ GapsKnown'
<1> USE DEF IndexInv
<1>1. boot \in DOMAIN file.began
  BY DEF FileInv, Filed
<1>2. /\ file' \in File /\ DOMAIN file'.records \subseteq 1 .. saved
      /\ file'.records = file.records /\ file'.began = file.began
      /\ file'.torn \subseteq DOMAIN file'.began
      /\ \A c : c # boot => (Usable(file, c) <=> Usable(file', c))
  BY <1>1, TornFacts
<1>3. Reported' /\ GapsKnown'
  BY <1>2, GapsStay
<1>4. floor \in 0 .. MaxTime /\ floor <= floor
  BY IndexTypes
<1>5. FileInv'
  BY <1>2, <1>3, <1>4, FileInvGrown
<1> QED
  BY <1>2, <1>3, <1>5

\* An append fails.
LEMMA InvAppendFails ==
  ASSUME IndexInv, AppendFails
  PROVE  IndexInv'
<1> USE DEF IndexInv
<1>1. /\ sampler.at = "indexed" /\ sampler' = Idle /\ up /\ Idle.at = "idle" /\ ~poisoned /\ poisoned' = TRUE
      /\ UNCHANGED <<up, boot, live, days, writer, index, worker, taken, floor, spans, healed>>
      /\ UNCHANGED Sampled(boot)
  BY DEF AppendFails, SamplerStands, Idle, Sampled
<1>2. PointsInv' /\ InOrder'
  BY <1>1, PointsInvKept DEF InOrder, Numbers
<1>3. /\ Len(taken) = saved + 1 /\ Len(taken) \in Nat /\ saved \in Nat /\ taken \in Seq(Record) /\ saved <= Len(taken)
      /\ Numbers = 1 .. Len(taken)
  BY <1>1, IndexTypes DEF SamplerStands
<1>4. /\ file' \in File /\ DOMAIN file'.records \subseteq 1 .. saved' /\ file'.began = file.began
      /\ file'.torn \subseteq DOMAIN file'.began
      /\ FileInv' /\ GapsKnown' /\ saved' \in {saved, saved + 1}
      /\ \A j \in Of(file, boot) : Of(file', boot) # {}
  <2>1. CASE UNCHANGED <<file, saved>>
    <3>1. FileInv' /\ GapsKnown'
      BY <1>1, <2>1, FileInvKept, GapsKnownKept
    <3> QED
      BY <2>1, <3>1 DEF IndexTypeOK
  <2>2. CASE file' = [file EXCEPT !.torn = @ \cup {boot}] /\ UNCHANGED saved
    <3>1. /\ file' \in File /\ DOMAIN file'.records \subseteq 1 .. saved
          /\ file'.records = file.records /\ file'.began = file.began
          /\ file'.torn \subseteq DOMAIN file'.began
          /\ FileInv' /\ GapsKnown'
      BY <1>1, <1>3, <2>2, BootTorn
    <3> QED
      BY <2>2, <3>1 DEF Of
  <2>3. CASE /\ file' = [file EXCEPT !.records = With(@, sampler.n, Written(sampler.record)),
                                     !.torn = IF unended' THEN @ \cup {boot} ELSE @]
             /\ saved' = saved + 1
    <3>1. PICK torn \in {file.torn, file.torn \cup {boot}} :
            file' = [file EXCEPT !.records = With(@, sampler.n, Written(sampler.record)), !.torn = torn]
      BY <2>3
    <3>2. /\ file' \in File /\ DOMAIN file'.records \subseteq 1 .. saved' /\ file'.began = file.began
          /\ file'.torn \subseteq DOMAIN file'.began /\ Len(taken) \in Of(file', boot)
          /\ FileInv' /\ GapsKnown'
      BY <1>1, <2>3, <3>1, RecordFiled
    <3> QED
      BY <2>3, <3>2
  <2> QED
    BY <2>1, <2>2, <2>3 DEF AppendFails
<1>5. IndexTypeOK'
  <2>1. saved' \in 0 .. Len(taken)
    BY <1>3, <1>4
  <2>2. DOMAIN file'.began \subseteq 1 .. boot /\ sampler' \in {Idle}
    BY <1>1, <1>4 DEF IndexTypeOK
  <2>3. unended' \in BOOLEAN
    BY DEF AppendFails, IndexTypeOK
  <2> QED
    BY <1>1, <1>4, <2>1, <2>2, <2>3 DEF IndexTypeOK, Points
<1>6. SamplerStands'
  <2>1. \A i \in Numbers : taken[i].boot <= boot /\ (i > saved' => taken[i].boot = boot)
    BY <1>3, <1>4 DEF SamplerStands
  <2> QED
    BY <1>1, <2>1 DEF SamplerStands, Numbers
<1>7. Remembered'
  BY <1>1, <1>4 DEF Remembered
<1> QED
  BY <1>2, <1>4, <1>5, <1>6, <1>7

\* The program ends, or is ended.
LEMMA InvCrash ==
  ASSUME IndexInv, Crash
  PROVE  IndexInv'
<1> USE DEF IndexInv
<1>1. /\ up /\ ~up' /\ live' = Unsampled /\ sampler' = Idle /\ worker' = Idle /\ index' = EmptyIndex
      /\ writer' = NewWriter(0) /\ poisoned' = FALSE /\ taken' = SubSeq(taken, 1, saved)
      /\ UNCHANGED <<boot, days, unended, saved, floor, spans>> /\ healed' = {}
  BY DEF Crash
<1>2. /\ saved \in Nat /\ saved <= Len(taken) /\ Len(taken) \in Nat /\ Len(taken) <= Samples /\ taken \in Seq(Record)
      /\ Numbers = 1 .. Len(taken)
      /\ floor \in 0 .. MaxTime /\ floor <= floor
  BY IndexTypes, IndexNumbers
<1>3. /\ taken' \in Seq(Record) /\ Len(taken') = saved /\ DOMAIN taken' = 1 .. saved
      /\ \A i \in 1 .. saved : taken'[i] = taken[i]
  BY <1>1, <1>2
<1>4. /\ file' \in File /\ DOMAIN file'.records \subseteq 1 .. saved /\ file'.began = file.began
      /\ file'.torn \subseteq DOMAIN file'.began /\ FileInv'
  <2>1. CASE UNCHANGED file
    <3>1. Reported'
      BY <1>1, <2>1 DEF FileInv, Reported
    <3>2. FileInv'
      BY <1>1, <1>2, <1>3, <2>1, <3>1, FileInvGrown
    <3> QED
      BY <2>1, <3>2 DEF IndexTypeOK
  <2>2. CASE file' = [file EXCEPT !.torn = @ \cup {boot}]
    <3>1. /\ file' \in File /\ DOMAIN file'.records \subseteq 1 .. saved
          /\ file'.records = file.records /\ file'.began = file.began
          /\ file'.torn \subseteq DOMAIN file'.began
          /\ \A c : c # boot => (Usable(file, c) <=> Usable(file', c))
      <4>1. boot \in DOMAIN file.began
        BY <1>1 DEF FileInv, Filed
      <4> QED
        BY <2>2, <4>1, TornFacts
    <3>2. Reported'
      <4>2. \A c \in DOMAIN file.began : ~ (boot < c)
        BY IndexTypes
      <4>3. \A gap : gap.to # Forever => (gap \in GapsOf(file) <=> gap \in GapsOf(file'))
        BY <3>1, <4>2, GapsSame DEF IndexTypeOK
      <4> QED
        BY <1>1, <4>3 DEF FileInv, Reported
    <3> QED
      BY <1>1, <1>2, <1>3, <3>1, <3>2, FileInvGrown
  <2> QED
    BY <2>1, <2>2 DEF Crash
<1>5. IndexTypeOK'
  <2>1. index' \in Index /\ Points' = {} /\ index'.lastBoot = 0
    BY <1>1, PartialEmpty, UnsampledFacts, IndexNumbers DEF EmptyIndex, Index, Points
  <2>2. writer' \in [state : {None} \cup [is : Snapshot], at : 0 .. MaxTime]
    BY <1>1, IndexNumbers DEF NewWriter
  <2>3. live' \in Snapshot /\ sampler' \in {Idle} /\ worker' \in {Idle}
    BY <1>1, UnsampledFacts
  <2>4. saved \in 0 .. Len(taken') /\ Len(taken') <= Samples /\ Points' \subseteq DOMAIN taken' /\ index'.lastBoot <= boot
    <3>1. boot \in Nat /\ Samples \in Nat
      BY IndexTypes, IndexNumbers
    <3> QED
      BY <1>2, <1>3, <2>1, <3>1
  <2>5. DOMAIN file'.began \subseteq 1 .. boot
    BY <1>4 DEF IndexTypeOK
  <2>6. up' \in BOOLEAN /\ poisoned' \in BOOLEAN
    BY <1>1 DEF Crash
  <2> QED
    BY <1>1, <1>3, <1>4, <2>1, <2>2, <2>3, <2>4, <2>5, <2>6 DEF IndexTypeOK
<1>6. InOrder'
  BY <1>2, <1>3 DEF InOrder, Numbers
<1>7. SamplerStands'
  <2>1. \A i \in Numbers' : taken'[i].boot <= boot /\ ~ (i > saved)
    <3> SUFFICES ASSUME NEW i \in 1 .. saved PROVE taken'[i].boot <= boot /\ ~ (i > saved)
      BY <1>3 DEF Numbers
    <3>1. taken'[i] = taken[i] /\ i \in Numbers
      BY <1>2, <1>3
    <3> QED
      BY <1>2, <3>1 DEF SamplerStands
  <2> QED
    BY <1>1, <1>3, <2>1 DEF SamplerStands, Idle
<1>8. Remembered' /\ PointsInv' /\ GapsKnown'
  <2>1. PointsInOrder'
    BY <1>1, PartialEmpty DEF PointsInOrder, Points, EmptyIndex
  <2> QED
    BY <1>1, <2>1 DEF Remembered, PointsInv, Pointed, Apportioned, GapsKnown
<1> QED
  BY <1>4, <1>5, <1>6, <1>7, <1>8

\* The operator chooses another retention.
LEMMA InvReconfigure ==
  ASSUME IndexInv, NEW d \in Retention, NEW now \in Time, Reconfigure(d, now)
  PROVE  IndexInv'
<1> USE DEF IndexInv
<1> DEFINE c == Cutoff(now, d)
           kept == Pruned(index.points, c)
<1>1. /\ up /\ days' = d /\ floor' = Larger(floor, c)
      /\ index' = [index EXCEPT !.points = kept,
                                !.revision = IF kept = index.points THEN @ ELSE @ + 1]
      /\ UNCHANGED << up, boot, live, sampler, file, writer, poisoned, unended, worker, taken, saved >>
      /\ UNCHANGED <<spans, healed>>
  BY DEF Reconfigure
<1>2. c \in 0 .. MaxTime /\ floor' \in 0 .. MaxTime /\ floor \in Nat /\ floor' \in Nat /\ c \in Nat
      /\ floor <= floor' /\ c <= floor'
  BY <1>1, CutoffFacts, IndexTypes, IndexNumbers
<1> HIDE DEF c, kept
<1>3. /\ kept \in Partial(1 .. Samples, Point)
      /\ \A i : i \in DOMAIN kept <=> i \in Points /\ index.points[i].t >= c
      /\ \A i \in DOMAIN kept : kept[i] = index.points[i]
  <2>1. index.points \in Partial(1 .. Samples, Point)
    BY IndexTypes
  <2>2. kept \in Partial(1 .. Samples, Point)
    BY <2>1, PrunedTyped DEF kept
  <2>3. /\ \A i : i \in DOMAIN kept <=> i \in Points /\ index.points[i].t >= c
        /\ \A i \in DOMAIN kept : kept[i] = index.points[i]
    BY PrunedFacts DEF Points, kept
  <2> QED
    BY <2>2, <2>3
<1>4. /\ index'.points = kept /\ index'.last = index.last /\ index'.lastBoot = index.lastBoot
      /\ index'.gaps = index.gaps /\ index'.events = index.events
      /\ index'.revision \in {index.revision, index.revision + 1}
      /\ index' = [points |-> index'.points, revision |-> index'.revision, last |-> index'.last,
                   lastBoot |-> index'.lastBoot, gaps |-> index'.gaps, events |-> index'.events]
  BY <1>1 DEF IndexTypeOK, Index
<1>5. /\ \A i \in Points' : i \in Points /\ index'.points[i] = index.points[i]
      /\ \A i \in Points : i \notin Points' => index.points[i].t < c
  <2>1. \A i \in Points : index.points[i].t \in Nat
    BY IndexTypes, IndexNumbers
  <2> QED
    BY <1>2, <1>3, <1>4, <2>1 DEF Points
<1>6. IndexTypeOK'
  <2>1. index' \in Index
    <3>1. index'.revision \in Nat
      BY <1>4 DEF IndexTypeOK, Index
    <3> QED
      BY <1>3, <1>4, <3>1 DEF IndexTypeOK, Index
  <2> QED
    BY <1>1, <1>2, <1>4, <1>5, <2>1 DEF IndexTypeOK
<1>7. InOrder' /\ SamplerStands' /\ Sampled(boot)' = Sampled(boot) /\ Numbers' = Numbers
  BY <1>1 DEF InOrder, SamplerStands, Numbers, Sampled
<1>8. FileInv'
  <2>1. Reported'
    BY <1>1 DEF FileInv, Reported
  <2>2. taken' \in Seq(Record) /\ saved <= Len(taken') /\ \A i \in 1 .. saved : taken'[i] = taken[i]
    BY <1>1, IndexTypes
  <2> QED
    BY <1>1, <1>2, <2>1, <2>2, FileInvGrown
<1>9. Remembered'
  BY <1>1, RememberedKept
<1>10. \A i \in Points' : \A s : Delta(i, s)' = Delta(i, s) /\ Increment(i, s)' = Increment(i, s)
  <2> SUFFICES ASSUME NEW i \in Points', NEW s
               PROVE  Delta(i, s)' = Delta(i, s) /\ Increment(i, s)' = Increment(i, s)
    OBVIOUS
  <2>1. Delta(i, s)' = Delta(i, s)
    BY <1>5 DEF Delta
  <2>2. Increment(i, s)' = Increment(i, s)
    BY <1>1 DEF Increment, Sampled
  <2> QED
    BY <2>1, <2>2
<1>11. \A i \in Numbers : taken[i].t \in Nat
  BY IndexTypes, IndexNumbers
<1>12. \A i \in Points : i \in Numbers
  BY IndexTypes
<1>13. Pointed'
  <2>1. \A i \in Points' : /\ index'.points[i].t = taken[i].t
                           /\ taken[i].t >= floor' => \A s \in Series : Delta(i, s)' = Increment(i, s)'
    <3> TAKE i \in Points'
    <3>1. i \in Points /\ index'.points[i] = index.points[i] /\ taken[i].t \in Nat
      BY <1>5, <1>11, <1>12
    <3>2. index.points[i].t = taken[i].t
      BY <1>1, <3>1 DEF PointsInv, Pointed
    <3>3. taken[i].t >= floor' => \A s \in Series : Delta(i, s) = Increment(i, s)
      BY <1>1, <1>2, <3>1 DEF PointsInv, Pointed
    <3> QED
      BY <1>10, <3>1, <3>2, <3>3
  <2>2. ASSUME NEW k \in Numbers \ Points'
        PROVE  \/ taken[k].t < floor'
               \/ \E gap \in index.gaps \cup healed : Covers(gap, taken[k].t)
               \/ \E span \in spans : Covers(span, taken[k].t) /\ span.to <= floor'
    <3>1. taken[k].t \in Nat
      BY <1>11
    <3>2. CASE k \in Points
      <4>1. index.points[k].t < c /\ index.points[k].t = taken[k].t
        BY <1>1, <1>5, <3>2 DEF PointsInv, Pointed
      <4> QED
        BY <1>2, <3>1, <4>1
    <3>3. CASE k \notin Points
      <4>1. \/ taken[k].t < floor
            \/ \E gap \in index.gaps \cup healed : Covers(gap, taken[k].t)
            \/ \E span \in spans : Covers(span, taken[k].t) /\ span.to <= floor
        BY <1>1, <3>3 DEF PointsInv, Pointed
      <4>2. \A span \in spans : span.to <= floor => span.to <= floor'
        BY <1>2, GapFacts DEF IndexTypeOK
      <4>3. taken[k].t < floor => taken[k].t < floor'
        BY <1>2, <3>1
      <4> QED
        BY <4>1, <4>2, <4>3
    <3> QED
      BY <3>2, <3>3
  <2>3. IF Sampled(boot) = {} THEN index.lastBoot # boot
        ELSE index.lastBoot = boot /\ index.last = taken[Len(taken)].state
    BY <1>1 DEF PointsInv, Pointed
  <2> QED
    BY <1>1, <1>4, <1>7, <2>1, <2>2, <2>3 DEF Pointed
<1>14. Apportioned' /\ PointsInOrder'
  <2>1. Apportioned'
    <3> SUFFICES ASSUME NEW i \in Points', NEW s \in Series
                 PROVE  /\ 0 <= Delta(i, s)' /\ Delta(i, s)' <= Count(taken[i].state, s)
                        /\ \A j \in Points' : j < i /\ taken[j].boot = taken[i].boot =>
                             Delta(i, s)' <= Count(taken[i].state, s) - Count(taken[j].state, s)
      BY <1>1 DEF Apportioned
    <3>1. Delta(i, s)' = Delta(i, s) /\ i \in Points
      BY <1>5, <1>10
    <3>2. \A j \in Points' : j \in Points
      BY <1>5
    <3> QED
      BY <1>1, <3>1, <3>2 DEF PointsInv, Apportioned
  <2>2. PointsInOrder'
    BY <1>5 DEF PointsInv, PointsInOrder
  <2> QED
    BY <2>1, <2>2
<1>15. GapsKnown'
  <2>1. \A gap \in index.gaps : gap.to <= floor => gap.to <= floor'
    BY <1>2, GapFacts DEF IndexTypeOK, Index
  <2> QED
    BY <1>1, <1>4, <2>1 DEF GapsKnown
<1> QED
  BY <1>6, <1>7, <1>8, <1>9, <1>13, <1>14, <1>15 DEF PointsInv

\* The worker installs what the new file says.
LEMMA InvInstall ==
  ASSUME IndexInv, Install
  PROVE  IndexInv'
<1> USE DEF IndexInv
<1>1. /\ worker.at = "replaced" /\ worker' = Idle /\ up /\ Idle.at = "idle"
      /\ UNCHANGED <<up, boot, live, days, sampler, file, writer, poisoned, unended, taken, saved, floor>>
      /\ UNCHANGED <<spans, healed>>
      /\ index' = index \/ index' = [index EXCEPT !.gaps = {}, !.events = worker.events, !.revision = @ + 1]
  BY DEF Install, History, Idle, SamplerStands
<1>2. InOrder' /\ SamplerStands' /\ Sampled(boot)' = Sampled(boot) /\ Numbers' = Numbers
  BY <1>1 DEF InOrder, SamplerStands, Numbers, Sampled
<1>3. FileInv' /\ Remembered'
  BY <1>1, FileInvKept, RememberedKept
<1>4. CASE index' = index
  <2>1. IndexTypeOK'
    BY <1>1, <1>4 DEF IndexTypeOK, Points
  <2>2. PointsInv' /\ GapsKnown'
    BY <1>1, <1>4, PointsInvKept, GapsKnownKept
  <2> QED
    BY <1>2, <1>3, <2>1, <2>2
<1>5. CASE index' = [index EXCEPT !.gaps = {}, !.events = worker.events, !.revision = @ + 1]
  <2>1. /\ index'.points = index.points /\ index'.last = index.last /\ index'.lastBoot = index.lastBoot
        /\ index'.gaps = {} /\ index'.events = worker.events
        /\ index'.revision = index.revision + 1
        /\ index' = [points |-> index'.points, revision |-> index'.revision, last |-> index'.last,
                     lastBoot |-> index'.lastBoot, gaps |-> index'.gaps, events |-> index'.events]
    BY <1>5 DEF IndexTypeOK, Index
  <2>2. worker.events \in Partial(1 .. Samples, Event)
    BY <1>1 DEF IndexTypeOK, Idle
  <2>3. IndexTypeOK'
    <3>1. index' \in Index
      BY <2>1, <2>2 DEF IndexTypeOK, Index
    <3>2. worker' \in {Idle} /\ Points' = Points
      BY <1>1, <2>1 DEF Points
    <3> QED
      BY <1>1, <2>1, <3>1, <3>2 DEF IndexTypeOK
  <2>4. Points' = Points /\ \A i, s : Delta(i, s)' = Delta(i, s) /\ Increment(i, s)' = Increment(i, s)
    BY <1>1, <2>1 DEF Points, Delta, Increment, Sampled
  <2>5. \A gap \in index.gaps : gap \in spans /\ (gap.to <= floor \/ gap \in healed)
    BY <1>1 DEF GapsKnown
  <2>6. Pointed'
    <3>1. \A k \in Numbers \ Points :
            \/ taken[k].t < floor
            \/ \E gap \in healed : Covers(gap, taken[k].t)
            \/ \E span \in spans : Covers(span, taken[k].t) /\ span.to <= floor
      BY <1>1, <2>5 DEF PointsInv, Pointed
    <3> QED
      BY <1>1, <1>2, <2>1, <2>4, <3>1 DEF PointsInv, Pointed
  <2>7. Apportioned' /\ PointsInOrder'
    BY <1>1, <2>1, <2>4 DEF PointsInv, Apportioned, PointsInOrder
  <2>8. GapsKnown'
    BY <1>1, <2>1 DEF GapsKnown
  <2> QED
    BY <1>2, <1>3, <2>3, <2>6, <2>7, <2>8 DEF PointsInv
<1> QED
  BY <1>1, <1>4, <1>5

\* A replayed point has what its sample counted since the last one of its boot
\* that the file still has; if it is not too old, since the last one there was.
LEMMA ReplayFacts ==
  ASSUME IndexInv, NEW cutoff, NEW points, points = PointsOf(file, cutoff)
  PROVE  /\ points \in Partial(1 .. Samples, Point)
         /\ \A i : i \in DOMAIN points <=> i \in Readable(file) /\ file.records[i].t >= cutoff
         /\ \A i \in DOMAIN points :
              /\ points[i].t = taken[i].t
              /\ \A s \in Series :
                   /\ Count(points[i].deltas, s) \in 0 .. Count(taken[i].state, s)
                   /\ \A j \in DOMAIN points :
                        j < i /\ taken[j].boot = taken[i].boot =>
                          Count(points[i].deltas, s) <= Count(taken[i].state, s) - Count(taken[j].state, s)
                   /\ taken[i].t >= floor => Count(points[i].deltas, s) = Increment(i, s)
<1> USE DEF IndexInv
<1> DEFINE read == Readable(file)
           last(i) == IF Before(i, read) = {} THEN None ELSE file.records[Max(Before(i, read))]
           visible == {j \in read : file.records[j].t >= cutoff}
<1>1. points = [i \in visible |-> PointAfter(last(i), file.records[i])]
  BY DEF PointsOf
<1>2. /\ \A i \in DOMAIN file.records :
           /\ i \in Numbers /\ i \in 1 .. Samples /\ file.records[i] \in Line /\ file.records[i].t \in Time
           /\ file.records[i].state \in Snapshot /\ file.records[i].boot \in Nat
           /\ file.records[i].t = taken[i].t /\ file.records[i].state = taken[i].state
           /\ file.records[i].boot = taken[i].boot
      /\ Samples \in Nat
  <2>1. Numbers \subseteq 1 .. Samples /\ Samples \in Nat
    BY IndexTypes, IndexNumbers
  <2> QED
    BY <2>1, IndexTypes, IndexNumbers DEF FileInv, Filed
<1>3. \A i : i \in read <=> i \in DOMAIN file.records /\ Usable(file, file.records[i].boot)
  BY DEF Readable
<1>4. /\ DOMAIN points = visible
      /\ \A i : i \in visible <=> i \in read /\ file.records[i].t >= cutoff
      /\ \A i \in visible : points[i] = PointAfter(last(i), file.records[i])
  BY <1>1
<1> HIDE DEF read, visible
<1>5. ASSUME NEW i \in read
      PROVE  /\ Before(i, read) # {} =>
                  /\ Max(Before(i, read)) \in read /\ Max(Before(i, read)) < i
                  /\ \A j \in read : j < i => j <= Max(Before(i, read))
             /\ \A j \in read : j < i => Before(i, read) # {}
  <2>1. Before(i, read) \subseteq 0 .. Samples
    BY <1>2, <1>3 DEF Before
  <2>2. Before(i, read) # {} => Max(Before(i, read)) \in Before(i, read)
                                /\ \A j \in Before(i, read) : j <= Max(Before(i, read))
    BY <1>2, <2>1, MaxFacts
  <2> QED
    BY <2>2 DEF Before
<1>6. ASSUME NEW j \in read, NEW i \in read, j < i, taken[j].boot = taken[i].boot
      PROVE  Grows(file.records[j].state, file.records[i].state)
  BY <1>2, <1>3, <1>6 DEF InOrder
<1>7. ASSUME NEW i \in read, NEW p, p = last(i)
      PROVE  p # None => /\ p.state \in Snapshot
                         /\ p.boot = file.records[i].boot => Grows(p.state, file.records[i].state)
  <2> SUFFICES ASSUME p # None
               PROVE  /\ p.state \in Snapshot
                      /\ p.boot = file.records[i].boot => Grows(p.state, file.records[i].state)
    OBVIOUS
  <2> DEFINE k == Max(Before(i, read))
  <2>1. Before(i, read) # {} /\ p = file.records[k]
    BY <1>7
  <2> HIDE DEF k
  <2>2. k \in read /\ k < i
    BY <1>5, <2>1 DEF k
  <2>3. p.boot = file.records[i].boot => taken[k].boot = taken[i].boot
    BY <1>2, <1>3, <2>1, <2>2
  <2> QED
    BY <1>2, <1>3, <1>6, <2>1, <2>2, <2>3
<1>8. ASSUME NEW i \in visible
      PROVE  LET same == last(i) # None /\ last(i).boot = file.records[i].boot IN
             /\ points[i] \in Point /\ points[i].t = taken[i].t
             /\ \A s \in Series :
                  /\ Count(points[i].deltas, s) \in 0 .. Count(taken[i].state, s)
                  /\ Count(points[i].deltas, s) = Count(taken[i].state, s) - (IF same THEN Count(last(i).state, s) ELSE 0)
  <2> DEFINE r == file.records[i]
  <2>1. i \in read /\ i \in DOMAIN file.records /\ r.t \in Time /\ r.state \in Snapshot
        /\ r.t = taken[i].t /\ r.state = taken[i].state
    BY <1>2, <1>3, <1>4
  <2>2. PICK p : p = last(i)
    OBVIOUS
  <2>3. p # None => p.state \in Snapshot /\ (p.boot = r.boot => Grows(p.state, r.state))
    BY <1>7, <2>1, <2>2
  <2>4. points[i] = PointAfter(p, r)
    BY <1>4, <2>2
  <2> HIDE DEF r, last
  <2>5. /\ PointAfter(p, r) \in Point /\ PointAfter(p, r).t = r.t
        /\ \A s \in Series :
             /\ Count(PointAfter(p, r).deltas, s) =
                  Count(r.state, s) - (IF p # None /\ p.boot = r.boot THEN Count(p.state, s) ELSE 0)
             /\ Count(PointAfter(p, r).deltas, s) \in 0 .. Count(r.state, s)
    BY <2>1, <2>3, PointFacts
  <2> QED
    BY <2>1, <2>2, <2>4, <2>5 DEF r
<1>9. points \in Partial(1 .. Samples, Point)
  <2>1. visible \subseteq 1 .. Samples /\ points \in [visible -> Point]
    BY <1>1, <1>2, <1>3, <1>4, <1>8
  <2> QED
    BY <1>4, <2>1, PartialFacts
<1>10. ASSUME NEW i \in visible, NEW j \in read, j < i, taken[j].boot = taken[i].boot
       PROVE  \E p \in read : /\ j <= p /\ p < i /\ last(i) # None /\ last(i).boot = file.records[i].boot
                              /\ last(i).state = taken[p].state /\ taken[p].boot = taken[i].boot
                              /\ Grows(taken[j].state, taken[p].state)
  <2>1. i \in read
    BY <1>4
  <2>2. Before(i, read) # {}
    BY <1>5, <1>10, <2>1
  <2>3. PICK p : p = Max(Before(i, read))
    OBVIOUS
  <2>4. p \in read /\ p < i /\ j <= p
    BY <1>5, <1>10, <2>1, <2>2, <2>3
  <2>5. /\ j \in Numbers /\ i \in Numbers /\ p \in Numbers /\ j \in Nat /\ p \in Nat /\ i \in Nat
        /\ taken[p].boot \in Nat /\ taken[i].boot \in Nat
        /\ taken[j].state \in Snapshot
    BY <1>2, <1>3, <2>1, <2>4, IndexTypes
  <2>6. taken[p].boot = taken[i].boot /\ Grows(taken[j].state, taken[p].state)
    <3>1. CASE j = p
      BY <1>10, <2>5, <3>1, GrowsFacts
    <3>2. CASE j < p
      <4>1. taken[j].boot <= taken[p].boot /\ taken[p].boot <= taken[i].boot
        BY <2>4, <2>5, <3>2 DEF InOrder
      <4>2. taken[p].boot = taken[i].boot
        BY <1>10, <2>5, <4>1
      <4> QED
        BY <1>10, <2>5, <3>2, <4>2 DEF InOrder
    <3> QED
      BY <2>4, <2>5, <3>1, <3>2
  <2>7. last(i) = file.records[p]
    BY <2>2, <2>3
  <2>8. file.records[p] # None
    <3>1. file.records[p] \in Line
      BY <1>2, <1>3, <2>4
    <3> QED
      BY <3>1 DEF Line, None
  <2>9. file.records[p].boot = file.records[i].boot /\ file.records[p].state = taken[p].state
    BY <1>2, <1>3, <2>1, <2>4, <2>6
  <2> HIDE DEF last
  <2> QED
    BY <2>4, <2>6, <2>7, <2>8, <2>9
<1>11. ASSUME NEW i \in visible, last(i) # None, last(i).boot = file.records[i].boot
       PROVE  \E p \in read : p < i /\ taken[p].boot = taken[i].boot
  <2>1. i \in read /\ Before(i, read) # {} /\ last(i) = file.records[Max(Before(i, read))]
    BY <1>4, <1>11
  <2>2. PICK p : p = Max(Before(i, read))
    OBVIOUS
  <2>3. p \in read /\ p < i /\ file.records[p].boot = file.records[i].boot
    BY <1>5, <1>11, <2>1, <2>2
  <2> QED
    BY <1>2, <1>3, <2>1, <2>3
<1> HIDE DEF last
<1>12. ASSUME NEW i \in visible, NEW s \in Series
       PROVE  /\ \A j \in visible :
                   j < i /\ taken[j].boot = taken[i].boot =>
                     Count(points[i].deltas, s) <= Count(taken[i].state, s) - Count(taken[j].state, s)
              /\ taken[i].t >= floor => Count(points[i].deltas, s) = Increment(i, s)
  <2>0. i \in read /\ i \in Numbers /\ taken[i].state \in Snapshot /\ i \in Nat
    BY <1>2, <1>3, <1>4, IndexTypes
  <2>1. ASSUME NEW j \in visible, j < i, taken[j].boot = taken[i].boot
        PROVE  Count(points[i].deltas, s) <= Count(taken[i].state, s) - Count(taken[j].state, s)
    <3>1. j \in read /\ taken[j].state \in Snapshot
      BY <1>2, <1>3, <1>4, IndexTypes
    <3>2. PICK p \in read : /\ last(i) # None /\ last(i).boot = file.records[i].boot
                            /\ last(i).state = taken[p].state /\ Grows(taken[j].state, taken[p].state)
      BY <1>10, <2>1, <3>1
    <3>3. Count(points[i].deltas, s) = Count(taken[i].state, s) - Count(taken[p].state, s)
      BY <1>8, <3>2
    <3>4. taken[p].state \in Snapshot
      BY <1>2, <1>3, IndexTypes
    <3>5. Count(taken[j].state, s) <= Count(taken[p].state, s) /\ Count(taken[j].state, s) \in Nat
          /\ Count(taken[p].state, s) \in Nat /\ Count(taken[i].state, s) \in Nat
      BY <2>0, <3>1, <3>2, <3>4, CountFacts DEF Grows
    <3> QED
      BY <3>3, <3>5
  <2>2. ASSUME taken[i].t >= floor PROVE Count(points[i].deltas, s) = Increment(i, s)
    <3> DEFINE earlier == {j \in Sampled(taken[i].boot) : j < i}
    <3>1. Increment(i, s) = Count(taken[i].state, s)
            - (IF earlier = {} THEN 0 ELSE Count(taken[Max(earlier)].state, s))
      BY DEF Increment
    <3>2. \A j : j \in earlier <=> j \in Numbers /\ taken[j].boot = taken[i].boot /\ j < i
      BY DEF Sampled, Numbers
    <3>3. earlier \subseteq 0 .. Samples
      BY <3>2, <1>2, IndexTypes
    <3>4. earlier # {} => Max(earlier) \in earlier /\ \A j \in earlier : j <= Max(earlier)
      <4> HIDE DEF earlier
      <4> QED
        BY <1>2, <3>3, MaxFacts
    <3> HIDE DEF earlier
    <3>5. CASE earlier = {}
      <4>1. ~ (last(i) # None /\ last(i).boot = file.records[i].boot)
        BY <1>2, <1>3, <1>11, <3>2, <3>5
      <4> QED
        BY <1>8, <3>1, <3>5, <4>1
    <3>6. CASE earlier # {}
      <4>1. PICK q : q = Max(earlier)
        OBVIOUS
      <4>2. q \in earlier /\ q \in Numbers /\ taken[q].boot = taken[i].boot /\ q < i /\ \A j \in earlier : j <= q
        BY <3>2, <3>4, <3>6, <4>1
      <4>3. PICK j \in Of(file, file.records[i].boot) : j < i /\ Grows(taken[q].state, file.records[j].state)
        <5>1. i \in DOMAIN file.records /\ file.records[i].t >= floor /\ q \in Sampled(file.records[i].boot)
          BY <1>2, <1>3, <2>0, <2>2, <4>2 DEF Sampled, Numbers
        <5> QED
          BY <4>2, <5>1 DEF FileInv, Preceded
      <4>4. j \in read /\ taken[j].boot = taken[i].boot /\ Grows(taken[q].state, taken[j].state)
        <5>1. j \in DOMAIN file.records /\ file.records[j].boot = file.records[i].boot
          BY <4>3 DEF Of
        <5>2. Usable(file, file.records[i].boot)
          BY <1>3, <2>0
        <5> QED
          BY <1>2, <1>3, <2>0, <4>3, <5>1, <5>2
      <4>5. PICK p \in read : /\ j <= p /\ p < i /\ last(i) # None /\ last(i).boot = file.records[i].boot
                              /\ last(i).state = taken[p].state /\ taken[p].boot = taken[i].boot
                              /\ Grows(taken[j].state, taken[p].state)
        BY <1>10, <4>3, <4>4
      <4>6. p \in earlier /\ p <= q /\ p \in Numbers /\ j \in Numbers
        BY <1>2, <1>3, <3>2, <4>2, <4>4, <4>5
      <4>7. taken[p].state \in Snapshot /\ taken[q].state \in Snapshot /\ taken[j].state \in Snapshot
            /\ p \in Nat /\ q \in Nat
        BY <4>2, <4>6, IndexTypes
      <4>8. Grows(taken[p].state, taken[q].state)
        <5>1. CASE p = q
          BY <4>7, <5>1, GrowsFacts
        <5>2. CASE p < q
          BY <4>2, <4>5, <4>6, <5>2 DEF InOrder
        <5> QED
          BY <4>6, <4>7, <5>1, <5>2
      <4>9. Count(taken[p].state, s) = Count(taken[q].state, s)
        <5>1. /\ Count(taken[p].state, s) \in Nat /\ Count(taken[q].state, s) \in Nat /\ Count(taken[j].state, s) \in Nat
          BY <4>7, CountFacts
        <5>2. /\ Count(taken[p].state, s) <= Count(taken[q].state, s)
              /\ Count(taken[q].state, s) <= Count(taken[j].state, s)
              /\ Count(taken[j].state, s) <= Count(taken[p].state, s)
          BY <4>4, <4>5, <4>8 DEF Grows
        <5> QED
          BY <5>1, <5>2
      <4>10. Count(points[i].deltas, s) = Count(taken[i].state, s) - Count(taken[p].state, s)
        BY <1>8, <4>5
      <4> QED
        BY <3>1, <3>6, <4>1, <4>9, <4>10
    <3> QED
      BY <3>5, <3>6
  <2> QED
    BY <2>1, <2>2
<1>13. \A i \in visible : points[i].t = taken[i].t /\ \A s \in Series : Count(points[i].deltas, s) \in 0 .. Count(taken[i].state, s)
  BY <1>8
<1> QED
  BY <1>4, <1>9, <1>12, <1>13 DEF read

LEMMA EventsTyped ==
  ASSUME NEW f \in File
  PROVE  EventsOf(f) \in Partial(1 .. Samples, Event)
<1>1. f.records \in Partial(1 .. Samples, Line)
  BY DEF File
<1>2. DOMAIN f.records \subseteq 1 .. Samples
      /\ \A i \in DOMAIN f.records : f.records[i].t \in Time /\ f.records[i].full \in BOOLEAN
  <2>1. DOMAIN f.records \subseteq 1 .. Samples /\ f.records \in [DOMAIN f.records -> Line]
    BY <1>1, PartialFacts
  <2>2. \A i \in DOMAIN f.records : f.records[i] \in Line
    BY <2>1
  <2> QED
    BY <2>1, <2>2 DEF Line
<1>3. EventsOf(f) \in [Readable(f) -> Event] /\ DOMAIN EventsOf(f) = Readable(f)
      /\ Readable(f) \subseteq DOMAIN f.records
  BY <1>2 DEF EventsOf, Event, Readable
<1> QED
  BY <1>2, <1>3, PartialFacts

\* The program starts.
LEMMA InvOpenHistory ==
  ASSUME IndexInv, NEW now \in Time, OpenHistory(now)
  PROVE  IndexInv'
<1> USE DEF IndexInv
<1>0. PICK b \in Nat : b = boot + 1
  BY IndexTypes, IndexNumbers
<1> DEFINE c == Cutoff(now, days)
           begun == [file EXCEPT !.began = With(@, b, now)]
           gaps == {gap \in GapsOf(begun) : gap.to # Forever}
           read == Readable(file)
<1>1. /\ ~up /\ up' = TRUE /\ boot' = b /\ boot \in Nat /\ b \in 1 .. Boots /\ live' = Unsampled
      /\ writer' = NewWriter(now)
      /\ file' = [begun EXCEPT !.torn = IF unended THEN @ \ {boot} ELSE @] /\ unended' = FALSE
      /\ index' = ReplayedIndex(c, gaps) /\ spans' = spans \cup gaps /\ floor' = Larger(floor, c)
      /\ healed' = gaps \ GapsOf(file')
      /\ UNCHANGED <<days, sampler, poisoned, worker, taken, saved>>
      /\ \A t \in TimesOf(file) : t <= now
  BY <1>0, IndexTypes, IndexNumbers DEF OpenHistory, Begun
<1>2. sampler = Idle /\ worker = Idle /\ Len(taken) = saved /\ Idle.at = "idle"
  BY <1>1 DEF SamplerStands, Idle
<1>3. c \in 0 .. MaxTime /\ floor' \in 0 .. MaxTime /\ floor \in Nat /\ floor' \in Nat /\ c \in Nat
      /\ floor <= floor' /\ c <= floor' /\ now \in Nat
  <2>1. days \in Retention
    BY DEF IndexTypeOK
  <2> QED
    BY <1>1, <2>1, CutoffFacts, IndexTypes, IndexNumbers
<1> HIDE DEF c
<1>4. /\ saved \in Nat /\ Numbers = 1 .. saved /\ saved <= Samples /\ Samples \in Nat
      /\ \A i \in Numbers : /\ taken[i].t \in Nat /\ taken[i].boot \in Nat /\ taken[i].boot <= boot
                            /\ taken[i].boot # b /\ taken[i].state \in Snapshot
  <2>1. \A i \in Numbers : taken[i].boot <= boot
    BY DEF SamplerStands
  <2> QED
    BY <1>0, <1>1, <1>2, <2>1, IndexTypes, IndexNumbers
<1>5. \A i \in DOMAIN file.records :
        /\ i \in Numbers /\ file.records[i].t = taken[i].t /\ file.records[i].boot = taken[i].boot
        /\ file.records[i].t <= now
  <2>1. \A i \in DOMAIN file.records : file.records[i].t \in TimesOf(file)
    BY DEF TimesOf
  <2> QED
    BY <1>1, <2>1, IndexTypes DEF FileInv, Filed
<1>6. \A d \in DOMAIN file.began : /\ d \in Nat /\ d <= boot /\ d # b /\ file.began[d] \in Nat
                                   /\ file.began[d] <= now
  <2>1. \A d \in DOMAIN file.began : file.began[d] \in TimesOf(file)
    BY DEF TimesOf
  <2> QED
    BY <1>0, <1>1, <2>1, IndexTypes, IndexNumbers
<1>7. /\ begun.records = file.records /\ begun.torn = file.torn
      /\ begun.began = With(file.began, b, now)
      /\ begun = [records |-> begun.records, began |-> begun.began, torn |-> begun.torn]
      /\ file'.records = file.records /\ file'.torn \subseteq file.torn
      /\ file'.began = With(file.began, b, now)
      /\ file' = [records |-> file'.records, began |-> file'.began, torn |-> file'.torn]
  <2>1. /\ begun.records = file.records /\ begun.torn = file.torn
        /\ begun.began = With(file.began, b, now)
        /\ begun = [records |-> begun.records, began |-> begun.began, torn |-> begun.torn]
    BY DEF IndexTypeOK, File
  <2> HIDE DEF begun
  <2>2. PICK torn : torn = IF unended THEN begun.torn \ {boot} ELSE begun.torn
    OBVIOUS
  <2>3. file' = [begun EXCEPT !.torn = torn] /\ torn \subseteq file.torn
    BY <1>1, <2>1, <2>2
  <2>4. /\ file'.records = file.records /\ file'.torn \subseteq file.torn
        /\ file'.began = With(file.began, b, now)
        /\ file' = [records |-> file'.records, began |-> file'.began, torn |-> file'.torn]
    BY <2>1, <2>3
  <2> QED
    BY <2>1, <2>4
<1> HIDE DEF begun
<1>8. /\ DOMAIN file'.began = DOMAIN file.began \cup {b} /\ file'.began[b] = now
      /\ \A d \in DOMAIN file.began : file'.began[d] = file.began[d]
  BY <1>6, <1>7 DEF With
<1>9. begun \in File /\ file' \in File
  <2>1. file'.began \in Partial(1 .. Boots, Time)
    <3>1. b \in 1 .. Boots /\ file.began \in Partial(1 .. Boots, Time) /\ now \in Time
      BY <1>1, IndexTypes
    <3> QED
      BY <1>7, <3>1, PartialWith
  <2>2. file.torn \in SUBSET (1 .. Boots) /\ file.records \in Partial(1 .. Samples, Line)
    BY DEF IndexTypeOK, File
  <2> QED
    BY <1>7, <2>1, <2>2 DEF File
<1>10. /\ \A d : /\ Of(file', d) = Of(file, d)
                 /\ Usable(begun, d) <=> Usable(file, d)
                 /\ Usable(begun, d) => Usable(file', d)
       /\ \A d : NextBegin(file', d) = NextBegin(begun, d)
       /\ GapsOf(file') \subseteq GapsOf(begun)
  <2>1. \A d : /\ Of(file', d) = Of(file, d)
               /\ Usable(begun, d) <=> Usable(file, d)
               /\ Usable(begun, d) => Usable(file', d)
    <3> TAKE d
    <3>1. Of(file', d) = Of(file, d) /\ Of(begun, d) = Of(file, d)
      BY <1>7 DEF Of
    <3> QED
      BY <1>7, <3>1 DEF Usable
  <2>2. file'.began = begun.began
    BY <1>7
  <2>3. \A d : NextBegin(file', d) = NextBegin(begun, d)
    BY <2>2 DEF NextBegin
  <2> QED
    BY <2>1, <2>2, <2>3 DEF GapsOf
<1>11. Of(file', b) = {} /\ Sampled(b) = {} /\ Sampled(boot)' = {}
  BY <1>1, <1>4, <1>5, <1>7 DEF Of, Sampled, Numbers
<1>12. \A gap \in gaps : gap \in Gap
  <2> SUFFICES ASSUME NEW gap \in GapsOf(begun), gap.to # Forever PROVE gap \in Gap
    OBVIOUS
  <2>1. PICK d \in DOMAIN file'.began : gap = [from |-> file'.began[d], to |-> NextBegin(file', d)]
    <3>1. PICK d \in DOMAIN begun.began : gap = [from |-> begun.began[d], to |-> NextBegin(begun, d)]
      BY DEF GapsOf
    <3> QED
      BY <1>7, <1>10, <3>1
  <2>2. file'.began[d] \in Time
    BY <1>8, <2>1, IndexTypes
  <2>3. NextBegin(file', d) \in 1 .. Forever /\ NextBegin(file', d) # Forever
    BY <1>9, <2>1, NextBeginFacts
  <2>4. NextBegin(file', d) \in Time
    BY <2>3, IndexNumbers DEF Time
  <2> QED
    BY <2>1, <2>2, <2>4 DEF Gap
<1> HIDE DEF read
<1>13. /\ index'.points = PointsOf(file, c) /\ index'.revision = Cardinality(read)
       /\ index'.last = (IF read = {} THEN Unsampled ELSE file.records[Max(read)].state)
       /\ index'.lastBoot = (IF read = {} THEN 0 ELSE file.records[Max(read)].boot)
       /\ index'.gaps = gaps /\ index'.events = EventsOf(file)
       /\ index' = [points |-> index'.points, revision |-> index'.revision, last |-> index'.last,
                    lastBoot |-> index'.lastBoot, gaps |-> index'.gaps, events |-> index'.events]
  BY <1>1 DEF ReplayedIndex, read
<1> HIDE DEF gaps
<1>14. /\ \A i \in read : i \in DOMAIN file.records
       /\ read \subseteq 0 .. Samples
       /\ read # {} => Max(read) \in read
  <2>1. \A i \in read : i \in DOMAIN file.records
    BY DEF read, Readable
  <2>2. read \subseteq 0 .. Samples
    BY <1>4, <1>5, <2>1
  <2> QED
    BY <1>4, <2>1, <2>2, MaxFacts
<1>15. /\ index'.points \in Partial(1 .. Samples, Point)
       /\ \A i : i \in Points' <=> i \in read /\ file.records[i].t >= c
       /\ \A i \in Points' :
            /\ index'.points[i].t = taken[i].t
            /\ \A s \in Series :
                 /\ Delta(i, s)' \in 0 .. Count(taken[i].state, s)
                 /\ \A j \in Points' :
                      j < i /\ taken[j].boot = taken[i].boot =>
                        Delta(i, s)' <= Count(taken[i].state, s) - Count(taken[j].state, s)
                 /\ taken[i].t >= floor => Delta(i, s)' = Increment(i, s)
  <2>1. PICK points : points = PointsOf(file, c)
    OBVIOUS
  <2>2. /\ points \in Partial(1 .. Samples, Point)
        /\ \A i : i \in DOMAIN points <=> i \in Readable(file) /\ file.records[i].t >= c
        /\ \A i \in DOMAIN points :
              /\ points[i].t = taken[i].t
              /\ \A s \in Series :
                   /\ Count(points[i].deltas, s) \in 0 .. Count(taken[i].state, s)
                   /\ \A j \in DOMAIN points :
                        j < i /\ taken[j].boot = taken[i].boot =>
                          Count(points[i].deltas, s) <= Count(taken[i].state, s) - Count(taken[j].state, s)
                   /\ taken[i].t >= floor => Count(points[i].deltas, s) = Increment(i, s)
    BY <2>1, ReplayFacts
  <2>3. index'.points = points /\ Points' = DOMAIN points
    BY <1>13, <2>1 DEF Points
  <2>4. \A i, s : Delta(i, s)' = Count(points[i].deltas, s)
    BY <2>3 DEF Delta
  <2> QED
    BY <2>2, <2>3, <2>4 DEF read
<1>16. IndexTypeOK'
  <2>1. index' \in Index /\ index'.lastBoot <= b
    <3>1. index'.revision \in Nat
      <4>1. IsFiniteSet(0 .. Samples)
        BY <1>4, FS_Interval, 0 \in Int, Samples \in Int
      <4>2. IsFiniteSet(read)
        BY <1>14, <4>1, FS_Subset
      <4> QED
        BY <1>13, <4>2, FS_CardinalityType
    <3>2. index'.last \in Snapshot /\ index'.lastBoot \in 0 .. Boots /\ index'.lastBoot <= b
      <4>1. CASE read = {}
        BY <1>0, <1>13, <4>1, UnsampledFacts, IndexNumbers
      <4>2. CASE read # {}
        <5>1. PICK m : m = Max(read)
          OBVIOUS
        <5>2. m \in DOMAIN file.records /\ index'.last = file.records[m].state /\ index'.lastBoot = file.records[m].boot
          <6>1. m \in DOMAIN file.records
            BY <1>14, <4>2, <5>1
          <6>2. index'.last = file.records[Max(read)].state /\ index'.lastBoot = file.records[Max(read)].boot
            BY <1>13, <4>2
          <6> QED
            BY <5>1, <6>1, <6>2
        <5> QED
          <6>1. file.records[m].state \in Snapshot
            BY <5>2, IndexTypes
          <6>2. file.records[m].boot \in Nat /\ file.records[m].boot <= boot
            BY <1>4, <1>5, <5>2
          <6>3. boot \in 0 .. Boots /\ Boots \in Nat
            BY IndexTypes, IndexNumbers
          <6> QED
            BY <1>0, <1>1, <5>2, <6>1, <6>2, <6>3
      <4> QED
        BY <4>1, <4>2
    <3>3. index'.events \in Partial(1 .. Samples, Event)
      BY <1>13, EventsTyped DEF IndexTypeOK
    <3>4. index'.gaps \in SUBSET Gap
      BY <1>12, <1>13
    <3> QED
      BY <1>13, <1>15, <3>1, <3>2, <3>3, <3>4 DEF Index
  <2>2. DOMAIN file'.records \subseteq 1 .. saved /\ DOMAIN file'.began \subseteq 1 .. b /\ file'.torn \subseteq DOMAIN file'.began
    <3>1. DOMAIN file.records \subseteq 1 .. saved /\ DOMAIN file.began \subseteq 1 .. boot /\ file.torn \subseteq DOMAIN file.began
      BY DEF IndexTypeOK
    <3> QED
      BY <1>0, <1>1, <1>7, <1>8, <3>1
  <2>3. Points' \subseteq DOMAIN taken
    BY <1>5, <1>14, <1>15 DEF Numbers
  <2>4. writer' \in [state : {None} \cup [is : Snapshot], at : 0 .. MaxTime]
    BY <1>1, IndexNumbers DEF NewWriter
  <2>5. live' \in Snapshot /\ up' \in BOOLEAN /\ b \in 0 .. Boots /\ spans' \subseteq Gap
        /\ unended' \in BOOLEAN /\ healed' \subseteq spans'
    <3>1. up' = TRUE /\ unended' = FALSE /\ spans' = spans \cup gaps /\ healed' = gaps \ GapsOf(file')
          /\ live' = Unsampled /\ b \in 1 .. Boots
      BY <1>1
    <3>2. live' \in Snapshot /\ b \in 0 .. Boots
      BY <3>1, UnsampledFacts, IndexNumbers
    <3>3. spans' \subseteq Gap /\ healed' \subseteq spans'
      BY <1>12, <3>1 DEF IndexTypeOK
    <3> QED
      BY <3>1, <3>2, <3>3
  <2> QED
    BY <1>1, <1>2, <1>3, <1>9, <2>1, <2>2, <2>3, <2>4, <2>5 DEF IndexTypeOK
<1>17. InOrder' /\ Numbers' = Numbers
  BY <1>1 DEF InOrder, Numbers
<1>18. SamplerStands'
  <2>1. \A i \in Numbers : taken[i].boot <= b /\ ~ (i > saved)
    BY <1>0, <1>1, <1>4
  <2> QED
    BY <1>0, <1>1, <1>2, <1>4, <1>11, <1>17, <2>1 DEF SamplerStands
<1>19. Filed'
  <2>1. ASSUME NEW i \in DOMAIN file.records
        PROVE  /\ file.records[i].t = taken[i].t /\ file.records[i].boot = taken[i].boot
               /\ file.records[i].state = taken[i].state
               /\ file.records[i].boot \in DOMAIN file'.began
               /\ file'.began[file.records[i].boot] <= file.records[i].t
               /\ \A d \in DOMAIN file'.began : file.records[i].boot < d => file.records[i].t <= file'.began[d]
               /\ \A j \in DOMAIN file.records : i < j => file.records[i].t <= file.records[j].t
    BY <1>5, <1>8 DEF FileInv, Filed
  <2>2. \A d, e \in DOMAIN file'.began : d < e => file'.began[d] <= file'.began[e]
    <3> SUFFICES ASSUME NEW d \in DOMAIN file'.began, NEW e \in DOMAIN file'.began, d < e
                 PROVE  file'.began[d] <= file'.began[e]
      OBVIOUS
    <3>1. d # b /\ d \in DOMAIN file.began
      BY <1>0, <1>1, <1>6, <1>8
    <3>2. CASE e = b
      BY <1>6, <1>8, <3>1, <3>2
    <3>3. CASE e # b
      BY <1>8, <3>1, <3>3 DEF FileInv, Filed
    <3> QED
      BY <3>2, <3>3
  <2> QED
    BY <1>1, <1>7, <1>8, <2>1, <2>2 DEF Filed
<1>20. Repeats'
  BY <1>7, <1>10 DEF FileInv, Repeats
<1>21. Preceded'
  <2>1. \A i \in DOMAIN file.records : file.records[i].t \in Nat
    BY <1>4, <1>5
  <2>2. \A i \in DOMAIN file.records : file.records[i].t >= floor' => file.records[i].t >= floor
    BY <1>3, <2>1
  <2>3. \A d : Sampled(d)' = Sampled(d)
    BY <1>1 DEF Sampled
  <2>4. taken' = taken
    BY <1>1
  <2> QED
    BY <1>7, <1>10, <2>2, <2>3, <2>4 DEF FileInv, Preceded
<1>22. Lost'
  <2>1. \A k \in 1 .. saved : taken[k].t < floor => taken[k].t < floor'
    BY <1>3, <1>4
  <2>2. \A span \in spans : span.to <= floor => span.to <= floor'
    BY <1>3, GapFacts DEF IndexTypeOK
  <2> QED
    BY <1>1, <1>7, <2>1, <2>2 DEF FileInv, Lost
<1>23. Reported'
  BY <1>1, <1>10 DEF Reported, gaps
<1>24. Remembered'
  <2>1. writer'.state = None /\ writer'.at = now
    BY <1>1 DEF NewWriter
  <2>2. boot' = b /\ sampler' = Idle
    BY <1>1, <1>2
  <2> QED
    BY <1>2, <1>3, <1>8, <1>11, <2>1, <2>2 DEF Remembered
<1>25. Pointed'
  <2>1. \A i, s : Increment(i, s)' = Increment(i, s)
    BY <1>1 DEF Increment, Sampled
  <2>2. ASSUME NEW i \in Points'
        PROVE  /\ index'.points[i].t = taken[i].t
               /\ taken[i].t >= floor' => \A s \in Series : Delta(i, s)' = Increment(i, s)'
    <3>1. taken[i].t \in Nat
      BY <1>4, <1>5, <1>14, <1>15
    <3> QED
      BY <1>3, <1>15, <2>1, <3>1
  <2>3. ASSUME NEW k \in Numbers \ Points'
        PROVE  \/ taken[k].t < floor'
               \/ \E gap \in index'.gaps \cup healed' : Covers(gap, taken[k].t)
               \/ \E span \in spans' : Covers(span, taken[k].t) /\ span.to <= floor'
    <3>0. taken[k].t \in Nat /\ k \in 1 .. saved
      BY <1>4
    <3>1. CASE k \in read
      <4>1. file.records[k].t = taken[k].t /\ ~ (file.records[k].t >= c)
        BY <1>5, <1>14, <1>15, <2>3, <3>1
      <4> QED
        BY <1>3, <3>0, <4>1
    <3>2. CASE k \in DOMAIN file.records \ read
      <4>1. PICK d : d = file.records[k].boot
        OBVIOUS
      <4>2. ~Usable(begun, d)
        BY <1>10, <3>2, <4>1 DEF read, Readable
      <4>3. /\ d \in DOMAIN file'.began /\ d \in DOMAIN file.began /\ file'.began[d] <= taken[k].t
            /\ \A e \in DOMAIN file'.began : d < e => taken[k].t <= file'.began[e]
        BY <1>7, <1>19, <3>2, <4>1, <1>5 DEF Filed, FileInv
      <4>4. d < b
        BY <1>0, <1>1, <1>6, <4>3
      <4>5. NextBegin(file', d) \in 1 .. Forever /\ NextBegin(file', d) <= now
        BY <1>8, <1>9, <4>4, NextBeginFacts
      <4>6. NextBegin(file', d) # Forever
        BY <4>5, IndexNumbers
      <4>7. taken[k].t <= NextBegin(file', d)
        BY <1>9, <4>3, <4>6, NextBeginFacts
      <4> DEFINE gap == [from |-> file'.began[d], to |-> NextBegin(file', d)]
      <4>8. gap \in GapsOf(begun)
        BY <1>7, <1>10, <4>2, <4>3 DEF GapsOf
      <4>9. gap \in index'.gaps /\ Covers(gap, taken[k].t)
        BY <1>13, <4>3, <4>6, <4>7, <4>8 DEF gaps, Covers
      <4> QED
        BY <4>9
    <3>3. CASE k \notin DOMAIN file.records
      <4>1. taken[k].t < floor \/ \E span \in spans : Covers(span, taken[k].t) /\ span.to <= floor
        BY <3>0, <3>3 DEF FileInv, Lost
      <4>2. \A span \in spans : span.to <= floor => span.to <= floor'
        BY <1>3, GapFacts DEF IndexTypeOK
      <4>3. taken[k].t < floor => taken[k].t < floor'
        BY <1>3, <3>0
      <4> QED
        BY <1>1, <4>1, <4>2, <4>3
    <3> QED
      BY <3>1, <3>2, <3>3
  <2>4. index'.lastBoot # b
    <3>1. CASE read = {}
      <4>1. index'.lastBoot = 0
        BY <1>13, <3>1
      <4> QED
        BY <1>0, <1>1, <4>1
    <3>2. CASE read # {}
      <4>1. PICK m : m = Max(read)
        OBVIOUS
      <4>2. m \in DOMAIN file.records
        BY <1>14, <3>2, <4>1
      <4>3. index'.lastBoot = file.records[Max(read)].boot
        BY <1>13, <3>2
      <4>4. file.records[m].boot = taken[m].boot /\ taken[m].boot # b
        BY <1>4, <1>5, <4>2
      <4> QED
        BY <4>1, <4>3, <4>4
    <3> QED
      BY <3>1, <3>2
  <2> QED
    BY <1>1, <1>11, <1>17, <2>2, <2>3, <2>4 DEF Pointed
<1>26. Apportioned' /\ PointsInOrder'
  <2>1. Apportioned'
    <3> SUFFICES ASSUME NEW i \in Points', NEW s \in Series
                 PROVE  /\ 0 <= Delta(i, s)' /\ Delta(i, s)' <= Count(taken[i].state, s)
                        /\ \A j \in Points' : j < i /\ taken[j].boot = taken[i].boot =>
                             Delta(i, s)' <= Count(taken[i].state, s) - Count(taken[j].state, s)
      BY <1>1 DEF Apportioned
    <3>1. Count(taken[i].state, s) \in Nat
      BY <1>4, <1>5, <1>14, <1>15, CountFacts
    <3> QED
      BY <1>15, <3>1
  <2>2. ASSUME NEW i \in Points', NEW j \in Points', i < j
        PROVE  index'.points[i].t <= index'.points[j].t
    <3>1. i \in DOMAIN file.records /\ j \in DOMAIN file.records
      BY <1>14, <1>15
    <3>2. file.records[i].t <= file.records[j].t
      BY <2>2, <3>1 DEF FileInv, Filed
    <3> QED
      BY <1>5, <1>15, <3>1, <3>2
  <2> QED
    BY <2>1, <2>2 DEF PointsInOrder
<1>27. GapsKnown'
  BY <1>1, <1>2, <1>13 DEF GapsKnown, gaps
<1> QED
  BY <1>16, <1>17, <1>18, <1>19, <1>20, <1>21, <1>22, <1>23, <1>24, <1>25, <1>26, <1>27 DEF FileInv, PointsInv

\* Two snapshots that each counted all that the other did are one.
LEMMA SameSnapshots ==
  ASSUME NEW a \in Snapshot, NEW b \in Snapshot, Grows(a, b), Grows(b, a)
  PROVE  a = b
<1>1. /\ DOMAIN a \subseteq Series /\ a \in [DOMAIN a -> 1 .. MaxCount]
      /\ DOMAIN b \subseteq Series /\ b \in [DOMAIN b -> 1 .. MaxCount]
  BY PartialFacts DEF Snapshot
<1>2. ASSUME NEW s \in Series
      PROVE  (s \in DOMAIN a <=> s \in DOMAIN b) /\ (s \in DOMAIN a => a[s] = b[s])
  <2>1. Count(a, s) \in Nat /\ Count(b, s) \in Nat /\ Count(a, s) <= Count(b, s) /\ Count(b, s) <= Count(a, s)
    BY CountFacts DEF Grows
  <2>2. Count(a, s) = Count(b, s)
    BY <2>1
  <2>3. s \in DOMAIN a => Count(a, s) = a[s] /\ a[s] \in 1 .. MaxCount
    BY <1>1 DEF Count
  <2>4. s \in DOMAIN b => Count(b, s) = b[s] /\ b[s] \in 1 .. MaxCount
    BY <1>1 DEF Count
  <2>5. s \notin DOMAIN a => Count(a, s) = 0
    BY DEF Count
  <2>6. s \notin DOMAIN b => Count(b, s) = 0
    BY DEF Count
  <2> QED
    BY <2>2, <2>3, <2>4, <2>5, <2>6, IndexNumbers
<1>3. DOMAIN a = DOMAIN b /\ \A s \in DOMAIN a : a[s] = b[s]
  BY <1>1, <1>2
<1> QED
  BY <1>1, <1>3

\* What a compaction leaves of a boot that it keeps: no count is lost.
LEMMA RetainedFacts ==
  ASSUME IndexTypeOK, InOrder, FileInv, NEW cutoff \in Time, NEW new, new = Retained(file, boot, cutoff)
  PROVE  /\ new \in File /\ new.torn = {}
         /\ \A b : b \in DOMAIN new.began <=> b \in DOMAIN file.began /\ Usable(file, b) /\ Stays(file, boot, b, cutoff)
         /\ \A b \in DOMAIN new.began : new.began[b] = file.began[b]
         /\ \A i \in DOMAIN new.records : /\ i \in DOMAIN file.records /\ new.records[i] = file.records[i]
                                          /\ file.records[i].boot \in DOMAIN new.began
         /\ \A i \in DOMAIN file.records :
              file.records[i].boot \in DOMAIN new.began /\ file.records[i].t >= cutoff => i \in DOMAIN new.records
         /\ \A b \in DOMAIN new.began : Of(new, b) # {}
         /\ \A j \in DOMAIN file.records :
              file.records[j].boot \in DOMAIN new.began =>
                \E m \in Of(new, file.records[j].boot) :
                  /\ Grows(file.records[j].state, file.records[m].state)
                  /\ m = j \/ file.records[m].t < cutoff
         /\ \A j \in DOMAIN new.records :
              \E f \in Of(new, new.records[j].boot) :
                f <= j /\ new.records[f].full /\ new.records[f].state = new.records[j].state
<1> DEFINE boots == {b \in DOMAIN file.began : Usable(file, b) /\ Stays(file, boot, b, cutoff)}
           kept == {i \in DOMAIN file.records :
                      /\ file.records[i].boot \in boots
                      /\ file.records[i].t >= cutoff \/ IsBaseline(file, i, cutoff)}
<1>1. new = [records |-> [i \in kept |-> file.records[i]], began |-> [b \in boots |-> file.began[b]], torn |-> {}]
  BY DEF Retained, Rest
<1>2. /\ \A b : b \in boots <=> b \in DOMAIN file.began /\ Usable(file, b) /\ Stays(file, boot, b, cutoff)
      /\ \A i : i \in kept <=> /\ i \in DOMAIN file.records /\ file.records[i].boot \in boots
                               /\ file.records[i].t >= cutoff \/ IsBaseline(file, i, cutoff)
  OBVIOUS
<1> HIDE DEF boots, kept
<1>3. /\ new.torn = {} /\ DOMAIN new.began = boots /\ DOMAIN new.records = kept
      /\ new.records = [i \in kept |-> file.records[i]] /\ new.began = [b \in boots |-> file.began[b]]
      /\ \A b \in boots : new.began[b] = file.began[b]
      /\ \A i \in kept : new.records[i] = file.records[i]
  BY <1>1
<1>4. new \in File
  <2>1. new.records \in Partial(1 .. Samples, Line)
    BY <1>2, <1>3, IndexTypes, PartialSome
  <2>2. new.began \in Partial(1 .. Boots, Time)
    BY <1>2, <1>3, IndexTypes, PartialSome
  <2> QED
    BY <1>1, <1>3, <2>1, <2>2 DEF File
<1>5. /\ \A i \in DOMAIN file.records :
           /\ i \in Numbers /\ i \in Nat /\ i \in 0 .. Samples
           /\ file.records[i].t \in Nat /\ file.records[i].state = taken[i].state
           /\ file.records[i].boot = taken[i].boot /\ file.records[i].state \in Snapshot
           /\ \A j \in DOMAIN file.records : i < j => file.records[i].t <= file.records[j].t
      /\ cutoff \in Nat /\ Samples \in Nat
  <2>1. Numbers \subseteq 1 .. Samples /\ Samples \in Nat
    BY IndexTypes, IndexNumbers
  <2> QED
    BY <2>1, IndexTypes, IndexNumbers DEF FileInv, Filed
<1>6. \A i, b : i \in Of(new, b) <=> i \in kept /\ file.records[i].boot = b
  BY <1>3 DEF Of
<1>7. ASSUME NEW i \in DOMAIN file.records, NEW j \in DOMAIN file.records, i <= j,
             file.records[i].boot = file.records[j].boot
      PROVE  Grows(file.records[i].state, file.records[j].state)
  <2>1. CASE i = j
    BY <1>5, <2>1, GrowsFacts
  <2>2. CASE i < j
    BY <1>5, <1>7, <2>2 DEF InOrder
  <2> QED
    BY <1>5, <1>7, <2>1, <2>2
<1>8. ASSUME NEW j \in DOMAIN file.records, file.records[j].boot \in boots, file.records[j].t < cutoff,
             file.records[j].full
      PROVE  \E m \in kept : /\ file.records[m].boot = file.records[j].boot /\ file.records[m].full
                             /\ file.records[m].t < cutoff /\ j <= m
  <2> DEFINE old == {k \in Of(file, file.records[j].boot) : file.records[k].full /\ file.records[k].t < cutoff}
  <2>1. \A k : k \in old <=> /\ k \in DOMAIN file.records /\ file.records[k].boot = file.records[j].boot
                             /\ file.records[k].full /\ file.records[k].t < cutoff
    BY DEF Of
  <2> HIDE DEF old
  <2>2. j \in old /\ old \subseteq 0 .. Samples
    BY <1>5, <1>8, <2>1
  <2>3. PICK m : m = Max(old)
    OBVIOUS
  <2>4. m \in old /\ \A k \in old : k <= m
    BY <1>5, <2>2, <2>3, MaxFacts
  <2>5. IsBaseline(file, m, cutoff)
    <3>1. file.records[m].boot = file.records[j].boot
      BY <2>1, <2>4
    <3> QED
      BY <2>4, <3>1 DEF IsBaseline, old
  <2>6. m \in kept
    BY <1>2, <1>8, <2>1, <2>4, <2>5
  <2> QED
    BY <2>1, <2>2, <2>4, <2>6
<1>9. ASSUME NEW j \in DOMAIN file.records
      PROVE  \E f \in DOMAIN file.records :
               /\ file.records[f].boot = file.records[j].boot /\ f <= j /\ file.records[f].full
               /\ file.records[f].state = file.records[j].state /\ file.records[f].t <= file.records[j].t
  <2>1. PICK f \in Of(file, file.records[j].boot) :
          f <= j /\ file.records[f].full /\ file.records[f].state = file.records[j].state
    BY DEF FileInv, Repeats
  <2>2. f \in DOMAIN file.records /\ file.records[f].boot = file.records[j].boot
    BY <2>1 DEF Of
  <2>3. file.records[f].t <= file.records[j].t
    BY <1>5, <2>1, <2>2
  <2> QED
    BY <2>1, <2>2, <2>3
<1>10. ASSUME NEW j \in DOMAIN file.records, file.records[j].boot \in boots
       PROVE  \E m \in kept : /\ file.records[m].boot = file.records[j].boot
                              /\ Grows(file.records[j].state, file.records[m].state)
                              /\ m = j \/ file.records[m].t < cutoff
  <2>1. CASE file.records[j].t >= cutoff
    <3>1. j \in kept /\ Grows(file.records[j].state, file.records[j].state)
      BY <1>2, <1>5, <1>10, <2>1, GrowsFacts
    <3> QED
      BY <3>1
  <2>2. CASE file.records[j].t < cutoff
    <3>1. PICK f \in DOMAIN file.records :
               /\ file.records[f].boot = file.records[j].boot /\ f <= j /\ file.records[f].full
               /\ file.records[f].state = file.records[j].state /\ file.records[f].t <= file.records[j].t
      BY <1>9
    <3>2. file.records[f].t < cutoff
      BY <1>5, <2>2, <3>1
    <3>3. PICK m \in kept : file.records[m].boot = file.records[f].boot /\ file.records[m].t < cutoff /\ f <= m
      BY <1>8, <1>10, <3>1, <3>2
    <3>4. Grows(file.records[f].state, file.records[m].state)
      BY <1>2, <1>7, <3>3
    <3> QED
      BY <3>1, <3>3, <3>4
  <2> QED
    BY <1>5, <2>1, <2>2
<1>11. ASSUME NEW b \in boots PROVE Of(new, b) # {}
  <2>1. PICK j : j \in Of(file, b)
    BY <1>2 DEF Usable
  <2>2. j \in DOMAIN file.records /\ file.records[j].boot = b
    BY <2>1 DEF Of
  <2> QED
    BY <1>6, <1>10, <2>2
<1>12. ASSUME NEW j \in kept
       PROVE  \E f \in kept : /\ file.records[f].boot = file.records[j].boot
                              /\ f <= j /\ file.records[f].full /\ file.records[f].state = file.records[j].state
  <2>1. j \in DOMAIN file.records /\ file.records[j].boot \in boots
        /\ (file.records[j].t >= cutoff \/ IsBaseline(file, j, cutoff))
    BY <1>2
  <2>2. CASE IsBaseline(file, j, cutoff)
    <3>1. file.records[j].full
      BY <2>2 DEF IsBaseline
    <3> QED
      BY <1>5, <2>1, <3>1
  <2>3. CASE file.records[j].t >= cutoff
    <3>1. PICK f \in DOMAIN file.records :
               /\ file.records[f].boot = file.records[j].boot /\ f <= j /\ file.records[f].full
               /\ file.records[f].state = file.records[j].state /\ file.records[f].t <= file.records[j].t
      BY <2>1, <1>9
    <3>2. CASE file.records[f].t >= cutoff
      BY <1>2, <2>1, <3>1, <3>2
    <3>3. CASE file.records[f].t < cutoff
      <4>1. PICK m \in kept : /\ file.records[m].boot = file.records[f].boot /\ file.records[m].full
                              /\ file.records[m].t < cutoff /\ f <= m
        BY <1>8, <2>1, <3>1, <3>3
      <4>2. m \in DOMAIN file.records /\ m <= j
        BY <1>2, <1>5, <2>1, <2>3, <4>1
      <4>3. Grows(file.records[f].state, file.records[m].state) /\ Grows(file.records[m].state, file.records[j].state)
        BY <1>7, <2>1, <3>1, <4>1, <4>2
      <4>4. file.records[m].state = file.records[j].state
        BY <1>5, <2>1, <3>1, <4>2, <4>3, SameSnapshots
      <4> QED
        BY <3>1, <4>1, <4>2, <4>4
    <3> QED
      BY <1>5, <3>1, <3>2, <3>3
  <2> QED
    BY <2>1, <2>2, <2>3
<1>13. \A j \in DOMAIN new.records :
          \E f \in Of(new, new.records[j].boot) :
            f <= j /\ new.records[f].full /\ new.records[f].state = new.records[j].state
  <2> TAKE j \in DOMAIN new.records
  <2>1. j \in kept /\ new.records[j] = file.records[j]
    BY <1>3
  <2>2. PICK f \in kept : /\ file.records[f].boot = file.records[j].boot
                          /\ f <= j /\ file.records[f].full /\ file.records[f].state = file.records[j].state
    BY <1>12, <2>1
  <2>3. f \in Of(new, new.records[j].boot) /\ new.records[f] = file.records[f]
    BY <1>3, <1>6, <2>1, <2>2
  <2> QED
    BY <2>1, <2>2, <2>3
<1>14. \A j \in DOMAIN file.records :
         file.records[j].boot \in boots =>
           \E m \in Of(new, file.records[j].boot) :
             /\ Grows(file.records[j].state, file.records[m].state)
             /\ m = j \/ file.records[m].t < cutoff
  BY <1>6, <1>10
<1>15. /\ \A i \in DOMAIN new.records : /\ i \in DOMAIN file.records /\ new.records[i] = file.records[i]
                                        /\ file.records[i].boot \in boots
       /\ \A i \in DOMAIN file.records :
              file.records[i].boot \in boots /\ file.records[i].t >= cutoff => i \in DOMAIN new.records
  BY <1>2, <1>3
<1> QED
  BY <1>2, <1>3, <1>4, <1>11, <1>13, <1>14, <1>15

\* The worker replaces the file by what is retained.
LEMMA InvReplace ==
  ASSUME IndexInv, NEW cutoff \in Time, Replace(cutoff)
  PROVE  IndexInv'
<1> USE DEF IndexInv
<1>1. /\ worker.at = "started" /\ cutoff <= floor /\ writer.state # None
      /\ \A gap \in GapsOf(file) : gap.to <= cutoff
      /\ file' = Retained(file, boot, cutoff) /\ writer' = WriterOf(file')
      /\ worker' = [at |-> "replaced", revision |-> worker.revision, events |-> EventsOf(file')]
      /\ UNCHANGED <<up, boot, live, days, sampler, poisoned, unended, index, taken, saved, floor>>
      /\ UNCHANGED <<spans, healed>>
  BY DEF Replace, Compactable, History
<1>2. up /\ worker.revision \in Nat
  <2>1. worker # Idle
    BY <1>1 DEF Idle
  <2> QED
    BY <1>1, <2>1 DEF SamplerStands, IndexTypeOK
<1>3. PICK new : new = file'
  OBVIOUS
<1>4. /\ new \in File /\ new.torn = {}
      /\ \A b : b \in DOMAIN new.began <=> b \in DOMAIN file.began /\ Usable(file, b) /\ Stays(file, boot, b, cutoff)
      /\ \A b \in DOMAIN new.began : new.began[b] = file.began[b]
      /\ \A i \in DOMAIN new.records : /\ i \in DOMAIN file.records /\ new.records[i] = file.records[i]
                                       /\ file.records[i].boot \in DOMAIN new.began
      /\ \A i \in DOMAIN file.records :
              file.records[i].boot \in DOMAIN new.began /\ file.records[i].t >= cutoff => i \in DOMAIN new.records
      /\ \A b \in DOMAIN new.began : Of(new, b) # {}
      /\ \A j \in DOMAIN file.records :
              file.records[j].boot \in DOMAIN new.began =>
                \E m \in Of(new, file.records[j].boot) :
                  /\ Grows(file.records[j].state, file.records[m].state)
                  /\ m = j \/ file.records[m].t < cutoff
      /\ \A j \in DOMAIN new.records :
              \E f \in Of(new, new.records[j].boot) :
                f <= j /\ new.records[f].full /\ new.records[f].state = new.records[j].state
  BY <1>1, <1>3, RetainedFacts
<1>5. /\ \A i \in DOMAIN file.records :
           /\ i \in Numbers /\ i \in Nat /\ i \in 0 .. Samples /\ i <= saved
           /\ file.records[i].t \in Nat /\ file.records[i].t \in Time
           /\ file.records[i].t = taken[i].t /\ file.records[i].state = taken[i].state
           /\ file.records[i].boot = taken[i].boot /\ file.records[i].state \in Snapshot
           /\ \A j \in DOMAIN file.records : i < j => file.records[i].t <= file.records[j].t
      /\ cutoff \in Nat /\ floor \in Nat /\ Samples \in Nat
      /\ \A i \in Numbers : taken[i].t \in Nat /\ taken[i].state \in Snapshot /\ i \in Nat
  <2>1. Numbers \subseteq 1 .. Samples /\ Samples \in Nat
    BY IndexTypes, IndexNumbers
  <2> QED
    BY <2>1, IndexTypes, IndexNumbers, SMTT(25) DEF FileInv, Filed
<1>6. \A b : Of(new, b) \subseteq Of(file, b) /\ Of(new, b) \subseteq DOMAIN new.records
             /\ \A i \in Of(new, b) : file.records[i].boot = b /\ new.records[i] = file.records[i]
  BY <1>4 DEF Of
<1>7. boot \in DOMAIN new.began
  <2>1. boot \in DOMAIN file.began
    BY <1>2 DEF FileInv, Filed
  <2>2. Usable(file, boot)
    <3> SUFFICES ASSUME ~Usable(file, boot) PROVE FALSE
      OBVIOUS
    <3>1. [from |-> file.began[boot], to |-> NextBegin(file, boot)] \in GapsOf(file)
      BY <2>1 DEF GapsOf
    <3>2. NextBegin(file, boot) = Forever
      <4>1. \A c \in DOMAIN file.began : ~ (boot < c)
        BY IndexTypes
      <4> QED
        BY <4>1, NextBeginFacts DEF IndexTypeOK
    <3>3. Forever <= cutoff
      BY <1>1, <3>1, <3>2
    <3> QED
      BY <3>3, IndexNumbers
  <2>3. Stays(file, boot, boot, cutoff)
    BY DEF Stays
  <2> QED
    BY <1>4, <2>1, <2>2, <2>3
<1>8. PICK own : own = Max(Of(new, boot))
  OBVIOUS
<1>9. /\ own \in Of(new, boot) /\ \A j \in Of(new, boot) : j <= own
      /\ own \in DOMAIN new.records /\ own \in DOMAIN file.records /\ new.records[own] = file.records[own]
      /\ own \in Of(file, boot) /\ file.records[own].boot = boot
  <2>1. Of(new, boot) \subseteq 0 .. Samples /\ Of(new, boot) # {}
    BY <1>4, <1>5, <1>6, <1>7
  <2> QED
    BY <1>4, <1>5, <1>6, <1>8, <2>1, MaxFacts, SMTT(25)
<1>10. writer'.state = [is |-> file.records[own].state] /\ writer'.at = file.records[own].t
       /\ writer' = [state |-> [is |-> file.records[own].state], at |-> file.records[own].t]
  <2>1. writer' = [state |-> [is |-> new.records[own].state], at |-> new.records[own].t]
    BY <1>1, <1>3, <1>8 DEF WriterOf
  <2> QED
    BY <1>9, <2>1
<1>11. IndexTypeOK'
  <2>1. writer' \in [state : {None} \cup [is : Snapshot], at : 0 .. MaxTime]
    BY <1>5, <1>9, <1>10, IndexNumbers
  <2>2. EventsOf(file') \in Partial(1 .. Samples, Event)
    BY <1>3, <1>4, EventsTyped
  <2>3. worker' \in [at : {"replaced"}, revision : Nat, events : Partial(1 .. Samples, Event)]
    BY <1>1, <1>2, <2>2
  <2>4. /\ DOMAIN file'.records \subseteq 1 .. saved /\ DOMAIN file'.began \subseteq 1 .. boot
        /\ file'.torn \subseteq DOMAIN file'.began /\ file' \in File
    BY <1>3, <1>4 DEF IndexTypeOK
  <2> QED
    BY <1>1, <2>1, <2>3, <2>4 DEF IndexTypeOK, Points
<1>12. InOrder' /\ SamplerStands' /\ Numbers' = Numbers /\ \A b : Sampled(b)' = Sampled(b)
  BY <1>1, <1>2 DEF InOrder, SamplerStands, Numbers, Sampled
<1>13. PointsInv'
  BY <1>1, PointsInvKept
<1>14. Filed'
  <2>1. ASSUME NEW i \in DOMAIN new.records
        PROVE  /\ new.records[i].t = taken[i].t /\ new.records[i].boot = taken[i].boot
               /\ new.records[i].state = taken[i].state
               /\ new.records[i].boot \in DOMAIN new.began
               /\ new.began[new.records[i].boot] <= new.records[i].t
               /\ \A c \in DOMAIN new.began : new.records[i].boot < c => new.records[i].t <= new.began[c]
               /\ \A j \in DOMAIN new.records : i < j => new.records[i].t <= new.records[j].t
    <3>1. i \in DOMAIN file.records /\ new.records[i] = file.records[i] /\ file.records[i].boot \in DOMAIN new.began
      BY <1>4
    <3>2. /\ file.began[file.records[i].boot] <= file.records[i].t
          /\ \A c \in DOMAIN file.began : file.records[i].boot < c => file.records[i].t <= file.began[c]
          /\ file.records[i].t = taken[i].t /\ file.records[i].boot = taken[i].boot
          /\ file.records[i].state = taken[i].state
      BY <3>1 DEF FileInv, Filed
    <3> QED
      BY <1>4, <1>5, <3>1, <3>2
  <2>2. \A b, c \in DOMAIN new.began : b < c => new.began[b] <= new.began[c]
    BY <1>4 DEF FileInv, Filed
  <2> QED
    BY <1>1, <1>3, <1>7, <2>1, <2>2 DEF Filed
<1>15. Repeats'
  BY <1>3, <1>4 DEF Repeats
<1>16. Preceded'
  <2> SUFFICES ASSUME NEW i \in DOMAIN new.records, new.records[i].t >= floor,
                      NEW k \in Sampled(new.records[i].boot), k < i
               PROVE  \E j \in Of(new, new.records[i].boot) :
                        j < i /\ Grows(taken[k].state, new.records[j].state)
    BY <1>1, <1>3, <1>12 DEF Preceded
  <2>1. i \in DOMAIN file.records /\ new.records[i] = file.records[i] /\ file.records[i].boot \in DOMAIN new.began
    BY <1>4
  <2>2. PICK j \in Of(file, file.records[i].boot) : j < i /\ Grows(taken[k].state, file.records[j].state)
    BY <2>1 DEF FileInv, Preceded
  <2>3. j \in DOMAIN file.records /\ file.records[j].boot = file.records[i].boot
    BY DEF Of
  <2>4. PICK m \in Of(new, file.records[i].boot) :
          Grows(file.records[j].state, file.records[m].state) /\ (m = j \/ file.records[m].t < cutoff)
    BY <1>4, <2>1, <2>3
  <2>5. m \in DOMAIN file.records /\ new.records[m] = file.records[m]
    BY <1>4, <1>6
  <2>6. m < i
    <3>1. CASE m = j
      BY <2>2, <3>1
    <3>2. CASE file.records[m].t < cutoff
      <4>1. file.records[m].t < file.records[i].t
        BY <1>1, <1>5, <2>1, <2>5, <3>2
      <4>2. ~ (i < m) /\ i # m
        BY <1>5, <2>1, <2>5, <4>1
      <4> QED
        BY <1>5, <2>1, <2>5, <4>2
    <3> QED
      BY <2>4, <3>1, <3>2
  <2>7. Grows(taken[k].state, file.records[m].state)
    <3>1. k \in Numbers
      BY DEF Sampled, Numbers
    <3> QED
      BY <1>5, <2>2, <2>3, <2>4, <2>5, <3>1, GrowsFacts
  <2> QED
    BY <2>1, <2>4, <2>5, <2>6, <2>7
<1>17. Lost'
  <2> SUFFICES ASSUME NEW k \in 1 .. saved \ DOMAIN new.records
               PROVE  taken[k].t < floor \/ \E span \in spans : Covers(span, taken[k].t) /\ span.to <= floor
    BY <1>1, <1>3 DEF Lost
  <2>1. CASE k \notin DOMAIN file.records
    BY <2>1 DEF FileInv, Lost
  <2>2. CASE k \in DOMAIN file.records /\ file.records[k].t < cutoff
    BY <1>1, <1>5, <2>2
  <2>3. CASE k \in DOMAIN file.records /\ ~ (file.records[k].t < cutoff)
    <3>1. PICK b : b = file.records[k].boot
      OBVIOUS
    <3>2. b \in DOMAIN file.began /\ b \notin DOMAIN new.began /\ file.began[b] <= taken[k].t
          /\ \A c \in DOMAIN file.began : b < c => taken[k].t <= file.began[c]
      BY <1>4, <1>5, <2>3, <3>1 DEF FileInv, Filed
    <3>3. Stays(file, boot, b, cutoff)
      <4>1. k \in Of(file, b) /\ file.records[k].t >= cutoff
        BY <1>5, <2>3, <3>1 DEF Of
      <4> QED
        BY <4>1 DEF Stays
    <3>4. ~Usable(file, b)
      BY <1>4, <3>2, <3>3
    <3> DEFINE gap == [from |-> file.began[b], to |-> NextBegin(file, b)]
    <3>5. gap \in GapsOf(file) /\ gap.to = NextBegin(file, b) /\ gap.from = file.began[b]
      BY <3>2, <3>4 DEF GapsOf
    <3> HIDE DEF gap
    <3>6. gap.to <= cutoff
      BY <1>1, <3>5
    <3>7. gap.to # Forever /\ gap.to \in Nat
      <4>1. NextBegin(file, b) \in 1 .. Forever
        BY NextBeginFacts DEF IndexTypeOK
      <4> QED
        BY <3>5, <3>6, <4>1, IndexNumbers
    <3>8. taken[k].t <= gap.to
      <4>1. \E c \in DOMAIN file.began : b < c /\ NextBegin(file, b) = file.began[c]
        BY <3>5, <3>7, NextBeginFacts DEF IndexTypeOK
      <4> QED
        BY <3>2, <3>5, <4>1
    <3>9. gap \in spans
      BY <3>5, <3>7 DEF FileInv, Reported
    <3>10. gap.to <= floor
      BY <1>1, <1>5, <3>6, <3>7
    <3> QED
      BY <3>2, <3>5, <3>8, <3>9, <3>10 DEF Covers
  <2> QED
    BY <2>1, <2>2, <2>3
<1>18. Reported'
  <2>1. \A b \in DOMAIN new.began : Usable(new, b)
    BY <1>4 DEF Usable
  <2>2. GapsOf(new) = {}
    BY <2>1 DEF GapsOf
  <2> QED
    BY <1>3, <2>2 DEF Reported
<1>19. Remembered'
  <2>1. Of(file', boot) # {}
    BY <1>3, <1>9
  <2>2. ASSUME ~poisoned
        PROVE  /\ \A k \in Sampled(boot) : k <= saved => Grows(taken[k].state, file.records[own].state)
               /\ file.records[own].t <= writer.at
               /\ sampler.at = "indexed" => writer.at <= sampler.record.t
    <3>1. PICK j \in Of(file, boot) :
            \A k \in Sampled(boot) : k <= saved => Grows(taken[k].state, file.records[j].state)
      BY <1>1, <1>2, <2>2 DEF Remembered
    <3>2. j \in DOMAIN file.records /\ file.records[j].boot = boot
      BY DEF Of
    <3>3. PICK m \in Of(new, boot) : Grows(file.records[j].state, file.records[m].state)
      BY <1>4, <1>7, <3>2
    <3>4. m <= own /\ m \in DOMAIN file.records /\ file.records[m].boot = boot
      BY <1>4, <1>6, <1>9
    <3>5. Grows(file.records[m].state, file.records[own].state)
      <4>1. CASE m = own
        BY <1>5, <1>9, <4>1, GrowsFacts
      <4>2. CASE m < own
        BY <1>5, <1>9, <3>4, <4>2 DEF InOrder
      <4> QED
        BY <1>5, <1>9, <3>4, <4>1, <4>2
    <3>6. Grows(file.records[j].state, file.records[own].state)
      BY <1>5, <1>9, <3>2, <3>3, <3>4, <3>5, GrowsFacts
    <3>7. \A k \in Sampled(boot) : k <= saved => Grows(taken[k].state, file.records[own].state)
      <4> SUFFICES ASSUME NEW k \in Sampled(boot), k <= saved
                   PROVE  Grows(taken[k].state, file.records[own].state)
        OBVIOUS
      <4>1. taken[k].state \in Snapshot /\ Grows(taken[k].state, file.records[j].state)
        BY <1>5, <3>1 DEF Sampled, Numbers
      <4> QED
        BY <1>5, <1>9, <3>2, <3>6, <4>1, GrowsFacts
    <3>8. file.records[own].t <= writer.at /\ (sampler.at = "indexed" => writer.at <= sampler.record.t)
      BY <1>2, <1>9, <2>2 DEF Remembered
    <3> QED
      BY <3>7, <3>8
  <2>3. file'.began[boot] <= writer'.at
    BY <1>3, <1>4, <1>7, <1>9, <1>10 DEF FileInv, Filed
  <2>4. \A j \in Of(file', boot) : file'.records[j].t <= writer'.at
    <3> SUFFICES ASSUME NEW j \in Of(new, boot) PROVE new.records[j].t <= file.records[own].t
      BY <1>3, <1>10
    <3>1. j <= own /\ j \in DOMAIN file.records /\ new.records[j] = file.records[j]
      BY <1>4, <1>6, <1>9
    <3> QED
      BY <1>5, <1>9, <3>1
  <2>5. ~poisoned /\ sampler.at = "indexed" => writer'.at <= sampler.record.t
    <3> SUFFICES ASSUME ~poisoned, sampler.at = "indexed" PROVE file.records[own].t <= sampler.record.t
      BY <1>10
    <3>1. file.records[own].t <= writer.at /\ writer.at <= sampler.record.t
      BY <2>2
    <3>2. writer.at \in Nat /\ sampler.record.t \in Nat
      BY IndexTypes, IndexNumbers DEF IndexTypeOK, Idle, Record
    <3> QED
      BY <1>5, <1>9, <3>1, <3>2
  <2>6. writer'.state # None
    <3>1. [is |-> file.records[own].state] # None
      BY DEF None
    <3> QED
      BY <1>10, <3>1
  <2>7. ~poisoned => \E j \in Of(file', boot) :
          /\ writer'.state = [is |-> file'.records[j].state]
          /\ \A k \in Sampled(boot) : k <= saved => Grows(taken[k].state, file'.records[j].state)
    BY <1>3, <1>9, <1>10, <2>2
  <2> QED
    BY <1>1, <1>12, <2>1, <2>3, <2>4, <2>5, <2>6, <2>7 DEF Remembered
<1>20. GapsKnown'
  <2>1. \A gap \in index.gaps : gap \in GapsOf(file) \/ gap.to <= floor \/ gap \in healed
    BY <1>2 DEF GapsKnown
  <2>2. \A gap \in index.gaps : gap.to \in Nat
    BY GapFacts DEF IndexTypeOK, Index
  <2>3. \A gap \in index.gaps : gap.to <= floor \/ gap \in healed
    BY <1>1, <1>5, <2>1, <2>2
  <2> QED
    BY <1>1, <2>3 DEF GapsKnown
<1> QED
  BY <1>11, <1>12, <1>13, <1>14, <1>15, <1>16, <1>17, <1>18, <1>19, <1>20 DEF FileInv

LEMMA IndexInvStep == IndexInv /\ [IndexNext]_indexVars => IndexInv'
<1> SUFFICES ASSUME IndexInv, [IndexNext]_indexVars PROVE IndexInv'
  OBVIOUS
<1>1. ASSUME NEW s \in Series, Observe(s) PROVE IndexInv'
  BY <1>1, InvObserve
<1>2. CASE Render
  BY <1>2, InvRender
<1>3. CASE AppendToFile
  BY <1>3, InvAppendToFile
<1>4. CASE AppendFails
  BY <1>4, InvAppendFails
<1>5. ASSUME NEW now \in Time, AppendToIndex(now) PROVE IndexInv'
  BY <1>5, InvAppendToIndex
<1>6. ASSUME NEW now \in Time, OpenHistory(now) PROVE IndexInv'
  BY <1>6, InvOpenHistory
<1>7. CASE Crash
  BY <1>7, InvCrash
<1>8. ASSUME NEW d \in Retention, NEW now \in Time, Reconfigure(d, now) PROVE IndexInv'
  BY <1>8, InvReconfigure
<1>9. CASE StartWorker \/ GiveUp
  BY <1>9, InvWorker
<1>10. CASE Install
  BY <1>10, InvInstall
<1>11. ASSUME NEW cutoff \in Time, Replace(cutoff) PROVE IndexInv'
  BY <1>11, InvReplace
<1>12. CASE UNCHANGED indexVars
  <2>1. /\ UNCHANGED <<up, boot, live, days, sampler, file, writer, poisoned, unended, index, worker>>
        /\ UNCHANGED <<taken, saved, floor, spans, healed>>
    BY <1>12 DEF indexVars
  <2>2. IndexTypeOK' /\ InOrder' /\ SamplerStands'
    BY <2>1 DEF IndexInv, IndexTypeOK, InOrder, SamplerStands, Points, Numbers, Sampled
  <2> QED
    BY <2>1, <2>2, FileInvKept, PointsInvKept, GapsKnownKept, RememberedKept DEF IndexInv
<1> QED
  BY <1>1, <1>2, <1>3, <1>4, <1>5, <1>6, <1>7, <1>8, <1>9, <1>10, <1>11, <1>12 DEF IndexNext

LEMMA IndexInvariant == IndexSpec => []IndexInv
BY IndexInvInit, IndexInvStep, PTL DEF IndexSpec

\* Type correctness.
THEOREM IndexTyped == IndexSpec => []IndexTypeOK
<1>1. IndexInv => IndexTypeOK
  BY DEF IndexInv
<1> QED
  BY <1>1, IndexInvariant, PTL

\* A window that is reported complete has the increments of the samples that were
\* taken in it, each once.
THEOREM IndexTotalsExact == IndexSpec => []TotalsExact
<1>1. IndexInv => TotalsExact
  <2> SUFFICES ASSUME IndexInv, NEW from \in 0 .. MaxTime, NEW to \in Time, NEW s \in Series,
                      up, Complete(from, to), from + 1 >= floor, ~AtAnEdge(from, to), ~Unread(from, to)
               PROVE  Totals(from, to, s) = Counted(from, to, s)
    BY DEF TotalsExact
  <2> USE DEF IndexInv
  <2> DEFINE all == {i \in DOMAIN taken : from < taken[i].t /\ taken[i].t <= to}
             in == In(from, to)
  <2>1. /\ from \in Nat /\ to \in Nat /\ floor \in Nat
        /\ \A i \in Numbers : taken[i].t \in Nat
        /\ Points \subseteq Numbers
        /\ \A i \in Points : index.points[i].t = taken[i].t
    BY IndexTypes, IndexNumbers DEF PointsInv, Pointed
  <2>2. \A span \in spans : span.from \in Nat /\ span.to \in Nat
    BY GapFacts DEF IndexTypeOK
  <2>3. ASSUME NEW k \in all PROVE k \in Points
    <3>1. k \in Numbers /\ taken[k].t \in Nat /\ from < taken[k].t /\ taken[k].t <= to /\ taken[k].t >= floor
      BY <2>1 DEF Numbers
    <3> SUFFICES ASSUME k \notin Points PROVE FALSE
      OBVIOUS
    <3>2. \/ \E gap \in index.gaps \cup healed : Covers(gap, taken[k].t)
          \/ \E span \in spans : Covers(span, taken[k].t) /\ span.to <= floor
      BY <2>1, <3>1 DEF PointsInv, Pointed
    <3>3. CASE \E gap \in index.gaps \cup healed : Covers(gap, taken[k].t)
      <4>1. PICK gap \in index.gaps \cup healed : Covers(gap, taken[k].t)
        BY <3>3
      <4>2. gap \in spans
        BY <4>1 DEF GapsKnown, IndexTypeOK
      <4>3. ~ (gap.from < to /\ from < gap.to)
        BY <4>1 DEF Complete, Unread, Overlaps
      <4>4. gap.from = to
        BY <2>1, <2>2, <3>1, <4>1, <4>2, <4>3 DEF Covers
      <4> QED
        BY <4>2, <4>4 DEF AtAnEdge
    <3>4. CASE \E span \in spans : Covers(span, taken[k].t) /\ span.to <= floor
      <4>1. PICK span \in spans : Covers(span, taken[k].t) /\ span.to <= floor
        BY <3>4
      <4>2. span.to = from + 1
        BY <2>1, <2>2, <3>1, <4>1 DEF Covers
      <4> QED
        BY <4>1, <4>2 DEF AtAnEdge
    <3> QED
      BY <3>2, <3>3, <3>4
  <2>4. in = all
    BY <2>1, <2>3 DEF In, Numbers
  <2>5. \A i \in in : Delta(i, s) = Increment(i, s)
    <3> SUFFICES ASSUME NEW i \in Points, from < index.points[i].t PROVE Delta(i, s) = Increment(i, s)
      BY DEF In
    <3>1. taken[i].t >= floor
      BY <2>1
    <3> QED
      BY <3>1 DEF PointsInv, Pointed
  <2> HIDE DEF all, in
  <2>6. [i \in in |-> Delta(i, s)] = [i \in all |-> Increment(i, s)]
    BY <2>4, <2>5
  <2>7. Totals(from, to, s) = Total([i \in in |-> Delta(i, s)])
    BY DEF Totals, in
  <2>8. Counted(from, to, s) = Total([i \in all |-> Increment(i, s)])
    BY DEF Counted, all
  <2> QED
    BY <2>6, <2>7, <2>8
<1> QED
  BY <1>1, IndexInvariant, PTL

-----------------------------------------------------------------------------
(* Sums.                                                                   *)

\* A function of the sets of some numbers, that is the sum over each.
IsSum(g, f, D) ==
  g = [S \in SUBSET D |-> IF S = {} THEN 0 ELSE f[Max(S)] + g[S \ {Max(S)}]]

LEMMA SumsAre ==
  ASSUME NEW f, NEW D, NEW g, IsSum(g, f, D), NEW S \in SUBSET D
  PROVE  g[S] = IF S = {} THEN 0 ELSE f[Max(S)] + g[S \ {Max(S)}]
<1>1. g = [R \in SUBSET D |-> IF R = {} THEN 0 ELSE f[Max(R)] + g[R \ {Max(R)}]]
  BY DEF IsSum
<1> QED
  BY <1>1

LEMMA SumsWhen ==
  ASSUME NEW f, NEW D, NEW g, g = [S \in SUBSET D |-> g[S]],
         \A S \in SUBSET D : g[S] = IF S = {} THEN 0 ELSE f[Max(S)] + g[S \ {Max(S)}]
  PROVE  IsSum(g, f, D)
<1> DEFINE h == [S \in SUBSET D |-> IF S = {} THEN 0 ELSE f[Max(S)] + g[S \ {Max(S)}]]
<1>1. DOMAIN h = SUBSET D /\ \A S \in SUBSET D : h[S] = g[S]
  OBVIOUS
<1>2. h = [S \in SUBSET D |-> h[S]]
  OBVIOUS
<1>3. h = g
  <2> HIDE DEF h
  <2> QED
    BY <1>1, <1>2
<1> QED
  BY <1>3 DEF IsSum

LEMMA SumsExist ==
  ASSUME NEW f, NEW D, NEW N \in Nat, D \subseteq 0 .. N
  PROVE  \E g : IsSum(g, f, D)
<1> DEFINE Up(n) == {i \in D : i < n}
           T == {n \in Nat : \E g : IsSum(g, f, Up(n))}
<1>0. \A i \in D : i \in Nat /\ i <= N /\ ~ (i < 0) /\ i < N + 1
  OBVIOUS
<1>1. 0 \in T
  <2>1. Up(0) = {}
    BY <1>0
  <2> DEFINE g == [S \in SUBSET {} |-> 0]
  <2>2. g = [S \in SUBSET {} |-> g[S]] /\ \A S \in SUBSET {} : S = {} /\ g[S] = 0
    OBVIOUS
  <2>3. IsSum(g, f, {})
    <3> HIDE DEF g
    <3> QED
      BY <2>2, SumsWhen
  <2> HIDE DEF g, Up
  <2> QED
    BY <2>1, <2>3
<1>2. ASSUME NEW n \in Nat, n \in T PROVE n + 1 \in T
  <2>1. PICK g : IsSum(g, f, Up(n))
    BY <1>2
  <2>2. CASE n \notin D
    <3>1. \A i \in D : i < n + 1 <=> i < n
      BY <1>0, <2>2
    <3>2. Up(n + 1) = Up(n)
      BY <3>1
    <3> HIDE DEF Up
    <3> QED
      BY <2>1, <3>2
  <2>3. CASE n \in D
    <3>1. Up(n + 1) = Up(n) \cup {n} /\ n \notin Up(n) /\ Up(n) \subseteq 0 .. N /\ Up(n + 1) \subseteq 0 .. N
          /\ \A i \in Up(n + 1) : i <= n
      <4>1. \A i \in D : (i < n + 1 <=> i < n \/ i = n) /\ (i < n + 1 => i <= n) /\ i \in 0 .. N
        BY <1>0
      <4>2. ~ (n < n)
        OBVIOUS
      <4> QED
        BY <2>3, <4>1, <4>2
    <3> HIDE DEF Up
    <3>2. \A S \in SUBSET Up(n) : g[S] = IF S = {} THEN 0 ELSE f[Max(S)] + g[S \ {Max(S)}]
      BY <2>1, SumsAre
    <3>6. {} \in SUBSET Up(n)
      OBVIOUS
    <3> DEFINE h == [S \in SUBSET Up(n + 1) |-> IF n \in S THEN f[n] + g[S \ {n}] ELSE g[S]]
    <3>3. /\ \A S \in SUBSET Up(n + 1) : h[S] = IF n \in S THEN f[n] + g[S \ {n}] ELSE g[S]
          /\ h = [S \in SUBSET Up(n + 1) |-> h[S]]
      OBVIOUS
    <3> HIDE DEF h
    <3>4. ASSUME NEW S \in SUBSET Up(n + 1)
          PROVE  h[S] = IF S = {} THEN 0 ELSE f[Max(S)] + h[S \ {Max(S)}]
      <4>1. CASE S = {}
        BY <3>2, <3>3, <3>6, <4>1
      <4>2. CASE n \in S
        <5>1. Max(S) = n
          BY <3>1, <4>2, MaxIs
        <5>2. S \ {n} \in SUBSET Up(n + 1) /\ n \notin S \ {n}
          OBVIOUS
        <5>3. h[S] = f[n] + g[S \ {n}] /\ h[S \ {n}] = g[S \ {n}]
          BY <3>3, <4>2, <5>2
        <5> QED
          BY <4>2, <5>1, <5>3
      <4>3. CASE S # {} /\ n \notin S
        <5>1. S \in SUBSET Up(n) /\ S \subseteq 0 .. N
          BY <3>1, <4>3
        <5>2. PICK m : m = Max(S)
          OBVIOUS
        <5>3. S \ {m} \in SUBSET Up(n + 1) /\ n \notin S \ {m}
          BY <4>3
        <5>4. h[S] = g[S] /\ h[S \ {m}] = g[S \ {m}]
          BY <3>3, <4>3, <5>3
        <5> QED
          BY <3>2, <4>3, <5>1, <5>2, <5>4
      <4> QED
        BY <4>1, <4>2, <4>3
    <3>5. IsSum(h, f, Up(n + 1))
      BY <3>3, <3>4, SumsWhen
    <3> QED
      BY <3>5
  <2> QED
    BY <2>2, <2>3
<1>3. N + 1 \in T
  <2> HIDE DEF T
  <2>1. \A n \in Nat : n \in T
    BY <1>1, <1>2, Inductive
  <2> QED
    BY <2>1
<1>4. Up(N + 1) = D
  BY <1>0
<1> HIDE DEF Up
<1> QED
  BY <1>3, <1>4

\* Sums of functions that agree do.
Agree(f, e, C, D, N) == C \subseteq D /\ D \subseteq 0 .. N /\ \A i \in C : f[i] = e[i]

LEMMA SumsAgree ==
  ASSUME NEW f, NEW e, NEW D, NEW C, NEW N \in Nat, Agree(f, e, C, D, N),
         NEW g, IsSum(g, f, D), NEW h, IsSum(h, e, C), NEW S \in SUBSET C
  PROVE  g[S] = h[S]
<1> USE DEF Agree
<1> DEFINE Up(n) == {i \in C : i < n}
           T == {n \in Nat : \A R \in SUBSET Up(n) : g[R] = h[R]}
<1>0. \A R \in SUBSET D : g[R] = IF R = {} THEN 0 ELSE f[Max(R)] + g[R \ {Max(R)}]
  <2>1. g = [R \in SUBSET D |-> IF R = {} THEN 0 ELSE f[Max(R)] + g[R \ {Max(R)}]]
    BY ONLY IsSum(g, f, D) DEF IsSum
  <2> QED
    BY ONLY <2>1
<1>7. \A R \in SUBSET C : h[R] = IF R = {} THEN 0 ELSE e[Max(R)] + h[R \ {Max(R)}]
  <2>1. h = [R \in SUBSET C |-> IF R = {} THEN 0 ELSE e[Max(R)] + h[R \ {Max(R)}]]
    BY ONLY IsSum(h, e, C) DEF IsSum
  <2> QED
    BY ONLY <2>1
<1>5. g[{}] = 0 /\ h[{}] = 0
  <2>1. {} \in SUBSET C /\ {} \in SUBSET D
    OBVIOUS
  <2> QED
    BY <1>0, <1>7, <2>1
<1>6. \A i \in C : i \in Nat /\ i <= N /\ ~ (i < 0) /\ i < N + 1 /\ i \in D /\ i \in 0 .. N
  OBVIOUS
<1>1. 0 \in T
  <2>1. \A R \in SUBSET Up(0) : R = {}
    BY <1>6
  <2> QED
    BY <1>5, <2>1
<1>2. ASSUME NEW n \in Nat, n \in T PROVE n + 1 \in T
  <2>1. ASSUME NEW R \in SUBSET Up(n + 1) PROVE g[R] = h[R]
    <3>1. CASE R = {}
      BY <1>5, <3>1
    <3>2. CASE R # {}
      <4>1. R \subseteq 0 .. N /\ R \in SUBSET C /\ R \in SUBSET D /\ \A i \in R : i <= n /\ i \in Nat
        BY <1>6
      <4>2. PICK m : m = Max(R)
        OBVIOUS
      <4>3. m \in R /\ \A x \in R : x <= m
        BY <3>2, <4>1, <4>2, MaxFacts
      <4>4. R \ {m} \in SUBSET Up(n)
        <5>1. \A i \in R \ {m} : i \in C /\ i < n
          BY <4>1, <4>3
        <5> QED
          BY <5>1
      <4>5. g[R \ {m}] = h[R \ {m}]
        BY <1>2, <4>4
      <4>6. f[m] = e[m]
        BY <4>1, <4>3 DEF Agree
      <4> QED
        BY <1>0, <1>7, <3>2, <4>1, <4>2, <4>5, <4>6
    <3> QED
      BY <3>1, <3>2
  <2>2. \A R \in SUBSET Up(n + 1) : g[R] = h[R]
    BY <2>1
  <2>3. n + 1 \in Nat
    OBVIOUS
  <2> HIDE DEF Up
  <2> QED
    BY <2>2, <2>3
<1>3. N + 1 \in T
  <2> HIDE DEF T
  <2>1. \A n \in Nat : n \in T
    BY <1>1, <1>2, Inductive
  <2> QED
    BY <2>1
<1>4. Up(N + 1) = C
  BY <1>6
<1> HIDE DEF Up
<1> QED
  BY <1>3, <1>4

LEMMA TotalIs ==
  ASSUME NEW f, NEW N \in Nat, DOMAIN f \subseteq 0 .. N
  PROVE  \E g : IsSum(g, f, DOMAIN f) /\ Total(f) = g[DOMAIN f]
<1> DEFINE g == CHOOSE g : IsSum(g, f, DOMAIN f)
<1>1. IsSum(g, f, DOMAIN f)
  <2>1. \E h : IsSum(h, f, DOMAIN f)
    BY SumsExist
  <2> QED
    BY <2>1
<1>2. Total(f) = g[DOMAIN f]
  BY DEF Total, IsSum
<1> HIDE DEF g
<1> QED
  BY <1>1, <1>2

\* The sum of nothing, and of some numbers by the last.
LEMMA TotalFacts ==
  ASSUME NEW f, NEW N \in Nat, DOMAIN f \subseteq 0 .. N
  PROVE  /\ DOMAIN f = {} => Total(f) = 0
         /\ DOMAIN f # {} =>
              Total(f) = f[Max(DOMAIN f)] + Total([i \in DOMAIN f \ {Max(DOMAIN f)} |-> f[i]])
<1> DEFINE D == DOMAIN f
<1>1. PICK g : IsSum(g, f, D) /\ Total(f) = g[D]
  BY TotalIs
<1>2. \A S \in SUBSET D : g[S] = IF S = {} THEN 0 ELSE f[Max(S)] + g[S \ {Max(S)}]
  <2>1. IsSum(g, f, D)
    BY <1>1
  <2> HIDE DEF D
  <2> QED
    BY <2>1, SumsAre
<1>3. ASSUME D # {}
      PROVE  Total(f) = f[Max(D)] + Total([i \in D \ {Max(D)} |-> f[i]])
  <2>1. PICK C : C = D \ {Max(D)}
    OBVIOUS
  <2>2. PICK e : e = [i \in C |-> f[i]]
    OBVIOUS
  <2>3. DOMAIN e = C /\ C \subseteq D /\ C \subseteq 0 .. N /\ \A i \in C : f[i] = e[i]
    BY <2>1, <2>2
  <2>4. PICK h : IsSum(h, e, C) /\ Total(e) = h[C]
    BY <2>3, TotalIs
  <2>5. g[C] = h[C]
    <3> HIDE DEF D
    <3>1. D \subseteq 0 .. N /\ IsSum(g, f, D) /\ IsSum(h, e, C)
      BY <1>1, <2>4 DEF D
    <3>2. C \in SUBSET C /\ Agree(f, e, C, D, N)
      BY <2>3, <3>1 DEF Agree
    <3> QED
      BY ONLY N \in Nat, <2>3, <3>1, <3>2, SumsAgree
  <2>6. g[D] = f[Max(D)] + g[D \ {Max(D)}]
    <3> D \in SUBSET D
      OBVIOUS
    <3> QED
      BY <1>2, <1>3
  <2> QED
    BY <1>1, <2>1, <2>2, <2>4, <2>5, <2>6
<1>4. D = {} => Total(f) = 0
  <2> {} \in SUBSET D
    OBVIOUS
  <2> QED
    BY <1>1, <1>2
<1> QED
  BY <1>3, <1>4

-----------------------------------------------------------------------------
(* What is counted by a boot, and what the points of it come to.           *)

\* The sum over one number more, the greatest.
LEMMA TotalWith ==
  ASSUME NEW f, NEW e, NEW D, NEW n \in Nat, D \subseteq 0 .. n, n \notin D,
         DOMAIN f = D \cup {n}, e = [i \in D |-> f[i]]
  PROVE  Total(f) = f[n] + Total(e)
<1>1. n \in DOMAIN f /\ DOMAIN f \subseteq 0 .. n /\ \A i \in DOMAIN f : i <= n
  <2>1. \A i \in D : i \in 0 .. n /\ i <= n
    OBVIOUS
  <2>2. n \in 0 .. n /\ n <= n
    OBVIOUS
  <2> QED
    BY <2>1, <2>2
<1>2. Max(DOMAIN f) = n
  BY <1>1, MaxIs
<1>3. DOMAIN f \ {n} = D
  OBVIOUS
<1>4. Total(f) = f[n] + Total([i \in DOMAIN f \ {n} |-> f[i]])
  BY <1>1, <1>2, TotalFacts
<1> QED
  BY <1>3, <1>4

\* What the runs of the program counted that are over.
LastUpTo(k, s) == Total([b \in 1 .. k |-> LastCount(b, s)])

LEMMA LastCountFacts ==
  ASSUME IndexTypeOK, InOrder, NEW b \in Nat, NEW s \in Series
  PROVE  /\ LastCount(b, s) \in Nat
         /\ \A i \in Sampled(b) : Count(taken[i].state, s) <= LastCount(b, s)
<1> DEFINE S == Sampled(b)
<1>1. CASE S = {}
  BY <1>1 DEF LastCount
<1>2. CASE S # {}
  <2>1. Len(taken) \in Nat /\ S \subseteq 0 .. Len(taken) /\ S \subseteq Numbers
        /\ \A i \in Numbers : i \in Nat /\ taken[i].state \in Snapshot
    BY IndexTypes DEF Sampled, Numbers
  <2>2. Max(S) \in S /\ \A i \in S : i <= Max(S)
    BY <1>2, <2>1, MaxFacts
  <2>3. PICK m : m = Max(S)
    OBVIOUS
  <2>4. LastCount(b, s) = Count(taken[m].state, s)
    BY <1>2, <2>3 DEF LastCount
  <2> HIDE DEF S
  <2>5. \A i \in S : i = m \/ i < m
    <3>1. m \in Nat /\ \A i \in S : i \in Nat /\ i <= m
      BY <2>1, <2>2, <2>3
    <3> QED
      BY <3>1
  <2>6. \A i \in S : Count(taken[i].state, s) \in Nat /\ Count(taken[m].state, s) \in Nat
    BY <2>1, <2>2, <2>3, CountFacts
  <2>7. \A i \in S : taken[i].boot = b
    BY DEF S, Sampled
  <2>8. \A i \in S : i < m => Grows(taken[i].state, taken[m].state)
    BY <2>1, <2>2, <2>3, <2>7 DEF InOrder
  <2>9. \A i \in S : Count(taken[i].state, s) <= Count(taken[m].state, s)
    BY <2>5, <2>6, <2>8 DEF Grows
  <2> QED
    BY <2>2, <2>3, <2>4, <2>6, <2>9 DEF S
<1> QED
  BY <1>1, <1>2

LEMMA LastUpToFacts ==
  ASSUME IndexTypeOK, InOrder, NEW s \in Series
  PROVE  /\ LastUpTo(0, s) = 0
         /\ \A k \in Nat : /\ LastUpTo(k, s) \in Nat
                           /\ LastUpTo(k + 1, s) = LastUpTo(k, s) + LastCount(k + 1, s)
<1>1. LastUpTo(0, s) = 0
  <2> DEFINE f == [b \in 1 .. 0 |-> LastCount(b, s)]
  <2>1. DOMAIN f = {} /\ DOMAIN f \subseteq 0 .. 0
    OBVIOUS
  <2> HIDE DEF f
  <2>2. Total(f) = 0
    BY <2>1, TotalFacts
  <2> QED
    BY <2>2 DEF LastUpTo, f
<1>2. ASSUME NEW k \in Nat
      PROVE  LastUpTo(k + 1, s) = LastCount(k + 1, s) + LastUpTo(k, s) /\ LastCount(k + 1, s) \in Nat
  <2> DEFINE f == [b \in 1 .. k + 1 |-> LastCount(b, s)]
             e == [b \in 1 .. k |-> LastCount(b, s)]
  <2>1. PICK n : n = k + 1
    OBVIOUS
  <2>2. n \in Nat /\ 1 .. k \subseteq 0 .. n /\ n \notin 1 .. k /\ DOMAIN f = (1 .. k) \cup {n} /\ n \in 1 .. k + 1
    BY <2>1
  <2>3. e = [i \in 1 .. k |-> f[i]]
    OBVIOUS
  <2>4. f[n] = LastCount(k + 1, s)
    BY <2>1, <2>2
  <2>5. Total(f) = LastUpTo(k + 1, s) /\ Total(e) = LastUpTo(k, s)
    BY DEF LastUpTo
  <2> DEFINE D == 1 .. k
  <2> HIDE DEF f, e
  <2>6. Total(f) = f[n] + Total(e)
    <3>1. D \subseteq 0 .. n /\ n \notin D /\ DOMAIN f = D \cup {n} /\ e = [i \in D |-> f[i]] /\ n \in Nat
      BY <2>2, <2>3
    <3> HIDE DEF D
    <3> QED
      BY <3>1, TotalWith
  <2>7. LastCount(k + 1, s) \in Nat
    BY LastCountFacts
  <2>8. LastUpTo(k + 1, s) = LastCount(k + 1, s) + LastUpTo(k, s)
    BY <2>4, <2>5, <2>6
  <2> QED
    BY <2>7, <2>8
<1> DEFINE T == {k \in Nat : LastUpTo(k, s) \in Nat}
<1>3. \A k \in Nat : k \in T
  <2>1. 0 \in T
    BY <1>1
  <2>2. \A k \in Nat : k \in T => k + 1 \in T
    BY <1>2
  <2> HIDE DEF T
  <2> QED
    BY <2>1, <2>2, Inductive
<1> QED
  BY <1>1, <1>2, <1>3

LEMMA LastUpToGrows ==
  ASSUME IndexTypeOK, InOrder, NEW s \in Series, NEW j \in Nat, NEW k \in Nat, j <= k
  PROVE  LastUpTo(j, s) <= LastUpTo(k, s)
<1> DEFINE T == {n \in Nat : j <= n => LastUpTo(j, s) <= LastUpTo(n, s)}
<1>1. \A n \in Nat : /\ LastUpTo(n, s) \in Nat /\ LastCount(n + 1, s) \in Nat
                     /\ LastUpTo(n + 1, s) = LastUpTo(n, s) + LastCount(n + 1, s)
  BY LastUpToFacts, LastCountFacts
<1>2. 0 \in T
  BY <1>1
<1>3. ASSUME NEW n \in Nat, n \in T PROVE n + 1 \in T
  <2>1. LastUpTo(n, s) <= LastUpTo(n + 1, s) /\ LastUpTo(j, s) \in Nat /\ LastUpTo(n, s) \in Nat
        /\ LastUpTo(n + 1, s) \in Nat
    BY <1>1
  <2>2. j <= n + 1 => j <= n \/ j = n + 1
    OBVIOUS
  <2> QED
    BY <1>3, <2>1, <2>2
<1>4. k \in T
  <2> HIDE DEF T
  <2>1. \A n \in Nat : n \in T
    BY <1>2, <1>3, Inductive
  <2> QED
    BY <2>1
<1> QED
  BY <1>4

\* The points up to a number, and what they come to.
UpTo(n) == {j \in Points : j <= n}

SumTo(n, s) == Total([i \in UpTo(n) |-> Delta(i, s)])

LEMMA SumToFacts ==
  ASSUME IndexTypeOK, NEW s \in Series, NEW n \in Nat
  PROVE  /\ UpTo(0) = {} /\ SumTo(0, s) = 0
         /\ n + 1 \notin Points => UpTo(n + 1) = UpTo(n) /\ SumTo(n + 1, s) = SumTo(n, s)
         /\ n + 1 \in Points => /\ UpTo(n + 1) = UpTo(n) \cup {n + 1}
                                /\ SumTo(n + 1, s) = Delta(n + 1, s) + SumTo(n, s)
<1>1. \A i \in Points : i \in Nat /\ 1 <= i
  BY IndexTypes, IndexNumbers
<1>2. UpTo(0) = {}
  BY <1>1 DEF UpTo
<1>3. SumTo(0, s) = 0
  <2> DEFINE f == [i \in UpTo(0) |-> Delta(i, s)]
  <2>1. DOMAIN f = {} /\ DOMAIN f \subseteq 0 .. 0
    BY <1>2
  <2> HIDE DEF f
  <2>2. Total(f) = 0
    BY <2>1, TotalFacts
  <2> QED
    BY <2>2 DEF SumTo, f
<1>4. ASSUME n + 1 \notin Points PROVE UpTo(n + 1) = UpTo(n)
  <2>1. \A i \in Points : i <= n + 1 <=> i <= n
    BY <1>1, <1>4
  <2> QED
    BY <2>1 DEF UpTo
<1>5. ASSUME n + 1 \in Points
      PROVE  UpTo(n + 1) = UpTo(n) \cup {n + 1} /\ SumTo(n + 1, s) = Delta(n + 1, s) + SumTo(n, s)
  <2>1. PICK m : m = n + 1
    OBVIOUS
  <2>2. \A i \in Points : (i <= m <=> i <= n \/ i = m) /\ (i <= n => i # m /\ i \in 0 .. m)
    BY <1>1, <2>1
  <2>3. UpTo(m) = UpTo(n) \cup {m} /\ UpTo(n) \subseteq 0 .. m /\ m \notin UpTo(n)
    BY <1>5, <2>1, <2>2 DEF UpTo
  <2> DEFINE f == [i \in UpTo(m) |-> Delta(i, s)]
             e == [i \in UpTo(n) |-> Delta(i, s)]
  <2>4. DOMAIN f = UpTo(n) \cup {m} /\ e = [i \in UpTo(n) |-> f[i]] /\ f[m] = Delta(m, s)
    BY <2>3
  <2> HIDE DEF f, e
  <2>5. m \in Nat
    BY <2>1
  <2>6. Total(f) = f[m] + Total(e)
    BY <2>3, <2>4, <2>5, TotalWith
  <2>7. SumTo(m, s) = Delta(m, s) + SumTo(n, s)
    BY <2>4, <2>6 DEF SumTo, f, e
  <2> QED
    BY <2>1, <2>3, <2>7
<1> QED
  BY <1>2, <1>3, <1>4, <1>5 DEF SumTo

\* The points up to one come to no more than was counted when it was taken.
Bounded(n, s) ==
  /\ SumTo(n, s) \in Int
  /\ UpTo(n) = {} => SumTo(n, s) = 0
  /\ \A m \in UpTo(n) :
       (\A i \in UpTo(n) : i <= m) =>
         SumTo(n, s) <= Count(taken[m].state, s) + LastUpTo(taken[m].boot - 1, s)

LEMMA PointsBounded ==
  ASSUME IndexInv, up, NEW s \in Series, NEW n \in Nat
  PROVE  Bounded(n, s)
<1> USE DEF IndexInv
<1> DEFINE T == {k \in Nat : Bounded(k, s)}
<1>1. 0 \in T
  BY SumToFacts DEF Bounded
<1>2. ASSUME NEW k \in Nat, Bounded(k, s) PROVE Bounded(k + 1, s)
  <2>1. CASE k + 1 \notin Points
    BY <1>2, <2>1, SumToFacts DEF Bounded
  <2>2. CASE k + 1 \in Points
    <3>0. PICK i : i = k + 1
      OBVIOUS
    <3>1. /\ UpTo(i) = UpTo(k) \cup {i} /\ SumTo(i, s) = Delta(i, s) + SumTo(k, s) /\ i \in Points
          /\ \A j \in UpTo(k) : j \in Points /\ j < i
      <4>1. \A j \in UpTo(k) : j \in Points /\ j \in Nat /\ j <= k
        BY IndexTypes DEF UpTo
      <4>2. \A j \in UpTo(k) : j \in Points /\ j < i
        BY <3>0, <4>1
      <4> QED
        BY <2>2, <3>0, <4>2, SumToFacts
    <3>2. /\ Delta(i, s) \in Nat /\ Count(taken[i].state, s) \in Nat
          /\ Delta(i, s) <= Count(taken[i].state, s)
          /\ \A j \in UpTo(k) :
               taken[j].boot = taken[i].boot => Delta(i, s) <= Count(taken[i].state, s) - Count(taken[j].state, s)
      <4>1. Delta(i, s) \in Nat
        <5>1. index.points[i].deltas \in Partial(Series, 0 .. MaxCount)
          BY <3>1, IndexTypes
        <5> QED
          BY <5>1, PartialFacts, IndexNumbers DEF Delta, Count
      <4>2. Count(taken[i].state, s) \in Nat
        BY <3>1, IndexTypes, CountFacts
      <4> QED
        BY <3>1, <4>1, <4>2 DEF PointsInv, Apportioned
    <3>3. /\ taken[i].boot \in Nat /\ taken[i].boot - 1 \in Nat
          /\ LastUpTo(taken[i].boot - 1, s) \in Nat
      <4>1. taken[i].boot \in Nat /\ taken[i].boot - 1 \in Nat
        BY <3>1, IndexTypes
      <4> QED
        BY <4>1, LastUpToFacts
    <3>4. SumTo(i, s) \in Int
      BY <1>2, <3>1, <3>2 DEF Bounded
    <3>5. SumTo(i, s) <= Count(taken[i].state, s) + LastUpTo(taken[i].boot - 1, s)
      <4>1. CASE UpTo(k) = {}
        <5>1. SumTo(i, s) = Delta(i, s) + 0
          BY <1>2, <3>1, <4>1 DEF Bounded
        <5> QED
          BY <3>2, <3>3, <5>1
      <4>2. CASE UpTo(k) # {}
        <5>1. UpTo(k) \subseteq 0 .. k
          BY IndexTypes DEF UpTo
        <5>2. PICK m \in UpTo(k) : \A j \in UpTo(k) : j <= m
          BY <4>2, <5>1, MaxFacts
        <5>3. /\ SumTo(k, s) <= Count(taken[m].state, s) + LastUpTo(taken[m].boot - 1, s)
              /\ SumTo(k, s) \in Int
          BY <1>2, <5>2 DEF Bounded
        <5>4. /\ m \in Numbers /\ i \in Numbers /\ m < i /\ m \in Points
              /\ taken[m].boot \in Nat /\ taken[m].boot - 1 \in Nat /\ taken[m].boot - 1 + 1 = taken[m].boot
              /\ taken[m].boot <= taken[i].boot /\ Count(taken[m].state, s) \in Nat
          <6>1. m \in Numbers /\ i \in Numbers /\ m < i /\ m \in Points
            BY <3>1, IndexTypes
          <6>2. Count(taken[m].state, s) \in Nat
            BY <6>1, IndexTypes, CountFacts
          <6>3. taken[m].boot \in Nat /\ taken[m].boot - 1 \in Nat /\ taken[m].boot - 1 + 1 = taken[m].boot
            BY <6>1, IndexTypes
          <6>4. taken[m].boot <= taken[i].boot
            BY <6>1 DEF InOrder
          <6> QED
            BY <6>1, <6>2, <6>3, <6>4
        <5>5. CASE taken[m].boot = taken[i].boot
          <6>1. Delta(i, s) <= Count(taken[i].state, s) - Count(taken[m].state, s)
            BY <3>2, <5>5
          <6>2. SumTo(k, s) <= Count(taken[m].state, s) + LastUpTo(taken[i].boot - 1, s)
            BY <5>3, <5>5
          <6> QED
            BY <3>1, <3>2, <3>3, <5>3, <5>4, <6>1, <6>2
        <5>6. CASE taken[m].boot < taken[i].boot
          <6>1. m \in Sampled(taken[m].boot)
            BY <5>4 DEF Sampled, Numbers
          <6>2. /\ Count(taken[m].state, s) <= LastCount(taken[m].boot, s)
                /\ LastCount(taken[m].boot, s) \in Nat
            BY <5>4, <6>1, LastCountFacts
          <6>3. /\ LastUpTo(taken[m].boot - 1 + 1, s)
                     = LastUpTo(taken[m].boot - 1, s) + LastCount(taken[m].boot - 1 + 1, s)
                /\ LastUpTo(taken[m].boot - 1, s) \in Nat
            BY <5>4, LastUpToFacts
          <6>4. /\ LastUpTo(taken[m].boot, s) = LastUpTo(taken[m].boot - 1, s) + LastCount(taken[m].boot, s)
                /\ LastUpTo(taken[m].boot, s) \in Nat
            BY <5>4, <6>2, <6>3
          <6>5. taken[m].boot <= taken[i].boot - 1
            BY <3>3, <5>4, <5>6
          <6>6. LastUpTo(taken[m].boot, s) <= LastUpTo(taken[i].boot - 1, s)
            BY <3>3, <5>4, <6>5, LastUpToGrows
          <6>7. SumTo(k, s) <= LastUpTo(taken[i].boot - 1, s)
            BY <3>3, <5>3, <5>4, <6>2, <6>3, <6>4, <6>6
          <6> QED
            BY <3>1, <3>2, <3>3, <5>3, <6>7
        <5> QED
          BY <3>3, <5>4, <5>5, <5>6
      <4> QED
        BY <4>1, <4>2
    <3>6. \A m \in UpTo(i) : (\A j \in UpTo(i) : j <= m) => m = i
      <4>1. \A m \in UpTo(i) : m = i \/ (m < i /\ m \in Nat)
        BY <3>1, IndexTypes
      <4>2. i \in UpTo(i) /\ i \in Nat
        BY <3>0, <3>1
      <4> QED
        BY <4>1, <4>2
    <3>7. UpTo(i) # {}
      BY <3>1
    <3>8. Bounded(i, s)
      BY <3>4, <3>5, <3>6, <3>7 DEF Bounded
    <3> QED
      BY <3>0, <3>8
  <2> QED
    BY <2>1, <2>2
<1>3. \A k \in Nat : k \in T
  <2>1. \A k \in Nat : k \in T => k + 1 \in T
    BY <1>2
  <2> HIDE DEF T
  <2> QED
    BY <1>1, <2>1, Inductive
<1> QED
  BY <1>3

\* What the page shows, a range and the tail, is no more than was counted.
PageBounded == up => \A s \in Series : Shown(s) + TailOf(s) <= CountedSoFar(s) /\ Shown(s) \in Int

LEMMA PageIsBounded == IndexInv => PageBounded
<1> SUFFICES ASSUME IndexInv, up, NEW s \in Series
             PROVE  Shown(s) + TailOf(s) <= CountedSoFar(s) /\ Shown(s) \in Int
  BY DEF PageBounded
<1> USE DEF IndexInv
<1>1. /\ Points \subseteq 1 .. Samples /\ Samples \in Nat /\ boot \in Nat /\ boot > 0 /\ boot - 1 \in Nat
      /\ boot - 1 + 1 = boot /\ live \in Snapshot /\ Count(live, s) \in Nat
      /\ \A i \in Points : i \in Nat /\ i <= Samples /\ i \in Numbers
  <2>1. /\ Points \subseteq 1 .. Samples /\ Samples \in Nat /\ boot \in Nat /\ boot > 0
        /\ \A i \in Points : i \in Nat /\ i <= Samples /\ i \in Numbers
    BY IndexTypes, IndexNumbers DEF SamplerStands
  <2>2. live \in Snapshot
    BY DEF IndexTypeOK
  <2>3. Count(live, s) \in Nat
    BY <2>2, CountFacts
  <2> QED
    BY <2>1, <2>2, <2>3
<1>2. Shown(s) = SumTo(Samples, s)
  <2>1. UpTo(Samples) = Points
    BY <1>1 DEF UpTo
  <2>2. In(0, MaxTime) = Points
    <3>1. \A i \in Points : 0 < index.points[i].t /\ index.points[i].t <= MaxTime
      BY IndexTypes, IndexNumbers
    <3> QED
      BY <3>1 DEF In
  <2> QED
    BY <2>1, <2>2 DEF Shown, Totals, SumTo
<1>3. LastUpTo(boot, s) = LastUpTo(boot - 1, s) + LastCount(boot, s) /\ LastUpTo(boot - 1, s) \in Nat
      /\ LastUpTo(boot, s) \in Nat /\ LastCount(boot, s) \in Nat
  <2>1. /\ LastUpTo(boot - 1 + 1, s) = LastUpTo(boot - 1, s) + LastCount(boot - 1 + 1, s)
        /\ LastUpTo(boot - 1, s) \in Nat
    BY <1>1, LastUpToFacts
  <2>2. LastUpTo(boot, s) \in Nat /\ LastCount(boot, s) \in Nat
    BY <1>1, LastUpToFacts, LastCountFacts
  <2> QED
    BY <1>1, <2>1, <2>2
<1>4. SumTo(Samples, s) <= LastUpTo(boot, s) /\ SumTo(Samples, s) \in Int
  <2>1. Bounded(Samples, s)
    BY <1>1, PointsBounded
  <2>2. CASE UpTo(Samples) = {}
    <3>1. SumTo(Samples, s) = 0
      BY <2>1, <2>2 DEF Bounded
    <3> QED
      BY <1>3, <3>1
  <2>3. CASE UpTo(Samples) # {}
    <3>1. UpTo(Samples) \subseteq 0 .. Samples
      <4>1. \A i \in Points : i \in 0 .. Samples
        BY <1>1
      <4> QED
        BY <4>1 DEF UpTo
    <3>2. PICK m \in UpTo(Samples) : \A j \in UpTo(Samples) : j <= m
      BY <1>1, <2>3, <3>1, MaxFacts
    <3>3. /\ m \in Numbers /\ taken[m].boot \in Nat /\ taken[m].boot - 1 \in Nat
          /\ taken[m].boot - 1 + 1 = taken[m].boot /\ taken[m].boot <= boot
          /\ Count(taken[m].state, s) \in Nat
      <4>1. m \in Numbers
        BY <1>1 DEF UpTo
      <4>2. taken[m].boot \in Nat /\ taken[m].boot - 1 \in Nat /\ taken[m].boot - 1 + 1 = taken[m].boot
        BY <4>1, IndexTypes
      <4>3. Count(taken[m].state, s) \in Nat
        BY <4>1, IndexTypes, CountFacts
      <4> QED
        BY <4>1, <4>2, <4>3 DEF SamplerStands
    <3>4. SumTo(Samples, s) <= Count(taken[m].state, s) + LastUpTo(taken[m].boot - 1, s)
          /\ SumTo(Samples, s) \in Int
      BY <2>1, <3>2 DEF Bounded
    <3>5. /\ Count(taken[m].state, s) <= LastCount(taken[m].boot, s) /\ LastCount(taken[m].boot, s) \in Nat
      <4>1. m \in Sampled(taken[m].boot)
        BY <3>3 DEF Sampled, Numbers
      <4> QED
        BY <3>3, <4>1, LastCountFacts
    <3>6. /\ LastUpTo(taken[m].boot - 1 + 1, s)
               = LastUpTo(taken[m].boot - 1, s) + LastCount(taken[m].boot - 1 + 1, s)
          /\ LastUpTo(taken[m].boot - 1, s) \in Nat
      BY <3>3, LastUpToFacts
    <3>7. LastUpTo(taken[m].boot, s) <= LastUpTo(boot, s) /\ LastUpTo(taken[m].boot, s) \in Nat
      BY <1>1, <3>3, LastUpToGrows, LastUpToFacts
    <3> QED
      BY <1>3, <3>3, <3>4, <3>5, <3>6, <3>7
  <2> QED
    BY <2>2, <2>3
<1>5. CountedSoFar(s) = Count(live, s) + LastUpTo(boot - 1, s)
  BY DEF CountedSoFar, LastUpTo
<1>6. CASE Sampled(boot) = {}
  <2>1. (index.lastBoot # boot) = TRUE /\ index.last \in Snapshot
    BY <1>6, IndexTypes DEF PointsInv, Pointed
  <2>2. TailOf(s) = Count(Normalize(index.last, live, TRUE), s)
    BY <2>1 DEF TailOf
  <2>3. Count(Normalize(index.last, live, TRUE), s) = Count(live, s) - 0
    BY <1>1, <2>1, NormalizeFacts
  <2>4. LastCount(boot, s) = 0
    BY <1>6 DEF LastCount
  <2>5. TailOf(s) = Count(live, s) - 0
    BY <2>2, <2>3
  <2> QED
    BY <1>1, <1>2, <1>3, <1>4, <1>5, <2>4, <2>5
<1>7. CASE Sampled(boot) # {}
  <2>0. Len(taken) \in Sampled(boot) /\ Max(Sampled(boot)) = Len(taken)
    BY <1>7, LastSampled
  <2>1. PICK last : last = taken[Len(taken)].state
    OBVIOUS
  <2>2. (index.lastBoot # boot) = FALSE /\ index.last = last /\ last \in Snapshot /\ Grows(last, live)
    BY <1>7, <2>0, <2>1, IndexTypes DEF PointsInv, Pointed, SamplerStands
  <2>3. TailOf(s) = Count(Normalize(last, live, FALSE), s)
    BY <2>2 DEF TailOf
  <2>4. Count(Normalize(last, live, FALSE), s) = Count(live, s) - Count(last, s)
    BY <1>1, <2>2, NormalizeFacts
  <2>5. LastCount(boot, s) = Count(last, s)
    BY <1>7, <2>0, <2>1 DEF LastCount
  <2>6. TailOf(s) = Count(live, s) - Count(last, s) /\ Count(last, s) \in Nat
    BY <2>2, <2>3, <2>4, CountFacts
  <2> QED
    BY <1>1, <1>2, <1>3, <1>4, <1>5, <2>5, <2>6
<1> QED
  BY <1>2, <1>4, <1>6, <1>7

\* The points stay what they are as long as the revision does.
LEMMA SameRevision ==
  ASSUME IndexInv, [IndexNext]_indexVars, up, up', index.revision = index'.revision
  PROVE  index'.points = index.points
<1>0. index.revision \in Nat /\ index \in Index
  BY DEF IndexInv, IndexTypeOK, Index
<1>1. ASSUME NEW s \in Series, Observe(s) PROVE index'.points = index.points
  BY <1>1 DEF Observe
<1>2. CASE Render \/ AppendToFile \/ AppendFails
  BY <1>2 DEF Render, AppendToFile, AppendFails
<1>3. ASSUME NEW now \in Time, AppendToIndex(now) PROVE FALSE
  <2>1. \A i, r, c : Indexed(i, r, c).revision = index.revision + 1
    BY <1>0 DEF Indexed, Index
  <2>2. \E i, r, c : index' = Indexed(i, r, c)
    BY <1>3 DEF AppendToIndex
  <2> QED
    BY <1>0, <2>1, <2>2
<1>4. ASSUME NEW now \in Time, OpenHistory(now) PROVE FALSE
  BY <1>4 DEF OpenHistory
<1>5. CASE Crash
  BY <1>5 DEF Crash
<1>6. ASSUME NEW d \in Retention, NEW now \in Time, Reconfigure(d, now) PROVE index'.points = index.points
  <2>1. PICK kept : /\ kept = Pruned(index.points, Cutoff(now, d))
                    /\ index' = [index EXCEPT !.points = kept,
                                             !.revision = IF kept = index.points THEN @ ELSE @ + 1]
    BY <1>6 DEF Reconfigure
  <2>2. index'.points = kept /\ index'.revision = IF kept = index.points THEN index.revision ELSE index.revision + 1
    BY <1>0, <2>1 DEF Index
  <2> QED
    BY <1>0, <2>2
<1>7. CASE StartWorker \/ GiveUp
  BY <1>7 DEF StartWorker, GiveUp
<1>8. CASE Install
  BY <1>0, <1>8 DEF Install, Index
<1>9. ASSUME NEW cutoff \in Time, Replace(cutoff) PROVE index'.points = index.points
  BY <1>9 DEF Replace
<1>10. CASE UNCHANGED indexVars
  BY <1>10 DEF indexVars
<1> QED
  BY <1>1, <1>2, <1>3, <1>4, <1>5, <1>6, <1>7, <1>8, <1>9, <1>10 DEF IndexNext

\* The page never shows more than was counted, whichever half of it is the older.
THEOREM IndexNothingTwice == IndexSpec => NothingTwice
<1>1. /\ IndexInv /\ PageBounded /\ PageBounded' /\ [IndexNext]_indexVars
      => [ up /\ up' /\ index.revision = index'.revision =>
             \A s \in Series :
               /\ Shown(s) + (TailOf(s))' <= (CountedSoFar(s))'
               /\ (Shown(s))' + TailOf(s) <= CountedSoFar(s) ]_indexVars
  <2> SUFFICES ASSUME IndexInv, PageBounded, PageBounded', [IndexNext]_indexVars,
                      up, up', index.revision = index'.revision, NEW s \in Series
               PROVE  /\ Shown(s) + (TailOf(s))' <= (CountedSoFar(s))'
                      /\ (Shown(s))' + TailOf(s) <= CountedSoFar(s)
    OBVIOUS
  <2>1. index'.points = index.points
    BY SameRevision
  <2>2. (Shown(s))' = Shown(s)
    BY <2>1 DEF Shown, Totals, In, Points, Delta
  <2>3. Shown(s) + TailOf(s) <= CountedSoFar(s)
    BY DEF PageBounded
  <2>4. (Shown(s))' + (TailOf(s))' <= (CountedSoFar(s))'
    BY DEF PageBounded
  <2> QED
    BY <2>2, <2>3, <2>4
<1> QED
  BY <1>1, PageIsBounded, IndexInvariant, PTL DEF IndexSpec, NothingTwice

-----------------------------------------------------------------------------
(* Intervals that meet.                                                    *)

\* Each ends where the next one begins.
Meeting(D, lo, hi) ==
  /\ \A b \in D : lo[b] \in Int /\ hi[b] \in Int
  /\ \A b, c \in D : b < c /\ (\A d \in D : ~ (b < d /\ d < c)) => hi[b] = lo[c]

\* Together they last from the beginning of the first to the end of the last.
LEMMA Telescope ==
  ASSUME NEW D, NEW N \in Nat, D \subseteq 0 .. N, D # {}, NEW lo, NEW hi, Meeting(D, lo, hi)
  PROVE  Total([b \in D |-> hi[b] - lo[b]]) = hi[Max(D)] - lo[Min(D)]
<1> DEFINE Up(n) == {d \in D : d < n}
           F(n) == [b \in Up(n) |-> hi[b] - lo[b]]
           Done(n) == /\ Up(n) = {} => Total(F(n)) = 0
                      /\ \A m \in Up(n) :
                           (\A d \in Up(n) : d <= m) => Total(F(n)) = hi[m] - lo[Min(D)]
           T == {n \in Nat : Done(n)}
<1>0. /\ \A d \in D : d \in Nat /\ d <= N /\ d < N + 1 /\ ~ (d < 0) /\ lo[d] \in Int /\ hi[d] \in Int
      /\ Min(D) \in D /\ Max(D) \in D /\ \A d \in D : Min(D) <= d /\ d <= Max(D)
  <2>1. \A d \in D : d \in Nat /\ d <= N /\ d < N + 1 /\ ~ (d < 0)
    OBVIOUS
  <2>2. Min(D) \in D /\ \A d \in D : Min(D) <= d
    BY MinFacts
  <2>3. Max(D) \in D /\ \A d \in D : d <= Max(D)
    BY MaxFacts
  <2> QED
    BY <2>1, <2>2, <2>3 DEF Meeting
<1>1. Done(0)
  <2>1. Up(0) = {}
    BY <1>0
  <2>2. DOMAIN F(0) = {} /\ DOMAIN F(0) \subseteq 0 .. 0
    BY <2>1
  <2> HIDE DEF F
  <2>3. Total(F(0)) = 0
    BY <2>2, TotalFacts
  <2> QED
    BY <2>1, <2>3
<1>2. ASSUME NEW n \in Nat, Done(n) PROVE Done(n + 1)
  <2>1. CASE n \notin D
    <3>1. \A d \in D : d < n + 1 <=> d < n
      BY <1>0, <2>1
    <3>2. Up(n + 1) = Up(n)
      BY <3>1
    <3>3. F(n + 1) = F(n)
      BY <3>2
    <3> HIDE DEF Up, F
    <3> QED
      BY <1>2, <3>2, <3>3
  <2>2. CASE n \in D
    <3>1. /\ Up(n + 1) = Up(n) \cup {n} /\ n \notin Up(n) /\ Up(n) \subseteq 0 .. n
          /\ \A d \in Up(n) : d \in D /\ d < n
          /\ \A d \in D : d < n => d \in Up(n)
      <4>1. \A d \in D : (d < n + 1 <=> d < n \/ d = n) /\ (d < n => d \in 0 .. n)
        BY <1>0
      <4>2. ~ (n < n)
        OBVIOUS
      <4> QED
        BY <2>2, <4>1, <4>2
    <3>2. /\ DOMAIN F(n + 1) = Up(n) \cup {n} /\ F(n) = [d \in Up(n) |-> F(n + 1)[d]]
          /\ F(n + 1)[n] = hi[n] - lo[n]
      BY <3>1
    <3> HIDE DEF Up, F
    <3>3. Total(F(n + 1)) = hi[n] - lo[n] + Total(F(n))
      BY <3>1, <3>2, TotalWith
    <3>4. Total(F(n + 1)) = hi[n] - lo[Min(D)]
      <4>1. CASE Up(n) = {}
        <5>1. Min(D) = n
          <6>1. PICK first : first = Min(D)
            OBVIOUS
          <6>2. first \in D /\ first \in Nat /\ first <= n
            BY <1>0, <2>2, <6>1
          <6>3. ~ (first < n)
            BY <3>1, <4>1, <6>2
          <6> QED
            BY <6>1, <6>2, <6>3
        <5>2. Total(F(n)) = 0
          BY <1>2, <4>1
        <5> QED
          BY <1>0, <2>2, <3>3, <5>1, <5>2
      <4>2. CASE Up(n) # {}
        <5>1. PICK m \in Up(n) : \A d \in Up(n) : d <= m
          BY <3>1, <4>2, MaxFacts
        <5>2. Total(F(n)) = hi[m] - lo[Min(D)]
          BY <1>2, <5>1
        <5>3. \A d \in D : ~ (m < d /\ d < n)
          <6> SUFFICES ASSUME NEW d \in D, m < d, d < n PROVE FALSE
            OBVIOUS
          <6>1. d <= m
            BY <3>1, <5>1
          <6> QED
            BY <1>0, <3>1, <6>1
        <5>4. hi[m] = lo[n]
          BY <2>2, <3>1, <5>3 DEF Meeting
        <5>5. lo[Min(D)] \in Int /\ hi[m] \in Int /\ lo[n] \in Int /\ hi[n] \in Int
          BY <1>0, <2>2, <3>1
        <5> QED
          BY <3>3, <5>2, <5>4, <5>5
      <4> QED
        BY <4>1, <4>2
    <3>5. \A m \in Up(n + 1) : (\A d \in Up(n + 1) : d <= m) => m = n
      <4>1. \A m \in Up(n + 1) : m = n \/ (m < n /\ m \in Nat)
        BY <1>0, <3>1
      <4>2. n \in Up(n + 1)
        BY <3>1
      <4> QED
        BY <4>1, <4>2
    <3> QED
      BY <3>1, <3>4, <3>5
  <2> QED
    BY <2>1, <2>2
<1>3. Done(N + 1)
  <2>1. 0 \in T /\ \A n \in Nat : n \in T => n + 1 \in T
    BY <1>1, <1>2
  <2>2. \A n \in Nat : n \in T => Done(n)
    OBVIOUS
  <2> HIDE DEF T, Done
  <2>3. \A n \in Nat : n \in T
    BY <2>1, Inductive
  <2> QED
    BY <2>2, <2>3
<1>4. Up(N + 1) = D
  BY <1>0
<1>5. F(N + 1) = [b \in D |-> hi[b] - lo[b]]
  BY <1>4
<1>6. \A m \in D : (\A d \in D : d <= m) => Total([b \in D |-> hi[b] - lo[b]]) = hi[m] - lo[Min(D)]
  <2> HIDE DEF Up, F
  <2> QED
    BY <1>3, <1>4, <1>5
<1> QED
  BY <1>0, <1>6

-----------------------------------------------------------------------------
(* The chart.                                                              *)

\* The samples of a window, without a hole and in the order of their times.
LEMMA WindowFacts ==
  ASSUME IndexTypeOK, PointsInOrder, NEW from \in 0 .. MaxTime, NEW to \in Time
  PROVE  /\ In(from, to) \subseteq Points /\ In(from, to) \subseteq 0 .. Samples /\ from \in Nat /\ to \in Nat
         /\ Samples \in Nat /\ Points \subseteq 0 .. Samples
         /\ \A i \in Points : i \in Nat /\ index.points[i].t \in Nat
         /\ \A i \in In(from, to) : from < index.points[i].t /\ index.points[i].t <= to
         /\ \A i, j \in Points : i < j => index.points[i].t <= index.points[j].t
         /\ \A i, j \in In(from, to), k \in Points : i < k /\ k < j => k \in In(from, to)
<1>1. /\ from \in Nat /\ to \in Nat /\ Samples \in Nat /\ Points \subseteq 0 .. Samples
      /\ \A i \in Points : i \in Nat /\ index.points[i].t \in Nat
  BY IndexTypes, IndexNumbers
<1>2. \A i, j \in Points : i < j => index.points[i].t <= index.points[j].t
  BY DEF PointsInOrder
<1>3. ASSUME NEW i \in In(from, to), NEW j \in In(from, to), NEW k \in Points, i < k, k < j
      PROVE  k \in In(from, to)
  <2>1. i \in Points /\ j \in Points /\ from < index.points[i].t /\ index.points[j].t <= to
    BY DEF In
  <2>2. index.points[i].t <= index.points[k].t /\ index.points[k].t <= index.points[j].t
    BY <1>2, <1>3, <2>1
  <2>3. from < index.points[k].t /\ index.points[k].t <= to
    <3>1. /\ index.points[i].t \in Nat /\ index.points[j].t \in Nat /\ index.points[k].t \in Nat
          /\ from \in Nat /\ to \in Nat
      BY <1>1, <2>1
    <3> QED
      BY <2>1, <2>2, <3>1
  <2> QED
    BY <2>3 DEF In
<1> QED
  BY <1>1, <1>2, <1>3 DEF In

\* An interval begins where the sample before was taken.
LEMMA StartFacts ==
  ASSUME IndexTypeOK, PointsInOrder, NEW from \in 0 .. MaxTime, NEW to \in Time
  PROVE  /\ \A i \in In(from, to) : IntervalStart(i, from) \in Nat
         /\ \A i, j \in In(from, to) :
              /\ i < j => index.points[i].t <= IntervalStart(j, from) /\ IntervalStart(i, from) <= IntervalStart(j, from)
              /\ i < j /\ (\A k \in Points : ~ (i < k /\ k < j)) => IntervalStart(j, from) = index.points[i].t
         /\ In(from, to) # {} => IntervalStart(Min(In(from, to)), from) = EffectiveFrom(from, to)
<1> DEFINE P == In(from, to)
           prev(i) == IF Before(i, Points) = {} THEN i ELSE Max(Before(i, Points))
<1>1. /\ P \subseteq Points /\ P \subseteq 0 .. Samples /\ from \in Nat
      /\ Samples \in Nat /\ Points \subseteq 0 .. Samples
      /\ \A i \in Points : i \in Nat /\ index.points[i].t \in Nat
      /\ \A i \in P : from < index.points[i].t
      /\ \A i, j \in Points : i < j => index.points[i].t <= index.points[j].t
  BY WindowFacts
<1>2. ASSUME NEW i \in Points
      PROVE  /\ prev(i) \in Points /\ prev(i) <= i
             /\ \A j \in Points : j < i => prev(i) < i /\ j <= prev(i)
             /\ index.points[prev(i)].t <= index.points[i].t
             /\ IntervalStart(i, from) = Larger(index.points[prev(i)].t, from)
  <2>1. prev(i) \in Points /\ prev(i) <= i /\ \A j \in Points : j < i => prev(i) < i /\ j <= prev(i)
    <3>1. CASE Before(i, Points) = {}
      <4>1. prev(i) = i /\ i \in Nat
        BY <1>1, <3>1
      <4>2. \A j \in Points : ~ (j < i)
        BY <3>1 DEF Before
      <4> QED
        BY <4>1, <4>2
    <3>2. CASE Before(i, Points) # {}
      <4>1. Before(i, Points) \subseteq 0 .. Samples
        BY <1>1 DEF Before
      <4>2. Max(Before(i, Points)) \in Before(i, Points) /\ \A j \in Before(i, Points) : j <= Max(Before(i, Points))
        BY <1>1, <3>2, <4>1, MaxFacts
      <4>3. PICK m : m = Max(Before(i, Points))
        OBVIOUS
      <4>4. m \in Points /\ m < i /\ \A j \in Points : j < i => j <= m
        BY <4>2, <4>3 DEF Before
      <4>5. m \in Nat /\ i \in Nat
        BY <1>1, <4>4
      <4> QED
        BY <3>2, <4>3, <4>4, <4>5
    <3> QED
      BY <3>1, <3>2
  <2>2. IntervalStart(i, from) = Larger(index.points[prev(i)].t, from)
    BY DEF IntervalStart
  <2> HIDE DEF prev
  <2>3. index.points[prev(i)].t <= index.points[i].t
    <3>1. prev(i) = i \/ prev(i) < i
      <4>1. PICK p : p = prev(i)
        OBVIOUS
      <4>2. p \in Nat /\ i \in Nat /\ p <= i
        BY <1>1, <2>1, <4>1
      <4>3. p = i \/ p < i
        BY <4>2
      <4> QED
        BY <4>1, <4>3
    <3>2. index.points[i].t <= index.points[i].t
      BY <1>1
    <3> QED
      BY <1>1, <2>1, <3>1, <3>2
  <2> QED
    BY <2>1, <2>2, <2>3
<1>3. \A i \in P : IntervalStart(i, from) \in Nat /\ IntervalStart(i, from) <= index.points[i].t
  <2> HIDE DEF prev
  <2> TAKE i \in P
  <2>1. /\ index.points[prev(i)].t \in Nat /\ index.points[i].t \in Nat
        /\ index.points[prev(i)].t <= index.points[i].t /\ from < index.points[i].t
        /\ IntervalStart(i, from) = Larger(index.points[prev(i)].t, from)
    BY <1>1, <1>2
  <2> QED
    BY <1>1, <2>1 DEF Larger
<1>4. ASSUME NEW i \in P, NEW j \in P, i < j
      PROVE  /\ index.points[i].t <= IntervalStart(j, from) /\ IntervalStart(i, from) <= IntervalStart(j, from)
             /\ (\A k \in Points : ~ (i < k /\ k < j)) => IntervalStart(j, from) = index.points[i].t
  <2> HIDE DEF prev
  <2>1. PICK p : p = prev(j)
    OBVIOUS
  <2>2. /\ p \in Points /\ p < j /\ i <= p /\ p \in Nat /\ i \in Nat /\ index.points[p].t \in Nat
        /\ IntervalStart(j, from) = Larger(index.points[p].t, from)
    BY <1>1, <1>2, <1>4, <2>1
  <2>3. i = p \/ i < p
    BY <2>2
  <2>4. index.points[i].t \in Nat /\ index.points[i].t <= index.points[p].t /\ from < index.points[i].t
    BY <1>1, <2>2, <2>3
  <2>5. IntervalStart(j, from) = index.points[p].t
    BY <1>1, <2>2, <2>4 DEF Larger
  <2>6. (\A k \in Points : ~ (i < k /\ k < j)) => p = i
    BY <2>2, <2>3
  <2>7. IntervalStart(i, from) \in Nat /\ IntervalStart(i, from) <= index.points[i].t
    BY <1>3
  <2> QED
    BY <2>2, <2>4, <2>5, <2>6, <2>7
<1>5. ASSUME P # {} PROVE IntervalStart(Min(P), from) = EffectiveFrom(from, to)
  <2>1. PICK first : first = Min(P)
    OBVIOUS
  <2>2. first \in P /\ first \in Points /\ from < index.points[first].t /\ index.points[first].t \in Nat
    BY <1>1, <1>5, <2>1, MinFacts
  <2>3. EffectiveFrom(from, to) = IF Before(first, Points) = {} THEN index.points[first].t
                                  ELSE Larger(from, index.points[Max(Before(first, Points))].t)
    BY <2>1 DEF EffectiveFrom
  <2>4. IntervalStart(first, from) = Larger(index.points[prev(first)].t, from) /\ index.points[prev(first)].t \in Nat
    BY <1>1, <1>2, <2>2
  <2>5. CASE Before(first, Points) = {}
    BY <1>1, <2>1, <2>2, <2>3, <2>4, <2>5 DEF Larger
  <2>6. CASE Before(first, Points) # {}
    <3>1. PICK m : m = Max(Before(first, Points))
      OBVIOUS
    <3>2. prev(first) = m
      BY <2>6, <3>1
    <3> QED
      BY <1>1, <2>1, <2>3, <2>4, <2>6, <3>1, <3>2 DEF Larger
  <2> QED
    BY <2>5, <2>6
<1> QED
  BY <1>3, <1>4, <1>5

\* Samples that no other one comes between.
Unbroken(Q) == \A i, j \in Q, k \in Points : i < k /\ k < j => k \in Q

\* A bucket stands for the time from the beginning of its first interval to its
\* last sample, all of it.
LEMMA RollupFacts ==
  ASSUME IndexTypeOK, PointsInOrder, NEW from \in 0 .. MaxTime, NEW to \in Time,
         NEW Q \in SUBSET In(from, to), Q # {}, Unbroken(Q)
  PROVE  /\ Rollup(Q, from).from = IntervalStart(Min(Q), from)
         /\ Rollup(Q, from).to = index.points[Max(Q)].t
         /\ Rollup(Q, from).seconds = index.points[Max(Q)].t - IntervalStart(Min(Q), from)
<1> DEFINE P == In(from, to)
           lo == [i \in Q |-> IntervalStart(i, from)]
           hi == [i \in Q |-> index.points[i].t]
<1>1. /\ P \subseteq Points /\ P \subseteq 0 .. Samples /\ from \in Nat /\ to \in Nat
      /\ Samples \in Nat
      /\ \A i \in Points : i \in Nat /\ index.points[i].t \in Nat
      /\ \A i \in P : index.points[i].t <= to
      /\ \A i, j \in Points : i < j => index.points[i].t <= index.points[j].t
  BY WindowFacts
<1>2. /\ \A i \in P : IntervalStart(i, from) \in Nat
      /\ \A i, j \in P :
           /\ i < j => IntervalStart(i, from) <= IntervalStart(j, from)
           /\ i < j /\ (\A k \in Points : ~ (i < k /\ k < j)) => IntervalStart(j, from) = index.points[i].t
  BY StartFacts
<1>3. /\ Q \subseteq 0 .. Samples /\ \A i \in Q : i \in P /\ i \in Points /\ i \in Nat
  BY <1>1
<1>4. /\ Min(Q) \in Q /\ Max(Q) \in Q /\ \A i \in Q : Min(Q) <= i /\ i <= Max(Q)
  BY <1>1, <1>3, MinFacts, MaxFacts
<1>5. /\ \A i \in Q : lo[i] = IntervalStart(i, from) /\ hi[i] = index.points[i].t
      /\ \A i \in Q : lo[i] \in Nat /\ hi[i] \in Nat /\ hi[i] <= to
      /\ \A i, j \in Q : i < j => lo[i] <= lo[j] /\ hi[i] <= hi[j]
  BY <1>1, <1>2, <1>3
<1>6. PICK first, last : first = Min(Q) /\ last = Max(Q)
  OBVIOUS
<1>7. first \in Q /\ last \in Q /\ \A i \in Q : (i = first \/ first < i) /\ (i = last \/ i < last)
  <2>1. first \in Q /\ last \in Q /\ \A i \in Q : first <= i /\ i <= last
    BY <1>4, <1>6
  <2>2. first \in Nat /\ last \in Nat /\ \A i \in Q : i \in Nat
    BY <1>3, <2>1
  <2> QED
    BY <2>1, <2>2
<1>8. Rollup(Q, from) = [ from |-> Min({lo[i] : i \in Q}), to |-> Max({hi[i] : i \in Q}),
                          seconds |-> Total([i \in Q |-> hi[i] - lo[i]]) ]
  <2>1. {IntervalStart(i, from) : i \in Q} = {lo[i] : i \in Q}
    BY <1>5
  <2>2. {index.points[i].t : i \in Q} = {hi[i] : i \in Q}
    BY <1>5
  <2>3. [i \in Q |-> index.points[i].t - IntervalStart(i, from)] = [i \in Q |-> hi[i] - lo[i]]
    BY <1>5
  <2> HIDE DEF lo, hi
  <2> QED
    BY <2>1, <2>2, <2>3 DEF Rollup
<1> HIDE DEF lo, hi
<1>9. Min({lo[i] : i \in Q}) = lo[first]
  <2> DEFINE S == {lo[i] : i \in Q}
  <2>1. lo[first] \in S /\ \A x \in S : lo[first] <= x /\ x \in Nat
    BY <1>5, <1>7
  <2>2. \A x \in S : (\A y \in S : x <= y) => x = lo[first]
    BY <2>1
  <2> HIDE DEF S
  <2>3. Min(S) \in S /\ \A y \in S : Min(S) <= y
    BY <2>1 DEF Min
  <2> QED
    BY <2>2, <2>3 DEF S
<1>10. Max({hi[i] : i \in Q}) = hi[last]
  <2> DEFINE S == {hi[i] : i \in Q}
  <2>1. hi[last] \in S /\ \A x \in S : x <= hi[last] /\ x \in 0 .. to
    BY <1>1, <1>5, <1>7
  <2> HIDE DEF S
  <2>2. S \subseteq 0 .. to
    BY <2>1
  <2>3. Max(S) = hi[last]
    BY <1>1, <2>1, <2>2, MaxIs
  <2> QED
    BY <2>3 DEF S
<1>11. Total([i \in Q |-> hi[i] - lo[i]]) = hi[last] - lo[first]
  <2>1. Meeting(Q, lo, hi)
    <3>1. \A i \in Q : lo[i] \in Int /\ hi[i] \in Int
      BY <1>5
    <3>2. ASSUME NEW i \in Q, NEW j \in Q, i < j, \A k \in Q : ~ (i < k /\ k < j)
          PROVE  hi[i] = lo[j]
      <4>1. \A k \in Points : ~ (i < k /\ k < j)
        BY <3>2 DEF Unbroken
      <4> QED
        BY <1>2, <1>3, <1>5, <3>2, <4>1
    <3> QED
      BY <3>1, <3>2 DEF Meeting
  <2> QED
    BY <1>1, <1>3, <1>6, <2>1, Telescope
<1> QED
  BY <1>5, <1>6, <1>7, <1>8, <1>9, <1>10, <1>11

\* A later sample is in a later bucket, or in the same.
LEMMA BucketFacts ==
  ASSUME NEW from \in Nat, NEW to \in Nat, NEW t \in Nat, NEW u \in Nat, from < t, t <= u, u <= to,
         NEW budget \in Nat \ {0}
  PROVE  /\ Bucket(t, from, to, budget) \in 0 .. budget - 1
         /\ Bucket(u, from, to, budget) \in 0 .. budget - 1
         /\ Bucket(t, from, to, budget) <= Bucket(u, from, to, budget)
<1> DEFINE a == (t - from) * budget
           b == (u - from) * budget
           d == to - from
<1>1. a \in Nat /\ b \in Nat /\ a <= b /\ d \in Nat /\ d > 0
  <2>1. PICK x, y : x = t - from /\ y = u - from
    OBVIOUS
  <2>2. x \in Nat /\ y \in Nat /\ x <= y /\ d \in Nat /\ d > 0 /\ budget \in Nat
    BY <2>1
  <2>3. x * budget \in Nat /\ y * budget \in Nat /\ x * budget <= y * budget
    BY <2>2
  <2> QED
    BY <2>1, <2>2, <2>3
<1>2. Bucket(t, from, to, budget) = (IF a \div d < budget THEN a \div d ELSE budget - 1)
      /\ Bucket(u, from, to, budget) = (IF b \div d < budget THEN b \div d ELSE budget - 1)
  BY DEF Bucket
<1> HIDE DEF a, b, d
<1>3. a \div d \in Nat /\ b \div d \in Nat /\ a \div d <= b \div d
  BY <1>1
<1>4. budget \in Nat /\ budget - 1 \in Nat
  OBVIOUS
<1> QED
  BY <1>2, <1>3, <1>4

\* What the buckets of a window are.
IsBucket(bucket, from, to, budget) ==
  bucket = [i \in In(from, to) |-> Bucket(index.points[i].t, from, to, budget)]

LEMMA BucketsInOrder ==
  ASSUME IndexTypeOK, PointsInOrder, NEW from \in 0 .. MaxTime, NEW to \in Time, NEW budget \in Nat \ {0},
         NEW bucket, IsBucket(bucket, from, to, budget)
  PROVE  /\ \A i \in In(from, to) : bucket[i] \in 0 .. budget - 1
         /\ \A i, j \in In(from, to) : i < j => bucket[i] <= bucket[j]
<1> DEFINE P == In(from, to)
<1>1. /\ P \subseteq Points /\ from \in Nat /\ to \in Nat
      /\ \A i \in P : index.points[i].t \in Nat /\ from < index.points[i].t /\ index.points[i].t <= to
      /\ \A i, j \in P : i < j => index.points[i].t <= index.points[j].t
  BY WindowFacts
<1>2. \A i \in P : bucket[i] = Bucket(index.points[i].t, from, to, budget)
  BY DEF IsBucket
<1>3. \A i \in P : bucket[i] \in 0 .. budget - 1
  <2> TAKE i \in P
  <2>1. index.points[i].t <= index.points[i].t
    BY <1>1
  <2>2. Bucket(index.points[i].t, from, to, budget) \in 0 .. budget - 1
    BY <1>1, <2>1, BucketFacts
  <2> QED
    BY <1>2, <2>2
<1>4. ASSUME NEW i \in P, NEW j \in P, i < j PROVE bucket[i] <= bucket[j]
  <2>1. PICK t, u : t = index.points[i].t /\ u = index.points[j].t
    OBVIOUS
  <2>2. t \in Nat /\ u \in Nat /\ from < t /\ t <= u /\ u <= to
    BY <1>1, <1>4, <2>1
  <2>3. Bucket(t, from, to, budget) <= Bucket(u, from, to, budget)
    BY <1>1, <2>2, BucketFacts
  <2> QED
    BY <1>2, <2>1, <2>3
<1> QED
  BY <1>3, <1>4

LEMMA ChartTiles ==
  ASSUME IndexTypeOK, PointsInOrder, NEW from \in 0 .. MaxTime, NEW to \in Time, NEW budget \in Nat \ {0},
         In(from, to) # {}
  PROVE  Tiled(from, to, budget)
<1>0. PICK chart : chart = Chart(from, to, budget)
  OBVIOUS
<1> DEFINE P == In(from, to)
           D == DOMAIN chart
<1>1. PICK bucket : IsBucket(bucket, from, to, budget)
  BY DEF IsBucket
<1> DEFINE G(b) == {i \in P : bucket[i] = b}
<1>2. /\ \A i \in P : bucket[i] \in 0 .. budget - 1
      /\ \A i, j \in P : i < j => bucket[i] <= bucket[j]
      /\ D = {bucket[i] : i \in P}
      /\ \A b \in D : chart[b] = Rollup(G(b), from)
  <2>1. /\ \A i \in In(from, to) : bucket[i] \in 0 .. budget - 1
        /\ \A i, j \in In(from, to) : i < j => bucket[i] <= bucket[j]
    BY <1>1, BucketsInOrder
  <2>2. DOMAIN bucket = P /\ Range(bucket) = {bucket[i] : i \in P}
    BY <1>1 DEF Range, IsBucket
  <2>3. chart = [b \in Range(bucket) |-> Rollup({i \in DOMAIN bucket : bucket[i] = b}, from)]
    BY <1>0, <1>1 DEF Chart, IsBucket
  <2> HIDE DEF P
  <2>4. D = {bucket[i] : i \in P} /\ \A b \in D : chart[b] = Rollup(G(b), from)
    BY <2>2, <2>3
  <2> QED
    BY <2>1, <2>4 DEF P
<1>3. /\ P \subseteq Points /\ P \subseteq 0 .. Samples /\ from \in Nat /\ to \in Nat
      /\ Samples \in Nat
      /\ \A i \in Points : i \in Nat /\ index.points[i].t \in Nat
      /\ \A i, j \in P, k \in Points : i < k /\ k < j => k \in P
  BY WindowFacts
<1>4. /\ D \subseteq 0 .. budget - 1 /\ D # {} /\ budget - 1 \in Nat
      /\ \A b \in D : G(b) # {} /\ G(b) \subseteq P /\ G(b) \subseteq 0 .. Samples
      /\ \A b \in D : b \in Nat
      /\ \A i \in P : bucket[i] \in D /\ bucket[i] \in Nat /\ i \in G(bucket[i]) /\ i \in Nat
  <2>1. D \subseteq 0 .. budget - 1 /\ D # {} /\ \A b \in D : G(b) # {}
    BY <1>2
  <2>2. budget - 1 \in Nat
    OBVIOUS
  <2>3. \A b \in D : b \in Nat
    BY <2>1
  <2>4. \A b \in D : G(b) \subseteq P /\ G(b) \subseteq 0 .. Samples
    BY <1>3
  <2>5. \A i \in P : bucket[i] \in D /\ i \in G(bucket[i])
    BY <1>2
  <2>6. \A i \in P : bucket[i] \in Nat /\ i \in Nat
    BY <1>3, <2>3, <2>5
  <2> QED
    BY <2>1, <2>2, <2>3, <2>4, <2>5, <2>6
<1> DEFINE first == [b \in D |-> Min(G(b))]
           last == [b \in D |-> Max(G(b))]
<1>5. \A b \in D : /\ first[b] \in P /\ last[b] \in P /\ bucket[first[b]] = b /\ bucket[last[b]] = b
                   /\ \A i \in P : bucket[i] = b => first[b] <= i /\ i <= last[b]
  <2> TAKE b \in D
  <2>1. /\ Min(G(b)) \in G(b) /\ Max(G(b)) \in G(b)
        /\ \A i \in G(b) : Min(G(b)) <= i /\ i <= Max(G(b))
    <3>1. G(b) # {} /\ G(b) \subseteq 0 .. Samples /\ Samples \in Nat
      BY <1>3, <1>4
    <3> HIDE DEF G
    <3> QED
      BY <3>1, MinFacts, MaxFacts
  <2>2. first[b] = Min(G(b)) /\ last[b] = Max(G(b))
    OBVIOUS
  <2> HIDE DEF first, last
  <2>3. /\ first[b] \in G(b) /\ last[b] \in G(b)
        /\ \A i \in G(b) : first[b] <= i /\ i <= last[b]
    BY <2>1, <2>2
  <2> QED
    BY <2>3
\* A bucket is unbroken, for what comes between two samples is in a bucket between.
<1>6. ASSUME NEW b \in D
      PROVE  /\ chart[b].from = IntervalStart(first[b], from) /\ chart[b].to = index.points[last[b]].t
             /\ chart[b].seconds = index.points[last[b]].t - IntervalStart(first[b], from)
  <2>1. Unbroken(G(b))
    <3> SUFFICES ASSUME NEW i \in G(b), NEW j \in G(b), NEW k \in Points, i < k, k < j PROVE k \in G(b)
      BY DEF Unbroken
    <3>1. i \in P /\ j \in P /\ bucket[i] = b /\ bucket[j] = b
      OBVIOUS
    <3>2. k \in P
      BY <1>3, <3>1
    <3>3. bucket[i] <= bucket[k] /\ bucket[k] <= bucket[j]
      BY <1>2, <3>1, <3>2
    <3>4. bucket[k] = b
      BY <1>4, <3>1, <3>2, <3>3
    <3> QED
      BY <3>2, <3>4
  <2>2. G(b) # {} /\ G(b) \in SUBSET In(from, to)
    BY <1>4
  <2>3. first[b] = Min(G(b)) /\ last[b] = Max(G(b)) /\ chart[b] = Rollup(G(b), from)
    BY <1>2
  <2> HIDE DEF G, first, last, P, D
  <2>4. PICK Q : Q = G(b)
    OBVIOUS
  <2>5. /\ Rollup(Q, from).from = IntervalStart(Min(Q), from)
        /\ Rollup(Q, from).to = index.points[Max(Q)].t
        /\ Rollup(Q, from).seconds = index.points[Max(Q)].t - IntervalStart(Min(Q), from)
    BY <2>1, <2>2, <2>4, RollupFacts
  <2> QED
    BY <2>3, <2>4, <2>5
<1> HIDE DEF first, last
<1>7. ASSUME NEW b \in D, NEW c \in D, b < c, \A d \in D : ~ (b < d /\ d < c)
      PROVE  chart[b].to = chart[c].from
  <2>1. PICK i, j : i = last[b] /\ j = first[c]
    OBVIOUS
  <2>2. i \in P /\ j \in P /\ bucket[i] = b /\ bucket[j] = c /\ i \in Nat /\ j \in Nat
    BY <1>4, <1>5, <2>1
  <2>3. i < j
    <3>1. ~ (j < i) /\ j # i
      <4>1. b \in Nat /\ c \in Nat
        BY <1>4
      <4>2. ASSUME j < i PROVE FALSE
        <5>1. c <= b
          BY <1>2, <2>2, <4>2
        <5> QED
          BY <1>7, <4>1, <5>1
      <4>3. j # i
        BY <1>7, <2>2, <4>1
      <4> QED
        BY <4>2, <4>3
    <3> QED
      BY <2>2, <3>1
  <2>4. ASSUME NEW k \in Points, i < k, k < j PROVE FALSE
    <3>1. k \in P /\ k \in Nat
      BY <1>3, <2>2, <2>4
    <3>2. b <= bucket[k] /\ bucket[k] <= c /\ bucket[k] \in D
      BY <1>2, <1>4, <2>2, <2>4, <3>1
    <3>3. ~ (b < bucket[k] /\ bucket[k] < c)
      BY <1>7, <3>2
    <3>4. bucket[k] = b \/ bucket[k] = c
      BY <1>4, <3>2, <3>3
    <3>5. bucket[k] = b => k <= i
      BY <1>5, <2>1, <3>1
    <3>6. bucket[k] = c => j <= k
      BY <1>5, <2>1, <3>1
    <3> QED
      BY <2>2, <2>4, <3>1, <3>4, <3>5, <3>6
  <2>5. IntervalStart(j, from) = index.points[i].t
    BY <2>2, <2>3, <2>4, StartFacts
  <2> QED
    BY <1>6, <2>1, <2>5
<1>8. ASSUME NEW b \in D, NEW c \in D, b < c, b + 1 .. c - 1 \cap D = {}
      PROVE  chart[b].to = chart[c].from
  <2>1. \A d \in D : ~ (b < d /\ d < c)
    <3> SUFFICES ASSUME NEW d \in D, b < d, d < c PROVE FALSE
      OBVIOUS
    <3>1. b \in Nat /\ c \in Nat /\ d \in Nat
      BY <1>4
    <3>2. d \in b + 1 .. c - 1
      BY <3>1
    <3> QED
      BY <1>8, <3>2
  <2> QED
    BY <1>7, <1>8, <2>1
<1>9. Total([b \in D |-> chart[b].seconds]) = index.points[Max(P)].t - EffectiveFrom(from, to)
  <2> DEFINE lo == [b \in D |-> chart[b].from]
             hi == [b \in D |-> chart[b].to]
  <2>1. \A b \in D : /\ lo[b] = IntervalStart(first[b], from) /\ hi[b] = index.points[last[b]].t
                     /\ chart[b].seconds = hi[b] - lo[b]
                     /\ lo[b] = chart[b].from /\ hi[b] = chart[b].to
    BY <1>6
  <2>2. [b \in D |-> chart[b].seconds] = [b \in D |-> hi[b] - lo[b]]
    BY <2>1
  <2> HIDE DEF lo, hi
  <2>3. Meeting(D, lo, hi)
    <3>1. \A b \in D : lo[b] \in Int /\ hi[b] \in Int
      <4> TAKE b \in D
      <4>1. IntervalStart(first[b], from) \in Nat /\ index.points[last[b]].t \in Nat
        BY <1>3, <1>5, StartFacts
      <4> QED
        BY <2>1, <4>1
    <3>2. \A b, c \in D : b < c /\ (\A d \in D : ~ (b < d /\ d < c)) => hi[b] = lo[c]
      BY <1>7, <2>1
    <3> HIDE DEF D
    <3> QED
      BY <3>1, <3>2 DEF Meeting
  <2>4. Total([b \in D |-> hi[b] - lo[b]]) = hi[Max(D)] - lo[Min(D)]
    <3> HIDE DEF D
    <3> QED
      BY <1>4, <2>3, Telescope
  <2>5. PICK b, c : b = Min(D) /\ c = Max(D)
    OBVIOUS
  <2>6. b \in D /\ c \in D /\ \A d \in D : b <= d /\ d <= c
    <3> HIDE DEF D
    <3> QED
      BY <1>4, <2>5, MinFacts, MaxFacts
  <2>7. PICK i, j : i = Min(P) /\ j = Max(P)
    OBVIOUS
  <2>8. i \in P /\ j \in P /\ \A k \in P : i <= k /\ k <= j
    <3> HIDE DEF P
    <3> QED
      BY <1>3, <1>4, <2>7, MinFacts, MaxFacts
  <2>9. first[b] = i
    <3>1. bucket[i] = b
      <4>1. first[b] \in P /\ bucket[first[b]] = b /\ i <= first[b]
        BY <1>5, <2>6, <2>8
      <4>2. i = first[b] \/ i < first[b]
        BY <1>4, <2>8, <4>1
      <4>3. bucket[i] <= b
        BY <1>2, <1>4, <2>6, <2>8, <4>1, <4>2
      <4> QED
        BY <1>4, <2>6, <2>8, <4>3
    <3>2. first[b] <= i /\ i <= first[b]
      BY <1>5, <2>6, <2>8, <3>1
    <3>3. first[b] \in Nat /\ i \in Nat
      <4>1. first[b] \in P /\ i \in P
        BY <1>5, <2>6, <2>8
      <4> QED
        BY <1>4, <4>1
    <3> QED
      BY <3>2, <3>3
  <2>10. last[c] = j
    <3>1. bucket[j] = c
      <4>1. last[c] \in P /\ bucket[last[c]] = c /\ last[c] <= j
        BY <1>5, <2>6, <2>8
      <4>2. j = last[c] \/ last[c] < j
        BY <1>4, <2>8, <4>1
      <4>3. c <= bucket[j]
        BY <1>2, <1>4, <2>6, <2>8, <4>1, <4>2
      <4> QED
        BY <1>4, <2>6, <2>8, <4>3
    <3>2. last[c] <= j /\ j <= last[c]
      BY <1>5, <2>6, <2>8, <3>1
    <3>3. last[c] \in Nat /\ j \in Nat
      <4>1. last[c] \in P /\ j \in P
        BY <1>5, <2>6, <2>8
      <4> QED
        BY <1>4, <4>1
    <3> QED
      BY <3>2, <3>3
  <2>11. IntervalStart(i, from) = EffectiveFrom(from, to)
    BY <2>7, StartFacts
  <2> QED
    BY <2>1, <2>2, <2>4, <2>5, <2>6, <2>7, <2>9, <2>10, <2>11
<1>10. \A b \in DOMAIN chart :
         /\ chart[b].seconds = chart[b].to - chart[b].from
         /\ \A c \in DOMAIN chart :
              (b < c /\ b + 1 .. c - 1 \cap DOMAIN chart = {}) => chart[b].to = chart[c].from
  BY <1>6, <1>8
<1>11. Total([b \in DOMAIN chart |-> chart[b].seconds])
         = index.points[Max(In(from, to))].t - EffectiveFrom(from, to)
  BY <1>9
<1> HIDE DEF P, D
<1> QED
  BY <1>0, <1>10, <1>11 DEF Tiled

\* The chart of a window is the window, whatever the number of buckets asked for: they
\* follow one another without a hole, and none counts a second that another one does.
THEOREM IndexTiledWhatever ==
  IndexSpec => [](\A from \in 0 .. MaxTime, to \in Time, budget \in Nat \ {0} :
                    In(from, to) # {} => Tiled(from, to, budget))
<1>1. IndexInv => \A from \in 0 .. MaxTime, to \in Time, budget \in Nat \ {0} :
                    In(from, to) # {} => Tiled(from, to, budget)
  BY ChartTiles DEF IndexInv, PointsInv
<1> QED
  BY <1>1, IndexInvariant, PTL

\* The same of the two numbers that are model-checked.
THEOREM IndexTiles == IndexSpec => []Tiles
<1>1. IndexInv => Tiles
  <2>1. \A budget \in {2, 3} : budget \in Nat \ {0}
    OBVIOUS
  <2> QED
    BY <2>1, ChartTiles DEF IndexInv, PointsInv, Tiles
<1> QED
  BY <1>1, IndexInvariant, PTL
=============================================================================
