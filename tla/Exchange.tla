------------------------------ MODULE Exchange ------------------------------
(***************************************************************************)
(* One generation request, from its admission to its end: the retry loops  *)
(* of buffered and streaming, the deadline the caller may set, the client  *)
(* that reads, stops reading or leaves, and what is recorded of it.        *)
(*                                                                         *)
(* Dispatcher says how a slot is granted and Governor how a permit is; here*)
(* a lane is free or cooling down, and the governor admits when it likes.  *)
(* Time is relative, as there.  The steps of the task take no time: the    *)
(* clock stands while it has one to make.                                  *)
(***************************************************************************)
EXTENDS Integers

CONSTANTS
  Lane,       \* the lanes of the groups the request may use
  Plain,      \* those of providers without stream_options
  None,       \* no lane, no deadline
  MaxWait,    \* max_wait, in ticks
  Deadlines,  \* the deadlines a caller may set
  Attempt,    \* the most ticks it takes to fail: the connect or request timeout
  Cooldown,   \* the cooldown after a connection error
  RetryAfter, \* the cooldowns an upstream may ask for
  StreamIdle  \* stream_idle; 0 is off

ASSUME ExchangeAssumption ==
  /\ Plain \subseteq Lane
  /\ None \notin Lane
  /\ MaxWait \in Nat /\ Attempt \in Nat \ {0} /\ Cooldown \in Nat /\ StreamIdle \in Nat
  /\ Deadlines \subseteq Nat
  /\ RetryAfter \subseteq Nat

VARIABLES
  pc,         \* where the request stands
  kind,       \* whether it asked for a stream
  wait,       \* ticks to the end of max_wait, -1 once it has passed
  deadline,   \* ticks to the caller's deadline, or None
  cool,       \* ticks each lane's cooldown has left
  lane,       \* the lane of the slot in use
  spent,      \* ticks the attempt, or the wait for a chunk, has lasted
  fallback,   \* the body was injected into, and the untouched one is kept
  noInject,   \* the model is known to reject the injected field
  client,     \* the client reads, has stopped reading, or has left
  observer,   \* the observer of the stream
  observed,   \* the observations recorded of the request
  recorded    \* the statuses recorded of the request

vars ==
  << pc, kind, wait, deadline, cool, lane, spent, fallback, noInject, client, observer,
     observed, recorded >>

Record == <<observer, observed, recorded>>
Fixed == <<kind, wait, deadline>>

Larger(a, b) == IF a >= b THEN a ELSE b

TypeOK ==
  /\ pc \in { "out", "greet", "permit", "queue", "send", "headers", "sniff", "detail", "retrying",
              "relay", "pipe", "push", "notice" }
  /\ kind \in {"buffered", "stream"}
  /\ wait \in -1 .. MaxWait
  /\ deadline \in Nat \cup {None}
  /\ cool \in [Lane -> Nat]
  /\ lane \in Lane \cup {None}
  /\ spent \in 0 .. Larger(Attempt, StreamIdle)
  /\ fallback \in BOOLEAN /\ noInject \in BOOLEAN
  /\ client \in {"reads", "stuck", "left"}
  /\ observer \in {"none", "open", "taken"}
  /\ observed \in 0 .. 2 /\ recorded \in 0 .. 2

Init ==
  /\ pc = "out" /\ kind = "buffered" /\ wait = 0 /\ deadline = None
  /\ cool = [l \in Lane |-> 0] /\ lane = None /\ spent = 0
  /\ fallback = FALSE /\ noInject = FALSE
  /\ client = "reads" /\ observer = "none" /\ observed = 0 /\ recorded = 0

Stream == kind = "stream"
Live == pc # "out"

\* record_request, and the end of the work.
Recorded == recorded' = recorded + 1
End == pc' = "out" /\ lane' = None /\ spent' = 0

\* finalize_sse_observer: whoever takes the observer accounts for it.
FinalizedAnew ==
  /\ observed' = IF observer = "none" THEN observed ELSE observed + 1
  /\ UNCHANGED observer

Finalized ==
  /\ observer' = IF observer = "open" THEN "taken" ELSE observer
  /\ observed' = IF observer = "open" THEN observed + 1 ELSE observed

-----------------------------------------------------------------------------
(* Admission.                                                              *)

\* A body that can be injected into is, unless its model is known to reject it.
Arrive ==
  /\ pc = "out"
  /\ kind' \in {"buffered", "stream"}
  /\ pc' = IF kind' = "stream" THEN "greet" ELSE "permit"
  /\ wait' = MaxWait
  /\ deadline' \in Deadlines \cup {None}
  /\ \/ fallback' = (kind' = "stream" /\ ~noInject)
     \/ fallback' = FALSE
  /\ client' = "reads" /\ observer' = "none" /\ observed' = 0 /\ recorded' = 0
  /\ UNCHANGED <<cool, lane, spent, noInject>>

\* A stream is opened with a line that finds room, if the client is there.
Greet ==
  /\ pc = "greet"
  /\ \/ client # "left" /\ pc' = "permit" /\ UNCHANGED <<recorded, lane, spent>>
     \/ client = "left" /\ Recorded /\ End
  /\ UNCHANGED <<Fixed, cool, fallback, noInject, client, observer, observed>>

\* A permit, or a request the governor does not gate.
Admit ==
  /\ pc = "permit"
  /\ pc' = "queue"
  /\ UNCHANGED <<Fixed, cool, lane, spent, fallback, noInject, client, Record>>

\* A heartbeat that cannot be sent tells a client that is gone, or stuck.
Unheard == Stream /\ client # "reads"

\* 504, and for a stream an error event.
TimedOut ==
  /\ \/ pc = "permit" /\ wait < 1
     \/ pc = "queue" /\ \A l \in Lane : cool[l] > wait
     \/ pc \in {"permit", "queue"} /\ Unheard
  /\ Recorded
  /\ IF Stream THEN pc' = "notice" /\ UNCHANGED lane ELSE pc' = "out" /\ lane' = None
  /\ spent' = 0
  /\ UNCHANGED <<Fixed, cool, fallback, noInject, client, observer, observed>>

\* A slot; on a provider without stream_options the untouched body is sent.
Grant(l) ==
  /\ pc = "queue" /\ cool[l] = 0
  /\ pc' = "send" /\ lane' = l /\ spent' = 0
  /\ fallback' = (fallback /\ l \notin Plain)
  /\ UNCHANGED <<Fixed, cool, noInject, client, Record>>

-----------------------------------------------------------------------------
(* The attempt.                                                            *)

\* The permit and the slot's lane are let go of, and the loop begins again.
Again(backoff) ==
  /\ cool' = [cool EXCEPT ![lane] = Larger(@, backoff)]
  /\ pc' = "permit" /\ lane' = None /\ spent' = 0

\* A connection error, or a buffered request's timeout.
ConnectFails ==
  /\ pc = "send" /\ spent > 0
  /\ Again(Cooldown)
  /\ UNCHANGED <<Fixed, fallback, noInject, client, Record>>

\* A stream has no timeout for the answer, once connected.
Connected ==
  /\ pc = "send" /\ spent > 0 /\ Stream
  /\ pc' = "headers" /\ spent' = 0
  /\ UNCHANGED <<Fixed, cool, lane, fallback, noInject, client, Record>>

Answered == pc = "headers" \/ (pc = "send" /\ ~Stream /\ spent > 0)

\* 400 right after an injection: once more, untouched.
Rejects ==
  /\ Answered /\ fallback
  /\ noInject' = TRUE /\ fallback' = FALSE
  /\ Again(0)
  /\ UNCHANGED <<Fixed, client, Record>>

RetryableEver ==
  /\ Answered
  /\ pc' = "sniff" /\ spent' = IF Stream THEN 0 ELSE spent
  /\ UNCHANGED <<Fixed, cool, lane, fallback, noInject, client, Record>>

\* 429 or 5xx within max_wait: the body is read to see whose fault it is.
Retryable ==
  /\ Answered /\ wait > 0
  /\ pc' = "sniff" /\ spent' = IF Stream THEN 0 ELSE spent
  /\ UNCHANGED <<Fixed, cool, lane, fallback, noInject, client, Record>>

\* Worker exhaustion is the model's, and is noted; else the lane cools down.
Sniffed ==
  /\ pc = "sniff"
  /\ \E backoff \in {0} \cup RetryAfter :
       IF Stream
       THEN /\ cool' = [cool EXCEPT ![lane] = Larger(@, backoff)]
            /\ pc' = "retrying" /\ lane' = None /\ spent' = 0
       ELSE Again(backoff)
  /\ UNCHANGED <<Fixed, fallback, noInject, client, Record>>

\* The stream is told, or found to be without a client.
Retrying ==
  /\ pc = "retrying"
  /\ \/ client = "reads" /\ pc' = "permit" /\ UNCHANGED <<recorded, lane, spent>>
     \/ client = "left" /\ Recorded /\ End
  /\ UNCHANGED <<Fixed, cool, fallback, noInject, client, observer, observed>>

\* A stream whose retries are exhausted, or that is refused for good: an error
\* event, after the body of the refusal has been read.
Fails ==
  /\ Stream
  /\ \/ pc = "headers" /\ wait <= 0 /\ Recorded /\ pc' = "notice"
     \/ pc = "headers" /\ pc' = "detail" /\ UNCHANGED recorded
     \/ pc = "detail" /\ Recorded /\ pc' = "notice"
  /\ spent' = 0
  /\ UNCHANGED <<Fixed, cool, lane, fallback, noInject, client, observer, observed>>

\* The last event of a stream waits for room in the channel.
Notice ==
  /\ pc = "notice" /\ client # "stuck"
  /\ End
  /\ UNCHANGED <<Fixed, cool, fallback, noInject, client, Record>>

-----------------------------------------------------------------------------
(* The answer.                                                             *)

\* Buffered: the status is recorded, then the body is read within the same timeout.
Respond ==
  /\ pc = "send" /\ ~Stream /\ spent > 0
  /\ Recorded
  /\ pc' = "relay"
  /\ UNCHANGED <<Fixed, cool, lane, spent, fallback, noInject, client, observer, observed>>

\* What the body says is recorded, unless it was an error or could not be read.
Relay ==
  /\ pc = "relay"
  /\ observed' \in {observed, observed + 1}
  /\ End
  /\ UNCHANGED <<Fixed, cool, fallback, noInject, client, observer, recorded>>

Pipe ==
  /\ pc = "headers"
  /\ pc' = "pipe" /\ spent' = 0 /\ observer' = "open"
  /\ UNCHANGED <<Fixed, cool, lane, fallback, noInject, client, observed, recorded>>

\* A chunk is observed, and sent when the channel has room.
Chunk ==
  /\ \/ pc = "pipe" /\ spent > 0 /\ pc' = "push"
     \/ pc = "push" /\ client = "reads" /\ pc' = "pipe"
  /\ spent' = 0
  /\ UNCHANGED <<Fixed, cool, lane, fallback, noInject, client, Record>>

\* The client has left, and the pipe sees it at once.
Disconnect ==
  /\ pc \in {"pipe", "push"} /\ client = "left"
  /\ Finalized /\ Recorded /\ End
  /\ UNCHANGED <<Fixed, cool, fallback, noInject, client>>

\* The upstream is silent for too long, or its stream breaks.
BreakOff ==
  /\ pc = "pipe"
  /\ Finalized /\ Recorded
  /\ pc' = "notice" /\ spent' = 0
  /\ UNCHANGED <<Fixed, cool, lane, fallback, noInject, client>>

Completed ==
  /\ pc = "pipe"
  /\ Finalized /\ Recorded /\ End
  /\ UNCHANGED <<Fixed, cool, fallback, noInject, client>>

\* The caller's deadline drops the work wherever it stands; the client of a
\* stream is told if there is room.
DeadlineTells ==
  /\ Live /\ deadline = 0 /\ (Stream => client # "stuck")
  /\ Finalized /\ Recorded /\ End
  /\ UNCHANGED <<Fixed, cool, fallback, noInject, client>>

Deadline ==
  /\ Live /\ deadline = 0
  /\ Finalized /\ Recorded /\ End
  /\ UNCHANGED <<Fixed, cool, fallback, noInject, client>>

-----------------------------------------------------------------------------
(* The client, and time.                                                   *)

Client ==
  /\ Live /\ Stream /\ client # "left"
  /\ client' \in {"reads", "stuck", "left"} \ {client}
  /\ UNCHANGED <<pc, Fixed, cool, lane, spent, fallback, noInject, Record>>

\* What the task does as soon as it can.
Ready ==
  \/ pc = "greet"
  \/ pc = "permit" /\ wait < 1
  \/ pc = "queue" /\ \E l \in Lane : cool[l] = 0
  \/ pc = "queue" /\ \A l \in Lane : cool[l] > wait

\* The timer of an attempt, of a body that is read, or of a silent stream.
Expired ==
  \/ pc \in {"send", "relay"} /\ spent = Attempt
  \/ pc = "sniff" /\ ~Stream /\ spent = Attempt
  \/ pc = "pipe" /\ StreamIdle > 0 /\ spent = StreamIdle

Timed == pc \in {"send", "relay", "sniff"} \/ pc = "pipe"

Tick ==
  /\ ~Ready /\ ~Expired
  /\ wait' = Larger(wait - 1, -1)
  /\ deadline' = IF deadline = None THEN None ELSE Larger(deadline - 1, 0)
  /\ cool' = [l \in Lane |-> Larger(cool[l] - 1, 0)]
  /\ spent' = IF Timed /\ spent < Larger(Attempt, StreamIdle) THEN spent + 1 ELSE spent
  /\ UNCHANGED <<pc, kind, lane, fallback, noInject, client, Record>>

-----------------------------------------------------------------------------

Upstream == ConnectFails \/ Connected \/ Rejects \/ Retryable \/ Fails \/ Respond \/ Pipe

Task ==
  \/ Greet \/ TimedOut \/ (\E l \in Lane : Grant(l)) \/ Retrying \/ Notice \/ Disconnect \/ Deadline

Timeout == Expired /\ (ConnectFails \/ Relay \/ Sniffed \/ BreakOff)

Next ==
  \/ Arrive \/ Admit \/ Task \/ Upstream \/ Sniffed \/ Relay \/ Chunk \/ BreakOff \/ Completed
  \/ Client \/ Tick

Spec == Init /\ [][Next]_vars

\* The runtime runs the task and its timers, and time goes on.  Nothing is
\* assumed of the upstream, the client or the governor.
FairSpec ==
  /\ Spec
  /\ WF_vars(Task) /\ WF_vars(Deadline) /\ WF_vars(Timeout) /\ WF_vars(Tick)

-----------------------------------------------------------------------------
(* Properties.                                                             *)

\* "one owner finalizes the bounded observer at every terminal stream exit"
\* (streaming-pipeline.md): a stream that ended was accounted for once if the
\* upstream's stream had begun, and else not, however the deadline and the exits
\* of the relay race.
ObservedOnce == pc = "out" /\ Stream => observed = IF observer = "none" THEN 0 ELSE 1

\* A request whose caller set a deadline ends, whatever the upstream, the
\* governor and the client do: the deadline waits for no one.
EndsAtDeadline == Live /\ deadline # None ~> ~Live

\* A buffered request without a deadline ends as well: its waits and its retries
\* are bounded by max_wait.  So it is as long as connections fail in less time
\* than a lane cools down; MaxWaitBoundsRetries says the rest.
BufferedEnds == Live /\ ~Stream ~> ~Live

\* knowledge/decisions/explicit-request-deadline.md:15 "`max_wait` bounds
\* admission and retries".
MaxWaitBoundsRetries == Live /\ ~Stream ~> ~Live

\* knowledge/architecture/streaming-pipeline.md "one access-log line is emitted
\* per request".
RecordedOnce == recorded <= 1

\* src/lib.rs:78 "Abort a stream when the upstream sends nothing for this long":
\* with a client that is there, a stream that is sent nothing is cut.
SilentStreamsEnd == pc = "headers" ~> pc # "headers"
=============================================================================
