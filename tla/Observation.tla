---------------------------- MODULE Observation -----------------------------
(***************************************************************************)
(* The side-band observer of a response: it cuts an event stream into      *)
(* events, byte by byte and in bounded memory, merges what they tell of    *)
(* the usage, the finish reasons and the tool calls, and at the end says   *)
(* of each what is measured, estimated, unavailable or invalid.            *)
(*                                                                         *)
(* A byte is a newline, a carriage return, the prefix "data:" with the     *)
(* blank that may follow it, a whole JSON text, or anything else.  A text  *)
(* has one choice at most: several are merged as if each came in an event  *)
(* of its own.                                                             *)
(***************************************************************************)
EXTENDS Integers, Sequences, FiniteSets

CONSTANTS
  LF, CR, Data, Other,  \* the bytes that are no text
  Payload,    \* the texts
  Absent,     \* no value told, no text, no choice
  Bad,        \* a value of the wrong type, or values that disagree
  MaxEvent,   \* MAX_EVENT_BYTES
  MaxIndexed, \* MAX_INDEXED_STREAM_OBSERVATIONS
  Largest,    \* u64::MAX
  Chars,      \* the sizes of the texts a request may have
  MaxText     \* bound: the bytes of an event, its blank line aside

Field == {"prompt", "completion", "total", "cached", "reasoning"}
Told == (0 .. Largest) \cup {Absent, Bad}
Reason == {"content_filter", "function_call", "length", "other", "stop", "tool_calls"}
ToldReason == Reason \cup {Absent, Bad}

\* choice: the one choice, Absent if the list of choices is empty or missing,
\* Bad if it is no list or its choice has no index.  listed: there is a list.
\* tools: the indexes of the calls in its delta, toolsBad if one is no index.
\* calls: how many calls its message has, Bad if they are no list.
Choice ==
  [ index : Nat, finish : ToldReason, tools : SUBSET Nat, toolsBad : BOOLEAN,
    calls : Nat \cup {Bad} ]
Text == [usage : [Field -> Told], choice : Choice \cup {Absent, Bad}, listed : BOOLEAN]

ASSUME ObservationAssumption ==
  /\ Payload \subseteq Text
  /\ {Absent, Bad} \cap (Nat \cup Reason \cup Choice) = {} /\ Absent # Bad
  /\ {LF, CR, Data, Other} \cap Payload = {} /\ Cardinality({LF, CR, Data, Other}) = 4
  /\ MaxEvent \in Nat \ {0} /\ MaxIndexed \in Nat /\ Largest \in Nat /\ MaxText \in Nat
  /\ Chars \subseteq Nat

Byte == {LF, CR, Data, Other} \cup Payload

VARIABLES
  data,       \* current_data
  line,       \* current_line
  discard,    \* discarded_event, and of its line: has_content, ends_cr
  state,      \* what has been merged
  events,     \* completion_events
  report,     \* the observations, once the response has ended
  text,       \* history: the bytes since the last blank line
  told        \* history: the texts of the events the stream has ended

observerVars == <<data, line, discard, state, events, report, text, told>>

Cut == <<data, line, discard>>
Fresh == [event |-> FALSE, content |-> FALSE, cr |-> FALSE]
Discarding == [event |-> TRUE, content |-> TRUE, cr |-> FALSE]

\* finishes: by choice index.  tools: pairs of a choice's and a tool's index.
\* calls: buffered_tool_calls, Absent of a stream.
Blank ==
  [ usage |-> [f \in Field |-> Absent], finishes |-> [i \in {} |-> Absent],
    overflowed |-> FALSE, tools |-> {}, toolsBad |-> FALSE, listed |-> FALSE,
    calls |-> Absent ]

-----------------------------------------------------------------------------
(* Merging what the texts tell.                                            *)

\* SeenNumber and SeenFinish: the value told, if there was but one.
Merge(seen, next) ==
  IF next = Absent THEN seen ELSE IF seen \in {Absent, next} THEN next ELSE Bad

WithUsage(st, p) == [st EXCEPT !.usage = [f \in Field |-> Merge(@[f], p.usage[f])]]

\* finish_for: the finish of an index, if there is room for it.
WithFinish(st, i, finish) ==
  LET known == DOMAIN st.finishes
      seen(j) == IF j \in known THEN st.finishes[j] ELSE Absent
  IN  IF i \notin known /\ Cardinality(known) >= MaxIndexed
      THEN [st EXCEPT !.overflowed = TRUE]
      ELSE [st EXCEPT !.finishes = [j \in known \cup {i} |->
                                      IF j = i THEN Merge(seen(j), finish) ELSE seen(j)]]

\* Once one pair has found no room, the others make no difference.
WithTools(st, pairs, bad) ==
  IF Cardinality(st.tools \cup pairs) <= MaxIndexed
  THEN [st EXCEPT !.tools = @ \cup pairs, !.toolsBad = @ \/ bad]
  ELSE [st EXCEPT !.toolsBad = TRUE]

\* observe_stream.
Observe(st, p) ==
  LET told_ == [WithUsage(st, p) EXCEPT !.listed = @ \/ p.listed]
      c == p.choice
  IN  IF c = Absent THEN told_
      ELSE IF c = Bad THEN [told_ EXCEPT !.toolsBad = TRUE]
      ELSE WithTools(WithFinish(told_, c.index, c.finish), {c.index} \X c.tools, c.toolsBad)

\* observe_buffered: of a whole answer the calls are counted, whatever their indexes.
Calls(p) ==
  IF p.choice \in {Absent, Bad} \/ p.choice.calls = Bad THEN 0 ELSE p.choice.calls

Whole(p) ==
  IF p.choice \in {Absent, Bad} THEN p
  ELSE [p EXCEPT !.choice.tools = {}, !.choice.toolsBad = (p.choice.calls = Bad)]

ObserveWhole(st, p) == [Observe(st, Whole(p)) EXCEPT !.calls = Calls(p)]

\* A choice that has not finished counts as a completion token.
Countable(p) == p.choice \notin {Absent, Bad} /\ p.choice.finish = Absent

-----------------------------------------------------------------------------
(* The bytes.                                                              *)

IsData(l) == l # <<>> /\ l[1] = Data

\* What is read of data as JSON: newlines and carriage returns are blanks.
OnlyText(bytes, i) == bytes[i] \in Payload /\ \A j \in DOMAIN bytes : j = i \/ bytes[j] \in {LF, CR}
Parses(bytes) == \E i \in DOMAIN bytes : OnlyText(bytes, i)
Parsed(bytes) == bytes[CHOOSE i \in DOMAIN bytes : OnlyText(bytes, i)]

\* retained_len.  A line is longer than the data it adds by more than the newline
\* that joins them: its prefix counts as two bytes.
Size(l) == Len(l) + (IF IsData(l) THEN 1 ELSE 0)
RetainedData(l) == Len(data)
Retained(l) == Len(data) + Size(l)

ObserverTypeOK ==
  /\ data \in Seq(Byte) /\ line \in Seq(Byte)
  /\ discard \in [event : BOOLEAN, content : BOOLEAN, cr : BOOLEAN]
  /\ state.usage \in [Field -> Told]
  /\ events \in 0 .. Largest
  /\ told \subseteq Payload

ObserverInit ==
  /\ data = <<>> /\ line = <<>> /\ discard = Fresh
  /\ state = Blank /\ events = 0 /\ report = Absent
  /\ text = <<>> /\ told = {}

\* A byte other than a newline, of an event that is being discarded.
DiscardedAnyContent(b) ==
  discard' = [discard EXCEPT !.content = TRUE]

Discarded(b) ==
  discard' = IF b = CR THEN [discard EXCEPT !.content = @ \/ discard.cr, !.cr = TRUE]
             ELSE [discard EXCEPT !.content = TRUE, !.cr = FALSE]

Push(b) ==
  /\ report = Absent /\ b # LF /\ Len(text) < MaxText
  /\ \/ /\ discard.event
        /\ Discarded(b)
        /\ UNCHANGED <<data, line>>
     \/ /\ ~discard.event /\ Retained(Append(line, b)) > MaxEvent
        /\ data' = <<>> /\ line' = <<>> /\ discard' = Discarding
     \/ /\ ~discard.event /\ Retained(Append(line, b)) <= MaxEvent
        /\ line' = Append(line, b)
        /\ UNCHANGED <<data, discard>>
  /\ text' = Append(text, b)
  /\ UNCHANGED <<state, events, report, told>>

\* The carriage return that ends a line is no part of it.
Trimmed(l) == IF l # <<>> /\ l[Len(l)] = CR THEN SubSeq(l, 1, Len(l) - 1) ELSE l

\* Data lines are joined by newlines; the others count for nothing.  The two
\* together are bounded as they are read: the length finish_line checks once more
\* is never passed.
Joined(l) ==
  IF ~IsData(l) THEN data ELSE IF data = <<>> THEN Tail(l) ELSE data \o <<LF>> \o Tail(l)

-----------------------------------------------------------------------------
(* What the stream says, by the bytes of an event alone.                   *)

\* Byte i is in the line that begins at byte s.
InLine(t, s, i) == (s = 1 \/ t[s - 1] = LF) /\ \A j \in s .. i - 1 : t[j] # LF

\* The bytes of data, without the carriage returns at the ends of lines.
DataBytes(t) ==
  { i \in DOMAIN t : /\ t[i] # LF /\ ~(t[i] = CR /\ i < Len(t) /\ t[i + 1] = LF)
                     /\ \E s \in 1 .. i - 1 : t[s] = Data /\ InLine(t, s, i) }

\* Of the lines before byte n the data, and the prefixes that data comes before:
\* each stands for the newline that joins the two.
Before(t, n) == {i \in DataBytes(t) : i < n}
Joints(t, n) ==
  {s \in DOMAIN t : s < n /\ t[s] = Data /\ InLine(t, s, s) /\ Before(t, s) # {}}

Held(t, n) == Cardinality(Before(t, n)) + Cardinality(Joints(t, n))

\* Nothing, or one carriage return, since the last newline.
OnBlankLine(t) ==
  \/ t = <<>> \/ t[Len(t)] = LF
  \/ t[Len(t)] = CR /\ (Len(t) = 1 \/ t[Len(t) - 1] = LF)

\* Some byte did not fit behind what was held of its event.
TooLarge(t) ==
  \E i \in DOMAIN t : \E s \in 1 .. i :
    /\ InLine(t, s, i) /\ t[i] # LF
    /\ Held(t, s) + (i - s + 1) + (IF t[s] = Data THEN 1 ELSE 0) > MaxEvent

\* The text of an event that is not too large, if its data is one.
Says(t) ==
  {t[i] : i \in {j \in DataBytes(t) :
     /\ ~TooLarge(t) /\ t[j] \in Payload
     /\ \A k \in DataBytes(t) : k = j \/ t[k] = CR}}

-----------------------------------------------------------------------------

\* A blank line ends the event.
EndEvent ==
  /\ IF ~discard.event /\ Parses(data)
     THEN /\ state' = Observe(state, Parsed(data))
          /\ events' = IF Countable(Parsed(data)) /\ events < Largest THEN events + 1 ELSE events
     ELSE UNCHANGED <<state, events>>
  /\ data' = <<>> /\ line' = <<>> /\ discard' = Fresh

EndLine ==
  /\ data' = IF discard.event THEN data ELSE Joined(Trimmed(line))
  /\ line' = <<>>
  /\ discard' = [discard EXCEPT !.content = FALSE, !.cr = FALSE]
  /\ UNCHANGED <<state, events>>

\* finish_line.
Newline ==
  /\ report = Absent
  /\ IF IF discard.event THEN ~discard.content ELSE Trimmed(line) = <<>>
     THEN EndEvent ELSE EndLine
  /\ IF OnBlankLine(text)
     THEN text' = <<>> /\ told' = told \cup Says(text)
     ELSE Len(text) < MaxText /\ text' = Append(text, LF) /\ UNCHANGED told
  /\ UNCHANGED report

-----------------------------------------------------------------------------
(* The end of the response.                                                *)

Unavailable == [kind |-> "unavailable", value |-> 0]
Invalid == [kind |-> "invalid", value |-> 0]
Measured(v) == [kind |-> "measured", value |-> v]
Estimated(v) == [kind |-> "estimated", value |-> v]

Result(seen) == IF seen = Absent THEN Unavailable ELSE IF seen = Bad THEN Invalid ELSE Measured(seen)

Is(o, kind) == o.kind = kind

\* The usage is checked against itself, then what is missing estimated.
UsageResult(usage, estimate, prompt_estimate) ==
  LET prompt == Result(usage["prompt"])
      completion == Result(usage["completion"])
      total == Result(usage["total"])
      both == Is(prompt, "measured") /\ Is(completion, "measured")
      sum == prompt.value + completion.value
      part(o, whole) ==
        IF Is(o, "measured") /\ ~(Is(whole, "measured") /\ o.value <= whole.value)
        THEN Invalid ELSE o
      orElse(o, n) == IF Is(o, "unavailable") /\ n > 0 THEN Estimated(n) ELSE o
  IN  [ prompt |-> orElse(prompt, prompt_estimate),
        completion |-> orElse(completion, estimate),
        total |-> IF both /\ (sum > Largest \/ (Is(total, "measured") /\ total.value < sum))
                  THEN Invalid ELSE total,
        cached |-> part(Result(usage["cached"]), prompt),
        reasoning |-> part(Result(usage["reasoning"]), completion) ]

NoUsage == [f \in Field |-> Unavailable]

Outcome == {"completed", "deadline", "disconnected", "truncated"}

Report(st, outcome, incomplete, count, estimate, prompt_estimate) ==
  [ outcome |-> outcome,
    usage |-> IF outcome \in {"disconnected", "truncated"} THEN NoUsage
              ELSE UsageResult(st.usage, estimate, prompt_estimate),
    tools |-> IF incomplete \/ (~st.toolsBad /\ ~st.listed) THEN Unavailable
              ELSE IF st.toolsBad THEN Invalid ELSE Measured(count),
    finishes |-> [i \in DOMAIN st.finishes |->
                    IF incomplete THEN Unavailable
                    ELSE IF st.overflowed THEN Invalid ELSE Result(st.finishes[i])] ]

UnterminatedUnlessDiscarded == data # <<>> \/ line # <<>>
Unterminated == discard.event \/ data # <<>> \/ line # <<>>

\* remember_unterminated_indexes: an event that was cut off names its choice.
Remembering(st, bytes) ==
  IF Parses(bytes) /\ Parsed(bytes).choice \notin {Absent, Bad}
  THEN WithFinish(st, Parsed(bytes).choice.index, Absent) ELSE st

Remembered ==
  LET st == Remembering(state, data)
  IN  IF IsData(line) THEN Remembering(st, Tail(line)) ELSE st

\* estimate_prompt_tokens: four characters a token; 0 stands for no estimate.
PromptEstimate(chars) == IF chars = 0 THEN 0 ELSE (IF chars < 4 THEN 4 ELSE chars) \div 4

\* SseObserver::finish, whoever takes the observer.
StreamEnds(outcome) ==
  /\ report = Absent
  /\ LET whole == outcome = "completed" /\ ~Unterminated
         st == IF outcome = "completed" THEN Remembered ELSE state
     IN  \E chars \in Chars :
           report' = Report(st, outcome, ~whole, Cardinality(st.tools),
                            IF whole THEN events ELSE 0, PromptEstimate(chars))
  /\ UNCHANGED <<Cut, state, events, text, told>>

\* The body is one text, and nothing counts tokens.
Buffered(p) ==
  /\ report = Absent /\ state = Blank /\ text = <<>> /\ told = {}
  /\ state' = ObserveWhole(Blank, p)
  /\ told' = {p}
  /\ \E chars \in Chars :
       report' = Report(state', "completed", FALSE, state'.calls, 0, PromptEstimate(chars))
  /\ UNCHANGED <<Cut, events, text>>

\* usage_observation_metrics: the label under which each field counts as observed.
UsageMetrics(usage) == [f \in Field |-> usage[f].kind]

\* record_observations: the other counters that go up, with their source label, and by
\* how much.  What is invalid or unavailable is counted nowhere.
Counted(r) ==
  LET worth(o, kinds) == IF o.kind \in kinds THEN o.value ELSE 0
      up(name, source, by) == [name |-> name, source |-> source, by |-> by]
      completion == r.usage["completion"]
      told_ == {"measured", "estimated"}
  IN  { c \in
          { up("prompt_tokens", Absent, worth(r.usage["prompt"], told_)),
            up("completion_tokens", IF Is(completion, "estimated") THEN "estimate" ELSE "usage",
               worth(completion, told_)),
            up("reasoning_tokens", Absent, worth(r.usage["reasoning"], {"measured"})),
            up("tool_calls", Absent, worth(r.tools, {"measured"})),
            up("finish_reason", Absent,
               Cardinality({i \in DOMAIN r.finishes : Is(r.finishes[i], "measured")})) } :
        c.by > 0 }

ObserverNext ==
  \/ \E b \in Byte : Push(b)
  \/ Newline
  \/ \E outcome \in Outcome : StreamEnds(outcome)
  \/ \E p \in Payload : Buffered(p)

ObserverSpec == ObserverInit /\ [][ObserverNext]_observerVars

-----------------------------------------------------------------------------
(* Properties.                                                             *)

\* Of a set of values told in any order: the one, none, or Bad.
Verdict(values) ==
  IF values \subseteq {Absent} THEN Absent
  ELSE IF \E v \in values : values \subseteq {Absent, v}
       THEN CHOOSE v \in values : v # Absent ELSE Bad

\* nim-observations.md "it stores at most 1 MiB across its current unfinished
\* line/event": whatever an upstream sends, on however many lines, the observer
\* holds no more than MAX_EVENT_BYTES of an event, and remembers no more than
\* MAX_INDEXED_STREAM_OBSERVATIONS finishes and tool calls.
BoundedMemory ==
  /\ Len(data) + Len(line) <= MaxEvent
  /\ Cardinality(DOMAIN state.finishes) <= MaxIndexed
  /\ Cardinality(state.tools) <= MaxIndexed

\* However the stream is cut into reads, what has been merged is what the whole
\* events that are not too large tell, whatever came between them: an event that
\* is too large takes none of its neighbours with it, and two events that
\* disagree never measure anything, in whatever order they come.  The calls of a
\* buffered answer are counted, and merged with nothing.
MergedAsTold ==
  /\ \A f \in Field : state.usage[f] = Verdict({p.usage[f] : p \in told})
  /\ LET chosen == {p.choice : p \in told} \ {Absent, Bad}
     IN  /\ ~state.overflowed =>
              /\ DOMAIN state.finishes = {c.index : c \in chosen}
              /\ \A i \in DOMAIN state.finishes :
                   state.finishes[i] = Verdict({c.finish : c \in {d \in chosen : d.index = i}})
         /\ state.calls = Absent /\ ~state.toolsBad =>
              state.tools = UNION {{c.index} \X c.tools : c \in chosen}

\* knowledge/architecture/nim-observations.md "it never estimates completion from
\* a partial stream", README "Estimates never mix with measured totals": of a
\* response that was cut off, in the middle of an event or between two, however
\* much of it was dropped for its size, no completion is estimated and no finish
\* reason or tool call is counted; the usage that is measured was told, and adds
\* up; and what is counted under the source "usage" was told, under "estimate" not.
HonestReport ==
  report # Absent =>
    LET u == report.usage
        cutOff == report.outcome # "completed" \/ DataBytes(text) # {}
                  \/ (text # <<>> /\ text[Len(text)] # LF) \/ TooLarge(text)
        label == UsageMetrics(u)
        measured(f) == label[f] = "measured"
        toldOf(f) == {p.usage[f] : p \in told} \ {Absent}
        up(name) == {c \in Counted(report) : c.name = name}
    IN  /\ cutOff =>
             /\ up("tool_calls") \cup up("finish_reason") = {}
             /\ \A c \in up("completion_tokens") : c.source = "usage"
        /\ \A c \in up("completion_tokens") :
             toldOf("completion") = IF c.source = "usage" THEN {c.by} ELSE {}
        /\ \A f \in Field :
             /\ measured(f) => toldOf(f) = {u[f].value}
             /\ label[f] = "estimated" => toldOf(f) = {} /\ f \in {"prompt", "completion"}
        /\ measured("prompt") /\ measured("completion") /\ measured("total") =>
             u["total"].value >= u["prompt"].value + u["completion"].value
        /\ measured("cached") => measured("prompt") /\ u["cached"].value <= u["prompt"].value
        /\ measured("reasoning") =>
             measured("completion") /\ u["reasoning"].value <= u["completion"].value

\* docs/openproxy-docs.md "token counters carry a `source` label (`usage` for exact
\* values, `estimate` for heuristics)".
SourcesSplit ==
  report # Absent =>
    \A c \in Counted(report) :
      /\ c.name = "prompt_tokens" /\ Is(report.usage["prompt"], "estimated") => c.source = "estimate"
      /\ c.name = "prompt_tokens" /\ Is(report.usage["prompt"], "measured") => c.source = "usage"
=============================================================================
