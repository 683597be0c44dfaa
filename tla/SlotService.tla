---------------------------- MODULE SlotService ----------------------------
(***************************************************************************)
(* What the dispatcher and its pool promise together, said without lanes,  *)
(* cooldowns, channels or sleeps: callers stand in one line, only the one  *)
(* at its head is answered, and a key is handed out only while fewer than  *)
(* its budget of slots were handed out on it within the last window.       *)
(***************************************************************************)
EXTENDS Integers, FiniteSets

CONSTANTS
  Caller,   \* who asks for slots
  Key,      \* what a slot spends
  Window,   \* the length of the window, in ticks
  Nobody    \* not a caller

VARIABLES
  waiting,  \* the callers in line
  before,   \* pairs of them: the first came before the second
  hand,     \* the key reserved for the head of the line, or Nobody
  budget,   \* each key's budget now, 0 for a key that may not be handed out
  spent     \* ages of the slots handed out on each key within the window

vars == <<waiting, before, hand, budget, spent>>

Age == 0 .. Window - 1

Init ==
  /\ waiting = {} /\ before = {} /\ hand = Nobody
  /\ budget \in [Key -> Nat]
  /\ spent = [k \in Key |-> {}]

\* A caller joins at the end of the line.
Join(c) ==
  /\ c \notin waiting
  /\ waiting' = waiting \cup {c}
  /\ before' = before \cup (waiting \X {c})
  /\ UNCHANGED <<hand, budget, spent>>

Without(c) ==
  /\ waiting' = waiting \ {c}
  /\ before' = {p \in before : p[1] # c /\ p[2] # c}

\* A caller leaves the line on its own account, from anywhere in it.
Leave(c) ==
  /\ c \in waiting
  /\ Without(c)
  /\ UNCHANGED <<hand, budget, spent>>

\* The head of the line goes, and nobody else.
Heads(c) == c \in waiting /\ \A d \in waiting \ {c} : <<c, d>> \in before

\* The budget holds as the slot is reserved.
Reserve(k) ==
  /\ hand = Nobody /\ waiting # {}
  /\ Cardinality(spent[k]) < budget[k]
  /\ hand' = k
  /\ spent' = [spent EXCEPT ![k] = @ \cup {0}]
  /\ UNCHANGED <<waiting, before, budget>>

Answer(c) ==
  /\ hand # Nobody /\ hand' = Nobody
  /\ Heads(c) /\ Without(c)
  /\ UNCHANGED <<budget, spent>>

\* The head of the line is told that no slot opens in time.
Refuse(c) ==
  /\ hand = Nobody
  /\ Heads(c) /\ Without(c)
  /\ UNCHANGED <<hand, budget, spent>>

\* A slot that nobody will use no longer counts.
GiveBack(k, a) ==
  /\ spent' = [spent EXCEPT ![k] = @ \ {a}]
  /\ hand' \in {hand, Nobody}
  /\ UNCHANGED <<waiting, before, budget>>

\* The operator changes keys and budgets; a key taken out starts anew.
Configure ==
  /\ budget' \in [Key -> Nat]
  /\ \E out \in SUBSET Key : spent' = [k \in Key |-> IF k \in out THEN {} ELSE spent[k]]
  /\ UNCHANGED <<waiting, before, hand>>

Tick ==
  /\ spent' = [k \in Key |-> {a \in Age : a - 1 \in spent[k]}]
  /\ UNCHANGED <<waiting, before, hand, budget>>

Next ==
  \/ \E c \in Caller : Join(c) \/ Leave(c) \/ Answer(c) \/ Refuse(c)
  \/ \E k \in Key : Reserve(k)
  \/ \E k \in Key, a \in Age \cup {Window} : GiveBack(k, a)
  \/ Configure
  \/ Tick

Spec == Init /\ [][Next]_vars
=============================================================================
