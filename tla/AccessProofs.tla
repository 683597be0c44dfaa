---------------------------- MODULE AccessProofs ----------------------------
(***************************************************************************)
(* Who may use the dashboard, for any number of tasks, users, passwords    *)
(* and hashes: sessions are proven, the memo follows the users, the        *)
(* throttle bounds the attempts, and changes of users are authorized.      *)
(***************************************************************************)
EXTENDS Access, ConfigProofs, FiniteSetTheorems

-----------------------------------------------------------------------------
(* The inductive invariant.                                                *)

\* A task acts for someone, with the credential and the hash its work needs.
TasksKnown ==
  \A t \in Task :
    /\ task[t].pc # "idle" => task[t].name \in Name
    /\ task[t].pc \in {"login", "header"} => task[t].pw \in Password
    /\ task[t].pc \in {"header", "account", "clear"} => task[t].hash \in Hash

\* Each cookie is bound to the hash its holder proved.
CookiesProven == \A c \in cookies : c.proof = c.hash

IInv ==
  /\ TypeOK /\ Valid(store) /\ TasksKnown /\ CookiesProven
  /\ MemoFollowsUsers /\ ThrottleBounded

-----------------------------------------------------------------------------
(* Users and their hashes.                                                 *)

\* The hash of a user there is, and of one there is not.
LEMMA HashStored ==
  ASSUME NEW doc \in Document, doc = store, NEW n
  PROVE  /\ StoredHash(n) \in Hash \cup {Nobody}
         /\ StoredHash(n) # Nobody => \E u \in store.users : u.name = n /\ u.hash = StoredHash(n)
<1>1. store.users \in SUBSET User
  BY Fields
<1>2. CASE Known(store, n)
  <2>1. \E u \in store.users : u.name = n
    BY <1>2 DEF Known, HasRole
  <2>2. PICK u \in store.users : u.name = n /\ u = CHOOSE v \in store.users : v.name = n
    BY <2>1
  <2>3. u.hash \in Hash
    BY <1>1, <2>2 DEF User
  <2> QED
    BY <1>2, <2>2, <2>3 DEF StoredHash
<1>3. CASE ~Known(store, n)
  BY <1>3 DEF StoredHash
<1> QED
  BY <1>2, <1>3

\* A hash that matches a password is one.
LEMMA MatchesHash ==
  ASSUME NEW p, NEW hash, Matches(p, hash)
  PROVE  hash # Nobody
  BY DEF Matches

\* A hash of a salt that was not drawn yet.
LEMMA HashMade ==
  ASSUME NEW p \in Password, TypeOK, salts < Salts
  PROVE  HashOf(p, salts + 1) \in Hash /\ salts + 1 \in 0 .. Salts
<1>1. salts + 1 \in 0 .. Salts
  BY AccessAssumption DEF TypeOK
<1> QED
  BY <1>1, AccessAssumption DEF HashOf

\* The users form never touches the superuser.
LEMMA UsersSpareSuperuser ==
  ASSUME NEW doc \in Document, Valid(doc), NEW u \in Name, NEW hash \in Hash,
         NEW cand \in Users(doc, u, hash), NEW n \in Superusers(doc)
  PROVE  Admin(doc, u) /\ {v \in cand.users : v.name = n} = {v \in doc.users : v.name = n}
<1>1. Admin(doc, u)
  BY UsersCases
<1>2. \A v \in doc.users : v.name = n => v.role = "superuser"
  BY DEF Valid, Distinct, Superusers
<1>3. \A m : /\ WithoutUser(doc, m).users = {v \in doc.users : v.name # m}
             /\ \A role, h : SetUser(doc, m, role, h).users =
                  {v \in doc.users : v.name # m} \cup {[name |-> m, role |-> role, hash |-> h]}
  BY DEF WithoutUser, SetUser, Document
<1>4. ASSUME NEW m, m # n,
             \/ cand = WithoutUser(doc, m)
             \/ \E role, h : cand = SetUser(doc, m, role, h)
      PROVE  {v \in cand.users : v.name = n} = {v \in doc.users : v.name = n}
  BY <1>3, <1>4
<1>5. \E v \in doc.users : v.name = n
  BY DEF Superusers
<1>6. \E m : m # n /\ \/ cand = WithoutUser(doc, m)
                      \/ \E role, h : cand = SetUser(doc, m, role, h)
  <2>1. \A m \in Name \ Names(doc.users) : m # n
    BY <1>5 DEF Names
  <2>2. \A v \in Subjects(doc) : v.name # n
    BY <1>2 DEF Subjects
  <2>3. \/ \E m \in Name \ Names(doc.users), role \in {"admin", "user"} :
             cand = SetUser(doc, m, role, hash)
        \/ \E v \in Subjects(doc) : cand = WithoutUser(doc, v.name)
        \/ \E v \in Subjects(doc) : cand = SetUser(doc, v.name, v.role, hash)
        \/ \E v \in Subjects(doc), role \in {"admin", "user"} :
             cand = SetUser(doc, v.name, role, v.hash)
    BY UsersCases
  <2> QED
    BY <2>1, <2>2, <2>3, Zenon
<1> QED
  BY <1>1, <1>4, <1>6

-----------------------------------------------------------------------------
(* Tasks at the login page.                                                *)

LoggingIn == {t \in Task : At(t, "login")}

LEMMA LoggingInFinite ==
  ASSUME NEW S \in SUBSET Task
  PROVE  IsFiniteSet(S) /\ Cardinality(S) \in Nat /\ Cardinality(S) =< Cardinality(Task)
         /\ Cardinality(Task) \in Nat
  BY AccessAssumption, FS_Subset, FS_CardinalityType

\* A task that moves leaves the others where they are.
LEMMA Becomes ==
  ASSUME TypeOK, NEW t \in Task, NEW state, Become(t, state)
  PROVE  /\ task'[t] = state /\ \A s \in Task : s # t => task'[s] = task[s]
         /\ state \in TaskState => task' \in [Task -> TaskState]
  BY DEF TypeOK, Become

LEMMA Idle ==
  NoTask \in TaskState /\ NoTask.pc = "idle" /\ NoTask.name = Nobody
  BY DEF NoTask, TaskState

\* A task that leaves the login page, or stays away from it, adds nobody there.
LEMMA LessLogins ==
  ASSUME TypeOK, NEW t \in Task, NEW state, Become(t, state), state.pc # "login"
  PROVE  /\ LoggingIn' = LoggingIn \ {t}
         /\ Cardinality(LoggingIn') =< Cardinality(LoggingIn)
         /\ At(t, "login") => Cardinality(LoggingIn') = Cardinality(LoggingIn) - 1
<1>1. LoggingIn' = LoggingIn \ {t}
  BY Becomes DEF LoggingIn, At
<1>2. IsFiniteSet(LoggingIn)
  BY LoggingInFinite DEF LoggingIn
<1>3. /\ Cardinality(LoggingIn \ {t}) = IF t \in LoggingIn THEN Cardinality(LoggingIn) - 1
                                        ELSE Cardinality(LoggingIn)
      /\ Cardinality(LoggingIn) \in Nat
  BY <1>2, FS_RemoveElement, FS_CardinalityType
<1> QED
  BY <1>1, <1>3 DEF LoggingIn

-----------------------------------------------------------------------------
(* Steps that leave the users, the cookies and the memo alone.             *)

\* A task that comes to act for someone known, with what its work needs.
LEMMA TasksStay ==
  ASSUME IInv, NEW t \in Task, NEW state \in TaskState, Become(t, state),
         state.pc # "idle" => state.name \in Name,
         state.pc \in {"login", "header"} => state.pw \in Password,
         state.pc \in {"header", "account", "clear"} => state.hash \in Hash
  PROVE  TasksKnown' /\ task' \in [Task -> TaskState]
<1>1. /\ task'[t] = state /\ \A s \in Task : s # t => task'[s] = task[s]
      /\ task' \in [Task -> TaskState]
  BY Becomes DEF IInv
<1> QED
  BY <1>1 DEF IInv, TasksKnown

\* A step of one task that only reads, and does not enter the login page.
LEMMA Reads ==
  ASSUME IInv, NEW t \in Task, NEW state \in TaskState, Become(t, state),
         UNCHANGED <<store, salts, Session, Throttle>>,
         ~At(t, "clear"), state.pc \notin {"login", "clear"},
         state.pc # "idle" => state.name \in Name,
         state.pc = "header" => state.pw \in Password,
         state.pc \in {"header", "account"} => state.hash \in Hash
  PROVE  IInv'
<1>1. UNCHANGED <<store, salts, cookies, memo, failures, window>>
  BY DEF Session, Throttle
<1>2. TasksKnown' /\ task' \in [Task -> TaskState]
  BY TasksStay
<1>3. TypeOK'
  BY <1>1, <1>2 DEF IInv, TypeOK
<1>4. /\ \A s \in Task : At(s, "clear") <=> At(s, "clear")'
      /\ \A n : StoredHash(n)' = StoredHash(n)
  BY <1>1, Becomes DEF IInv, At, StoredHash, Known, HasRole
<1>5. MemoFollowsUsers'
  BY <1>1, <1>4 DEF IInv, MemoFollowsUsers
<1>6. ThrottleBounded'
  <2>1. Cardinality(LoggingIn') =< Cardinality(LoggingIn)
    BY LessLogins DEF IInv
  <2>2. /\ Cardinality(LoggingIn') \in Nat /\ Cardinality(LoggingIn) \in Nat
        /\ Cardinality(Task) \in Nat
    BY LoggingInFinite DEF LoggingIn
  <2> QED
    BY <1>1, <2>1, <2>2, AccessAssumption DEF IInv, TypeOK, ThrottleBounded, LoggingIn
<1> QED
  BY <1>1, <1>2, <1>3, <1>5, <1>6 DEF IInv, CookiesProven

LEMMA Readers ==
  ASSUME IInv, NEW t \in Task,
         \/ CookieAuth(t) \/ Answer(t) \/ UsersForm(t) \/ Refused(t)
         \/ \E n \in Name, p \in Password : HeaderAuth(t, n, p)
         \/ \E p \in Password : AccountForm(t, p)
  PROVE  IInv'
<1>1. task[t] \in TaskState
  BY DEF IInv, TypeOK
<1>2. CASE Answer(t) \/ Refused(t)
  BY <1>2, Idle, Reads DEF Answer, Refused, Leave, At
<1>3. CASE UsersForm(t)
  <2> DEFINE state == [task[t] EXCEPT !.pc = "users"]
  <2>1. state \in TaskState /\ state.pc = "users" /\ state.name = task[t].name
    BY <1>1 DEF TaskState
  <2>2. task[t].name \in Name /\ ~At(t, "clear")
    BY <1>3 DEF UsersForm, At, IInv, TasksKnown
  <2> QED
    BY <1>3, <2>1, <2>2, Reads DEF UsersForm
<1>4. CASE CookieAuth(t)
  <2>1. PICK c \in cookies : Become(t, [NoTask EXCEPT !.pc = "in", !.name = c.name])
    BY <1>4 DEF CookieAuth
  <2> DEFINE state == [NoTask EXCEPT !.pc = "in", !.name = c.name]
  <2>2. c.name \in Name
    BY DEF IInv, TypeOK, Cookie
  <2>3. state \in TaskState /\ state.pc = "in" /\ state.name = c.name
    BY <2>2, Idle DEF TaskState
  <2> QED
    BY <1>4, <2>1, <2>2, <2>3, Reads DEF CookieAuth, At
<1>5. ASSUME NEW n \in Name, NEW p \in Password, HeaderAuth(t, n, p)
      PROVE  IInv'
  <2>1. CASE Become(t, [NoTask EXCEPT !.pc = "in", !.name = n])
    <3> DEFINE state == [NoTask EXCEPT !.pc = "in", !.name = n]
    <3>1. state \in TaskState /\ state.pc = "in" /\ state.name = n
      BY Idle DEF TaskState
    <3> QED
      BY <1>5, <2>1, <3>1, Reads DEF HeaderAuth, At
  <2>2. CASE /\ StoredHash(n) # Nobody
             /\ Become(t, [pc |-> "header", name |-> n, pw |-> p, hash |-> StoredHash(n)])
    <3>1. StoredHash(n) \in Hash
      BY <2>2, HashStored DEF IInv, TypeOK
    <3> DEFINE state == [pc |-> "header", name |-> n, pw |-> p, hash |-> StoredHash(n)]
    <3>2. state \in TaskState
      BY <3>1 DEF TaskState
    <3> QED
      BY <1>5, <2>2, <3>1, <3>2, Reads DEF HeaderAuth, At
  <2> QED
    BY <1>5, <2>1, <2>2 DEF HeaderAuth
<1>6. ASSUME NEW p \in Password, AccountForm(t, p)
      PROVE  IInv'
  <2> DEFINE state ==
        [task[t] EXCEPT !.pc = "account", !.pw = p, !.hash = StoredHash(task[t].name)]
  <2>1. StoredHash(task[t].name) \in Hash
    BY <1>6, HashStored DEF IInv, TypeOK, AccountForm
  <2>2. /\ state \in TaskState /\ state.pc = "account" /\ state.name = task[t].name
        /\ state.hash \in Hash
    BY <1>1, <2>1 DEF TaskState
  <2>3. task[t].name \in Name /\ ~At(t, "clear")
    BY <1>6 DEF AccountForm, At, IInv, TasksKnown
  <2> QED
    BY <1>6, <2>2, <2>3, Reads DEF AccountForm
<1> QED
  BY <1>2, <1>3, <1>4, <1>5, <1>6

-----------------------------------------------------------------------------
(* The login page.                                                         *)

\* The memo is as right as it was, while it and the users stay.
LEMMA MemoStays ==
  ASSUME IInv, UNCHANGED <<store, memo>>,
         \A s \in Task : At(s, "clear") => At(s, "clear")'
  PROVE  MemoFollowsUsers'
<1>1. \A n : StoredHash(n)' = StoredHash(n)
  BY DEF StoredHash, Known, HasRole
<1> QED
  BY <1>1 DEF IInv, MemoFollowsUsers

LEMMA Logins ==
  ASSUME IInv, NEW t \in Task, NEW n \in Name, NEW p \in Password, Login(t, n, p)
  PROVE  IInv'
<1> DEFINE state == [pc |-> "login", name |-> n, pw |-> p, hash |-> StoredHash(n)]
<1>1. UNCHANGED <<store, salts, cookies, memo, failures, window>> /\ Become(t, state)
      /\ At(t, "idle") /\ ~Throttled
  BY DEF Login, Session, Throttle
<1>2. StoredHash(n) \in Hash \cup {Nobody}
  BY HashStored DEF IInv, TypeOK
<1>3. state \in TaskState /\ state.name = n /\ state.pw = p /\ state.pc = "login"
  BY <1>2 DEF TaskState
<1>4. TasksKnown' /\ task' \in [Task -> TaskState]
  BY <1>1, <1>3, TasksStay
<1>5. MemoFollowsUsers'
  BY <1>1, Becomes, MemoStays DEF IInv, At
<1>6. ThrottleBounded'
  <2>1. /\ Cardinality(LoggingIn') =< Cardinality(Task) /\ Cardinality(LoggingIn') \in Nat
        /\ Cardinality(Task) \in Nat
    BY LoggingInFinite DEF LoggingIn
  <2> QED
    BY <1>1, <2>1, AccessAssumption DEF IInv, TypeOK, ThrottleBounded, LoggingIn, Throttled
<1>7. TypeOK'
  BY <1>1, <1>4 DEF IInv, TypeOK
<1> QED
  BY <1>1, <1>4, <1>5, <1>6, <1>7 DEF IInv, CookiesProven

\* The window and its count, whichever way an attempt is counted.
LEMMA Counting ==
  ASSUME TypeOK
  PROVE  /\ Counted \in Nat
         /\ Counted =< failures + 1
         /\ ~window => Counted = 1
         /\ ~Throttled => Counted =< MaxFailures + 1
  BY AccessAssumption DEF TypeOK, Counted, Throttled

LEMMA LoginsDone ==
  ASSUME IInv, NEW t \in Task, LoginDone(t)
  PROVE  IInv'
<1>1. At(t, "login") /\ Leave(t) /\ UNCHANGED <<store, salts, memo>>
  BY DEF LoginDone
<1>2. /\ TasksKnown' /\ task' \in [Task -> TaskState]
      /\ Cardinality(LoggingIn') = Cardinality(LoggingIn) - 1
  BY <1>1, Idle, TasksStay, LessLogins DEF Leave, IInv
<1>3. MemoFollowsUsers'
  BY <1>1, Becomes, MemoStays DEF IInv, At, Leave
<1>4. /\ Cardinality(LoggingIn) =< Cardinality(Task) /\ Cardinality(LoggingIn) \in Nat
      /\ Cardinality(Task) \in Nat /\ failures \in Nat
  BY LoggingInFinite DEF LoggingIn, IInv, TypeOK
<1>5. CASE Matches(task[t].pw, task[t].hash)
  <2>1. /\ cookies' = cookies \cup
              {[name |-> task[t].name, hash |-> task[t].hash, proof |-> task[t].hash]}
        /\ UNCHANGED <<failures, window>>
    BY <1>5 DEF LoginDone, Mint, Throttle
  <2>2. task[t].name \in Name /\ task[t].hash \in Hash
    BY <1>1, <1>5, MatchesHash DEF IInv, TasksKnown, TypeOK, TaskState, At
  <2>3. TypeOK'
    BY <1>1, <1>2, <2>1, <2>2 DEF IInv, TypeOK, Cookie
  <2>4. CookiesProven'
    BY <2>1 DEF IInv, CookiesProven
  <2>5. ThrottleBounded'
    BY <1>2, <1>4, <2>1, AccessAssumption DEF IInv, ThrottleBounded, LoggingIn
  <2> QED
    BY <1>1, <1>2, <1>3, <2>3, <2>4, <2>5 DEF IInv
<1>6. CASE ~Matches(task[t].pw, task[t].hash)
  <2>1. failures' = Counted /\ window' = TRUE /\ cookies' = cookies
    BY <1>6 DEF LoginDone
  <2>2. TypeOK'
    BY <1>1, <1>2, <2>1, Counting DEF IInv, TypeOK
  <2>3. CookiesProven'
    BY <2>1 DEF IInv, CookiesProven
  <2>4. Counted \in Nat /\ Counted =< failures + 1 /\ (~window => Counted = 1)
    BY Counting DEF IInv
  <2>5. Counted + Cardinality(LoggingIn') =< MaxFailures + 1 + Cardinality(Task)
    <3>1. CASE window
      BY <1>2, <1>4, <2>4, <3>1, AccessAssumption DEF IInv, ThrottleBounded, LoggingIn
    <3>2. CASE ~window
      BY <1>2, <1>4, <2>4, <3>2, AccessAssumption
    <3> QED
      BY <3>1, <3>2
  <2>6. ThrottleBounded'
    BY <2>1, <2>5 DEF ThrottleBounded, LoggingIn
  <2> QED
    BY <1>1, <1>2, <1>3, <2>2, <2>3, <2>6 DEF IInv
<1> QED
  BY <1>5, <1>6

\* The throttle's own steps, and the end of a cookie.
LEMMA Throttles ==
  ASSUME IInv, Admit \/ WindowOver \/ Expire
  PROVE  IInv'
<1>1. UNCHANGED <<store, salts, memo, task>> /\ cookies' \subseteq cookies
  BY DEF Admit, WindowOver, Expire, Session
<1>2. MemoFollowsUsers'
  BY <1>1, MemoStays DEF At
<1>3. TasksKnown' /\ CookiesProven'
  BY <1>1 DEF IInv, TasksKnown, CookiesProven
<1>4. /\ Cardinality(LoggingIn) =< Cardinality(Task) /\ Cardinality(LoggingIn) \in Nat
      /\ Cardinality(Task) \in Nat /\ failures \in Nat
  BY LoggingInFinite DEF LoggingIn, IInv, TypeOK
<1>5. LoggingIn' = LoggingIn
  BY <1>1 DEF LoggingIn, At
<1>6. TypeOK' /\ ThrottleBounded'
  <2>1. CASE Admit
    <3>1. failures' = Counted /\ window' = TRUE /\ ~Throttled
      BY <2>1 DEF Admit
    <3>2. Counted \in Nat /\ Counted =< MaxFailures + 1
      BY <3>1, Counting DEF IInv
    <3>3. TypeOK'
      BY <1>1, <3>1, <3>2 DEF IInv, TypeOK
    <3>4. failures' + Cardinality(LoggingIn') =< MaxFailures + 1 + Cardinality(Task)
      BY <1>4, <1>5, <3>1, <3>2, AccessAssumption
    <3> QED
      BY <3>3, <3>4 DEF ThrottleBounded, LoggingIn
  <2>2. CASE WindowOver
    BY <1>1, <2>2 DEF WindowOver, Session, IInv, TypeOK, ThrottleBounded
  <2>3. CASE Expire
    <3>1. UNCHANGED <<failures, window>>
      BY <2>3 DEF Expire, Throttle
    <3> QED
      BY <1>1, <1>5, <3>1 DEF IInv, TypeOK, ThrottleBounded, LoggingIn
  <2> QED
    BY <2>1, <2>2, <2>3
<1> QED
  BY <1>1, <1>2, <1>3, <1>6 DEF IInv

-----------------------------------------------------------------------------
(* Steps that change the users or the memo.                                *)

\* The throttle is not exceeded by a task that does not enter the login page.
LEMMA ThrottleStays ==
  ASSUME IInv, NEW t \in Task, NEW state, Become(t, state), state.pc # "login", UNCHANGED Throttle
  PROVE  ThrottleBounded'
<1>1. Cardinality(LoggingIn') =< Cardinality(LoggingIn)
  BY LessLogins DEF IInv
<1>2. /\ Cardinality(LoggingIn') \in Nat /\ Cardinality(LoggingIn) \in Nat
      /\ Cardinality(Task) \in Nat
  BY LoggingInFinite DEF LoggingIn
<1> QED
  BY <1>1, <1>2, AccessAssumption DEF IInv, TypeOK, ThrottleBounded, LoggingIn, Throttle

LEMMA HeadersDone ==
  ASSUME IInv, NEW t \in Task, HeaderDone(t)
  PROVE  IInv'
<1> DEFINE n == task[t].name
           in == [NoTask EXCEPT !.pc = "in", !.name = n]
           new == [ name |-> n, pw |-> task[t].pw, hash |-> task[t].hash,
                    late |-> StoredHash(n) # task[t].hash ]
<1>1. At(t, "header") /\ UNCHANGED <<store, salts, cookies, failures, window>> /\ UNCHANGED Throttle
  BY DEF HeaderDone, Throttle
<1>2. n \in Name /\ task[t].pw \in Password /\ task[t].hash \in Hash
  BY <1>1 DEF IInv, TasksKnown, At
<1>3. \/ memo' = new /\ Become(t, in)
      \/ memo' = memo /\ Become(t, NoTask)
  BY DEF HeaderDone, Leave
<1>4. in \in TaskState /\ in.pc = "in" /\ in.name = n
  BY <1>2, Idle DEF TaskState
<1>5. TasksKnown' /\ task' \in [Task -> TaskState]
  BY <1>2, <1>3, <1>4, Idle, TasksStay
<1>6. ThrottleBounded'
  BY <1>1, <1>3, <1>4, Idle, ThrottleStays
<1>7. (StoredHash(n) # task[t].hash) \in BOOLEAN
  OBVIOUS
<1>8. new \in Memo
  BY <1>2, <1>7 DEF Memo
<1>9. TypeOK'
  BY <1>1, <1>3, <1>5, <1>8 DEF IInv, TypeOK
<1>10. MemoFollowsUsers'
  <2>1. CASE memo' = new
    <3>1. \A m : StoredHash(m)' = StoredHash(m)
      BY <1>1 DEF StoredHash, Known, HasRole
    <3>2. new.name = n /\ new.hash = task[t].hash /\ (~new.late => StoredHash(n) = task[t].hash)
      BY Zenon
    <3> QED
      BY <2>1, <3>1, <3>2 DEF MemoFollowsUsers
  <2>2. CASE memo' = memo /\ Become(t, NoTask)
    BY <1>1, <2>2, Becomes, MemoStays DEF IInv, At
  <2> QED
    BY <1>3, <2>1, <2>2
<1> QED
  BY <1>1, <1>5, <1>6, <1>9, <1>10 DEF IInv, CookiesProven

LEMMA UsersApplied ==
  ASSUME IInv, NEW t \in Task, ApplyUsers(t)
  PROVE  IInv'
<1>1. PICK p \in Password :
        \E cand \in Users(store, task[t].name, HashOf(p, salts + 1)) : Valid(cand) /\ store' = cand
  BY DEF ApplyUsers
<1>2. /\ At(t, "users") /\ salts < Salts /\ salts' = salts + 1 /\ memo' = Nobody
      /\ Become(t, NoTask) /\ UNCHANGED <<cookies, failures, window>> /\ UNCHANGED Throttle
  BY DEF ApplyUsers, Leave, Throttle
<1>3. task[t].name \in Name /\ HashOf(p, salts + 1) \in Hash /\ salts' \in 0 .. Salts
  BY <1>2, HashMade DEF IInv, TasksKnown, At
<1>4. store' \in Document /\ Valid(store')
  BY <1>1, <1>3, UsersDocument DEF IInv, TypeOK
<1>5. TasksKnown' /\ task' \in [Task -> TaskState]
  BY <1>2, Idle, TasksStay
<1>6. ThrottleBounded'
  BY <1>2, Idle, ThrottleStays
<1>7. TypeOK'
  BY <1>2, <1>3, <1>4, <1>5 DEF IInv, TypeOK
<1>8. MemoFollowsUsers' /\ CookiesProven'
  BY <1>2 DEF IInv, MemoFollowsUsers, CookiesProven
<1> QED
  BY <1>4, <1>5, <1>6, <1>7, <1>8 DEF IInv

\* The password of a user who is there.
LEMMA PasswordSet ==
  ASSUME NEW doc \in Document, Valid(doc), NEW u \in doc.users, NEW hash \in Hash
  PROVE  /\ SetUser(doc, u.name, u.role, hash) \in Document
         /\ Valid(SetUser(doc, u.name, u.role, hash))
<1> DEFINE cand == SetUser(doc, u.name, u.role, hash)
           same == [name |-> u.name, role |-> u.role, hash |-> hash]
<1>1. u.name \in Name /\ u.role \in Role
  BY Fields DEF User
<1>2. cand \in Document
  BY <1>1, UserSet
<1>3. /\ cand.users = {w \in doc.users : w.name # u.name} \cup {same}
      /\ cand.keys = doc.keys /\ cand.clients = doc.clients /\ cand.groups = doc.groups
      /\ cand.limits = doc.limits
  BY DEF SetUser, Document
<1>4. same.name = u.name /\ same.role = u.role
  OBVIOUS
<1>5. Superusers(cand) = Superusers(doc)
  BY RoleKept
<1>6. Names(cand.users) = Names(doc.users)
  <2>1. \A n : (\E w \in cand.users : w.name = n) <=> \E w \in doc.users : w.name = n
    BY <1>3, <1>4
  <2> QED
    BY <2>1, ZenonT(30) DEF Names
<1> HIDE DEF cand, same
<1>7. Distinct(cand.users, LAMBDA w : w.name)
  BY <1>3, <1>4 DEF Valid, Distinct
<1>8. \A v, w \in cand.users : v.role = "superuser" /\ w.role = "superuser" => v = w
  BY <1>3, <1>4 DEF Valid
<1>9. Owned(doc) => Owned(cand)
  BY <1>3, <1>6 DEF Owned
<1>10. Floor(doc) => Floor(cand)
  BY <1>3, <1>5 DEF Floor, On, Place
<1>11. Valid(cand)
  BY <1>3, <1>5, <1>7, <1>8, <1>9, <1>10 DEF Valid, Claimed, Distinct
<1> QED
  BY <1>2, <1>11 DEF cand

LEMMA PasswordsApplied ==
  ASSUME IInv, NEW t \in Task, ApplyPassword(t)
  PROVE  IInv'
<1> DEFINE n == task[t].name
<1>1. PICK p \in Password, u \in store.users :
        /\ u.name = n
        /\ store' = SetUser(store, n, u.role, HashOf(p, salts + 1))
        /\ Become(t, [task[t] EXCEPT !.pc = "clear", !.hash = HashOf(p, salts + 1)])
  BY DEF ApplyPassword
<1> DEFINE state == [task[t] EXCEPT !.pc = "clear", !.hash = HashOf(p, salts + 1)]
<1>2. /\ At(t, "account") /\ salts < Salts /\ salts' = salts + 1
      /\ UNCHANGED <<cookies, memo, failures, window>> /\ UNCHANGED Throttle
  BY DEF ApplyPassword, Session, Throttle
<1>3. n \in Name /\ HashOf(p, salts + 1) \in Hash /\ salts' \in 0 .. Salts
  BY <1>2, HashMade DEF IInv, TasksKnown, At
<1>4. store' \in Document /\ Valid(store')
  BY <1>1, <1>3, PasswordSet DEF IInv, TypeOK
<1>5. /\ state \in TaskState /\ state.pc = "clear" /\ state.name = n
      /\ state.hash = HashOf(p, salts + 1)
  BY <1>3 DEF IInv, TypeOK, TaskState
<1>6. TasksKnown' /\ task' \in [Task -> TaskState]
  BY <1>1, <1>3, <1>5, TasksStay
<1>7. ThrottleBounded'
  BY <1>1, <1>2, <1>5, ThrottleStays
<1>8. TypeOK'
  BY <1>2, <1>3, <1>4, <1>6 DEF IInv, TypeOK
<1>9. MemoFollowsUsers'
  <2>1. At(t, "clear")'
    BY <1>1, <1>5, Becomes DEF IInv, At
  <2> QED
    BY <2>1 DEF MemoFollowsUsers
<1>10. CookiesProven'
  BY <1>2 DEF IInv, CookiesProven
<1> QED
  BY <1>4, <1>6, <1>7, <1>8, <1>9, <1>10 DEF IInv

LEMMA MemosCleared ==
  ASSUME IInv, NEW t \in Task, ClearMemo(t)
  PROVE  IInv'
<1>1. /\ At(t, "clear") /\ memo' = Nobody /\ Become(t, NoTask)
      /\ cookies' = cookies \cup
            {[name |-> task[t].name, hash |-> task[t].hash, proof |-> task[t].hash]}
      /\ UNCHANGED <<store, salts, failures, window>> /\ UNCHANGED Throttle
  BY DEF ClearMemo, Leave, Mint, Throttle
<1>2. task[t].name \in Name /\ task[t].hash \in Hash
  BY <1>1 DEF IInv, TasksKnown, At
<1>3. TasksKnown' /\ task' \in [Task -> TaskState]
  BY <1>1, Idle, TasksStay
<1>4. ThrottleBounded'
  BY <1>1, Idle, ThrottleStays
<1>5. TypeOK'
  BY <1>1, <1>2, <1>3 DEF IInv, TypeOK, Cookie
<1>6. MemoFollowsUsers' /\ CookiesProven'
  BY <1>1 DEF IInv, MemoFollowsUsers, CookiesProven
<1> QED
  BY <1>1, <1>3, <1>4, <1>5, <1>6 DEF IInv

-----------------------------------------------------------------------------
(* The theorems.                                                           *)

LEMMA InitInvariant ==
  Init => IInv
<1> SUFFICES ASSUME Init PROVE IInv
  OBVIOUS
<1>1. \A t \in Task : task[t] = NoTask
  BY DEF Init
<1>2. TypeOK
  BY Idle, AccessAssumption DEF Init, TypeOK
<1>3. Valid(store) /\ CookiesProven /\ MemoFollowsUsers
  BY AccessAssumption DEF Init, CookiesProven, MemoFollowsUsers
<1>4. TasksKnown
  BY <1>1, Idle DEF TasksKnown
<1>5. ThrottleBounded
  <2>1. LoggingIn = {}
    BY <1>1, Idle DEF LoggingIn, At
  <2>2. Cardinality(LoggingIn) = 0 /\ Cardinality(Task) \in Nat
    BY <2>1, FS_EmptySet, LoggingInFinite
  <2> QED
    BY <2>2, AccessAssumption DEF Init, ThrottleBounded, LoggingIn
<1> QED
  BY <1>2, <1>3, <1>4, <1>5 DEF IInv

LEMMA NextInvariant ==
  IInv /\ [Next]_vars => IInv'
<1> SUFFICES ASSUME IInv, [Next]_vars PROVE IInv'
  OBVIOUS
<1>1. CASE UNCHANGED vars
  <2>1. UNCHANGED <<store, salts, cookies, memo, failures, window, task>>
    BY <1>1 DEF vars
  <2>2. MemoFollowsUsers'
    BY <2>1, MemoStays DEF At
  <2> QED
    BY <2>1, <2>2 DEF IInv, TypeOK, TasksKnown, CookiesProven, ThrottleBounded, At
<1>2. ASSUME NEW t \in Task, Authenticate(t)
      PROVE  IInv'
  BY <1>2, Logins, Readers, LoginsDone, HeadersDone DEF Authenticate
<1>3. ASSUME NEW t \in Task, Manage(t)
      PROVE  IInv'
  BY <1>3, Readers, UsersApplied, PasswordsApplied, MemosCleared DEF Manage
<1>4. CASE Admit \/ WindowOver \/ Expire
  BY <1>4, Throttles
<1> QED
  BY <1>1, <1>2, <1>3, <1>4 DEF Next

\* The invariant holds in every reachable state.
THEOREM Invariant == Spec => []IInv
<1>1. Init => IInv
  BY InitInvariant
<1>2. IInv /\ [Next]_vars => IInv'
  BY NextInvariant
<1> QED
  BY <1>1, <1>2, PTL DEF Spec

\* The variables stay in their types.
THEOREM TypeCorrect == Spec => []TypeOK
<1>1. IInv => TypeOK
  BY DEF IInv
<1> QED
  BY <1>1, Invariant, PTL

\* A session that is accepted was minted for one who proved the password in force.
THEOREM SessionsProven == Spec => []SessionProven
<1>1. IInv => SessionProven
  BY DEF IInv, CookiesProven, SessionProven, Accepted
<1> QED
  BY <1>1, Invariant, PTL

\* The memo holds nothing the store would refuse, but what was late.
THEOREM MemoRight == Spec => []MemoFollowsUsers
<1>1. IInv => MemoFollowsUsers
  BY DEF IInv
<1> QED
  BY <1>1, Invariant, PTL

\* The attempts of a window exceed the limit by those under way at most.
THEOREM ThrottleHolds == Spec => []ThrottleBounded
<1>1. IInv => ThrottleBounded
  BY DEF IInv
<1> QED
  BY <1>1, Invariant, PTL

\* A user is changed by an admin, who is one at that moment, or by themselves,
\* who proved the password they replace.
THEOREM ChangesAuthorized == Spec => ChangeAuthorized
<1>1. IInv /\ [Next]_vars =>
        [ \A n \in Name : Changed(n) =>
            \E t \in Task :
              \/ At(t, "users") /\ Admin(store, task[t].name) /\ n \notin Superusers(store)
              \/ At(t, "account") /\ task[t].name = n /\ task[t].hash = StoredHash(n) ]_vars
  <2> SUFFICES ASSUME IInv, Next, NEW n \in Name, Changed(n)
               PROVE  \E t \in Task :
                 \/ At(t, "users") /\ Admin(store, task[t].name) /\ n \notin Superusers(store)
                 \/ At(t, "account") /\ task[t].name = n /\ task[t].hash = StoredHash(n)
    OBVIOUS
  <2>1. store' # store
    BY DEF Changed
  <2>2. PICK t \in Task : ApplyUsers(t) \/ ApplyPassword(t)
    BY <2>1 DEF Next, Authenticate, Manage, Login, HeaderAuth, LoginDone, HeaderDone, CookieAuth,
       Answer, UsersForm, AccountForm, ClearMemo, Refused, Admit, WindowOver, Expire
  <2>3. CASE ApplyUsers(t)
    <3>1. PICK p \in Password : store' \in Users(store, task[t].name, HashOf(p, salts + 1))
      BY <2>3 DEF ApplyUsers
    <3>2. At(t, "users") /\ task[t].name \in Name /\ HashOf(p, salts + 1) \in Hash
      BY <2>3, HashMade DEF ApplyUsers, At, IInv, TasksKnown
    <3>3. Admin(store, task[t].name)
      BY <3>1 DEF Users
    <3>4. n \notin Superusers(store)
      BY <3>1, <3>2, UsersSpareSuperuser DEF Changed, IInv, TypeOK
    <3> QED
      BY <3>2, <3>3, <3>4
  <2>4. CASE ApplyPassword(t)
    <3>1. /\ At(t, "account") /\ StoredHash(task[t].name) = task[t].hash
          /\ \E role, hash : store' = SetUser(store, task[t].name, role, hash)
      BY <2>4 DEF ApplyPassword
    <3>2. \A m, role, hash : SetUser(store, m, role, hash).users =
            {v \in store.users : v.name # m} \cup {[name |-> m, role |-> role, hash |-> hash]}
      BY DEF SetUser, IInv, TypeOK, Document
    <3>3. n = task[t].name
      BY <3>1, <3>2 DEF Changed
    <3> QED
      BY <3>1, <3>3
  <2> QED
    BY <2>2, <2>3, <2>4
<1> QED
  BY <1>1, Invariant, PTL DEF Spec, ChangeAuthorized
=============================================================================
