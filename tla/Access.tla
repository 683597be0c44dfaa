------------------------------- MODULE Access -------------------------------
(***************************************************************************)
(* Who may use the dashboard.  A password is verified, and a new one is    *)
(* hashed, on a blocking thread without the store's mutex, so the users    *)
(* may change between the read of a hash and what is done on its account:  *)
(* a session is minted, a credential memoized, a password replaced.        *)
(*                                                                         *)
(* A hash is a password and its salt, and no salt is drawn twice.  A       *)
(* session cookie carries the hash it is bound to and dies with it, with   *)
(* the process, or of age.  A save is one step here: Settings says what    *)
(* happens inside it.                                                      *)
(***************************************************************************)
EXTENDS Config

CONSTANTS
  Task,          \* the tasks that serve the dashboard
  Password,      \* the passwords
  Salts,         \* bound: the hashes made
  MaxFailures,   \* THROTTLE_MAX_FAILURES
  Boot,          \* the document the process starts from
  Nobody         \* no hash, credential or name

HashOf(p, salt) == [pw |-> p, salt |-> salt]

ASSUME AccessAssumption ==
  /\ MaxFailures \in Nat /\ Salts \in Nat
  /\ IsFiniteSet(Task)
  /\ Hash = [pw : Password, salt : 0 .. Salts]
  /\ Nobody \notin Hash \cup Name
  /\ Boot \in Document /\ Valid(Boot) /\ Claimed(Boot)
  /\ \A u \in Boot.users : u.hash.salt = 0

VARIABLES
  store,      \* the document of record
  salts,      \* the salts drawn so far
  cookies,    \* the live session cookies
  memo,       \* the last header credential that was verified, or Nobody
  failures,   \* the throttle: attempts counted in the window
  window,     \* whether the window is still running
  task        \* where each task stands

vars == <<store, salts, cookies, memo, failures, window, task>>

\* proof: the hash that was verified, or made, for the one who holds the cookie.
Cookie == [name : Name, hash : Hash, proof : Hash]

\* late: the user was removed, or had another hash, as the credential was
\* memoized.
Memo == [name : Name, pw : Password, hash : Hash, late : BOOLEAN]

\* name: the user a task acts for.  pw: the password presented.  hash: the
\* hash read from the store.
TaskState ==
  [ pc : {"idle", "login", "header", "in", "users", "account", "clear"},
    name : Name \cup {Nobody}, pw : Password \cup {Nobody}, hash : Hash \cup {Nobody} ]

NoTask == [pc |-> "idle", name |-> Nobody, pw |-> Nobody, hash |-> Nobody]

TypeOK ==
  /\ store \in Document
  /\ salts \in 0 .. Salts
  /\ cookies \in SUBSET Cookie
  /\ memo \in Memo \cup {Nobody}
  /\ failures \in Nat /\ window \in BOOLEAN
  /\ task \in [Task -> TaskState]

\* A boot draws a new signing key: no cookie of an earlier process is live.
Init ==
  /\ store = Boot
  /\ salts = 0
  /\ cookies = {} /\ memo = Nobody
  /\ failures = 0 /\ window = TRUE
  /\ task = [t \in Task |-> NoTask]

At(t, pc) == task[t].pc = pc
Become(t, state) == task' = [task EXCEPT ![t] = state]
Leave(t) == Become(t, NoTask)

\* The hash of a user, or Nobody.
StoredHash(n) ==
  IF Known(store, n) THEN (CHOOSE u \in store.users : u.name = n).hash ELSE Nobody

\* verify_password; a hash nobody has matches nothing.
Matches(p, hash) == IF hash = Nobody THEN FALSE ELSE hash.pw = p

Session == <<cookies, memo>>
Throttle == <<failures, window>>

-----------------------------------------------------------------------------
(* The login page and its throttle.                                        *)

Throttled == window /\ failures > MaxFailures

\* Counting an attempt opens a new window when the last one is over.
Counted == IF window THEN failures + 1 ELSE 1

\* A throttled caller is turned away before the store is read.
Login(t, n, p) ==
  /\ At(t, "idle") /\ ~Throttled
  /\ Become(t, [pc |-> "login", name |-> n, pw |-> p, hash |-> StoredHash(n)])
  /\ UNCHANGED <<store, salts, Session, Throttle>>

Mint(n, hash, proof) == cookies' = cookies \cup {[name |-> n, hash |-> hash, proof |-> proof]}

LoginDoneLive(t) ==
  /\ At(t, "login")
  /\ IF Matches(task[t].pw, task[t].hash)
     THEN /\ IF StoredHash(task[t].name) = Nobody THEN UNCHANGED cookies
             ELSE Mint(task[t].name, StoredHash(task[t].name), task[t].hash)
          /\ UNCHANGED Throttle
     ELSE failures' = Counted /\ window' = TRUE /\ UNCHANGED cookies
  /\ Leave(t)
  /\ UNCHANGED <<store, salts, memo>>

\* The cookie is bound to the hash that was verified, whatever it is now.
LoginDone(t) ==
  /\ At(t, "login")
  /\ IF Matches(task[t].pw, task[t].hash)
     THEN Mint(task[t].name, task[t].hash, task[t].hash) /\ UNCHANGED Throttle
     ELSE failures' = Counted /\ window' = TRUE /\ UNCHANGED cookies
  /\ Leave(t)
  /\ UNCHANGED <<store, salts, memo>>

AdmitAlways ==
  /\ failures' = Counted /\ window' = TRUE
  /\ UNCHANGED <<store, salts, Session, task>>

\* An attempt of the setup wizard is counted as it is admitted, under the
\* limiter's lock, and turned away when the window is full.
Admit ==
  /\ ~Throttled
  /\ failures' = Counted /\ window' = TRUE
  /\ UNCHANGED <<store, salts, Session, task>>

WindowOver ==
  /\ window
  /\ window' = FALSE
  /\ UNCHANGED <<store, salts, Session, failures, task>>

-----------------------------------------------------------------------------
(* identify: who a request comes from.                                     *)

Accepted(c) == c.hash = StoredHash(c.name)

\* A session cookie is checked against the live store.
CookieAuth(t) ==
  /\ At(t, "idle")
  /\ \E c \in cookies : Accepted(c) /\ Become(t, [NoTask EXCEPT !.pc = "in", !.name = c.name])
  /\ UNCHANGED <<store, salts, Session, Throttle>>

Remembered(n, p) == memo # Nobody /\ memo.name = n /\ memo.pw = p

\* A header credential that is the memoized one is believed at once; any other
\* is verified against the hash read now.
HeaderAuth(t, n, p) ==
  /\ At(t, "idle")
  /\ IF Remembered(n, p)
     THEN Become(t, [NoTask EXCEPT !.pc = "in", !.name = n])
     ELSE /\ StoredHash(n) # Nobody
          /\ Become(t, [pc |-> "header", name |-> n, pw |-> p, hash |-> StoredHash(n)])
  /\ UNCHANGED <<store, salts, Session, Throttle>>

\* A credential that was right is memoized, and the request goes on.
HeaderDone(t) ==
  LET n == task[t].name
  IN  /\ At(t, "header")
      /\ IF Matches(task[t].pw, task[t].hash)
         THEN /\ memo' = [ name |-> n, pw |-> task[t].pw, hash |-> task[t].hash,
                           late |-> StoredHash(n) # task[t].hash ]
              /\ Become(t, [NoTask EXCEPT !.pc = "in", !.name = n])
         ELSE UNCHANGED memo /\ Leave(t)
      /\ UNCHANGED <<store, salts, cookies, Throttle>>

-----------------------------------------------------------------------------
(* What an authenticated request does.                                     *)

\* It reads, or changes settings that are not about users.
Answer(t) ==
  /\ At(t, "in")
  /\ Leave(t)
  /\ UNCHANGED <<store, salts, Session, Throttle>>

\* users: the role is checked, and a password is hashed without the mutex.
UsersForm(t) ==
  /\ At(t, "in") /\ Admin(store, task[t].name)
  /\ Become(t, [task[t] EXCEPT !.pc = "users"])
  /\ UNCHANGED <<store, salts, Session, Throttle>>

ApplyUsersKeepsMemo(t) ==
  /\ At(t, "users") /\ salts < Salts
  /\ \E p \in Password :
       \E cand \in Users(store, task[t].name, HashOf(p, salts + 1)) : Valid(cand) /\ store' = cand
  /\ salts' = salts + 1
  /\ Leave(t)
  /\ UNCHANGED <<memo, cookies, Throttle>>

\* The role is checked again with the mutex held; after the commit, and before
\* the mutex is let go, the memo is cleared.
ApplyUsers(t) ==
  /\ At(t, "users") /\ salts < Salts
  /\ \E p \in Password :
       \E cand \in Users(store, task[t].name, HashOf(p, salts + 1)) : Valid(cand) /\ store' = cand
  /\ salts' = salts + 1
  /\ memo' = Nobody
  /\ Leave(t)
  /\ UNCHANGED <<cookies, Throttle>>

\* account: the current password is to be verified against the hash read now.
AccountForm(t, p) ==
  /\ At(t, "in") /\ StoredHash(task[t].name) # Nobody
  /\ Matches(p, StoredHash(task[t].name))
  /\ Become(t, [task[t] EXCEPT !.pc = "account", !.pw = p, !.hash = StoredHash(task[t].name)])
  /\ UNCHANGED <<store, salts, Session, Throttle>>

ApplyPasswordAnyway(t) ==
  LET n == task[t].name
  IN  /\ At(t, "account") /\ salts < Salts
      /\ StoredHash(n) # Nobody
      /\ \E p \in Password, u \in store.users :
           /\ u.name = n
           /\ store' = SetUser(store, n, u.role, HashOf(p, salts + 1))
           /\ Become(t, [task[t] EXCEPT !.pc = "clear", !.hash = HashOf(p, salts + 1)])
      /\ salts' = salts + 1
      /\ UNCHANGED <<Session, Throttle>>

\* The new hash replaces the verified one, unless that was rotated meanwhile.
ApplyPassword(t) ==
  LET n == task[t].name
  IN  /\ At(t, "account") /\ salts < Salts
      /\ StoredHash(n) = task[t].hash
      /\ \E p \in Password, u \in store.users :
           /\ u.name = n
           /\ store' = SetUser(store, n, u.role, HashOf(p, salts + 1))
           /\ Become(t, [task[t] EXCEPT !.pc = "clear", !.hash = HashOf(p, salts + 1)])
      /\ salts' = salts + 1
      /\ UNCHANGED <<Session, Throttle>>

\* After the mutex: the memo is cleared, and a new cookie is minted.
ClearMemo(t) ==
  /\ At(t, "clear")
  /\ memo' = Nobody
  /\ Mint(task[t].name, task[t].hash, task[t].hash)
  /\ Leave(t)
  /\ UNCHANGED <<store, salts, Throttle>>

\* A request is refused or dropped; a cookie expires or is forgotten.
Refused(t) ==
  /\ task[t].pc \in {"users", "account"}
  /\ Leave(t)
  /\ UNCHANGED <<store, salts, Session, Throttle>>

Expire ==
  /\ \E c \in cookies : cookies' = cookies \ {c}
  /\ UNCHANGED <<store, salts, memo, Throttle, task>>

-----------------------------------------------------------------------------

Authenticate(t) ==
  \/ \E n \in Name, p \in Password : Login(t, n, p) \/ HeaderAuth(t, n, p)
  \/ LoginDone(t) \/ HeaderDone(t) \/ CookieAuth(t)

Manage(t) ==
  \/ Answer(t) \/ UsersForm(t) \/ ApplyUsers(t)
  \/ \E p \in Password : AccountForm(t, p)
  \/ ApplyPassword(t) \/ ClearMemo(t) \/ Refused(t)

Next ==
  \/ \E t \in Task : Authenticate(t) \/ Manage(t)
  \/ Admit \/ WindowOver \/ Expire

Spec == Init /\ [][Next]_vars

-----------------------------------------------------------------------------
(* Properties.                                                             *)

\* A session that is accepted was minted for someone who proved, or chose, the
\* very password in force: a login that was verified against a hash since
\* replaced, a user removed and made again, yield no session that works.
SessionProven ==
  \A c \in cookies : Accepted(c) => c.proof = StoredHash(c.name)

Changed(n) == {u \in store.users : u.name = n} # {u \in store'.users : u.name = n}

\* Whoever changes a user is an admin at that very moment, or replaces the very
\* password they proved; the superuser is changed by no one else. "Keep
\* authorization live through the mutation"; "a hash rotation - an admin reset
\* landing in that window - must win" (settings.rs).
ChangeAuthorized ==
  [][ \A n \in Name : Changed(n) =>
        \E t \in Task :
          \/ At(t, "users") /\ Admin(store, task[t].name) /\ n \notin Superusers(store)
          \/ At(t, "account") /\ task[t].name = n /\ task[t].hash = StoredHash(n) ]_vars

\* The memo is cleared on every path that makes a credential wrong: what is in
\* it is right, unless it was already wrong as it was put there, or a clear is
\* about to come.
MemoFollowsUsers ==
  memo # Nobody /\ ~memo.late /\ (\A t \in Task : ~At(t, "clear")) =>
    memo.hash = StoredHash(memo.name)

\* Attempts counted in one window exceed the limit by those that passed the
\* check together at most; the wizard's, counted as they are admitted, not at
\* all.
ThrottleBounded ==
  window => failures + Cardinality({t \in Task : At(t, "login")})
              =< MaxFailures + 1 + Cardinality(Task)

\* "Call on any change to users (password change/reset, user removal) so
\* revocation is immediate" (auth.rs): with no change under way, the memo holds
\* no credential the store would refuse.
RevocationImmediate ==
  memo # Nobody /\ (\A t \in Task : ~At(t, "clear")) => memo.hash = StoredHash(memo.name)
=============================================================================
