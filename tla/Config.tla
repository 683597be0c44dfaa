------------------------------- MODULE Config -------------------------------
(***************************************************************************)
(* The configuration document: what an operator may store, the rulebook    *)
(* every save and every start applies to it, and what each settings form   *)
(* makes of it.  A form that is refused before the rulebook is asked, for  *)
(* want of a role or of the thing it names, has no candidate.              *)
(*                                                                         *)
(* Keys, client keys and users are sets: the candidate of an addition      *)
(* that would repeat a name is left out, since the rulebook refuses it.    *)
(* Numbers and texts in and out of range are members of Limits.            *)
(***************************************************************************)
EXTENDS Integers, Sequences, FiniteSets

LOCAL INSTANCE Functions

CONSTANTS
  Name,       \* the user names
  Hash,       \* the password hashes
  Key,        \* the upstream keys
  Client,     \* the names of client keys
  Primary,    \* the primary endpoint group
  Extra,      \* the ids of other endpoint groups
  Model,      \* the models
  Limits,     \* the settings of the server, history, governor and locale forms
  InRange     \* those of them the rulebook accepts

Role == {"superuser", "admin", "user"}
Group == {Primary} \cup Extra

User == [name : Name, role : Role, hash : Hash]
NimKey == [key : Key, group : Group, owner : Name, enabled : BOOLEAN]
ClientKey == [name : Client, owner : Name]
Endpoint == [id : Group, enabled : BOOLEAN, models : SUBSET Model]

\* groups: the primary first; the place of a group is its endpoint index.
Document ==
  [ users : SUBSET User, groups : Seq(Endpoint), keys : SUBSET NimKey,
    clients : SUBSET ClientKey, mode : {"open", "keyed"},
    disabled : SUBSET Model, limits : Limits ]

Names(set) == {r.name : r \in set}
GroupIds(doc) == {doc.groups[i].id : i \in DOMAIN doc.groups}
Place(doc, g) == CHOOSE i \in DOMAIN doc.groups : doc.groups[i].id = g
On(doc, g) == doc.groups[Place(doc, g)].enabled

Superusers(doc) == {u.name : u \in {v \in doc.users : v.role = "superuser"}}
Claimed(doc) == Superusers(doc) # {}

-----------------------------------------------------------------------------
(* The rulebook.                                                           *)

Distinct(set, id(_)) == \A r, s \in set : id(r) = id(s) => r = s

\* Every key and client key belongs to a user there is.
Owned(doc) ==
  \A k \in doc.keys \cup doc.clients : k.owner \in Names(doc.users)

\* A key is listed in a group there is.
Placed(doc) == \A k \in doc.keys : k.group \in GroupIds(doc)

FloorAnyOwner(doc) ==
  \E k \in doc.keys : k.enabled /\ On(doc, k.group)

\* The pool floor: a superuser owns an enabled key on an enabled group.
Floor(doc) ==
  \E k \in doc.keys : k.enabled /\ On(doc, k.group) /\ k.owner \in Superusers(doc)

\* A store nobody has claimed may hold the keys of users that are gone.
Valid(doc) ==
  /\ doc.limits \in InRange
  /\ Distinct(doc.users, LAMBDA u : u.name)
  /\ Distinct(doc.keys, LAMBDA k : k.key)
  /\ Distinct(doc.clients, LAMBDA c : c.name)
  /\ \A i, j \in DOMAIN doc.groups : doc.groups[i].id = doc.groups[j].id => i = j
  /\ \A u, v \in doc.users : u.role = "superuser" /\ v.role = "superuser" => u = v
  /\ Claimed(doc) => Owned(doc) /\ Floor(doc)

-----------------------------------------------------------------------------
(* What the rest of the program is given of a document.                    *)

\* The groups counted after those switched off were dropped.
PoolSpecsOfTheOn(doc) ==
  LET on == SelectSeq(doc.groups, LAMBDA ep : ep.enabled)
      place(g) == CHOOSE i \in DOMAIN on : on[i].id = g
  IN  { [ key |-> k.key, endpoint |-> IF On(doc, k.group) THEN place(k.group) ELSE 0,
          group |-> k.group, owner |-> k.owner, enabled |-> k.enabled /\ On(doc, k.group) ] :
          k \in doc.keys }

\* A lane of the pool for every key, with the index of its group.
PoolSpecs(doc) ==
  { [ key |-> k.key, endpoint |-> Place(doc, k.group), group |-> k.group,
      owner |-> k.owner, enabled |-> k.enabled /\ On(doc, k.group) ] : k \in doc.keys }

\* The snapshot the request paths consume; in open mode it has no client keys.
Snapshot ==
  [ endpoints : Seq(Endpoint), disabled : SUBSET Model, limits : Limits,
    mode : {"open", "keyed"}, clients : SUBSET Client ]

Runtime(doc) ==
  [ endpoints |-> doc.groups, disabled |-> doc.disabled, limits |-> doc.limits,
    mode |-> doc.mode, clients |-> IF doc.mode = "open" THEN {} ELSE Names(doc.clients) ]

\* The indexes of the groups that may serve a model: those that list it, else
\* those that list nothing.  A model switched off has none.
RouteModel(cfg, m) ==
  LET on == {i \in DOMAIN cfg.endpoints : cfg.endpoints[i].enabled}
      specific == {i \in on : m \in cfg.endpoints[i].models}
  IN  IF m \in cfg.disabled THEN {}
      ELSE IF specific # {} THEN specific
      ELSE {i \in on : cfg.endpoints[i].models = {}}

-----------------------------------------------------------------------------
(* The candidates of each form, for the user who sends it.                 *)

HasRole(doc, u, roles) == \E v \in doc.users : v.name = u /\ v.role \in roles
Known(doc, u) == HasRole(doc, u, Role)
Admin(doc, u) == HasRole(doc, u, {"superuser", "admin"})

NewKeys(doc, u) ==
  [ key : Key \ {k.key : k \in doc.keys}, group : GroupIds(doc), owner : {u}, enabled : {TRUE} ]

\* A key or a group that is switched on or off.
Switched(r) == [r EXCEPT !.enabled = ~@]

\* Any user adds keys, and removes or changes their own; an admin anyone's.
NimKeys(doc, u) ==
  LET mine == {k \in doc.keys : Admin(doc, u) \/ k.owner = u}
  IN  IF ~Known(doc, u) THEN {}
      ELSE { [doc EXCEPT !.keys = @ \cup {k}] : k \in NewKeys(doc, u) }
           \cup { [doc EXCEPT !.keys = @ \ {k}] : k \in mine }
           \cup { [doc EXCEPT !.keys = (@ \ {k}) \cup {Switched(k)}] : k \in mine }

\* Client keys likewise; whether one is asked for is an admin's choice.
Clients(doc, u) ==
  LET mine == {c \in doc.clients : Admin(doc, u) \/ c.owner = u}
      added == [name : Client \ Names(doc.clients), owner : {u}]
  IN  IF ~Known(doc, u) THEN {}
      ELSE { [doc EXCEPT !.clients = @ \cup {c}] : c \in added }
           \cup { [doc EXCEPT !.clients = @ \ {c}] : c \in mine }
           \cup { [doc EXCEPT !.mode = mode] : mode \in IF Admin(doc, u) THEN {"open", "keyed"} ELSE {} }

\* A group goes with its keys, and the groups after it move up by one.
WithoutGroup(doc, g) ==
  [ doc EXCEPT !.groups = SubSeq(@, 1, Place(doc, g) - 1)
                            \o SubSeq(@, Place(doc, g) + 1, Len(@)),
               !.keys = {k \in @ : k.group # g} ]

NewGroups(doc) == [id : Extra \ GroupIds(doc), enabled : {TRUE}, models : SUBSET Model]

WithGroup(doc, i, ep) == [doc EXCEPT !.groups = [@ EXCEPT ![i] = ep]]
Relisted(doc, i) ==
  {WithGroup(doc, i, [doc.groups[i] EXCEPT !.models = ms]) : ms \in SUBSET Model}

Upstreams(doc, u) ==
  IF ~Admin(doc, u) THEN {}
  ELSE { [doc EXCEPT !.groups = Append(@, ep)] : ep \in NewGroups(doc) }
       \cup { WithoutGroup(doc, g) : g \in GroupIds(doc) \ {Primary} }
       \cup { WithGroup(doc, i, Switched(doc.groups[i])) : i \in DOMAIN doc.groups }
       \cup UNION { Relisted(doc, i) : i \in DOMAIN doc.groups }

Models(doc, u) ==
  IF ~Admin(doc, u) THEN {} ELSE { [doc EXCEPT !.disabled = ms] : ms \in SUBSET Model }

\* These forms replace all their fields at once, whether in range or not.
Section(doc, u) ==
  IF ~Admin(doc, u) THEN {} ELSE { [doc EXCEPT !.limits = l] : l \in Limits }

\* A locale that is not installed is refused before the rulebook is asked.
DefaultLocale(doc, u) == {cand \in Section(doc, u) : cand.limits \in InRange}

WithoutUser(doc, n) ==
  [ doc EXCEPT !.users = {u \in @ : u.name # n},
               !.keys = {k \in @ : k.owner # n},
               !.clients = {c \in @ : c.owner # n} ]

SetUser(doc, n, role, hash) ==
  [ doc EXCEPT !.users = {u \in @ : u.name # n} \cup {[name |-> n, role |-> role, hash |-> hash]} ]

\* Those an admin may remove, reset or change: never the superuser.
Subjects(doc) == {u \in doc.users : u.role # "superuser"}

Users(doc, u, hash) ==
  IF ~Admin(doc, u) THEN {}
  ELSE { SetUser(doc, n, role, hash) : n \in Name \ Names(doc.users), role \in {"admin", "user"} }
       \cup { WithoutUser(doc, v.name) : v \in Subjects(doc) }
       \cup { SetUser(doc, v.name, v.role, hash) : v \in Subjects(doc) }
       \cup { SetUser(doc, v.name, role, v.hash) : v \in Subjects(doc), role \in {"admin", "user"} }

\* A user's own password or locale.
Account(doc, u, hash) ==
  {SetUser(doc, v.name, v.role, hash) : v \in {w \in doc.users : w.name = u}}

\* Whoever claims the proxy becomes its only user, adopts the keys of the
\* primary group and the client keys, and brings keys and maybe a client key of
\* their own.  The groups after the first of the form become extra groups.
Adopted(k, u) == IF k.group = Primary THEN [k EXCEPT !.owner = u] ELSE k

Claim(doc, u, hash, req) ==
  [ doc EXCEPT
      !.users = {[name |-> u, role |-> "superuser", hash |-> hash]},
      !.keys = {Adopted(k, u) : k \in @}
               \cup { [key |-> k, group |-> req.place[k], owner |-> u, enabled |-> TRUE] :
                        k \in DOMAIN req.place },
      !.clients = {[c EXCEPT !.owner = u] : c \in @} \cup [name : req.asked, owner : {u}],
      !.groups = @ \o [ i \in DOMAIN req.more |->
                          [id |-> req.more[i], enabled |-> TRUE, models |-> {}] ] ]

\* The groups and client keys of a claim, and the group of each key it brings.
MoreGroups(doc) == {<<>>} \cup {<<g>> : g \in Extra \ GroupIds(doc)}
Asked(doc) == {{}} \cup {{c} : c \in Client \ Names(doc.clients)}
Places(doc, more) ==
  UNION { [keys -> {Primary} \cup {more[i] : i \in DOMAIN more}] :
            keys \in SUBSET (Key \ {k.key : k \in doc.keys}) }

\* The form without a script brings one key at most, and asks for none.
SetupReq(doc) ==
  UNION { [more : {more}, place : Places(doc, more), asked : Asked(doc)] : more \in MoreGroups(doc) }

SetupSubmitUnchecked(doc, u, hash) == {Claim(doc, u, hash, req) : req \in SetupReq(doc)}

\* Another claim may have been first.
SetupSubmit(doc, u, hash) ==
  IF Claimed(doc) THEN {} ELSE {Claim(doc, u, hash, req) : req \in SetupReq(doc)}

-----------------------------------------------------------------------------
(* The settings page, for the user who opens it.                           *)

\* What the pool floor rests on, and the key that bears it alone.
FloorKeys(doc) ==
  {k \in doc.keys : k.enabled /\ On(doc, k.group) /\ k.owner \in Superusers(doc)}

GuardedOnAnyGroup(doc, k) == {l \in doc.keys : l.enabled /\ l.owner \in Superusers(doc)} = {k}
Guarded(doc, k) == FloorKeys(doc) = {k}

\* A user sees what is theirs, an admin everything.
Seen(doc, u, set) == {r \in set : Admin(doc, u) \/ r.owner = u}

KeyRows(doc, u) == {[key |-> k, guarded |-> Guarded(doc, k)] : k \in Seen(doc, u, doc.keys)}

\* A group is listed for those who have keys in it.
UpstreamRows(doc, u) ==
  LET keys(ep) == {k \in Seen(doc, u, doc.keys) : k.group = ep.id}
  IN  { [group |-> ep, keys |-> Cardinality(keys(ep))] :
          ep \in {e \in Range(doc.groups) : Admin(doc, u) \/ keys(e) # {}} }

UserRows(doc) ==
  LET Owns(set, v) == Cardinality({r \in set : r.owner = v.name})
  IN  { [name |-> v.name, role |-> v.role, keys |-> Owns(doc.keys, v),
         clients |-> Owns(doc.clients, v)] : v \in doc.users }

ApiConfig(doc, u) ==
  [ keys |-> KeyRows(doc, u), clients |-> Seen(doc, u, doc.clients),
    upstreams |-> UpstreamRows(doc, u), disabled |-> doc.disabled, mode |-> doc.mode,
    users |-> IF Admin(doc, u) THEN UserRows(doc) ELSE {},
    limits |-> IF Admin(doc, u) THEN {doc.limits} ELSE {} ]
=============================================================================
