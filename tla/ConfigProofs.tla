---------------------------- MODULE ConfigProofs ----------------------------
(***************************************************************************)
(* What the forms make of a configuration document, for every set of       *)
(* names, keys, groups and models: every candidate is a document, and only *)
(* a claim ever changes who the superuser is.                              *)
(***************************************************************************)
EXTENDS Config, SequenceTheorems, TLAPS

-----------------------------------------------------------------------------
(* Documents.                                                              *)

\* The fields of a document.
LEMMA Fields ==
  ASSUME NEW doc \in Document
  PROVE  /\ doc.users \in SUBSET User /\ doc.groups \in Seq(Endpoint)
         /\ doc.keys \in SUBSET NimKey /\ doc.clients \in SUBSET ClientKey
         /\ doc.mode \in {"open", "keyed"} /\ doc.disabled \in SUBSET Model
         /\ doc.limits \in Limits
  BY DEF Document

\* A document with some of its parts replaced is one.
LEMMA Replaced ==
  ASSUME NEW doc \in Document
  PROVE  /\ \A x \in SUBSET User : [doc EXCEPT !.users = x] \in Document
         /\ \A x \in Seq(Endpoint) : [doc EXCEPT !.groups = x] \in Document
         /\ \A x \in SUBSET NimKey : [doc EXCEPT !.keys = x] \in Document
         /\ \A x \in SUBSET ClientKey : [doc EXCEPT !.clients = x] \in Document
         /\ \A x \in {"open", "keyed"} : [doc EXCEPT !.mode = x] \in Document
         /\ \A x \in SUBSET Model : [doc EXCEPT !.disabled = x] \in Document
         /\ \A x \in Limits : [doc EXCEPT !.limits = x] \in Document
  BY DEF Document

\* The groups of a document are groups, and each has a place.
LEMMA GroupsPlaced ==
  ASSUME NEW doc \in Document
  PROVE  /\ GroupIds(doc) \subseteq Group
         /\ \A g \in GroupIds(doc) :
              Place(doc, g) \in DOMAIN doc.groups /\ doc.groups[Place(doc, g)].id = g
<1>1. \A i \in DOMAIN doc.groups : doc.groups[i] \in Endpoint
  BY Fields
<1>2. GroupIds(doc) \subseteq Group
  BY <1>1 DEF GroupIds, Endpoint
<1> QED
  BY <1>2, Zenon DEF GroupIds, Place

\* A key that is switched on or off is a key.
LEMMA SwitchedKey ==
  ASSUME NEW k \in NimKey
  PROVE  Switched(k) \in NimKey
  BY DEF NimKey, Switched

\* The keys form.
LEMMA NimKeysCases ==
  ASSUME NEW doc \in Document, NEW u \in Name, NEW cand \in NimKeys(doc, u)
  PROVE  /\ Known(doc, u)
         /\ \/ \E k \in NewKeys(doc, u) : cand = [doc EXCEPT !.keys = @ \cup {k}]
            \/ \E k \in doc.keys :
                 /\ Admin(doc, u) \/ k.owner = u
                 /\ \/ cand = [doc EXCEPT !.keys = @ \ {k}]
                    \/ cand = [doc EXCEPT !.keys = (@ \ {k}) \cup {Switched(k)}]
  BY DEF NimKeys

LEMMA NimKeysDocument ==
  ASSUME NEW doc \in Document, NEW u \in Name, NEW cand \in NimKeys(doc, u)
  PROVE  cand \in Document /\ cand.users = doc.users
<1>1. doc.keys \in SUBSET NimKey
  BY Fields
<1>2. NewKeys(doc, u) \subseteq NimKey
  BY GroupsPlaced DEF NewKeys, NimKey
<1>3. ASSUME NEW ks \in SUBSET NimKey, cand = [doc EXCEPT !.keys = ks]
      PROVE  cand \in Document /\ cand.users = doc.users
  BY <1>3 DEF Document
<1>4. ASSUME NEW k \in NewKeys(doc, u), cand = [doc EXCEPT !.keys = @ \cup {k}]
      PROVE  cand \in Document /\ cand.users = doc.users
  BY <1>1, <1>2, <1>3, <1>4
<1>5. ASSUME NEW k \in doc.keys, cand = [doc EXCEPT !.keys = (@ \ {k}) \cup {Switched(k)}]
      PROVE  cand \in Document /\ cand.users = doc.users
  BY <1>1, <1>3, <1>5, SwitchedKey
<1>6. ASSUME NEW k \in doc.keys, cand = [doc EXCEPT !.keys = @ \ {k}]
      PROVE  cand \in Document /\ cand.users = doc.users
  BY <1>1, <1>3, <1>6
<1> QED
  BY <1>4, <1>5, <1>6, NimKeysCases

\* The clients form.
LEMMA ClientsDocument ==
  ASSUME NEW doc \in Document, NEW u \in Name, NEW cand \in Clients(doc, u)
  PROVE  cand \in Document /\ cand.users = doc.users
<1>1. doc.clients \in SUBSET ClientKey
  BY Fields
<1>2. [name : Client \ Names(doc.clients), owner : {u}] \subseteq ClientKey
  BY DEF ClientKey
<1>3. \/ \E c \in [name : Client \ Names(doc.clients), owner : {u}] :
           cand = [doc EXCEPT !.clients = @ \cup {c}]
      \/ \E c \in doc.clients : cand = [doc EXCEPT !.clients = @ \ {c}]
      \/ \E mode \in {"open", "keyed"} : cand = [doc EXCEPT !.mode = mode]
  BY DEF Clients
<1>4. ASSUME NEW cs \in SUBSET ClientKey, cand = [doc EXCEPT !.clients = cs]
      PROVE  cand \in Document /\ cand.users = doc.users
  BY <1>4 DEF Document
<1>5. ASSUME NEW mode \in {"open", "keyed"}, cand = [doc EXCEPT !.mode = mode]
      PROVE  cand \in Document /\ cand.users = doc.users
  BY <1>5 DEF Document
<1> QED
  BY <1>1, <1>2, <1>3, <1>4, <1>5

-----------------------------------------------------------------------------
(* The groups.                                                             *)

\* A sequence without one of its elements.
LEMMA WithoutOne ==
  ASSUME NEW S, NEW s \in Seq(S), NEW p \in DOMAIN s
  PROVE  SubSeq(s, 1, p - 1) \o SubSeq(s, p + 1, Len(s)) \in Seq(S)
<1>1. Len(s) \in Nat /\ DOMAIN s = 1 .. Len(s) /\ \A i \in 1 .. Len(s) : s[i] \in S
  BY LenProperties, ElementOfSeq
<1>2. SubSeq(s, 1, p - 1) \in Seq(S)
  BY <1>1, SubSeqProperties
<1>3. SubSeq(s, p + 1, Len(s)) \in Seq(S)
  BY <1>1, SubSeqProperties
<1> QED
  BY <1>2, <1>3, ConcatProperties

LEMMA UpstreamsDocument ==
  ASSUME NEW doc \in Document, NEW u \in Name, NEW cand \in Upstreams(doc, u)
  PROVE  cand \in Document /\ cand.users = doc.users
<1>1. doc.groups \in Seq(Endpoint) /\ doc.keys \in SUBSET NimKey
  BY Fields
<1>2. \A i \in DOMAIN doc.groups : doc.groups[i] \in Endpoint
  BY <1>1
<1>3. \/ \E ep \in NewGroups(doc) : cand = [doc EXCEPT !.groups = Append(@, ep)]
      \/ \E g \in GroupIds(doc) : cand = WithoutGroup(doc, g)
      \/ \E i \in DOMAIN doc.groups : cand = WithGroup(doc, i, Switched(doc.groups[i]))
      \/ \E i \in DOMAIN doc.groups : cand \in Relisted(doc, i)
  BY DEF Upstreams
<1>4. ASSUME NEW gs \in Seq(Endpoint), NEW ks \in SUBSET NimKey,
             cand = [doc EXCEPT !.groups = gs, !.keys = ks]
      PROVE  cand \in Document /\ cand.users = doc.users
  BY <1>4 DEF Document
<1>5. ASSUME NEW ep \in NewGroups(doc),
             cand = [doc EXCEPT !.groups = Append(@, ep)]
      PROVE  cand \in Document /\ cand.users = doc.users
  <2>1. ep \in Endpoint
    BY DEF NewGroups, Endpoint, Group
  <2>2. Append(doc.groups, ep) \in Seq(Endpoint)
    BY <1>1, <2>1
  <2>3. cand = [doc EXCEPT !.groups = Append(doc.groups, ep), !.keys = doc.keys]
    BY <1>5 DEF Document
  <2> QED
    BY <1>1, <1>4, <2>2, <2>3
<1>6. ASSUME NEW g \in GroupIds(doc), cand = WithoutGroup(doc, g)
      PROVE  cand \in Document /\ cand.users = doc.users
  <2> DEFINE p == Place(doc, g)
             gs == SubSeq(doc.groups, 1, p - 1) \o SubSeq(doc.groups, p + 1, Len(doc.groups))
             ks == {k \in doc.keys : k.group # g}
  <2>1. gs \in Seq(Endpoint)
    BY <1>1, GroupsPlaced, WithoutOne
  <2>2. ks \in SUBSET NimKey
    BY <1>1
  <2>3. cand = [doc EXCEPT !.groups = gs, !.keys = ks]
    BY <1>6 DEF WithoutGroup
  <2> QED
    BY <1>4, <2>1, <2>2, <2>3
<1>7. ASSUME NEW i \in DOMAIN doc.groups, NEW ep \in Endpoint, cand = WithGroup(doc, i, ep)
      PROVE  cand \in Document /\ cand.users = doc.users
  <2>1. [doc.groups EXCEPT ![i] = ep] \in Seq(Endpoint)
    BY <1>1, <1>7, ExceptSeq
  <2>2. cand = [doc EXCEPT !.groups = [doc.groups EXCEPT ![i] = ep], !.keys = doc.keys]
    BY <1>7 DEF Document, WithGroup
  <2> QED
    BY <1>1, <1>4, <2>1, <2>2
<1>8. \A i \in DOMAIN doc.groups :
        /\ Switched(doc.groups[i]) \in Endpoint
        /\ \A ms \in SUBSET Model : [doc.groups[i] EXCEPT !.models = ms] \in Endpoint
  BY <1>2 DEF Switched, Endpoint
<1>9. ASSUME NEW i \in DOMAIN doc.groups, cand \in Relisted(doc, i)
      PROVE  \E ms \in SUBSET Model :
               cand = WithGroup(doc, i, [doc.groups[i] EXCEPT !.models = ms])
  BY <1>9 DEF Relisted
<1> QED
  BY <1>3, <1>5, <1>6, <1>7, <1>8, <1>9

-----------------------------------------------------------------------------
(* The users.                                                              *)

\* The user who is set.
LEMMA UserSet ==
  ASSUME NEW doc \in Document, NEW n \in Name, NEW role \in Role, NEW hash \in Hash
  PROVE  SetUser(doc, n, role, hash) \in Document
<1>1. {w \in doc.users : w.name # n} \in SUBSET User
  BY Fields
<1>2. [name |-> n, role |-> role, hash |-> hash] \in User
  BY DEF User
<1> QED
  BY <1>1, <1>2, Replaced DEF SetUser

LEMMA UserRemoved ==
  ASSUME NEW doc \in Document, NEW n \in Name
  PROVE  WithoutUser(doc, n) \in Document
  BY Fields DEF WithoutUser, Document

\* The superuser is not among those who may be removed or set.
LEMMA SuperuserKept ==
  ASSUME NEW doc \in Document, NEW n \in Name,
         \A w \in doc.users : w.name = n => w.role # "superuser"
  PROVE  /\ Superusers(WithoutUser(doc, n)) = Superusers(doc)
         /\ \A role \in {"admin", "user"}, hash \in Hash :
              Superusers(SetUser(doc, n, role, hash)) = Superusers(doc)
<1>1. WithoutUser(doc, n).users = {w \in doc.users : w.name # n}
  BY DEF WithoutUser, Document
<1>2. \A role \in {"admin", "user"}, hash \in Hash :
        SetUser(doc, n, role, hash).users =
          {w \in doc.users : w.name # n} \cup {[name |-> n, role |-> role, hash |-> hash]}
  BY DEF SetUser, Document
<1> QED
  BY <1>1, <1>2 DEF Superusers

\* A new password changes no role.
LEMMA RoleKept ==
  ASSUME NEW doc \in Document, Valid(doc), NEW v \in doc.users, NEW hash \in Hash
  PROVE  Superusers(SetUser(doc, v.name, v.role, hash)) = Superusers(doc)
<1>1. \A w \in doc.users : w.name = v.name => w = v
  BY DEF Valid, Distinct
<1>2. SetUser(doc, v.name, v.role, hash).users =
        {w \in doc.users : w.name # v.name}
          \cup {[name |-> v.name, role |-> v.role, hash |-> hash]}
  BY DEF SetUser, Document
<1>3. \A n : (\E w \in SetUser(doc, v.name, v.role, hash).users :
                w.role = "superuser" /\ w.name = n)
             <=> \E w \in doc.users : w.role = "superuser" /\ w.name = n
  <2> DEFINE same == [name |-> v.name, role |-> v.role, hash |-> hash]
  <2>1. same.name = v.name /\ same.role = v.role
    OBVIOUS
  <2> QED
    BY <1>1, <1>2, <2>1
<1> QED
  BY <1>3 DEF Superusers

\* The users form.
LEMMA UsersCases ==
  ASSUME NEW doc \in Document, NEW u \in Name, NEW hash \in Hash, NEW cand \in Users(doc, u, hash)
  PROVE  /\ Admin(doc, u)
         /\ \/ \E n \in Name \ Names(doc.users), role \in {"admin", "user"} :
                 cand = SetUser(doc, n, role, hash)
            \/ \E v \in Subjects(doc) : cand = WithoutUser(doc, v.name)
            \/ \E v \in Subjects(doc) : cand = SetUser(doc, v.name, v.role, hash)
            \/ \E v \in Subjects(doc), role \in {"admin", "user"} :
                 cand = SetUser(doc, v.name, role, v.hash)
  BY DEF Users

LEMMA UsersDocument ==
  ASSUME NEW doc \in Document, Valid(doc), NEW u \in Name, NEW hash \in Hash,
         NEW cand \in Users(doc, u, hash)
  PROVE  cand \in Document /\ Superusers(cand) = Superusers(doc)
<1>1. \/ \E n \in Name \ Names(doc.users), role \in {"admin", "user"} :
           cand = SetUser(doc, n, role, hash)
      \/ \E v \in Subjects(doc) : cand = WithoutUser(doc, v.name)
      \/ \E v \in Subjects(doc) : cand = SetUser(doc, v.name, v.role, hash)
      \/ \E v \in Subjects(doc), role \in {"admin", "user"} :
           cand = SetUser(doc, v.name, role, v.hash)
  BY UsersCases
<1>2. ASSUME NEW n \in Name \ Names(doc.users), NEW role \in {"admin", "user"},
             cand = SetUser(doc, n, role, hash)
      PROVE  cand \in Document /\ Superusers(cand) = Superusers(doc)
  <2>1. \A w \in doc.users : w.name # n
    BY DEF Names
  <2> QED
    BY <1>2, <2>1, UserSet, SuperuserKept DEF Role
<1>3. ASSUME NEW v \in Subjects(doc)
      PROVE  /\ v \in doc.users /\ v.name \in Name /\ v.role \in Role /\ v.hash \in Hash
             /\ \A w \in doc.users : w.name = v.name => w.role # "superuser"
  BY Fields DEF Subjects, User, Valid, Distinct
<1>4. ASSUME NEW v \in Subjects(doc), cand = WithoutUser(doc, v.name)
      PROVE  cand \in Document /\ Superusers(cand) = Superusers(doc)
  BY <1>3, <1>4, UserRemoved, SuperuserKept
<1>5. ASSUME NEW v \in Subjects(doc), cand = SetUser(doc, v.name, v.role, hash)
      PROVE  cand \in Document /\ Superusers(cand) = Superusers(doc)
  BY <1>3, <1>5, UserSet, RoleKept
<1>6. ASSUME NEW v \in Subjects(doc), NEW role \in {"admin", "user"},
             cand = SetUser(doc, v.name, role, v.hash)
      PROVE  cand \in Document /\ Superusers(cand) = Superusers(doc)
  <2>1. v.name \in Name /\ v.hash \in Hash /\ role \in Role
    BY <1>3 DEF Role
  <2>2. \A w \in doc.users : w.name = v.name => w.role # "superuser"
    BY <1>3
  <2>3. cand \in Document
    BY <1>6, <2>1, UserSet
  <2>4. Superusers(cand) = Superusers(doc)
    BY <1>6, <2>1, <2>2, SuperuserKept
  <2> QED
    BY <2>3, <2>4
<1> QED
  BY <1>1, <1>2, <1>4, <1>5, <1>6

\* The account form.
LEMMA AccountDocument ==
  ASSUME NEW doc \in Document, Valid(doc), NEW u \in Name, NEW hash \in Hash,
         NEW cand \in Account(doc, u, hash)
  PROVE  cand \in Document /\ Superusers(cand) = Superusers(doc)
<1>1. PICK v \in doc.users : cand = SetUser(doc, v.name, v.role, hash)
  BY DEF Account
<1>2. v.name \in Name /\ v.role \in Role
  BY Fields DEF User
<1> QED
  BY <1>1, <1>2, UserSet, RoleKept

-----------------------------------------------------------------------------
(* The candidates.                                                         *)

\* What the other forms make is a document of the same users.
LEMMA FormDocument ==
  ASSUME NEW doc \in Document, NEW u \in Name, NEW cand,
         \/ cand \in NimKeys(doc, u) \/ cand \in Clients(doc, u)
         \/ cand \in Upstreams(doc, u) \/ cand \in Models(doc, u)
         \/ cand \in Section(doc, u) \/ cand \in DefaultLocale(doc, u)
  PROVE  cand \in Document /\ Superusers(cand) = Superusers(doc)
<1>1. ASSUME NEW other \in Document, other.users = doc.users
      PROVE  Superusers(other) = Superusers(doc)
  BY <1>1 DEF Superusers
<1>2. CASE cand \in NimKeys(doc, u)
  BY <1>1, <1>2, NimKeysDocument
<1>3. CASE cand \in Clients(doc, u)
  BY <1>1, <1>3, ClientsDocument
<1>4. CASE cand \in Upstreams(doc, u)
  BY <1>1, <1>4, UpstreamsDocument
<1>5. CASE cand \in Models(doc, u)
  <2>1. PICK ms \in SUBSET Model : cand = [doc EXCEPT !.disabled = ms]
    BY <1>5 DEF Models
  <2>2. cand \in Document /\ cand.users = doc.users
    BY <2>1, Replaced DEF Document
  <2> QED
    BY <2>2, <1>1
<1>6. CASE cand \in Section(doc, u) \/ cand \in DefaultLocale(doc, u)
  <2>1. cand \in Section(doc, u)
    BY <1>6 DEF DefaultLocale
  <2>2. PICK l \in Limits : cand = [doc EXCEPT !.limits = l]
    BY <2>1 DEF Section
  <2>3. cand \in Document /\ cand.users = doc.users
    BY <2>2, Replaced DEF Document
  <2> QED
    BY <2>3, <1>1
<1> QED
  BY <1>2, <1>3, <1>4, <1>5, <1>6

\* A claim that is made of an unclaimed document has one superuser, the claimant.
LEMMA ClaimDocument ==
  ASSUME NEW doc \in Document, NEW u \in Name, NEW hash \in Hash,
         NEW cand \in SetupSubmit(doc, u, hash)
  PROVE  ~Claimed(doc) /\ cand \in Document /\ Superusers(cand) = {u}
<1>1. ~Claimed(doc)
  BY DEF SetupSubmit
<1>2. PICK req \in SetupReq(doc) : cand = Claim(doc, u, hash, req)
  BY DEF SetupSubmit
<1>3. PICK more \in MoreGroups(doc) :
        req \in [more : {more}, place : Places(doc, more), asked : Asked(doc)]
  BY DEF SetupReq
<1>4. more \in Seq(Extra)
  <2>1. more = <<>> \/ \E g \in Extra : more = <<g>>
    BY <1>3 DEF MoreGroups
  <2>2. <<>> \in Seq(Extra) /\ \A g \in Extra : <<g>> \in Seq(Extra)
    OBVIOUS
  <2> QED
    BY <2>1, <2>2, Zenon
<1>5. /\ req.more = more /\ req.asked \subseteq Client
      /\ req.place \in Places(doc, more)
  BY <1>3 DEF Asked
<1>6. /\ DOMAIN req.place \subseteq Key
      /\ \A k \in DOMAIN req.place : req.place[k] \in Group
  <2>1. PICK keys \in SUBSET Key :
          req.place \in [keys -> {Primary} \cup {more[i] : i \in DOMAIN more}]
    BY <1>5 DEF Places
  <2>2. \A i \in DOMAIN more : more[i] \in Extra
    BY <1>4
  <2> QED
    BY <2>1, <2>2 DEF Group
<1>7. \A k \in doc.keys : Adopted(k, u) \in NimKey
  BY Fields DEF Adopted, NimKey
<1> DEFINE users == {[name |-> u, role |-> "superuser", hash |-> hash]}
           keys == {Adopted(k, u) : k \in doc.keys}
                     \cup { [key |-> k, group |-> req.place[k], owner |-> u, enabled |-> TRUE] :
                              k \in DOMAIN req.place }
           clients == {[c EXCEPT !.owner = u] : c \in doc.clients}
                        \cup [name : req.asked, owner : {u}]
           more_ == [ i \in DOMAIN req.more |->
                       [id |-> req.more[i], enabled |-> TRUE, models |-> {}] ]
<1>8. users \in SUBSET User
  BY DEF User, Role
<1>9. keys \in SUBSET NimKey
  <2>1. \A k \in DOMAIN req.place :
          [key |-> k, group |-> req.place[k], owner |-> u, enabled |-> TRUE] \in NimKey
    BY <1>6 DEF NimKey
  <2> QED
    BY <1>7, <2>1
<1>10. clients \in SUBSET ClientKey
  <2>1. \A c \in doc.clients : [c EXCEPT !.owner = u] \in ClientKey
    BY Fields DEF ClientKey
  <2>2. [name : req.asked, owner : {u}] \subseteq ClientKey
    BY <1>5 DEF ClientKey
  <2> QED
    BY <2>1, <2>2
<1>11. doc.groups \o more_ \in Seq(Endpoint)
  <2>1. Len(more) \in Nat /\ DOMAIN more = 1 .. Len(more)
        /\ \A i \in 1 .. Len(more) : more[i] \in Extra
    BY <1>4
  <2>2. \A i \in 1 .. Len(more) :
          [id |-> more[i], enabled |-> TRUE, models |-> {}] \in Endpoint
    BY <2>1 DEF Endpoint, Group
  <2>3. more_ \in Seq(Endpoint)
    BY <1>5, <2>1, <2>2
  <2> QED
    BY <2>3, Fields, ConcatProperties
<1>12. cand = [doc EXCEPT !.users = users, !.keys = keys, !.clients = clients,
                          !.groups = doc.groups \o more_]
  BY <1>2 DEF Claim
<1> HIDE DEF users, keys, clients, more_
<1>13. cand \in Document /\ cand.users = users
  BY <1>8, <1>9, <1>10, <1>11, <1>12 DEF Document
<1>14. Superusers(cand) = {u}
  <2>1. \A v \in cand.users : v.role = "superuser" /\ v.name = u
    BY <1>13 DEF users
  <2>2. \E v \in cand.users : TRUE
    BY <1>13 DEF users
  <2> QED
    BY <2>1, <2>2 DEF Superusers
<1> QED
  BY <1>1, <1>13, <1>14

-----------------------------------------------------------------------------
(* Keys and their groups.                                                  *)

Items(s) == {s[i] : i \in DOMAIN s}

\* A concatenation has the elements of both sequences.
LEMMA Concatenated ==
  ASSUME NEW S, NEW a \in Seq(S), NEW b \in Seq(S)
  PROVE  Items(a) \cup Items(b) \subseteq Items(a \o b)
<1>1. /\ Len(a) \in Nat /\ DOMAIN a = 1 .. Len(a)
      /\ Len(b) \in Nat /\ DOMAIN b = 1 .. Len(b)
  BY LenProperties
<1>2. DOMAIN (a \o b) = 1 .. Len(a) + Len(b)
  BY ConcatProperties, LenProperties
<1>3. \A j \in 1 .. Len(a) + Len(b) :
        (a \o b)[j] = IF j <= Len(a) THEN a[j] ELSE b[j - Len(a)]
  BY ConcatProperties
<1>4. \A j \in DOMAIN a : a[j] \in Items(a \o b)
  BY <1>1, <1>2, <1>3 DEF Items
<1>5. ASSUME NEW j \in DOMAIN b
      PROVE  b[j] \in Items(a \o b)
  <2>1. /\ Len(a) + j \in 1 .. Len(a) + Len(b) /\ ~(Len(a) + j <= Len(a))
        /\ (Len(a) + j) - Len(a) = j
    BY <1>1
  <2>2. (a \o b)[Len(a) + j] = b[j]
    BY <1>3, <2>1
  <2> QED
    BY <1>2, <2>1, <2>2 DEF Items
<1> QED
  BY <1>4, <1>5 DEF Items

\* A sequence without one of its elements still has the others.
LEMMA OthersKept ==
  ASSUME NEW S, NEW s \in Seq(S), NEW p \in DOMAIN s, NEW i \in DOMAIN s, i # p
  PROVE  s[i] \in Items(SubSeq(s, 1, p - 1) \o SubSeq(s, p + 1, Len(s)))
<1> DEFINE a == SubSeq(s, 1, p - 1)
           b == SubSeq(s, p + 1, Len(s))
<1>1. /\ Len(s) \in Nat /\ DOMAIN s = 1 .. Len(s) /\ p \in 1 .. Len(s) /\ i \in 1 .. Len(s)
      /\ \A j \in 1 .. Len(s) : s[j] \in S
  BY LenProperties, ElementOfSeq
<1>2. a \in Seq(S) /\ Len(a) = p - 1 /\ \A j \in 1 .. p - 1 : a[j] = s[j]
  BY <1>1, SubSeqProperties
<1>3. b \in Seq(S) /\ Len(b) = Len(s) - p /\ \A j \in 1 .. Len(s) - p : b[j] = s[p + j]
  BY <1>1, SubSeqProperties, SMTT(25)
<1> HIDE DEF a, b
<1>4. DOMAIN a = 1 .. p - 1 /\ DOMAIN b = 1 .. Len(s) - p
  BY <1>2, <1>3, LenProperties
<1>5. s[i] \in Items(a) \cup Items(b)
  <2>1. CASE i < p
    <3>1. i \in DOMAIN a /\ a[i] = s[i]
      BY <1>1, <1>2, <1>4, <2>1
    <3> QED
      BY <3>1 DEF Items
  <2>2. CASE i > p
    <3>1. i - p \in DOMAIN b /\ i - p \in 1 .. Len(s) - p /\ p + (i - p) = i
      BY <1>1, <1>4, <2>2
    <3>2. b[i - p] = s[p + (i - p)]
      BY <1>3, <3>1
    <3> QED
      BY <3>1, <3>2 DEF Items
  <2> QED
    BY <1>1, <2>1, <2>2
<1>6. Items(a) \cup Items(b) \subseteq Items(a \o b)
  BY <1>2, <1>3, Concatenated
<1> QED
  BY <1>5, <1>6 DEF a, b

\* What the forms of keys, groups, models and limits make keeps every key in a group.
LEMMA FormPlaced ==
  ASSUME NEW doc \in Document, Placed(doc), NEW u \in Name, NEW cand,
         \/ cand \in NimKeys(doc, u) \/ cand \in Clients(doc, u)
         \/ cand \in Upstreams(doc, u) \/ cand \in Models(doc, u) \/ cand \in Section(doc, u)
  PROVE  Placed(cand)
<1>1. ASSUME NEW other, other.keys = doc.keys, other.groups = doc.groups
      PROVE  Placed(other)
  BY <1>1 DEF Placed, GroupIds
<1>2. CASE cand \in NimKeys(doc, u)
  <2>1. ASSUME NEW ks, cand = [doc EXCEPT !.keys = ks], \A k \in ks : k.group \in GroupIds(doc)
        PROVE  Placed(cand)
    BY <2>1 DEF Placed, GroupIds, Document
  <2>2. \A k \in NewKeys(doc, u) : k.group \in GroupIds(doc)
    BY DEF NewKeys
  <2>3. \A k \in doc.keys : Switched(k).group = k.group
    BY Fields DEF Switched, NimKey
  <2>4. CASE \E k \in NewKeys(doc, u) : cand = [doc EXCEPT !.keys = @ \cup {k}]
    BY <2>1, <2>2, <2>4 DEF Placed
  <2>5. ASSUME NEW k \in doc.keys, cand = [doc EXCEPT !.keys = (@ \ {k}) \cup {Switched(k)}]
        PROVE  Placed(cand)
    <3> DEFINE ks == (doc.keys \ {k}) \cup {Switched(k)}
    <3>1. \A l \in ks : l.group \in GroupIds(doc)
      BY <2>3 DEF Placed
    <3>2. cand = [doc EXCEPT !.keys = ks]
      BY <2>5
    <3> QED
      BY <2>1, <3>1, <3>2
  <2>6. ASSUME NEW k \in doc.keys, cand = [doc EXCEPT !.keys = @ \ {k}]
        PROVE  Placed(cand)
    BY <2>1, <2>6 DEF Placed
  <2> QED
    BY <1>2, <2>4, <2>5, <2>6, NimKeysCases
<1>3. CASE cand \in Clients(doc, u)
  <2>1. \/ \E c \in [name : Client \ Names(doc.clients), owner : {u}] :
             cand = [doc EXCEPT !.clients = @ \cup {c}]
        \/ \E c \in doc.clients : cand = [doc EXCEPT !.clients = @ \ {c}]
        \/ \E mode \in {"open", "keyed"} : cand = [doc EXCEPT !.mode = mode]
    BY <1>3 DEF Clients
  <2>2. cand.keys = doc.keys /\ cand.groups = doc.groups
    BY <2>1 DEF Document
  <2> QED
    BY <1>1, <2>2
<1>4. CASE cand \in Models(doc, u) \/ cand \in Section(doc, u)
  <2>1. \/ \E ms \in SUBSET Model : cand = [doc EXCEPT !.disabled = ms]
        \/ \E l \in Limits : cand = [doc EXCEPT !.limits = l]
    BY <1>4 DEF Models, Section
  <2>2. cand.keys = doc.keys /\ cand.groups = doc.groups
    BY <2>1 DEF Document
  <2> QED
    BY <1>1, <2>2
<1>5. CASE cand \in Upstreams(doc, u)
  <2>1. \/ \E ep \in NewGroups(doc) : cand = [doc EXCEPT !.groups = Append(@, ep)]
        \/ \E g \in GroupIds(doc) : cand = WithoutGroup(doc, g)
        \/ \E i \in DOMAIN doc.groups : cand = WithGroup(doc, i, Switched(doc.groups[i]))
        \/ \E i \in DOMAIN doc.groups : cand \in Relisted(doc, i)
    BY <1>5 DEF Upstreams
  <2>2. doc.groups \in Seq(Endpoint) /\ \A i \in DOMAIN doc.groups : doc.groups[i] \in Endpoint
    BY Fields
  <2>3. ASSUME NEW ep, cand = [doc EXCEPT !.groups = Append(@, ep)]
        PROVE  Placed(cand)
    <3>1. cand.keys = doc.keys /\ cand.groups = Append(doc.groups, ep)
      BY <2>3 DEF Document
    <3>2. \A i \in DOMAIN doc.groups :
            i \in DOMAIN cand.groups /\ cand.groups[i] = doc.groups[i]
      BY <2>2, <3>1
    <3> QED
      BY <3>1, <3>2 DEF Placed, GroupIds
  <2>4. ASSUME NEW g \in GroupIds(doc), cand = WithoutGroup(doc, g)
        PROVE  Placed(cand)
    <3>1. /\ cand.keys = {k \in doc.keys : k.group # g}
          /\ cand.groups = SubSeq(doc.groups, 1, Place(doc, g) - 1)
                             \o SubSeq(doc.groups, Place(doc, g) + 1, Len(doc.groups))
      BY <2>4 DEF WithoutGroup, Document
    <3>2. Place(doc, g) \in DOMAIN doc.groups /\ doc.groups[Place(doc, g)].id = g
      BY GroupsPlaced
    <3>3. ASSUME NEW k \in cand.keys
          PROVE  k.group \in GroupIds(cand)
      <4>1. PICK i \in DOMAIN doc.groups : doc.groups[i].id = k.group
        BY <3>1 DEF Placed, GroupIds
      <4>2. i # Place(doc, g)
        BY <3>1, <3>2, <4>1
      <4>3. doc.groups[i] \in Items(cand.groups)
        BY <2>2, <3>1, <3>2, <4>1, <4>2, OthersKept
      <4> QED
        BY <4>1, <4>3 DEF GroupIds, Items
    <3> QED
      BY <3>3 DEF Placed
  <2>5. ASSUME NEW i \in DOMAIN doc.groups, NEW ep, ep.id = doc.groups[i].id,
               cand = WithGroup(doc, i, ep)
        PROVE  Placed(cand)
    <3>1. cand.keys = doc.keys /\ cand.groups = [doc.groups EXCEPT ![i] = ep]
      BY <2>5 DEF WithGroup, Document
    <3>2. \A j \in DOMAIN doc.groups :
            j \in DOMAIN cand.groups /\ cand.groups[j].id = doc.groups[j].id
      BY <2>5, <3>1
    <3> QED
      BY <3>1, <3>2 DEF Placed, GroupIds
  <2>6. \A i \in DOMAIN doc.groups :
          /\ Switched(doc.groups[i]).id = doc.groups[i].id
          /\ \A ms : [doc.groups[i] EXCEPT !.models = ms].id = doc.groups[i].id
    BY <2>2 DEF Switched, Endpoint
  <2>7. ASSUME NEW i \in DOMAIN doc.groups, cand \in Relisted(doc, i)
        PROVE  Placed(cand)
    <3>1. PICK ms : cand = WithGroup(doc, i, [doc.groups[i] EXCEPT !.models = ms])
      BY <2>7 DEF Relisted
    <3> QED
      BY <2>5, <2>6, <3>1
  <2> QED
    BY <2>1, <2>3, <2>4, <2>5, <2>6, <2>7
<1> QED
  BY <1>2, <1>3, <1>4, <1>5

-----------------------------------------------------------------------------
(* The settings page.                                                      *)

\* A document with a key taken away or switched.
KeyGone(doc, k) == [doc EXCEPT !.keys = @ \ {k}]
KeySwitched(doc, k) == [doc EXCEPT !.keys = (@ \ {k}) \cup {Switched(k)}]

\* A form takes a key away from where it was by removing or switching it, if it is
\* the user's to change.
LEMMA TakenAway ==
  ASSUME NEW doc \in Document, NEW u \in Name, NEW k \in doc.keys,
         NEW cand \in NimKeys(doc, u), k \notin cand.keys
  PROVE  /\ Admin(doc, u) \/ k.owner = u
         /\ cand = KeyGone(doc, k) \/ cand = KeySwitched(doc, k)
<1>1. ASSUME NEW l \in NewKeys(doc, u), cand = [doc EXCEPT !.keys = @ \cup {l}]
      PROVE  FALSE
  BY <1>1 DEF Document
<1>2. ASSUME NEW l \in doc.keys, Admin(doc, u) \/ l.owner = u,
             cand = KeyGone(doc, l) \/ cand = KeySwitched(doc, l)
      PROVE  l = k
  BY <1>2 DEF Document, KeyGone, KeySwitched
<1> QED
  BY <1>1, <1>2, NimKeysCases DEF KeyGone, KeySwitched

\* A key that is the user's to change can be removed.
LEMMA Removable ==
  ASSUME NEW doc \in Document, NEW u \in Name, Known(doc, u), NEW k \in doc.keys,
         Admin(doc, u) \/ k.owner = u
  PROVE  KeyGone(doc, k) \in NimKeys(doc, u) /\ k \notin KeyGone(doc, k).keys
<1>1. KeyGone(doc, k) \in NimKeys(doc, u)
  BY DEF NimKeys, KeyGone
<1>2. KeyGone(doc, k).keys = doc.keys \ {k}
  BY DEF KeyGone, Document
<1> QED
  BY <1>1, <1>2

\* What a document with other keys must still satisfy: the floor, if each of its
\* keys is one of the old, or has the name and the owner of one.
LEMMA OtherKeys ==
  ASSUME NEW doc \in Document, Valid(doc), Claimed(doc), NEW ks,
         \A l \in ks : \E o \in doc.keys : l.key = o.key /\ l.owner = o.owner,
         \A l, o \in ks : l.key = o.key => l = o
  PROVE  Valid([doc EXCEPT !.keys = ks]) <=> FloorKeys([doc EXCEPT !.keys = ks]) # {}
<1> DEFINE cand == [doc EXCEPT !.keys = ks]
<1>1. /\ cand.keys = ks /\ cand.users = doc.users /\ cand.groups = doc.groups
      /\ cand.clients = doc.clients /\ cand.limits = doc.limits
  BY DEF Document
<1> HIDE DEF cand
<1>2. Superusers(cand) = Superusers(doc) /\ Claimed(cand)
  BY <1>1 DEF Superusers, Claimed
<1>3. Owned(cand)
  <2>1. \A l \in doc.keys \cup doc.clients : l.owner \in Names(doc.users)
    BY DEF Valid, Owned
  <2> QED
    BY <1>1, <2>1 DEF Owned
<1>4. Floor(cand) <=> FloorKeys(cand) # {}
  BY DEF Floor, FloorKeys
<1>5. Valid(cand) <=> Floor(cand)
  BY <1>1, <1>2, <1>3 DEF Valid, Distinct
<1> QED
  BY <1>4, <1>5 DEF cand

\* The padlock: a key can be removed or switched unless it bears the floor alone.
LEMMA Padlock ==
  ASSUME NEW doc \in Document, Valid(doc), Claimed(doc), NEW k \in doc.keys,
         NEW cand, cand = KeyGone(doc, k) \/ cand = KeySwitched(doc, k)
  PROVE  k \notin cand.keys => (Valid(cand) <=> ~Guarded(doc, k))
<1>1. Floor(doc) /\ \A l, o \in doc.keys : l.key = o.key => l = o
  BY DEF Valid, Distinct
<1>2. FloorKeys(doc) # {}
  BY <1>1 DEF Floor, FloorKeys
<1>3. k \in NimKey
  BY Fields
<1>4. /\ Switched(k).key = k.key /\ Switched(k).owner = k.owner /\ Switched(k).group = k.group
      /\ Switched(k).enabled = ~k.enabled
  BY <1>3 DEF Switched, NimKey
<1>5. CASE cand = KeyGone(doc, k)
  <2> DEFINE ks == doc.keys \ {k}
  <2>1. cand = [doc EXCEPT !.keys = ks]
    BY <1>5 DEF KeyGone
  <2>2. Valid(cand) <=> FloorKeys(cand) # {}
    BY <1>1, <2>1, OtherKeys
  <2>3. /\ cand.keys = doc.keys \ {k} /\ cand.users = doc.users /\ cand.groups = doc.groups
    BY <2>1 DEF Document
  <2>4. FloorKeys(cand) = FloorKeys(doc) \ {k}
    BY <2>3 DEF FloorKeys, On, Place, Superusers
  <2> QED
    BY <1>2, <2>2, <2>4 DEF Guarded
<1>6. CASE cand = KeySwitched(doc, k)
  <2> DEFINE ks == (doc.keys \ {k}) \cup {Switched(k)}
  <2>1. cand = [doc EXCEPT !.keys = ks]
    BY <1>6 DEF KeySwitched
  <2>2. /\ \A l \in ks : \E o \in doc.keys : l.key = o.key /\ l.owner = o.owner
        /\ \A l, o \in ks : l.key = o.key => l = o
    BY <1>1, <1>4
  <2>3. Valid(cand) <=> FloorKeys(cand) # {}
    BY <2>1, <2>2, OtherKeys
  <2>4. cand.keys = ks /\ cand.users = doc.users /\ cand.groups = doc.groups
    BY <2>1 DEF Document
  <2>5. FloorKeys(cand) = {l \in ks : l.enabled /\ On(doc, l.group) /\ l.owner \in Superusers(doc)}
    BY <2>4 DEF FloorKeys, On, Place, Superusers
  <2>6. CASE k.enabled
    <3>1. FloorKeys(cand) = FloorKeys(doc) \ {k}
      BY <1>4, <2>5, <2>6 DEF FloorKeys
    <3> QED
      BY <1>2, <2>3, <3>1 DEF Guarded
  <2>7. CASE ~k.enabled
    <3>1. k \notin FloorKeys(doc)
      BY <2>7 DEF FloorKeys
    <3>2. FloorKeys(doc) \subseteq FloorKeys(cand)
      BY <2>5, <3>1 DEF FloorKeys
    <3> QED
      BY <1>2, <2>3, <3>1, <3>2 DEF Guarded
  <2> QED
    BY <2>6, <2>7
<1> QED
  BY <1>5, <1>6
=============================================================================
