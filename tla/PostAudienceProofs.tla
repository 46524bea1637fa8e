------------------------- MODULE PostAudienceProofs -------------------------
(***************************************************************************)
(* Theorems about PostAudience, for every number of users and posts, every *)
(* page length, and whatever posts, profiles and departments do while the  *)
(* readers turn their pages: its type invariant, that the users told of a  *)
(* post are those who see it and can open it, and what the pages of a feed *)
(* show.                                                                   *)
(*                                                                         *)
(* The parts of TInv say what each variable holds.  That they can open it  *)
(* needs OInv: a user told of a post for whom nothing has changed is still *)
(* in its audience, and the profile that the request has read is still the *)
(* user's.  The pages need PInv, which ties the first place that a post    *)
(* may have in the result set to the pages found so far: a post that was   *)
(* shown and has not moved back is on those pages, a post that was not     *)
(* shown, has not moved towards the front and has no equal across the edge *)
(* of a page is behind them, and the count of the last page has counted    *)
(* it.                                                                     *)
(***************************************************************************)
EXTENDS PostAudience, FiniteSetTheorems, TLAPS

Row == [author: Users, scope: Scopes \cup {None}, dept: Departments \cup {None},
        year: Years \cup {None}, prio: Priorities \cup {None}, type: PostTypes \cup {None},
        pinned: BOOLEAN, text: BOOLEAN, created: Nat, published: Nat]
Request == [pc: {"idle", "write"}, op: {"create", "update", "delete", None},
            post: Posts \cup {None}, user: Users \cup {None}, content: Content \cup {None},
            before: SUBSET Posts]
Reading == [pc: {"idle", "context", "read", "done"}, filter: Filter \cup {None},
            page: 1 .. Cardinality(Posts), ctx: Profile \cup {None}, found: BOOLEAN,
            counted: BOOLEAN, total: 0 .. Cardinality(Posts), seen: SUBSET Posts,
            again: SUBSET Posts]
Opening == [pc: {"idle", "context", "find", "done"}, post: Posts \cup {None},
            ctx: Profile \cup {None}, sure: BOOLEAN, found: BOOLEAN]
Telling == [pc: {"none", "targets", "done"},
            event: [scope: Scopes \cup {None}, dept: Departments \cup {None},
                    year: Years \cup {None}] \cup {None},
            told: SUBSET Users]

UsersOK ==
    /\ user \in [Users -> Profile] /\ dept \subseteq Departments
    /\ \A u \in Users : user[u].dept \in dept \cup {None}

RowsOK ==
    /\ post \in [Posts -> Row \cup {None}]
    /\ \A p \in Rows : /\ post[p].dept \in dept \cup {None}
                       /\ post[p].created \in Times /\ p \in Created

(* A post about to be created is not there yet, and one request creates it. *)
Creates(r, p) == req[r].pc = "write" /\ req[r].op = "create" /\ req[r].post = p

RequestsOK ==
    /\ req \in [Requests -> Request]
    /\ \A r \in Requests : req[r].pc = "write" =>
         /\ req[r].post \in Posts
         /\ req[r].op \in {"create", "update"} => req[r].content \in Content /\ req[r].user \in Users
         /\ req[r].op = "create" => req[r].content.text # None
    /\ \A r \in Requests, p \in Posts : Creates(r, p) =>
         p \notin Created /\ \A x \in Requests \ {r} : ~Creates(x, p)

FeedsOK ==
    /\ feed \in [Users -> Reading]
    /\ \A u \in Users : feed[u].again \subseteq feed[u].seen /\ feed[u].seen \subseteq Created

LinksOK == link \in [Users -> Opening]

NoticesOK ==
    /\ notice \in [Posts -> Telling]
    /\ \A p \in Posts : notice[p].pc # "done" => notice[p].told = {}
    /\ steady \in [Posts -> SUBSET Users]
    /\ \A p \in Posts : steady[p] \subseteq notice[p].told

TInv == UsersOK /\ RowsOK /\ RequestsOK /\ FeedsOK /\ LinksOK /\ NoticesOK

----------------------------------------------------------------------------
(* Sets of posts, and pages *)

LEMMA PostSets ==
    /\ Cardinality(Posts) \in Nat \ {0}
    /\ \A S \in SUBSET Posts : /\ IsFiniteSet(S) /\ Cardinality(S) \in Nat
                               /\ Cardinality(S) <= Cardinality(Posts)
<1>1. IsFiniteSet(Posts) /\ Posts # {}
  BY AudienceAssumption
<1>2. Cardinality(Posts) \in Nat /\ Cardinality(Posts) # 0
  BY <1>1, FS_CardinalityType, FS_EmptySet
<1>3. ASSUME NEW S \in SUBSET Posts
      PROVE  /\ IsFiniteSet(S) /\ Cardinality(S) \in Nat
             /\ Cardinality(S) <= Cardinality(Posts)
  BY <1>1, <1>3, FS_Subset, FS_CardinalityType
<1> QED BY <1>2, <1>3

(* There are no more pages than posts, and a page for each post.           *)
LEMMA Pages ==
    ASSUME NEW total \in Nat, NEW page \in Nat
    PROVE  /\ TotalPages(total) \in Int /\ TotalPages(total) <= total
           /\ total > page * Limit => page < TotalPages(total)
<1> DEFINE x == total + Limit - 1
           q == x \div Limit
<1>1. Limit \in Nat /\ Limit > 0 /\ x \in Int
  BY AudienceAssumption
<1>2. q \in Int /\ x = Limit * q + (x % Limit) /\ x % Limit \in 0 .. Limit - 1
  BY <1>1
<1>3. q <= total
  <2> SUFFICES ASSUME q >= total + 1 PROVE FALSE
    BY <1>2
  <2>1. Limit * q >= Limit * (total + 1)
    BY <1>1, <1>2
  <2>2. Limit * (total + 1) = Limit * total + Limit /\ Limit * total >= total
    BY <1>1
  <2> QED BY <1>1, <1>2, <2>1, <2>2
<1>4. total > page * Limit => page < q
  <2> SUFFICES ASSUME total > page * Limit, q <= page PROVE FALSE
    BY <1>2
  <2>1. Limit * q <= page * Limit
    BY <1>1, <1>2
  <2> QED BY <1>1, <1>2, <2>1
<1> QED BY <1>2, <1>3, <1>4 DEF TotalPages

LEMMA FilterType ==
    ASSUME NEW n, NEW f \in Filter
    PROVE  FeedFilter(n, f) \in Filter
  BY DEF FeedFilter, Filter, Scopes, Priorities, PostTypes
----------------------------------------------------------------------------
(* The types *)

LEMMA InitTypes == Init => TInv
<1> SUFFICES ASSUME Init PROVE TInv
  OBVIOUS
<1> USE DEF Init
<1>1. /\ Profiles \subseteq Profile /\ 1 \in 1 .. Cardinality(Posts) /\ 0 \in 0 .. Cardinality(Posts)
  BY PostSets, AudienceAssumption
<1>2. UsersOK
  BY <1>1 DEF UsersOK, Profile
<1>3. RowsOK
  BY DEF RowsOK, Rows
<1>4. RequestsOK
  BY DEF RequestsOK, Request, NoRequest, Creates
<1>5. FeedsOK
  BY <1>1 DEF FeedsOK, Reading, NoFeed
<1>6. LinksOK
  BY DEF LinksOK, Opening, NoLink
<1>7. NoticesOK
  BY DEF NoticesOK, Telling, NoNotice
<1> QED BY <1>2, <1>3, <1>4, <1>5, <1>6, <1>7 DEF TInv

(* A request ends.                                                         *)
LEMMA DoneTypes ==
    ASSUME TInv, NEW r \in Requests, Done(r),
           Created' \subseteq Created \cup {p \in Posts : Creates(r, p)}
    PROVE  RequestsOK'
<1>1. \A x \in Requests : req'[x] = IF x = r THEN NoRequest ELSE req[x]
  BY DEF Done, TInv, RequestsOK
<1>2. req' \in [Requests -> Request]
  BY DEF Done, TInv, RequestsOK, Request, NoRequest
<1>3. \A x \in Requests, p \in Posts : Creates(x, p)' <=> x # r /\ Creates(x, p)
  BY <1>1 DEF Creates, NoRequest
<1>4. ASSUME NEW x \in Requests, NEW p \in Posts, Creates(x, p)'
      PROVE  p \notin Created' /\ \A y \in Requests \ {x} : ~Creates(y, p)'
  BY <1>3, <1>4 DEF TInv, RequestsOK
<1>5. \A x \in Requests : req'[x].pc = "write" => req'[x] = req[x]
  BY <1>1 DEF NoRequest
<1>6. \A x \in Requests : req'[x].pc = "write" =>
         /\ req'[x].post \in Posts
         /\ req'[x].op \in {"create", "update"} =>
              req'[x].content \in Content /\ req'[x].user \in Users
         /\ req'[x].op = "create" => req'[x].content.text # None
  BY <1>5 DEF TInv, RequestsOK
<1> QED BY <1>2, <1>4, <1>6 DEF RequestsOK

LEMMA InsertTypes ==
    ASSUME TInv, NEW r \in Requests, InsertPost(r)
    PROVE  TInv'
<1> DEFINE p == req[r].post
           c == req[r].content
           row(now, at) ==
             [author |-> req[r].user, scope |-> c.scope, dept |-> c.dept, year |-> c.year,
              prio |-> c.prio, type |-> c.type, pinned |-> FALSE, text |-> c.text,
              created |-> at, published |-> Given(c.published, now)]
<1>1. /\ req[r].pc = "write" /\ req[r].op = "create" /\ Done(r)
      /\ UNCHANGED <<user, dept, readers, writes, steady>>
  BY DEF InsertPost
<1>2. /\ p \in Posts /\ c \in Content /\ req[r].user \in Users /\ Creates(r, p) /\ p \notin Created
      /\ c.text # None
  BY <1>1 DEF TInv, RequestsOK, Creates
<1>3. ASSUME NEW now \in Times, NEW at \in Times,
             ~NoForeignKey(c), post' = [post EXCEPT ![p] = row(now, at)],
             notice' = [notice EXCEPT ![p].pc = "targets", ![p].event = Event(c)]
      PROVE  TInv'
  <2> DEFINE new == row(now, at)
  <2>1. now \in Nat /\ at \in Nat
    BY AudienceAssumption
  <2>2. new \in Row
    <3>1. Given(c.published, now) \in Nat /\ c.text \in BOOLEAN
      BY <1>2, <2>1 DEF Given, Content
    <3> QED BY <1>2, <2>1, <3>1 DEF Row, Content
  <2>3. new.dept \in dept \cup {None} /\ new.created = at
    BY <1>3 DEF NoForeignKey
  <2> HIDE DEF new
  <2>4. \A q \in Posts : post'[q] = IF q = p THEN new ELSE post[q]
    BY <1>3 DEF TInv, RowsOK, new
  <2>5. /\ notice' \in [Posts -> Telling] /\ notice'[p].pc = "targets" /\ notice'[p].told = {}
        /\ notice[p].told = {} /\ \A q \in Posts \ {p} : notice'[q] = notice[q]
    <3>1. notice[p] \in Telling /\ notice[p].pc = "none" /\ notice[p].told = {}
      BY <1>2 DEF TInv, NoticesOK, Created
    <3>2. Event(c) \in [scope: Scopes \cup {None}, dept: Departments \cup {None}, year: Years \cup {None}]
      BY <1>2 DEF Event, Content
    <3> QED BY <1>2, <1>3, <3>1, <3>2 DEF TInv, NoticesOK, Telling
  <2>6. Created' = Created \cup {p}
    BY <1>2, <2>5 DEF Created
  <2>7. RowsOK'
    <3>1. post' \in [Posts -> Row \cup {None}]
      BY <1>3, <2>2 DEF TInv, RowsOK, new
    <3>2. ASSUME NEW q \in Rows'
          PROVE  /\ post'[q].dept \in dept' \cup {None}
                 /\ post'[q].created \in Times /\ q \in Created'
      <4>1. CASE q = p
        BY <1>1, <1>2, <1>3, <2>3, <2>4, <2>6, <4>1
      <4>2. CASE q # p
        BY <1>1, <2>4, <2>6, <4>2 DEF TInv, RowsOK, Rows
      <4> QED BY <4>1, <4>2
    <3> QED BY <3>1, <3>2 DEF RowsOK
  <2>8. NoticesOK'
    BY <1>1, <1>2, <2>5 DEF TInv, NoticesOK
  <2>9. UsersOK' /\ FeedsOK' /\ LinksOK'
    BY <1>1, <2>6 DEF TInv, UsersOK, FeedsOK, LinksOK, readers
  <2>10. RequestsOK'
    BY <1>1, <1>2, <2>6, DoneTypes
  <2> QED BY <2>7, <2>8, <2>9, <2>10 DEF TInv
<1>4. CASE UNCHANGED <<post, notice>>
  <2>1. Created' = Created
    BY <1>4 DEF Created
  <2>2. UsersOK' /\ RowsOK' /\ FeedsOK' /\ LinksOK' /\ NoticesOK'
    BY <1>1, <1>4, <2>1 DEF TInv, UsersOK, RowsOK, FeedsOK, LinksOK, NoticesOK, readers, Rows
  <2> QED BY <1>1, <2>1, <2>2, DoneTypes DEF TInv
<1> QED BY <1>3, <1>4 DEF InsertPost

(* Rows change or go, and those they were shown to may be forgotten.       *)
LEMMA WriteTypes ==
    ASSUME TInv, NEW r \in Requests, WritePost(r) \/ ErasePost(r)
    PROVE  TInv'
<1> DEFINE p == req[r].post
           c == req[r].content
           row == [post[p] EXCEPT !.scope = Given(c.scope, @), !.dept = Given(c.dept, @),
                                  !.year = Given(c.year, @), !.prio = Given(c.prio, @),
                                  !.type = Given(c.type, @), !.published = Given(c.published, @),
                                  !.pinned = Given(c.pinned, @), !.text = Given(c.text, @)]
<1>1. /\ req[r].pc = "write" /\ req[r].op \in {"update", "delete"} /\ Done(r) /\ p \in Posts
      /\ req[r].op = "update" => c \in Content
      /\ UNCHANGED <<user, dept, readers, notice, writes>>
  BY DEF WritePost, ErasePost, TInv, RequestsOK
<1>2. Created' = Created
  BY <1>1 DEF Created
<1>3. UsersOK' /\ FeedsOK' /\ LinksOK' /\ RequestsOK'
  BY <1>1, <1>2, DoneTypes DEF TInv, UsersOK, FeedsOK, LinksOK, readers
<1>4. \/ UNCHANGED <<post, steady>>
      \/ /\ steady' = [steady EXCEPT ![p] = {}]
         /\ \/ post' = [post EXCEPT ![p] = None]
            \/ p \in Rows /\ ~NoForeignKey(c) /\ req[r].op = "update" /\ post' = [post EXCEPT ![p] = row]
  <2>1. CASE ErasePost(r)
    BY <2>1 DEF ErasePost
  <2>2. CASE WritePost(r)
    <3>1. CASE /\ p \in Rows /\ ~NoForeignKey(c)
               /\ post' = [post EXCEPT ![p] = row]
               /\ steady' = [steady EXCEPT ![p] = {}]
      BY <2>2, <3>1 DEF WritePost
    <3>2. CASE UNCHANGED <<post, steady>>
      BY <3>2
    <3> QED BY <2>2, <3>1, <3>2 DEF WritePost
  <2> QED BY <2>1, <2>2
<1>5. NoticesOK'
  BY <1>1, <1>4 DEF TInv, NoticesOK
<1>6. RowsOK'
  <2>1. CASE UNCHANGED post
    BY <1>1, <1>2, <2>1 DEF TInv, RowsOK, Rows
  <2>2. CASE post' = [post EXCEPT ![p] = None]
    BY <1>1, <1>2, <2>2 DEF TInv, RowsOK, Rows
  <2>3. CASE p \in Rows /\ ~NoForeignKey(c) /\ req[r].op = "update" /\ post' = [post EXCEPT ![p] = row]
    <3>1. /\ post[p] \in Row /\ post[p].dept \in dept \cup {None}
          /\ post[p].created \in Times /\ p \in Created
      BY <2>3 DEF TInv, RowsOK, Rows
    <3>2. row \in Row /\ row.created = post[p].created /\ row.dept = Given(c.dept, post[p].dept)
      <4>1. /\ Given(c.scope, post[p].scope) \in Scopes \cup {None}
            /\ Given(c.dept, post[p].dept) \in Departments \cup {None}
            /\ Given(c.year, post[p].year) \in Years \cup {None}
            /\ Given(c.prio, post[p].prio) \in Priorities \cup {None}
            /\ Given(c.type, post[p].type) \in PostTypes \cup {None}
            /\ Given(c.published, post[p].published) \in Nat
            /\ Given(c.pinned, post[p].pinned) \in BOOLEAN
            /\ Given(c.text, post[p].text) \in BOOLEAN
        BY <1>1, <2>3, <3>1 DEF Row, Content, Given
      <4> DEFINE x == post[p]
                 s == Given(c.scope, x.scope)
                 d == Given(c.dept, x.dept)
                 y == Given(c.year, x.year)
                 pr == Given(c.prio, x.prio)
                 t == Given(c.type, x.type)
                 n == Given(c.published, x.published)
                 b == Given(c.pinned, x.pinned)
                 tx == Given(c.text, x.text)
      <4>2. row = [x EXCEPT !.scope = s, !.dept = d, !.year = y, !.prio = pr, !.type = t,
                            !.published = n, !.pinned = b, !.text = tx]
        OBVIOUS
      <4>3. /\ x \in Row /\ s \in Scopes \cup {None} /\ d \in Departments \cup {None}
            /\ y \in Years \cup {None} /\ pr \in Priorities \cup {None}
            /\ t \in PostTypes \cup {None} /\ n \in Nat /\ b \in BOOLEAN /\ tx \in BOOLEAN
        BY <3>1, <4>1
      <4> HIDE DEF row, x, s, d, y, pr, t, n, b, tx
      <4>4. /\ DOMAIN x = {"author", "scope", "dept", "year", "prio", "type", "pinned", "text",
                           "created", "published"}
            /\ x.author \in Users /\ x.created \in Nat
        BY <4>3 DEF Row
      <4>5. DOMAIN row = DOMAIN x /\ row = [k \in DOMAIN x |-> row[k]]
        BY <4>2
      <4>6. /\ row.author = x.author /\ row.scope = s /\ row.dept = d /\ row.year = y
            /\ row.prio = pr /\ row.type = t /\ row.pinned = b /\ row.text = tx
            /\ row.created = x.created /\ row.published = n
        BY <4>2, <4>4
      <4>7. row \in Row
        BY <4>3, <4>4, <4>5, <4>6 DEF Row
      <4> QED BY <4>6, <4>7 DEF x, d
    <3>3. row.dept \in dept \cup {None}
      BY <2>3, <3>1, <3>2 DEF Given, NoForeignKey
    <3> HIDE DEF row
    <3>4. post' \in [Posts -> Row \cup {None}] /\ \A q \in Posts : post'[q] = IF q = p THEN row ELSE post[q]
      BY <2>3, <3>2 DEF TInv, RowsOK
    <3>5. ASSUME NEW q \in Rows'
          PROVE  /\ post'[q].dept \in dept' \cup {None}
                 /\ post'[q].created \in Times /\ q \in Created'
      <4>1. CASE q = p
        BY <1>1, <1>2, <3>1, <3>2, <3>3, <3>4, <4>1
      <4>2. CASE q # p
        BY <1>1, <1>2, <3>4, <4>2 DEF TInv, RowsOK, Rows
      <4> QED BY <4>1, <4>2
    <3> QED BY <3>4, <3>5 DEF RowsOK
  <2> QED BY <1>4, <2>1, <2>2, <2>3
<1> QED BY <1>3, <1>5, <1>6 DEF TInv
(* A request begins: no other one creates its post.                        *)
LEMMA BeginTypes ==
    ASSUME TInv, NEW r \in Requests, NEW op \in {"create", "update", "delete"}, NEW u \in Users,
           NEW p \in Posts, NEW c \in Content \cup {None}, Begin(r, op, u, p, c),
           op # "delete" => c \in Content, op = "create" => c.text # None,
           op = "create" => p \notin Created /\ \A x \in Requests : req[x].post # p
    PROVE  TInv'
<1> DEFINE new == [pc |-> "write", op |-> op, post |-> p, user |-> u, content |-> c,
                   before |-> IF op = "create" THEN Rows ELSE {}]
<1>1. UNCHANGED <<user, dept, post, readers, notice, steady>>
  BY DEF Begin
<1>2. /\ req' = [req EXCEPT ![r] = new] /\ new \in Request
      /\ \A x \in Requests : req'[x] = IF x = r THEN new ELSE req[x]
  BY DEF Begin, TInv, RequestsOK, Request, Rows
<1>3. Created' = Created
  BY <1>1 DEF Created
<1>4. UsersOK' /\ RowsOK' /\ FeedsOK' /\ LinksOK' /\ NoticesOK'
  BY <1>1, <1>3 DEF TInv, UsersOK, RowsOK, FeedsOK, LinksOK, NoticesOK, readers, Rows
<1>5. \A x \in Requests, q \in Posts : Creates(x, q)' <=>
        IF x = r THEN op = "create" /\ q = p ELSE Creates(x, q)
  BY <1>2 DEF Creates
<1>6. ASSUME NEW x \in Requests, NEW q \in Posts, Creates(x, q)'
      PROVE  q \notin Created' /\ \A y \in Requests \ {x} : ~Creates(y, q)'
  <2>1. CASE x = r
    <3>1. op = "create" /\ q = p
      BY <1>5, <1>6, <2>1
    <3>2. \A y \in Requests \ {r} : ~Creates(y, q)
      BY <3>1 DEF Creates
    <3> QED BY <1>3, <1>5, <2>1, <3>1, <3>2
  <2>2. CASE x # r
    <3>1. Creates(x, q) /\ q \notin Created /\ \A y \in Requests \ {x} : ~Creates(y, q)
      BY <1>5, <1>6, <2>2 DEF TInv, RequestsOK
    <3>2. op = "create" => q # p
      BY <3>1 DEF Creates
    <3> QED BY <1>3, <1>5, <2>2, <3>1, <3>2
  <2> QED BY <2>1, <2>2
<1>7. ASSUME NEW x \in Requests, req'[x].pc = "write"
      PROVE  /\ req'[x].post \in Posts
             /\ req'[x].op \in {"create", "update"} =>
                  req'[x].content \in Content /\ req'[x].user \in Users
             /\ req'[x].op = "create" => req'[x].content.text # None
  <2>1. CASE x = r
    BY <1>2, <2>1
  <2>2. CASE x # r
    BY <1>2, <1>7, <2>2 DEF TInv, RequestsOK
  <2> QED BY <2>1, <2>2
<1>8. req' \in [Requests -> Request]
  BY <1>2 DEF TInv, RequestsOK
<1> QED BY <1>4, <1>6, <1>7, <1>8 DEF TInv, RequestsOK

LEMMA RequestTypes ==
    ASSUME TInv, NEW r \in Requests, NEW u \in Users, NEW p \in Posts,
           \/ \E c \in Contents : CreatePost(r, u, p, c) \/ UpdatePost(r, u, p, c)
           \/ DeletePost(r, u, p)
    PROVE  TInv'
<1>1. CASE \E c \in Contents : CreatePost(r, u, p, c)
  BY <1>1, BeginTypes, AudienceAssumption DEF CreatePost
<1>2. CASE \E c \in Contents : UpdatePost(r, u, p, c)
  BY <1>2, BeginTypes, AudienceAssumption DEF UpdatePost
<1>3. CASE DeletePost(r, u, p)
  BY <1>3, BeginTypes DEF DeletePost
<1> QED BY <1>1, <1>2, <1>3

(* The profile of a user changes, or a department goes.                    *)
LEMMA ProfileTypes ==
    ASSUME TInv,
           \/ \E u \in Users, c \in Profiles : UpdateUser(u, c)
           \/ \E d \in Departments : RemoveDepartment(d)
    PROVE  TInv'
<1>1. UNCHANGED <<req, readers, notice>>
  BY DEF UpdateUser, RemoveDepartment
<1>2. Created' = Created
  BY <1>1 DEF Created
<1>3. RequestsOK' /\ FeedsOK' /\ LinksOK'
  BY <1>1, <1>2 DEF TInv, RequestsOK, FeedsOK, LinksOK, readers, Creates
<1>4. UsersOK'
  <2>1. CASE \E u \in Users, c \in Profiles : UpdateUser(u, c)
    BY <2>1, AudienceAssumption DEF UpdateUser, TInv, UsersOK
  <2>2. ASSUME NEW d \in Departments, RemoveDepartment(d) PROVE UsersOK'
    BY <2>2 DEF RemoveDepartment, TInv, UsersOK, Profile
  <2> QED BY <2>1, <2>2
<1>5. RowsOK'
  <2>1. CASE \E u \in Users, c \in Profiles : UpdateUser(u, c)
    BY <1>2, <2>1 DEF UpdateUser, TInv, RowsOK, Rows
  <2>2. ASSUME NEW d \in Departments, RemoveDepartment(d) PROVE RowsOK'
    <3>1. \A p \in Posts : post'[p] = IF p \in Rows /\ post[p].dept = d
                                      THEN [post[p] EXCEPT !.dept = None] ELSE post[p]
      BY <2>2 DEF RemoveDepartment
    <3>2. ASSUME NEW p \in Posts PROVE post'[p] \in Row \cup {None}
      <4>1. post[p] \in Row \cup {None}
        BY DEF TInv, RowsOK
      <4>2. CASE p \in Rows /\ post[p].dept = d
        <5>1. post[p] \in Row
          BY <4>1, <4>2 DEF Rows
        <5>2. [post[p] EXCEPT !.dept = None] \in Row
          BY <5>1 DEF Row
        <5> QED BY <3>1, <4>2, <5>2
      <4>3. CASE ~(p \in Rows /\ post[p].dept = d)
        BY <3>1, <4>1, <4>3
      <4> QED BY <4>2, <4>3
    <3>3. post' \in [Posts -> Row \cup {None}]
      BY <2>2, <3>2 DEF RemoveDepartment
    <3>4. ASSUME NEW p \in Rows'
          PROVE  /\ post'[p].dept \in dept' \cup {None}
                 /\ post'[p].created \in Times /\ p \in Created'
      <4>1. p \in Posts /\ p \in Rows /\ post[p] \in Row /\ post[p].dept \in dept \cup {None}
            /\ post[p].created \in Times /\ p \in Created
        BY <3>1, <3>4 DEF TInv, RowsOK, Rows
      <4>2. post'[p].dept \in (dept \ {d}) \cup {None} /\ post'[p].created = post[p].created
        <5>1. CASE post[p].dept = d
          BY <3>1, <4>1, <5>1 DEF Row
        <5>2. CASE post[p].dept # d
          BY <3>1, <4>1, <5>2
        <5> QED BY <5>1, <5>2
      <4> QED BY <1>2, <2>2, <4>1, <4>2 DEF RemoveDepartment
    <3> QED BY <3>3, <3>4 DEF RowsOK
  <2> QED BY <2>1, <2>2
<1>6. NoticesOK'
  <2>1. steady' \in [Posts -> SUBSET Users] /\ \A p \in Posts : steady'[p] \subseteq steady[p]
    BY DEF UpdateUser, RemoveDepartment, TInv, NoticesOK
  <2> QED BY <1>1, <2>1 DEF TInv, NoticesOK
<1> QED BY <1>3, <1>4, <1>5, <1>6 DEF TInv
(* The pages of a feed, whose posts are rows and no more than there are.   *)
LEMMA FeedTypes ==
    ASSUME TInv, NEW u \in Users,
           \/ \E n \in Feeds, f \in Filters : GetFeed(u, n, f)
           \/ ReadContext(u) \/ FindPosts(u) \/ CountPosts(u) \/ TurnPage(u)
    PROVE  TInv'
<1>1. UNCHANGED <<user, dept, post, req, link, notice, steady>>
  BY DEF GetFeed, ReadContext, FindPosts, CountPosts, TurnPage, requests
<1>2. Created' = Created
  BY <1>1 DEF Created
<1>3. UsersOK' /\ RowsOK' /\ RequestsOK' /\ LinksOK' /\ NoticesOK'
  BY <1>1, <1>2 DEF TInv, UsersOK, RowsOK, RequestsOK, LinksOK, NoticesOK, Rows, Creates
<1>4. /\ Listed(u) \in SUBSET Posts /\ Listed(u) \subseteq Created
      /\ \A o : Page(u, o) \subseteq Listed(u)
  BY DEF Listed, Result, Rows, Page, OnPage, TInv, RowsOK
<1>5. feed[u] \in Reading /\ feed[u].again \subseteq feed[u].seen /\ feed[u].seen \subseteq Created
  BY DEF TInv, FeedsOK
<1> DEFINE Reads ==
             /\ feed' = [feed EXCEPT ![u] = feed'[u]] /\ feed'[u] \in Reading
             /\ feed'[u].again \subseteq feed'[u].seen /\ feed'[u].seen \subseteq Created
<1>6. Reads
  <2>1. ASSUME NEW n \in Feeds, NEW f \in Filters, GetFeed(u, n, f)
        PROVE  Reads
    <3>1. FeedFilter(n, f) \in Filter
      BY FilterType, AudienceAssumption
    <3>2. 1 \in 1 .. Cardinality(Posts) /\ 0 \in 0 .. Cardinality(Posts)
      BY PostSets
    <3> QED BY <2>1, <3>1, <3>2 DEF GetFeed, NoFeed, Reading, TInv, FeedsOK
  <2>2. CASE ReadContext(u)
    <3>1. user[u] \in Profile
      BY DEF TInv, UsersOK
    <3> QED BY <1>5, <2>2, <3>1 DEF ReadContext, Reading, TInv, FeedsOK
  <2>3. CASE FindPosts(u)
    <3>1. PICK o \in Orders(Listed(u), feed[u].filter) :
            feed' = [feed EXCEPT ![u].found = TRUE, ![u].seen = @ \cup Page(u, o),
                                 ![u].again = @ \cup (feed[u].seen \cap Page(u, o))]
      BY <2>3 DEF FindPosts
    <3>2. Page(u, o) \in SUBSET Posts /\ Page(u, o) \subseteq Created
      BY <1>4
    <3> QED BY <1>5, <3>1, <3>2 DEF Reading, TInv, FeedsOK
  <2>4. CASE CountPosts(u)
    <3>1. Cardinality(Listed(u)) \in 0 .. Cardinality(Posts)
      BY <1>4, PostSets
    <3> QED BY <1>5, <2>4, <3>1 DEF CountPosts, Reading, TInv, FeedsOK
  <2>5. CASE TurnPage(u)
    <3>1. /\ feed[u].page \in Nat /\ feed[u].total \in Nat /\ feed[u].total <= Cardinality(Posts)
          /\ Cardinality(Posts) \in Nat /\ feed[u].page >= 1
      BY <1>5, PostSets DEF Reading
    <3>2. feed[u].page < TotalPages(feed[u].total) => feed[u].page + 1 \in 1 .. Cardinality(Posts)
      BY <3>1, Pages
    <3>3. 0 \in 0 .. Cardinality(Posts)
      BY PostSets
    <3> QED BY <1>5, <2>5, <3>2, <3>3 DEF TurnPage, Reading, TInv, FeedsOK
  <2> QED BY <2>1, <2>2, <2>3, <2>4, <2>5
<1>7. FeedsOK'
  BY <1>2, <1>6 DEF TInv, FeedsOK
<1> QED BY <1>3, <1>7 DEF TInv

LEMMA LinkTypes ==
    ASSUME TInv, NEW u \in Users,
           (\E p \in Posts : OpenPost(u, p)) \/ LinkContext(u) \/ FindPost(u)
    PROVE  TInv'
<1>1. UNCHANGED <<user, dept, post, req, feed, notice, steady>>
  BY DEF OpenPost, LinkContext, FindPost, requests
<1>2. Created' = Created
  BY <1>1 DEF Created
<1>3. UsersOK' /\ RowsOK' /\ RequestsOK' /\ FeedsOK' /\ NoticesOK'
  BY <1>1, <1>2 DEF TInv, UsersOK, RowsOK, RequestsOK, FeedsOK, NoticesOK, Rows, Creates
<1>4. LinksOK'
  <2>1. link[u] \in Opening /\ user[u] \in Profile
    BY DEF TInv, LinksOK, UsersOK
  <2>2. ASSUME NEW p \in Posts, OpenPost(u, p) PROVE LinksOK'
    BY <2>2 DEF OpenPost, TInv, LinksOK, Opening
  <2>3. CASE LinkContext(u)
    BY <2>1, <2>3 DEF LinkContext, TInv, LinksOK, Opening
  <2>4. CASE FindPost(u)
    <3>1. (link[u].post \in Rows /\ Visible(u, link[u].ctx, link[u].post)) \in BOOLEAN
          /\ (link[u].sure /\ u \in steady[link[u].post]) \in BOOLEAN
      BY ZenonT(20)
    <3> QED BY <2>1, <2>4, <3>1 DEF FindPost, TInv, LinksOK, Opening
  <2> QED BY <2>2, <2>3, <2>4
<1> QED BY <1>3, <1>4 DEF TInv

LEMMA NoticeTypes ==
    ASSUME TInv, NEW p \in Posts, ReadTargets(p)
    PROVE  TInv'
<1>1. UNCHANGED <<user, dept, post, req, feed, link>>
  BY DEF ReadTargets, requests, readers
<1>2. TargetUsers(notice[p].event) \in SUBSET Users /\ notice[p].pc = "targets"
  BY DEF TargetUsers, ReadTargets
<1>3. notice' \in [Posts -> Telling] /\ steady' \in [Posts -> SUBSET Users]
  <2>1. notice[p] \in Telling
    BY DEF TInv, NoticesOK
  <2>2. [notice[p] EXCEPT !.pc = "done", !.told = TargetUsers(notice[p].event)] \in Telling
    BY <1>2, <2>1 DEF Telling
  <2>3. notice' \in [Posts -> Telling]
    BY <2>2 DEF ReadTargets, TInv, NoticesOK
  <2>4. steady' \in [Posts -> SUBSET Users]
    BY <1>2 DEF ReadTargets, TInv, NoticesOK
  <2> QED BY <2>3, <2>4
<1>4. /\ \A q \in Posts : notice'[q].pc # "done" => notice'[q].told = {}
      /\ \A q \in Posts : steady'[q] \subseteq notice'[q].told
      /\ \A q \in Posts : notice'[q].pc = "none" <=> notice[q].pc = "none"
  <2> SUFFICES ASSUME NEW q \in Posts
               PROVE  /\ notice'[q].pc # "done" => notice'[q].told = {}
                      /\ steady'[q] \subseteq notice'[q].told
                      /\ notice'[q].pc = "none" <=> notice[q].pc = "none"
    OBVIOUS
  <2>0. notice[p] \in Telling /\ notice[q] \in Telling
    BY DEF TInv, NoticesOK
  <2>1. CASE q = p
    <3>1. notice'[p].pc = "done" /\ notice'[p].told = TargetUsers(notice[p].event)
      BY <2>0 DEF ReadTargets, TInv, NoticesOK, Telling
    <3>2. steady'[p] \subseteq TargetUsers(notice[p].event)
      BY DEF ReadTargets, TInv, NoticesOK
    <3> QED BY <1>2, <2>1, <3>1, <3>2
  <2>2. CASE q # p
    <3>1. notice'[q] = notice[q] /\ steady'[q] = steady[q]
      BY <2>2 DEF ReadTargets, TInv, NoticesOK
    <3> QED BY <3>1 DEF TInv, NoticesOK
  <2> QED BY <2>1, <2>2
<1>5. Created' = Created
  BY <1>4 DEF Created
<1>6. UsersOK' /\ RowsOK' /\ RequestsOK' /\ FeedsOK' /\ LinksOK'
  BY <1>1, <1>5 DEF TInv, UsersOK, RowsOK, RequestsOK, FeedsOK, LinksOK, Rows, Creates
<1> QED BY <1>3, <1>4, <1>6 DEF TInv, NoticesOK

LEMMA StutterTypes ==
    ASSUME TInv, UNCHANGED vars
    PROVE  TInv'
BY DEF vars, TInv, UsersOK, RowsOK, RequestsOK, FeedsOK, LinksOK, NoticesOK, Rows, Created, Creates

LEMMA TypesKept ==
    ASSUME TInv, [Next]_vars
    PROVE  TInv'
<1>1. CASE UNCHANGED vars
  BY <1>1, StutterTypes
<1>2. CASE Step
  <2>1. CASE \E r \in Requests : InsertPost(r) \/ WritePost(r) \/ ErasePost(r)
    BY <2>1, InsertTypes, WriteTypes
  <2>2. CASE \E r \in Requests, u \in Users, p \in Posts :
                \/ \E c \in Contents : CreatePost(r, u, p, c) \/ UpdatePost(r, u, p, c)
                \/ DeletePost(r, u, p)
    BY <2>2, RequestTypes
  <2>3. CASE \/ \E u \in Users, c \in Profiles : UpdateUser(u, c)
             \/ \E d \in Departments : RemoveDepartment(d)
    BY <2>3, ProfileTypes
  <2>4. CASE \/ \E u \in Users, n \in Feeds, f \in Filters : GetFeed(u, n, f)
             \/ \E u \in Users : ReadContext(u) \/ FindPosts(u) \/ CountPosts(u) \/ TurnPage(u)
    BY <2>4, FeedTypes
  <2>5. CASE \/ \E u \in Users, p \in Posts : OpenPost(u, p)
             \/ \E u \in Users : LinkContext(u) \/ FindPost(u)
    BY <2>5, LinkTypes
  <2>6. CASE \E p \in Posts : ReadTargets(p)
    BY <2>6, NoticeTypes
  <2> QED BY <1>2, <2>1, <2>2, <2>3, <2>4, <2>5, <2>6 DEF Step
<1> QED BY <1>1, <1>2 DEF Next

(* Every variable keeps its type.                                          *)
LEMMA Types == Spec => []TInv
<1>1. Init => TInv
  BY InitTypes
<1>2. TInv /\ [Next]_vars => TInv'
  BY TypesKept
<1> QED BY <1>1, <1>2, PTL DEF Spec

(* Every variable of the model has its type, a post that is there has been *)
(* announced, and no reader turns more pages than there are posts.         *)
THEOREM TypeCorrect == Spec => []TypeOK
<1>1. TInv => TypeOK
  BY DEF TInv, UsersOK, RowsOK, RequestsOK, FeedsOK, LinksOK, NoticesOK, TypeOK, Row, Request,
         Reading, Opening, Rows
<1> QED BY <1>1, Types, PTL
----------------------------------------------------------------------------
(* The audience of a post *)

(* The filter of the notification service and that of the feeds agree.     *)
LEMMA SameAudience ==
    ASSUME TInv, NEW u \in Users, NEW p \in Rows
    PROVE  /\ u \in TargetUsers(Event(post[p])) => user[u].active /\ Visible(u, user[u], p)
           /\ user[u].role # "ADMIN" /\ u # post[p].author /\ user[u].active
                /\ Visible(u, user[u], p) => u \in TargetUsers(Event(post[p]))
<1>1. /\ Event(post[p]).scope = post[p].scope /\ Event(post[p]).dept = post[p].dept
      /\ Event(post[p]).year = post[p].year
  BY DEF Event
<1> QED BY <1>1 DEF TargetUsers, Visible

(* A handler of post.created that ends is the one that reads its targets.  *)
LEMMA Tells ==
    ASSUME TInv, Step, NEW p \in Posts, notice[p].pc = "targets", notice'[p].pc # "targets"
    PROVE  ReadTargets(p)
<1>1. notice' # notice /\ notice[p] \in Telling /\ notice \in [Posts -> Telling]
  BY DEF TInv, NoticesOK
<1>2. ASSUME NEW r \in Requests, InsertPost(r) PROVE FALSE
  BY <1>1, <1>2 DEF InsertPost, Telling
<1>3. ASSUME NEW q \in Posts, ReadTargets(q) PROVE ReadTargets(p)
  <2>1. CASE q = p
    BY <1>3, <2>1
  <2>2. CASE q # p
    BY <1>1, <1>3, <2>2 DEF ReadTargets
  <2> QED BY <2>1, <2>2
<1>4. ASSUME NEW r \in Requests, WritePost(r) \/ ErasePost(r) PROVE FALSE
  BY <1>1, <1>4 DEF WritePost, ErasePost
<1>5. ASSUME NEW r \in Requests, NEW u \in Users, NEW q \in Posts,
             \/ \E c \in Contents : CreatePost(r, u, q, c) \/ UpdatePost(r, u, q, c)
             \/ DeletePost(r, u, q)
      PROVE  FALSE
  BY <1>1, <1>5 DEF CreatePost, UpdatePost, DeletePost, Begin
<1>6. ~ (\/ \E u \in Users, c \in Profiles : UpdateUser(u, c)
         \/ \E d \in Departments : RemoveDepartment(d))
  BY <1>1 DEF UpdateUser, RemoveDepartment
<1>7. ~ (\/ \E u \in Users, n \in Feeds, f \in Filters : GetFeed(u, n, f)
         \/ \E u \in Users : ReadContext(u) \/ FindPosts(u) \/ CountPosts(u) \/ TurnPage(u))
  BY <1>1 DEF GetFeed, ReadContext, FindPosts, CountPosts, TurnPage
<1>8. ~ (\/ \E u \in Users, q \in Posts : OpenPost(u, q)
         \/ \E u \in Users : LinkContext(u) \/ FindPost(u))
  BY <1>1 DEF OpenPost, LinkContext, FindPost
<1> QED BY <1>2, <1>3, <1>4, <1>5, <1>6, <1>7, <1>8 DEF Step

(* Apart from the author and the admins, the active users told of a post   *)
(* are those whom the visibility filter of the feeds lets see it.          *)
THEOREM ToldAreAudience == Spec => AudienceIsTold
<1>1. ASSUME TInv, [Next]_vars
      PROVE  [\A p \in Posts :
                (notice[p].pc = "targets" /\ notice'[p].pc = "done" /\ p \in Rows
                   /\ Event(post[p]) = notice[p].event)
                => \A u \in Users : (user[u].role # "ADMIN" /\ u # post[p].author) =>
                     (u \in notice'[p].told <=> user[u].active /\ Visible(u, user[u], p))]_vars
  <2> SUFFICES ASSUME Step, NEW p \in Posts,
                      notice[p].pc = "targets", notice'[p].pc = "done", p \in Rows,
                      Event(post[p]) = notice[p].event,
                      NEW u \in Users, user[u].role # "ADMIN", u # post[p].author
               PROVE  u \in notice'[p].told <=> user[u].active /\ Visible(u, user[u], p)
    BY <1>1 DEF Next
  <2>1. ReadTargets(p)
    BY <1>1, Tells
  <2>2. notice'[p].told = TargetUsers(Event(post[p]))
    <3>1. notice \in [Posts -> Telling] /\ notice[p] \in Telling
      BY <1>1 DEF TInv, NoticesOK
    <3> QED BY <2>1, <3>1 DEF ReadTargets, Telling
  <2> QED BY <1>1, <2>2, SameAudience
<1> QED BY <1>1, Types, PTL DEF Spec, AudienceIsTold
----------------------------------------------------------------------------
(* Opening the post *)

(* Those who are told of a post, and have not changed since, nor has it.   *)
SteadyAreTold ==
    \A p \in Posts : \A u \in steady[p] :
        /\ p \in Rows /\ notice[p].pc = "done" /\ Event(post[p]) = notice[p].event
        /\ u \in TargetUsers(notice[p].event)

(* A link is sure of a post whose readers have been told: no one is told later. *)
SureAreTold ==
    \A u \in Users : (link[u].pc \in {"context", "find"} /\ link[u].sure) =>
        link[u].post \in Posts /\ notice[link[u].post].pc = "done"

ContextsHold ==
    \A u \in Users : (link[u].pc = "find" /\ link[u].sure /\ u \in steady[link[u].post]) =>
        link[u].ctx = user[u]

OInv == TInv /\ SteadyAreTold /\ SureAreTold /\ ContextsHold /\ ToldCanOpen

(* What one step does to a user told of a post: nothing, or the telling.   *)
Told(u, p) ==
    /\ notice[p].pc = "targets" /\ notice'[p].pc = "done" /\ notice'[p].event = notice[p].event
    /\ p \in Rows /\ Event(post[p]) = notice[p].event /\ u \in TargetUsers(notice[p].event)
    /\ UNCHANGED <<user, post, link>>

Kept(u, p) ==
    /\ u \in steady[p] /\ user'[u] = user[u] /\ post'[p] = post[p] /\ notice'[p] = notice[p]

LEMMA SteadyKept ==
    ASSUME OInv, Step, NEW u \in Users, NEW p \in Posts, u \in steady'[p]
    PROVE  Kept(u, p) \/ Told(u, p)
<1>0. /\ steady \in [Posts -> SUBSET Users] /\ notice \in [Posts -> Telling] /\ notice[p] \in Telling
      /\ post \in [Posts -> Row \cup {None}] /\ user \in [Users -> Profile]
      /\ notice[p].pc = "none" => steady[p] = {}
  BY DEF OInv, TInv, NoticesOK, RowsOK, UsersOK
<1>1. ASSUME NEW r \in Requests, InsertPost(r) PROVE Kept(u, p)
  <2>1. steady' = steady /\ user' = user
    BY <1>1 DEF InsertPost
  <2>2. p # req[r].post
    <3>1. req[r].post \in Posts /\ req[r].post \notin Created
      BY <1>1 DEF InsertPost, OInv, TInv, RequestsOK, Creates
    <3> QED BY <1>0, <2>1, <3>1 DEF Created
  <2> QED BY <1>0, <1>1, <2>1, <2>2 DEF InsertPost, Kept
<1>2. ASSUME NEW r \in Requests, WritePost(r) PROVE Kept(u, p)
  <2>1. user' = user /\ notice' = notice
    BY <1>2 DEF WritePost
  <2>2. CASE UNCHANGED <<post, steady>>
    BY <2>1, <2>2 DEF Kept
  <2>3. CASE steady' = [steady EXCEPT ![req[r].post] = {}]
             /\ \E row : post' = [post EXCEPT ![req[r].post] = row]
    BY <1>0, <2>1, <2>3 DEF Kept
  <2> QED BY <1>2, <2>2, <2>3 DEF WritePost
<1>3. ASSUME NEW r \in Requests, ErasePost(r) PROVE Kept(u, p)
  BY <1>0, <1>3 DEF ErasePost, Kept
<1>4. ASSUME NEW c \in Profiles, NEW x \in Users, UpdateUser(x, c) PROVE Kept(u, p)
  BY <1>0, <1>4 DEF UpdateUser, Kept
<1>5. ASSUME NEW d \in Departments, RemoveDepartment(d) PROVE Kept(u, p)
  BY <1>0, <1>5 DEF RemoveDepartment, Kept
<1>6. ASSUME NEW q \in Posts, ReadTargets(q) PROVE Kept(u, p) \/ Told(u, p)
  <2>1. UNCHANGED <<user, post, link>>
    BY <1>6 DEF ReadTargets, readers
  <2>2. CASE q = p
    <3>1. notice'[p].pc = "done" /\ notice'[p].event = notice[p].event /\ notice[p].pc = "targets"
      BY <1>0, <1>6, <2>2 DEF ReadTargets, Telling
    <3>2. p \in Rows /\ Event(post[p]) = notice[p].event /\ u \in TargetUsers(notice[p].event)
      BY <1>0, <1>6, <2>2 DEF ReadTargets
    <3> QED BY <2>1, <3>1, <3>2 DEF Told
  <2>3. CASE q # p
    BY <1>0, <1>6, <2>1, <2>3 DEF ReadTargets, Kept
  <2> QED BY <2>2, <2>3
<1>7. ASSUME UNCHANGED <<user, post, notice, steady>> PROVE Kept(u, p)
  BY <1>7 DEF Kept
<1>8. ASSUME NEW r \in Requests, NEW x \in Users, NEW q \in Posts,
             \/ \E c \in Contents : CreatePost(r, x, q, c) \/ UpdatePost(r, x, q, c)
             \/ DeletePost(r, x, q)
      PROVE  UNCHANGED <<user, post, notice, steady>>
  BY <1>8 DEF CreatePost, UpdatePost, DeletePost, Begin
<1>9. ASSUME \/ \E x \in Users, n \in Feeds, f \in Filters : GetFeed(x, n, f)
             \/ \E x \in Users : ReadContext(x) \/ FindPosts(x) \/ CountPosts(x) \/ TurnPage(x)
      PROVE  UNCHANGED <<user, post, notice, steady>>
  BY <1>9 DEF GetFeed, ReadContext, FindPosts, CountPosts, TurnPage
<1>10. ASSUME \/ \E x \in Users, q \in Posts : OpenPost(x, q)
              \/ \E x \in Users : LinkContext(x) \/ FindPost(x)
       PROVE  UNCHANGED <<user, post, notice, steady>>
  BY <1>10 DEF OpenPost, LinkContext, FindPost
<1> QED BY <1>1, <1>2, <1>3, <1>4, <1>5, <1>6, <1>7, <1>8, <1>9, <1>10 DEF Step

(* The end of a handler is never undone.                                   *)
LEMMA ToldStays ==
    ASSUME TInv, Step, NEW p \in Posts, notice[p].pc = "done"
    PROVE  notice'[p].pc = "done"
<1>0. notice \in [Posts -> Telling] /\ notice[p] \in Telling
  BY DEF TInv, NoticesOK
<1>1. ASSUME NEW r \in Requests, InsertPost(r) PROVE notice'[p].pc = "done"
  <2>1. req[r].post \in Posts /\ req[r].post # p
    BY <1>1 DEF InsertPost, TInv, RequestsOK, Creates, Created
  <2> QED BY <1>0, <1>1, <2>1 DEF InsertPost
<1>2. ASSUME NEW q \in Posts, ReadTargets(q) PROVE notice'[p].pc = "done"
  <2>1. p # q
    BY <1>2 DEF ReadTargets
  <2> QED BY <1>0, <1>2, <2>1 DEF ReadTargets
<1>3. ASSUME NEW r \in Requests, WritePost(r) \/ ErasePost(r) PROVE UNCHANGED notice
  BY <1>3 DEF WritePost, ErasePost
<1>4. ASSUME NEW r \in Requests, NEW u \in Users, NEW q \in Posts,
             \/ \E c \in Contents : CreatePost(r, u, q, c) \/ UpdatePost(r, u, q, c)
             \/ DeletePost(r, u, q)
      PROVE  UNCHANGED notice
  BY <1>4 DEF CreatePost, UpdatePost, DeletePost, Begin
<1>5. ASSUME \/ \E u \in Users, c \in Profiles : UpdateUser(u, c)
             \/ \E d \in Departments : RemoveDepartment(d)
      PROVE  UNCHANGED notice
  BY <1>5 DEF UpdateUser, RemoveDepartment
<1>6. ASSUME \/ \E u \in Users, n \in Feeds, f \in Filters : GetFeed(u, n, f)
             \/ \E u \in Users : ReadContext(u) \/ FindPosts(u) \/ CountPosts(u) \/ TurnPage(u)
      PROVE  UNCHANGED notice
  BY <1>6 DEF GetFeed, ReadContext, FindPosts, CountPosts, TurnPage
<1>7. ASSUME \/ \E u \in Users, q \in Posts : OpenPost(u, q)
             \/ \E u \in Users : LinkContext(u) \/ FindPost(u)
      PROVE  UNCHANGED notice
  BY <1>7 DEF OpenPost, LinkContext, FindPost
<1> QED BY <1>1, <1>2, <1>3, <1>4, <1>5, <1>6, <1>7 DEF Step

(* What one step does to the link that a user opens.                       *)
LEMMA LinkMoves ==
    ASSUME TInv, Step, NEW u \in Users
    PROVE  \/ link'[u] = link[u]
           \/ \E p \in Posts : OpenPost(u, p)
           \/ LinkContext(u)
           \/ FindPost(u)
<1>0. link \in [Users -> Opening]
  BY DEF TInv, LinksOK
<1>1. ASSUME NEW x \in Users, \/ \E p \in Posts : OpenPost(x, p)
                              \/ LinkContext(x) \/ FindPost(x)
      PROVE  x # u => link'[u] = link[u]
  BY <1>0, <1>1 DEF OpenPost, LinkContext, FindPost
<1>2. ASSUME NEW r \in Requests, InsertPost(r) \/ WritePost(r) \/ ErasePost(r)
      PROVE  link' = link
  BY <1>2 DEF InsertPost, WritePost, ErasePost, readers
<1>3. ASSUME NEW r \in Requests, NEW x \in Users, NEW p \in Posts,
             \/ \E c \in Contents : CreatePost(r, x, p, c) \/ UpdatePost(r, x, p, c)
             \/ DeletePost(r, x, p)
      PROVE  link' = link
  BY <1>3 DEF CreatePost, UpdatePost, DeletePost, Begin, readers
<1>4. ASSUME \/ \E x \in Users, c \in Profiles : UpdateUser(x, c)
             \/ \E d \in Departments : RemoveDepartment(d)
      PROVE  link' = link
  BY <1>4 DEF UpdateUser, RemoveDepartment, readers
<1>5. ASSUME \/ \E x \in Users, n \in Feeds, f \in Filters : GetFeed(x, n, f)
             \/ \E x \in Users : ReadContext(x) \/ FindPosts(x) \/ CountPosts(x) \/ TurnPage(x)
      PROVE  link' = link
  BY <1>5 DEF GetFeed, ReadContext, FindPosts, CountPosts, TurnPage
<1>6. ASSUME NEW p \in Posts, ReadTargets(p) PROVE link' = link
  BY <1>6 DEF ReadTargets, readers
<1> QED BY <1>1, <1>2, <1>3, <1>4, <1>5, <1>6 DEF Step
LEMMA LinksKept ==
    ASSUME OInv, Step, TInv'
    PROVE  OInv'
<1>0. /\ TInv /\ SteadyAreTold /\ SureAreTold /\ ContextsHold /\ ToldCanOpen
      /\ \A u \in Users : link[u] \in Opening /\ link'[u] \in Opening
      /\ link \in [Users -> Opening]
  BY DEF OInv, TInv, LinksOK
<1>1. SteadyAreTold'
  <2> SUFFICES ASSUME NEW p \in Posts, NEW u \in steady'[p]
               PROVE  /\ p \in Rows' /\ notice'[p].pc = "done"
                      /\ Event(post'[p]) = notice'[p].event
                      /\ u \in TargetUsers(notice[p].event)'
    BY DEF SteadyAreTold, Event
  <2>1. u \in Users
    BY DEF TInv, NoticesOK
  <2>2. CASE Kept(u, p)
    <3>1. /\ p \in Rows /\ notice[p].pc = "done" /\ Event(post[p]) = notice[p].event
          /\ u \in TargetUsers(notice[p].event)
      BY <1>0, <2>2 DEF SteadyAreTold, Kept
    <3>2. u \in TargetUsers(notice[p].event)'
      BY <2>1, <2>2, <3>1 DEF TargetUsers, Kept
    <3> QED BY <2>2, <3>1, <3>2 DEF Kept, Rows
  <2>3. CASE Told(u, p)
    <3>1. u \in TargetUsers(notice[p].event)'
      BY <2>1, <2>3 DEF TargetUsers, Told
    <3> QED BY <2>3, <3>1 DEF Told, Rows
  <2> QED BY <2>1, <2>2, <2>3, SteadyKept
<1>2. SureAreTold'
  <2> SUFFICES ASSUME NEW u \in Users, link'[u].pc \in {"context", "find"}, link'[u].sure
               PROVE  link'[u].post \in Posts /\ notice'[link'[u].post].pc = "done"
    BY DEF SureAreTold
  <2>1. CASE link'[u] = link[u]
    BY <1>0, <2>1, ToldStays DEF SureAreTold
  <2>2. ASSUME NEW p \in Posts, OpenPost(u, p)
        PROVE  link'[u].post \in Posts /\ notice'[link'[u].post].pc = "done"
    <3>1. link'[u].post = p /\ u \in steady[p]
      BY <1>0, <2>2 DEF OpenPost
    <3> QED BY <1>0, <3>1, ToldStays DEF SteadyAreTold
  <2>3. CASE LinkContext(u)
    <3>1. link[u].pc = "context" /\ link'[u].post = link[u].post /\ link'[u].sure = link[u].sure
      BY <1>0, <2>3 DEF LinkContext, Opening
    <3> QED BY <1>0, <3>1, ToldStays DEF SureAreTold
  <2>4. CASE FindPost(u)
    BY <1>0, <2>4 DEF FindPost, Opening
  <2> QED BY <1>0, <2>1, <2>2, <2>3, <2>4, LinkMoves
<1>3. ContextsHold'
  <2> SUFFICES ASSUME NEW u \in Users, link'[u].pc = "find", link'[u].sure,
                      u \in steady'[link'[u].post]
               PROVE  link'[u].ctx = user'[u]
    BY DEF ContextsHold
  <2>1. CASE link'[u] = link[u]
    <3> DEFINE p == link[u].post
    <3>1. p \in Posts /\ notice[p].pc = "done"
      BY <1>0, <2>1 DEF SureAreTold
    <3>2. Kept(u, p)
      BY <2>1, <3>1, SteadyKept DEF Told
    <3> QED BY <1>0, <2>1, <3>2 DEF Kept, ContextsHold
  <2>2. CASE \E p \in Posts : OpenPost(u, p)
    BY <1>0, <2>2 DEF OpenPost
  <2>3. CASE LinkContext(u)
    BY <1>0, <2>3 DEF LinkContext, Opening
  <2>4. CASE FindPost(u)
    BY <1>0, <2>4 DEF FindPost, Opening
  <2> QED BY <1>0, <2>1, <2>2, <2>3, <2>4, LinkMoves
<1>4. ToldCanOpen'
  <2> SUFFICES ASSUME NEW u \in Users, link'[u].pc = "done", link'[u].sure PROVE link'[u].found
    BY DEF ToldCanOpen
  <2>1. CASE link'[u] = link[u]
    BY <1>0, <2>1 DEF ToldCanOpen
  <2>2. CASE (\E p \in Posts : OpenPost(u, p)) \/ LinkContext(u)
    BY <1>0, <2>2 DEF OpenPost, LinkContext, Opening
  <2>3. CASE FindPost(u)
    <3> DEFINE p == link[u].post
    <3>1. /\ link[u].pc = "find" /\ link[u].sure /\ u \in steady[p]
          /\ link'[u].found = (p \in Rows /\ Visible(u, link[u].ctx, p))
      BY <1>0, <2>3 DEF FindPost, Opening
    <3>2. p \in Posts /\ link[u].ctx = user[u]
      BY <1>0, <3>1 DEF SureAreTold, ContextsHold
    <3>3. p \in Rows /\ u \in TargetUsers(Event(post[p]))
      BY <1>0, <3>1, <3>2 DEF SteadyAreTold
    <3>4. Visible(u, user[u], p)
      BY <1>0, <3>3, SameAudience
    <3> QED BY <3>1, <3>2, <3>3, <3>4
  <2> QED BY <1>0, <2>1, <2>2, <2>3, LinkMoves
<1> QED BY <1>1, <1>2, <1>3, <1>4 DEF OInv

(* Opening the post works for a user who was told of it, as long as        *)
(* neither the post nor the user has changed.                              *)
THEOREM LinksOpen == Spec => []ToldCanOpen
<1>1. Init => OInv
  <2> SUFFICES ASSUME Init PROVE OInv
    OBVIOUS
  <2>1. /\ \A u \in Users : link[u] = NoLink
        /\ \A p \in Posts : steady[p] = {}
    BY DEF Init
  <2> QED BY <2>1, InitTypes DEF OInv, SteadyAreTold, SureAreTold, ContextsHold, ToldCanOpen, NoLink
<1>2. OInv /\ [Next]_vars => OInv'
  <2>1. ASSUME OInv, UNCHANGED vars PROVE OInv'
    <3>1. TInv'
      BY <2>1, StutterTypes DEF OInv
    <3> QED BY <2>1, <3>1 DEF OInv, vars, SteadyAreTold, SureAreTold, ContextsHold, ToldCanOpen, Rows,
                              TargetUsers, Event
  <2> QED BY <2>1, LinksKept, TypesKept DEF OInv, Next
<1> QED BY <1>1, <1>2, PTL DEF Spec, OInv
----------------------------------------------------------------------------
(* The pages of a feed *)

(* In an order in which the database may answer, a post has a place from   *)
(* the first to the last that its equals leave it.                         *)
LEMMA Injected ==
    ASSUME NEW A, NEW g, NEW a \in Int, NEW b \in Int, b >= a - 1,
           \A q \in A : g[q] \in a .. b,
           \A q, r \in A : g[q] = g[r] => q = r
    PROVE  Cardinality(A) <= b - a + 1
<1> DEFINE h == [q \in A |-> g[q]]
<1>1. h \in Injection(A, a .. b)
  BY DEF Injection, IsInjective
<1>2. IsFiniteSet(a .. b) /\ Cardinality(a .. b) = b - a + 1
  BY FS_Interval
<1> QED BY <1>1, <1>2, FS_Injection

LEMMA OrderedPlaces ==
    ASSUME NEW S \in SUBSET Posts, NEW f, NEW o \in Orders(S, f), NEW p \in S
    PROVE  /\ o[p] \in Nat /\ o[p] >= 1
           /\ RankIn(S, f, p) \in Nat /\ RankIn(S, f, p) <= o[p]
           /\ LastIn(S, f, p) \in Int /\ o[p] <= LastIn(S, f, p)
<1> DEFINE n == Cardinality(S)
           front == {q \in S : Precedes(f, q, p)}
           rear == {q \in S : Precedes(f, p, q)}
<1>1. n \in Nat /\ Cardinality(front) \in Nat /\ Cardinality(rear) \in Nat
  BY PostSets
<1>2. /\ \A q \in S : o[q] \in 1 .. n
      /\ \A q, r \in S : o[q] = o[r] => q = r
      /\ \A q, r \in S : Precedes(f, q, r) => o[q] < o[r]
  BY DEF Orders, Bijection, Injection, IsInjective
<1>3. Cardinality(front) <= o[p] - 1
  <2>1. \A q \in front : o[q] \in 1 .. o[p] - 1
    BY <1>1, <1>2
  <2>2. o[p] \in Int /\ o[p] - 1 >= 1 - 1
    BY <1>1, <1>2
  <2> HIDE DEF n
  <2>3. \A q, r \in front : o[q] = o[r] => q = r
    BY <1>2
  <2> HIDE DEF front
  <2>4. Cardinality(front) <= (o[p] - 1) - 1 + 1
    BY <2>1, <2>2, <2>3, Injected
  <2> QED BY <1>1, <2>2, <2>4
<1>4. Cardinality(rear) <= n - o[p]
  <2>1. \A q \in rear : o[q] \in o[p] + 1 .. n
    BY <1>1, <1>2
  <2>2. o[p] \in Int /\ n >= (o[p] + 1) - 1
    BY <1>1, <1>2
  <2> HIDE DEF n
  <2>3. \A q, r \in rear : o[q] = o[r] => q = r
    BY <1>2
  <2> HIDE DEF rear
  <2>4. Cardinality(rear) <= n - (o[p] + 1) + 1
    BY <1>1, <2>1, <2>2, <2>3, Injected
  <2> QED BY <1>1, <2>2, <2>4
<1>5. RankIn(S, f, p) = Cardinality(front) + 1 /\ LastIn(S, f, p) = n - Cardinality(rear)
  BY DEF RankIn, LastIn
<1>6. o[p] \in 1 .. n
  BY <1>2
<1> HIDE DEF n, front, rear
<1> QED BY <1>1, <1>3, <1>4, <1>5, <1>6

(* The result set a user reads as it is now, the first place of a post in  *)
(* it, and the places on the pages found so far.                           *)
Members(u) == Result(u, user[u], feed[u].filter)
Place(u, p) == RankIn(Members(u), feed[u].filter, p)
Covered(u) == (IF feed[u].found THEN feed[u].page ELSE feed[u].page - 1) * Limit

LEMMA Standings ==
    ASSUME NEW u
    PROVE  /\ DOMAIN Standing(u) = Members(u)
           /\ \A p \in Members(u) : Standing(u)[p] = Place(u, p)
           /\ DOMAIN (Standing(u)') = Members(u)'
           /\ \A p \in Members(u)' : (Standing(u)')[p] = Place(u, p)'
<1>1. Standing(u) = [p \in Members(u) |-> Place(u, p)]
  BY DEF Standing, Members, Place
<1>2. Standing(u)' = [p \in Members(u)' |-> Place(u, p)']
  BY DEF Standing, Members, Place
<1> QED BY <1>1, <1>2

LEMMA PlaceType ==
    ASSUME NEW u, NEW p
    PROVE  /\ Members(u) \in SUBSET Posts /\ Members(u)' \in SUBSET Posts
           /\ Place(u, p) \in Nat /\ Place(u, p) >= 1
           /\ Place(u, p)' \in Nat /\ Place(u, p)' >= 1
<1>1. Members(u) \in SUBSET Posts /\ Members(u)' \in SUBSET Posts
  BY DEF Members, Result, Rows
<1>2. Place(u, p) \in Nat /\ Place(u, p) >= 1
  <2>1. {q \in Members(u) : Precedes(feed[u].filter, q, p)} \in SUBSET Posts
    BY <1>1
  <2> QED BY <2>1, PostSets DEF Place, RankIn
<1>3. Place(u, p)' \in Nat /\ Place(u, p)' >= 1
  <2>1. {q \in Members(u)' : Precedes(feed[u].filter, q, p)'} \in SUBSET Posts
    BY <1>1
  <2> QED BY <2>1, PostSets DEF Place, RankIn
<1> QED BY <1>1, <1>2, <1>3

(* No post precedes itself, so the last place is that of the count.        *)
LEMMA PlaceCounted ==
    ASSUME TInv, NEW u, NEW p \in Members(u)
    PROVE  Place(u, p) <= Cardinality(Members(u))
<1> DEFINE f == feed[u].filter
           S == Members(u)
           front == {q \in S : Precedes(f, q, p)}
<1>1. S \in SUBSET Posts /\ p \in Posts /\ post[p] \in Row
  BY PlaceType DEF TInv, RowsOK, Rows, Members, Result
<1>2. Key(f, p) \in Int /\ post[p].created \in Int
  BY <1>1 DEF Key, PriorityRank, Row
<1>3. ~Precedes(f, p, p)
  BY <1>2 DEF Precedes
<1>4. front \subseteq S \ {p}
  BY <1>3
<1>5. Cardinality(S \ {p}) = Cardinality(S) - 1
  BY <1>1, PostSets, FS_RemoveElement
<1>6. Cardinality(front) <= Cardinality(S \ {p}) /\ Cardinality(front) \in Nat
  BY <1>1, <1>4, PostSets, FS_Subset
<1> HIDE DEF front
<1>7. Cardinality(S) \in Nat
  BY <1>1, PostSets
<1> QED BY <1>5, <1>6, <1>7 DEF Place, RankIn, front

LEMMA SamePlaces ==
    ASSUME NEW u, UNCHANGED post, user'[u] = user[u], feed'[u].filter = feed[u].filter
    PROVE  Members(u)' = Members(u) /\ \A p : Place(u, p)' = Place(u, p)
<1>1. Members(u)' = Members(u)
  BY DEF Members, Result, Rows, Visible, Matches, SearchConditions
<1>2. ASSUME NEW p PROVE Place(u, p)' = Place(u, p)
  <2>1. {q \in Members(u)' : Precedes(feed[u].filter, q, p)'}
          = {q \in Members(u) : Precedes(feed[u].filter, q, p)}
    BY <1>1 DEF Precedes, Key
  <2> QED BY <2>1 DEF Place, RankIn
<1> QED BY <1>1, <1>2

(* The pages do not overlap and leave nothing out, apart from the posts    *)
(* that the edge of a page divides from their equals.                      *)
LEMMA PagePlaces ==
    ASSUME TInv, NEW u \in Users, feed[u].ctx = user[u],
           NEW o \in Orders(Listed(u), feed[u].filter)
    PROVE  /\ \A p \in Page(u, o) :
                /\ p \in Members(u) /\ Place(u, p) <= feed[u].page * Limit
                /\ p \notin Tied(u) => Place(u, p) > (feed[u].page - 1) * Limit
           /\ \A p \in Members(u) \ (Page(u, o) \cup Tied(u)) :
                Place(u, p) > (feed[u].page - 1) * Limit => Place(u, p) > feed[u].page * Limit
<1> DEFINE n == feed[u].page
           first == (n - 1) * Limit
           last == n * Limit
           end(p) == LastIn(Members(u), feed[u].filter, p)
<1>1. Listed(u) = Members(u)
  BY DEF Listed, Members
<1>2. n \in Int /\ Limit \in Nat /\ first \in Int /\ last \in Int /\ first + Limit = last
  BY PostSets, AudienceAssumption DEF TInv, FeedsOK, Reading
<1>3. Page(u, o) = {p \in Members(u) : o[p] \in first + 1 .. last}
  BY <1>1, <1>2 DEF Page, OnPage
<1>4. Tied(u) = {p \in Members(u) : \E edge \in {first, last} : Place(u, p) <= edge /\ edge < end(p)}
  BY <1>1 DEF Tied, Place
<1>5. \A p \in Members(u) : /\ o[p] \in Nat /\ Place(u, p) \in Nat /\ Place(u, p) <= o[p]
                            /\ end(p) \in Int /\ o[p] <= end(p)
  BY <1>1, PlaceType, OrderedPlaces DEF Place
<1> HIDE DEF first, last, end
<1>6. ASSUME NEW p \in Page(u, o)
      PROVE  /\ p \in Members(u) /\ Place(u, p) <= last
             /\ p \notin Tied(u) => Place(u, p) > first
  BY <1>2, <1>3, <1>4, <1>5
<1>7. ASSUME NEW p \in Members(u) \ (Page(u, o) \cup Tied(u)), Place(u, p) > first
      PROVE  Place(u, p) > last
  <2>1. o[p] > last
    BY <1>2, <1>3, <1>5, <1>7
  <2> QED BY <1>2, <1>4, <1>5, <1>7, <2>1
<1> QED BY <1>6, <1>7 DEF first, last

(* What was shown and did not move back is on the pages found so far; what *)
(* was not shown, did not move towards the front and was not divided from  *)
(* its equals is behind them, and the count of the last page counts it.    *)
ShownInFront(u) ==
    \A p \in feed[u].seen \ (watch[u].back \cup watch[u].away) :
        p \in Members(u) /\ Place(u, p) <= Covered(u)

RestBehind(u) ==
    \A p \in Posts \ (feed[u].seen \cup watch[u].away \cup watch[u].forth \cup watch[u].between
                      \cup watch[u].tied) :
        /\ p \in Members(u) /\ Place(u, p) > Covered(u)
        /\ feed[u].counted => IF feed[u].found THEN feed[u].total > Covered(u)
                              ELSE feed[u].total >= Place(u, p)

Turning(u) == feed[u].pc \in {"context", "read"} /\ ~watch[u].turned

ReaderOK(u) ==
    /\ feed[u].pc = "idle" => feed[u].again = {}
    /\ Turning(u) => /\ feed[u].pc = "read" => feed[u].ctx = user[u]
                     /\ ShownInFront(u) /\ RestBehind(u)
    /\ ~watch[u].turned =>
         feed[u].again \subseteq watch[u].back \cup watch[u].away \cup watch[u].tied
    /\ feed[u].pc = "done" /\ ~watch[u].turned =>
         \A p \in Posts \ (feed[u].seen \cup watch[u].away) :
             p \in watch[u].forth \cup watch[u].between \cup watch[u].tied

PInv == TInv /\ \A u \in Users : ReaderOK(u)

(* What one step does to the feed that a user reads: nothing, or one of    *)
(* the user's own calls, which leave the posts and the users alone.        *)
LEMMA FeedMoves ==
    ASSUME TInv, Step, NEW u \in Users
    PROVE  \/ feed'[u] = feed[u]
           \/ /\ UNCHANGED <<user, post>>
              /\ \/ \E n \in Feeds, f \in Filters : GetFeed(u, n, f)
                 \/ ReadContext(u) \/ FindPosts(u) \/ CountPosts(u) \/ TurnPage(u)
<1>0. feed \in [Users -> Reading]
  BY DEF TInv, FeedsOK
<1>1. ASSUME NEW x \in Users,
             \/ \E n \in Feeds, f \in Filters : GetFeed(x, n, f)
             \/ ReadContext(x) \/ FindPosts(x) \/ CountPosts(x) \/ TurnPage(x)
      PROVE  UNCHANGED <<user, post>> /\ (x # u => feed'[u] = feed[u])
  BY <1>0, <1>1 DEF GetFeed, ReadContext, FindPosts, CountPosts, TurnPage
<1>2. ASSUME NEW r \in Requests, InsertPost(r) \/ WritePost(r) \/ ErasePost(r)
      PROVE  feed' = feed
  BY <1>2 DEF InsertPost, WritePost, ErasePost, readers
<1>3. ASSUME NEW r \in Requests, NEW x \in Users, NEW p \in Posts,
             \/ \E c \in Contents : CreatePost(r, x, p, c) \/ UpdatePost(r, x, p, c)
             \/ DeletePost(r, x, p)
      PROVE  feed' = feed
  BY <1>3 DEF CreatePost, UpdatePost, DeletePost, Begin, readers
<1>4. ASSUME \/ \E x \in Users, c \in Profiles : UpdateUser(x, c)
             \/ \E d \in Departments : RemoveDepartment(d)
      PROVE  feed' = feed
  BY <1>4 DEF UpdateUser, RemoveDepartment, readers
<1>5. ASSUME \/ \E x \in Users, p \in Posts : OpenPost(x, p)
             \/ \E x \in Users : LinkContext(x) \/ FindPost(x)
      PROVE  feed' = feed
  BY <1>5 DEF OpenPost, LinkContext, FindPost
<1>6. ASSUME NEW p \in Posts, ReadTargets(p) PROVE feed' = feed
  BY <1>6 DEF ReadTargets, readers
<1> QED BY <1>1, <1>2, <1>3, <1>4, <1>5, <1>6 DEF Step

LEMMA WatchMoves ==
    ASSUME Watch, NEW u \in Users
    PROVE  /\ feed[u].pc = "idle" /\ feed'[u].pc = "idle" => watch'[u] = NoWatch
           /\ feed[u].pc = "idle" /\ feed'[u].pc # "idle" =>
                watch'[u] = [NoWatch EXCEPT !.away = Posts \ Members(u)']
           /\ feed[u].pc = "done"
              \/ (feed[u].pc # "idle" /\ UNCHANGED <<user, post>> /\ ~Finds(u)) =>
                watch'[u] = watch[u]
           /\ feed[u].pc \notin {"idle", "done"} /\ (Finds(u) \/ ~UNCHANGED <<user, post>>) =>
                watch'[u] = Watched(u)
<1>1. watch'[u] =
        CASE feed[u].pc = "idle" /\ feed'[u].pc = "idle" -> NoWatch
          [] feed[u].pc = "idle" /\ feed'[u].pc # "idle" ->
                [NoWatch EXCEPT !.away = Posts \ Members(u)']
          [] feed[u].pc = "done"
             \/ (feed[u].pc # "idle" /\ UNCHANGED <<user, post>> /\ ~Finds(u)) -> watch[u]
          [] OTHER -> Watched(u)
  BY Standings DEF Watch
<1> QED BY <1>1

(* What moves is named.                                                    *)
LEMMA WatchedMoves ==
    ASSUME NEW u \in Users, watch'[u] = Watched(u)
    PROVE  LET fixed == Members(u) \cap Members(u)'
               back == {p \in fixed : Place(u, p)' > Place(u, p)} IN
           /\ watch'[u].away = watch[u].away \cup (Posts \ Members(u)')
           /\ watch'[u].forth = watch[u].forth \cup {p \in fixed : Place(u, p)' < Place(u, p)}
           /\ watch'[u].back = watch[u].back \cup back
           /\ watch'[u].between = watch[u].between \cup
                (IF feed[u].counted /\ ~feed[u].found THEN back ELSE {})
           /\ watch'[u].tied = watch[u].tied \cup (IF Finds(u) THEN Tied(u) ELSE {})
           /\ watch'[u].turned = (watch[u].turned \/ user'[u] # user[u])
<1> DEFINE s == Standing(u)
           t == Standing(u)'
           fixed == Members(u) \cap Members(u)'
           back == {p \in fixed : Place(u, p)' > Place(u, p)}
<1>1. {p \in DOMAIN s \cap DOMAIN t : t[p] > s[p]} = back
  BY Standings
<1>2. {p \in DOMAIN s \cap DOMAIN t : t[p] < s[p]} = {p \in fixed : Place(u, p)' < Place(u, p)}
  BY Standings
<1>3. DOMAIN t = Members(u)'
  BY Standings
<1> HIDE DEF s, t, back, fixed
<1>4. /\ watch'[u].away = watch[u].away \cup (Posts \ Members(u)')
      /\ watch'[u].forth = watch[u].forth \cup {p \in fixed : Place(u, p)' < Place(u, p)}
      /\ watch'[u].back = watch[u].back \cup back
      /\ watch'[u].between = watch[u].between \cup
           (IF feed[u].counted /\ ~feed[u].found THEN back ELSE {})
      /\ watch'[u].tied = watch[u].tied \cup (IF Finds(u) THEN Tied(u) ELSE {})
      /\ watch'[u].turned = (watch[u].turned \/ user'[u] # user[u])
  BY <1>1, <1>2, <1>3 DEF Watched, s, t
<1> QED BY <1>4 DEF fixed, back

(* The posts and the profiles move under a reader.                         *)
LEMMA MovesKeepPlaces ==
    ASSUME TInv, TInv', NEW u \in Users, ReaderOK(u), feed'[u] = feed[u], watch'[u] = Watched(u),
           Turning(u)'
    PROVE  ReaderOK(u)'
<1> DEFINE fixed == Members(u) \cap Members(u)'
           back == {p \in fixed : Place(u, p)' > Place(u, p)}
<1>1. /\ watch'[u].away = watch[u].away \cup (Posts \ Members(u)')
      /\ watch'[u].forth = watch[u].forth \cup {p \in fixed : Place(u, p)' < Place(u, p)}
      /\ watch'[u].back = watch[u].back \cup back
      /\ watch'[u].between = watch[u].between \cup
           (IF feed[u].counted /\ ~feed[u].found THEN back ELSE {})
      /\ watch'[u].tied = watch[u].tied
      /\ watch'[u].turned = (watch[u].turned \/ user'[u] # user[u])
  <2>1. ~Finds(u)
    BY DEF Finds
  <2>2. watch'[u].tied = watch[u].tied \cup (IF Finds(u) THEN Tied(u) ELSE {})
    BY WatchedMoves
  <2>3. watch'[u].tied = watch[u].tied
    BY <2>1, <2>2
  <2> QED BY <2>3, WatchedMoves
<1> HIDE DEF back, fixed
<1>2. user'[u] = user[u] /\ ~watch[u].turned /\ Turning(u)
  BY <1>1 DEF Turning
<1>3. /\ feed[u].pc = "read" => feed[u].ctx = user[u]
      /\ ShownInFront(u) /\ RestBehind(u)
      /\ feed[u].again \subseteq watch[u].back \cup watch[u].away \cup watch[u].tied
  BY <1>2 DEF ReaderOK
<1>4. Covered(u)' = Covered(u) /\ Covered(u) \in Int /\ feed[u].total \in Int
      /\ feed[u].seen \in SUBSET Posts
  BY AudienceAssumption, PostSets DEF Covered, TInv, FeedsOK, Reading
<1>5. ShownInFront(u)'
  <2> SUFFICES ASSUME NEW p \in feed[u].seen \ (watch'[u].back \cup watch'[u].away)
               PROVE  p \in Members(u)' /\ Place(u, p)' <= Covered(u)
    BY <1>4 DEF ShownInFront
  <2>1. p \in Members(u) /\ Place(u, p) <= Covered(u) /\ p \in Members(u)' /\ p \notin back
    BY <1>1, <1>3, <1>4 DEF ShownInFront
  <2> QED BY <1>4, <2>1, PlaceType DEF back, fixed
<1>6. RestBehind(u)'
  <2> SUFFICES ASSUME NEW p \in Posts \ (feed[u].seen \cup watch'[u].away \cup watch'[u].forth
                                          \cup watch'[u].between \cup watch'[u].tied)
               PROVE  /\ p \in Members(u)' /\ Place(u, p)' > Covered(u)
                      /\ feed[u].counted => IF feed[u].found THEN feed[u].total > Covered(u)
                                            ELSE feed[u].total >= Place(u, p)'
    BY <1>4 DEF RestBehind
  <2>1. /\ p \in Members(u) /\ Place(u, p) > Covered(u)
        /\ feed[u].counted => IF feed[u].found THEN feed[u].total > Covered(u)
                              ELSE feed[u].total >= Place(u, p)
        /\ p \in Members(u)' /\ p \in fixed
    BY <1>1, <1>3 DEF RestBehind, fixed
  <2>2. ~(Place(u, p)' < Place(u, p))
    BY <1>1, <2>1
  <2>3. feed[u].counted /\ ~feed[u].found => ~(Place(u, p)' > Place(u, p))
    BY <1>1, <2>1 DEF back
  <2> QED BY <1>4, <2>1, <2>2, <2>3, PlaceType
<1>7. /\ feed'[u].pc = "read" => feed'[u].ctx = user'[u]
      /\ feed'[u].again \subseteq watch'[u].back \cup watch'[u].away \cup watch'[u].tied
      /\ feed'[u].pc \in {"context", "read"}
  BY <1>1, <1>2, <1>3 DEF Turning
<1> QED BY <1>5, <1>6, <1>7 DEF ReaderOK
(* The calls of a reader, with nothing moving under them.                  *)
LEMMA FirstPage ==
    ASSUME TInv, NEW u \in Users, NEW n \in Feeds, NEW f \in Filters, GetFeed(u, n, f), Watch
    PROVE  ReaderOK(u)'
<1>1. feed'[u] = [NoFeed EXCEPT !.pc = "context", !.filter = FeedFilter(n, f)] /\ feed[u].pc = "idle"
  BY DEF GetFeed, TInv, FeedsOK
<1>2. /\ feed'[u].pc = "context" /\ feed'[u].seen = {} /\ feed'[u].again = {}
      /\ feed'[u].page = 1 /\ ~feed'[u].found /\ ~feed'[u].counted
  BY <1>1 DEF NoFeed
<1>3. watch'[u] = [NoWatch EXCEPT !.away = Posts \ Members(u)']
  BY <1>1, <1>2, WatchMoves
<1>4. watch'[u].away = Posts \ Members(u)'
  BY <1>3 DEF NoWatch
<1>5. Covered(u)' = 0
  BY <1>2, AudienceAssumption DEF Covered
<1>6. RestBehind(u)'
  <2> SUFFICES ASSUME NEW p \in Posts, p \notin watch'[u].away
               PROVE  p \in Members(u)' /\ Place(u, p)' > Covered(u)'
    BY <1>2 DEF RestBehind
  <2> QED BY <1>4, <1>5, PlaceType
<1>7. ShownInFront(u)'
  BY <1>2 DEF ShownInFront
<1> QED BY <1>2, <1>6, <1>7 DEF ReaderOK

LEMMA ContextRead ==
    ASSUME TInv, NEW u \in Users, ReaderOK(u), ReadContext(u), watch'[u] = watch[u]
    PROVE  ReaderOK(u)'
<1>1. feed[u] \in Reading /\ feed \in [Users -> Reading]
  BY DEF TInv, FeedsOK
<1>2. /\ feed[u].pc = "context" /\ feed'[u] = [feed[u] EXCEPT !.pc = "read", !.ctx = user[u]]
      /\ UNCHANGED <<user, post>>
  BY <1>1 DEF ReadContext
<1>3. /\ feed'[u].pc = "read" /\ feed'[u].ctx = user'[u] /\ feed'[u].filter = feed[u].filter
      /\ feed'[u].seen = feed[u].seen /\ feed'[u].again = feed[u].again
      /\ feed'[u].found = feed[u].found /\ feed'[u].counted = feed[u].counted
      /\ feed'[u].page = feed[u].page /\ feed'[u].total = feed[u].total
  BY <1>1, <1>2 DEF Reading
<1>4. Members(u)' = Members(u) /\ \A p : Place(u, p)' = Place(u, p)
  BY <1>2, <1>3, SamePlaces
<1>5. Covered(u)' = Covered(u)
  BY <1>3 DEF Covered
<1>6. ShownInFront(u) => ShownInFront(u)'
  BY <1>3, <1>4, <1>5 DEF ShownInFront
<1>7. RestBehind(u) => RestBehind(u)'
  BY <1>3, <1>4, <1>5 DEF RestBehind
<1> QED BY <1>2, <1>3, <1>6, <1>7 DEF ReaderOK, Turning

LEMMA PageFound ==
    ASSUME TInv, NEW u \in Users, ReaderOK(u), FindPosts(u), watch'[u] = Watched(u)
    PROVE  ReaderOK(u)'
<1>1. feed[u] \in Reading /\ feed \in [Users -> Reading]
  BY DEF TInv, FeedsOK
<1>2. feed[u].pc = "read" /\ ~feed[u].found /\ UNCHANGED <<user, post>>
  BY DEF FindPosts
<1>3. PICK o \in Orders(Listed(u), feed[u].filter) :
        feed' = [feed EXCEPT ![u].found = TRUE, ![u].seen = @ \cup Page(u, o),
                             ![u].again = @ \cup (feed[u].seen \cap Page(u, o))]
  BY DEF FindPosts
<1>4. /\ feed'[u].pc = "read" /\ feed'[u].ctx = feed[u].ctx /\ feed'[u].filter = feed[u].filter
      /\ feed'[u].seen = feed[u].seen \cup Page(u, o)
      /\ feed'[u].again = feed[u].again \cup (feed[u].seen \cap Page(u, o))
      /\ feed'[u].found = TRUE /\ feed'[u].counted = feed[u].counted
      /\ feed'[u].page = feed[u].page /\ feed'[u].total = feed[u].total
  BY <1>1, <1>2, <1>3 DEF Reading
<1>5. Members(u)' = Members(u) /\ \A p : Place(u, p)' = Place(u, p)
  BY <1>2, <1>4, SamePlaces
<1>6. /\ watch[u].away \subseteq watch'[u].away /\ watch[u].forth \subseteq watch'[u].forth
      /\ watch[u].back \subseteq watch'[u].back /\ watch[u].between \subseteq watch'[u].between
      /\ watch'[u].tied = watch[u].tied \cup Tied(u) /\ (watch'[u].turned <=> watch[u].turned)
  <2>1. Finds(u)
    BY <1>2, <1>4 DEF Finds
  <2>2. user'[u] = user[u]
    BY <1>2
  <2>3. watch'[u].turned = (watch[u].turned \/ user'[u] # user[u])
    BY WatchedMoves
  <2>4. watch'[u].turned <=> watch[u].turned
    BY <2>2, <2>3
  <2> QED BY <2>1, <2>4, WatchedMoves
<1> SUFFICES ASSUME ~watch[u].turned PROVE ReaderOK(u)'
  BY <1>4, <1>6 DEF ReaderOK, Turning
<1>7. /\ Covered(u)' = feed[u].page * Limit /\ Covered(u) = (feed[u].page - 1) * Limit
      /\ Covered(u)' \in Int /\ Covered(u) \in Int /\ Covered(u) <= Covered(u)'
      /\ feed[u].total \in Int
  <2>1. feed[u].page \in Int /\ Limit \in Nat /\ feed[u].total \in Int
    BY <1>1, PostSets, AudienceAssumption DEF Reading
  <2>2. /\ Covered(u)' = feed[u].page * Limit /\ Covered(u) = (feed[u].page - 1) * Limit
    BY <1>2, <1>4 DEF Covered
  <2> QED BY <2>1, <2>2
<1>8. /\ ShownInFront(u) /\ RestBehind(u) /\ feed[u].ctx = user[u]
      /\ feed[u].again \subseteq watch[u].back \cup watch[u].away \cup watch[u].tied
  BY <1>2 DEF ReaderOK, Turning
<1>9. /\ \A p \in Page(u, o) :
           /\ p \in Members(u) /\ Place(u, p) <= Covered(u)'
           /\ p \notin Tied(u) => Place(u, p) > Covered(u)
      /\ \A p \in Members(u) \ (Page(u, o) \cup Tied(u)) :
           Place(u, p) > Covered(u) => Place(u, p) > Covered(u)'
  BY <1>7, <1>8, PagePlaces
<1>10. ShownInFront(u)'
  <2> SUFFICES ASSUME NEW p \in (feed[u].seen \cup Page(u, o)) \ (watch'[u].back \cup watch'[u].away)
               PROVE  p \in Members(u) /\ Place(u, p) <= Covered(u)'
    BY <1>4, <1>5 DEF ShownInFront
  <2> QED BY <1>6, <1>7, <1>8, <1>9, PlaceType DEF ShownInFront
<1>11. RestBehind(u)'
  <2> SUFFICES ASSUME NEW p \in Posts \ (feed[u].seen \cup Page(u, o) \cup watch'[u].away
                                          \cup watch'[u].forth \cup watch'[u].between
                                          \cup watch'[u].tied)
               PROVE  /\ p \in Members(u) /\ Place(u, p) > Covered(u)'
                      /\ feed[u].counted => feed[u].total > Covered(u)'
    BY <1>4, <1>5 DEF RestBehind
  <2>1. /\ p \in Members(u) /\ Place(u, p) > Covered(u)
        /\ feed[u].counted => feed[u].total >= Place(u, p)
    BY <1>2, <1>6, <1>8 DEF RestBehind
  <2> QED BY <1>6, <1>7, <1>9, <2>1, PlaceType
<1>12. feed'[u].again \subseteq watch'[u].back \cup watch'[u].away \cup watch'[u].tied
  <2> SUFFICES ASSUME NEW p \in feed[u].seen \cap Page(u, o)
               PROVE  p \in watch[u].back \cup watch[u].away \cup Tied(u)
    BY <1>4, <1>6, <1>8
  <2> SUFFICES ASSUME p \notin watch[u].back \cup watch[u].away, p \notin Tied(u) PROVE FALSE
    OBVIOUS
  <2>1. Place(u, p) <= Covered(u) /\ Place(u, p) > Covered(u)
    BY <1>8, <1>9 DEF ShownInFront
  <2> QED BY <1>7, <2>1, PlaceType
<1> QED BY <1>2, <1>4, <1>8, <1>10, <1>11, <1>12 DEF ReaderOK

LEMMA PostsCounted ==
    ASSUME TInv, NEW u \in Users, ReaderOK(u), CountPosts(u), watch'[u] = watch[u]
    PROVE  ReaderOK(u)'
<1>1. feed[u] \in Reading /\ feed \in [Users -> Reading]
  BY DEF TInv, FeedsOK
<1>2. /\ feed[u].pc = "read" /\ UNCHANGED <<user, post>>
      /\ feed'[u] = [feed[u] EXCEPT !.counted = TRUE, !.total = Cardinality(Listed(u))]
  BY <1>1 DEF CountPosts
<1>3. /\ feed'[u].pc = "read" /\ feed'[u].ctx = feed[u].ctx /\ feed'[u].filter = feed[u].filter
      /\ feed'[u].seen = feed[u].seen /\ feed'[u].again = feed[u].again
      /\ feed'[u].found = feed[u].found /\ feed'[u].counted = TRUE
      /\ feed'[u].page = feed[u].page /\ feed'[u].total = Cardinality(Listed(u))
  BY <1>1, <1>2 DEF Reading
<1> SUFFICES ASSUME ~watch[u].turned PROVE ReaderOK(u)'
  BY <1>3 DEF ReaderOK, Turning
<1>4. Members(u)' = Members(u) /\ \A p : Place(u, p)' = Place(u, p)
  BY <1>2, <1>3, SamePlaces
<1>5. Covered(u)' = Covered(u) /\ Covered(u) \in Int
  BY <1>1, <1>3, PostSets, AudienceAssumption DEF Covered, Reading
<1>6. /\ ShownInFront(u) /\ RestBehind(u) /\ feed[u].ctx = user[u]
      /\ feed[u].again \subseteq watch[u].back \cup watch[u].away \cup watch[u].tied
  BY <1>2 DEF ReaderOK, Turning
<1>7. feed'[u].total = Cardinality(Members(u)) /\ Cardinality(Members(u)) \in Int
  <2>1. Listed(u) = Members(u)
    BY <1>6 DEF Listed, Members
  <2>2. Members(u) \in SUBSET Posts
    BY PlaceType
  <2> QED BY <1>3, <2>1, <2>2, PostSets
<1>8. ShownInFront(u)'
  BY <1>3, <1>4, <1>5, <1>6 DEF ShownInFront
<1>9. RestBehind(u)'
  <2> SUFFICES ASSUME NEW p \in Posts \ (feed[u].seen \cup watch[u].away
                                          \cup watch[u].forth \cup watch[u].between
                                          \cup watch[u].tied)
               PROVE  /\ p \in Members(u) /\ Place(u, p) > Covered(u)
                      /\ feed'[u].total > Covered(u) /\ feed'[u].total >= Place(u, p)
    BY <1>3, <1>4, <1>5 DEF RestBehind
  <2>1. p \in Members(u) /\ Place(u, p) > Covered(u)
    BY <1>6 DEF RestBehind
  <2>2. Place(u, p) <= Cardinality(Members(u))
    BY <2>1, PlaceCounted
  <2> QED BY <1>5, <1>7, <2>1, <2>2, PlaceType
<1> QED BY <1>2, <1>3, <1>6, <1>8, <1>9 DEF ReaderOK

(* The last page is the last: whatever was not shown would be on another.  *)
LEMMA PageTurned ==
    ASSUME TInv, NEW u \in Users, ReaderOK(u), TurnPage(u), watch'[u] = watch[u]
    PROVE  ReaderOK(u)'
<1>1. feed[u] \in Reading /\ feed \in [Users -> Reading]
  BY DEF TInv, FeedsOK
<1>2. feed[u].pc = "read" /\ feed[u].found /\ feed[u].counted /\ UNCHANGED <<user, post>>
  BY DEF TurnPage
<1>3. /\ feed[u].page \in Nat /\ feed[u].total \in Nat /\ Limit \in Nat
      /\ Covered(u) = feed[u].page * Limit
      /\ feed[u].total > Covered(u) => feed[u].page < TotalPages(feed[u].total)
  BY <1>1, <1>2, PostSets, Pages, AudienceAssumption DEF Reading, Covered
<1>4. ~watch[u].turned =>
        /\ ShownInFront(u) /\ RestBehind(u)
        /\ feed[u].again \subseteq watch[u].back \cup watch[u].away \cup watch[u].tied
  BY <1>2 DEF ReaderOK, Turning
<1>5. CASE feed[u].page < TotalPages(feed[u].total)
  <2>1. feed'[u] = [feed[u] EXCEPT !.pc = "context", !.page = feed[u].page + 1, !.ctx = None,
                                   !.found = FALSE, !.counted = FALSE, !.total = 0]
    BY <1>1, <1>5 DEF TurnPage
  <2>2. /\ feed'[u].pc = "context" /\ feed'[u].filter = feed[u].filter
        /\ feed'[u].seen = feed[u].seen /\ feed'[u].again = feed[u].again
        /\ ~feed'[u].found /\ ~feed'[u].counted /\ feed'[u].page = feed[u].page + 1
    BY <1>1, <2>1 DEF Reading
  <2>3. Members(u)' = Members(u) /\ \A p : Place(u, p)' = Place(u, p)
    BY <1>2, <2>2, SamePlaces
  <2>4. Covered(u)' = Covered(u)
    BY <1>3, <2>2 DEF Covered
  <2>5. ShownInFront(u) => ShownInFront(u)'
    BY <2>2, <2>3, <2>4 DEF ShownInFront
  <2>6. RestBehind(u) => RestBehind(u)'
    BY <2>2, <2>3, <2>4 DEF RestBehind
  <2> QED BY <1>4, <2>2, <2>5, <2>6 DEF ReaderOK, Turning
<1>6. CASE ~(feed[u].page < TotalPages(feed[u].total))
  <2>1. feed'[u] = [feed[u] EXCEPT !.pc = "done", !.ctx = None]
    BY <1>1, <1>6 DEF TurnPage
  <2>2. feed'[u].pc = "done" /\ feed'[u].seen = feed[u].seen /\ feed'[u].again = feed[u].again
    BY <1>1, <2>1 DEF Reading
  <2>3. ASSUME ~watch[u].turned, NEW p \in Posts \ (feed[u].seen \cup watch[u].away)
        PROVE  p \in watch[u].forth \cup watch[u].between \cup watch[u].tied
    BY <1>2, <1>3, <1>4, <1>6, <2>3 DEF RestBehind
  <2> QED BY <1>4, <2>2, <2>3 DEF ReaderOK, Turning
<1> QED BY <1>5, <1>6

LEMMA ReadersKept ==
    ASSUME PInv, Next, TInv', NEW u \in Users
    PROVE  ReaderOK(u)'
<1>1. TInv /\ ReaderOK(u) /\ Step /\ Watch /\ feed[u] \in Reading
  BY DEF PInv, Next, TInv, FeedsOK
<1>2. CASE feed'[u] = feed[u]
  <2>0. ~Finds(u)
    BY <1>2 DEF Finds
  <2>1. CASE feed[u].pc = "idle"
    <3>1. watch'[u] = NoWatch
      BY <1>1, <1>2, <2>1, WatchMoves
    <3> QED BY <1>1, <1>2, <2>1, <3>1 DEF ReaderOK, Turning
  <2>2. CASE feed[u].pc = "done"
    <3>1. watch'[u] = watch[u]
      BY <1>1, <2>2, WatchMoves
    <3> QED BY <1>1, <1>2, <2>2, <3>1 DEF ReaderOK, Turning
  <2>3. CASE feed[u].pc \in {"context", "read"} /\ UNCHANGED <<user, post>>
    <3>1. watch'[u] = watch[u]
      BY <1>1, <2>0, <2>3, WatchMoves
    <3>2. Members(u)' = Members(u) /\ \A p : Place(u, p)' = Place(u, p)
      BY <1>2, <2>3, SamePlaces
    <3>3. Covered(u)' = Covered(u)
      BY <1>2 DEF Covered
    <3>4. ShownInFront(u) => ShownInFront(u)'
      BY <1>2, <3>1, <3>2, <3>3 DEF ShownInFront
    <3>5. RestBehind(u) => RestBehind(u)'
      BY <1>2, <3>1, <3>2, <3>3 DEF RestBehind
    <3> QED BY <1>1, <1>2, <2>3, <3>1, <3>4, <3>5 DEF ReaderOK, Turning
  <2>4. CASE feed[u].pc \in {"context", "read"} /\ ~UNCHANGED <<user, post>>
    <3>1. watch'[u] = Watched(u)
      BY <1>1, <2>4, WatchMoves
    <3>2. CASE Turning(u)'
      BY <1>1, <1>2, <3>1, <3>2, MovesKeepPlaces
    <3>3. CASE ~Turning(u)'
      BY <1>2, <2>4, <3>3 DEF Turning, ReaderOK
    <3> QED BY <3>2, <3>3
  <2> QED BY <1>1, <2>1, <2>2, <2>3, <2>4 DEF Reading
<1>3. ASSUME NEW n \in Feeds, NEW f \in Filters, GetFeed(u, n, f) PROVE ReaderOK(u)'
  BY <1>1, <1>3, FirstPage
<1>4. ASSUME UNCHANGED <<user, post>>,
             ReadContext(u) \/ FindPosts(u) \/ CountPosts(u) \/ TurnPage(u)
      PROVE  ReaderOK(u)'
  <2>1. feed[u].pc # "idle"
    BY <1>4 DEF ReadContext, FindPosts, CountPosts, TurnPage
  <2>2. CASE FindPosts(u)
    <3>1. Finds(u) /\ feed[u].pc = "read"
      BY <1>1, <2>2 DEF FindPosts, Finds, TInv, FeedsOK
    <3>2. watch'[u] = Watched(u)
      BY <1>1, <3>1, WatchMoves
    <3> QED BY <1>1, <2>2, <3>2, PageFound
  <2>3. CASE ReadContext(u) \/ CountPosts(u) \/ TurnPage(u)
    <3>1. ~Finds(u)
      BY <1>1, <2>3 DEF ReadContext, CountPosts, TurnPage, Finds, Reading, TInv, FeedsOK
    <3>2. watch'[u] = watch[u]
      BY <1>1, <1>4, <2>1, <3>1, WatchMoves
    <3> QED BY <1>1, <2>3, <3>2, ContextRead, PostsCounted, PageTurned
  <2> QED BY <1>4, <2>2, <2>3
<1> QED BY <1>1, <1>2, <1>3, <1>4, FeedMoves

(* A reader whose own profile stays and who turns all pages of a feed sees *)
(* every post of the result set once, apart from the posts that moved      *)
(* meanwhile in the way named by the two parts of the property and those   *)
(* that the edge of a page divides from posts of the same key and creation *)
(* time, which buildOrderBy leaves in no order.                            *)
THEOREM PagesAreRead == Spec => []PagesShowEachOnce
<1>1. Init => PInv
  <2> SUFFICES ASSUME Init PROVE PInv
    OBVIOUS
  <2>1. \A u \in Users : feed[u] = NoFeed
    BY DEF Init
  <2> QED BY <2>1, InitTypes DEF PInv, ReaderOK, Turning, NoFeed
<1>2. PInv /\ [Next]_vars => PInv'
  <2>1. ASSUME PInv, UNCHANGED vars PROVE PInv'
    <3>1. TInv'
      BY <2>1, StutterTypes DEF PInv
    <3>2. UNCHANGED <<user, post, feed, watch>>
      BY <2>1 DEF vars
    <3>3. ASSUME NEW u \in Users PROVE ReaderOK(u)'
      <4>1. Members(u)' = Members(u) /\ \A p : Place(u, p)' = Place(u, p)
        BY <3>2, SamePlaces
      <4> QED BY <2>1, <3>2, <4>1 DEF PInv, ReaderOK, Turning, ShownInFront, RestBehind, Covered
    <3> QED BY <3>1, <3>3 DEF PInv
  <2>2. ASSUME PInv, Next PROVE PInv'
    <3>1. TInv'
      BY <2>2, TypesKept DEF PInv
    <3> QED BY <2>2, <3>1, ReadersKept DEF PInv
  <2> QED BY <2>1, <2>2
<1>3. PInv => PagesShowEachOnce
  BY DEF PInv, ReaderOK, PagesShowEachOnce, MissedOnlyIfMoved, RepeatedOnlyIfMovedBack
<1> QED BY <1>1, <1>2, <1>3, PTL DEF Spec
=============================================================================
