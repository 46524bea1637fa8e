---------------------------- MODULE PostAudience ----------------------------
(***************************************************************************)
(* Who gets to see a post: the visibility filter of the feeds, the pages a   *)
(* reader turns while posts come and go, the request that opens one post, and *)
(* the users whom the notification service tells of a new post.              *)
(*                                                                         *)
(* Every database call is an action.  The pc of a request, of a feed, of an   *)
(* opened link and of a notice names the call it makes next:                 *)
(*                                                                         *)
(*   request   write                    create, update and delete of a post  *)
(*   feed      context -> find and count, in either order -> turn            *)
(*   link      context -> find                                              *)
(*   notice    targets                                                      *)
(*                                                                         *)
(* A client that reads a feed asks for page after page while the last answer  *)
(* had more of them.  The attachments of posts are in PostFiles, and the way  *)
(* of a notice to the devices is in NotificationPipeline.                    *)
(***************************************************************************)
EXTENDS Integers, FiniteSets, Functions

CONSTANTS
    Users, Posts,
    Departments,
    Profiles,       \* the role, department, year and activity a user may have
    Contents,       \* what a post may be created with or, None for no change, updated with
    Feeds,          \* the feeds of the controller there are
    Filters,        \* the filters a client may send
    Times,          \* what the clock may show: of its milliseconds the order counts
    Limit,          \* the posts of a page
    Requests,       \* the requests under way at once
    MaxWrites,      \* bound on the requests and the changes of users and departments
    MaxVisits,      \* bound on the feeds read and the links opened
    None

Roles == {"STUDENT", "TA", "PROFESSOR", "ADMIN"}
Scopes == {"GLOBAL", "DEPARTMENT", "YEAR"}
Priorities == {"LOW", "MEDIUM", "HIGH", "URGENT"}
PostTypes == {"ANNOUNCEMENT", "EVENT"}
Years == 1 .. 4

Profile == [role: Roles, dept: Departments \cup {None}, year: Years \cup {None},
            active: BOOLEAN]
Content == [scope: Scopes \cup {None}, dept: Departments \cup {None}, year: Years \cup {None},
            prio: Priorities \cup {None}, type: PostTypes \cup {None}, published: Nat \cup {None},
            pinned: BOOLEAN \cup {None}, text: BOOLEAN \cup {None}]
Filter == [scope: Scopes \cup {None}, dept: Departments \cup {None}, year: Years \cup {None},
           prio: Priorities \cup {None}, type: PostTypes \cup {None},
           pinned: BOOLEAN \cup {None}, author: Users \cup {None}, search: BOOLEAN,
           sortBy: {"createdAt", "publishedAt", "priority"}, desc: BOOLEAN]

ASSUME AudienceAssumption ==
    /\ Profiles \subseteq Profile /\ Contents \subseteq Content /\ Filters \subseteq Filter
    /\ Limit \in Nat \ {0} /\ MaxWrites \in Nat /\ MaxVisits \in Nat
    /\ IsFiniteSet(Posts) /\ Posts # {} /\ Times \subseteq Nat
    /\ None \notin Users \cup Posts \cup Departments \cup Nat \cup BOOLEAN

VARIABLES
    user,       \* the profiles of the users
    dept,       \* the departments there are
    post,       \* the rows of the posts, None before and after
    req,        \* the requests under way
    feed,       \* the feed each user reads
    link,       \* the post each user opens
    notice,     \* the handler of post.created, for each post
    writes, visits,
    (* What the properties compare the state with: *)
    watch,      \* how the result set of a feed moved since its first page, and its ties
    steady      \* the users told of a post for whom nothing has changed since

requests == <<req, writes>>
readers == <<feed, link, visits>>
vars == <<user, dept, post, req, feed, link, notice, writes, visits, watch,
          steady>>

NoRequest == [pc |-> "idle", op |-> None, post |-> None, user |-> None, content |-> None,
              before |-> {}]
NoFeed == [pc |-> "idle", filter |-> None, page |-> 1, ctx |-> None, found |-> FALSE,
           counted |-> FALSE, total |-> 0, seen |-> {}, again |-> {}]
NoLink == [pc |-> "idle", post |-> None, ctx |-> None, sure |-> FALSE, found |-> FALSE]
NoNotice == [pc |-> "none", event |-> None, told |-> {}]
NoWatch == [away |-> {}, forth |-> {}, back |-> {}, between |-> {}, tied |-> {},
            turned |-> FALSE]

Init ==
    /\ user \in [Users -> Profiles]
    /\ dept = Departments
    /\ post = [p \in Posts |-> None]
    /\ req = [r \in Requests |-> NoRequest]
    /\ feed = [u \in Users |-> NoFeed]
    /\ link = [u \in Users |-> NoLink]
    /\ notice = [p \in Posts |-> NoNotice]
    /\ writes = 0 /\ visits = 0
    /\ watch = [u \in Users |-> NoWatch]
    /\ steady = [p \in Posts |-> {}]

Rows == {p \in Posts : post[p] # None}
Created == {p \in Posts : notice[p].pc # "none"}

-----------------------------------------------------------------------------
(* Which posts a user sees, and in which order.  c is the profile that the    *)
(* request has read, u the user's id, which does not change.                 *)

(* A mutant: the year's posts need a department too. *)
VisibleInDepartment(u, c, p) ==
    \/ c.role = "ADMIN"
    \/ post[p].scope = "GLOBAL"
    \/ c.dept # None /\ post[p].scope = "DEPARTMENT" /\ post[p].dept = c.dept
    \/ c.dept # None /\ post[p].scope = "YEAR" /\ post[p].year = c.year
    \/ c.role \in {"TA", "PROFESSOR"} /\ post[p].author = u

(* buildVisibilityFilter *)
Visible(u, c, p) ==
    \/ c.role = "ADMIN"
    \/ post[p].scope = "GLOBAL"
    \/ c.dept # None /\ post[p].scope = "DEPARTMENT" /\ post[p].dept = c.dept
    \/ c.year # None /\ post[p].scope = "YEAR" /\ post[p].year = c.year
    \/ c.role \in {"TA", "PROFESSOR"} /\ post[p].author = u

SearchConditions(f, p) == f.search => post[p].text

(* buildUserFilters *)
Matches(f, p) ==
    /\ f.scope # None => post[p].scope = f.scope
    /\ f.dept # None => post[p].dept = f.dept
    /\ f.year # None => post[p].year = f.year
    /\ f.prio # None => post[p].prio = f.prio
    /\ f.type # None => post[p].type = f.type
    /\ f.pinned # None => post[p].pinned = f.pinned
    /\ f.author # None => post[p].author = f.author
    /\ SearchConditions(f, p)

(* The order of the enumeration in the database. *)
PriorityRank(prio) == CASE prio = "LOW" -> 0 [] prio = "MEDIUM" -> 1
                        [] prio = "HIGH" -> 2 [] OTHER -> 3

Key(f, p) == CASE f.sortBy = "createdAt" -> post[p].created
               [] f.sortBy = "publishedAt" -> post[p].published
               [] OTHER -> PriorityRank(post[p].prio)

(* buildOrderBy: what is equal comes with the newest first.  Posts of the same key and
   creation time are in no order. *)
Precedes(f, p, q) ==
    \/ IF f.desc THEN Key(f, p) > Key(f, q) ELSE Key(f, p) < Key(f, q)
    \/ Key(f, p) = Key(f, q) /\ post[p].created > post[q].created

Result(u, c, f) == {p \in Rows : Visible(u, c, p) /\ Matches(f, p)}

(* The orders the database may answer in, and the places they give a post: all those from
   the first to the last. *)
Orders(S, f) == {o \in Bijection(S, 1 .. Cardinality(S)) :
                   \A p, q \in S : Precedes(f, p, q) => o[p] < o[q]}
RankIn(S, f, p) == Cardinality({q \in S : Precedes(f, q, p)}) + 1
LastIn(S, f, p) == Cardinality(S) - Cardinality({q \in S : Precedes(f, p, q)})

(* The result set of the feed a user reads as it is now, with the first place of each
   post. *)
Standing(u) ==
    LET S == Result(u, user[u], feed[u].filter) IN
      [p \in S |-> RankIn(S, feed[u].filter, p)]

(* The feeds of the controller are filters that override some of the client's. *)
FeedFilter(name, f) ==
    CASE name = "my-department" -> [f EXCEPT !.scope = "DEPARTMENT"]
      [] name = "my-year" -> [f EXCEPT !.scope = "YEAR"]
      [] name = "announcements" -> [f EXCEPT !.type = "ANNOUNCEMENT", !.sortBy = "publishedAt",
                                             !.desc = TRUE]
      [] name = "assignments" -> [f EXCEPT !.type = "EVENT", !.sortBy = "publishedAt",
                                           !.desc = TRUE]
      [] name = "global" -> [f EXCEPT !.scope = "GLOBAL", !.sortBy = "publishedAt",
                                      !.desc = TRUE]
      [] name = "urgent" -> [f EXCEPT !.prio = "HIGH", !.sortBy = "publishedAt", !.desc = TRUE]
      [] OTHER -> f

-----------------------------------------------------------------------------
(* The posts service: create, update and delete. *)

Begin(r, op, u, p, c) ==
    /\ req[r].pc = "idle" /\ writes < MaxWrites /\ writes' = writes + 1
    /\ req' = [req EXCEPT ![r] = [pc |-> "write", op |-> op, post |-> p, user |-> u,
                                  content |-> c,
                                  before |-> IF op = "create" THEN Rows ELSE {}]]
    /\ UNCHANGED <<user, dept, post, readers, notice, steady>>

(* validateUserCanAccessDepartment *)
CanAccessDepartment(u, d) == user[u].role = "ADMIN" \/ user[u].dept = d

(* PostCreationGuard, then the check of the department when the post has one. *)
CreatePost(r, u, p, c) ==
    /\ p \notin Created /\ \A x \in Requests : req[x].post # p
    /\ c.scope # None /\ c.prio # None /\ c.type # None /\ c.text # None
    /\ user[u].role \in {"TA", "PROFESSOR", "ADMIN"}
    /\ c.dept # None => CanAccessDepartment(u, c.dept)
    /\ Begin(r, "create", u, p, c)

(* PostAuthorGuard and validateUserCanEditPost *)
CanEdit(u, p) == p \in Rows /\ (user[u].role = "ADMIN" \/ post[p].author = u)

(* validateCreatePostDto looks at the update, not at the post it makes. *)
ValidUpdate(c) ==
    /\ c.scope = "DEPARTMENT" => c.dept \in dept
    /\ c.scope = "YEAR" => c.year # None

(* The write of togglePin is such an update, of the pin alone by an admin. *)
UpdatePost(r, u, p, c) == CanEdit(u, p) /\ ValidUpdate(c) /\ Begin(r, "update", u, p, c)
DeletePost(r, u, p) == CanEdit(u, p) /\ Begin(r, "delete", u, p, None)

Done(r) == req' = [req EXCEPT ![r] = NoRequest]
Given(new, old) == IF new = None THEN old ELSE new
NoForeignKey(c) == c.dept \notin dept \cup {None}

Event(q) == [scope |-> q.scope, dept |-> q.dept, year |-> q.year]

(* The new row, and post.created with what it holds of the audience; the event has
   neither the priority nor the title.  The clock is read after the request began, for
   publishedAt and then for createdAt: two posts may have the same time, and of two that
   are created side by side the later row may have the earlier one. *)
InsertPost(r) ==
    /\ req[r].pc = "write" /\ req[r].op = "create" /\ Done(r)
    /\ LET p == req[r].post  c == req[r].content IN
         \/ /\ ~NoForeignKey(c)
            /\ \E now, at \in Times :
                 /\ now <= at /\ \A q \in req[r].before \cap Rows : post[q].created <= now
                 /\ post' = [post EXCEPT ![p] =
                      [author |-> req[r].user, scope |-> c.scope, dept |-> c.dept,
                       year |-> c.year, prio |-> c.prio, type |-> c.type, pinned |-> FALSE,
                       text |-> c.text, created |-> at,
                       published |-> Given(c.published, now)]]
            /\ notice' = [notice EXCEPT ![p].pc = "targets", ![p].event = Event(c)]
         \/ NoForeignKey(c) /\ UNCHANGED <<post, notice>>
    /\ UNCHANGED <<user, dept, readers, writes, steady>>

(* post.update throws when the post is gone, or the department. *)
WritePost(r) ==
    /\ req[r].pc = "write" /\ req[r].op = "update" /\ Done(r)
    /\ LET p == req[r].post  c == req[r].content IN
         \/ /\ p \in Rows /\ ~NoForeignKey(c)
            /\ post' = [post EXCEPT ![p] =
                 [post[p] EXCEPT !.scope = Given(c.scope, @), !.dept = Given(c.dept, @),
                                 !.year = Given(c.year, @), !.prio = Given(c.prio, @),
                                 !.type = Given(c.type, @),
                                 !.published = Given(c.published, @),
                                 !.pinned = Given(c.pinned, @), !.text = Given(c.text, @)]]
            /\ steady' = [steady EXCEPT ![p] = {}]
         \/ (p \notin Rows \/ NoForeignKey(c)) /\ UNCHANGED <<post, steady>>
    /\ UNCHANGED <<user, dept, readers, notice, writes>>

ErasePost(r) ==
    /\ req[r].pc = "write" /\ req[r].op = "delete" /\ Done(r)
    /\ post' = [post EXCEPT ![req[r].post] = None]
    /\ steady' = [steady EXCEPT ![req[r].post] = {}]
    /\ UNCHANGED <<user, dept, readers, notice, writes>>

-----------------------------------------------------------------------------
(* What changes under the readers: the users service and the departments service. *)

(* The admin's update of a user, and the department transition. *)
UpdateUser(u, c) ==
    /\ writes < MaxWrites /\ writes' = writes + 1
    /\ c # user[u] /\ c.dept \in dept \cup {None}
    /\ user' = [user EXCEPT ![u] = c]
    /\ steady' = [p \in Posts |-> steady[p] \ {u}]
    /\ UNCHANGED <<dept, post, req, readers, notice>>

(* The foreign keys of users and posts are set to NULL. *)
RemoveDepartment(d) ==
    /\ d \in dept /\ dept' = dept \ {d}
    /\ writes < MaxWrites /\ writes' = writes + 1
    /\ user' = [u \in Users |-> IF user[u].dept = d THEN [user[u] EXCEPT !.dept = None]
                                ELSE user[u]]
    /\ post' = [p \in Posts |-> IF p \in Rows /\ post[p].dept = d
                                THEN [post[p] EXCEPT !.dept = None] ELSE post[p]]
    /\ steady' = [p \in Posts |-> IF p \in Rows /\ post[p].dept = d THEN {}
                                  ELSE {u \in steady[p] : user[u].dept # d}]
    /\ UNCHANGED <<req, readers, notice>>

-----------------------------------------------------------------------------
(* findAll and searchPosts, and a client that turns the pages. *)

GetFeed(u, name, f) ==
    /\ feed[u].pc = "idle" /\ (name = "search" => f.search)
    /\ visits < MaxVisits /\ visits' = visits + 1
    /\ feed' = [feed EXCEPT ![u] = [NoFeed EXCEPT !.pc = "context",
                                                  !.filter = FeedFilter(name, f)]]
    /\ UNCHANGED <<user, dept, post, requests, link, notice, steady>>

(* getUserVisibilityContext *)
ReadContext(u) ==
    /\ feed[u].pc = "context"
    /\ feed' = [feed EXCEPT ![u].pc = "read", ![u].ctx = user[u]]
    /\ UNCHANGED <<user, dept, post, requests, link, notice, visits, steady>>

Listed(u) == Result(u, feed[u].ctx, feed[u].filter)
OnPage(u, o, first) == {p \in Listed(u) : o[p] \in first + 1 .. first + Limit}

(* A mutant: skips a page too many. *)
PagePast(u, o) == OnPage(u, o, feed[u].page * Limit)

Page(u, o) == OnPage(u, o, (feed[u].page - 1) * Limit)

FindPosts(u) ==
    /\ feed[u].pc = "read" /\ ~feed[u].found
    /\ \E o \in Orders(Listed(u), feed[u].filter) :
         feed' = [feed EXCEPT ![u].found = TRUE, ![u].seen = @ \cup Page(u, o),
                              ![u].again = @ \cup (feed[u].seen \cap Page(u, o))]
    /\ UNCHANGED <<user, dept, post, requests, link, notice, visits, steady>>

CountPosts(u) ==
    /\ feed[u].pc = "read" /\ ~feed[u].counted
    /\ feed' = [feed EXCEPT ![u].counted = TRUE, ![u].total = Cardinality(Listed(u))]
    /\ UNCHANGED <<user, dept, post, requests, link, notice, visits, steady>>

TotalPages(total) == (total + Limit - 1) \div Limit

(* A mutant: the client goes on after the last page. *)
TurnPagePast(u) ==
    /\ feed[u].pc = "read" /\ feed[u].found /\ feed[u].counted
    /\ feed' = [feed EXCEPT ![u].pc = "context", ![u].page = @ + 1,
                            ![u].found = FALSE, ![u].counted = FALSE, ![u].ctx = None]
    /\ feed[u].page <= Cardinality(Posts)
    /\ UNCHANGED <<user, dept, post, requests, link, notice, visits, steady>>

(* The answer, and the client's next request while there are more pages. *)
TurnPage(u) ==
    /\ feed[u].pc = "read" /\ feed[u].found /\ feed[u].counted
    /\ feed' = [feed EXCEPT ![u] =
         IF @.page < TotalPages(@.total)
         THEN [@ EXCEPT !.pc = "context", !.page = feed[u].page + 1, !.ctx = None,
                        !.found = FALSE, !.counted = FALSE, !.total = 0]
         ELSE [@ EXCEPT !.pc = "done", !.ctx = None]]
    /\ UNCHANGED <<user, dept, post, requests, link, notice, visits, steady>>

-----------------------------------------------------------------------------
(* findById: a user opens a post, be it one they were told of. *)

OpenPost(u, p) ==
    /\ link[u].pc = "idle" /\ p \in Created
    /\ visits < MaxVisits /\ visits' = visits + 1
    /\ link' = [link EXCEPT ![u] = [pc |-> "context", post |-> p, ctx |-> None,
                                    sure |-> u \in steady[p], found |-> FALSE]]
    /\ UNCHANGED <<user, dept, post, requests, feed, notice, steady>>

LinkContext(u) ==
    /\ link[u].pc = "context"
    /\ link' = [link EXCEPT ![u].pc = "find", ![u].ctx = user[u]]
    /\ UNCHANGED <<user, dept, post, requests, feed, notice, visits, steady>>

(* A mutant: the filter of one post asks for a department before it looks at the year. *)
FindPostInDepartment(u) ==
    /\ link[u].pc = "find"
    /\ LET p == link[u].post IN
         link' = [link EXCEPT ![u].pc = "done", ![u].ctx = None,
                              ![u].sure = @ /\ u \in steady[p],
                              ![u].found = p \in Rows /\ VisibleInDepartment(u, link[u].ctx, p)]
    /\ UNCHANGED <<user, dept, post, requests, feed, notice, visits, steady>>

FindPost(u) ==
    /\ link[u].pc = "find"
    /\ LET p == link[u].post IN
         link' = [link EXCEPT ![u].pc = "done", ![u].ctx = None,
                              ![u].sure = @ /\ u \in steady[p],
                              ![u].found = p \in Rows /\ Visible(u, link[u].ctx, p)]
    /\ UNCHANGED <<user, dept, post, requests, feed, notice, visits, steady>>

-----------------------------------------------------------------------------
(* handlePostCreated of the notifications of posts. *)

(* A mutant: the condition on the year is added whatever the scope. *)
TargetUsersOfYear(e) ==
    {u \in Users : user[u].active /\
        \/ e.scope = "GLOBAL"
        \/ e.scope = "DEPARTMENT" /\ e.dept # None /\ user[u].dept = e.dept
        \/ e.year # None /\ user[u].year = e.year}

(* getTargetUsers: without a condition the OR is empty and matches nobody. *)
TargetUsers(e) ==
    {u \in Users : user[u].active /\
        \/ e.scope = "GLOBAL"
        \/ e.scope = "DEPARTMENT" /\ e.dept # None /\ user[u].dept = e.dept
        \/ e.scope = "YEAR" /\ e.year # None /\ user[u].year = e.year}

(* The handler first reads the author, whom the row of the post keeps in the database.
   The bulk notification has a title, a text and a type, but not the id of the post. *)
ReadTargets(p) ==
    /\ notice[p].pc = "targets"
    /\ notice' = [notice EXCEPT ![p].pc = "done", ![p].told = TargetUsers(notice[p].event)]
    /\ steady' = [steady EXCEPT ![p] =
         IF p \in Rows /\ Event(post[p]) = notice[p].event THEN TargetUsers(notice[p].event)
         ELSE {}]
    /\ UNCHANGED <<user, dept, post, requests, readers>>

-----------------------------------------------------------------------------

Step ==
    \/ \E r \in Requests : InsertPost(r) \/ WritePost(r) \/ ErasePost(r)
    \/ \E r \in Requests, u \in Users, p \in Posts :
          \/ \E c \in Contents : CreatePost(r, u, p, c) \/ UpdatePost(r, u, p, c)
          \/ DeletePost(r, u, p)
    \/ \E u \in Users, c \in Profiles : UpdateUser(u, c)
    \/ \E d \in Departments : RemoveDepartment(d)
    \/ \E u \in Users, n \in Feeds, f \in Filters : GetFeed(u, n, f)
    \/ \E u \in Users : ReadContext(u) \/ FindPosts(u) \/ CountPosts(u) \/ TurnPage(u)
    \/ \E u \in Users, p \in Posts : OpenPost(u, p)
    \/ \E u \in Users : LinkContext(u) \/ FindPost(u)
    \/ \E p \in Posts : ReadTargets(p)

(* The posts of equal keys and times that an edge of the page divides. *)
Tied(u) == {p \in Listed(u) : \E edge \in {(feed[u].page - 1) * Limit, feed[u].page * Limit} :
                RankIn(Listed(u), feed[u].filter, p) <= edge
                /\ edge < LastIn(Listed(u), feed[u].filter, p)}

Finds(u) == ~feed[u].found /\ feed'[u].found

(* How a result set moved while a user read it: what was away, what went towards the
   front and towards the back, what went back after the count of a page and before its
   find, what the find of a page had to divide, and whether the reader's own profile
   changed. *)
Watched(u) ==
    LET s == Standing(u)  t == Standing(u)'
        fixed == DOMAIN s \cap DOMAIN t
        back == {p \in fixed : t[p] > s[p]} IN
      [away |-> watch[u].away \cup (Posts \ DOMAIN t),
       forth |-> watch[u].forth \cup {p \in fixed : t[p] < s[p]},
       back |-> watch[u].back \cup back,
       between |-> watch[u].between \cup
                   (IF feed[u].counted /\ ~feed[u].found THEN back ELSE {}),
       tied |-> watch[u].tied \cup (IF Finds(u) THEN Tied(u) ELSE {}),
       turned |-> watch[u].turned \/ user'[u] # user[u]]

Watch == watch' = [u \in Users |->
    CASE feed[u].pc = "idle" /\ feed'[u].pc = "idle" -> NoWatch
      [] feed[u].pc = "idle" /\ feed'[u].pc # "idle" ->
            [NoWatch EXCEPT !.away = Posts \ DOMAIN (Standing(u)')]
      [] feed[u].pc = "done"
         \/ (feed[u].pc # "idle" /\ UNCHANGED <<user, post>> /\ ~Finds(u)) -> watch[u]
      [] OTHER -> Watched(u)]

Next == Step /\ Watch
Spec == Init /\ [][Next]_vars

-----------------------------------------------------------------------------
(* Properties. *)

(* Every variable has its type, and a handler that works has the event it handles. *)
TypeOK ==
    /\ user \in [Users -> Profile] /\ dept \subseteq Departments
    /\ \A u \in Users : user[u].dept \in dept \cup {None}
    /\ \A p \in Rows : post[p].dept \in dept \cup {None} /\ post[p].author \in Users
                       /\ post[p].created \in Times /\ p \in Created
    /\ \A r \in Requests : req[r].pc \in {"idle", "write"}
    /\ \A u \in Users :
         /\ feed[u].pc \in {"idle", "context", "read", "done"}
         /\ feed[u].page \in 1 .. Cardinality(Posts)
         /\ feed[u].again \subseteq feed[u].seen /\ feed[u].seen \subseteq Created
         /\ link[u].pc \in {"idle", "context", "find", "done"}
    /\ \A p \in Posts : steady[p] \subseteq notice[p].told

(* A post that stayed in the result set is missed only when it moved towards the front,
   or moved back after the count of a page and before its find, or when a page ended
   between it and a post of the same key and creation time, which buildOrderBy leaves in
   no order.  findAll pages by offset and asks for the page and for the total at once.
   Of a reader whose own profile changed meanwhile this says nothing: each page is of the
   result set of another profile. *)
MissedOnlyIfMoved ==
    \A u \in Users : feed[u].pc = "done" /\ ~watch[u].turned =>
        \A p \in Posts \ (feed[u].seen \cup watch[u].away) :
            p \in watch[u].forth \cup watch[u].between \cup watch[u].tied

(* A post is on two pages only when it moved back, or left and came back, or when a page
   ended between it and a post of the same key and creation time; again for a reader
   whose own profile stays. *)
RepeatedOnlyIfMovedBack ==
    \A u \in Users : ~watch[u].turned =>
        feed[u].again \subseteq watch[u].back \cup watch[u].away \cup watch[u].tied

(* The reader who turns all pages and whose own profile stays sees every post once, apart
   from posts that moved and posts that a page's edge divides from their equals: the two
   properties above, of one run over the pages. *)
PagesShowEachOnce == MissedOnlyIfMoved /\ RepeatedOnlyIfMovedBack

(* The users told of a post are those who see it: the notification service finds by the
   event whom the visibility filter lets in, for everyone but the author and the admins,
   who see more, and the inactive, who are not told. *)
AudienceIsTold ==
    [][\A p \in Posts :
         (notice[p].pc = "targets" /\ notice'[p].pc = "done" /\ p \in Rows
            /\ Event(post[p]) = notice[p].event)
         => \A u \in Users : (user[u].role # "ADMIN" /\ u # post[p].author) =>
              (u \in notice'[p].told <=> user[u].active /\ Visible(u, user[u], p))]_vars

(* Opening the post they were told of works as long as neither the post nor the user has
   changed since. *)
ToldCanOpen ==
    \A u \in Users : link[u].pc = "done" /\ link[u].sure => link[u].found
=============================================================================
