---------------------------- MODULE AccountsProofs ----------------------------
(***************************************************************************)
(* Theorems about Accounts, for any users, departments, courses and number   *)
(* of requests: its types and foreign keys, that revoked sessions stay       *)
(* ended, that default passwords must be changed, and that transitions only  *)
(* leave General Education.                                                *)
(*                                                                         *)
(* As a request reads first and writes later, each needs to know what is     *)
(* still true of what a request under way has read.                         *)
(***************************************************************************)
EXTENDS Accounts, SequenceTheorems, TLAPS

UserRow == [row: BOOLEAN, active: BOOLEAN, must: BOOLEAN, verified: BOOLEAN, pass: Passwords,
            dept: Departments \cup {None}, year: Years \cup {None}]
SessionRow == [user: Users, live: BOOLEAN]
Move == [to: Departments, from: Codes \cup {None}, year: Years \cup {None}]
Teaching == [course: Courses, to: Departments, new: BOOLEAN]

(* What a request carries to its next step. *)
Shaped(q) ==
    /\ q.pc \in {"session", "own", "both", "write", "insert", "check", "move"} => q.user \in Users
    /\ q.pc = "write" => q.arg \in Update
    /\ q.pc = "insert" => q.arg \in Update /\ q.arg.pass = None
    /\ q.pc \in {"check", "move"} => q.op = "transition" /\ q.arg \in Move
    /\ q.op = "transition" => q.pc \in {"check", "move"}
    /\ q.pc = "course" => q.arg \in Teaching

Request == [pc: {"idle", "session", "own", "both", "write", "insert", "check", "move", "course"},
            op: Ops \cup {None},
            user: Users \cup {None}, arg: {None} \cup Update \cup Move \cup Teaching,
            left: SUBSET {"user", "sessions"}, due: SUBSET Nat, failed: BOOLEAN]

DataOK ==
    /\ user \in [Users -> UserRow] /\ session \in Seq(SessionRow)
    /\ dept \in [Departments -> Codes \cup {None}]
    /\ course \in [Courses -> Departments \cup {None}]

ReqOK ==
    /\ req \in [Requests -> Request] /\ \A r \in Requests : Shaped(req[r])
    /\ \A r \in Requests : req[r].pc \in {"session", "check", "move"} => req[r].user \in Rows

(* The foreign keys, and the codes that are unique. *)
KeysOK ==
    /\ \A u \in Users : user[u].dept # None => dept[user[u].dept] # None
    /\ \A c \in Courses : course[c] # None => dept[course[c]] # None
    /\ \A d, e \in Departments : d # e /\ dept[d] # None => dept[d] # dept[e]
    /\ \A n \in DOMAIN session : session[n].user \in Rows
    /\ token \subseteq Rows /\ raced \subseteq Requests

TInv == DataOK /\ ReqOK /\ KeysOK

(* The sessions an operation has to end are its user's, and it has ended them when that
   write succeeded. *)
DueOK ==
    /\ \A r \in Requests : At(r, "both") =>
         /\ \A n \in req[r].due : n \in DOMAIN session /\ session[n].user = req[r].user
         /\ "sessions" \notin req[r].left /\ ~req[r].failed => \A n \in req[r].due : ~session[n].live
    /\ \A n \in revoked : n \in DOMAIN session /\ ~session[n].live

SInv == TInv /\ DueOK

PInv == TInv /\ DefaultMustChange

(* A transition has read the department the student is still in. *)
ReadOK ==
    \A r \in Requests \ raced : req[r].op = "transition" =>
      /\ req[r].arg.from = CodeOf(user[req[r].user].dept)
      /\ At(r, "move") => req[r].arg.from = "GE"

GInv == TInv /\ ReadOK
-----------------------------------------------------------------------------
(* The steps *)

Becomes(r, q) == /\ q \in Request /\ Shaped(q) /\ req'[r] = q
                 /\ \A x \in Requests \ {r} : req'[x] = req[x]
                 /\ req' \in [Requests -> Request]

LEMMA Becoming ==
    ASSUME TInv, NEW r \in Requests, NEW q \in Request, Shaped(q), req' = [req EXCEPT ![r] = q]
    PROVE  Becomes(r, q)
BY DEF TInv, ReqOK, Becomes

LEMMA Finishing ==
    ASSUME TInv, NEW r \in Requests, Done(r)
    PROVE  Becomes(r, NoRequest)
<1>1. NoRequest \in Request /\ Shaped(NoRequest)
  BY AccountsAssumption DEF NoRequest, Request, Shaped, Ops
<1> QED BY <1>1, Becoming DEF Done

(* An operation begins and writes nothing yet. *)
Asked(r, q) ==
    /\ Becomes(r, q)
    /\ q.pc \in {"session", "check", "move"} => q.user \in Rows
    /\ q.op = "transition" => q.pc = "check" /\ q.arg.from = CodeOf(user[q.user].dept)
    /\ q.pc = "both" => /\ q.user \in Users /\ q.due = Live(q.user) /\ q.left = {"user", "sessions"}
    /\ UNCHANGED <<user, dept, course, session, token, history>>

Asking(r) == \E q : Asked(r, q)

LEMMA Begins ==
    ASSUME TInv, NEW r \in Requests, NEW u \in Users \cup {None},
           NEW op \in {"login", "change-password", "activate", "update", "create", "transition", "course"},
           NEW pc \in {"session", "own", "write", "insert", "check", "course"},
           NEW arg \in {None} \cup Update \cup Move \cup Teaching,
           Begin(r, op, u, arg, pc),
           pc # "course" => u \in Users,
           pc = "write" => arg \in Update,
           pc = "insert" => arg \in Update /\ arg.pass = None,
           pc = "check" => arg \in Move /\ arg.from = CodeOf(user[u].dept),
           pc = "check" <=> op = "transition",
           pc = "course" => arg \in Teaching,
           pc \in {"session", "check"} => u \in Rows,
           UNCHANGED <<user, dept, course, session, token, history>>
    PROVE  Asking(r)
<1> DEFINE q == [pc |-> pc, op |-> op, user |-> u, arg |-> arg, left |-> {}, due |-> {},
                 failed |-> FALSE]
<1>1. q \in Request /\ req' = [req EXCEPT ![r] = q]
  BY DEF Request, Begin, Ops
<1>2. q.pc = pc /\ q.op = op /\ q.user = u /\ q.arg = arg
  OBVIOUS
<1> HIDE DEF q
<1>3. Shaped(q)
  BY <1>2 DEF Shaped
<1>4. Becomes(r, q)
  BY <1>1, <1>3, Becoming
<1> QED BY <1>2, <1>4 DEF Asking, Asked

LEMMA BothBegins ==
    ASSUME TInv, NEW r \in Requests, NEW u \in Users, NEW op, TwoWrites(r, op, u)
    PROVE  Asking(r)
<1> DEFINE q == Both(op, u, {"user", "sessions"}, Live(u), FALSE)
<1>1. Live(u) \in SUBSET Nat
  BY DEF Live, TInv, DataOK
<1>2. /\ q \in Request /\ q.pc = "both" /\ q.user = u /\ q.op # "transition"
      /\ q.left = {"user", "sessions"} /\ q.due = Live(u)
  BY <1>1 DEF TwoWrites, Both, Request, Ops
<1>3. req' = [req EXCEPT ![r] = q]
  BY DEF TwoWrites
<1> HIDE DEF q
<1>4. Becomes(r, q)
  BY <1>2, <1>3, Becoming DEF Shaped
<1> QED BY <1>2, <1>4 DEF Asking, Asked, TwoWrites

(* The operations begin. *)
Arrives(r) ==
    \/ \E u \in Users :
         \/ Login(r, u) \/ ChangePassword(r, u) \/ ActivateUser(r, u)
         \/ \E op \in Asks : TwoWrites(r, op, u)
         \/ \E c \in Updates : UpdateUser(r, u, c) \/ CreateUser(r, u, c)
         \/ \E d \in Departments : Transition(r, u, d)
    \/ \E c \in Courses, d \in Departments : CreateCourse(r, c, d) \/ UpdateCourse(r, c, d)

LEMMA Arrived ==
    ASSUME TInv, NEW r \in Requests, Arrives(r)
    PROVE  Asking(r)
<1> USE AccountsAssumption
<1>1. ASSUME NEW u \in Users, Login(r, u)
      PROVE  Asking(r)
  BY <1>1, Begins DEF Login
<1>2. ASSUME NEW u \in Users, ChangePassword(r, u)
      PROVE  Asking(r)
  BY <1>2, Begins DEF ChangePassword
<1>3. ASSUME NEW u \in Users, ActivateUser(r, u)
      PROVE  Asking(r)
  <2>1. Activation \in Update
    BY DEF Activation, Update
  <2> QED BY <1>3, <2>1, Begins DEF ActivateUser
<1>4. ASSUME NEW u \in Users, NEW c \in Updates, UpdateUser(r, u, c) \/ CreateUser(r, u, c)
      PROVE  Asking(r)
  BY <1>4, Begins DEF UpdateUser, CreateUser
<1>5. ASSUME NEW u \in Users, NEW d \in Departments, Transition(r, u, d)
      PROVE  Asking(r)
  <2> DEFINE arg == [to |-> d, from |-> CodeOf(user[u].dept), year |-> user[u].year]
  <2>1. arg \in Move /\ arg.from = CodeOf(user[u].dept)
    BY DEF TInv, DataOK, UserRow, CodeOf, Move
  <2>2. Begin(r, "transition", u, arg, "check") /\ u \in Rows
        /\ UNCHANGED <<user, dept, course, session, token, history>>
    BY <1>5 DEF Transition
  <2> HIDE DEF arg
  <2> QED BY <2>1, <2>2, Begins
<1>6. ASSUME NEW c \in Courses, NEW d \in Departments, CreateCourse(r, c, d) \/ UpdateCourse(r, c, d)
      PROVE  Asking(r)
  <2>1. PICK new \in BOOLEAN : /\ Begin(r, "course", None, [course |-> c, to |-> d, new |-> new], "course")
                               /\ UNCHANGED <<user, dept, course, session, token, history>>
    BY <1>6 DEF CreateCourse, UpdateCourse
  <2>2. [course |-> c, to |-> d, new |-> new] \in Teaching
    BY DEF Teaching
  <2> QED BY <2>1, <2>2, Begins
<1> QED BY <1>1, <1>2, <1>3, <1>4, <1>5, <1>6, BothBegins DEF Arrives

(* What the writes make of a row. *)
LEMMA Passwording ==
    ASSUME NEW q \in UserRow, NEW pass \in Passwords, NEW must \in BOOLEAN
    PROVE  LET w == WithPassword(q, pass, must) IN
             /\ w \in UserRow /\ w.row = q.row /\ w.dept = q.dept
             /\ w.pass = pass /\ w.must = must
BY DEF WithPassword, UserRow

LEMMA Writing ==
    ASSUME NEW q \in UserRow, NEW op
    PROVE  LET w == AfterWrite(op, q) IN
             /\ w \in UserRow /\ w.row = q.row /\ w.dept = q.dept
             /\ w.pass = "default" => w.must \/ (op # "reset-password" /\ w.pass = q.pass /\ w.must = q.must)
<1>1. CASE op = "reset-password"
  <2>1. PICK b \in BOOLEAN : b /\ AfterWrite(op, q) = WithPassword(q, "default", b)
    BY <1>1, Zenon DEF AfterWrite
  <2> DEFINE w == WithPassword(q, "default", b)
  <2>2. w \in UserRow /\ w.row = q.row /\ w.dept = q.dept /\ w.must = b
    BY Passwording DEF Passwords
  <2> HIDE DEF w
  <2> QED BY <2>1, <2>2 DEF w
<1>2. CASE op # "reset-password"
  <2>1. PICK b \in BOOLEAN : AfterWrite(op, q) = [q EXCEPT !.active = b]
    BY <1>2 DEF AfterWrite
  <2> QED BY <1>2, <2>1 DEF UserRow
<1> QED BY <1>1, <1>2

LEMMA Updating ==
    ASSUME NEW q \in UserRow, NEW c \in Update
    PROVE  LET w == Updated(q, c) IN
             /\ w \in UserRow /\ w.row = q.row
             /\ w.dept = IF c.dept = None THEN q.dept ELSE c.dept
             /\ w.pass = IF c.pass = None THEN q.pass ELSE "own"
             /\ c.pass = None => w.must = Given(c.must, q.must)
<1>1. /\ Given(c.active, q.active) \in BOOLEAN /\ Given(c.must, q.must) \in BOOLEAN
      /\ Given(c.verified, q.verified) \in BOOLEAN
  BY Zenon DEF Given, Update, UserRow
<1>2. /\ Given(c.pass, q.pass) \in Passwords /\ Given(c.dept, q.dept) \in Departments \cup {None}
      /\ Given(c.year, q.year) \in Years \cup {None}
      /\ Given(c.dept, q.dept) = IF c.dept = None THEN q.dept ELSE c.dept
      /\ Given(c.pass, q.pass) = IF c.pass = None THEN q.pass ELSE "own"
  BY DEF Given, Update, UserRow, Passwords
<1> DEFINE must == IF c.pass # None THEN FALSE ELSE Given(c.must, q.must)
<1>3. must \in BOOLEAN /\ (c.pass = None => must = Given(c.must, q.must))
  BY <1>1, Zenon
<1>4. Updated(q, c) = [row |-> q.row, active |-> Given(c.active, q.active), must |-> must,
                       verified |-> Given(c.verified, q.verified), pass |-> Given(c.pass, q.pass),
                       dept |-> Given(c.dept, q.dept), year |-> Given(c.year, q.year)]
  BY DEF Updated
<1> HIDE DEF must
<1>5. q.row \in BOOLEAN
  BY DEF UserRow
<1> QED BY <1>1, <1>2, <1>3, <1>4, <1>5 DEF UserRow

LEMMA Settling ==
    ASSUME TInv, NEW r \in Requests, At(r, "both"), NEW write \in {"user", "sessions"},
           NEW failed \in BOOLEAN, Settle(r, write, failed)
    PROVE  \E q : /\ Becomes(r, q)
                  /\ \/ q = NoRequest
                     \/ /\ q.pc = "both" /\ q.op = req[r].op /\ q.user = req[r].user
                        /\ q.due = req[r].due /\ q.left = req[r].left \ {write}
                        /\ ~q.failed => ~failed /\ ~req[r].failed
<1>1. req[r] \in Request /\ Shaped(req[r])
  BY DEF TInv, ReqOK
<1>2. CASE Done(r)
  BY <1>2, Finishing
<1>3. CASE req' = [req EXCEPT ![r] = Both(@.op, @.user, req[r].left \ {write}, @.due, @.failed \/ failed)]
  <2>1. PICK f \in BOOLEAN : f = (req[r].failed \/ failed)
    BY Zenon
  <2> DEFINE q == Both(req[r].op, req[r].user, req[r].left \ {write}, req[r].due, f)
  <2>2. q \in Request
    BY <1>1 DEF Both, Request
  <2>3. req' = [req EXCEPT ![r] = q]
    BY <1>3, <2>1, Zenon
  <2>4. /\ q.pc = "both" /\ q.op = req[r].op /\ q.user = req[r].user
        /\ q.due = req[r].due /\ q.left = req[r].left \ {write} /\ q.failed = f
    BY DEF Both
  <2> HIDE DEF q
  <2>5. Shaped(q)
    BY <1>1, <2>4 DEF Shaped, At
  <2>6. Becomes(r, q)
    BY <2>2, <2>3, <2>5, Becoming
  <2> QED BY <2>1, <2>4, <2>6
<1> QED BY <1>2, <1>3 DEF Settle

LEMMA Checking ==
    ASSUME TInv, NEW r \in Requests, CheckTransition(r)
    PROVE  \/ Becomes(r, NoRequest)
           \/ \E q : /\ Becomes(r, q) /\ q.pc = "move" /\ q.op = "transition"
                     /\ q.user = req[r].user /\ q.arg = req[r].arg
                     /\ q.arg.from = "GE" /\ UNCHANGED raced
<1>1. req[r] \in Request /\ Shaped(req[r]) /\ req[r].pc = "check" /\ req[r].op = "transition"
  BY DEF TInv, ReqOK, CheckTransition, At, Shaped
<1>2. CASE Done(r)
  BY <1>2, Finishing
<1>3. CASE req' = [req EXCEPT ![r].pc = "move"] /\ Allowed(req[r].arg, dept[req[r].arg.to]) /\ UNCHANGED raced
  <2> DEFINE q == [req[r] EXCEPT !.pc = "move"]
  <2>1. q \in Request /\ req' = [req EXCEPT ![r] = q]
    BY <1>1, <1>3 DEF Request, TInv, ReqOK
  <2>2. /\ q.pc = "move" /\ q.op = req[r].op /\ q.user = req[r].user /\ q.arg = req[r].arg
    BY <1>1 DEF Request
  <2> HIDE DEF q
  <2>3. Becomes(r, q)
    BY <1>1, <2>1, <2>2, Becoming DEF Shaped
  <2>4. req[r].arg.from = "GE"
    BY <1>3 DEF Allowed
  <2> QED BY <1>1, <1>3, <2>2, <2>3, <2>4
<1> QED BY <1>2, <1>3 DEF CheckTransition

(* No session comes back to life, and no row of a user is ever deleted. *)
SessionsEnd ==
    /\ session' \in Seq(SessionRow) /\ DOMAIN session \subseteq DOMAIN session'
    /\ \A n \in DOMAIN session : /\ session'[n].user = session[n].user
                                 /\ session'[n].live => session[n].live

UsersStay ==
    user' \in [Users -> UserRow] /\ \A u \in Users : user[u].row => user'[u].row

LEMMA SessionsKept ==
    ASSUME TInv, UNCHANGED session
    PROVE  SessionsEnd
BY DEF TInv, DataOK, SessionsEnd

LEMMA UsersKept ==
    ASSUME TInv, UNCHANGED user
    PROVE  UsersStay
BY DEF TInv, DataOK, UsersStay

LEMMA SessionEnds ==
    ASSUME TInv, NEW n \in DOMAIN session, session' = [session EXCEPT ![n].live = FALSE]
    PROVE  SessionsEnd
<1>1. /\ session \in Seq(SessionRow) /\ DOMAIN session = 1 .. Len(session) /\ Len(session) \in Nat
      /\ \A i \in DOMAIN session : session[i] \in SessionRow
  BY LenProperties, ElementOfSeq DEF TInv, DataOK
<1>2. PICK b \in BOOLEAN : ~b /\ session' = [session EXCEPT ![n].live = b]
  BY Zenon
<1> DEFINE e == [session[n] EXCEPT !.live = b]
<1>3. e \in SessionRow /\ e.user = session[n].user /\ e.live = b
  BY <1>1 DEF SessionRow
<1>4. session' = [session EXCEPT ![n] = e]
  BY <1>1, <1>2
<1> HIDE DEF e
<1>5. /\ session' \in Seq(SessionRow) /\ Len(session') = Len(session)
      /\ \A j \in 1 .. Len(session) : session'[j] = IF j = n THEN e ELSE session[j]
  <2>1. n \in 1 .. Len(session)
    BY <1>1
  <2>2. /\ [session EXCEPT ![n] = e] \in Seq(SessionRow)
        /\ Len([session EXCEPT ![n] = e]) = Len(session)
        /\ \A j \in 1 .. Len(session) : [session EXCEPT ![n] = e][j] = IF j = n THEN e ELSE session[j]
    BY <1>1, <1>3, <2>1, ExceptSeq
  <2> QED BY <1>4, <2>2
<1>6. DOMAIN session' = DOMAIN session
  BY <1>1, <1>5, LenProperties
<1> QED BY <1>1, <1>2, <1>3, <1>5, <1>6 DEF SessionsEnd

LEMMA AllSessionsEnd ==
    ASSUME TInv, NEW u \in Users,
           session' = [n \in DOMAIN session |-> IF n \in Live(u)
                         THEN [session[n] EXCEPT !.live = FALSE] ELSE session[n]]
    PROVE  /\ SessionsEnd /\ DOMAIN session' = DOMAIN session
           /\ \A n \in DOMAIN session : session[n].user = u => ~session'[n].live
<1>1. /\ session \in Seq(SessionRow) /\ DOMAIN session = 1 .. Len(session) /\ Len(session) \in Nat
      /\ \A i \in DOMAIN session : session[i] \in SessionRow
  BY LenProperties, ElementOfSeq DEF TInv, DataOK
<1>2. ASSUME NEW n \in DOMAIN session
      PROVE  /\ session'[n] \in SessionRow /\ session'[n].user = session[n].user
             /\ session'[n].live => session[n].live
             /\ session[n].user = u => ~session'[n].live
  <2>1. CASE n \in Live(u)
    <3>1. PICK b \in BOOLEAN : ~b /\ session'[n] = [session[n] EXCEPT !.live = b]
      BY <2>1, Zenon
    <3> QED BY <1>1, <2>1, <3>1 DEF SessionRow, Live
  <2>2. CASE n \notin Live(u)
    BY <1>1, <2>2 DEF SessionRow, Live
  <2> QED BY <2>1, <2>2
<1>3. session' \in [1 .. Len(session) -> SessionRow]
  BY <1>1, <1>2
<1>4. session' \in Seq(SessionRow) /\ DOMAIN session' = DOMAIN session
  BY <1>1, <1>3, SeqDef
<1> QED BY <1>2, <1>4 DEF SessionsEnd

LEMMA SessionOpens ==
    ASSUME TInv, NEW u \in Users, session' = Append(session, [user |-> u, live |-> TRUE])
    PROVE  /\ SessionsEnd
           /\ \A n \in DOMAIN session' : session'[n].user = u \/ n \in DOMAIN session
<1>1. /\ session \in Seq(SessionRow) /\ DOMAIN session = 1 .. Len(session) /\ Len(session) \in Nat
  BY LenProperties DEF TInv, DataOK
<1> DEFINE e == [user |-> u, live |-> TRUE]
<1>2. e \in SessionRow /\ e.user = u
  BY DEF SessionRow
<1> HIDE DEF e
<1>3. session' = Append(session, e)
  BY DEF e
<1>4. session' \in Seq(SessionRow) /\ Len(session') = Len(session) + 1
  BY <1>1, <1>2, <1>3
<1>5. \A n \in 1 .. Len(session') : session'[n] = IF n \in 1 .. Len(session) THEN session[n] ELSE e
  BY <1>1, <1>2, <1>3
<1>6. DOMAIN session' = 1 .. Len(session')
  BY <1>4, LenProperties
<1> QED BY <1>1, <1>2, <1>4, <1>5, <1>6 DEF SessionsEnd

LEMMA RowWritten ==
    ASSUME TInv, NEW u \in Users, NEW w \in UserRow, user[u].row => w.row,
           user' = [user EXCEPT ![u] = w]
    PROVE  UsersStay /\ user'[u] = w /\ \A v \in Users \ {u} : user'[v] = user[v]
<1>1. user \in [Users -> UserRow]
  BY DEF TInv, DataOK
<1>2. user' \in [Users -> UserRow] /\ user'[u] = w /\ \A v \in Users \ {u} : user'[v] = user[v]
  BY <1>1
<1> QED BY <1>2 DEF UsersStay

Carries(r, q) == Becomes(r, q) /\ (q.pc \in {"session", "check", "move"} => q.user \in Rows)

LEMMA Retyped ==
    ASSUME TInv, UsersStay, SessionsEnd, KeysOK',
           dept' \in [Departments -> Codes \cup {None}],
           course' \in [Courses -> Departments \cup {None}],
           UNCHANGED req \/ \E r \in Requests, q \in Request : Carries(r, q)
    PROVE  TInv'
<1>1. Rows \subseteq Rows'
  BY DEF UsersStay, Rows
<1>2. ReqOK'
  <2>1. CASE UNCHANGED req
    BY <1>1, <2>1 DEF TInv, ReqOK
  <2>2. ASSUME NEW r \in Requests, NEW q \in Request, Carries(r, q)
        PROVE  ReqOK'
    BY <1>1, <2>2 DEF TInv, ReqOK, Carries, Becomes
  <2> QED BY <2>1, <2>2
<1> QED BY <1>2 DEF TInv, DataOK, UsersStay, SessionsEnd

(* Where neither departments nor courses change, the keys are those of the users. *)
LEMMA KeysKept ==
    ASSUME TInv, UsersStay, SessionsEnd, UNCHANGED <<dept, course>>,
           \A u \in Users : user'[u].dept # None => dept[user'[u].dept] # None,
           \A n \in DOMAIN session' : n \in DOMAIN session \/ session'[n].user \in Rows,
           token' \subseteq Rows, raced' \subseteq Requests
    PROVE  KeysOK'
<1>1. Rows \subseteq Rows'
  BY DEF UsersStay, Rows
<1>2. \A n \in DOMAIN session' : session'[n].user \in Rows'
  BY <1>1 DEF TInv, KeysOK, SessionsEnd
<1> QED BY <1>1, <1>2 DEF TInv, KeysOK

Proceeds(r) ==
    \/ OpenSession(r) \/ WriteOwn(r) \/ WriteUser(r) \/ EndSessions(r) \/ WriteFields(r)
    \/ InsertUser(r) \/ CheckTransition(r) \/ MoveStudent(r) \/ WriteCourse(r)

LEMMA ReqProceeds ==
    ASSUME TInv, NEW r \in Requests, Proceeds(r)
    PROVE  \E q \in Request : /\ Carries(r, q)
                              /\ q.op = "transition" => q.pc = "move"
                              /\ q.pc = "both" => /\ At(r, "both") /\ q.user = req[r].user
                                                  /\ q.due = req[r].due
<1>1. Shaped(req[r]) /\ (req[r].pc \in {"session", "check", "move"} => req[r].user \in Rows)
  BY DEF TInv, ReqOK
<1>2. ASSUME Becomes(r, NoRequest)
      PROVE  /\ NoRequest \in Request /\ Carries(r, NoRequest)
             /\ NoRequest.pc = "idle" /\ NoRequest.op # "transition"
  BY <1>2, AccountsAssumption DEF Carries, NoRequest, Ops, Becomes
<1>3. CASE OpenSession(r) \/ WriteOwn(r) \/ WriteFields(r) \/ InsertUser(r) \/ MoveStudent(r) \/ WriteCourse(r)
  <2>1. Becomes(r, NoRequest)
    BY <1>3, Finishing DEF OpenSession, WriteOwn, WriteFields, InsertUser, MoveStudent, WriteCourse
  <2> QED BY <1>2, <2>1
<1>4. CASE WriteUser(r) \/ EndSessions(r)
  <2>1. At(r, "both")
    BY <1>4 DEF WriteUser, EndSessions
  <2>2. PICK write \in {"user", "sessions"}, failed \in BOOLEAN : Settle(r, write, failed)
    BY <1>4 DEF WriteUser, EndSessions
  <2>3. PICK q : /\ Becomes(r, q)
                 /\ \/ q = NoRequest
                    \/ /\ q.pc = "both" /\ q.op = req[r].op /\ q.user = req[r].user
                       /\ q.due = req[r].due /\ q.left = req[r].left \ {write}
                       /\ ~q.failed => ~failed /\ ~req[r].failed
    BY <2>1, <2>2, Settling
  <2>4. CASE q = NoRequest
    BY <1>2, <2>3, <2>4
  <2>5. CASE q.pc = "both" /\ q.op = req[r].op /\ q.user = req[r].user /\ q.due = req[r].due
    <3>1. q \in Request /\ Carries(r, q) /\ q.op # "transition"
      BY <1>1, <2>1, <2>3, <2>5 DEF Carries, Becomes, Shaped, At
    <3> QED BY <2>1, <2>5, <3>1
  <2> QED BY <2>3, <2>4, <2>5
<1>5. CASE CheckTransition(r)
  <2>1. CASE Becomes(r, NoRequest)
    BY <1>2, <2>1
  <2>2. ASSUME NEW q, Becomes(r, q), q.pc = "move", q.user = req[r].user
        PROVE  /\ q \in Request /\ Carries(r, q) /\ q.pc = "move"
    BY <1>1, <1>5, <2>2 DEF Carries, Becomes, CheckTransition, At
  <2> QED BY <1>5, <2>1, <2>2, Checking
<1> QED BY <1>3, <1>4, <1>5 DEF Proceeds

(* What each write makes of the row it is about. *)
LEMMA OwnWritten ==
    ASSUME TInv, NEW r \in Requests, WriteOwn(r)
    PROVE  \E u \in Users : /\ UsersStay /\ u = req[r].user /\ user'[u].dept = user[u].dept
                            /\ user'[u].pass = "own" /\ \A v \in Users \ {u} : user'[v] = user[v]
<1>1. PICK u \in Users : u = req[r].user
  BY DEF TInv, ReqOK, Shaped, WriteOwn, At
<1>2. PICK b \in BOOLEAN : user' = [user EXCEPT ![u] = WithPassword(user[u], "own", b)]
  BY <1>1, Zenon DEF WriteOwn
<1>3. user[u] \in UserRow
  BY DEF TInv, DataOK
<1> DEFINE w == WithPassword(user[u], "own", b)
<1>4. w \in UserRow /\ w.row = user[u].row /\ w.dept = user[u].dept /\ w.pass = "own"
  BY <1>3, Passwording DEF Passwords
<1>5. user' = [user EXCEPT ![u] = w]
  BY <1>2
<1> HIDE DEF w
<1>6. UsersStay /\ user'[u] = w /\ \A v \in Users \ {u} : user'[v] = user[v]
  BY <1>4, <1>5, RowWritten
<1> QED BY <1>1, <1>4, <1>6

Overwrites(r) == At(r, "both") /\ user' = [user EXCEPT ![req[r].user] = AfterWrite(req[r].op, @)]

LEMMA UserWritten ==
    ASSUME TInv, NEW r \in Requests, Overwrites(r)
    PROVE  \E u \in Users :
             /\ UsersStay /\ u = req[r].user /\ user'[u].dept = user[u].dept
             /\ user'[u].pass = "default" =>
                  \/ user'[u].must
                  \/ /\ req[r].op # "reset-password" /\ user'[u].pass = user[u].pass
                     /\ user'[u].must = user[u].must /\ user'[u].row = user[u].row
             /\ \A v \in Users \ {u} : user'[v] = user[v]
<1>1. PICK u \in Users : u = req[r].user
  BY DEF TInv, ReqOK, Shaped, At, Overwrites
<1> DEFINE w == AfterWrite(req[r].op, user[u])
<1>2. user' = [user EXCEPT ![u] = w]
  BY <1>1, Zenon DEF Overwrites
<1>3. user[u] \in UserRow
  BY DEF TInv, DataOK
<1>4. /\ w \in UserRow /\ w.row = user[u].row /\ w.dept = user[u].dept
      /\ w.pass = "default" => \/ w.must
                               \/ /\ req[r].op # "reset-password" /\ w.pass = user[u].pass
                                  /\ w.must = user[u].must
  BY <1>3, Writing
<1> HIDE DEF w
<1>5. UsersStay /\ user'[u] = w /\ \A v \in Users \ {u} : user'[v] = user[v]
  BY <1>2, <1>4, RowWritten
<1> QED BY <1>1, <1>4, <1>5

LEMMA FieldsWritten ==
    ASSUME TInv, NEW r \in Requests, WriteFields(r), Exists(req[r].arg.dept)
    PROVE  \E u \in Users :
             /\ UsersStay /\ u = req[r].user /\ req[r].arg \in Update
             /\ user'[u].dept = IF req[r].arg.dept = None THEN user[u].dept ELSE req[r].arg.dept
             /\ user'[u].row = user[u].row
             /\ user'[u].pass = IF req[r].arg.pass = None THEN user[u].pass ELSE "own"
             /\ req[r].arg.pass = None => user'[u].must = Given(req[r].arg.must, user[u].must)
             /\ \A v \in Users \ {u} : user'[v] = user[v]
<1>1. PICK u \in Users : u = req[r].user
  BY DEF TInv, ReqOK, Shaped, WriteFields, At
<1> DEFINE c == req[r].arg  w == Updated(user[u], c)
<1>2. user' = [user EXCEPT ![u] = w] /\ Exists(c.dept)
  BY <1>1, Zenon DEF WriteFields
<1>3. user[u] \in UserRow /\ c \in Update
  BY DEF TInv, DataOK, ReqOK, Shaped, WriteFields, At
<1>4. /\ w \in UserRow /\ w.row = user[u].row
      /\ w.dept = IF c.dept = None THEN user[u].dept ELSE c.dept
      /\ w.pass = IF c.pass = None THEN user[u].pass ELSE "own"
      /\ c.pass = None => w.must = Given(c.must, user[u].must)
  BY <1>3, Updating
<1> HIDE DEF w
<1>5. UsersStay /\ user'[u] = w /\ \A v \in Users \ {u} : user'[v] = user[v]
  BY <1>2, <1>4, RowWritten
<1> QED BY <1>1, <1>2, <1>3, <1>4, <1>5

LEMMA UserInserted ==
    ASSUME TInv, NEW r \in Requests, InsertUser(r), req[r].user \notin Rows,
           Exists(req[r].arg.dept)
    PROVE  \E u \in Users :
             /\ UsersStay /\ u = req[r].user /\ req[r].arg \in Update
             /\ user'[u].dept = req[r].arg.dept
             /\ \E b \in BOOLEAN : b /\ user'[u].must = Given(req[r].arg.must, b)
             /\ \A v \in Users \ {u} : user'[v] = user[v]
<1>1. PICK u \in Users : u = req[r].user
  BY DEF TInv, ReqOK, Shaped, InsertUser, At
<1> DEFINE c == req[r].arg  n == [NoUser EXCEPT !.row = TRUE]  w == Updated(n, c)
<1>2. user' = [user EXCEPT ![u] = w] /\ Exists(c.dept) /\ u \notin Rows
  BY <1>1, Zenon DEF InsertUser
<1>3. user[u] \in UserRow /\ c \in Update /\ c.pass = None
  BY DEF TInv, DataOK, ReqOK, Shaped, InsertUser, At
<1>4. n \in UserRow /\ n.dept = None /\ n.must
  BY DEF NoUser, UserRow, Passwords
<1> HIDE DEF n
<1>5. /\ w \in UserRow /\ w.row = n.row
      /\ w.dept = IF c.dept = None THEN n.dept ELSE c.dept
      /\ w.must = Given(c.must, n.must)
  BY <1>3, <1>4, Updating
<1> HIDE DEF w
<1>6. ~user[u].row
  BY <1>2 DEF Rows
<1>7. UsersStay /\ user'[u] = w /\ \A v \in Users \ {u} : user'[v] = user[v]
  BY <1>2, <1>5, <1>6, RowWritten
<1>8. n.must \in BOOLEAN
  BY <1>4 DEF UserRow
<1> QED BY <1>1, <1>2, <1>3, <1>4, <1>5, <1>7, <1>8

LEMMA StudentMoved ==
    ASSUME TInv, NEW r \in Requests, MoveStudent(r), user' # user
    PROVE  \E u \in Users :
             /\ UsersStay /\ u = req[r].user /\ Exists(user'[u].dept) /\ user'[u].row = user[u].row
             /\ user'[u].pass = user[u].pass /\ user'[u].must = user[u].must
             /\ \A v \in Users \ {u} : user'[v] = user[v]
<1>1. PICK u \in Users, d \in Departments : u = req[r].user /\ d = req[r].arg.to
  BY DEF TInv, ReqOK, Shaped, Move, MoveStudent, At
<1> DEFINE w == [user[u] EXCEPT !.dept = d]
<1>2. user[u] \in UserRow /\ user \in [Users -> UserRow]
  BY DEF TInv, DataOK
<1>3. user' = [user EXCEPT ![u] = w] /\ Exists(d)
  BY <1>1, <1>2 DEF MoveStudent
<1>4. /\ w \in UserRow /\ w.row = user[u].row /\ w.dept = d /\ w.pass = user[u].pass
      /\ w.must = user[u].must
  BY <1>2 DEF UserRow
<1> HIDE DEF w
<1>5. UsersStay /\ user'[u] = w /\ \A v \in Users \ {u} : user'[v] = user[v]
  BY <1>3, <1>4, RowWritten
<1> QED BY <1>1, <1>3, <1>4, <1>5

Elsewhere ==
    \/ \E u \in Users : TokenExpires(u) \/ \E n \in DOMAIN session : Logout(u, n)
    \/ \E d \in Departments :
          RemoveDepartment(d) \/ \E k \in Codes : CreateDepartment(d, k) \/ UpdateDepartment(d, k)
    \/ \E c \in Courses : RemoveCourse(c)

LEMMA Steps == Next <=> (\E r \in Requests : Arrives(r) \/ Proceeds(r)) \/ Elsewhere
BY DEF Next, Arrives, Proceeds, Elsewhere

LEMMA ProceedTypes ==
    ASSUME TInv, NEW r \in Requests, Proceeds(r)
    PROVE  TInv'
<1>1. \E q \in Request : Carries(r, q)
  BY ReqProceeds
<1>2. /\ \A u \in Users : user[u].dept # None => dept[user[u].dept] # None
      /\ token \subseteq Rows /\ raced \subseteq Requests /\ user \in [Users -> UserRow]
      /\ dept \in [Departments -> Codes \cup {None}]
      /\ course \in [Courses -> Departments \cup {None}]
      /\ \A c \in Courses : course[c] # None => dept[course[c]] # None
  BY DEF TInv, DataOK, KeysOK
<1>3. ASSUME UsersStay, SessionsEnd, KeysOK', UNCHANGED dept,
             course' \in [Courses -> Departments \cup {None}]
      PROVE  TInv'
  BY <1>1, <1>2, <1>3, Retyped
<1>4. ASSUME UsersStay, UNCHANGED <<dept, course, session, token>>,
             \A u \in Users : user'[u].dept # None => dept[user'[u].dept] # None,
             raced' \subseteq Requests
      PROVE  TInv'
  BY <1>2, <1>3, <1>4, SessionsKept, KeysKept
<1>5. CASE OpenSession(r)
  <2>1. req[r].user \in Users /\ req[r].user \in Rows
    BY <1>5 DEF TInv, ReqOK, Shaped, OpenSession, At
  <2>2. /\ session' = Append(session, [user |-> req[r].user, live |-> TRUE])
        /\ UNCHANGED <<user, dept, course, raced>> /\ token' = token \cup {req[r].user}
    BY <1>5 DEF OpenSession, history
  <2>3. UsersStay /\ SessionsEnd
        /\ \A n \in DOMAIN session' : session'[n].user = req[r].user \/ n \in DOMAIN session
    BY <2>1, <2>2, UsersKept, SessionOpens
  <2>4. KeysOK'
    BY <1>2, <2>1, <2>2, <2>3, KeysKept
  <2> QED BY <1>2, <1>3, <2>2, <2>3, <2>4
<1>6. CASE EndSessions(r)
  <2>1. req[r].user \in Users
    BY <1>6 DEF TInv, ReqOK, Shaped, EndSessions, At
  <2>2. UNCHANGED <<user, dept, course, token, raced>>
    BY <1>6 DEF EndSessions
  <2>3. SessionsEnd /\ DOMAIN session' = DOMAIN session
    BY <1>6, <2>1, SessionsKept, AllSessionsEnd DEF EndSessions
  <2>4. KeysOK'
    BY <1>2, <2>2, <2>3, UsersKept, KeysKept
  <2> QED BY <1>2, <1>3, <2>2, <2>3, <2>4, UsersKept
<1>7. CASE WriteOwn(r)
  <2>1. UNCHANGED <<dept, course, session, token, raced>>
    BY <1>7 DEF WriteOwn
  <2> QED BY <1>2, <1>4, <1>7, <2>1, OwnWritten
<1>8. CASE WriteUser(r)
  <2>1. UNCHANGED <<dept, course, session, token, raced>>
    BY <1>8 DEF WriteUser
  <2>2. CASE user' = user
    BY <1>2, <1>4, <2>1, <2>2, UsersKept
  <2>3. CASE Overwrites(r)
    BY <1>2, <1>4, <2>1, <2>3, UserWritten
  <2> QED BY <1>8, <2>2, <2>3, Zenon DEF WriteUser, Overwrites
<1>9. CASE WriteFields(r)
  <2>1. UNCHANGED <<dept, course, session, token>> /\ raced' \subseteq Requests
    BY <1>2, <1>9 DEF WriteFields, DepartmentChanges
  <2>2. CASE user' = user
    BY <1>2, <1>4, <2>1, <2>2, UsersKept
  <2>3. CASE Exists(req[r].arg.dept)
    BY <1>2, <1>4, <1>9, <2>1, <2>3, FieldsWritten DEF Exists
  <2> QED BY <1>9, <2>2, <2>3, Zenon DEF WriteFields
<1>10. CASE InsertUser(r)
  <2>1. UNCHANGED <<dept, course, session, token, raced>>
    BY <1>10 DEF InsertUser
  <2>2. CASE user' = user
    BY <1>2, <1>4, <2>1, <2>2, UsersKept
  <2>3. CASE req[r].user \notin Rows /\ Exists(req[r].arg.dept)
    BY <1>2, <1>4, <1>10, <2>1, <2>3, UserInserted DEF Exists
  <2> QED BY <1>10, <2>2, <2>3, Zenon DEF InsertUser
<1>11. CASE CheckTransition(r)
  <2>1. UNCHANGED <<user, dept, course, session, token>> /\ raced' \subseteq Requests
    BY <1>2, <1>11 DEF CheckTransition
  <2> QED BY <1>2, <1>4, <2>1, UsersKept
<1>12. CASE MoveStudent(r)
  <2>1. UNCHANGED <<dept, course, session, token>> /\ raced' \subseteq Requests
    BY <1>2, <1>12 DEF MoveStudent
  <2>2. CASE user' = user
    BY <1>2, <1>4, <2>1, <2>2, UsersKept
  <2>3. CASE user' # user
    BY <1>2, <1>4, <1>12, <2>1, <2>3, StudentMoved DEF Exists
  <2> QED BY <2>2, <2>3
<1>13. CASE WriteCourse(r)
  <2>1. UNCHANGED <<user, dept, session, token, raced>>
    BY <1>13 DEF WriteCourse, history
  <2>2. req[r].arg \in Teaching
    BY <1>13 DEF TInv, ReqOK, Shaped, WriteCourse, At
  <2>3. /\ course' \in [Courses -> Departments \cup {None}]
        /\ \A c \in Courses : course'[c] # None => dept[course'[c]] # None
    <3>1. CASE course' = course
      BY <1>2, <3>1
    <3>2. CASE Exists(req[r].arg.to) /\ course' = [course EXCEPT ![req[r].arg.course] = req[r].arg.to]
      BY <1>2, <2>2, <3>2, AccountsAssumption DEF Teaching, Exists
    <3> QED BY <1>13, <3>1, <3>2 DEF WriteCourse
  <2>4. KeysOK'
    BY <2>1, <2>3 DEF TInv, KeysOK, Rows
  <2> QED BY <1>3, <2>1, <2>3, <2>4, UsersKept, SessionsKept
<1> QED BY <1>5, <1>6, <1>7, <1>8, <1>9, <1>10, <1>11, <1>12, <1>13 DEF Proceeds

LEMMA ElsewhereTypes ==
    ASSUME TInv, Elsewhere
    PROVE  TInv'
<1>1. UNCHANGED req
  BY DEF Elsewhere, TokenExpires, Logout, RemoveDepartment, CreateDepartment, UpdateDepartment,
     RemoveCourse
<1>2. /\ \A u \in Users : user[u].dept # None => dept[user[u].dept] # None
      /\ token \subseteq Rows /\ raced \subseteq Requests /\ user \in [Users -> UserRow]
      /\ dept \in [Departments -> Codes \cup {None}]
      /\ course \in [Courses -> Departments \cup {None}]
      /\ \A c \in Courses : course[c] # None => dept[course[c]] # None
      /\ \A d, e \in Departments : d # e /\ dept[d] # None => dept[d] # dept[e]
      /\ \A n \in DOMAIN session : session[n].user \in Rows
  BY DEF TInv, DataOK, KeysOK
<1>3. ASSUME NEW u \in Users, TokenExpires(u)
      PROVE  TInv'
  <2>1. UNCHANGED <<user, dept, course, session, raced>> /\ token' \subseteq Rows
    BY <1>2, <1>3 DEF TokenExpires, history
  <2>2. KeysOK'
    BY <1>2, <2>1, UsersKept, SessionsKept, KeysKept
  <2> QED BY <1>1, <1>2, <2>1, <2>2, UsersKept, SessionsKept, Retyped
<1>4. ASSUME NEW u \in Users, NEW n \in DOMAIN session, Logout(u, n)
      PROVE  TInv'
  <2>1. UNCHANGED <<user, dept, course, token, raced>>
    BY <1>4 DEF Logout, history
  <2>2. SessionsEnd /\ DOMAIN session' = DOMAIN session
    BY <1>4, SessionEnds DEF Logout
  <2>3. KeysOK'
    BY <1>2, <2>1, <2>2, UsersKept, KeysKept
  <2> QED BY <1>1, <1>2, <2>1, <2>2, <2>3, UsersKept, Retyped
<1>5. ASSUME NEW d \in Departments, NEW k \in Codes, CreateDepartment(d, k) \/ UpdateDepartment(d, k)
      PROVE  TInv'
  <2>1. /\ UNCHANGED <<user, course, session, token>> /\ raced' \subseteq Requests
        /\ dept' = [dept EXCEPT ![d] = k] /\ \A e \in Departments : dept[e] # k
    BY <1>2, <1>5 DEF CreateDepartment, UpdateDepartment, DepartmentChanges, history, FreeCode
  <2>2. /\ dept' \in [Departments -> Codes \cup {None}] /\ k # None
        /\ \A e \in Departments : dept'[e] = IF e = d THEN k ELSE dept[e]
    BY <1>2, <2>1, AccountsAssumption
  <2>3. KeysOK'
    <3>1. \A e \in Departments : dept[e] # None => dept'[e] # None
      BY <2>2
    <3>2. \A e, f \in Departments : e # f /\ dept'[e] # None => dept'[e] # dept'[f]
      BY <1>2, <2>1, <2>2
    <3>3. \A u \in Users : user[u].dept \in Departments \cup {None}
      BY <1>2 DEF UserRow
    <3> QED BY <1>2, <2>1, <3>1, <3>2, <3>3 DEF KeysOK, Rows
  <2> QED BY <1>1, <1>2, <2>1, <2>2, <2>3, UsersKept, SessionsKept, Retyped
<1>6. ASSUME NEW d \in Departments, RemoveDepartment(d)
      PROVE  TInv'
  <2>1. /\ UNCHANGED <<course, session, token>> /\ raced' \subseteq Requests
        /\ dept' = [dept EXCEPT ![d] = None] /\ \A c \in Courses : course[c] # d
        /\ user' = [u \in Users |-> IF u \in Of(d) THEN [user[u] EXCEPT !.dept = None] ELSE user[u]]
    BY <1>2, <1>6 DEF RemoveDepartment, DepartmentChanges
  <2>2. /\ dept' \in [Departments -> Codes \cup {None}]
        /\ \A e \in Departments : dept'[e] = IF e = d THEN None ELSE dept[e]
    BY <1>2, <2>1
  <2>3. \A u \in Users : /\ user'[u] \in UserRow /\ user'[u].row = user[u].row
                         /\ user'[u].dept = IF user[u].dept = d THEN None ELSE user[u].dept
    BY <1>2, <2>1 DEF UserRow, Of
  <2>4. user' \in [Users -> UserRow] /\ Rows' = Rows
    BY <2>1, <2>3 DEF Rows
  <2>5. UsersStay
    BY <2>3, <2>4 DEF UsersStay
  <2>6. KeysOK'
    <3>1. \A u \in Users : user[u].dept \in Departments \cup {None}
      BY <1>2 DEF UserRow
    <3>2. \A e, f \in Departments : e # f /\ dept'[e] # None => dept'[e] # dept'[f]
      BY <1>2, <2>2
    <3>3. \A u \in Users : user'[u].dept # None => dept'[user'[u].dept] # None
      BY <1>2, <2>2, <2>3, <3>1
    <3>4. \A c \in Courses : course[c] # None => dept'[course[c]] # None
      BY <1>2, <2>1, <2>2
    <3> QED BY <1>2, <2>1, <2>4, <3>2, <3>3, <3>4 DEF KeysOK
  <2> QED BY <1>1, <1>2, <2>1, <2>2, <2>5, <2>6, SessionsKept, Retyped
<1>7. ASSUME NEW c \in Courses, RemoveCourse(c)
      PROVE  TInv'
  <2>1. UNCHANGED <<user, dept, session, token, raced>> /\ course' = [course EXCEPT ![c] = None]
    BY <1>7 DEF RemoveCourse, history
  <2>2. course' \in [Courses -> Departments \cup {None}]
    BY <1>2, <2>1
  <2>3. KeysOK'
    BY <1>2, <2>1 DEF KeysOK, Rows
  <2> QED BY <1>1, <1>2, <2>1, <2>2, <2>3, UsersKept, SessionsKept, Retyped
<1> QED BY <1>3, <1>4, <1>5, <1>6, <1>7 DEF Elsewhere

LEMMA TypeStep == TInv /\ [Next]_vars => TInv'
<1> SUFFICES ASSUME TInv, [Next]_vars
             PROVE  TInv'
  OBVIOUS
<1>1. CASE UNCHANGED vars
  <2>1. UNCHANGED <<user, dept, course, session, token, req, raced>>
    BY <1>1 DEF vars, history
  <2> QED BY <2>1 DEF TInv, DataOK, ReqOK, KeysOK, Rows
<1>2. ASSUME NEW r \in Requests, Arrives(r)
      PROVE  TInv'
  <2>1. PICK q : Asked(r, q)
    BY <1>2, Arrived DEF Asking
  <2>2. UNCHANGED <<user, dept, course, session, token, raced>>
    BY <2>1 DEF Asked, history
  <2>3. q \in Request /\ Carries(r, q)
    BY <2>1 DEF Asked, Carries, Becomes
  <2>4. KeysOK'
    BY <2>2 DEF TInv, KeysOK, Rows
  <2> QED BY <2>2, <2>3, <2>4, UsersKept, SessionsKept, Retyped DEF TInv, DataOK
<1> QED BY <1>1, <1>2, Steps, ProceedTypes, ElsewhereTypes

LEMMA TypeInit == Init => TInv
<1> SUFFICES ASSUME Init PROVE TInv
  OBVIOUS
<1> USE AccountsAssumption
<1>1. NoUser \in UserRow /\ NoUser.dept = None
  BY DEF NoUser, UserRow, Passwords
<1>2. \A d \in Departments, y \in {2, 3} : Student(d, y) \in UserRow
  BY DEF Student, UserRow, Passwords, Years
<1>3. user \in [Users -> UserRow]
  BY <1>1, <1>2 DEF Init
<1>4. dept \in [Departments -> Codes] /\ \A d \in Departments : dept[d] # None
  BY DEF Init
<1>5. DataOK
  BY <1>3, <1>4, EmptySeq DEF Init, DataOK
<1>6. NoRequest \in Request /\ Shaped(NoRequest) /\ NoRequest.pc = "idle"
  BY DEF NoRequest, Request, Shaped, Ops
<1>7. ReqOK
  BY <1>6 DEF Init, ReqOK
<1>8. \A u \in Users : user[u].dept \in Departments \cup {None}
  BY <1>3 DEF UserRow
<1>9. \A d, e \in Departments : d # e /\ dept[d] # None => dept[d] # dept[e]
  BY DEF Init
<1>10. KeysOK
  BY <1>4, <1>8, <1>9 DEF Init, KeysOK
<1> QED BY <1>5, <1>7, <1>10 DEF TInv

-----------------------------------------------------------------------------
(* Sessions *)

LEMMA SessionsOnlyEnd ==
    ASSUME TInv, [Next]_vars
    PROVE  SessionsEnd
<1>1. CASE UNCHANGED vars
  BY <1>1, SessionsKept DEF vars
<1>2. ASSUME NEW r \in Requests, Arrives(r)
      PROVE  SessionsEnd
  BY <1>2, Arrived, SessionsKept DEF Asking, Asked
<1>3. ASSUME NEW r \in Requests, Proceeds(r)
      PROVE  SessionsEnd
  <2>1. CASE OpenSession(r)
    <3>1. req[r].user \in Users
      BY <2>1 DEF TInv, ReqOK, Shaped, OpenSession, At
    <3> QED BY <2>1, <3>1, SessionOpens DEF OpenSession
  <2>2. CASE EndSessions(r)
    <3>1. req[r].user \in Users
      BY <2>2 DEF TInv, ReqOK, Shaped, EndSessions, At
    <3> QED BY <2>2, <3>1, SessionsKept, AllSessionsEnd DEF EndSessions
  <2>3. CASE \/ WriteOwn(r) \/ WriteUser(r) \/ WriteFields(r) \/ InsertUser(r)
             \/ CheckTransition(r) \/ MoveStudent(r) \/ WriteCourse(r)
    BY <2>3, SessionsKept DEF WriteOwn, WriteUser, WriteFields, InsertUser, CheckTransition,
       MoveStudent, WriteCourse
  <2> QED BY <1>3, <2>1, <2>2, <2>3 DEF Proceeds
<1>4. ASSUME Elsewhere
      PROVE  SessionsEnd
  <2>1. ASSUME NEW u \in Users, NEW n \in DOMAIN session, Logout(u, n)
        PROVE  SessionsEnd
    BY <2>1, SessionEnds DEF Logout
  <2>2. UNCHANGED session \/ \E u \in Users : \E n \in DOMAIN session : Logout(u, n)
    BY <1>4 DEF Elsewhere, TokenExpires, RemoveDepartment, CreateDepartment, UpdateDepartment,
       RemoveCourse
  <2> QED BY <2>1, <2>2, SessionsKept
<1> QED BY <1>1, <1>2, <1>3, <1>4, Steps

(* The sessions a request has to end are those of its user and, unless they are still to
   be written or that write failed, have ended. *)
DueBy(q) ==
    /\ \A n \in q.due : n \in DOMAIN session /\ session[n].user = q.user
    /\ "sessions" \notin q.left /\ ~q.failed => \A n \in q.due : ~session[n].live

LEMMA DueKept ==
    ASSUME SInv, SessionsEnd, NEW r \in Requests, NEW q, Becomes(r, q),
           q.pc = "both" => DueBy(q)',
           \A n \in revoked' : n \in revoked \/ (n \in DOMAIN session' /\ ~session'[n].live)
    PROVE  DueOK'
<1>1. ASSUME NEW x \in Requests, At(x, "both")'
      PROVE  DueBy(req[x])'
  <2>1. CASE x = r
    BY <1>1, <2>1 DEF Becomes, At, DueBy
  <2>2. CASE x # r
    <3>1. req'[x] = req[x] /\ At(x, "both")
      BY <1>1, <2>2 DEF Becomes, At
    <3>2. DueBy(req[x])
      BY <3>1 DEF SInv, DueOK, DueBy
    <3> QED BY <3>1, <3>2 DEF DueBy, SessionsEnd
  <2> QED BY <2>1, <2>2
<1>2. \A n \in revoked' : n \in DOMAIN session' /\ ~session'[n].live
  BY DEF SInv, DueOK, SessionsEnd
<1> QED BY <1>1, <1>2 DEF DueOK, DueBy

(* A write is settled: the last one answers, and without a failure the sessions have ended. *)
LEMMA SettlingDue ==
    ASSUME SInv, SessionsEnd, NEW r \in Requests, At(r, "both"),
           NEW write \in {"user", "sessions"}, NEW failed \in BOOLEAN, Settle(r, write, failed),
           write = "sessions" /\ ~failed =>
             \A n \in DOMAIN session : session[n].user = req[r].user => ~session'[n].live
    PROVE  DueOK'
<1>1. PICK q : /\ Becomes(r, q)
               /\ \/ q = NoRequest
                  \/ /\ q.pc = "both" /\ q.op = req[r].op /\ q.user = req[r].user
                     /\ q.due = req[r].due /\ q.left = req[r].left \ {write}
                     /\ ~q.failed => ~failed /\ ~req[r].failed
  BY Settling DEF SInv
<1>2. \A n \in req[r].due : n \in DOMAIN session' /\ session'[n].user = req[r].user
  BY DEF SInv, DueOK, SessionsEnd
<1>3. ASSUME "sessions" \notin req[r].left \ {write}, ~failed, ~req[r].failed, NEW n \in req[r].due
      PROVE  ~session'[n].live
  BY <1>3 DEF SInv, DueOK, SessionsEnd
<1>4. q.pc = "both" => DueBy(q)'
  <2>1. NoRequest.pc # "both"
    BY DEF NoRequest
  <2> QED BY <1>1, <1>2, <1>3, <2>1 DEF DueBy
<1>5. \A n \in revoked' : n \in revoked \/ (n \in DOMAIN session' /\ ~session'[n].live)
  BY <1>2, <1>3 DEF Settle
<1> QED BY <1>1, <1>4, <1>5, DueKept

LEMMA SessionStep == SInv /\ [Next]_vars => SInv'
<1> SUFFICES ASSUME SInv, [Next]_vars
             PROVE  DueOK'
  BY TypeStep DEF SInv
<1>1. SessionsEnd
  BY SessionsOnlyEnd DEF SInv
<1>2. CASE UNCHANGED <<req, revoked>>
  BY <1>1, <1>2 DEF SInv, DueOK, SessionsEnd, At
<1>3. ASSUME NEW r \in Requests, Arrives(r)
      PROVE  DueOK'
  <2>1. PICK q : Asked(r, q)
    BY <1>3, Arrived DEF SInv, Asking
  <2>2. UNCHANGED <<session, revoked>>
    BY <2>1 DEF Asked, history
  <2>3. q.pc = "both" => DueBy(q)'
    BY <2>1, <2>2 DEF Asked, DueBy, Live
  <2> QED BY <1>1, <2>1, <2>2, <2>3, DueKept DEF Asked
<1>4. ASSUME NEW r \in Requests, Proceeds(r), ~WriteUser(r), ~EndSessions(r)
      PROVE  DueOK'
  <2>1. ~At(r, "both") /\ UNCHANGED revoked
    BY <1>4 DEF Proceeds, OpenSession, WriteOwn, WriteFields, InsertUser, CheckTransition,
       MoveStudent, WriteCourse, At, history
  <2>2. PICK q \in Request : Becomes(r, q) /\ q.pc # "both"
    BY <1>4, <2>1, ReqProceeds DEF SInv, Carries
  <2> QED BY <1>1, <2>1, <2>2, DueKept
<1>5. ASSUME NEW r \in Requests, WriteUser(r)
      PROVE  DueOK'
  <2>1. PICK failed \in BOOLEAN : Settle(r, "user", failed)
    BY <1>5 DEF WriteUser
  <2> QED BY <1>1, <1>5, <2>1, SettlingDue DEF WriteUser
<1>6. ASSUME NEW r \in Requests, EndSessions(r)
      PROVE  DueOK'
  <2>1. req[r].user \in Users /\ At(r, "both")
    BY <1>6 DEF SInv, TInv, ReqOK, Shaped, EndSessions, At
  <2>2. CASE Settle(r, "sessions", TRUE)
    BY <1>1, <2>1, <2>2, SettlingDue
  <2>3. CASE /\ session' = [n \in DOMAIN session |-> IF n \in Live(req[r].user)
                              THEN [session[n] EXCEPT !.live = FALSE] ELSE session[n]]
             /\ Settle(r, "sessions", FALSE)
    <3>1. \A n \in DOMAIN session : session[n].user = req[r].user => ~session'[n].live
      BY <2>1, <2>3, AllSessionsEnd DEF SInv
    <3> QED BY <1>1, <2>1, <2>3, <3>1, SettlingDue
  <2> QED BY <1>6, <2>2, <2>3 DEF EndSessions
<1>7. CASE Elsewhere
  <2>1. UNCHANGED <<req, revoked>>
    BY <1>7 DEF Elsewhere, TokenExpires, Logout, RemoveDepartment, CreateDepartment,
       UpdateDepartment, RemoveCourse, history
  <2> QED BY <1>2, <2>1
<1>8. CASE UNCHANGED vars
  BY <1>2, <1>8 DEF vars, history
<1> QED BY <1>3, <1>4, <1>5, <1>6, <1>7, <1>8, Steps

LEMMA SessionInit == Init => SInv
<1>1. Init => DueOK
  BY DEF Init, DueOK, At, NoRequest
<1> QED BY <1>1, TypeInit DEF SInv

LEMMA SessionsHold == Spec => []SInv
BY SessionInit, SessionStep, PTL DEF Spec

(* Every user, department, course, session and token has its type, and every reference to
   a department, of a user or of a course, is to one that exists: in particular while
   departments are removed under updates, transitions and courses that have looked them
   up already (users.service.ts, departments.service.ts, courses.service.ts). *)
THEOREM TypeCorrect == Spec => []TypeOK
<1>1. SInv => TypeOK
  <2> SUFFICES ASSUME SInv PROVE TypeOK
    OBVIOUS
  <2>1. \A u \in Users : user[u] \in UserRow
    BY DEF SInv, TInv, DataOK
  <2>2. \A u \in Users : /\ user[u].dept \in Referenced /\ user[u].pass \in Passwords
                         /\ user[u].year \in Years \cup {None}
    BY <2>1 DEF SInv, TInv, KeysOK, UserRow, Referenced
  <2>3. ASSUME NEW u \in Users
        PROVE  {user[u].row, user[u].active, user[u].must, user[u].verified} \subseteq BOOLEAN
    <3>1. /\ user[u].row \in BOOLEAN /\ user[u].active \in BOOLEAN /\ user[u].must \in BOOLEAN
          /\ user[u].verified \in BOOLEAN
      BY <2>1 DEF UserRow
    <3> QED BY <3>1, Zenon
  <2>4. course \in [Courses -> Referenced]
    BY DEF SInv, TInv, DataOK, KeysOK, Referenced
  <2> QED BY <2>2, <2>3, <2>4 DEF SInv, TInv, DataOK, KeysOK, DueOK, TypeOK
<1> QED BY <1>1, SessionsHold, PTL

(* The sessions that a deactivation, a deletion or a password reset had to end have ended
   when it answers without an error, in whichever order its two writes went and whatever
   logins and logouts came in between, and they never come back
   (users.service.ts: deactivateUser, deleteUser, resetUserPassword). *)
THEOREM RevokedSessionsStayEnded == Spec => []RevokedStayEnded
<1>1. SInv => RevokedStayEnded
  BY DEF SInv, DueOK, RevokedStayEnded
<1> QED BY <1>1, SessionsHold, PTL

-----------------------------------------------------------------------------
(* Passwords *)

LEMMA MustKept ==
    ASSUME PInv, NEW u \in Users, \A v \in Users \ {u} : user'[v] = user[v],
           \A v \in waived : v \in waived' \/ v = u,
           user'[u].row /\ u \notin waived' /\ user'[u].pass = "default" => user'[u].must
    PROVE  DefaultMustChange'
BY DEF PInv, DefaultMustChange, Rows

LEMMA PasswordStep == PInv /\ [Next]_vars => PInv'
<1> SUFFICES ASSUME PInv, [Next]_vars
             PROVE  DefaultMustChange'
  BY TypeStep DEF PInv
<1>1. CASE UNCHANGED <<user, waived>>
  BY <1>1 DEF PInv, DefaultMustChange, Rows
<1>2. ASSUME NEW r \in Requests, Arrives(r)
      PROVE  DefaultMustChange'
  BY <1>1, <1>2, Arrived DEF PInv, Asking, Asked, history
<1>3. ASSUME NEW r \in Requests, WriteOwn(r)
      PROVE  DefaultMustChange'
  <2>1. PICK u \in Users : /\ u = req[r].user /\ user'[u].pass = "own"
                           /\ \A v \in Users \ {u} : user'[v] = user[v]
    BY <1>3, OwnWritten DEF PInv
  <2>2. \A v \in waived : v \in waived' \/ v = u
    BY <1>3, <2>1 DEF WriteOwn
  <2> QED BY <2>1, <2>2, MustKept
<1>4. ASSUME NEW r \in Requests, WriteUser(r)
      PROVE  DefaultMustChange'
  <2>1. CASE /\ Overwrites(r)
             /\ waived' = IF req[r].op = "reset-password" THEN waived \ {req[r].user} ELSE waived
    <3>1. PICK u \in Users :
             /\ u = req[r].user
             /\ user'[u].pass = "default" =>
                  \/ user'[u].must
                  \/ /\ req[r].op # "reset-password" /\ user'[u].pass = user[u].pass
                     /\ user'[u].must = user[u].must /\ user'[u].row = user[u].row
             /\ \A v \in Users \ {u} : user'[v] = user[v]
      BY <2>1, UserWritten DEF PInv
    <3>2. \A v \in waived : v \in waived' \/ v = u
      BY <2>1, <3>1
    <3>3. user'[u].row /\ u \notin waived' /\ user'[u].pass = "default" => user'[u].must
      BY <2>1, <3>1 DEF PInv, DefaultMustChange, Rows
    <3> QED BY <3>1, <3>2, <3>3, MustKept
  <2> QED BY <1>1, <1>4, <2>1, Zenon DEF WriteUser, Overwrites
<1>5. ASSUME NEW r \in Requests, WriteFields(r)
      PROVE  DefaultMustChange'
  <2> DEFINE c == req[r].arg
  <2>1. CASE UNCHANGED <<user, waived>>
    BY <1>1, <2>1
  <2>2. CASE Exists(c.dept)
    <3>1. PICK u \in Users :
             /\ u = req[r].user /\ c \in Update /\ user'[u].row = user[u].row
             /\ user'[u].pass = IF c.pass = None THEN user[u].pass ELSE "own"
             /\ c.pass = None => user'[u].must = Given(c.must, user[u].must)
             /\ \A v \in Users \ {u} : user'[v] = user[v]
      BY <1>5, <2>2, FieldsWritten DEF PInv
    <3>2. \/ c.pass # None /\ waived' = waived \ {u}
          \/ c.pass = None /\ c.must # None /\ c.must /\ waived' = waived \ {u}
          \/ c.pass = None /\ c.must # None /\ ~c.must /\ waived' = waived \cup {u}
          \/ c.pass = None /\ c.must = None /\ waived' = waived
          \/ UNCHANGED <<user, waived>>
      BY <1>5, <2>2, <3>1, Zenon DEF WriteFields
    <3>3. \A v \in waived : v \in waived' \/ v = u
      BY <3>2
    <3>4. CASE c.pass # None
      BY <3>1, <3>3, <3>4, MustKept
    <3>5. CASE c.pass = None /\ c.must # None /\ c.must
      <4>1. user'[u].must
        BY <3>1, <3>5, Zenon DEF Given
      <4> QED BY <3>1, <3>3, <4>1, MustKept
    <3>6. CASE c.pass = None /\ ~c.must /\ waived' = waived \cup {u}
      BY <3>1, <3>3, <3>6, MustKept
    <3>7. CASE c.pass = None /\ c.must = None /\ waived' = waived
      <4>1. user'[u].pass = user[u].pass /\ (user[u].must => user'[u].must)
        <5>1. user'[u].must = user[u].must
          BY <3>1, <3>7, Zenon DEF Given
        <5> QED BY <3>1, <3>7, <5>1
      <4> QED BY <3>1, <3>3, <3>7, <4>1, MustKept DEF PInv, DefaultMustChange, Rows
    <3> QED BY <2>1, <3>2, <3>4, <3>5, <3>6, <3>7, Zenon
  <2> QED BY <1>5, <2>1, <2>2, Zenon DEF WriteFields
<1>6. ASSUME NEW r \in Requests, InsertUser(r)
      PROVE  DefaultMustChange'
  <2> DEFINE c == req[r].arg
  <2>1. CASE UNCHANGED <<user, waived>>
    BY <1>1, <2>1
  <2>2. CASE /\ req[r].user \notin Rows /\ Exists(c.dept)
             /\ waived' = IF c.must = FALSE THEN waived \cup {req[r].user} ELSE waived
    <3>1. PICK u \in Users :
             /\ u = req[r].user /\ c \in Update
             /\ \E b \in BOOLEAN : b /\ user'[u].must = Given(c.must, b)
             /\ \A v \in Users \ {u} : user'[v] = user[v]
      BY <1>6, <2>2, UserInserted DEF PInv
    <3>2. \A v \in waived : v \in waived' \/ v = u
      BY <2>2, <3>1, Zenon
    <3>3. CASE c.must = FALSE
      <4>1. u \in waived'
        BY <2>2, <3>1, <3>3, Zenon
      <4> QED BY <3>1, <3>2, <4>1, MustKept
    <3>4. CASE c.must # FALSE
      <4>1. c.must = TRUE \/ c.must = None
        BY <3>1, <3>4, Zenon DEF Update
      <4>2. user'[u].must
        BY <3>1, <4>1, Zenon DEF Given
      <4> QED BY <3>1, <3>2, <4>2, MustKept
    <3> QED BY <3>3, <3>4
  <2> QED BY <1>6, <2>1, <2>2, Zenon DEF InsertUser
<1>7. ASSUME NEW r \in Requests, MoveStudent(r)
      PROVE  DefaultMustChange'
  <2>1. UNCHANGED waived
    BY <1>7 DEF MoveStudent
  <2>2. CASE user' # user
    <3>1. PICK u \in Users :
             /\ user'[u].row = user[u].row
             /\ user'[u].pass = user[u].pass /\ user'[u].must = user[u].must
             /\ \A v \in Users \ {u} : user'[v] = user[v]
      BY <1>7, <2>2, StudentMoved DEF PInv
    <3> QED BY <2>1, <3>1, MustKept DEF PInv, DefaultMustChange, Rows
  <2> QED BY <1>1, <2>1, <2>2
<1>8. ASSUME NEW r \in Requests, OpenSession(r) \/ EndSessions(r) \/ CheckTransition(r) \/ WriteCourse(r)
      PROVE  DefaultMustChange'
  BY <1>1, <1>8 DEF OpenSession, EndSessions, CheckTransition, WriteCourse, history
<1>9. CASE Elsewhere
  <2>1. ASSUME NEW d \in Departments, RemoveDepartment(d)
        PROVE  DefaultMustChange'
    <3>1. UNCHANGED waived /\ user' = [u \in Users |-> IF u \in Of(d)
             THEN [user[u] EXCEPT !.dept = None] ELSE user[u]]
      BY <2>1 DEF RemoveDepartment
    <3>2. \A u \in Users : /\ user'[u].row = user[u].row /\ user'[u].pass = user[u].pass
                           /\ user'[u].must = user[u].must
      BY <3>1 DEF PInv, TInv, DataOK, UserRow
    <3> QED BY <3>1, <3>2 DEF PInv, DefaultMustChange, Rows
  <2>2. UNCHANGED <<user, waived>> \/ \E d \in Departments : RemoveDepartment(d)
    BY <1>9 DEF Elsewhere, TokenExpires, Logout, CreateDepartment, UpdateDepartment, RemoveCourse,
       history
  <2> QED BY <1>1, <2>1, <2>2
<1>10. CASE UNCHANGED vars
  BY <1>1, <1>10 DEF vars, history
<1> QED BY <1>2, <1>3, <1>4, <1>5, <1>6, <1>7, <1>8, <1>9, <1>10, Steps DEF Proceeds

(* Whoever has the default password must change it, except the users for whom an admin has
   said otherwise: the resets, the changes by users and the updates by admins that overlap
   each write password and mustChangePassword together (users.service.ts, auth.service.ts). *)
THEOREM DefaultPasswordsMustChange == Spec => []DefaultMustChange
<1>1. Init => DefaultMustChange
  BY DEF Init, DefaultMustChange, Rows, NoUser, Student
<1>2. Init => PInv
  BY <1>1, TypeInit DEF PInv
<1>3. PInv => DefaultMustChange
  BY DEF PInv
<1> QED BY <1>2, <1>3, PasswordStep, PTL DEF Spec

-----------------------------------------------------------------------------
(* Transitions *)

(* What a transition has read still holds of the student, and one that is to write has
   read General Education. *)
ReadBy(q) == q.arg.from = CodeOf(user[q.user].dept) /\ (q.pc = "move" => q.arg.from = "GE")

SameCode(u) ==
    CodeOf(user[u].dept) = IF user'[u].dept = None THEN None ELSE dept'[user'[u].dept]

(* The steps leave the department of a student in a transition alone, or mark it. *)
Marks(xs) == \A x \in xs : x \notin raced' /\ req[x].op = "transition"
                             => x \notin raced /\ SameCode(req[x].user)

LEMMA Transitioning ==
    ASSUME TInv, NEW x \in Requests, req[x].op = "transition"
    PROVE  /\ req[x].user \in Users /\ req[x].user \in Rows /\ ~At(x, "idle")
           /\ req[x].arg \in Move
BY DEF TInv, ReqOK, Shaped, At, Rows

LEMMA ReadKept ==
    ASSUME GInv, NEW r \in Requests, NEW q, Becomes(r, q),
           q.op = "transition" /\ r \notin raced' => ReadBy(q)',
           Marks(Requests \ {r})
    PROVE  ReadOK'
<1>1. ASSUME NEW x \in Requests, x \notin raced', req'[x].op = "transition"
      PROVE  ReadBy(req[x])'
  <2>1. CASE x = r
    BY <1>1, <2>1 DEF Becomes, ReadBy, CodeOf
  <2>2. CASE x # r
    <3>1. req'[x] = req[x] /\ req[x].op = "transition"
      BY <1>1, <2>2 DEF Becomes
    <3>2. x \notin raced /\ SameCode(req[x].user)
      BY <1>1, <2>2, <3>1 DEF Marks
    <3>3. ReadBy(req[x])
      BY <3>1, <3>2 DEF GInv, ReadOK, ReadBy, At
    <3> QED BY <3>1, <3>2, <3>3 DEF ReadBy, SameCode, CodeOf
  <2> QED BY <2>1, <2>2
<1> QED BY <1>1 DEF ReadOK, ReadBy, At

LEMMA SameDepartments ==
    ASSUME UNCHANGED <<user, dept>>, raced \subseteq raced'
    PROVE  Marks(Requests)
BY DEF Marks, SameCode, CodeOf

(* One row is written: of the other students nothing changes. *)
LEMMA RowMarks ==
    ASSUME GInv, NEW r \in Requests, NEW u \in Users, UNCHANGED dept,
           \A v \in Users \ {u} : user'[v] = user[v],
           \A x \in Requests \ {r} : x \notin raced' /\ req[x].op = "transition" =>
             x \notin raced /\ (req[x].user # u \/ user'[u].dept = user[u].dept)
    PROVE  Marks(Requests \ {r})
<1>1. ASSUME NEW x \in Requests \ {r}, x \notin raced', req[x].op = "transition"
      PROVE  user'[req[x].user].dept = user[req[x].user].dept
  BY <1>1, Transitioning DEF GInv
<1> QED BY <1>1 DEF Marks, SameCode, CodeOf

LEMMA ProceedReads ==
    ASSUME GInv, NEW r \in Requests, Proceeds(r)
    PROVE  ReadOK'
<1>1. ASSUME ~CheckTransition(r), Marks(Requests \ {r})
      PROVE  ReadOK'
  <2>1. PICK q \in Request : Becomes(r, q) /\ q.op # "transition"
    <3>1. CASE \/ OpenSession(r) \/ WriteOwn(r) \/ WriteFields(r) \/ InsertUser(r) \/ MoveStudent(r)
               \/ WriteCourse(r)
      <4>1. Becomes(r, NoRequest)
        BY <3>1, Finishing DEF GInv, OpenSession, WriteOwn, WriteFields, InsertUser, MoveStudent,
           WriteCourse
      <4>2. NoRequest.op # "transition"
        BY AccountsAssumption DEF NoRequest, Ops
      <4> QED BY <4>1, <4>2 DEF Becomes
    <3>2. CASE WriteUser(r) \/ EndSessions(r)
      <4>1. At(r, "both") /\ req[r].op # "transition"
        BY <3>2 DEF WriteUser, EndSessions, GInv, TInv, ReqOK, Shaped, At
      <4>2. PICK write \in {"user", "sessions"}, failed \in BOOLEAN : Settle(r, write, failed)
        BY <3>2 DEF WriteUser, EndSessions
      <4>3. PICK q : Becomes(r, q) /\ (q = NoRequest \/ q.op = req[r].op)
        BY <4>1, <4>2, Settling DEF GInv
      <4>4. NoRequest.op # "transition"
        BY AccountsAssumption DEF NoRequest, Ops
      <4> QED BY <4>1, <4>3, <4>4 DEF Becomes
    <3> QED BY <1>1, <3>1, <3>2 DEF Proceeds
  <2> QED BY <1>1, <2>1, ReadKept
<1>2. CASE OpenSession(r) \/ EndSessions(r) \/ WriteCourse(r)
  <2>1. UNCHANGED <<user, dept, raced>> /\ ~CheckTransition(r)
    BY <1>2 DEF OpenSession, EndSessions, WriteCourse, CheckTransition, At, history
  <2> QED BY <1>1, <2>1, SameDepartments DEF Marks
<1>3. CASE WriteOwn(r)
  <2>1. UNCHANGED <<dept, raced>> /\ ~CheckTransition(r)
    BY <1>3 DEF WriteOwn, CheckTransition, At
  <2>2. PICK u \in Users : user'[u].dept = user[u].dept /\ \A v \in Users \ {u} : user'[v] = user[v]
    BY <1>3, OwnWritten DEF GInv
  <2> QED BY <1>1, <2>1, <2>2, RowMarks
<1>4. CASE WriteUser(r)
  <2>1. UNCHANGED <<dept, raced>> /\ ~CheckTransition(r)
    BY <1>4 DEF WriteUser, CheckTransition, At
  <2>2. CASE UNCHANGED user
    BY <1>1, <2>1, <2>2, SameDepartments DEF Marks
  <2>3. CASE Overwrites(r)
    <3>1. PICK u \in Users : user'[u].dept = user[u].dept /\ \A v \in Users \ {u} : user'[v] = user[v]
      BY <2>3, UserWritten DEF GInv
    <3> QED BY <1>1, <2>1, <3>1, RowMarks
  <2> QED BY <1>4, <2>2, <2>3, Zenon DEF WriteUser, Overwrites
<1>5. CASE WriteFields(r)
  <2>1. UNCHANGED dept /\ ~CheckTransition(r)
    BY <1>5 DEF WriteFields, CheckTransition, At
  <2>2. CASE UNCHANGED <<user, raced>>
    BY <1>1, <2>1, <2>2, SameDepartments DEF Marks
  <2>3. CASE Exists(req[r].arg.dept)
    <3>1. PICK u \in Users :
             /\ u = req[r].user
             /\ user'[u].dept = IF req[r].arg.dept = None THEN user[u].dept ELSE req[r].arg.dept
             /\ \A v \in Users \ {u} : user'[v] = user[v]
      BY <1>5, <2>3, FieldsWritten DEF GInv
    <3>2. \/ UNCHANGED <<user, raced>>
          \/ req[r].arg.dept = None /\ UNCHANGED raced
          \/ DepartmentChanges({u})
      BY <1>5, <3>1, Zenon DEF WriteFields
    <3>3. CASE req[r].arg.dept = None /\ UNCHANGED raced
      BY <1>1, <2>1, <3>1, <3>3, RowMarks
    <3>4. CASE DepartmentChanges({u})
      <4>1. \A x \in Requests : x \notin raced' /\ req[x].op = "transition" =>
              x \notin raced /\ req[x].user # u
        BY <3>4, Transitioning DEF GInv, DepartmentChanges
      <4> QED BY <1>1, <2>1, <3>1, <4>1, RowMarks
    <3> QED BY <2>2, <3>2, <3>3, <3>4
  <2> QED BY <1>5, <2>2, <2>3, Zenon DEF WriteFields
<1>6. CASE InsertUser(r)
  <2>1. UNCHANGED <<dept, raced>> /\ ~CheckTransition(r)
    BY <1>6 DEF InsertUser, CheckTransition, At
  <2>2. CASE UNCHANGED user
    BY <1>1, <2>1, <2>2, SameDepartments DEF Marks
  <2>3. CASE req[r].user \notin Rows /\ Exists(req[r].arg.dept)
    <3>1. PICK u \in Users : u = req[r].user /\ \A v \in Users \ {u} : user'[v] = user[v]
      BY <1>6, <2>3, UserInserted DEF GInv
    <3>2. \A x \in Requests : req[x].op = "transition" => req[x].user # u
      BY <2>3, <3>1, Transitioning DEF GInv
    <3> QED BY <1>1, <2>1, <3>1, <3>2, RowMarks
  <2> QED BY <1>6, <2>2, <2>3, Zenon DEF InsertUser
<1>7. CASE CheckTransition(r)
  <2>1. /\ UNCHANGED <<user, dept>> /\ At(r, "check")
        /\ UNCHANGED raced \/ raced' = raced \ {r}
    BY <1>7 DEF CheckTransition
  <2>2. Marks(Requests \ {r})
    BY <2>1 DEF Marks, SameCode, CodeOf
  <2>3. CASE Becomes(r, NoRequest)
    <3>1. NoRequest.op # "transition"
      BY AccountsAssumption DEF NoRequest, Ops
    <3> QED BY <2>2, <2>3, <3>1, ReadKept
  <2>4. ASSUME NEW q, Becomes(r, q), q.pc = "move", q.op = "transition", q.user = req[r].user,
               q.arg = req[r].arg, q.arg.from = "GE", UNCHANGED raced
        PROVE  ReadOK'
    <3>1. req[r].op = "transition"
      BY <2>1 DEF GInv, TInv, ReqOK, Shaped, At
    <3>2. r \notin raced' => ReadBy(q)'
      BY <2>1, <2>4, <3>1 DEF GInv, ReadOK, ReadBy, CodeOf
    <3> QED BY <2>2, <2>4, <3>2, ReadKept
  <2> QED BY <1>7, <2>3, <2>4, Checking DEF GInv
<1>8. CASE MoveStudent(r)
  <2>1. UNCHANGED dept /\ ~CheckTransition(r)
    BY <1>8 DEF MoveStudent, CheckTransition, At
  <2>2. CASE UNCHANGED user
    <3>1. Marks(Requests \ {r})
      BY <1>8, <2>1, <2>2 DEF MoveStudent, Marks, SameCode, CodeOf
    <3> QED BY <1>1, <2>1, <3>1
  <2>3. CASE user' # user
    <3>1. PICK u \in Users : u = req[r].user /\ \A v \in Users \ {u} : user'[v] = user[v]
      BY <1>8, <2>3, StudentMoved DEF GInv
    <3>2. \A x \in Requests \ {r} : x \notin raced' /\ req[x].op = "transition" =>
            x \notin raced /\ req[x].user # u
      BY <1>8, <2>3, <3>1 DEF MoveStudent
    <3> QED BY <1>1, <2>1, <3>1, <3>2, RowMarks
  <2> QED BY <2>2, <2>3
<1> QED BY <1>2, <1>3, <1>4, <1>5, <1>6, <1>7, <1>8 DEF Proceeds

LEMMA ElsewhereReads ==
    ASSUME GInv, Elsewhere
    PROVE  ReadOK'
<1>1. UNCHANGED req
  BY DEF Elsewhere, TokenExpires, Logout, RemoveDepartment, CreateDepartment, UpdateDepartment,
     RemoveCourse
<1>2. ASSUME Marks(Requests)
      PROVE  ReadOK'
  BY <1>1, <1>2 DEF Marks, SameCode, CodeOf, GInv, ReadOK, At
<1>3. CASE UNCHANGED <<user, dept, raced>>
  BY <1>2, <1>3, SameDepartments
<1>4. \A u \in Users : user[u].dept # None => user[u].dept \in Departments /\ dept[user[u].dept] # None
  BY DEF GInv, TInv, DataOK, UserRow, KeysOK
<1>5. dept \in [Departments -> Codes \cup {None}] /\ None \notin Departments
  BY AccountsAssumption DEF GInv, TInv, DataOK
<1>6. ASSUME NEW d \in Departments, NEW k \in Codes, CreateDepartment(d, k)
      PROVE  ReadOK'
  <2>1. dept[d] = None /\ dept' = [dept EXCEPT ![d] = k] /\ UNCHANGED <<user, raced>>
    BY <1>6 DEF CreateDepartment, history
  <2>2. \A u \in Users : SameCode(u)
    BY <1>4, <1>5, <2>1 DEF SameCode, CodeOf
  <2> QED BY <1>2, <2>1, <2>2, Transitioning DEF Marks, GInv
<1>7. ASSUME NEW d \in Departments, DepartmentChanges(Of(d)),
             \A u \in Users : user[u].dept # d => user'[u].dept = user[u].dept,
             \A e \in Departments \ {d} : dept'[e] = dept[e]
      PROVE  ReadOK'
  <2>1. \A u \in Users : user[u].dept # d => SameCode(u)
    BY <1>4, <1>5, <1>7 DEF SameCode, CodeOf
  <2>2. \A x \in Requests : x \notin raced' /\ req[x].op = "transition" =>
          x \notin raced /\ req[x].user \in Users /\ user[req[x].user].dept # d
    BY <1>7, Transitioning DEF DepartmentChanges, Of, GInv
  <2> QED BY <1>2, <2>1, <2>2 DEF Marks
<1>8. ASSUME NEW d \in Departments, NEW k \in Codes, UpdateDepartment(d, k)
      PROVE  ReadOK'
  BY <1>5, <1>7, <1>8 DEF UpdateDepartment
<1>9. ASSUME NEW d \in Departments, RemoveDepartment(d)
      PROVE  ReadOK'
  <2>1. \A u \in Users : user[u].dept # d => user'[u].dept = user[u].dept
    BY <1>9 DEF RemoveDepartment, Of
  <2> QED BY <1>5, <1>7, <1>9, <2>1 DEF RemoveDepartment
<1>10. \/ UNCHANGED <<user, dept, raced>>
       \/ \E d \in Departments : RemoveDepartment(d) \/ \E k \in Codes : CreateDepartment(d, k) \/ UpdateDepartment(d, k)
  BY DEF Elsewhere, TokenExpires, Logout, RemoveCourse, history
<1> QED BY <1>3, <1>6, <1>8, <1>9, <1>10

LEMMA TransitionStep == GInv /\ [Next]_vars => GInv'
<1> SUFFICES ASSUME GInv, [Next]_vars
             PROVE  ReadOK'
  BY TypeStep DEF GInv
<1>1. CASE UNCHANGED vars
  BY <1>1 DEF vars, history, GInv, ReadOK, CodeOf, At
<1>2. ASSUME NEW r \in Requests, Arrives(r)
      PROVE  ReadOK'
  <2>1. PICK q : Asked(r, q)
    BY <1>2, Arrived DEF GInv, Asking
  <2>2. UNCHANGED <<user, dept, raced>>
    BY <2>1 DEF Asked, history
  <2>3. q.op = "transition" => ReadBy(q)'
    BY <2>1, <2>2 DEF Asked, ReadBy, CodeOf
  <2> QED BY <2>1, <2>2, <2>3, SameDepartments, ReadKept DEF Asked, Marks
<1> QED BY <1>1, <1>2, Steps, ProceedReads, ElsewhereReads

LEMMA TransitionsHold == Spec => []GInv
<1>1. Init => ReadOK
  BY AccountsAssumption DEF Init, ReadOK, NoRequest, Ops
<1>2. Init => GInv
  BY <1>1, TypeInit DEF GInv
<1> QED BY <1>2, TransitionStep, PTL DEF Spec

(* A transition whose student's department nobody has changed since it was read takes the
   student away from General Education and from no other department, whatever updates,
   removals of departments and other transitions are under way beside it (users.service.ts:
   transitionStudentDepartment, which reads, checks and then writes). *)
THEOREM TransitionsLeaveGE == Spec => TransitionLeavesGE
<1> DEFINE Leaves == \A r \in Requests \ raced :
                       At(r, "move") /\ ~At(r, "move")' /\ user'[req[r].user].dept # user[req[r].user].dept
                       => CodeOf(user[req[r].user].dept) = "GE"
<1>1. GInv => [Leaves]_vars
  BY DEF GInv, TInv, ReqOK, Shaped, ReadOK, At
<1>2. [][Leaves]_vars <=> TransitionLeavesGE
  BY DEF TransitionLeavesGE
<1> HIDE DEF Leaves
<1> QED BY <1>1, <1>2, TransitionsHold, PTL

=============================================================================
