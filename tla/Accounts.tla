------------------------------ MODULE Accounts ------------------------------
(***************************************************************************)
(* Accounts and departments: login sessions and access tokens, the admin's   *)
(* operations on users, the transition of a student from General Education  *)
(* (GE) to another department, and the departments and courses that users    *)
(* and each other refer to.                                                *)
(*                                                                         *)
(* A request reads first and writes later; its pc names what it does next:   *)
(*                                                                         *)
(*   login                 session                                         *)
(*   change-password       own                                             *)
(*   deactivate, delete,   both: the row of the user and the sessions,       *)
(*   reset-password          written side by side in either order           *)
(*   activate, update      write                                           *)
(*   create                insert                                          *)
(*   transition            check -> move                                   *)
(*   course                course                                          *)
(*                                                                         *)
(* Passwords are hashed and compared in between, which takes time and        *)
(* changes nothing.  A wrong password, a wrong token and a user without the   *)
(* role are refused at once, and are left out.                             *)
(***************************************************************************)
EXTENDS Integers, FiniteSets, Sequences

CONSTANTS
    Users,
    Departments,    \* the ids departments may get
    Courses,
    Requests,       \* the requests under way at once
    Asks,           \* the operations there are
    Updates,        \* what an admin may write of a user, None for no change
    MaxSessions,    \* bound on the logins
    MaxOps,         \* bound on the requests
    Failing,        \* the writes that may throw: "user", "sessions"
    None

Codes == {"GE", "CS", "IT", "IS"}
Years == 1 .. 4

(* A password is the college id that it starts as, or one of the user's own. *)
Passwords == {"default", "own"}

Update == [active: BOOLEAN \cup {None}, must: BOOLEAN \cup {None},
           verified: BOOLEAN \cup {None}, pass: {"own", None},
           dept: Departments \cup {None}, year: Years \cup {None}]

Ops == {"login", "logout", "change-password", "deactivate", "delete", "reset-password", "activate",
        "update", "create", "transition", "departments", "course"}

ASSUME AccountsAssumption ==
    /\ Asks \subseteq Ops /\ None \notin Ops /\ Updates \subseteq Update
    /\ MaxSessions \in Nat /\ MaxOps \in Nat
    /\ Failing \subseteq {"user", "sessions"}
    /\ None \notin Users \cup Departments \cup Courses \cup Nat \cup BOOLEAN \cup Codes

VARIABLES
    user,       \* the rows of the users
    dept,       \* the code of each department, None without a row
    course,     \* the department of each course, None without a row
    session,    \* the sessions in the order of their logins
    token,      \* the users who hold an access token
    req,        \* the requests under way
    ops,
    (* What the properties compare the state with: *)
    revoked,    \* sessions that an answered operation was to end
    waived,     \* users whom an admin let keep the default password
    raced       \* transitions during which the student's department changed

history == <<revoked, waived, raced>>
vars == <<user, dept, course, session, token, req, ops, history>>

NoRequest == [pc |-> "idle", op |-> None, user |-> None, arg |-> None, left |-> {},
              due |-> {}, failed |-> FALSE]
NoUser == [row |-> FALSE, active |-> TRUE, must |-> TRUE, verified |-> FALSE,
           pass |-> "default", dept |-> None, year |-> None]

Student(d, y) == [row |-> TRUE, active |-> TRUE, must |-> FALSE, verified |-> TRUE,
                  pass |-> "own", dept |-> d, year |-> y]

Init ==
    /\ user \in [Users -> {NoUser} \cup {Student(d, y) : d \in Departments, y \in {2, 3}}]
    /\ dept \in [Departments -> Codes]
    /\ \A d, e \in Departments : d # e => dept[d] # dept[e]
    /\ course = [c \in Courses |-> None]
    /\ session = << >>
    /\ token = {}
    /\ req = [r \in Requests |-> NoRequest]
    /\ ops = 0
    /\ revoked = {} /\ waived = {} /\ raced = {}

Rows == {u \in Users : user[u].row}
Live(u) == {n \in DOMAIN session : session[n].user = u /\ session[n].live}

At(r, pc) == req[r].pc = pc
Done(r) == req' = [req EXCEPT ![r] = NoRequest]
Begin(r, op, u, arg, pc) ==
    /\ At(r, "idle") /\ op \in Asks /\ ops < MaxOps /\ ops' = ops + 1
    /\ req' = [req EXCEPT ![r] = [pc |-> pc, op |-> op, user |-> u, arg |-> arg, left |-> {},
                                  due |-> {}, failed |-> FALSE]]

Given(new, old) == IF new = None THEN old ELSE new
Moving(u) == {r \in Requests : req[r].op = "transition" /\ req[r].user = u}

-----------------------------------------------------------------------------
(* Sessions. *)

(* login reads the row once: the account need not be active. *)
Login(r, u) ==
    /\ u \in Rows /\ user[u].verified /\ ~user[u].must
    /\ Begin(r, "login", u, None, "session")
    /\ UNCHANGED <<user, dept, course, session, token, history>>

OpenSession(r) ==
    /\ At(r, "session") /\ Len(session) < MaxSessions /\ Done(r)
    /\ session' = Append(session, [user |-> req[r].user, live |-> TRUE])
    /\ token' = token \cup {req[r].user}
    /\ UNCHANGED <<user, dept, course, ops, history>>

(* An access token is good for an hour, whatever becomes of the session. *)
TokenExpires(u) ==
    /\ u \in token /\ token' = token \ {u}
    /\ UNCHANGED <<user, dept, course, session, req, ops, history>>

(* The controller takes the refresh token from the field userId. *)
Logout(u, n) ==
    /\ u \in token /\ "logout" \in Asks /\ n \in Live(u)
    /\ session' = [session EXCEPT ![n].live = FALSE]
    /\ UNCHANGED <<user, dept, course, token, req, ops, history>>

ChangePassword(r, u) ==
    /\ u \in token /\ Begin(r, "change-password", u, None, "own")
    /\ UNCHANGED <<user, dept, course, session, token, history>>

WithPassword(q, pass, must) ==
    [row |-> q.row, active |-> q.active, must |-> must, verified |-> q.verified, pass |-> pass,
     dept |-> q.dept, year |-> q.year]

WriteOwn(r) ==
    /\ At(r, "own") /\ Done(r)
    /\ user' = [user EXCEPT ![req[r].user] = WithPassword(@, "own", FALSE)]
    /\ waived' = waived \ {req[r].user}
    /\ UNCHANGED <<dept, course, session, token, ops, revoked, raced>>

-----------------------------------------------------------------------------
(* The admin's operations on users. *)

Both(op, u, left, due, failed) ==
    [pc |-> "both", op |-> op, user |-> u, arg |-> None, left |-> left, due |-> due, failed |-> failed]

(* deactivateUser, deleteUser and resetUserPassword: Promise.all over two writes. *)
TwoWrites(r, op, u) ==
    /\ u \in Rows /\ op \in {"deactivate", "delete", "reset-password"}
    /\ At(r, "idle") /\ op \in Asks /\ ops < MaxOps /\ ops' = ops + 1
    /\ req' = [req EXCEPT ![r] = Both(op, u, {"user", "sessions"}, Live(u), FALSE)]
    /\ UNCHANGED <<user, dept, course, session, token, history>>

(* A mutant: answers when the first write is done. *)
SettleFirst(r, write, failed) ==
    LET left == req[r].left \ {write} IN
      /\ IF left = {} THEN Done(r)
         ELSE req' = [req EXCEPT ![r] = Both(@.op, @.user, left, @.due, @.failed \/ failed)]
      /\ revoked' = IF ~failed THEN revoked \cup req[r].due ELSE revoked

(* The answer comes with the last write; a failed one makes it an error. *)
Settle(r, write, failed) ==
    LET left == req[r].left \ {write} IN
      /\ IF left = {} THEN Done(r)
         ELSE req' = [req EXCEPT ![r] = Both(@.op, @.user, left, @.due, @.failed \/ failed)]
      /\ revoked' = IF left = {} /\ ~failed /\ ~req[r].failed THEN revoked \cup req[r].due
                    ELSE revoked

(* A mutant: the reset leaves mustChangePassword as it was. *)
AfterWritePassword(op, q) ==
    IF op = "reset-password" THEN [q EXCEPT !.pass = "default"] ELSE [q EXCEPT !.active = FALSE]

AfterWrite(op, q) ==
    IF op = "reset-password" THEN WithPassword(q, "default", TRUE) ELSE [q EXCEPT !.active = FALSE]

WriteUser(r) ==
    /\ At(r, "both") /\ "user" \in req[r].left
    /\ LET u == req[r].user IN
         \/ /\ user' = [user EXCEPT ![u] = AfterWrite(req[r].op, @)]
            /\ waived' = IF req[r].op = "reset-password" THEN waived \ {u} ELSE waived
            /\ Settle(r, "user", FALSE)
         \/ "user" \in Failing /\ Settle(r, "user", TRUE) /\ UNCHANGED <<user, waived>>
    /\ UNCHANGED <<dept, course, session, token, ops, raced>>

EndSessions(r) ==
    /\ At(r, "both") /\ "sessions" \in req[r].left
    /\ \/ /\ session' = [n \in DOMAIN session |-> IF n \in Live(req[r].user)
                           THEN [session[n] EXCEPT !.live = FALSE] ELSE session[n]]
          /\ Settle(r, "sessions", FALSE)
       \/ "sessions" \in Failing /\ Settle(r, "sessions", TRUE) /\ UNCHANGED session
    /\ UNCHANGED <<user, dept, course, token, ops, waived, raced>>

Activation == [active |-> TRUE, must |-> None, verified |-> None, pass |-> None,
               dept |-> None, year |-> None]

ActivateUser(r, u) ==
    /\ u \in Rows /\ Begin(r, "activate", u, Activation, "write")
    /\ UNCHANGED <<user, dept, course, session, token, history>>

(* updateUser ends no session, neither for isActive nor for a new password. *)
UpdateUser(r, u, c) ==
    /\ u \in Rows /\ Begin(r, "update", u, c, "write")
    /\ UNCHANGED <<user, dept, course, session, token, history>>

Exists(d) == d # None => dept[d] # None
DepartmentChanges(us) == raced' = raced \cup {r \in Requests : req[r].op = "transition"
                                                 /\ req[r].user \in us /\ ~At(r, "idle")}

(* A new password makes mustChangePassword FALSE, whatever the update says of it. *)
Updated(q, c) ==
    [row |-> q.row, active |-> Given(c.active, q.active),
     must |-> IF c.pass # None THEN FALSE ELSE Given(c.must, q.must),
     verified |-> Given(c.verified, q.verified), pass |-> Given(c.pass, q.pass),
     dept |-> Given(c.dept, q.dept), year |-> Given(c.year, q.year)]

(* The write of an update or an activation; a department that is gone makes it throw. *)
WriteFields(r) ==
    /\ At(r, "write") /\ Done(r)
    /\ LET u == req[r].user  c == req[r].arg IN
         \/ /\ Exists(c.dept)
            /\ user' = [user EXCEPT ![u] = Updated(@, c)]
            /\ waived' = CASE c.pass # None -> waived \ {u}
                           [] c.pass = None /\ c.must # None ->
                                IF c.must THEN waived \ {u} ELSE waived \cup {u}
                           [] OTHER -> waived
            /\ IF c.dept = None THEN UNCHANGED raced ELSE DepartmentChanges({u})
         \/ ~Exists(c.dept) /\ UNCHANGED <<user, waived, raced>>
    /\ UNCHANGED <<dept, course, session, token, ops, revoked>>

(* createUser: the email is free when it is looked up, and the password is the
   college id. *)
CreateUser(r, u, c) ==
    /\ u \notin Rows /\ c.pass = None /\ Begin(r, "create", u, c, "insert")
    /\ UNCHANGED <<user, dept, course, session, token, history>>

(* The emails are unique: the second of two inserts throws. *)
InsertUser(r) ==
    /\ At(r, "insert") /\ Done(r)
    /\ LET u == req[r].user  c == req[r].arg IN
         \/ /\ u \notin Rows /\ Exists(c.dept)
            /\ user' = [user EXCEPT ![u] = Updated([NoUser EXCEPT !.row = TRUE], c)]
            /\ waived' = IF c.must = FALSE THEN waived \cup {u} ELSE waived
         \/ (u \in Rows \/ ~Exists(c.dept)) /\ UNCHANGED <<user, waived>>
    /\ UNCHANGED <<dept, course, session, token, ops, revoked, raced>>

-----------------------------------------------------------------------------
(* transitionStudentDepartment *)

CodeOf(d) == IF d = None THEN None ELSE dept[d]

(* The student with the department, in one query. *)
Transition(r, u, d) ==
    /\ u \in Rows
    /\ Begin(r, "transition", u, [to |-> d, from |-> CodeOf(user[u].dept), year |-> user[u].year],
             "check")
    /\ UNCHANGED <<user, dept, course, session, token, history>>

(* A mutant: asks for the year alone. *)
AllowedByYear(c, code) == c.year = 3 => code \in {"CS", "IT", "IS"}

(* The rules of the college, as the code asks them. *)
Allowed(c, code) ==
    \/ c.year = 3 /\ c.from = "GE" /\ code \in {"CS", "IT", "IS"}
    \/ c.year # 3 /\ (c.year = None \/ c.year > 3) /\ c.from = "GE"

CheckTransition(r) ==
    /\ At(r, "check")
    /\ LET c == req[r].arg IN
         IF dept[c.to] # None /\ Allowed(c, dept[c.to])
         THEN req' = [req EXCEPT ![r].pc = "move"] /\ UNCHANGED raced
         ELSE Done(r) /\ raced' = raced \ {r}
    /\ UNCHANGED <<user, dept, course, session, token, ops, revoked, waived>>

MoveStudent(r) ==
    /\ At(r, "move") /\ Done(r)
    /\ LET u == req[r].user  d == req[r].arg.to IN
         \/ /\ Exists(d)
            /\ user' = [user EXCEPT ![u].dept = d]
            /\ raced' = (raced \cup {x \in Requests : req[x].op = "transition"
                                        /\ req[x].user = u}) \ {r}
         \/ ~Exists(d) /\ raced' = raced \ {r} /\ UNCHANGED user
    /\ UNCHANGED <<dept, course, session, token, ops, revoked, waived>>

-----------------------------------------------------------------------------
(* Departments and courses.  The codes of departments are unique. *)

FreeCode(code) == \A d \in Departments : dept[d] # code

CreateDepartment(d, code) ==
    /\ "departments" \in Asks /\ ops < MaxOps /\ ops' = ops + 1
    /\ dept[d] = None /\ FreeCode(code)
    /\ dept' = [dept EXCEPT ![d] = code]
    /\ UNCHANGED <<user, course, session, token, req, history>>

Of(d) == {u \in Users : user[u].dept = d}

UpdateDepartment(d, code) ==
    /\ "departments" \in Asks /\ ops < MaxOps /\ ops' = ops + 1
    /\ dept[d] # None /\ FreeCode(code)
    /\ dept' = [dept EXCEPT ![d] = code]
    /\ DepartmentChanges(Of(d))
    /\ UNCHANGED <<user, course, session, token, req, revoked, waived>>

(* The foreign keys: a department with courses stays, and its users lose it. *)
RemoveDepartment(d) ==
    /\ "departments" \in Asks /\ ops < MaxOps /\ ops' = ops + 1
    /\ dept[d] # None /\ \A c \in Courses : course[c] # d
    /\ dept' = [dept EXCEPT ![d] = None]
    /\ user' = [u \in Users |-> IF u \in Of(d) THEN [user[u] EXCEPT !.dept = None] ELSE user[u]]
    /\ DepartmentChanges(Of(d))
    /\ UNCHANGED <<course, session, token, req, revoked, waived>>

(* create, and update with a department: the department is looked up first. *)
CreateCourse(r, c, d) ==
    /\ dept[d] # None /\ Begin(r, "course", None, [course |-> c, to |-> d, new |-> TRUE], "course")
    /\ UNCHANGED <<user, dept, course, session, token, history>>

UpdateCourse(r, c, d) ==
    /\ dept[d] # None /\ course[c] # None
    /\ Begin(r, "course", None, [course |-> c, to |-> d, new |-> FALSE], "course")
    /\ UNCHANGED <<user, dept, course, session, token, history>>

(* A mutant: without the foreign key. *)
WriteCourseAlways(r) ==
    /\ At(r, "course") /\ Done(r)
    /\ LET c == req[r].arg IN
         course' = IF c.new = (course[c.course] = None) THEN [course EXCEPT ![c.course] = c.to]
                   ELSE course
    /\ UNCHANGED <<user, dept, session, token, ops, history>>

(* A code that is taken, a row that is gone or a department that is gone throws. *)
WriteCourse(r) ==
    /\ At(r, "course") /\ Done(r)
    /\ LET c == req[r].arg IN
         course' = IF Exists(c.to) /\ c.new = (course[c.course] = None)
                   THEN [course EXCEPT ![c.course] = c.to] ELSE course
    /\ UNCHANGED <<user, dept, session, token, ops, history>>

RemoveCourse(c) ==
    /\ "course" \in Asks /\ ops < MaxOps /\ ops' = ops + 1
    /\ course[c] # None /\ course' = [course EXCEPT ![c] = None]
    /\ UNCHANGED <<user, dept, session, token, req, history>>

-----------------------------------------------------------------------------

Next ==
    \/ \E r \in Requests :
          \/ OpenSession(r) \/ WriteOwn(r) \/ WriteUser(r) \/ EndSessions(r) \/ WriteFields(r)
          \/ InsertUser(r) \/ CheckTransition(r) \/ MoveStudent(r) \/ WriteCourse(r)
          \/ \E u \in Users :
                \/ Login(r, u) \/ ChangePassword(r, u) \/ ActivateUser(r, u)
                \/ \E op \in Asks : TwoWrites(r, op, u)
                \/ \E c \in Updates : UpdateUser(r, u, c) \/ CreateUser(r, u, c)
                \/ \E d \in Departments : Transition(r, u, d)
          \/ \E c \in Courses, d \in Departments : CreateCourse(r, c, d) \/ UpdateCourse(r, c, d)
    \/ \E u \in Users : TokenExpires(u) \/ \E n \in DOMAIN session : Logout(u, n)
    \/ \E d \in Departments :
          RemoveDepartment(d) \/ \E k \in Codes : CreateDepartment(d, k) \/ UpdateDepartment(d, k)
    \/ \E c \in Courses : RemoveCourse(c)

Spec == Init /\ [][Next]_vars

-----------------------------------------------------------------------------
(* Properties. *)

Referenced == {None} \cup {d \in Departments : dept[d] # None}

(* Every variable has its type, and the references to departments are to rows. *)
TypeOK ==
    /\ \A u \in Users : /\ user[u].dept \in Referenced /\ user[u].pass \in Passwords
                        /\ user[u].year \in Years \cup {None}
                        /\ {user[u].row, user[u].active, user[u].must, user[u].verified}
                              \subseteq BOOLEAN
    /\ dept \in [Departments -> Codes \cup {None}]
    /\ \A d, e \in Departments : d # e /\ dept[d] # None => dept[d] # dept[e]
    /\ course \in [Courses -> Referenced]
    /\ \A n \in DOMAIN session : session[n].user \in Rows
    /\ token \subseteq Rows /\ raced \subseteq Requests
    /\ revoked \subseteq DOMAIN session

(* An operation that ends the sessions of a user has ended, when it answers, all that
   there were when it began, and none of them comes back: deactivateUser, deleteUser and
   resetUserPassword write the sessions beside the user, in either order. *)
RevokedStayEnded == \A n \in revoked : ~session[n].live

(* Whoever has the college id as the password must change it, except when an admin has
   set mustChangePassword to FALSE: resets, changes by the user and updates by an admin
   write the two together, in whichever order they meet. *)
DefaultMustChange ==
    \A u \in Rows \ waived : user[u].pass = "default" => user[u].must

(* A transition takes a student away from GE and from no other department, unless the
   student's department changed after the transition had read it. *)
TransitionLeavesGE ==
    [][\A r \in Requests \ raced :
         At(r, "move") /\ ~At(r, "move")' /\ user'[req[r].user].dept # user[req[r].user].dept
         => CodeOf(user[req[r].user].dept) = "GE"]_vars
=============================================================================
