--------------------------- MODULE AcademicRooms ---------------------------
(***************************************************************************)
(* The classes, sections, professors and enrolments of one course, and the *)
(* chat rooms that are to follow them.                                     *)
(*                                                                         *)
(* CoursesService (courses.service.ts) writes one academic row and emits   *)
(* an event.  EventEmitter2 calls the handler at once and nobody awaits    *)
(* it: ChatAutomationService (chat-automation.service.ts) reads and writes *)
(* rooms and member rows in further Prisma calls, outside any transaction, *)
(* while later events are handled.  A task is an HTTP operation followed   *)
(* by the handler of its event; its pc names the database call it makes    *)
(* next, and an action is that call with the code up to the next one.      *)
(***************************************************************************)
EXTENDS Naturals, FiniteSets

CONSTANTS
    Classes, Sections,              \* ids, each given to one row at most
    Students, Professors, TAs,      \* users: who enrols, teaches, assists
    Roles,                          \* the enrolment roles of this instance
    Rooms,                          \* ids of chat_rooms, bounds their number
    Tasks,                          \* operations and handlers in flight
    None,                           \* SQL NULL
    Ops, Failing                    \* operations issued, those that may fail

EnrolmentRoles == {"STUDENT", "TA", "PROFESSOR"}
AllOps == {"createClass", "deleteClass", "createSection", "updateSection",
           "deleteSection", "assign", "dismiss", "enrol", "unenrol"}
Users == Students \cup Professors \cup TAs

ASSUME AcademicAssumption ==
    /\ IsFiniteSet(Tasks) /\ IsFiniteSet(Rooms)
    /\ Classes \cap TAs = {}
    /\ {None, "unused", "unlinked"} \cap (Classes \cup TAs) = {}
    /\ None \notin {"unused", "unlinked"}
    /\ {None, "new", "gone"} \cap TAs = {}
    /\ None \notin Users /\ None \notin Sections /\ None \notin Rooms
    /\ Roles \subseteq EnrolmentRoles /\ Ops \subseteq AllOps
    /\ Failing \subseteq AllOps

VARIABLES
    class,       \* course_classes: not yet, still or no longer there
    section,     \* course_sections: "new", the TA's id, or "gone"
    professor,   \* class_professors
    enrolled,    \* course_enrollments, unique per course and user
    room,        \* chat_rooms: the class or TA that key names, and is_active
    member,      \* room_members, unique per room and user
    task,        \* the operations and handlers in flight
    (* history *)
    followed,    \* <<user, class>>: the last event about them met a room and
                 \* no other event, and its handler did not fail
    overridden,  \* <<user, class>>: the last event about them was written
                 \* beside a row of the other kind and overrides what it gave
    strays       \* users for whom a section event met what the comment on
                 \* TaRoomMembersAreEnrolled lists

records == <<class, section, professor, enrolled>>
rooms == <<room, member>>
history == <<followed, overridden, strays>>
vars == <<records, rooms, task, history>>

NotEnrolled == [c |-> None, s |-> None, role |-> "NONE"]
Enrolment == [c : Classes \cup {None}, s : Sections \cup {None}, role : EnrolmentRoles]
Unused == [key |-> "unused", active |-> FALSE]
Room == [key : Classes \cup TAs \cup {"unused", "unlinked"}, active : BOOLEAN]
MemberRole == {"NONE", "MEMBER", "ADMIN"}        \* "NONE": there is no row
Steps == {"createRoom", "deactivate", "write", "delete", "students", "oldRoom",
          "expelOld", "findTaRoom", "createTaRoom", "addTa", "move", "siblings",
          "deactivateTa", "classRoom", "upsertClass", "expelProfessor",
          "sectionTa", "joinTaRoom", "upsertTa", "findRooms", "expel"}
(* todo: the students a change of TA moves; from: the rooms to leave. *)
Idle == [op |-> "none", pc |-> "idle", c |-> None, s |-> None, u |-> None,
         t |-> None, prev |-> None, role |-> "NONE", room |-> None,
         todo |-> {}, from |-> {}]
Task == [op : AllOps, pc : Steps, c : Classes \cup {None},
         s : Sections \cup {None}, u : Users \cup {None}, t : TAs \cup {None},
         prev : TAs \cup {None}, role : EnrolmentRoles \cup {"NONE"},
         room : Rooms \cup {None}, todo : SUBSET Users, from : SUBSET Rooms]

Init ==
    /\ class = [c \in Classes |-> "new"]
    /\ section = [s \in Sections |-> "new"]
    /\ professor = {}
    /\ enrolled = [u \in Users |-> NotEnrolled]
    /\ room = [r \in Rooms |-> Unused]
    /\ member = [r \in Rooms |-> [u \in Users |-> "NONE"]]
    /\ task = [k \in Tasks |-> Idle]
    /\ followed = {}
    /\ overridden = {}
    /\ strays = {}

RoomsOf(key) == {r \in Rooms : room[r].key = key}
NewRoom == CHOOSE r \in Rooms : room[r].key = "unused"
InSection(s) == {u \in Users : enrolled[u].s = s}

Start(k, t) == task[k] = Idle /\ task' = [task EXCEPT ![k] = t]
Goto(k, step) == task' = [task EXCEPT ![k].pc = step]
End(k) == task' = [task EXCEPT ![k] = Idle]

(* History: an event about u and c is written; beside: while a row of the  *)
(* other kind (enrolment, assignment), which calls for another member row, *)
(* is there too.                                                           *)
Follow(u, c, beside) ==
    /\ followed' = IF RoomsOf(c) # {} /\ \A j \in Tasks : task[j].u = u => task[j].c # c
                   THEN followed \cup {<<u, c>>} ELSE followed \ {<<u, c>>}
    /\ overridden' = IF beside THEN overridden \cup {<<u, c>>}
                               ELSE overridden \ {<<u, c>>}

(* History: an event about users us and section s begins.                  *)
Entangle(us, s) ==
    LET met == {j \in Tasks : \/ task[j].u \in us
                              \/ task[j].s = s /\ s # None /\ task[j].op # "createSection"}
    IN  strays' = IF met = {} THEN strays
                  ELSE strays \cup us \cup ({task[j].u : j \in met} \ {None})

----------------------------------------------------------------------------
(* Classes.  The foreign key of class_professors refuses the deletion of a *)
(* class that has one; those of enrolments and rooms are set to NULL.      *)

CreateClass(k, c) ==
    /\ class[c] = "new"
    /\ class' = [class EXCEPT ![c] = "live"]
    /\ Start(k, [Idle EXCEPT !.op = "createClass", !.pc = "createRoom", !.c = c])
    /\ UNCHANGED <<section, professor, enrolled, rooms, history>>

(* Enrolments and professors that are there already are read, but only to  *)
(* subscribe them to notifications: they get no member rows.               *)
CreateClassRoom(k) ==
    /\ task[k].pc = "createRoom"
    /\ IF class[task[k].c] = "live"
       THEN /\ RoomsOf("unused") # {}
            /\ room' = [room EXCEPT ![NewRoom] = [key |-> task[k].c, active |-> TRUE]]
       ELSE UNCHANGED room
    /\ End(k)
    /\ UNCHANGED <<records, member, history>>

DeleteClass(k, c) ==
    /\ class[c] = "live"
    /\ \A p \in Professors : <<c, p>> \notin professor
    /\ class' = [class EXCEPT ![c] = "gone"]
    /\ enrolled' = [u \in Users |-> IF enrolled[u].c = c
                                    THEN [enrolled[u] EXCEPT !.c = None] ELSE enrolled[u]]
    /\ room' = [r \in Rooms |-> IF room[r].key = c
                                THEN [room[r] EXCEPT !.key = "unlinked"] ELSE room[r]]
    /\ Start(k, [Idle EXCEPT !.op = "deleteClass", !.pc = "deactivate", !.c = c])
    /\ UNCHANGED <<section, professor, member, history>>

Deactivate(key) ==
    room' = [r \in Rooms |-> IF room[r].key = key
                             THEN [room[r] EXCEPT !.active = FALSE] ELSE room[r]]

DeactivateClassRoom(k) ==
    /\ task[k].pc = "deactivate"
    /\ Deactivate(task[k].c)
    /\ End(k)
    /\ UNCHANGED <<records, member, history>>

----------------------------------------------------------------------------
(* Sections.  A TA has one room for all sections of the course.            *)

CreateSection(k, s, t) ==
    /\ section[s] = "new"
    /\ section' = [section EXCEPT ![s] = t]
    /\ Start(k, [Idle EXCEPT !.op = "createSection", !.pc = "findTaRoom",
                             !.s = s, !.t = t])
    /\ UNCHANGED <<class, professor, enrolled, rooms, history>>

(* handleSectionCreatedEvent catches its errors, so section.updated goes   *)
(* on after it in any case.                                                *)
AfterTaRoom(k) ==
    IF task[k].op = "updateSection" THEN Goto(k, "move") ELSE End(k)

(* Mutant of FindTaRoom: a room that was deactivated does not count.       *)
FindTaRoomActive(k) ==
    /\ task[k].pc = "findTaRoom"
    /\ IF \A r \in RoomsOf(task[k].t) : ~room[r].active
       THEN Goto(k, "createTaRoom") ELSE AfterTaRoom(k)
    /\ UNCHANGED <<records, rooms, history>>

FindTaRoom(k) ==
    /\ task[k].pc = "findTaRoom"
    /\ IF RoomsOf(task[k].t) = {}
       THEN Goto(k, "createTaRoom") ELSE AfterTaRoom(k)
    /\ UNCHANGED <<records, rooms, history>>

CreateTaRoom(k) ==
    /\ task[k].pc = "createTaRoom"
    /\ RoomsOf("unused") # {}
    /\ room' = [room EXCEPT ![NewRoom] = [key |-> task[k].t, active |-> TRUE]]
    /\ task' = [task EXCEPT ![k].pc = "addTa", ![k].room = NewRoom]
    /\ UNCHANGED <<records, member, history>>

(* A create, which the unique key refuses if the TA has a row already.     *)
AddTa(k) ==
    /\ task[k].pc = "addTa"
    /\ member' = [member EXCEPT ![task[k].room][task[k].t] =
                    IF @ = "NONE" THEN "ADMIN" ELSE @]
    /\ AfterTaRoom(k)
    /\ UNCHANGED <<records, room, history>>

(* updateSection reads the row for the previous TA; t is None when the     *)
(* request does not name a TA.                                             *)
UpdateSection(k, s, t) ==
    /\ section[s] \in TAs
    /\ Start(k, [Idle EXCEPT !.op = "updateSection", !.pc = "write",
                             !.s = s, !.t = t, !.prev = section[s]])
    /\ Entangle(InSection(s), s)
    /\ UNCHANGED <<records, rooms, followed, overridden>>

UpdateSectionWrite(k) ==
    LET s == task[k].s
        t == IF task[k].t = None THEN section[s] ELSE task[k].t
    IN  /\ task[k].pc = "write"
        /\ IF section[s] \in TAs
           THEN /\ section' = [section EXCEPT ![s] = t]
                /\ IF t # task[k].prev
                   THEN task' = [task EXCEPT ![k].pc = "students", ![k].t = t]
                   ELSE End(k)
           ELSE UNCHANGED section /\ End(k)
        /\ UNCHANGED <<class, professor, enrolled, rooms, history>>

(* Only enrolments with the role STUDENT move. *)
ReadStudents(k) ==
    LET students == {u \in InSection(task[k].s) : enrolled[u].role = "STUDENT"}
    IN  /\ task[k].pc = "students"
        /\ task' = [task EXCEPT ![k].pc = "oldRoom", ![k].todo = students]
        /\ strays' = strays \cup (InSection(task[k].s) \ students)
        /\ UNCHANGED <<records, rooms, followed, overridden>>

FindOldRoom(k) ==
    LET old == RoomsOf(task[k].prev)
    IN  /\ task[k].pc = "oldRoom"
        /\ \/ \E r \in old : task' = [task EXCEPT ![k].pc = "expelOld", ![k].room = r]
           \/ old = {} /\ Goto(k, "findTaRoom")
        /\ strays' = IF Cardinality(old) > 1 THEN strays \cup task[k].todo ELSE strays
        /\ UNCHANGED <<records, rooms, followed, overridden>>

(* Mutant of ExpelFromOldRoom: the event's TA is taken for the previous.   *)
ExpelFromNewRoom(k) ==
    /\ task[k].pc = "expelOld"
    /\ member' = [r \in Rooms |-> [u \in Users |->
                    IF room[r].key = task[k].t /\ u \in task[k].todo
                    THEN "NONE" ELSE member[r][u]]]
    /\ Goto(k, "findTaRoom")
    /\ UNCHANGED <<records, room, history>>

ExpelFromOldRoom(k) ==
    /\ task[k].pc = "expelOld"
    /\ member' = [member EXCEPT ![task[k].room] =
                    [u \in Users |-> IF u \in task[k].todo THEN "NONE" ELSE @[u]]]
    /\ Goto(k, "findTaRoom")
    /\ UNCHANGED <<records, room, history>>

(* The loop passes the TA's id for the user and the student's id for the   *)
(* section: each turn looks up a section with the id of a user, finds none *)
(* and returns.                                                            *)
MoveStudents(k) ==
    /\ task[k].pc = "move"
    /\ End(k)
    /\ UNCHANGED <<records, rooms, history>>

DeleteSection(k, s) ==
    /\ section[s] \in TAs
    /\ Start(k, [Idle EXCEPT !.op = "deleteSection", !.pc = "delete",
                             !.s = s, !.t = section[s]])
    /\ Entangle(InSection(s), s)
    /\ UNCHANGED <<records, rooms, followed, overridden>>

DeleteSectionWrite(k) ==
    LET s == task[k].s
    IN  /\ task[k].pc = "delete"
        /\ IF section[s] \in TAs
           THEN /\ section' = [section EXCEPT ![s] = "gone"]
                /\ enrolled' = [u \in Users |->
                     IF enrolled[u].s = s THEN [enrolled[u] EXCEPT !.s = None]
                                          ELSE enrolled[u]]
                /\ strays' = strays \cup InSection(s)
                /\ Goto(k, "siblings")
           ELSE End(k) /\ UNCHANGED <<section, enrolled, strays>>
        /\ UNCHANGED <<class, professor, rooms, followed, overridden>>

FindSiblings(k) ==
    /\ task[k].pc = "siblings"
    /\ IF \E s \in Sections : section[s] = task[k].t
       THEN End(k) ELSE Goto(k, "deactivateTa")
    /\ UNCHANGED <<records, rooms, history>>

DeactivateTaRoom(k) ==
    /\ task[k].pc = "deactivateTa"
    /\ Deactivate(task[k].t)
    /\ End(k)
    /\ UNCHANGED <<records, member, history>>

----------------------------------------------------------------------------
(* Professors and enrolments                                               *)

AssignProfessor(k, c, p) ==
    /\ class[c] = "live" /\ <<c, p>> \notin professor
    /\ professor' = professor \cup {<<c, p>>}
    /\ Start(k, [Idle EXCEPT !.op = "assign", !.pc = "classRoom", !.c = c,
                             !.u = p, !.role = "PROFESSOR"])
    /\ Follow(p, c, FALSE)
    /\ UNCHANGED <<class, section, enrolled, rooms, strays>>

RemoveProfessor(k, c, p) ==
    /\ <<c, p>> \in professor
    /\ professor' = professor \ {<<c, p>>}
    /\ Start(k, [Idle EXCEPT !.op = "dismiss", !.pc = "classRoom", !.c = c, !.u = p])
    /\ Follow(p, c, enrolled[p].c = c)
    /\ UNCHANGED <<class, section, enrolled, rooms, strays>>

ExpelProfessor(k) ==
    /\ task[k].pc = "expelProfessor"
    /\ member' = [member EXCEPT ![task[k].room][task[k].u] = "NONE"]
    /\ End(k)
    /\ UNCHANGED <<records, room, history>>

CreateEnrolment(k, u, c, s, role) ==
    /\ enrolled[u] = NotEnrolled
    /\ c # None => class[c] = "live"
    /\ s # None => section[s] \in TAs
    /\ enrolled' = [enrolled EXCEPT ![u] = [c |-> c, s |-> s, role |-> role]]
    /\ Start(k, IF c = None /\ s = None THEN Idle
                ELSE [Idle EXCEPT !.op = "enrol",
                        !.pc = IF c # None THEN "classRoom" ELSE "sectionTa",
                        !.c = c, !.s = s, !.u = u, !.role = role])
    /\ IF c = None THEN UNCHANGED <<followed, overridden>>
                   ELSE Follow(u, c, <<c, u>> \in professor)
    /\ Entangle({u}, s)
    /\ UNCHANGED <<class, section, professor, rooms>>

(* addUserToClassRoom returns, having found no room, failed or written.    *)
AfterClassRoom(k) ==
    IF task[k].op = "enrol" /\ task[k].s # None THEN Goto(k, "sectionTa") ELSE End(k)

FindClassRoom(k) ==
    LET found == RoomsOf(task[k].c)
        step == IF task[k].op = "dismiss" THEN "expelProfessor" ELSE "upsertClass"
    IN  /\ task[k].pc = "classRoom"
        /\ \/ \E r \in found : task' = [task EXCEPT ![k].pc = step, ![k].room = r]
           \/ found = {} /\ AfterClassRoom(k)
        /\ UNCHANGED <<records, rooms, history>>

(* Mutant of RoomRole: the academic role is stored as it is.               *)
RoomRoleUnmapped(role) == IF role = "STUDENT" THEN "MEMBER" ELSE role

RoomRole(role) == IF role = "PROFESSOR" THEN "ADMIN" ELSE "MEMBER"

UpsertClassMember(k) ==
    /\ task[k].pc = "upsertClass"
    /\ member' = [member EXCEPT ![task[k].room][task[k].u] = RoomRole(task[k].role)]
    /\ AfterClassRoom(k)
    /\ UNCHANGED <<records, room, history>>

ReadSectionTa(k) ==
    LET t == section[task[k].s]
    IN  /\ task[k].pc = "sectionTa"
        /\ IF t \in TAs
           THEN task' = [task EXCEPT ![k].t = t,
                   ![k].pc = IF task[k].op = "enrol" THEN "joinTaRoom" ELSE "findRooms"]
           ELSE IF task[k].op = "enrol" THEN End(k) ELSE Goto(k, "findRooms")
        /\ UNCHANGED <<records, rooms, history>>

FindTaRoomToJoin(k) ==
    LET found == RoomsOf(task[k].t)
    IN  /\ task[k].pc = "joinTaRoom"
        /\ \/ \E r \in found : task' = [task EXCEPT ![k].pc = "upsertTa", ![k].room = r]
           \/ found = {} /\ End(k)
        /\ UNCHANGED <<records, rooms, history>>

UpsertTaRoomMember(k) ==
    /\ task[k].pc = "upsertTa"
    /\ member' = [member EXCEPT ![task[k].room][task[k].u] = "MEMBER"]
    /\ End(k)
    /\ UNCHANGED <<records, room, history>>

RemoveEnrolment(k, u) ==
    LET e == enrolled[u]
    IN  /\ e # NotEnrolled
        /\ enrolled' = [enrolled EXCEPT ![u] = NotEnrolled]
        /\ Start(k, [Idle EXCEPT !.op = "unenrol", !.c = e.c, !.s = e.s, !.u = u,
                       !.pc = IF e.s # None THEN "sectionTa" ELSE "findRooms"])
        /\ IF e.c = None THEN UNCHANGED <<followed, overridden>>
                         ELSE Follow(u, e.c, <<e.c, u>> \in professor)
        /\ Entangle({u}, e.s)
        /\ UNCHANGED <<class, section, professor, rooms>>

(* Mutant of FindEnrolmentRooms: the section takes the place of the class. *)
FindEnrolmentRoomsEither(k) ==
    LET key == IF task[k].t # None THEN task[k].t ELSE task[k].c
    IN  /\ task[k].pc = "findRooms"
        /\ task' = [task EXCEPT ![k].pc = "expel", ![k].from = RoomsOf(key)]
        /\ UNCHANGED <<records, rooms, history>>

(* None, the key of no room, stands for an absent condition. *)
FindEnrolmentRooms(k) ==
    /\ task[k].pc = "findRooms"
    /\ task' = [task EXCEPT ![k].pc = "expel",
                            ![k].from = RoomsOf(task[k].c) \cup RoomsOf(task[k].t)]
    /\ UNCHANGED <<records, rooms, history>>

(* One turn of the loop, or its end. *)
ExpelFromRooms(k) ==
    /\ task[k].pc = "expel"
    /\ \/ \E r \in task[k].from :
            /\ member' = [member EXCEPT ![r][task[k].u] = "NONE"]
            /\ task' = [task EXCEPT ![k].from = @ \ {r}]
       \/ task[k].from = {} /\ End(k) /\ UNCHANGED member
    /\ UNCHANGED <<records, room, history>>

----------------------------------------------------------------------------
(* The next call throws.  addUserToClassRoom and handleSectionCreatedEvent *)
(* catch it and their callers go on; elsewhere the handler or the request  *)
(* ends.  What was written stays, and no event is handled again.           *)
Fail(k) ==
    LET us == IF task[k].op = "updateSection" THEN InSection(task[k].s)
              ELSE {task[k].u} \ {None}
    IN  /\ task[k].op \in Failing
        /\ \/ task[k].pc \in {"classRoom", "upsertClass"} /\ AfterClassRoom(k)
           \/ task[k].pc \in {"findTaRoom", "createTaRoom", "addTa"} /\ AfterTaRoom(k)
           \/ /\ task[k].pc \notin {"classRoom", "upsertClass", "findTaRoom",
                                    "createTaRoom", "addTa"}
              /\ End(k)
        /\ followed' = followed \ {<<task[k].u, task[k].c>>}
        /\ strays' = strays \cup us
        /\ UNCHANGED <<records, rooms, overridden>>

Arrive(k) ==
    \/ \E c \in Classes :
         \/ "createClass" \in Ops /\ CreateClass(k, c)
         \/ "deleteClass" \in Ops /\ DeleteClass(k, c)
         \/ \E p \in Professors : \/ "assign" \in Ops /\ AssignProfessor(k, c, p)
                                  \/ "dismiss" \in Ops /\ RemoveProfessor(k, c, p)
    \/ \E s \in Sections :
         \/ "deleteSection" \in Ops /\ DeleteSection(k, s)
         \/ \E t \in TAs : "createSection" \in Ops /\ CreateSection(k, s, t)
         \/ \E t \in TAs \cup {None} : "updateSection" \in Ops /\ UpdateSection(k, s, t)
    \/ \E u \in Students :
         \/ "unenrol" \in Ops /\ RemoveEnrolment(k, u)
         \/ \E c \in Classes \cup {None}, s \in Sections \cup {None}, role \in Roles :
              "enrol" \in Ops /\ CreateEnrolment(k, u, c, s, role)

Step(k) ==
    \/ CreateClassRoom(k) \/ DeactivateClassRoom(k)
    \/ FindTaRoom(k) \/ CreateTaRoom(k) \/ AddTa(k)
    \/ UpdateSectionWrite(k) \/ ReadStudents(k) \/ FindOldRoom(k)
    \/ ExpelFromOldRoom(k) \/ MoveStudents(k)
    \/ DeleteSectionWrite(k) \/ FindSiblings(k) \/ DeactivateTaRoom(k)
    \/ FindClassRoom(k) \/ UpsertClassMember(k) \/ ExpelProfessor(k)
    \/ ReadSectionTa(k) \/ FindTaRoomToJoin(k) \/ UpsertTaRoomMember(k)
    \/ FindEnrolmentRooms(k) \/ ExpelFromRooms(k)

Next == \E k \in Tasks : Arrive(k) \/ Step(k) \/ Fail(k)

Spec == Init /\ [][Next]_vars

----------------------------------------------------------------------------
(* Properties *)

(* Rows and tasks have the shapes of the Prisma schema and of the events.  *)
TypeOK ==
    /\ class \in [Classes -> {"new", "live", "gone"}]
    /\ section \in [Sections -> TAs \cup {"new", "gone"}]
    /\ professor \subseteq Classes \X Professors
    /\ enrolled \in [Users -> Enrolment \cup {NotEnrolled}]
    /\ room \in [Rooms -> Room]
    /\ member \in [Rooms -> [Users -> MemberRole]]
    /\ task \in [Tasks -> Task \cup {Idle}]
    /\ followed \subseteq Users \X Classes
    /\ overridden \subseteq Users \X Classes
    /\ strays \subseteq Users

(* The member row that the academic records call for. *)
Due(u, c) == IF <<c, u>> \in professor THEN "ADMIN"
             ELSE IF enrolled[u].c = c THEN RoomRole(enrolled[u].role) ELSE "NONE"

(* The member row that the last event about u and c leaves, were it the    *)
(* only one there is: a user who both teaches and attends the class has    *)
(* the role of the enrolment after enrolling, and no row at all after      *)
(* being dismissed or unenrolled, whatever the other record calls for.     *)
Given(u, c) ==
    IF <<u, c>> \notin overridden THEN Due(u, c)
    ELSE IF <<c, u>> \in professor /\ enrolled[u].c = c
         THEN RoomRole(enrolled[u].role) ELSE "NONE"

(* Enrolling, unenrolling, assigning and dismissing reach the class room:  *)
(* once the handlers about a user and a class are through, the member row  *)
(* is the one the records call for, and for a user with both an assignment *)
(* and an enrolment the one that the last event gives, which demotes or    *)
(* expels a professor who enrols or leaves the enrolment.  Excepted are    *)
(* users whose last event met no class room or met another event about the *)
(* same two, or whose handler failed.                                      *)
ClassMembersFollow ==
    \A u \in Users, c \in Classes :
      (<<u, c>> \in followed /\ \A k \in Tasks : task[k].u = u => task[k].c # c)
        => \A r \in RoomsOf(c) : member[r][u] = Given(u, c)

(* section.created looks for the TA's room before it creates one: handlers *)
(* that look together create one each, and no more than that ever.         *)
TaRoomsBounded ==
    \A t \in TAs : Cardinality(RoomsOf(t)) <= Cardinality(Tasks)

(* Whoever else is in a TA's room is enrolled in one of the TA's sections, *)
(* unless an enrolment, unenrolment or change of TA of theirs overlapped   *)
(* another handler about them or their section, or failed, or their        *)
(* section was deleted, or its TA changed while they had another role than *)
(* STUDENT or the TA two rooms.                                            *)
TaRoomMembersAreEnrolled ==
    \A t \in TAs : \A r \in RoomsOf(t) : \A u \in Users \ (strays \cup {t}) :
      (/\ member[r][u] # "NONE"
       /\ \A k \in Tasks : /\ task[k].u # u
                           /\ task[k].op = "updateSection" => enrolled[u].s # task[k].s)
        => enrolled[u].s # None /\ section[enrolled[u].s] = t

(* Both, where one enrolment changes the class room and the TA's room.     *)
MembersFollow == ClassMembersFollow /\ TaRoomMembersAreEnrolled
=============================================================================
