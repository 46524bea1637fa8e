------------------------ MODULE AcademicRoomsProofs ------------------------
(***************************************************************************)
(* Theorems about AcademicRooms, for any classes, sections, users and      *)
(* number of tasks: its type invariant, the bound on the rooms of a TA,    *)
(* and that the member rows follow the academic records.                   *)
(*                                                                         *)
(* TypeOK is not inductive: that a new room has a key depends on what the  *)
(* task that creates it carries (CarriesOK).  Nor is TaRoomsBounded: it    *)
(* needs RoomTally, which counts the tasks that have looked for a room and *)
(* not yet created it along with the rooms.                                *)
(*                                                                         *)
(* That rows follow the records is inductive only with what the tasks in   *)
(* flight are about to do to them: KindsOK says what a task carries from   *)
(* call to call, RoomsOK and FoundOK that a room a task has found is still *)
(* that of its class or TA.  Tracked says that a row without its enrolment *)
(* is one that a task is yet to delete, and Quiet that no other task may   *)
(* turn that wrong; Following says that a row other than the given one is  *)
(* yet to be written, and that every task about it gives that one.         *)
(***************************************************************************)
EXTENDS AcademicRooms, FiniteSetTheorems, TLAPS

(* What a task carries when it makes the call that pc names. *)
CarriesOK(q) ==
    /\ q.pc = "createRoom" => q.c \in Classes
    /\ q.pc = "write" => q.s \in Sections
    /\ q.pc \in {"students", "oldRoom", "expelOld", "findTaRoom", "createTaRoom", "addTa"}
         => q.t \in TAs

TasksOK == \A k \in Tasks : CarriesOK(task[k])

Creators(t) == {k \in Tasks : task[k].pc = "createTaRoom" /\ task[k].t = t}

(* Every task about to create a room of a TA is counted as a room. *)
RoomTally ==
    \A t \in TAs : Cardinality(RoomsOf(t)) + Cardinality(Creators(t)) <= Cardinality(Tasks)

----------------------------------------------------------------------------
(* Tasks *)

LEMMA Busy ==
    ASSUME TypeOK, NEW k \in Tasks, task[k].pc # "idle"
    PROVE  task[k] \in Task
  BY DEF TypeOK, Idle

(* A step that gives one task a well-formed record, or ends it. *)
LEMMA TaskStep ==
    ASSUME TypeOK, TasksOK, NEW k \in Tasks, NEW q \in Task \cup {Idle},
           CarriesOK(q), task' = [task EXCEPT ![k] = q]
    PROVE  task' \in [Tasks -> Task \cup {Idle}] /\ TasksOK'
<1>1. task' \in [Tasks -> Task \cup {Idle}]
  BY DEF TypeOK
<1>2. ASSUME NEW j \in Tasks PROVE CarriesOK(task'[j])
  <2>1. task'[j] = IF j = k THEN q ELSE task[j]
    BY DEF TypeOK
  <2> QED BY <2>1 DEF TasksOK
<1> QED BY <1>1, <1>2 DEF TasksOK

LEMMA EndStep ==
    ASSUME TypeOK, TasksOK, NEW k \in Tasks, End(k)
    PROVE  task' \in [Tasks -> Task \cup {Idle}] /\ TasksOK'
<1>1. CarriesOK(Idle)
  BY DEF CarriesOK, Idle
<1> QED BY <1>1, TaskStep DEF End

LEMMA GotoStep ==
    ASSUME TypeOK, TasksOK, NEW k \in Tasks, task[k].pc # "idle", NEW pc \in Steps,
           Goto(k, pc), CarriesOK([task[k] EXCEPT !.pc = pc])
    PROVE  task' \in [Tasks -> Task \cup {Idle}] /\ TasksOK'
<1> DEFINE q == [task[k] EXCEPT !.pc = pc]
<1>1. q \in Task /\ CarriesOK(q)
  BY Busy DEF Task
<1>2. task' = [task EXCEPT ![k] = q]
  BY DEF Goto
<1> HIDE DEF q
<1> QED BY <1>1, <1>2, TaskStep

LEMMA AfterClassRoomStep ==
    ASSUME TypeOK, TasksOK, NEW k \in Tasks, task[k].pc # "idle", AfterClassRoom(k)
    PROVE  task' \in [Tasks -> Task \cup {Idle}] /\ TasksOK'
<1>1. CASE Goto(k, "sectionTa")
  <2>1. CarriesOK([task[k] EXCEPT !.pc = "sectionTa"])
    BY Busy DEF CarriesOK, Task
  <2> QED BY <1>1, <2>1, GotoStep DEF Steps
<1> QED BY <1>1, EndStep DEF AfterClassRoom

LEMMA AfterTaRoomStep ==
    ASSUME TypeOK, TasksOK, NEW k \in Tasks, task[k].pc # "idle", AfterTaRoom(k)
    PROVE  task' \in [Tasks -> Task \cup {Idle}] /\ TasksOK'
<1>1. CASE Goto(k, "move")
  <2>1. CarriesOK([task[k] EXCEPT !.pc = "move"])
    BY Busy DEF CarriesOK, Task
  <2> QED BY <1>1, <2>1, GotoStep DEF Steps
<1> QED BY <1>1, EndStep DEF AfterTaRoom

(* The start of a task with a well-formed record. *)
LEMMA StartStep ==
    ASSUME TypeOK, TasksOK, NEW k \in Tasks, NEW q \in Task \cup {Idle},
           CarriesOK(q), Start(k, q)
    PROVE  task' \in [Tasks -> Task \cup {Idle}] /\ TasksOK'
  BY TaskStep DEF Start

----------------------------------------------------------------------------
(* History *)

LEMMA FollowStep ==
    ASSUME TypeOK, NEW u \in Users, NEW c \in Classes, NEW beside, Follow(u, c, beside)
    PROVE  /\ followed' \subseteq Users \X Classes
           /\ overridden' \subseteq Users \X Classes
  BY DEF TypeOK, Follow

LEMMA EntangleStep ==
    ASSUME TypeOK, NEW us \in SUBSET Users, NEW s, Entangle(us, s)
    PROVE  strays' \subseteq Users
<1>1. ASSUME NEW j \in Tasks PROVE task[j].u \in Users \cup {None}
  BY DEF TypeOK, Task, Idle
<1> QED BY <1>1 DEF TypeOK, Entangle

----------------------------------------------------------------------------
(* TypeOK and TasksOK are kept *)

Shape == TypeOK /\ TasksOK

LEMMA InitShape == Init => Shape
  BY AcademicAssumption DEF Init, Shape, TypeOK, TasksOK, CarriesOK, Idle, NotEnrolled,
     Unused, Room, MemberRole

LEMMA ArriveShape ==
    ASSUME Shape, NEW k \in Tasks, Arrive(k)
    PROVE  Shape'
<1> USE DEF Shape
<1>1. ASSUME NEW c \in Classes, CreateClass(k, c) PROVE Shape'
  <2> DEFINE q == [Idle EXCEPT !.op = "createClass", !.pc = "createRoom", !.c = c]
  <2>1. q \in Task /\ CarriesOK(q)
    BY DEF Idle, Task, AllOps, Steps, CarriesOK
  <2>2. Start(k, q)
    BY <1>1 DEF CreateClass
  <2> HIDE DEF q
  <2>3. task' \in [Tasks -> Task \cup {Idle}] /\ TasksOK'
    BY <2>1, <2>2, StartStep
  <2> QED BY <1>1, <2>3 DEF CreateClass, TypeOK, rooms, history
<1>2. ASSUME NEW c \in Classes, DeleteClass(k, c) PROVE Shape'
  <2> DEFINE q == [Idle EXCEPT !.op = "deleteClass", !.pc = "deactivate", !.c = c]
  <2>1. q \in Task /\ CarriesOK(q)
    BY DEF Idle, Task, AllOps, Steps, CarriesOK
  <2>2. Start(k, q)
    BY <1>2 DEF DeleteClass
  <2> HIDE DEF q
  <2>3. task' \in [Tasks -> Task \cup {Idle}] /\ TasksOK'
    BY <2>1, <2>2, StartStep
  <2>4. enrolled' \in [Users -> Enrolment \cup {NotEnrolled}]
    <3>1. ASSUME NEW u \in Users, enrolled[u].c = c
          PROVE  [enrolled[u] EXCEPT !.c = None] \in Enrolment
      <4>1. enrolled[u] \in Enrolment
        BY <3>1, AcademicAssumption DEF TypeOK, NotEnrolled
      <4> QED BY <4>1 DEF Enrolment
    <3> QED BY <1>2, <3>1 DEF DeleteClass, TypeOK
  <2>5. room' \in [Rooms -> Room]
    BY <1>2 DEF DeleteClass, TypeOK, Room
  <2> QED BY <1>2, <2>3, <2>4, <2>5 DEF DeleteClass, TypeOK, history
<1>3. ASSUME NEW c \in Classes, NEW p \in Professors, AssignProfessor(k, c, p)
      PROVE  Shape'
  <2> DEFINE q == [Idle EXCEPT !.op = "assign", !.pc = "classRoom", !.c = c,
                               !.u = p, !.role = "PROFESSOR"]
  <2>0. p \in Users
    BY DEF Users
  <2>1. q \in Task /\ CarriesOK(q)
    BY <2>0 DEF Idle, Task, AllOps, Steps, CarriesOK, EnrolmentRoles
  <2>2. Start(k, q)
    BY <1>3 DEF AssignProfessor
  <2> HIDE DEF q
  <2>3. task' \in [Tasks -> Task \cup {Idle}] /\ TasksOK'
    BY <2>1, <2>2, StartStep
  <2>4. followed' \subseteq Users \X Classes /\ overridden' \subseteq Users \X Classes
    BY <1>3, <2>0, FollowStep DEF AssignProfessor
  <2> QED BY <1>3, <2>3, <2>4 DEF AssignProfessor, TypeOK, rooms
<1>4. ASSUME NEW c \in Classes, NEW p \in Professors, RemoveProfessor(k, c, p)
      PROVE  Shape'
  <2> DEFINE q == [Idle EXCEPT !.op = "dismiss", !.pc = "classRoom", !.c = c, !.u = p]
  <2>0. p \in Users
    BY DEF Users
  <2>1. q \in Task /\ CarriesOK(q)
    BY <2>0 DEF Idle, Task, AllOps, Steps, CarriesOK
  <2>2. Start(k, q)
    BY <1>4 DEF RemoveProfessor
  <2> HIDE DEF q
  <2>3. task' \in [Tasks -> Task \cup {Idle}] /\ TasksOK'
    BY <2>1, <2>2, StartStep
  <2>4. followed' \subseteq Users \X Classes /\ overridden' \subseteq Users \X Classes
    BY <1>4, <2>0, FollowStep DEF RemoveProfessor
  <2> QED BY <1>4, <2>3, <2>4 DEF RemoveProfessor, TypeOK, rooms
<1>5. ASSUME NEW s \in Sections, NEW t \in TAs, CreateSection(k, s, t) PROVE Shape'
  <2> DEFINE q == [Idle EXCEPT !.op = "createSection", !.pc = "findTaRoom",
                               !.s = s, !.t = t]
  <2>1. q \in Task /\ CarriesOK(q)
    BY DEF Idle, Task, AllOps, Steps, CarriesOK
  <2>2. Start(k, q)
    BY <1>5 DEF CreateSection
  <2> HIDE DEF q
  <2>3. task' \in [Tasks -> Task \cup {Idle}] /\ TasksOK'
    BY <2>1, <2>2, StartStep
  <2> QED BY <1>5, <2>3 DEF CreateSection, TypeOK, rooms, history
<1>6. ASSUME NEW s \in Sections, NEW t \in TAs \cup {None}, UpdateSection(k, s, t)
      PROVE  Shape'
  <2> DEFINE q == [Idle EXCEPT !.op = "updateSection", !.pc = "write",
                               !.s = s, !.t = t, !.prev = section[s]]
  <2>1. q \in Task /\ CarriesOK(q)
    BY <1>6 DEF UpdateSection, Idle, Task, AllOps, Steps, CarriesOK
  <2>2. Start(k, q)
    BY <1>6 DEF UpdateSection
  <2> HIDE DEF q
  <2>3. task' \in [Tasks -> Task \cup {Idle}] /\ TasksOK'
    BY <2>1, <2>2, StartStep
  <2>4. strays' \subseteq Users
    BY <1>6, EntangleStep DEF UpdateSection, InSection
  <2> QED BY <1>6, <2>3, <2>4 DEF UpdateSection, TypeOK, records, rooms
<1>7. ASSUME NEW s \in Sections, DeleteSection(k, s) PROVE Shape'
  <2> DEFINE q == [Idle EXCEPT !.op = "deleteSection", !.pc = "delete",
                               !.s = s, !.t = section[s]]
  <2>1. q \in Task /\ CarriesOK(q)
    BY <1>7 DEF DeleteSection, Idle, Task, AllOps, Steps, CarriesOK
  <2>2. Start(k, q)
    BY <1>7 DEF DeleteSection
  <2> HIDE DEF q
  <2>3. task' \in [Tasks -> Task \cup {Idle}] /\ TasksOK'
    BY <2>1, <2>2, StartStep
  <2>4. strays' \subseteq Users
    BY <1>7, EntangleStep DEF DeleteSection, InSection
  <2> QED BY <1>7, <2>3, <2>4 DEF DeleteSection, TypeOK, records, rooms
<1>8. ASSUME NEW u \in Students, NEW c \in Classes \cup {None},
             NEW s \in Sections \cup {None}, NEW role \in Roles,
             CreateEnrolment(k, u, c, s, role)
      PROVE  Shape'
  <2> DEFINE q == IF c = None /\ s = None THEN Idle
                  ELSE [Idle EXCEPT !.op = "enrol",
                          !.pc = IF c # None THEN "classRoom" ELSE "sectionTa",
                          !.c = c, !.s = s, !.u = u, !.role = role]
  <2>0. u \in Users /\ role \in EnrolmentRoles
    BY AcademicAssumption DEF Users
  <2>1. q \in Task \cup {Idle} /\ CarriesOK(q)
    <3> DEFINE e(pc) == [Idle EXCEPT !.op = "enrol", !.pc = pc, !.c = c, !.s = s,
                           !.u = u, !.role = role]
    <3>1. ASSUME NEW pc \in {"classRoom", "sectionTa"}
          PROVE  e(pc) \in Task /\ CarriesOK(e(pc))
      <4>1. e(pc) \in Task
        BY <2>0 DEF Idle, Task, AllOps, Steps
      <4>2. e(pc).pc = pc
        BY DEF Idle
      <4> QED BY <4>1, <4>2 DEF CarriesOK
    <3>2. CarriesOK(Idle)
      BY DEF CarriesOK, Idle
    <3>3. q = Idle \/ q = e("classRoom") \/ q = e("sectionTa")
      OBVIOUS
    <3> HIDE DEF q, e
    <3> QED BY <3>1, <3>2, <3>3
  <2>2. Start(k, q)
    BY <1>8 DEF CreateEnrolment
  <2> HIDE DEF q
  <2>3. task' \in [Tasks -> Task \cup {Idle}] /\ TasksOK'
    BY <2>1, <2>2, StartStep
  <2>4. followed' \subseteq Users \X Classes /\ overridden' \subseteq Users \X Classes
    BY <1>8, <2>0, FollowStep DEF CreateEnrolment, TypeOK
  <2>5. strays' \subseteq Users
    BY <1>8, <2>0, EntangleStep DEF CreateEnrolment
  <2>6. enrolled' \in [Users -> Enrolment \cup {NotEnrolled}]
    BY <1>8, <2>0 DEF CreateEnrolment, TypeOK, Enrolment
  <2> QED BY <1>8, <2>3, <2>4, <2>5, <2>6 DEF CreateEnrolment, TypeOK, rooms
<1>9. ASSUME NEW u \in Students, RemoveEnrolment(k, u) PROVE Shape'
  <2> DEFINE e == enrolled[u]
             q == [Idle EXCEPT !.op = "unenrol", !.c = e.c, !.s = e.s, !.u = u,
                     !.pc = IF e.s # None THEN "sectionTa" ELSE "findRooms"]
  <2>0. u \in Users
    BY DEF Users
  <2>e. e \in Enrolment
    BY <1>9, <2>0 DEF RemoveEnrolment, TypeOK
  <2>1. q \in Task /\ CarriesOK(q)
    BY <2>0, <2>e DEF Idle, Task, AllOps, Steps, CarriesOK, Enrolment
  <2>2. Start(k, q)
    BY <1>9 DEF RemoveEnrolment
  <2>3. task' \in [Tasks -> Task \cup {Idle}] /\ TasksOK'
    <3> HIDE DEF q
    <3> QED BY <2>1, <2>2, StartStep
  <2>4. followed' \subseteq Users \X Classes /\ overridden' \subseteq Users \X Classes
    <3>1. CASE e.c = None
      BY <1>9, <3>1 DEF RemoveEnrolment, TypeOK
    <3>2. CASE e.c # None
      <4>1. e.c \in Classes
        BY <2>e, <3>2 DEF Enrolment
      <4>2. Follow(u, e.c, <<e.c, u>> \in professor)
        BY <1>9, <3>2 DEF RemoveEnrolment
      <4> QED BY <2>0, <4>1, <4>2, FollowStep
    <3> QED BY <3>1, <3>2
  <2>5. strays' \subseteq Users
    BY <1>9, <2>0, EntangleStep DEF RemoveEnrolment
  <2>6. enrolled' \in [Users -> Enrolment \cup {NotEnrolled}]
    BY <1>9 DEF RemoveEnrolment, TypeOK
  <2> QED BY <1>9, <2>3, <2>4, <2>5, <2>6 DEF RemoveEnrolment, TypeOK, rooms
<1> QED BY <1>1, <1>2, <1>3, <1>4, <1>5, <1>6, <1>7, <1>8, <1>9 DEF Arrive

LEMMA FailShape ==
    ASSUME Shape, NEW k \in Tasks, Fail(k)
    PROVE  Shape'
<1> USE DEF Shape
<1>1. task[k].pc # "idle" /\ task[k] \in Task
  <2>1. task[k] # Idle
    BY AcademicAssumption DEF Fail, Idle, AllOps
  <2> QED BY <2>1 DEF TypeOK, Task, Steps
<1>2. task' \in [Tasks -> Task \cup {Idle}] /\ TasksOK'
  BY <1>1, AfterClassRoomStep, AfterTaRoomStep, EndStep DEF Fail
<1>3. strays' \subseteq Users
  BY <1>1 DEF Fail, TypeOK, Task, InSection
<1> QED BY <1>2, <1>3 DEF Fail, TypeOK, records, rooms

LEMMA StepShape ==
    ASSUME Shape, NEW k \in Tasks, Step(k)
    PROVE  Shape'
<1> USE DEF Shape
<1>1. CASE CreateClassRoom(k)
  <2>1. task' \in [Tasks -> Task \cup {Idle}] /\ TasksOK'
    BY <1>1, EndStep DEF CreateClassRoom
  <2>2. task[k].c \in Classes
    BY <1>1 DEF CreateClassRoom, TasksOK, CarriesOK
  <2>3. room' \in [Rooms -> Room]
    <3>1. [key |-> task[k].c, active |-> TRUE] \in Room
      BY <2>2 DEF Room
    <3> QED BY <1>1, <3>1 DEF CreateClassRoom, TypeOK
  <2> QED BY <1>1, <2>1, <2>3 DEF CreateClassRoom, TypeOK, records, history
<1>2. ASSUME NEW key, Deactivate(key)
      PROVE  room' \in [Rooms -> Room]
  BY <1>2 DEF Deactivate, TypeOK, Room
<1>3. CASE DeactivateClassRoom(k)
  <2>1. task' \in [Tasks -> Task \cup {Idle}] /\ TasksOK'
    BY <1>3, EndStep DEF DeactivateClassRoom
  <2> QED BY <1>2, <1>3, <2>1 DEF DeactivateClassRoom, TypeOK, records, history
<1>4. CASE FindTaRoom(k)
  <2>1. task[k].pc = "findTaRoom" /\ task[k] \in Task
    BY <1>4, Busy DEF FindTaRoom
  <2>2. CarriesOK([task[k] EXCEPT !.pc = "createTaRoom"])
    BY <2>1 DEF TasksOK, CarriesOK, Task
  <2>3. Goto(k, "createTaRoom") \/ AfterTaRoom(k)
    BY <1>4 DEF FindTaRoom
  <2>4. task' \in [Tasks -> Task \cup {Idle}] /\ TasksOK'
    BY <2>1, <2>2, <2>3, GotoStep, AfterTaRoomStep DEF Steps
  <2> QED BY <1>4, <2>4 DEF FindTaRoom, TypeOK, records, rooms, history
<1>5. CASE CreateTaRoom(k)
  <2> DEFINE q == [task[k] EXCEPT !.pc = "addTa", !.room = NewRoom]
  <2>1. NewRoom \in Rooms
    BY <1>5 DEF CreateTaRoom, NewRoom, RoomsOf
  <2>2. task[k] \in Task /\ task[k].t \in TAs
    BY <1>5, Busy DEF CreateTaRoom, TasksOK, CarriesOK
  <2>3. q \in Task /\ CarriesOK(q)
    <3>1. q \in Task /\ q.pc = "addTa" /\ q.t = task[k].t
      BY <2>1, <2>2 DEF Task, Steps
    <3> QED BY <2>2, <3>1 DEF CarriesOK
  <2>4. task' = [task EXCEPT ![k] = q]
    BY <1>5 DEF CreateTaRoom
  <2>5. room' \in [Rooms -> Room]
    BY <1>5, <2>2 DEF CreateTaRoom, TypeOK, Room
  <2> HIDE DEF q
  <2>6. task' \in [Tasks -> Task \cup {Idle}] /\ TasksOK'
    BY <2>3, <2>4, TaskStep
  <2> QED BY <1>5, <2>5, <2>6 DEF CreateTaRoom, TypeOK, records, history
<1>6. CASE AddTa(k)
  <2>1. task' \in [Tasks -> Task \cup {Idle}] /\ TasksOK'
    BY <1>6, AfterTaRoomStep DEF AddTa
  <2>2. member' \in [Rooms -> [Users -> MemberRole]]
    BY <1>6 DEF AddTa, TypeOK, MemberRole
  <2> QED BY <1>6, <2>1, <2>2 DEF AddTa, TypeOK, records, history
<1>7. CASE UpdateSectionWrite(k)
  <2> DEFINE s == task[k].s
             t == IF task[k].t = None THEN section[s] ELSE task[k].t
             q == [task[k] EXCEPT !.pc = "students", !.t = t]
  <2>1. task[k] \in Task /\ s \in Sections
    BY <1>7, Busy DEF UpdateSectionWrite, TasksOK, CarriesOK
  <2>2. CASE section[s] \in TAs
    <3>1. t \in TAs
      BY <2>1, <2>2 DEF Task
    <3>2. q \in Task /\ CarriesOK(q)
      <4> HIDE DEF t
      <4>1. q \in Task /\ q.pc = "students" /\ q.t = t
        BY <2>1, <3>1 DEF Task, Steps
      <4> QED BY <3>1, <4>1 DEF CarriesOK
    <3>3. section' = [section EXCEPT ![s] = t] /\ (task' = [task EXCEPT ![k] = q] \/ End(k))
      BY <1>7, <2>2 DEF UpdateSectionWrite
    <3>4. section' \in [Sections -> TAs \cup {"new", "gone"}]
      BY <3>1, <3>3 DEF TypeOK
    <3> HIDE DEF q, t
    <3>5. task' \in [Tasks -> Task \cup {Idle}] /\ TasksOK'
      BY <3>2, <3>3, TaskStep, EndStep
    <3> QED BY <1>7, <3>4, <3>5 DEF UpdateSectionWrite, TypeOK, rooms, history
  <2>3. CASE section[s] \notin TAs
    <3>1. UNCHANGED section /\ End(k)
      BY <1>7, <2>3 DEF UpdateSectionWrite
    <3> QED BY <1>7, <3>1, EndStep DEF UpdateSectionWrite, TypeOK, rooms, history
  <2> QED BY <2>2, <2>3
<1>8. CASE ReadStudents(k)
  <2> DEFINE students == {u \in InSection(task[k].s) : enrolled[u].role = "STUDENT"}
             q == [task[k] EXCEPT !.pc = "oldRoom", !.todo = students]
  <2>1. task[k] \in Task /\ CarriesOK(task[k]) /\ task[k].pc = "students"
    BY <1>8, Busy DEF ReadStudents, TasksOK
  <2>2. students \subseteq Users /\ InSection(task[k].s) \subseteq Users
    BY DEF InSection
  <2>3. task' = [task EXCEPT ![k] = q] /\ strays' \subseteq Users
    BY <1>8, <2>2 DEF ReadStudents, TypeOK
  <2> HIDE DEF students
  <2>4. q \in Task /\ CarriesOK(q)
    BY <2>1, <2>2 DEF Task, Steps, CarriesOK
  <2> HIDE DEF q
  <2>5. task' \in [Tasks -> Task \cup {Idle}] /\ TasksOK'
    BY <2>3, <2>4, TaskStep
  <2> QED BY <1>8, <2>3, <2>5 DEF ReadStudents, TypeOK, records, rooms
<1>9. CASE FindOldRoom(k)
  <2>1. task[k] \in Task /\ CarriesOK(task[k]) /\ task[k].pc = "oldRoom"
    BY <1>9, Busy DEF FindOldRoom, TasksOK
  <2>2. strays' \subseteq Users
    BY <1>9, <2>1 DEF FindOldRoom, TypeOK, Task
  <2>3. task' \in [Tasks -> Task \cup {Idle}] /\ TasksOK'
    <3>1. CASE Goto(k, "findTaRoom")
      <4>1. CarriesOK([task[k] EXCEPT !.pc = "findTaRoom"])
        BY <2>1 DEF CarriesOK, Task
      <4> QED BY <2>1, <3>1, <4>1, GotoStep DEF Steps
    <3>2. ASSUME NEW r \in Rooms, task' = [task EXCEPT ![k].pc = "expelOld", ![k].room = r]
          PROVE  task' \in [Tasks -> Task \cup {Idle}] /\ TasksOK'
      <4> DEFINE q == [task[k] EXCEPT !.pc = "expelOld", !.room = r]
      <4>1. q \in Task /\ CarriesOK(q)
        BY <2>1 DEF Task, Steps, CarriesOK
      <4>2. task' = [task EXCEPT ![k] = q]
        BY <3>2
      <4> HIDE DEF q
      <4> QED BY <4>1, <4>2, TaskStep
    <3> QED BY <1>9, <3>1, <3>2 DEF FindOldRoom, RoomsOf
  <2> QED BY <1>9, <2>2, <2>3 DEF FindOldRoom, TypeOK, records, rooms
<1>10. CASE ExpelFromOldRoom(k)
  <2>1. task[k] \in Task /\ CarriesOK(task[k]) /\ task[k].pc = "expelOld"
    BY <1>10, Busy DEF ExpelFromOldRoom, TasksOK
  <2>2. CarriesOK([task[k] EXCEPT !.pc = "findTaRoom"])
    BY <2>1 DEF CarriesOK, Task
  <2>3. task' \in [Tasks -> Task \cup {Idle}] /\ TasksOK'
    BY <1>10, <2>1, <2>2, GotoStep DEF ExpelFromOldRoom, Steps
  <2>4. member' \in [Rooms -> [Users -> MemberRole]]
    BY <1>10 DEF ExpelFromOldRoom, TypeOK, MemberRole
  <2> QED BY <1>10, <2>3, <2>4 DEF ExpelFromOldRoom, TypeOK, records, history
<1>11. CASE MoveStudents(k)
  BY <1>11, EndStep DEF MoveStudents, TypeOK, records, rooms, history
<1>12. CASE DeleteSectionWrite(k)
  <2> DEFINE s == task[k].s
  <2>1. task[k] \in Task /\ task[k].pc = "delete"
    BY <1>12, Busy DEF DeleteSectionWrite
  <2>2. CASE section[s] \in TAs
    <3>1. CarriesOK([task[k] EXCEPT !.pc = "siblings"])
      BY <2>1 DEF CarriesOK, Task
    <3>2. task' \in [Tasks -> Task \cup {Idle}] /\ TasksOK'
      BY <1>12, <2>1, <2>2, <3>1, GotoStep DEF DeleteSectionWrite, Steps
    <3>3. enrolled' \in [Users -> Enrolment \cup {NotEnrolled}]
      <4>1. ASSUME NEW u \in Users
            PROVE  [enrolled[u] EXCEPT !.s = None] \in Enrolment \cup {NotEnrolled}
        <5>1. CASE enrolled[u] \in Enrolment
          BY <5>1 DEF Enrolment
        <5>2. CASE enrolled[u] = NotEnrolled
          BY <5>2 DEF NotEnrolled
        <5> QED BY <5>1, <5>2 DEF TypeOK
      <4>2. enrolled \in [Users -> Enrolment \cup {NotEnrolled}]
        BY DEF TypeOK
      <4>3. enrolled' = [u \in Users |-> IF enrolled[u].s = s
                                         THEN [enrolled[u] EXCEPT !.s = None]
                                         ELSE enrolled[u]]
        BY <1>12, <2>2 DEF DeleteSectionWrite
      <4> QED BY <4>1, <4>2, <4>3
    <3>4. section' \in [Sections -> TAs \cup {"new", "gone"}]
      BY <1>12, <2>2 DEF DeleteSectionWrite, TypeOK
    <3>5. strays' \subseteq Users
      BY <1>12, <2>2 DEF DeleteSectionWrite, TypeOK, InSection
    <3> QED BY <1>12, <3>2, <3>3, <3>4, <3>5 DEF DeleteSectionWrite, TypeOK, rooms
  <2>3. CASE section[s] \notin TAs
    <3>1. End(k) /\ UNCHANGED <<section, enrolled, strays>>
      BY <1>12, <2>3 DEF DeleteSectionWrite
    <3> QED BY <1>12, <3>1, EndStep DEF DeleteSectionWrite, TypeOK, rooms
  <2> QED BY <2>2, <2>3
<1>13. CASE FindSiblings(k)
  <2>1. task[k] \in Task /\ task[k].pc = "siblings"
    BY <1>13, Busy DEF FindSiblings
  <2>2. CarriesOK([task[k] EXCEPT !.pc = "deactivateTa"])
    BY <2>1 DEF CarriesOK, Task
  <2>3. task' \in [Tasks -> Task \cup {Idle}] /\ TasksOK'
    BY <1>13, <2>1, <2>2, GotoStep, EndStep DEF FindSiblings, Steps
  <2> QED BY <1>13, <2>3 DEF FindSiblings, TypeOK, records, rooms, history
<1>14. CASE DeactivateTaRoom(k)
  <2>1. task' \in [Tasks -> Task \cup {Idle}] /\ TasksOK'
    BY <1>14, EndStep DEF DeactivateTaRoom
  <2> QED BY <1>2, <1>14, <2>1 DEF DeactivateTaRoom, TypeOK, records, history
(* A read that finds a room and goes on to a call that needs no more than the room. *)
<1>15. ASSUME NEW r \in Rooms, NEW pc \in {"upsertClass", "expelProfessor", "upsertTa"},
              task[k] \in Task, task' = [task EXCEPT ![k].pc = pc, ![k].room = r]
       PROVE  task' \in [Tasks -> Task \cup {Idle}] /\ TasksOK'
  <2> DEFINE q == [task[k] EXCEPT !.pc = pc, !.room = r]
  <2>1. q \in Task /\ CarriesOK(q)
    <3>1. pc \in Steps
      BY DEF Steps
    <3>2. q \in Task /\ q.pc = pc
      BY <1>15, <3>1 DEF Task
    <3> QED BY <3>2 DEF CarriesOK
  <2>2. task' = [task EXCEPT ![k] = q]
    BY <1>15
  <2> HIDE DEF q
  <2> QED BY <2>1, <2>2, TaskStep
<1>16. CASE FindClassRoom(k)
  <2>1. task[k] \in Task /\ task[k].pc = "classRoom"
    BY <1>16, Busy DEF FindClassRoom
  <2>2. task' \in [Tasks -> Task \cup {Idle}] /\ TasksOK'
    BY <1>15, <1>16, <2>1, AfterClassRoomStep DEF FindClassRoom, RoomsOf
  <2> QED BY <1>16, <2>2 DEF FindClassRoom, TypeOK, records, rooms, history
<1>17. CASE UpsertClassMember(k)
  <2>1. task' \in [Tasks -> Task \cup {Idle}] /\ TasksOK'
    BY <1>17, AfterClassRoomStep DEF UpsertClassMember
  <2>2. member' \in [Rooms -> [Users -> MemberRole]]
    BY <1>17 DEF UpsertClassMember, TypeOK, MemberRole, RoomRole
  <2> QED BY <1>17, <2>1, <2>2 DEF UpsertClassMember, TypeOK, records, history
<1>18. CASE ExpelProfessor(k)
  <2>1. member' \in [Rooms -> [Users -> MemberRole]]
    BY <1>18 DEF ExpelProfessor, TypeOK, MemberRole
  <2> QED BY <1>18, <2>1, EndStep DEF ExpelProfessor, TypeOK, records, history
<1>19. CASE ReadSectionTa(k)
  <2> DEFINE t == section[task[k].s]
             next == IF task[k].op = "enrol" THEN "joinTaRoom" ELSE "findRooms"
             q == [task[k] EXCEPT !.t = t, !.pc = next]
  <2>1. task[k] \in Task /\ task[k].pc = "sectionTa"
    BY <1>19, Busy DEF ReadSectionTa
  <2>2. task' \in [Tasks -> Task \cup {Idle}] /\ TasksOK'
    <3>1. CASE t \in TAs
      <4>1. q \in Task /\ CarriesOK(q)
        <5> HIDE DEF t
        <5>1. next \in {"joinTaRoom", "findRooms"}
          OBVIOUS
        <5> HIDE DEF next
        <5>2. next \in Steps
          BY <5>1 DEF Steps
        <5>3. q \in Task /\ q.pc = next
          BY <2>1, <3>1, <5>2 DEF Task
        <5> QED BY <5>1, <5>3 DEF CarriesOK
      <4>2. task' = [task EXCEPT ![k] = q]
        BY <1>19, <3>1 DEF ReadSectionTa
      <4> HIDE DEF q
      <4> QED BY <4>1, <4>2, TaskStep
    <3>2. CASE t \notin TAs
      <4>1. CarriesOK([task[k] EXCEPT !.pc = "findRooms"])
        BY <2>1 DEF CarriesOK, Task
      <4>2. End(k) \/ Goto(k, "findRooms")
        BY <1>19, <3>2 DEF ReadSectionTa
      <4> QED BY <2>1, <4>1, <4>2, GotoStep, EndStep DEF Steps
    <3> QED BY <3>1, <3>2
  <2> QED BY <1>19, <2>2 DEF ReadSectionTa, TypeOK, records, rooms, history
<1>20. CASE FindTaRoomToJoin(k)
  <2>1. task[k] \in Task /\ task[k].pc = "joinTaRoom"
    BY <1>20, Busy DEF FindTaRoomToJoin
  <2>2. task' \in [Tasks -> Task \cup {Idle}] /\ TasksOK'
    BY <1>15, <1>20, <2>1, EndStep DEF FindTaRoomToJoin, RoomsOf
  <2> QED BY <1>20, <2>2 DEF FindTaRoomToJoin, TypeOK, records, rooms, history
<1>21. CASE UpsertTaRoomMember(k)
  <2>1. member' \in [Rooms -> [Users -> MemberRole]]
    BY <1>21 DEF UpsertTaRoomMember, TypeOK, MemberRole
  <2> QED BY <1>21, <2>1, EndStep DEF UpsertTaRoomMember, TypeOK, records, history
<1>22. CASE FindEnrolmentRooms(k)
  <2> DEFINE from == RoomsOf(task[k].c) \cup RoomsOf(task[k].t)
             q == [task[k] EXCEPT !.pc = "expel", !.from = from]
  <2>1. task[k] \in Task /\ from \subseteq Rooms
    BY <1>22, Busy DEF FindEnrolmentRooms, RoomsOf
  <2>2. task' = [task EXCEPT ![k] = q]
    BY <1>22 DEF FindEnrolmentRooms
  <2> HIDE DEF from
  <2>3. q \in Task /\ CarriesOK(q)
    <3>1. q \in Task /\ q.pc = "expel"
      BY <2>1 DEF Task, Steps
    <3> QED BY <3>1 DEF CarriesOK
  <2> HIDE DEF q
  <2>4. task' \in [Tasks -> Task \cup {Idle}] /\ TasksOK'
    BY <2>2, <2>3, TaskStep
  <2> QED BY <1>22, <2>4 DEF FindEnrolmentRooms, TypeOK, records, rooms, history
<1>23. CASE ExpelFromRooms(k)
  <2>1. task[k] \in Task /\ task[k].pc = "expel"
    BY <1>23, Busy DEF ExpelFromRooms
  <2>2. ASSUME NEW r \in task[k].from, task' = [task EXCEPT ![k].from = @ \ {r}]
        PROVE  task' \in [Tasks -> Task \cup {Idle}] /\ TasksOK'
    <3> DEFINE q == [task[k] EXCEPT !.from = @ \ {r}]
    <3>1. q \in Task /\ CarriesOK(q)
      BY <2>1 DEF Task, CarriesOK
    <3>2. task' = [task EXCEPT ![k] = q]
      BY <2>2
    <3> HIDE DEF q
    <3> QED BY <3>1, <3>2, TaskStep
  <2>3. task' \in [Tasks -> Task \cup {Idle}] /\ TasksOK'
    BY <1>23, <2>2, EndStep DEF ExpelFromRooms
  <2>4. member' \in [Rooms -> [Users -> MemberRole]]
    <3>1. \/ UNCHANGED member
          \/ \E r \in task[k].from : member' = [member EXCEPT ![r][task[k].u] = "NONE"]
      BY <1>23 DEF ExpelFromRooms
    <3>2. ASSUME NEW r, NEW u, member' = [member EXCEPT ![r][u] = "NONE"]
          PROVE  member' \in [Rooms -> [Users -> MemberRole]]
      BY <3>2 DEF TypeOK, MemberRole
    <3> QED BY <3>1, <3>2 DEF TypeOK
  <2> QED BY <1>23, <2>3, <2>4 DEF ExpelFromRooms, TypeOK, records, history
<1> QED BY <1>1, <1>3, <1>4, <1>5, <1>6, <1>7, <1>8, <1>9, <1>10, <1>11, <1>12, <1>13,
       <1>14, <1>16, <1>17, <1>18, <1>19, <1>20, <1>21, <1>22, <1>23 DEF Step

LEMMA NextShape == Shape /\ [Next]_vars => Shape'
<1> SUFFICES ASSUME Shape, [Next]_vars PROVE Shape'
  OBVIOUS
<1>1. CASE Next
  BY <1>1, ArriveShape, StepShape, FailShape DEF Next
<1>2. CASE UNCHANGED vars
  BY <1>2 DEF vars, records, rooms, history, Shape, TypeOK, TasksOK
<1> QED BY <1>1, <1>2

(* Rows and tasks keep the shapes of the schema and the events, whatever   *)
(* the handlers of the automation find, write and fail to write.           *)
THEOREM TypeCorrect == Spec => []TypeOK
<1>1. Shape => TypeOK
  BY DEF Shape
<1> QED BY <1>1, InitShape, NextShape, PTL DEF Spec

----------------------------------------------------------------------------
(* RoomTally is kept *)

LEMMA Counts ==
    ASSUME NEW t
    PROVE  /\ IsFiniteSet(RoomsOf(t)) /\ IsFiniteSet(Creators(t))
           /\ Cardinality(RoomsOf(t)) \in Nat /\ Cardinality(Creators(t)) \in Nat
           /\ Cardinality(Tasks) \in Nat
           /\ Cardinality(Creators(t)) <= Cardinality(Tasks)
<1>1. RoomsOf(t) \subseteq Rooms /\ Creators(t) \subseteq Tasks
  BY DEF RoomsOf, Creators
<1> QED BY <1>1, AcademicAssumption, FS_Subset, FS_CardinalityType

LEMMA CountsNext ==
    ASSUME NEW t
    PROVE  /\ IsFiniteSet(RoomsOf(t)') /\ IsFiniteSet(Creators(t)')
           /\ Cardinality(RoomsOf(t)') \in Nat /\ Cardinality(Creators(t)') \in Nat
           /\ Cardinality(Creators(t)') <= Cardinality(Tasks)
<1>1. RoomsOf(t)' \subseteq Rooms /\ Creators(t)' \subseteq Tasks
  BY DEF RoomsOf, Creators
<1> QED BY <1>1, AcademicAssumption, FS_Subset, FS_CardinalityType

(* A step that adds neither a room nor a task about to create one. *)
LEMMA TallyStep ==
    ASSUME RoomTally,
           \A t \in TAs : RoomsOf(t)' \subseteq RoomsOf(t) /\ Creators(t)' \subseteq Creators(t)
    PROVE  RoomTally'
<1> SUFFICES ASSUME NEW t \in TAs
             PROVE  Cardinality(RoomsOf(t)') + Cardinality(Creators(t)') <= Cardinality(Tasks)
  BY DEF RoomTally
<1>1. /\ Cardinality(RoomsOf(t)') <= Cardinality(RoomsOf(t))
      /\ Cardinality(Creators(t)') <= Cardinality(Creators(t))
  BY Counts, FS_Subset
<1>2. Cardinality(RoomsOf(t)) + Cardinality(Creators(t)) <= Cardinality(Tasks)
  BY DEF RoomTally
<1> QED BY <1>1, <1>2, Counts, CountsNext

(* No step but the search for a TA's room adds a task about to create one. *)
LEMMA CreatorsStep ==
    ASSUME TypeOK, NEW k \in Tasks, NEW q, q.pc # "createTaRoom",
           task' = [task EXCEPT ![k] = q], NEW t \in TAs
    PROVE  Creators(t)' \subseteq Creators(t)
  BY DEF TypeOK, Creators

LEMMA NextTally ==
    ASSUME Shape, RoomTally, [Next]_vars
    PROVE  RoomTally'
<1> USE DEF Shape
<1>1. CASE UNCHANGED vars
  BY <1>1, TallyStep DEF vars, rooms, RoomsOf, Creators
<1>2. ASSUME NEW k \in Tasks, End(k), NEW t \in TAs
      PROVE  Creators(t)' \subseteq Creators(t)
  BY <1>2, CreatorsStep DEF End, Idle
<1>3. ASSUME NEW k \in Tasks, NEW pc \in Steps \ {"createTaRoom"}, Goto(k, pc),
             task[k].pc # "idle", NEW t \in TAs
      PROVE  Creators(t)' \subseteq Creators(t)
  <2> DEFINE q == [task[k] EXCEPT !.pc = pc]
  <2>1. q.pc = pc
    BY <1>3, Busy DEF Task
  <2>2. task' = [task EXCEPT ![k] = q]
    BY <1>3 DEF Goto
  <2> HIDE DEF q
  <2> QED BY <2>1, <2>2, CreatorsStep
<1>4. ASSUME NEW k \in Tasks, task[k].pc # "idle", AfterTaRoom(k) \/ AfterClassRoom(k),
             NEW t \in TAs
      PROVE  Creators(t)' \subseteq Creators(t)
  BY <1>2, <1>3, <1>4 DEF AfterTaRoom, AfterClassRoom, Steps
<1>5. ASSUME NEW k \in Tasks, Arrive(k) PROVE RoomTally'
  <2>1. ASSUME NEW q, Start(k, q), q.pc # "createTaRoom", NEW t \in TAs
        PROVE  Creators(t)' \subseteq Creators(t)
    BY <2>1, CreatorsStep DEF Start
  <2>2. ASSUME NEW t \in TAs PROVE Creators(t)' \subseteq Creators(t)
    <3>1. ASSUME NEW c \in Classes, CreateClass(k, c) PROVE Creators(t)' \subseteq Creators(t)
      BY <2>1, <3>1 DEF CreateClass, Idle
    <3>2. ASSUME NEW c \in Classes, DeleteClass(k, c) PROVE Creators(t)' \subseteq Creators(t)
      BY <2>1, <3>2 DEF DeleteClass, Idle
    <3>3. ASSUME NEW c \in Classes, NEW p \in Professors,
                 AssignProfessor(k, c, p) \/ RemoveProfessor(k, c, p)
          PROVE  Creators(t)' \subseteq Creators(t)
      BY <2>1, <3>3 DEF AssignProfessor, RemoveProfessor, Idle
    <3>4. ASSUME NEW x \in Sections, NEW y \in TAs, CreateSection(k, x, y)
          PROVE  Creators(t)' \subseteq Creators(t)
      BY <2>1, <3>4 DEF CreateSection, Idle
    <3>5. ASSUME NEW x \in Sections, NEW y \in TAs \cup {None}, UpdateSection(k, x, y)
          PROVE  Creators(t)' \subseteq Creators(t)
      BY <2>1, <3>5 DEF UpdateSection, Idle
    <3>6. ASSUME NEW x \in Sections, DeleteSection(k, x)
          PROVE  Creators(t)' \subseteq Creators(t)
      BY <2>1, <3>6 DEF DeleteSection, Idle
    <3>7. ASSUME NEW u \in Students, NEW c \in Classes \cup {None},
                 NEW x \in Sections \cup {None}, NEW role \in Roles,
                 CreateEnrolment(k, u, c, x, role)
          PROVE  Creators(t)' \subseteq Creators(t)
      <4> DEFINE q == IF c = None /\ x = None THEN Idle
                      ELSE [Idle EXCEPT !.op = "enrol",
                              !.pc = IF c # None THEN "classRoom" ELSE "sectionTa",
                              !.c = c, !.s = x, !.u = u, !.role = role]
      <4>1. Start(k, q) /\ q.pc # "createTaRoom"
        BY <3>7 DEF CreateEnrolment, Idle
      <4> HIDE DEF q
      <4> QED BY <2>1, <4>1
    <3>8. ASSUME NEW u \in Students, RemoveEnrolment(k, u)
          PROVE  Creators(t)' \subseteq Creators(t)
      <4> DEFINE e == enrolled[u]
                 q == [Idle EXCEPT !.op = "unenrol", !.c = e.c, !.s = e.s, !.u = u,
                         !.pc = IF e.s # None THEN "sectionTa" ELSE "findRooms"]
      <4>1. Start(k, q) /\ q.pc # "createTaRoom"
        BY <3>8 DEF RemoveEnrolment, Idle
      <4> HIDE DEF q
      <4> QED BY <2>1, <4>1
    <3> QED BY <1>5, <3>1, <3>2, <3>3, <3>4, <3>5, <3>6, <3>7, <3>8 DEF Arrive
  <2>3. ASSUME NEW t \in TAs PROVE RoomsOf(t)' \subseteq RoomsOf(t)
    <3>1. ASSUME NEW c \in Classes, DeleteClass(k, c) PROVE RoomsOf(t)' \subseteq RoomsOf(t)
      BY <3>1, AcademicAssumption DEF DeleteClass, RoomsOf, TypeOK, Room
    <3>2. UNCHANGED room \/ \E c \in Classes : DeleteClass(k, c)
      BY <1>5 DEF Arrive, CreateClass, AssignProfessor, RemoveProfessor, CreateSection,
         UpdateSection, DeleteSection, CreateEnrolment, RemoveEnrolment, rooms
    <3> QED BY <3>1, <3>2 DEF RoomsOf
  <2> QED BY <2>2, <2>3, TallyStep
<1>6. ASSUME NEW k \in Tasks, Fail(k) PROVE RoomTally'
  <2>1. task[k].pc # "idle"
    <3>1. task[k] # Idle
      BY <1>6, AcademicAssumption DEF Fail, Idle, AllOps
    <3> QED BY <3>1 DEF TypeOK, Task, Steps
  <2>2. ASSUME NEW t \in TAs PROVE Creators(t)' \subseteq Creators(t)
    BY <1>2, <1>4, <1>6, <2>1 DEF Fail
  <2> QED BY <1>6, <2>2, TallyStep DEF Fail, rooms, RoomsOf
<1>7. ASSUME NEW k \in Tasks, Step(k) PROVE RoomTally'
  <2>1. CASE FindTaRoom(k)
    <3> SUFFICES ASSUME NEW t \in TAs
                 PROVE  Cardinality(RoomsOf(t)') + Cardinality(Creators(t)') <= Cardinality(Tasks)
      BY DEF RoomTally
    <3>1. RoomsOf(t)' = RoomsOf(t)
      BY <2>1 DEF FindTaRoom, rooms, RoomsOf
    <3>2. CASE RoomsOf(t) = {}
      <4>1. Cardinality(RoomsOf(t)') = 0
        BY <3>1, <3>2, FS_EmptySet
      <4> QED BY <4>1, CountsNext
    <3>3. CASE RoomsOf(t) # {}
      <4>1. Creators(t)' \subseteq Creators(t)
        <5>1. CASE AfterTaRoom(k)
          BY <1>4, <2>1, <5>1 DEF FindTaRoom
        <5>2. CASE RoomsOf(task[k].t) = {} /\ Goto(k, "createTaRoom")
          <6>1. task[k].t # t
            BY <3>3, <5>2
          <6> QED BY <5>2, <6>1 DEF Goto, Creators, TypeOK
        <5> QED BY <2>1, <5>1, <5>2 DEF FindTaRoom
      <4>2. Cardinality(Creators(t)') <= Cardinality(Creators(t))
        BY <4>1, Counts, FS_Subset
      <4>3. Cardinality(RoomsOf(t)) + Cardinality(Creators(t)) <= Cardinality(Tasks)
        BY DEF RoomTally
      <4> QED BY <3>1, <4>2, <4>3, Counts, CountsNext
    <3> QED BY <3>2, <3>3
  <2>2. CASE CreateTaRoom(k)
    <3> SUFFICES ASSUME NEW t \in TAs
                 PROVE  Cardinality(RoomsOf(t)') + Cardinality(Creators(t)') <= Cardinality(Tasks)
      BY DEF RoomTally
    <3>1. NewRoom \in Rooms /\ room[NewRoom].key = "unused"
      BY <2>2 DEF CreateTaRoom, NewRoom, RoomsOf
    <3>2. RoomsOf(t)' = IF task[k].t = t THEN RoomsOf(t) \cup {NewRoom} ELSE RoomsOf(t)
      BY <2>2, <3>1, AcademicAssumption DEF CreateTaRoom, RoomsOf, TypeOK, Room
    <3>3. Creators(t)' = Creators(t) \ {k}
      BY <2>2 DEF CreateTaRoom, Creators, TypeOK
    <3>4. Cardinality(RoomsOf(t)) + Cardinality(Creators(t)) <= Cardinality(Tasks)
      BY DEF RoomTally
    <3>5. CASE task[k].t = t
      <4>1. k \in Creators(t) /\ NewRoom \notin RoomsOf(t)
        BY <2>2, <3>1, <3>5, AcademicAssumption DEF CreateTaRoom, Creators, RoomsOf
      <4>2. Cardinality(RoomsOf(t)') = Cardinality(RoomsOf(t)) + 1
        BY <3>2, <3>5, <4>1, Counts, FS_AddElement
      <4>3. Cardinality(Creators(t)') = Cardinality(Creators(t)) - 1
        BY <3>3, <4>1, Counts, FS_RemoveElement
      <4> QED BY <3>4, <4>2, <4>3, Counts
    <3>6. CASE task[k].t # t
      <4>1. RoomsOf(t)' = RoomsOf(t) /\ Creators(t)' \subseteq Creators(t)
        BY <3>2, <3>3, <3>6
      <4>2. Cardinality(Creators(t)') <= Cardinality(Creators(t))
        BY <4>1, Counts, FS_Subset
      <4> QED BY <3>4, <4>1, <4>2, Counts, CountsNext
    <3> QED BY <3>5, <3>6
  <2>3. CASE ~FindTaRoom(k) /\ ~CreateTaRoom(k)
    <3>1. ASSUME NEW t \in TAs PROVE RoomsOf(t)' \subseteq RoomsOf(t)
      <4>1. CASE UNCHANGED room
        BY <4>1 DEF RoomsOf
      <4>2. ASSUME NEW key, Deactivate(key) PROVE RoomsOf(t)' \subseteq RoomsOf(t)
        BY <4>2 DEF Deactivate, RoomsOf, TypeOK, Room
      <4>3. CASE CreateClassRoom(k)
        BY <4>3, AcademicAssumption DEF CreateClassRoom, RoomsOf, TypeOK, TasksOK, CarriesOK
      <4> QED BY <1>7, <2>3, <4>1, <4>2, <4>3
              DEF Step, DeactivateClassRoom, DeactivateTaRoom, AddTa, UpdateSectionWrite,
                  ReadStudents, FindOldRoom, ExpelFromOldRoom, MoveStudents,
                  DeleteSectionWrite, FindSiblings, FindClassRoom, UpsertClassMember,
                  ExpelProfessor, ReadSectionTa, FindTaRoomToJoin, UpsertTaRoomMember,
                  FindEnrolmentRooms, ExpelFromRooms, rooms
    <3>2. ASSUME NEW t \in TAs PROVE Creators(t)' \subseteq Creators(t)
      <4>0. ASSUME task[k] \in Task, task'[k].pc # "createTaRoom",
                   \A j \in Tasks \ {k} : task'[j] = task[j]
            PROVE  Creators(t)' \subseteq Creators(t)
        BY <4>0 DEF Creators
      <4>1. CASE CreateClassRoom(k) \/ DeactivateClassRoom(k) \/ MoveStudents(k)
                   \/ DeactivateTaRoom(k) \/ ExpelProfessor(k) \/ UpsertTaRoomMember(k)
        BY <1>2, <4>1 DEF CreateClassRoom, DeactivateClassRoom, MoveStudents,
           DeactivateTaRoom, ExpelProfessor, UpsertTaRoomMember
      <4>2. CASE AddTa(k) \/ UpsertClassMember(k)
        BY <1>4, <4>2 DEF AddTa, UpsertClassMember
      <4>3. CASE UpdateSectionWrite(k)
        <5>1. task[k] \in Task
          BY <4>3, Busy DEF UpdateSectionWrite
        <5>2. CASE End(k)
          BY <1>2, <5>2
        <5>3. CASE ~End(k)
          BY <4>0, <4>3, <5>1, <5>3 DEF UpdateSectionWrite, TypeOK, Task
        <5> QED BY <5>2, <5>3
      <4>4. CASE ReadStudents(k)
        <5>1. task[k] \in Task
          BY <4>4, Busy DEF ReadStudents
        <5> QED BY <4>0, <4>4, <5>1 DEF ReadStudents, TypeOK, Task
      <4>5. CASE FindOldRoom(k)
        <5>1. task[k] \in Task
          BY <4>5, Busy DEF FindOldRoom
        <5> QED BY <4>0, <4>5, <5>1 DEF FindOldRoom, Goto, TypeOK, Task
      <4>6. CASE ExpelFromOldRoom(k)
        BY <1>3, <4>6 DEF ExpelFromOldRoom, Steps
      <4>7. CASE DeleteSectionWrite(k)
        BY <1>2, <1>3, <4>7 DEF DeleteSectionWrite, Steps
      <4>8. CASE FindSiblings(k)
        BY <1>2, <1>3, <4>8 DEF FindSiblings, Steps
      <4>9. CASE FindClassRoom(k)
        <5>1. task[k] \in Task /\ task[k].pc # "idle"
          BY <4>9, Busy DEF FindClassRoom
        <5>2. CASE AfterClassRoom(k)
          BY <1>4, <5>1, <5>2
        <5>3. CASE ~AfterClassRoom(k)
          BY <4>0, <4>9, <5>1, <5>3 DEF FindClassRoom, TypeOK, Task
        <5> QED BY <5>2, <5>3
      <4>10. CASE ReadSectionTa(k)
        <5>1. task[k] \in Task /\ task[k].pc # "idle"
          BY <4>10, Busy DEF ReadSectionTa
        <5>2. CASE End(k) \/ Goto(k, "findRooms")
          BY <1>2, <1>3, <5>1, <5>2 DEF Steps
        <5>3. CASE ~(End(k) \/ Goto(k, "findRooms"))
          BY <4>0, <4>10, <5>1, <5>3 DEF ReadSectionTa, TypeOK, Task
        <5> QED BY <5>2, <5>3
      <4>11. CASE FindTaRoomToJoin(k)
        <5>1. task[k] \in Task
          BY <4>11, Busy DEF FindTaRoomToJoin
        <5>2. CASE End(k)
          BY <1>2, <5>2
        <5>3. CASE ~End(k)
          BY <4>0, <4>11, <5>1, <5>3 DEF FindTaRoomToJoin, TypeOK, Task
        <5> QED BY <5>2, <5>3
      <4>12. CASE FindEnrolmentRooms(k)
        <5>1. task[k] \in Task
          BY <4>12, Busy DEF FindEnrolmentRooms
        <5> QED BY <4>0, <4>12, <5>1 DEF FindEnrolmentRooms, TypeOK, Task
      <4>13. CASE ExpelFromRooms(k)
        <5>1. task[k] \in Task /\ task[k].pc = "expel"
          BY <4>13, Busy DEF ExpelFromRooms
        <5>2. CASE End(k)
          BY <1>2, <5>2
        <5>3. CASE ~End(k)
          BY <4>0, <4>13, <5>1, <5>3 DEF ExpelFromRooms, TypeOK, Task
        <5> QED BY <5>2, <5>3
      <4> QED BY <1>7, <2>3, <4>1, <4>2, <4>3, <4>4, <4>5, <4>6, <4>7, <4>8, <4>9, <4>10,
              <4>11, <4>12, <4>13 DEF Step
    <3> QED BY <3>1, <3>2, TallyStep
  <2> QED BY <2>1, <2>2, <2>3
<1> QED BY <1>1, <1>5, <1>6, <1>7 DEF Next

LEMMA InitTally == Init => RoomTally
<1> SUFFICES ASSUME Init, NEW t \in TAs
             PROVE  Cardinality(RoomsOf(t)) + Cardinality(Creators(t)) <= Cardinality(Tasks)
  BY DEF RoomTally
<1>1. RoomsOf(t) = {} /\ Creators(t) = {}
  BY AcademicAssumption DEF Init, RoomsOf, Creators, Unused, Idle
<1> QED BY <1>1, FS_EmptySet, Counts

(* The search for a TA's room and its creation are two calls: handlers of  *)
(* section.created and section.updated that run together may create a room *)
(* each, and that is the most there will ever be for the TA.               *)
THEOREM TaRoomsAreBounded == Spec => []TaRoomsBounded
<1>1. RoomTally => TaRoomsBounded
  BY Counts DEF RoomTally, TaRoomsBounded
<1>2. Init => Shape /\ RoomTally
  BY InitShape, InitTally
<1>3. Shape /\ RoomTally /\ [Next]_vars => (Shape /\ RoomTally)'
  BY NextShape, NextTally
<1> QED BY <1>1, <1>2, <1>3, PTL DEF Spec

----------------------------------------------------------------------------
(* What the steps do *)

(* The calls of each operation. *)
StepsOf(op) ==
    CASE op = "createClass" -> {"createRoom"}
      [] op = "deleteClass" -> {"deactivate"}
      [] op = "createSection" -> {"findTaRoom", "createTaRoom", "addTa"}
      [] op = "updateSection" -> {"write", "students", "oldRoom", "expelOld", "findTaRoom",
                                  "createTaRoom", "addTa", "move"}
      [] op = "deleteSection" -> {"delete", "siblings", "deactivateTa"}
      [] op = "assign" -> {"classRoom", "upsertClass"}
      [] op = "dismiss" -> {"classRoom", "expelProfessor"}
      [] op = "enrol" -> {"classRoom", "upsertClass", "sectionTa", "joinTaRoom", "upsertTa"}
      [] OTHER -> {"sectionTa", "findRooms", "expel"}

(* What a task keeps of its operation and event from call to call. *)
KindOK(q) ==
    /\ q.pc \in StepsOf(q.op)
    /\ q.op \in {"assign", "dismiss", "enrol", "unenrol"} => q.u \in Users
    /\ q.op \notin {"assign", "dismiss", "enrol", "unenrol"} => q.u = None
    /\ q.op \in {"updateSection", "deleteSection"} => q.s \in Sections
    /\ q.op = "updateSection" => q.prev \in TAs
    /\ q.pc \in {"sectionTa", "joinTaRoom", "upsertTa"} => q.s \in Sections
    /\ q.pc \in {"joinTaRoom", "upsertTa"} => q.t \in TAs
    /\ q.pc \in {"classRoom", "upsertClass", "expelProfessor"} => q.c \in Classes
    /\ q.pc \in {"upsertClass", "expelProfessor", "addTa", "upsertTa", "expelOld"} =>
         q.room \in Rooms
    /\ q.op = "assign" => q.role = "PROFESSOR"

KindsOK == \A k \in Tasks : task[k] # Idle => KindOK(task[k])

(* The next record of a task that goes on. *)
Continues(q, n) ==
    /\ n \in Task /\ n.op = q.op /\ n.c = q.c /\ n.s = q.s /\ n.u = q.u /\ n.prev = q.prev
    /\ n.role = q.role

LEMMA IdleOp ==
    /\ Idle.op = "none" /\ Idle.pc = "idle" /\ Idle.u = None /\ Idle.s = None /\ Idle.c = None
    /\ \A q \in Task : q # Idle /\ q.pc # "idle"
  BY DEF Idle, Task, AllOps, Steps

LEMMA EndsAdvance ==
    ASSUME Shape, NEW k \in Tasks, task[k] \in Task,
           \/ End(k) \/ AfterTaRoom(k) \/ AfterClassRoom(k)
           \/ \E pc \in Steps : Goto(k, pc)
    PROVE  /\ \A j \in Tasks \ {k} : task'[j] = task[j]
           /\ task'[k] = Idle \/ Continues(task[k], task'[k])
<1>1. task \in [Tasks -> Task \cup {Idle}]
  BY DEF Shape, TypeOK
<1>2. CASE End(k)
  BY <1>1, <1>2 DEF End
<1>3. ASSUME NEW pc \in Steps, Goto(k, pc)
      PROVE  /\ \A j \in Tasks \ {k} : task'[j] = task[j]
             /\ Continues(task[k], task'[k])
  BY <1>1, <1>3 DEF Goto, Continues, Task
<1> QED BY <1>2, <1>3 DEF AfterTaRoom, AfterClassRoom, Steps

LEMMA Working ==
    ASSUME Shape, NEW k \in Tasks, Step(k) \/ Fail(k)
    PROVE  task[k] \in Task
<1>1. task[k] \in Task \cup {Idle}
  BY DEF Shape, TypeOK
<1>2. CASE Fail(k)
  BY <1>1, <1>2, IdleOp, AcademicAssumption DEF Fail, AllOps
<1>3. CASE Step(k)
  <2>1. task[k].pc # "idle"
    BY <1>3 DEF Step, CreateClassRoom, DeactivateClassRoom, FindTaRoom, CreateTaRoom, AddTa,
       UpdateSectionWrite, ReadStudents, FindOldRoom, ExpelFromOldRoom, MoveStudents,
       DeleteSectionWrite, FindSiblings, DeactivateTaRoom, FindClassRoom, UpsertClassMember,
       ExpelProfessor, ReadSectionTa, FindTaRoomToJoin, UpsertTaRoomMember,
       FindEnrolmentRooms, ExpelFromRooms
  <2> QED BY <1>1, <2>1, IdleOp
<1> QED BY <1>2, <1>3

(* One task takes a step: the others keep their records, and its own keeps *)
(* what it has of the event.                                               *)
LEMMA Advances ==
    ASSUME Shape, NEW k \in Tasks, Step(k) \/ Fail(k)
    PROVE  /\ task[k] \in Task
           /\ \A j \in Tasks \ {k} : task'[j] = task[j]
           /\ task'[k] = Idle \/ Continues(task[k], task'[k])
<1>1. task[k] \in Task /\ task \in [Tasks -> Task \cup {Idle}] /\ task'[k] \in Task \cup {Idle}
  <2>1. Shape'
    BY StepShape, FailShape
  <2> QED BY <2>1, Working DEF Shape, TypeOK
<1>a. ASSUME task'[k].op = task[k].op PROVE task'[k] \in Task
  <2>1. task[k].op \in AllOps
    BY <1>1 DEF Task
  <2> QED BY <1>1, <1>a, <2>1, IdleOp DEF AllOps
<1> DEFINE Ends == \/ End(k) \/ AfterTaRoom(k) \/ AfterClassRoom(k)
                   \/ \E pc \in Steps : Goto(k, pc)
<1>2. CASE Ends
  BY <1>1, <1>2, EndsAdvance
<1>3. CASE Fail(k)
  BY <1>2, <1>3 DEF Fail
<1>4. CASE CreateClassRoom(k) \/ DeactivateClassRoom(k) \/ FindTaRoom(k) \/ AddTa(k)
             \/ ExpelFromOldRoom(k) \/ MoveStudents(k)
  BY <1>2, <1>4 DEF CreateClassRoom, DeactivateClassRoom, FindTaRoom, AddTa, ExpelFromOldRoom,
     MoveStudents, Steps
<1>5. CASE DeleteSectionWrite(k) \/ FindSiblings(k) \/ DeactivateTaRoom(k) \/ UpsertClassMember(k)
             \/ ExpelProfessor(k) \/ UpsertTaRoomMember(k)
  BY <1>2, <1>5 DEF DeleteSectionWrite, FindSiblings, DeactivateTaRoom, UpsertClassMember,
     ExpelProfessor, UpsertTaRoomMember, Steps
<1>6. ASSUME ~Ends, UpdateSectionWrite(k) \/ ReadStudents(k) \/ FindOldRoom(k) \/ CreateTaRoom(k)
      PROVE  /\ \A j \in Tasks \ {k} : task'[j] = task[j]
             /\ Continues(task[k], task'[k])
  <2>1. CASE UpdateSectionWrite(k)
    BY <1>a, <1>1, <1>6, <2>1 DEF UpdateSectionWrite, Continues, Task
  <2>2. CASE ReadStudents(k)
    BY <1>a, <1>1, <2>2 DEF ReadStudents, Continues, Task
  <2>3. CASE FindOldRoom(k)
    BY <1>1, <1>6, <2>3 DEF FindOldRoom, Continues, Task, Steps
  <2>4. CASE CreateTaRoom(k)
    BY <1>a, <1>1, <2>4 DEF CreateTaRoom, Continues, Task
  <2> QED BY <1>6, <2>1, <2>2, <2>3, <2>4
<1>7. ASSUME ~Ends, FindClassRoom(k) \/ ReadSectionTa(k) \/ FindTaRoomToJoin(k)
                    \/ FindEnrolmentRooms(k) \/ ExpelFromRooms(k)
      PROVE  /\ \A j \in Tasks \ {k} : task'[j] = task[j]
             /\ Continues(task[k], task'[k])
  <2>1. CASE FindClassRoom(k)
    BY <1>a, <1>1, <1>7, <2>1 DEF FindClassRoom, Continues, Task
  <2>2. CASE ReadSectionTa(k)
    BY <1>1, <1>7, <2>2 DEF ReadSectionTa, Continues, Task, Steps
  <2>3. CASE FindTaRoomToJoin(k)
    BY <1>a, <1>1, <1>7, <2>3 DEF FindTaRoomToJoin, Continues, Task
  <2>4. CASE FindEnrolmentRooms(k)
    BY <1>a, <1>1, <2>4 DEF FindEnrolmentRooms, Continues, Task
  <2>5. CASE ExpelFromRooms(k)
    BY <1>1, <1>7, <2>5 DEF ExpelFromRooms, Continues, Task
  <2> QED BY <1>7, <2>1, <2>2, <2>3, <2>4, <2>5
<1> QED BY <1>1, <1>2, <1>3, <1>4, <1>5, <1>6, <1>7 DEF Step

LEMMA StepKinds ==
    ASSUME Shape, KindsOK, NEW k \in Tasks, Step(k) \/ Fail(k)
    PROVE  KindsOK'
<1> DEFINE q == task[k]
           n == task'[k]
<1>1. /\ q \in Task /\ \A j \in Tasks \ {k} : task'[j] = task[j]
      /\ n = Idle \/ Continues(q, n)
  BY Advances
<1>2. KindOK(q) /\ CarriesOK(q) /\ task \in [Tasks -> Task \cup {Idle}]
  BY <1>1, IdleOp DEF KindsOK, Shape, TypeOK, TasksOK
<1> SUFFICES ASSUME n # Idle, Continues(q, n) PROVE KindOK(n)
  BY <1>1 DEF KindsOK
<1>e. ~End(k)
  BY <1>2 DEF End
<1>c. ASSUME AfterClassRoom(k) PROVE n.pc = "sectionTa" /\ q.op = "enrol" /\ q.s \in Sections
  BY <1>1, <1>2, <1>e, <1>c DEF AfterClassRoom, Goto, Task
<1>t. ASSUME AfterTaRoom(k) PROVE n.pc = "move" /\ q.op = "updateSection"
  BY <1>1, <1>2, <1>e, <1>t DEF AfterTaRoom, Goto, Task
<1>k. ASSUME n.pc \in StepsOf(q.op),
             n.pc \in {"sectionTa", "joinTaRoom", "upsertTa"} => q.s \in Sections,
             n.pc \in {"joinTaRoom", "upsertTa"} => n.t \in TAs,
             n.pc \in {"classRoom", "upsertClass", "expelProfessor"} => q.c \in Classes,
             n.pc \in {"upsertClass", "expelProfessor", "addTa", "upsertTa", "expelOld"} =>
               n.room \in Rooms
      PROVE  KindOK(n)
  BY <1>2, <1>k DEF KindOK, Continues
<1>g. ASSUME NEW pc \in Steps, Goto(k, pc) PROVE n.pc = pc /\ n.t = q.t /\ n.room = q.room
  BY <1>1, <1>2, <1>g DEF Goto, Task
<1> HIDE DEF n
<1>3. CASE AfterClassRoom(k)
  BY <1>c, <1>k, <1>3 DEF StepsOf
<1>4. CASE AfterTaRoom(k)
  BY <1>t, <1>k, <1>4 DEF StepsOf
<1>5. CASE Fail(k)
  BY <1>3, <1>4, <1>e, <1>5 DEF Fail
<1>6. CASE FindTaRoom(k)
  <2>1. CASE Goto(k, "createTaRoom")
    <3>1. n.pc = "createTaRoom" /\ q.pc = "findTaRoom"
      BY <1>6, <1>g, <2>1 DEF Steps, FindTaRoom
    <3> QED BY <1>2, <1>k, <3>1 DEF StepsOf, KindOK
  <2> QED BY <1>4, <1>6, <2>1 DEF FindTaRoom
<1>7. CASE CreateTaRoom(k)
  <2>1. NewRoom \in Rooms
    BY <1>7 DEF CreateTaRoom, NewRoom, RoomsOf
  <2>2. n.pc = "addTa" /\ n.room = NewRoom /\ q.pc = "createTaRoom"
    BY <1>1, <1>2, <1>7 DEF CreateTaRoom, Task, n
  <2> QED BY <1>2, <1>k, <2>1, <2>2 DEF StepsOf, KindOK
<1>8. CASE UpdateSectionWrite(k)
  <2>1. n.pc = "students" /\ q.pc = "write"
    BY <1>1, <1>2, <1>e, <1>8 DEF UpdateSectionWrite, Task, n
  <2> QED BY <1>2, <1>k, <2>1 DEF StepsOf, KindOK
<1>9. CASE ReadStudents(k)
  <2>1. n.pc = "oldRoom" /\ q.pc = "students"
    BY <1>1, <1>2, <1>9 DEF ReadStudents, Task, n
  <2> QED BY <1>2, <1>k, <2>1 DEF StepsOf, KindOK
<1>10. CASE FindOldRoom(k)
  <2>1. q.pc = "oldRoom" /\ (n.pc = "findTaRoom" \/ (n.pc = "expelOld" /\ n.room \in Rooms))
    <3>1. ASSUME Goto(k, "findTaRoom") PROVE n.pc = "findTaRoom"
      BY <1>g, <3>1 DEF Steps
    <3>2. ASSUME NEW r \in RoomsOf(q.prev),
                 task' = [task EXCEPT ![k].pc = "expelOld", ![k].room = r]
          PROVE  n.pc = "expelOld" /\ n.room \in Rooms
      BY <1>1, <1>2, <3>2 DEF Task, n, RoomsOf
    <3>3. /\ q.pc = "oldRoom"
          /\ \/ \E r \in RoomsOf(q.prev) : task' = [task EXCEPT ![k].pc = "expelOld", ![k].room = r]
             \/ Goto(k, "findTaRoom")
      BY <1>10 DEF FindOldRoom
    <3> QED BY <3>1, <3>2, <3>3
  <2> QED BY <1>2, <1>k, <2>1 DEF StepsOf, KindOK
<1>11. CASE ExpelFromOldRoom(k)
  <2>1. n.pc = "findTaRoom" /\ q.pc = "expelOld"
    BY <1>11, <1>g DEF ExpelFromOldRoom, Steps
  <2> QED BY <1>2, <1>k, <2>1 DEF StepsOf, KindOK
<1>12. CASE DeleteSectionWrite(k)
  <2>1. n.pc = "siblings" /\ q.pc = "delete"
    BY <1>12, <1>e, <1>g DEF DeleteSectionWrite, Steps
  <2> QED BY <1>2, <1>k, <2>1 DEF StepsOf, KindOK
<1>13. CASE FindSiblings(k)
  <2>1. n.pc = "deactivateTa" /\ q.pc = "siblings"
    BY <1>13, <1>e, <1>g DEF FindSiblings, Steps
  <2> QED BY <1>2, <1>k, <2>1 DEF StepsOf, KindOK
<1>14. CASE FindClassRoom(k)
  <2>1. ASSUME NEW r \in RoomsOf(q.c),
               task' = [task EXCEPT ![k].pc = IF q.op = "dismiss" THEN "expelProfessor"
                                              ELSE "upsertClass", ![k].room = r]
        PROVE  /\ n.pc = IF q.op = "dismiss" THEN "expelProfessor" ELSE "upsertClass"
               /\ n.room \in Rooms
    BY <1>1, <1>2, <2>1 DEF Task, n, RoomsOf
  <2>2. CASE /\ n.pc = IF q.op = "dismiss" THEN "expelProfessor" ELSE "upsertClass"
             /\ n.room \in Rooms
    <3>1. q.pc = "classRoom"
      BY <1>14 DEF FindClassRoom
    <3>2. q.op \in {"assign", "dismiss", "enrol"} /\ q.c \in Classes
      BY <1>1, <1>2, <3>1 DEF StepsOf, KindOK, Task, AllOps
    <3> QED BY <1>k, <2>2, <3>2 DEF StepsOf
  <2> QED BY <1>3, <1>14, <2>1, <2>2 DEF FindClassRoom
<1>15. CASE ReadSectionTa(k)
  <2>1. q.pc = "sectionTa" /\ q.op \in {"enrol", "unenrol"} /\ q.s \in Sections
    BY <1>1, <1>2, <1>15 DEF ReadSectionTa, StepsOf, KindOK, Task, AllOps
  <2>2. CASE Goto(k, "findRooms") /\ q.op # "enrol"
    <3>1. n.pc = "findRooms"
      BY <1>g, <2>2 DEF Steps
    <3> QED BY <1>k, <2>1, <2>2, <3>1 DEF StepsOf
  <2>3. CASE /\ section[q.s] \in TAs
             /\ task' = [task EXCEPT ![k].t = section[q.s],
                                     ![k].pc = IF q.op = "enrol" THEN "joinTaRoom" ELSE "findRooms"]
    <3>1. n.t \in TAs /\ n.pc = IF q.op = "enrol" THEN "joinTaRoom" ELSE "findRooms"
      BY <1>1, <1>2, <2>3 DEF Task, n
    <3> QED BY <1>k, <2>1, <3>1 DEF StepsOf
  <2> QED BY <1>15, <1>e, <2>2, <2>3 DEF ReadSectionTa
<1>16. CASE FindTaRoomToJoin(k)
  <2>1. ASSUME NEW r \in RoomsOf(q.t),
               task' = [task EXCEPT ![k].pc = "upsertTa", ![k].room = r]
        PROVE  n.pc = "upsertTa" /\ n.room \in Rooms /\ n.t = q.t
    BY <1>1, <1>2, <2>1 DEF Task, n, RoomsOf
  <2>2. q.pc = "joinTaRoom" /\ n.pc = "upsertTa" /\ n.room \in Rooms /\ n.t = q.t
    BY <1>16, <1>e, <2>1 DEF FindTaRoomToJoin
  <2>3. q.op = "enrol" /\ q.s \in Sections /\ q.t \in TAs
    BY <1>1, <1>2, <2>2 DEF StepsOf, KindOK, Task, AllOps
  <2> QED BY <1>k, <2>2, <2>3 DEF StepsOf
<1>17. CASE FindEnrolmentRooms(k)
  <2>1. n.pc = "expel" /\ q.pc = "findRooms"
    BY <1>1, <1>2, <1>17 DEF FindEnrolmentRooms, Task, n
  <2> QED BY <1>1, <1>2, <1>k, <2>1 DEF StepsOf, KindOK, Task, AllOps
<1>18. CASE ExpelFromRooms(k)
  <2>1. ASSUME NEW r, task' = [task EXCEPT ![k].from = @ \ {r}] PROVE n.pc = q.pc
    BY <1>1, <1>2, <2>1 DEF Task, n
  <2>2. n.pc = "expel" /\ q.pc = "expel"
    BY <1>18, <1>e, <2>1 DEF ExpelFromRooms
  <2> QED BY <1>2, <1>k, <2>2 DEF KindOK
<1>19. CASE CreateClassRoom(k) \/ DeactivateClassRoom(k) \/ MoveStudents(k) \/ DeactivateTaRoom(k)
            \/ ExpelProfessor(k) \/ UpsertTaRoomMember(k)
  BY <1>e, <1>19 DEF CreateClassRoom, DeactivateClassRoom, MoveStudents, DeactivateTaRoom,
     ExpelProfessor, UpsertTaRoomMember
<1>20. CASE AddTa(k) \/ UpsertClassMember(k)
  BY <1>3, <1>4, <1>20 DEF AddTa, UpsertClassMember
<1> QED BY <1>5, <1>6, <1>7, <1>8, <1>9, <1>10, <1>11, <1>12, <1>13, <1>14, <1>15, <1>16, <1>17,
           <1>18, <1>19, <1>20 DEF Step

(* An operation starts as the task k, with the fields named. *)
Begins(k, op, pc, c, s, u, t, prev, role) ==
    /\ task[k] = Idle /\ \A j \in Tasks \ {k} : task'[j] = task[j]
    /\ task'[k].op = op /\ task'[k].pc = pc /\ task'[k].c = c /\ task'[k].s = s
    /\ task'[k].u = u /\ task'[k].t = t /\ task'[k].prev = prev /\ task'[k].role = role

LEMMA Starts ==
    ASSUME Shape, NEW k \in Tasks
    PROVE  /\ \A c : CreateClass(k, c) =>
                Begins(k, "createClass", "createRoom", c, None, None, None, None, "NONE")
           /\ \A c : DeleteClass(k, c) =>
                Begins(k, "deleteClass", "deactivate", c, None, None, None, None, "NONE")
           /\ \A c, p : AssignProfessor(k, c, p) =>
                Begins(k, "assign", "classRoom", c, None, p, None, None, "PROFESSOR")
           /\ \A c, p : RemoveProfessor(k, c, p) =>
                Begins(k, "dismiss", "classRoom", c, None, p, None, None, "NONE")
           /\ \A s, t : CreateSection(k, s, t) =>
                Begins(k, "createSection", "findTaRoom", None, s, None, t, None, "NONE")
           /\ \A s, t : UpdateSection(k, s, t) =>
                Begins(k, "updateSection", "write", None, s, None, t, section[s], "NONE")
           /\ \A s : DeleteSection(k, s) =>
                Begins(k, "deleteSection", "delete", None, s, None, section[s], None, "NONE")
           /\ \A u, c, s, role : CreateEnrolment(k, u, c, s, role) =>
                \/ c = None /\ s = None /\ task' = task
                \/ /\ c # None \/ s # None
                   /\ Begins(k, "enrol", IF c # None THEN "classRoom" ELSE "sectionTa",
                             c, s, u, None, None, role)
           /\ \A u : RemoveEnrolment(k, u) =>
                Begins(k, "unenrol", IF enrolled[u].s # None THEN "sectionTa" ELSE "findRooms",
                       enrolled[u].c, enrolled[u].s, u, None, None, "NONE")
<1>0. task \in [Tasks -> Task \cup {Idle}]
  BY DEF Shape, TypeOK
<1>1. \A q : Start(k, q) => /\ task[k] = Idle /\ task'[k] = q
                            /\ \A j \in Tasks \ {k} : task'[j] = task[j]
  BY <1>0 DEF Start
<1>2. ASSUME NEW c, CreateClass(k, c)
      PROVE  Begins(k, "createClass", "createRoom", c, None, None, None, None, "NONE")
  <2> DEFINE q == [Idle EXCEPT !.op = "createClass", !.pc = "createRoom", !.c = c]
  <2>1. Start(k, q)
    BY <1>2 DEF CreateClass
  <2>2. /\ q.op = "createClass" /\ q.pc = "createRoom" /\ q.c = c /\ q.s = None
        /\ q.u = None /\ q.t = None /\ q.prev = None /\ q.role = "NONE"
    BY DEF Idle
  <2> HIDE DEF q
  <2> QED BY <1>1, <2>1, <2>2 DEF Begins
<1>2d. ASSUME NEW c, DeleteClass(k, c)
      PROVE  Begins(k, "deleteClass", "deactivate", c, None, None, None, None, "NONE")
  <2> DEFINE q == [Idle EXCEPT !.op = "deleteClass", !.pc = "deactivate", !.c = c]
  <2>1. Start(k, q)
    BY <1>2d DEF DeleteClass
  <2>2. /\ q.op = "deleteClass" /\ q.pc = "deactivate" /\ q.c = c /\ q.s = None
        /\ q.u = None /\ q.t = None /\ q.prev = None /\ q.role = "NONE"
    BY DEF Idle
  <2> HIDE DEF q
  <2> QED BY <1>1, <2>1, <2>2 DEF Begins
<1>3. ASSUME NEW c, NEW p, AssignProfessor(k, c, p)
      PROVE  Begins(k, "assign", "classRoom", c, None, p, None, None, "PROFESSOR")
  <2> DEFINE q == [Idle EXCEPT !.op = "assign", !.pc = "classRoom", !.c = c,
                            !.u = p, !.role = "PROFESSOR"]
  <2>1. Start(k, q)
    BY <1>3 DEF AssignProfessor
  <2>2. /\ q.op = "assign" /\ q.pc = "classRoom" /\ q.c = c /\ q.s = None
        /\ q.u = p /\ q.t = None /\ q.prev = None /\ q.role = "PROFESSOR"
    BY DEF Idle
  <2> HIDE DEF q
  <2> QED BY <1>1, <2>1, <2>2 DEF Begins
<1>3d. ASSUME NEW c, NEW p, RemoveProfessor(k, c, p)
      PROVE  Begins(k, "dismiss", "classRoom", c, None, p, None, None, "NONE")
  <2> DEFINE q == [Idle EXCEPT !.op = "dismiss", !.pc = "classRoom", !.c = c, !.u = p]
  <2>1. Start(k, q)
    BY <1>3d DEF RemoveProfessor
  <2>2. /\ q.op = "dismiss" /\ q.pc = "classRoom" /\ q.c = c /\ q.s = None
        /\ q.u = p /\ q.t = None /\ q.prev = None /\ q.role = "NONE"
    BY DEF Idle
  <2> HIDE DEF q
  <2> QED BY <1>1, <2>1, <2>2 DEF Begins
<1>4. ASSUME NEW s, NEW t, CreateSection(k, s, t)
      PROVE  Begins(k, "createSection", "findTaRoom", None, s, None, t, None, "NONE")
  <2> DEFINE q == [Idle EXCEPT !.op = "createSection", !.pc = "findTaRoom", !.s = s, !.t = t]
  <2>1. Start(k, q)
    BY <1>4 DEF CreateSection
  <2>2. /\ q.op = "createSection" /\ q.pc = "findTaRoom" /\ q.c = None /\ q.s = s
        /\ q.u = None /\ q.t = t /\ q.prev = None /\ q.role = "NONE"
    BY DEF Idle
  <2> HIDE DEF q
  <2> QED BY <1>1, <2>1, <2>2 DEF Begins
<1>4u. ASSUME NEW s, NEW t, UpdateSection(k, s, t)
      PROVE  Begins(k, "updateSection", "write", None, s, None, t, section[s], "NONE")
  <2> DEFINE q == [Idle EXCEPT !.op = "updateSection", !.pc = "write", !.s = s, !.t = t,
                            !.prev = section[s]]
  <2>1. Start(k, q)
    BY <1>4u DEF UpdateSection
  <2>2. /\ q.op = "updateSection" /\ q.pc = "write" /\ q.c = None /\ q.s = s
        /\ q.u = None /\ q.t = t /\ q.prev = section[s] /\ q.role = "NONE"
    BY DEF Idle
  <2> HIDE DEF q
  <2> QED BY <1>1, <2>1, <2>2 DEF Begins
<1>4d. ASSUME NEW s, DeleteSection(k, s)
      PROVE  Begins(k, "deleteSection", "delete", None, s, None, section[s], None, "NONE")
  <2> DEFINE q == [Idle EXCEPT !.op = "deleteSection", !.pc = "delete", !.s = s, !.t = section[s]]
  <2>1. Start(k, q)
    BY <1>4d DEF DeleteSection
  <2>2. /\ q.op = "deleteSection" /\ q.pc = "delete" /\ q.c = None /\ q.s = s
        /\ q.u = None /\ q.t = section[s] /\ q.prev = None /\ q.role = "NONE"
    BY DEF Idle
  <2> HIDE DEF q
  <2> QED BY <1>1, <2>1, <2>2 DEF Begins
<1>5. ASSUME NEW u, NEW c, NEW s, NEW role, CreateEnrolment(k, u, c, s, role)
      PROVE  \/ c = None /\ s = None /\ task' = task
             \/ /\ c # None \/ s # None
                /\ Begins(k, "enrol", IF c # None THEN "classRoom" ELSE "sectionTa",
                          c, s, u, None, None, role)
  <2>1. Start(k, IF c = None /\ s = None THEN Idle
                 ELSE [Idle EXCEPT !.op = "enrol",
                         !.pc = IF c # None THEN "classRoom" ELSE "sectionTa",
                         !.c = c, !.s = s, !.u = u, !.role = role])
    BY <1>5 DEF CreateEnrolment
  <2>2. CASE c = None /\ s = None
    BY <1>0, <2>1, <2>2 DEF Start
  <2>3. CASE ~(c = None /\ s = None)
    <3> DEFINE q == [Idle EXCEPT !.op = "enrol",
                       !.pc = IF c # None THEN "classRoom" ELSE "sectionTa",
                       !.c = c, !.s = s, !.u = u, !.role = role]
    <3>1. Start(k, q)
      BY <2>1, <2>3
    <3>2. /\ q.op = "enrol" /\ q.pc = IF c # None THEN "classRoom" ELSE "sectionTa"
          /\ q.c = c /\ q.s = s /\ q.u = u /\ q.t = None /\ q.prev = None /\ q.role = role
      BY DEF Idle
    <3> HIDE DEF q
    <3> QED BY <1>1, <2>3, <3>1, <3>2 DEF Begins
  <2> QED BY <2>2, <2>3
<1>6. ASSUME NEW u, RemoveEnrolment(k, u)
      PROVE  Begins(k, "unenrol", IF enrolled[u].s # None THEN "sectionTa" ELSE "findRooms",
                    enrolled[u].c, enrolled[u].s, u, None, None, "NONE")
  <2> DEFINE q == [Idle EXCEPT !.op = "unenrol", !.c = enrolled[u].c, !.s = enrolled[u].s, !.u = u,
                     !.pc = IF enrolled[u].s # None THEN "sectionTa" ELSE "findRooms"]
  <2>1. Start(k, q)
    BY <1>6 DEF RemoveEnrolment
  <2>2. /\ q.op = "unenrol" /\ q.pc = IF enrolled[u].s # None THEN "sectionTa" ELSE "findRooms"
        /\ q.c = enrolled[u].c /\ q.s = enrolled[u].s /\ q.u = u /\ q.t = None /\ q.prev = None
        /\ q.role = "NONE"
    BY DEF Idle
  <2> HIDE DEF q
  <2> QED BY <1>1, <2>1, <2>2 DEF Begins
<1> QED BY <1>2, <1>2d, <1>3, <1>3d, <1>4, <1>4u, <1>4d, <1>5, <1>6

LEMMA ArriveKinds ==
    ASSUME Shape, KindsOK, NEW k \in Tasks, Arrive(k)
    PROVE  KindsOK'
<1>1. ASSUME KindOK(task'[k]), \A j \in Tasks \ {k} : task'[j] = task[j] PROVE KindsOK'
  BY <1>1 DEF KindsOK
<1>2. ASSUME NEW c \in Classes, CreateClass(k, c) \/ DeleteClass(k, c) PROVE KindsOK'
  <2>1. \/ Begins(k, "createClass", "createRoom", c, None, None, None, None, "NONE")
        \/ Begins(k, "deleteClass", "deactivate", c, None, None, None, None, "NONE")
    BY <1>2, Starts
  <2> QED BY <1>1, <2>1 DEF Begins, KindOK, StepsOf
<1>3. ASSUME NEW c \in Classes, NEW p \in Professors,
             AssignProfessor(k, c, p) \/ RemoveProfessor(k, c, p)
      PROVE  KindsOK'
  <2>1. \/ Begins(k, "assign", "classRoom", c, None, p, None, None, "PROFESSOR")
        \/ Begins(k, "dismiss", "classRoom", c, None, p, None, None, "NONE")
    BY <1>3, Starts
  <2> QED BY <1>1, <2>1 DEF Begins, KindOK, StepsOf, Users
<1>4. ASSUME NEW s \in Sections, NEW t, CreateSection(k, s, t) \/ DeleteSection(k, s)
      PROVE  KindsOK'
  <2>1. \/ Begins(k, "createSection", "findTaRoom", None, s, None, t, None, "NONE")
        \/ Begins(k, "deleteSection", "delete", None, s, None, section[s], None, "NONE")
    BY <1>4, Starts
  <2> QED BY <1>1, <2>1 DEF Begins, KindOK, StepsOf
<1>5. ASSUME NEW s \in Sections, NEW t, UpdateSection(k, s, t)
      PROVE  KindsOK'
  <2>1. Begins(k, "updateSection", "write", None, s, None, t, section[s], "NONE")
    BY <1>5, Starts
  <2>2. section[s] \in TAs
    BY <1>5 DEF UpdateSection
  <2> QED BY <1>1, <2>1, <2>2 DEF Begins, KindOK, StepsOf
<1>6. ASSUME NEW u \in Students, NEW c \in Classes \cup {None}, NEW s \in Sections \cup {None},
             NEW role \in Roles, CreateEnrolment(k, u, c, s, role)
      PROVE  KindsOK'
  <2>1. CASE task' = task
    BY <2>1 DEF KindsOK
  <2>2. CASE /\ c # None \/ s # None
             /\ Begins(k, "enrol", IF c # None THEN "classRoom" ELSE "sectionTa",
                       c, s, u, None, None, role)
    BY <1>1, <2>2 DEF Begins, KindOK, StepsOf, Users
  <2> QED BY <1>6, <2>1, <2>2, Starts
<1>7. ASSUME NEW u \in Students, RemoveEnrolment(k, u) PROVE KindsOK'
  <2>1. u \in Users /\ enrolled[u].s \in Sections \cup {None}
    BY <1>7 DEF Users, RemoveEnrolment, Shape, TypeOK, Enrolment
  <2>2. Begins(k, "unenrol", IF enrolled[u].s # None THEN "sectionTa" ELSE "findRooms",
               enrolled[u].c, enrolled[u].s, u, None, None, "NONE")
    BY <1>7, Starts
  <2> QED BY <1>1, <2>1, <2>2 DEF Begins, KindOK, StepsOf
<1> QED BY <1>2, <1>3, <1>4, <1>5, <1>6, <1>7 DEF Arrive

----------------------------------------------------------------------------
(* Members of the TAs' rooms *)

(* An event about the enrolment of u; an event that may change section s.  *)
Moves(q, u) == q.op \in {"enrol", "unenrol"} /\ q.u = u
Shifts(q, s) == q.op \in {"updateSection", "deleteSection"} /\ q.s = s

(* Nobody is enrolled in a section that is not there, an unused room has   *)
(* no member, and a room that a task has found keeps the key it had.       *)
RoomsOK ==
    /\ \A u \in Users : enrolled[u].s # None => section[enrolled[u].s] \in TAs
    /\ \A r \in RoomsOf("unused") : \A u \in Users : member[r][u] = "NONE"
    /\ \A k \in Tasks :
         /\ task[k].pc \in {"upsertClass", "expelProfessor"} =>
              room[task[k].room].key \in {task[k].c, "unlinked"}
         /\ task[k].pc \in {"addTa", "upsertTa"} => room[task[k].room].key = task[k].t

(* The events about a user whom no section event met another: one at most  *)
(* about their enrolment, in a section that no event changes meanwhile,    *)
(* and one at most that changes the section they are enrolled in.          *)
Quiet(u) ==
    LET e == enrolled[u].s
    IN  /\ \A j, k \in Tasks : Moves(task[j], u) /\ Moves(task[k], u) => j = k
        /\ \A j, k \in Tasks : Moves(task[j], u) => ~Shifts(task[k], task[j].s)
        /\ \A j, k \in Tasks : Shifts(task[j], e) /\ Shifts(task[k], e) => j = k
        /\ \A j \in Tasks : Moves(task[j], u) /\ task[j].op = "enrol" => task[j].s = e
        /\ \A j \in Tasks : Shifts(task[j], e) /\ task[j].pc = "write" =>
             task[j].prev = section[e]
        /\ \A j \in Tasks : Moves(task[j], u) /\ task[j].pc \in {"joinTaRoom", "upsertTa"} =>
             section[task[j].s] = task[j].t

(* The change of TA, or the unenrolment, is yet to expel u from r.         *)
MoveWillExpel(q, u, r) ==
    /\ q.op = "updateSection" /\ q.s = enrolled[u].s /\ q.prev = room[r].key
    /\ \/ q.pc = "students"
       \/ q.pc = "oldRoom" /\ u \in q.todo
       \/ q.pc = "expelOld" /\ u \in q.todo /\ q.room = r

LeaveWillExpel(q, u, r) ==
    /\ q.op = "unenrol" /\ q.u = u
    /\ \/ q.pc = "sectionTa" /\ section[q.s] = room[r].key
       \/ q.pc = "findRooms" /\ q.t = room[r].key
       \/ q.pc = "expel" /\ r \in q.from

Tracked(u) ==
    \A r \in Rooms :
      (member[r][u] # "NONE" /\ room[r].key \in TAs \ {u}) =>
        \/ enrolled[u].s # None /\ section[enrolled[u].s] = room[r].key
        \/ \E j \in Tasks : MoveWillExpel(task[j], u, r) \/ LeaveWillExpel(task[j], u, r)

MembersInv == RoomsOK /\ \A u \in Users \ strays : Quiet(u) /\ Tracked(u)

(* What a call, or its failure, changes. *)
LEMMA StrayEffect ==
    ASSUME NEW k \in Tasks, Step(k) \/ Fail(k)
    PROVE  strays \subseteq strays'
<1>1. CASE Fail(k)
  BY <1>1 DEF Fail
<1>2. CASE Step(k)
  BY <1>2 DEF Step, CreateClassRoom, DeactivateClassRoom, FindTaRoom, CreateTaRoom, AddTa,
     UpdateSectionWrite, ReadStudents, FindOldRoom, ExpelFromOldRoom, MoveStudents,
     DeleteSectionWrite, FindSiblings, DeactivateTaRoom, FindClassRoom, UpsertClassMember,
     ExpelProfessor, ReadSectionTa, FindTaRoomToJoin, UpsertTaRoomMember,
     FindEnrolmentRooms, ExpelFromRooms, history
<1> QED BY <1>1, <1>2

LEMMA EnrolledEffect ==
    ASSUME Shape, NEW k \in Tasks, Step(k) \/ Fail(k), NEW u \in Users
    PROVE  \/ enrolled'[u] = enrolled[u]
           \/ u \in strays' /\ enrolled'[u].s = None
<1>1. CASE DeleteSectionWrite(k)
  <2>1. enrolled \in [Users -> Enrolment \cup {NotEnrolled}]
    BY DEF Shape, TypeOK
  <2>2. CASE UNCHANGED enrolled
    BY <2>2
  <2>3. CASE /\ enrolled' = [v \in Users |-> IF enrolled[v].s = task[k].s
                                             THEN [enrolled[v] EXCEPT !.s = None] ELSE enrolled[v]]
             /\ strays' = strays \cup InSection(task[k].s)
    <3>1. CASE enrolled[u].s = task[k].s
      <4>1. u \in strays'
        BY <2>3, <3>1 DEF InSection
      <4>2. enrolled'[u] = [enrolled[u] EXCEPT !.s = None]
        BY <2>3, <3>1
      <4>3. enrolled[u] \in Enrolment \/ enrolled[u] = NotEnrolled
        BY <2>1
      <4> QED BY <4>1, <4>2, <4>3 DEF Enrolment, NotEnrolled
    <3>2. CASE enrolled[u].s # task[k].s
      BY <2>3, <3>2
    <3> QED BY <3>1, <3>2
  <2> QED BY <1>1, <2>2, <2>3 DEF DeleteSectionWrite
<1>2. CASE ~DeleteSectionWrite(k) /\ Step(k)
  <2>1. enrolled' = enrolled
    BY <1>2 DEF Step, CreateClassRoom, DeactivateClassRoom, FindTaRoom, CreateTaRoom, AddTa,
     UpdateSectionWrite, ReadStudents, FindOldRoom, ExpelFromOldRoom, MoveStudents,
     FindSiblings, DeactivateTaRoom, FindClassRoom, UpsertClassMember,
     ExpelProfessor, ReadSectionTa, FindTaRoomToJoin, UpsertTaRoomMember,
     FindEnrolmentRooms, ExpelFromRooms, records
  <2> QED BY <2>1
<1>3. CASE Fail(k)
  BY <1>3 DEF Fail, records
<1> QED BY <1>1, <1>2, <1>3

(* A section changes by the one write of its update or its deletion. *)
LEMMA SectionEffect ==
    ASSUME Shape, KindsOK, NEW k \in Tasks, Step(k) \/ Fail(k), NEW s \in Sections,
           section'[s] # section[s]
    PROVE  /\ Shifts(task[k], s) /\ section[s] \in TAs
           /\ \/ /\ task[k].pc = "delete" /\ InSection(s) \subseteq strays'
                 /\ \A u \in Users : enrolled'[u].s # s
              \/ /\ task[k].pc = "write" /\ section'[s] \in TAs /\ enrolled' = enrolled
                 /\ section'[s] # task[k].prev =>
                      task'[k].pc = "students" /\ task'[k] # Idle
<1>0. /\ section \in [Sections -> TAs \cup {"new", "gone"}] /\ task[k] \in Task
      /\ task \in [Tasks -> Task \cup {Idle}] /\ KindOK(task[k]) /\ CarriesOK(task[k])
      /\ enrolled \in [Users -> Enrolment \cup {NotEnrolled}]
  BY Advances, IdleOp DEF Shape, TypeOK, TasksOK, KindsOK
<1>1. CASE UpdateSectionWrite(k)
  <2>1. task[k].s \in Sections /\ task[k].pc = "write" /\ task[k].op = "updateSection"
    BY <1>0, <1>1 DEF UpdateSectionWrite, CarriesOK, KindOK, StepsOf, Task, AllOps
  <2> DEFINE t == IF task[k].t = None THEN section[task[k].s] ELSE task[k].t
  <2>2. /\ section[task[k].s] \in TAs /\ section' = [section EXCEPT ![task[k].s] = t]
        /\ IF t # task[k].prev THEN task' = [task EXCEPT ![k].pc = "students", ![k].t = t]
           ELSE End(k)
        /\ enrolled' = enrolled
    BY <1>1 DEF UpdateSectionWrite
  <2>3. s = task[k].s /\ section'[s] = t
    BY <1>0, <2>1, <2>2
  <2>4. t \in TAs
    BY <1>0, <2>2 DEF Task
  <2>5. ASSUME t # task[k].prev PROVE task'[k].pc = "students" /\ task'[k] # Idle
    <3>1. task' = [task EXCEPT ![k].pc = "students", ![k].t = t]
      BY <2>2, <2>5
    <3> HIDE DEF t
    <3>2. task'[k].pc = "students"
      BY <1>0, <3>1 DEF Task
    <3> QED BY <3>2, IdleOp
  <2> HIDE DEF t
  <2> QED BY <2>1, <2>2, <2>3, <2>4, <2>5 DEF Shifts
<1>2. CASE DeleteSectionWrite(k)
  <2>1. /\ task[k].pc = "delete" /\ section[task[k].s] \in TAs
        /\ section' = [section EXCEPT ![task[k].s] = "gone"]
        /\ enrolled' = [u \in Users |->
                     IF enrolled[u].s = task[k].s THEN [enrolled[u] EXCEPT !.s = None]
                                                  ELSE enrolled[u]]
        /\ strays' = strays \cup InSection(task[k].s)
    BY <1>2 DEF DeleteSectionWrite
  <2>2. task[k].op = "deleteSection"
    BY <1>0, <2>1 DEF KindOK, StepsOf, Task, AllOps
  <2>3. s = task[k].s
    BY <1>0, <2>1
  <2>4. ASSUME NEW u \in Users PROVE enrolled'[u].s # s
    <3>1. CASE enrolled[u].s = s
      <4>1. enrolled'[u] = [enrolled[u] EXCEPT !.s = None]
        BY <2>1, <2>3, <3>1
      <4>2. enrolled[u] \in Enrolment \/ enrolled[u] = NotEnrolled
        BY <1>0
      <4> QED BY <4>1, <4>2, AcademicAssumption DEF Enrolment, NotEnrolled
    <3>2. CASE enrolled[u].s # s
      BY <2>1, <2>3, <3>2
    <3> QED BY <3>1, <3>2
  <2> QED BY <2>1, <2>2, <2>3, <2>4 DEF Shifts
<1>3. CASE Step(k) /\ ~UpdateSectionWrite(k) /\ ~DeleteSectionWrite(k)
  <2>1. section' = section
    BY <1>3 DEF Step, CreateClassRoom, DeactivateClassRoom, FindTaRoom, CreateTaRoom, AddTa,
     ReadStudents, FindOldRoom, ExpelFromOldRoom, MoveStudents,
     FindSiblings, DeactivateTaRoom, FindClassRoom, UpsertClassMember,
     ExpelProfessor, ReadSectionTa, FindTaRoomToJoin, UpsertTaRoomMember,
     FindEnrolmentRooms, ExpelFromRooms, records
  <2> QED BY <2>1
<1>4. CASE Fail(k)
  BY <1>4 DEF Fail, records
<1> QED BY <1>1, <1>2, <1>3, <1>4

(* Rows appear by the three creates and upserts only. *)
LEMMA MemberEffect ==
    ASSUME Shape, KindsOK, NEW k \in Tasks, Step(k) \/ Fail(k), NEW r \in Rooms, NEW u \in Users
    PROVE  \/ member'[r][u] \in {"NONE", member[r][u]}
           \/ /\ r = task[k].room
              /\ \/ task[k].pc = "addTa" /\ u = task[k].t
                 \/ task[k].pc = "upsertClass" /\ u = task[k].u
                 \/ task[k].pc = "upsertTa" /\ u = task[k].u
<1>0. member \in [Rooms -> [Users -> MemberRole]] /\ task[k] \in Task /\ KindOK(task[k])
  BY Advances, IdleOp DEF Shape, TypeOK, KindsOK
<1>1. CASE AddTa(k)
  BY <1>0, <1>1 DEF AddTa
<1>2. CASE UpsertClassMember(k)
  BY <1>0, <1>2 DEF UpsertClassMember
<1>3. CASE UpsertTaRoomMember(k)
  BY <1>0, <1>3 DEF UpsertTaRoomMember
<1>4. CASE ExpelProfessor(k)
  BY <1>0, <1>4 DEF ExpelProfessor
<1>5. CASE ExpelFromOldRoom(k)
  BY <1>0, <1>5 DEF ExpelFromOldRoom
<1>6. CASE ExpelFromRooms(k)
  <2>1. CASE UNCHANGED member
    BY <2>1
  <2>2. ASSUME NEW x \in task[k].from, member' = [member EXCEPT ![x][task[k].u] = "NONE"]
        PROVE  member'[r][u] \in {"NONE", member[r][u]}
    BY <1>0, <2>2
  <2> QED BY <1>6, <2>1, <2>2 DEF ExpelFromRooms
<1>7. CASE /\ Step(k) /\ ~AddTa(k) /\ ~UpsertClassMember(k) /\ ~UpsertTaRoomMember(k)
           /\ ~ExpelProfessor(k) /\ ~ExpelFromOldRoom(k) /\ ~ExpelFromRooms(k)
  <2>1. member' = member
    BY <1>7 DEF Step, CreateClassRoom, DeactivateClassRoom, FindTaRoom, CreateTaRoom,
     UpdateSectionWrite, ReadStudents, FindOldRoom, MoveStudents, DeleteSectionWrite,
     FindSiblings, DeactivateTaRoom, FindClassRoom, ReadSectionTa, FindTaRoomToJoin,
     FindEnrolmentRooms, rooms
  <2> QED BY <2>1
<1>8. CASE Fail(k)
  <2>1. member' = member
    BY <1>8 DEF Fail, rooms
  <2> QED BY <2>1
<1> QED BY <1>1, <1>2, <1>3, <1>4, <1>5, <1>6, <1>7, <1>8

(* A call names rooms that had no name. *)
LEMMA KeyEffect ==
    ASSUME Shape, KindsOK, NEW k \in Tasks, Step(k) \/ Fail(k), NEW r \in Rooms
    PROVE  \/ room'[r].key = room[r].key
           \/ /\ room[r].key = "unused" /\ room'[r].key \in Classes \cup TAs
              /\ \/ task[k].pc = "createRoom" /\ room'[r].key = task[k].c
                 \/ task[k].pc = "createTaRoom" /\ room'[r].key = task[k].t
<1>0. /\ room \in [Rooms -> Room] /\ task[k] \in Task /\ KindOK(task[k]) /\ CarriesOK(task[k])
  BY Advances, IdleOp DEF Shape, TypeOK, TasksOK, KindsOK
<1>a. ASSUME RoomsOf("unused") # {} PROVE NewRoom \in Rooms /\ room[NewRoom].key = "unused"
  BY <1>a DEF NewRoom, RoomsOf
<1>b. ASSUME NEW key, Deactivate(key) PROVE room'[r].key = room[r].key
  <2>1. room[r] \in Room
    BY <1>0
  <2>2. room'[r] = IF room[r].key = key THEN [room[r] EXCEPT !.active = FALSE] ELSE room[r]
    BY <1>b DEF Deactivate
  <2> QED BY <2>1, <2>2 DEF Room
<1>1. CASE CreateClassRoom(k)
  BY <1>0, <1>a, <1>1 DEF CreateClassRoom, CarriesOK
<1>2. CASE CreateTaRoom(k)
  BY <1>0, <1>a, <1>2 DEF CreateTaRoom, CarriesOK
<1>3. CASE DeactivateClassRoom(k)
  BY <1>b, <1>3 DEF DeactivateClassRoom
<1>4. CASE DeactivateTaRoom(k)
  BY <1>b, <1>4 DEF DeactivateTaRoom
<1>5. CASE /\ Step(k) /\ ~CreateClassRoom(k) /\ ~CreateTaRoom(k)
           /\ ~DeactivateClassRoom(k) /\ ~DeactivateTaRoom(k)
  <2>1. room' = room
    BY <1>5 DEF Step, FindTaRoom, AddTa, UpdateSectionWrite, ReadStudents, FindOldRoom,
     ExpelFromOldRoom, MoveStudents, DeleteSectionWrite, FindSiblings, FindClassRoom,
     UpsertClassMember, ExpelProfessor, ReadSectionTa, FindTaRoomToJoin, UpsertTaRoomMember,
     FindEnrolmentRooms, ExpelFromRooms, rooms
  <2> QED BY <2>1
<1>6. CASE Fail(k)
  BY <1>6 DEF Fail, rooms
<1> QED BY <1>1, <1>2, <1>3, <1>4, <1>5, <1>6

(* What a task has found when it comes to the calls that write rows. *)
LEMMA Lands ==
    ASSUME Shape, KindsOK, NEW k \in Tasks, Step(k) \/ Fail(k), task'[k] # Idle
    PROVE  /\ task'[k].pc # "write"
           /\ task'[k].pc \in {"upsertClass", "expelProfessor"} =>
                task'[k].room \in RoomsOf(task[k].c) /\ room' = room
           /\ task'[k].pc = "addTa" => room'[task'[k].room].key = task'[k].t
           /\ task'[k].pc = "joinTaRoom" => section' = section /\ task'[k].t = section[task[k].s]
           /\ task'[k].pc = "upsertTa" =>
                /\ task[k].pc = "joinTaRoom" /\ task'[k].t = task[k].t
                /\ task'[k].room \in RoomsOf(task[k].t) /\ room' = room /\ section' = section
<1> DEFINE q == task[k]
           n == task'[k]
<1>1. q \in Task /\ task \in [Tasks -> Task \cup {Idle}] /\ ~End(k)
  <2>1. task \in [Tasks -> Task \cup {Idle}]
    BY DEF Shape, TypeOK
  <2> QED BY <2>1, Advances DEF End
<1>g. ASSUME NEW pc \in Steps, Goto(k, pc) PROVE n.pc = pc
  BY <1>1, <1>g DEF Goto, Task
<1>2. ASSUME AfterClassRoom(k) \/ AfterTaRoom(k) PROVE n.pc \in {"sectionTa", "move"}
  BY <1>1, <1>2, <1>g DEF AfterClassRoom, AfterTaRoom, Steps
<1> DEFINE Elsewhere == n.pc \notin {"write", "upsertClass", "expelProfessor", "addTa",
                                      "joinTaRoom", "upsertTa"}
<1>3. CASE Elsewhere
  BY <1>3
<1>4. CASE Fail(k) \/ AddTa(k) \/ UpsertClassMember(k)
  BY <1>1, <1>2, <1>4 DEF Fail, AddTa, UpsertClassMember
<1>5. CASE FindTaRoom(k) \/ ExpelFromOldRoom(k) \/ DeleteSectionWrite(k) \/ FindSiblings(k)
  <2>1. n.pc \in {"createTaRoom", "findTaRoom", "siblings", "deactivateTa", "sectionTa", "move"}
    BY <1>1, <1>2, <1>5, <1>g DEF FindTaRoom, ExpelFromOldRoom, DeleteSectionWrite,
       FindSiblings, Steps
  <2> QED BY <2>1
<1>6. CASE \/ CreateClassRoom(k) \/ DeactivateClassRoom(k) \/ MoveStudents(k)
           \/ DeactivateTaRoom(k) \/ ExpelProfessor(k) \/ UpsertTaRoomMember(k)
  BY <1>1, <1>6 DEF CreateClassRoom, DeactivateClassRoom, MoveStudents, DeactivateTaRoom,
     ExpelProfessor, UpsertTaRoomMember
<1>7. CASE CreateTaRoom(k)
  <2>1. NewRoom \in Rooms /\ room \in [Rooms -> Room]
    BY <1>7 DEF CreateTaRoom, NewRoom, RoomsOf, Shape, TypeOK
  <2>2. n.pc = "addTa" /\ n.room = NewRoom /\ n.t = q.t
    BY <1>1, <1>7 DEF CreateTaRoom, Task
  <2>3. room'[NewRoom] = [key |-> q.t, active |-> TRUE]
    BY <1>7, <2>1 DEF CreateTaRoom
  <2> HIDE DEF n
  <2> QED BY <2>2, <2>3 DEF n
<1>8. CASE UpdateSectionWrite(k) \/ ReadStudents(k) \/ FindEnrolmentRooms(k)
  <2>1. n.pc \in {"students", "oldRoom", "expel"}
    BY <1>1, <1>8 DEF UpdateSectionWrite, ReadStudents, FindEnrolmentRooms, Task
  <2> QED BY <2>1
<1>9. CASE FindOldRoom(k)
  <2>1. ASSUME NEW r \in RoomsOf(q.prev),
               task' = [task EXCEPT ![k].pc = "expelOld", ![k].room = r]
        PROVE  n.pc = "expelOld"
    BY <1>1, <2>1 DEF Task
  <2>2. n.pc \in {"expelOld", "findTaRoom"}
    BY <1>9, <1>g, <2>1 DEF FindOldRoom, Steps
  <2> QED BY <2>2
<1>10. CASE ExpelFromRooms(k)
  <2>1. ASSUME NEW r, task' = [task EXCEPT ![k].from = @ \ {r}] PROVE n.pc = q.pc
    BY <1>1, <2>1 DEF Task
  <2>2. n.pc = "expel"
    BY <1>1, <1>10, <2>1 DEF ExpelFromRooms
  <2> QED BY <2>2
<1>11. CASE FindClassRoom(k)
  <2>1. ASSUME NEW r \in RoomsOf(q.c),
               task' = [task EXCEPT ![k].pc = IF q.op = "dismiss" THEN "expelProfessor"
                                              ELSE "upsertClass", ![k].room = r]
        PROVE  n.pc \in {"expelProfessor", "upsertClass"} /\ n.room = r
    BY <1>1, <2>1 DEF Task
  <2>2. room' = room
    BY <1>11 DEF FindClassRoom, rooms
  <2>3. Elsewhere \/ (n.pc \in {"expelProfessor", "upsertClass"} /\ n.room \in RoomsOf(q.c))
    BY <1>2, <1>11, <2>1 DEF FindClassRoom
  <2> QED BY <2>2, <2>3
<1>12. CASE ReadSectionTa(k)
  <2>1. section' = section
    BY <1>12 DEF ReadSectionTa, records
  <2>2. CASE Goto(k, "findRooms")
    BY <1>g, <2>2 DEF Steps
  <2>3. CASE task' = [task EXCEPT ![k].t = section[q.s],
                                  ![k].pc = IF q.op = "enrol" THEN "joinTaRoom" ELSE "findRooms"]
    <3>1. n.t = section[q.s] /\ n.pc \in {"joinTaRoom", "findRooms"}
      BY <1>1, <2>3 DEF Task
    <3> QED BY <2>1, <3>1
  <2> QED BY <1>1, <1>12, <2>2, <2>3 DEF ReadSectionTa
<1>13. CASE FindTaRoomToJoin(k)
  <2>1. ASSUME NEW r \in RoomsOf(q.t), task' = [task EXCEPT ![k].pc = "upsertTa", ![k].room = r]
        PROVE  n.pc = "upsertTa" /\ n.room \in RoomsOf(q.t) /\ n.t = q.t
    BY <1>1, <2>1 DEF Task
  <2>2. q.pc = "joinTaRoom" /\ room' = room /\ section' = section
    BY <1>13 DEF FindTaRoomToJoin, rooms, records
  <2>3. n.pc = "upsertTa" /\ n.room \in RoomsOf(q.t) /\ n.t = q.t
    BY <1>1, <1>13, <2>1 DEF FindTaRoomToJoin
  <2> QED BY <2>2, <2>3
<1> QED BY <1>4, <1>5, <1>6, <1>7, <1>8, <1>9, <1>10, <1>11, <1>12, <1>13 DEF Step

LEMMA StepRooms ==
    ASSUME Shape, KindsOK, RoomsOK, NEW k \in Tasks, Step(k) \/ Fail(k)
    PROVE  RoomsOK'
<1>0. /\ room \in [Rooms -> Room] /\ task[k] \in Task /\ KindOK(task[k]) /\ CarriesOK(task[k])
      /\ \A j \in Tasks : task[j].pc \in {"upsertClass", "expelProfessor", "addTa", "upsertTa"} =>
           /\ task[j].room \in Rooms /\ room[task[j].room].key # "unused"
  <2>1. /\ room \in [Rooms -> Room] /\ task[k] \in Task /\ KindOK(task[k])
    BY Advances, IdleOp DEF Shape, TypeOK, KindsOK
  <2>2. ASSUME NEW j \in Tasks,
               task[j].pc \in {"upsertClass", "expelProfessor", "addTa", "upsertTa"}
        PROVE  task[j].room \in Rooms /\ room[task[j].room].key # "unused"
    <3>1. KindOK(task[j]) /\ CarriesOK(task[j])
      BY <2>2, IdleOp DEF Shape, KindsOK, TasksOK
    <3>2. task[j].pc \in {"upsertClass", "expelProfessor"} => task[j].c # "unused"
      BY <3>1, AcademicAssumption DEF KindOK
    <3>3. task[j].pc \in {"addTa", "upsertTa"} => task[j].t # "unused"
      BY <3>1, AcademicAssumption DEF KindOK, CarriesOK
    <3> QED BY <2>2, <3>1, <3>2, <3>3 DEF KindOK, RoomsOK
  <2> QED BY <2>1, <2>2 DEF Shape, TasksOK
<1>1. ASSUME NEW u \in Users, enrolled'[u].s # None PROVE section'[enrolled'[u].s] \in TAs
  <2>1. enrolled'[u] = enrolled[u] /\ section[enrolled[u].s] \in TAs
    BY <1>1, EnrolledEffect DEF RoomsOK
  <2>2. enrolled[u].s \in Sections
    BY <1>1, <2>1 DEF Shape, TypeOK, Enrolment, NotEnrolled
  <2>3. CASE section'[enrolled[u].s] # section[enrolled[u].s]
    BY <2>1, <2>2, <2>3, SectionEffect
  <2> QED BY <2>1, <2>3
<1>2. ASSUME NEW r \in Rooms, room'[r].key = "unused", NEW u \in Users PROVE member'[r][u] = "NONE"
  <2>1. room[r].key = "unused"
    BY <1>2, KeyEffect, AcademicAssumption
  <2>2. member[r][u] = "NONE"
    BY <2>1 DEF RoomsOK, RoomsOf
  <2> QED BY <1>0, <2>1, <2>2, MemberEffect
<1>3. ASSUME NEW j \in Tasks, task'[j].pc \in {"upsertClass", "expelProfessor", "addTa", "upsertTa"}
      PROVE  /\ task'[j].pc \in {"upsertClass", "expelProfessor"} =>
                  room'[task'[j].room].key \in {task'[j].c, "unlinked"}
             /\ task'[j].pc \in {"addTa", "upsertTa"} => room'[task'[j].room].key = task'[j].t
  <2>1. CASE j # k
    <3>1. task'[j] = task[j]
      BY <2>1, Advances
    <3>2. task[j].room \in Rooms /\ room[task[j].room].key # "unused"
      BY <1>0, <1>3, <3>1
    <3>3. room'[task[j].room].key = room[task[j].room].key
      BY <3>2, KeyEffect
    <3> QED BY <3>1, <3>3 DEF RoomsOK
  <2>2. CASE j = k
    <3>1. task'[k] # Idle
      BY <1>3, <2>2, IdleOp
    <3>2. task'[k].c = task[k].c
      BY <3>1, Advances DEF Continues
    <3> QED BY <2>2, <3>1, <3>2, Lands DEF RoomsOf
  <2> QED BY <2>1, <2>2
<1> QED BY <1>1, <1>2, <1>3 DEF RoomsOK, RoomsOf

(* The calls of a change of TA, and of an unenrolment, that expel. *)
LEMMA Expellers ==
    ASSUME NEW k \in Tasks, Step(k)
    PROVE  /\ task[k].pc = "students" => ReadStudents(k)
           /\ task[k].pc = "oldRoom" => FindOldRoom(k)
           /\ task[k].pc = "expelOld" => ExpelFromOldRoom(k)
           /\ task[k].pc = "sectionTa" => ReadSectionTa(k)
           /\ task[k].pc = "findRooms" => FindEnrolmentRooms(k)
           /\ task[k].pc = "expel" => ExpelFromRooms(k)
<1>1. CASE \/ CreateClassRoom(k) \/ DeactivateClassRoom(k) \/ FindTaRoom(k) \/ CreateTaRoom(k)
           \/ AddTa(k) \/ UpdateSectionWrite(k) \/ MoveStudents(k) \/ DeleteSectionWrite(k)
           \/ FindSiblings(k) \/ DeactivateTaRoom(k) \/ FindClassRoom(k) \/ UpsertClassMember(k)
           \/ ExpelProfessor(k) \/ FindTaRoomToJoin(k) \/ UpsertTaRoomMember(k)
  <2>1. task[k].pc \notin {"students", "oldRoom", "expelOld", "sectionTa", "findRooms", "expel"}
    BY <1>1 DEF CreateClassRoom, DeactivateClassRoom, FindTaRoom, CreateTaRoom, AddTa,
       UpdateSectionWrite, MoveStudents, DeleteSectionWrite, FindSiblings, DeactivateTaRoom,
       FindClassRoom, UpsertClassMember, ExpelProfessor, FindTaRoomToJoin, UpsertTaRoomMember
  <2> QED BY <2>1
<1>2. /\ ReadStudents(k) => task[k].pc = "students"
      /\ FindOldRoom(k) => task[k].pc = "oldRoom"
      /\ ExpelFromOldRoom(k) => task[k].pc = "expelOld"
      /\ ReadSectionTa(k) => task[k].pc = "sectionTa"
      /\ FindEnrolmentRooms(k) => task[k].pc = "findRooms"
      /\ ExpelFromRooms(k) => task[k].pc = "expel"
  BY DEF ReadStudents, FindOldRoom, ExpelFromOldRoom, ReadSectionTa, FindEnrolmentRooms,
     ExpelFromRooms
<1> QED BY <1>1, <1>2 DEF Step

LEMMA TwoRooms ==
    ASSUME NEW key, NEW r \in RoomsOf(key), NEW x \in RoomsOf(key), x # r
    PROVE  Cardinality(RoomsOf(key)) > 1
<1>1. IsFiniteSet(RoomsOf(key)) /\ {r, x} \subseteq RoomsOf(key)
  BY Counts
<1>2. Cardinality({r, x}) <= Cardinality(RoomsOf(key))
  BY <1>1, FS_Subset
<1>3. Cardinality({r}) = 1 /\ IsFiniteSet({r}) /\ {r, x} = {r} \cup {x}
  BY FS_Singleton
<1>4. Cardinality({r, x}) = 2
  BY <1>3, FS_AddElement
<1> QED BY <1>2, <1>4, Counts

(* A change of TA still expels a student it is to expel. *)
LEMMA MoveProceeds ==
    ASSUME Shape, KindsOK, NEW k \in Tasks, Step(k) \/ Fail(k), NEW u \in Users, u \notin strays',
           NEW r \in Rooms, room[r].key \in TAs, member'[r][u] # "NONE",
           MoveWillExpel(task[k], u, r)
    PROVE  MoveWillExpel(task[k], u, r)'
<1> DEFINE q == task[k]
           n == task'[k]
<1>1. /\ enrolled'[u] = enrolled[u] /\ room'[r].key = room[r].key
      /\ q.s = enrolled[u].s /\ q.prev = room[r].key /\ q.op = "updateSection"
      /\ q \in Task /\ task \in [Tasks -> Task \cup {Idle}]
  <2>1. room[r].key # "unused"
    BY AcademicAssumption
  <2> QED BY <2>1, EnrolledEffect, KeyEffect, Advances DEF MoveWillExpel, Shape, TypeOK
<1>2. ~Fail(k)
  BY <1>1 DEF Fail, InSection
<1>3. CASE q.pc = "students"
  <2>1. ReadStudents(k)
    BY <1>2, <1>3, Expellers
  <2>2. u \in InSection(q.s)
    BY <1>1 DEF InSection
  <2> DEFINE students == {v \in InSection(q.s) : enrolled[v].role = "STUDENT"}
  <2>3. /\ task' = [task EXCEPT ![k].pc = "oldRoom", ![k].todo = students]
        /\ u \in students
    BY <2>1, <2>2 DEF ReadStudents
  <2> HIDE DEF students
  <2>4. /\ n.pc = "oldRoom" /\ n.todo = students /\ n.op = q.op /\ n.s = q.s /\ n.prev = q.prev
    BY <1>1, <2>3 DEF Task
  <2> QED BY <1>1, <2>3, <2>4 DEF MoveWillExpel
<1>4. CASE q.pc = "oldRoom"
  <2>1. FindOldRoom(k) /\ u \in q.todo
    BY <1>2, <1>4, Expellers DEF MoveWillExpel
  <2>2. r \in RoomsOf(q.prev)
    BY <1>1 DEF RoomsOf
  <2>3. PICK x \in RoomsOf(q.prev) : task' = [task EXCEPT ![k].pc = "expelOld", ![k].room = x]
    BY <2>1, <2>2 DEF FindOldRoom
  <2>4. x = r
    <3>1. ~(Cardinality(RoomsOf(q.prev)) > 1)
      BY <2>1 DEF FindOldRoom
    <3> QED BY <2>2, <3>1, TwoRooms
  <2>5. /\ n.pc = "expelOld" /\ n.todo = q.todo /\ n.op = q.op /\ n.s = q.s /\ n.prev = q.prev
        /\ n.room = r
    BY <1>1, <2>3, <2>4 DEF Task
  <2> QED BY <1>1, <2>1, <2>5 DEF MoveWillExpel
<1>5. CASE q.pc = "expelOld"
  <2>1. ExpelFromOldRoom(k) /\ u \in q.todo /\ q.room = r
    BY <1>2, <1>5, Expellers DEF MoveWillExpel
  <2>2. member \in [Rooms -> [Users -> MemberRole]]
    BY DEF Shape, TypeOK
  <2> QED BY <2>1, <2>2 DEF ExpelFromOldRoom
<1> QED BY <1>3, <1>4, <1>5 DEF MoveWillExpel

(* So does an unenrolment. *)
LEMMA LeaveProceeds ==
    ASSUME Shape, KindsOK, NEW k \in Tasks, Step(k) \/ Fail(k), NEW u \in Users, u \notin strays',
           NEW r \in Rooms, room[r].key \in TAs, member'[r][u] # "NONE",
           LeaveWillExpel(task[k], u, r)
    PROVE  LeaveWillExpel(task[k], u, r)'
<1> DEFINE q == task[k]
           n == task'[k]
<1>1. /\ room'[r].key = room[r].key /\ q.op = "unenrol" /\ q.u = u
      /\ q \in Task /\ task \in [Tasks -> Task \cup {Idle}]
  <2>1. room[r].key # "unused"
    BY AcademicAssumption
  <2> QED BY <2>1, KeyEffect, Advances DEF LeaveWillExpel, Shape, TypeOK
<1>2. ~Fail(k)
  BY <1>1, AcademicAssumption DEF Fail
<1>3. CASE q.pc = "sectionTa"
  <2>1. ReadSectionTa(k) /\ section[q.s] = room[r].key
    BY <1>2, <1>3, Expellers DEF LeaveWillExpel
  <2>2. task' = [task EXCEPT ![k].t = section[q.s], ![k].pc = "findRooms"]
    BY <1>1, <2>1 DEF ReadSectionTa
  <2>3. n.pc = "findRooms" /\ n.t = section[q.s] /\ n.op = q.op /\ n.u = q.u
    BY <1>1, <2>2 DEF Task
  <2> QED BY <1>1, <2>1, <2>3 DEF LeaveWillExpel
<1>4. CASE q.pc = "findRooms"
  <2>1. FindEnrolmentRooms(k) /\ q.t = room[r].key
    BY <1>2, <1>4, Expellers DEF LeaveWillExpel
  <2> DEFINE from == RoomsOf(q.c) \cup RoomsOf(q.t)
  <2>2. task' = [task EXCEPT ![k].pc = "expel", ![k].from = from]
    BY <2>1 DEF FindEnrolmentRooms
  <2>3. r \in from
    BY <2>1 DEF RoomsOf
  <2> HIDE DEF from
  <2>4. n.pc = "expel" /\ n.from = from /\ n.op = q.op /\ n.u = q.u
    BY <1>1, <2>2 DEF Task
  <2> QED BY <1>1, <2>3, <2>4 DEF LeaveWillExpel
<1>5. CASE q.pc = "expel"
  <2>1. ExpelFromRooms(k) /\ r \in q.from
    BY <1>2, <1>5, Expellers DEF LeaveWillExpel
  <2>2. PICK x \in q.from : /\ member' = [member EXCEPT ![x][u] = "NONE"]
                            /\ task' = [task EXCEPT ![k].from = @ \ {x}]
    BY <1>1, <2>1 DEF ExpelFromRooms
  <2>3. x # r
    <3>1. member \in [Rooms -> [Users -> MemberRole]]
      BY DEF Shape, TypeOK
    <3> QED BY <2>2, <3>1
  <2>4. n.pc = "expel" /\ n.from = q.from \ {x} /\ n.op = q.op /\ n.u = q.u
    BY <1>1, <1>5, <2>2 DEF Task
  <2> QED BY <1>1, <2>1, <2>3, <2>4 DEF LeaveWillExpel
<1> QED BY <1>3, <1>4, <1>5 DEF LeaveWillExpel

LEMMA StepQuiet ==
    ASSUME Shape, KindsOK, NEW k \in Tasks, Step(k) \/ Fail(k),
           NEW u \in Users, u \notin strays', Quiet(u)
    PROVE  Quiet(u)'
<1> DEFINE e == enrolled[u].s
<1>1. enrolled'[u] = enrolled[u] /\ enrolled'[u].s = e
  BY EnrolledEffect
<1>2. ASSUME NEW j \in Tasks, task'[j].op # "none"
      PROVE  /\ task'[j].op = task[j].op /\ task'[j].u = task[j].u /\ task'[j].s = task[j].s
             /\ task'[j].prev = task[j].prev
  BY <1>2, Advances, IdleOp DEF Continues
<1>3. ASSUME NEW j \in Tasks, NEW s
      PROVE  /\ Moves(task'[j], u) => Moves(task[j], u) /\ task'[j].s = task[j].s
             /\ Shifts(task'[j], s) => Shifts(task[j], s)
             /\ Moves(task'[j], u) /\ task'[j].op = "enrol" => task[j].op = "enrol"
  BY <1>2 DEF Moves, Shifts
<1>4. ASSUME NEW j \in Tasks, Shifts(task'[j], e), task'[j].pc = "write"
      PROVE  task'[j].prev = section'[e]
  <2>1. task'[j] # Idle
    BY <1>4, IdleOp
  <2>2. j # k /\ task'[j] = task[j]
    BY <1>4, <2>1, Lands, Advances
  <2>3. Shifts(task[j], e) /\ task[j].pc = "write" /\ task[j].prev = section[e]
    BY <1>4, <2>2 DEF Quiet
  <2>4. e \in Sections
    BY <2>1, <2>2, <2>3 DEF Shifts, KindsOK, KindOK
  <2>5. section'[e] = section[e]
    BY <2>2, <2>3, <2>4, SectionEffect DEF Quiet
  <2> QED BY <2>2, <2>3, <2>5
<1>5. ASSUME NEW j \in Tasks, Moves(task'[j], u), task'[j].pc \in {"joinTaRoom", "upsertTa"}
      PROVE  section'[task'[j].s] = task'[j].t
  <2>1. task'[j] # Idle /\ Moves(task[j], u) /\ task'[j].s = task[j].s
    BY <1>3, <1>5, IdleOp
  <2>2. CASE j = k
    BY <1>5, <2>1, <2>2, Lands DEF Quiet
  <2>3. CASE j # k
    <3>1. task'[j] = task[j]
      BY <2>3, Advances
    <3>2. section[task[j].s] = task[j].t /\ task[j].s \in Sections
      BY <1>5, <2>1, <3>1 DEF Quiet, KindsOK, KindOK
    <3>3. section'[task[j].s] = section[task[j].s]
      BY <2>1, <3>2, SectionEffect DEF Quiet
    <3> QED BY <3>1, <3>2, <3>3
  <2> QED BY <2>2, <2>3
<1>6. \A j, l \in Tasks : Moves(task'[j], u) /\ Moves(task'[l], u) => j = l
  BY <1>3 DEF Quiet
<1>7. \A j, l \in Tasks : Moves(task'[j], u) => ~Shifts(task'[l], task'[j].s)
  BY <1>3 DEF Quiet
<1>8. \A j, l \in Tasks : Shifts(task'[j], e) /\ Shifts(task'[l], e) => j = l
  BY <1>3 DEF Quiet
<1>9. \A j \in Tasks : Moves(task'[j], u) /\ task'[j].op = "enrol" => task'[j].s = e
  BY <1>3 DEF Quiet
<1> HIDE DEF e
<1> QED BY <1>1, <1>4, <1>5, <1>6, <1>7, <1>8, <1>9 DEF Quiet, Moves, Shifts

LEMMA StepTracked ==
    ASSUME Shape, KindsOK, RoomsOK, NEW k \in Tasks, Step(k) \/ Fail(k),
           NEW u \in Users, u \notin strays', Quiet(u), Tracked(u)
    PROVE  Tracked(u)'
<1> SUFFICES ASSUME NEW r \in Rooms, member'[r][u] # "NONE", room'[r].key \in TAs \ {u}
             PROVE  \/ enrolled'[u].s # None /\ section'[enrolled'[u].s] = room'[r].key
                    \/ \E j \in Tasks : \/ MoveWillExpel(task[j], u, r)'
                                        \/ LeaveWillExpel(task[j], u, r)'
  BY DEF Tracked
<1> DEFINE e == enrolled[u].s
           t == room[r].key
<1>1. enrolled'[u] = enrolled[u] /\ e \in Sections \cup {None}
  BY EnrolledEffect DEF Shape, TypeOK, Enrolment, NotEnrolled
<1>2. t # "unused"
  <2>1. CASE t = "unused"
    <3>1. member[r][u] = "NONE"
      BY <2>1 DEF RoomsOK, RoomsOf
    <3>2. /\ r = task[k].room
          /\ task[k].pc = "addTa" \/ task[k].pc = "upsertClass" \/ task[k].pc = "upsertTa"
      BY <3>1, MemberEffect
    <3>3. KindOK(task[k]) /\ CarriesOK(task[k])
      BY Advances, IdleOp DEF KindsOK, Shape, TasksOK
    <3>4. task[k].pc = "upsertClass" => task[k].c # "unused"
      BY <3>3, AcademicAssumption DEF KindOK
    <3>5. task[k].pc \in {"addTa", "upsertTa"} => task[k].t # "unused"
      BY <3>3, AcademicAssumption DEF KindOK, CarriesOK
    <3> QED BY <2>1, <3>2, <3>4, <3>5 DEF RoomsOK
  <2> QED BY <2>1
<1>3. room'[r].key = t /\ t \in TAs \ {u}
  BY <1>2, KeyEffect
<1>4. CASE member[r][u] = "NONE"
  <2>1. task[k].pc = "upsertTa" /\ r = task[k].room /\ u = task[k].u
    <3>1. KindOK(task[k])
      BY Advances, IdleOp DEF KindsOK
    <3>2. ~(task[k].pc = "upsertClass" /\ r = task[k].room)
      BY <1>3, <3>1, AcademicAssumption DEF KindOK, RoomsOK
    <3>3. ~(task[k].pc = "addTa" /\ r = task[k].room /\ u = task[k].t)
      BY <1>3 DEF RoomsOK
    <3> QED BY <1>4, <3>2, <3>3, MemberEffect
  <2>2. t = task[k].t
    BY <2>1 DEF RoomsOK
  <2>3. /\ Moves(task[k], u) /\ task[k].op = "enrol" /\ task[k].s \in Sections
    <3>1. KindOK(task[k]) /\ task[k] \in Task
      BY Advances, IdleOp DEF KindsOK
    <3>2. task[k].op = "enrol"
      BY <2>1, <3>1 DEF KindOK, StepsOf, Task, AllOps
    <3> QED BY <2>1, <3>1, <3>2 DEF Moves, KindOK
  <2>4. section[task[k].s] = task[k].t /\ task[k].s = e
    BY <2>1, <2>3 DEF Quiet
  <2>5. section'[e] = section[e]
    BY <2>3, <2>4, SectionEffect DEF Quiet
  <2> QED BY <1>1, <1>3, <2>2, <2>3, <2>4, <2>5, AcademicAssumption
<1>5. ASSUME e # None, section[e] = t
      PROVE  \/ enrolled'[u].s # None /\ section'[enrolled'[u].s] = room'[r].key
             \/ \E j \in Tasks : MoveWillExpel(task[j], u, r)'
  <2>1. CASE section'[e] = section[e]
    BY <1>1, <1>3, <1>5, <2>1
  <2>2. CASE section'[e] # section[e]
    <3>1. /\ Shifts(task[k], e) /\ task[k].pc = "write"
          /\ section'[e] # task[k].prev => task'[k].pc = "students" /\ task'[k] # Idle
      <4>1. u \in InSection(e)
        BY DEF InSection
      <4> QED BY <1>1, <1>5, <2>2, <4>1, SectionEffect
    <3>2. task[k].prev = t
      BY <1>5, <3>1 DEF Quiet
    <3>3. task'[k].pc = "students" /\ task'[k].s = task[k].s /\ task'[k].prev = task[k].prev
          /\ task'[k].op = task[k].op
      BY <1>5, <2>2, <3>1, <3>2, Advances DEF Continues
    <3>4. task[k].op = "updateSection"
      BY <3>1, Advances, IdleOp DEF Shifts, KindsOK, KindOK, StepsOf
    <3>5. MoveWillExpel(task[k], u, r)'
      BY <1>1, <1>3, <3>1, <3>2, <3>3, <3>4 DEF MoveWillExpel, Shifts
    <3> QED BY <3>5
  <2> QED BY <2>1, <2>2
<1>6. ASSUME NEW j \in Tasks, MoveWillExpel(task[j], u, r) PROVE MoveWillExpel(task[j], u, r)'
  <2>1. CASE j = k
    BY <1>3, <1>6, <2>1, MoveProceeds
  <2>2. CASE j # k
    <3>1. task'[j] = task[j]
      BY <2>2, Advances
    <3> QED BY <1>1, <1>3, <1>6, <3>1 DEF MoveWillExpel
  <2> QED BY <2>1, <2>2
<1>7. ASSUME NEW j \in Tasks, LeaveWillExpel(task[j], u, r) PROVE LeaveWillExpel(task[j], u, r)'
  <2>1. CASE j = k
    BY <1>3, <1>7, <2>1, LeaveProceeds
  <2>2. CASE j # k
    <3>1. task'[j] = task[j]
      BY <2>2, Advances
    <3>2. task[j].pc = "sectionTa" => section'[task[j].s] = section[task[j].s]
      <4>1. Moves(task[j], u)
        BY <1>7 DEF LeaveWillExpel, Moves
      <4>2. task[j].pc = "sectionTa" => task[j].s \in Sections
        BY <1>7, IdleOp DEF LeaveWillExpel, KindsOK, KindOK
      <4> QED BY <4>1, <4>2, SectionEffect DEF Quiet
    <3> QED BY <1>3, <1>7, <3>1, <3>2 DEF LeaveWillExpel
  <2> QED BY <2>1, <2>2
<1> QED BY <1>3, <1>4, <1>5, <1>6, <1>7 DEF Tracked

(* What the arrival of any operation leaves as it is. *)
LEMMA ArriveKeeps ==
    ASSUME Shape, NEW k \in Tasks, Arrive(k)
    PROVE  /\ strays \subseteq strays' /\ member' = member /\ task[k] = Idle
           /\ \A j \in Tasks \ {k} : task'[j] = task[j]
           /\ \A r \in Rooms : \/ room'[r].key = room[r].key
                               \/ room[r].key \in Classes /\ room'[r].key = "unlinked"
           /\ \A s \in Sections : section'[s] = section[s] \/ section[s] = "new"
           /\ task'[k].pc \in {"idle", "createRoom", "deactivate", "findTaRoom", "write", "delete",
                               "classRoom", "sectionTa", "findRooms"}
<1> DEFINE Begun == /\ task[k] = Idle /\ \A j \in Tasks \ {k} : task'[j] = task[j]
                    /\ task'[k].pc \in {"idle", "createRoom", "deactivate", "findTaRoom", "write",
                                        "delete", "classRoom", "sectionTa", "findRooms"}
<1>0. /\ room \in [Rooms -> Room] /\ section \in [Sections -> TAs \cup {"new", "gone"}]
      /\ task \in [Tasks -> Task \cup {Idle}]
  BY DEF Shape, TypeOK
<1>1. ASSUME NEW c \in Classes, CreateClass(k, c)
      PROVE  /\ Begun /\ UNCHANGED <<section, room, member, strays>>
  <2>1. Begins(k, "createClass", "createRoom", c, None, None, None, None, "NONE")
    BY <1>1, Starts
  <2> QED BY <1>1, <2>1 DEF CreateClass, Begins, rooms, history
<1>2. ASSUME NEW c \in Classes, DeleteClass(k, c)
      PROVE  /\ Begun /\ UNCHANGED <<section, member, strays>>
             /\ \A r \in Rooms : \/ room'[r].key = room[r].key
                                 \/ room[r].key \in Classes /\ room'[r].key = "unlinked"
  <2>1. Begins(k, "deleteClass", "deactivate", c, None, None, None, None, "NONE")
    BY <1>2, Starts
  <2>2. ASSUME NEW r \in Rooms
        PROVE  room'[r].key = room[r].key \/ (room[r].key \in Classes /\ room'[r].key = "unlinked")
    <3>1. room'[r] = IF room[r].key = c THEN [room[r] EXCEPT !.key = "unlinked"] ELSE room[r]
      BY <1>2 DEF DeleteClass
    <3>2. room[r] \in Room
      BY <1>0
    <3> QED BY <3>1, <3>2 DEF Room
  <2> QED BY <1>2, <2>1, <2>2 DEF DeleteClass, Begins, history
<1>3. ASSUME NEW c \in Classes, NEW p \in Professors,
             AssignProfessor(k, c, p) \/ RemoveProfessor(k, c, p)
      PROVE  Begun /\ UNCHANGED <<section, room, member, strays>>
  <2>1. \/ Begins(k, "assign", "classRoom", c, None, p, None, None, "PROFESSOR")
        \/ Begins(k, "dismiss", "classRoom", c, None, p, None, None, "NONE")
    BY <1>3, Starts
  <2> QED BY <1>3, <2>1 DEF AssignProfessor, RemoveProfessor, Begins, rooms
<1>4. ASSUME NEW s \in Sections, NEW t \in TAs, CreateSection(k, s, t)
      PROVE  /\ Begun /\ UNCHANGED <<room, member, strays>>
             /\ \A x \in Sections : section'[x] = section[x] \/ section[x] = "new"
  <2>1. Begins(k, "createSection", "findTaRoom", None, s, None, t, None, "NONE")
    BY <1>4, Starts
  <2> QED BY <1>0, <1>4, <2>1 DEF CreateSection, Begins, rooms, history
<1>e. ASSUME NEW us, NEW s, Entangle(us, s) PROVE strays \subseteq strays'
  BY <1>e DEF Entangle
<1>5. ASSUME NEW s \in Sections, NEW t, UpdateSection(k, s, t)
      PROVE  Begun /\ UNCHANGED <<section, room, member>> /\ strays \subseteq strays'
  <2>1. Begins(k, "updateSection", "write", None, s, None, t, section[s], "NONE")
    BY <1>5, Starts
  <2> QED BY <1>5, <1>e, <2>1 DEF UpdateSection, Begins, records, rooms
<1>6. ASSUME NEW s \in Sections, DeleteSection(k, s)
      PROVE  Begun /\ UNCHANGED <<section, room, member>> /\ strays \subseteq strays'
  <2>1. Begins(k, "deleteSection", "delete", None, s, None, section[s], None, "NONE")
    BY <1>6, Starts
  <2> QED BY <1>6, <1>e, <2>1 DEF DeleteSection, Begins, records, rooms
<1>7. ASSUME NEW v \in Students, RemoveEnrolment(k, v)
      PROVE  Begun /\ UNCHANGED <<section, room, member>> /\ strays \subseteq strays'
  <2>1. Begins(k, "unenrol", IF enrolled[v].s # None THEN "sectionTa" ELSE "findRooms",
               enrolled[v].c, enrolled[v].s, v, None, None, "NONE")
    BY <1>7, Starts
  <2> QED BY <1>7, <1>e, <2>1 DEF RemoveEnrolment, Begins, rooms
<1>8. ASSUME NEW v \in Students, NEW c \in Classes \cup {None}, NEW s \in Sections \cup {None},
             NEW role \in Roles, CreateEnrolment(k, v, c, s, role)
      PROVE  Begun /\ UNCHANGED <<section, room, member>> /\ strays \subseteq strays'
  <2>1. CASE task' = task
    <3>1. task[k] = Idle
      BY <1>8 DEF CreateEnrolment, Start
    <3> QED BY <1>8, <1>e, <2>1, <3>1, IdleOp DEF CreateEnrolment, rooms
  <2>2. CASE Begins(k, "enrol", IF c # None THEN "classRoom" ELSE "sectionTa",
                    c, s, v, None, None, role)
    BY <1>8, <1>e, <2>2 DEF CreateEnrolment, Begins, rooms
  <2> QED BY <1>8, <2>1, <2>2, Starts
<1> HIDE DEF Begun
<1>9. Begun /\ strays \subseteq strays' /\ member' = member
      /\ (\A r \in Rooms : \/ room'[r].key = room[r].key
                           \/ room[r].key \in Classes /\ room'[r].key = "unlinked")
      /\ (\A s \in Sections : section'[s] = section[s] \/ section[s] = "new")
  BY <1>1, <1>2, <1>3, <1>4, <1>5, <1>6, <1>7, <1>8 DEF Arrive
<1> QED BY <1>9 DEF Begun

(* What it means for a user: a change of a section, their enrolment, their *)
(* unenrolment, or none of these.                                          *)
LEMMA ArriveCases ==
    ASSUME Shape, NEW k \in Tasks, Arrive(k), NEW u \in Users
    PROVE  \/ \E s \in Sections :
                /\ Shifts(task'[k], s) /\ (task'[k].pc = "write" => task'[k].prev = section[s])
                /\ Entangle(InSection(s), s) /\ enrolled'[u].s = enrolled[u].s
                /\ section' = section
           \/ /\ enrolled[u].s = None /\ Entangle({u}, enrolled'[u].s) /\ section' = section
              /\ enrolled'[u].s # None => section[enrolled'[u].s] \in TAs
              /\ task'[k] # Idle =>
                   task'[k].op = "enrol" /\ task'[k].u = u /\ task'[k].s = enrolled'[u].s
           \/ /\ enrolled'[u].s = None /\ Entangle({u}, enrolled[u].s) /\ section' = section
              /\ task'[k].op = "unenrol" /\ task'[k].u = u /\ task'[k].s = enrolled[u].s
              /\ enrolled[u].s # None => task'[k].pc = "sectionTa"
           \/ /\ ~Moves(task'[k], u) /\ \A s : ~Shifts(task'[k], s)
              /\ enrolled'[u].s = enrolled[u].s
<1>0. enrolled \in [Users -> Enrolment \cup {NotEnrolled}]
  BY DEF Shape, TypeOK
<1>1. ASSUME NEW c \in Classes, CreateClass(k, c)
      PROVE  task'[k].op = "createClass" /\ enrolled' = enrolled
  BY <1>1, Starts DEF CreateClass, Begins
<1>2. ASSUME NEW c \in Classes, DeleteClass(k, c)
      PROVE  task'[k].op = "deleteClass" /\ enrolled'[u].s = enrolled[u].s
  <2>1. enrolled'[u] = IF enrolled[u].c = c THEN [enrolled[u] EXCEPT !.c = None] ELSE enrolled[u]
    BY <1>2 DEF DeleteClass
  <2>2. enrolled[u] \in Enrolment \/ enrolled[u] = NotEnrolled
    BY <1>0
  <2>3. enrolled'[u].s = enrolled[u].s
    BY <2>1, <2>2 DEF Enrolment, NotEnrolled
  <2>4. task'[k].op = "deleteClass"
    BY <1>2, Starts DEF Begins
  <2> QED BY <2>3, <2>4
<1>3. ASSUME NEW c \in Classes, NEW p \in Professors,
             AssignProfessor(k, c, p) \/ RemoveProfessor(k, c, p)
      PROVE  task'[k].op \in {"assign", "dismiss"} /\ enrolled' = enrolled
  <2>1. \/ Begins(k, "assign", "classRoom", c, None, p, None, None, "PROFESSOR")
        \/ Begins(k, "dismiss", "classRoom", c, None, p, None, None, "NONE")
    BY <1>3, Starts
  <2> QED BY <1>3, <2>1 DEF AssignProfessor, RemoveProfessor, Begins
<1>4. ASSUME NEW s \in Sections, NEW t \in TAs, CreateSection(k, s, t)
      PROVE  task'[k].op = "createSection" /\ enrolled' = enrolled
  BY <1>4, Starts DEF CreateSection, Begins
<1>5. ASSUME NEW s \in Sections, NEW t, UpdateSection(k, s, t)
      PROVE  /\ Shifts(task'[k], s) /\ task'[k].prev = section[s] /\ enrolled' = enrolled
             /\ Entangle(InSection(s), s) /\ section' = section
  <2>1. Begins(k, "updateSection", "write", None, s, None, t, section[s], "NONE")
    BY <1>5, Starts
  <2> QED BY <1>5, <2>1 DEF UpdateSection, Begins, records, Shifts
<1>6. ASSUME NEW s \in Sections, DeleteSection(k, s)
      PROVE  /\ Shifts(task'[k], s) /\ task'[k].pc # "write" /\ enrolled' = enrolled
             /\ Entangle(InSection(s), s) /\ section' = section
  <2>1. Begins(k, "deleteSection", "delete", None, s, None, section[s], None, "NONE")
    BY <1>6, Starts
  <2> QED BY <1>6, <2>1 DEF DeleteSection, Begins, records, Shifts
<1>7. ASSUME NEW v \in Students, RemoveEnrolment(k, v)
      PROVE  /\ task'[k].op = "unenrol" /\ task'[k].u = v /\ task'[k].s = enrolled[v].s
             /\ enrolled[v].s # None => task'[k].pc = "sectionTa"
             /\ Entangle({v}, enrolled[v].s) /\ section' = section
             /\ u = v => enrolled'[u].s = None
             /\ u # v => enrolled'[u] = enrolled[u]
  <2>1. Begins(k, "unenrol", IF enrolled[v].s # None THEN "sectionTa" ELSE "findRooms",
               enrolled[v].c, enrolled[v].s, v, None, None, "NONE")
    BY <1>7, Starts
  <2>2. enrolled' = [enrolled EXCEPT ![v] = NotEnrolled]
    BY <1>7 DEF RemoveEnrolment
  <2>3. (u = v => enrolled'[u].s = None) /\ (u # v => enrolled'[u] = enrolled[u])
    BY <1>0, <2>2 DEF NotEnrolled
  <2> QED BY <1>7, <2>1, <2>3 DEF RemoveEnrolment, Begins
<1>8. ASSUME NEW v \in Students, NEW c \in Classes \cup {None}, NEW s \in Sections \cup {None},
             NEW role \in Roles, CreateEnrolment(k, v, c, s, role)
      PROVE  /\ task'[k] # Idle => task'[k].op = "enrol" /\ task'[k].u = v /\ task'[k].s = s
             /\ enrolled[v].s = None /\ Entangle({v}, s) /\ section' = section
             /\ s # None => section[s] \in TAs
             /\ u = v => enrolled'[u].s = s
             /\ u # v => enrolled'[u] = enrolled[u]
  <2>1. task'[k] # Idle => task'[k].op = "enrol" /\ task'[k].u = v /\ task'[k].s = s
    <3>1. CASE task' = task
      BY <1>8, <3>1 DEF CreateEnrolment, Start
    <3>2. CASE Begins(k, "enrol", IF c # None THEN "classRoom" ELSE "sectionTa",
                      c, s, v, None, None, role)
      BY <3>2 DEF Begins
    <3> QED BY <1>8, <3>1, <3>2, Starts
  <2>2. /\ enrolled' = [enrolled EXCEPT ![v] = [c |-> c, s |-> s, role |-> role]]
        /\ enrolled[v] = NotEnrolled
    BY <1>8 DEF CreateEnrolment
  <2>3. /\ u = v => enrolled'[u].s = s
        /\ u # v => enrolled'[u] = enrolled[u]
        /\ enrolled[v].s = None
    BY <1>0, <2>2 DEF NotEnrolled
  <2> QED BY <1>8, <2>1, <2>3 DEF CreateEnrolment
<1>9. CASE \E c \in Classes : \/ CreateClass(k, c) \/ DeleteClass(k, c)
                              \/ \E p \in Professors : \/ AssignProfessor(k, c, p)
                                                       \/ RemoveProfessor(k, c, p)
  <2>1. task'[k].op \in {"createClass", "deleteClass", "assign", "dismiss"}
        /\ enrolled'[u].s = enrolled[u].s
    BY <1>1, <1>2, <1>3, <1>9
  <2> QED BY <2>1 DEF Moves, Shifts
<1>10. CASE \E s \in Sections, t \in TAs : CreateSection(k, s, t)
  BY <1>4, <1>10 DEF Moves, Shifts
<1>11. CASE \E s \in Sections : DeleteSection(k, s) \/ \E t : UpdateSection(k, s, t)
  BY <1>5, <1>6, <1>11
<1>12. CASE \E v \in Students : RemoveEnrolment(k, v)
  <2>1. PICK v \in Students : RemoveEnrolment(k, v)
    BY <1>12
  <2>2. CASE u = v
    BY <1>7, <2>1, <2>2
  <2>3. CASE u # v
    BY <1>7, <2>1, <2>3 DEF Moves, Shifts
  <2> QED BY <2>2, <2>3
<1>13. CASE \E v \in Students, c \in Classes \cup {None}, s \in Sections \cup {None},
               role \in Roles :
              CreateEnrolment(k, v, c, s, role)
  <2>1. PICK v \in Students, c \in Classes \cup {None}, s \in Sections \cup {None}, role \in Roles :
               CreateEnrolment(k, v, c, s, role)
    BY <1>13
  <2>2. CASE u = v
    BY <1>8, <2>1, <2>2
  <2>3. CASE u # v
    <3>1. /\ task'[k] # Idle => task'[k].op = "enrol" /\ task'[k].u = v
          /\ enrolled'[u] = enrolled[u]
      BY <1>8, <2>1, <2>3
    <3>2. task'[k].op \in {"enrol", "none"} /\ (task'[k].op = "enrol" => task'[k].u = v)
      BY <3>1, IdleOp
    <3> QED BY <2>3, <3>1, <3>2 DEF Moves, Shifts
  <2> QED BY <2>2, <2>3
<1> QED BY <1>9, <1>10, <1>11, <1>12, <1>13 DEF Arrive

LEMMA ArriveRooms ==
    ASSUME Shape, KindsOK, RoomsOK, NEW k \in Tasks, Arrive(k)
    PROVE  RoomsOK'
<1>1. ASSUME NEW u \in Users, enrolled'[u].s # None PROVE section'[enrolled'[u].s] \in TAs
  <2>1. \/ enrolled'[u].s = enrolled[u].s
        \/ section' = section /\ section[enrolled'[u].s] \in TAs
    BY <1>1, ArriveCases
  <2>2. enrolled[u].s \in Sections \cup {None} /\ "new" \notin TAs
    BY AcademicAssumption DEF Shape, TypeOK, Enrolment, NotEnrolled
  <2>3. ASSUME enrolled[u].s # None PROVE section'[enrolled[u].s] \in TAs
    <3>1. section[enrolled[u].s] \in TAs /\ enrolled[u].s \in Sections
      BY <2>2, <2>3 DEF RoomsOK
    <3> QED BY <2>2, <3>1, ArriveKeeps
  <2> QED BY <1>1, <2>1, <2>3
<1>2. ASSUME NEW r \in Rooms, room'[r].key = "unused", NEW u \in Users PROVE member'[r][u] = "NONE"
  <2>1. room[r].key = "unused" /\ member' = member
    BY <1>2, ArriveKeeps
  <2> QED BY <2>1 DEF RoomsOK, RoomsOf
<1>3. ASSUME NEW j \in Tasks, task'[j].pc \in {"upsertClass", "expelProfessor", "addTa", "upsertTa"}
      PROVE  /\ task'[j].pc \in {"upsertClass", "expelProfessor"} =>
                  room'[task'[j].room].key \in {task'[j].c, "unlinked"}
             /\ task'[j].pc \in {"addTa", "upsertTa"} => room'[task'[j].room].key = task'[j].t
  <2>1. task'[j] = task[j]
    BY <1>3, ArriveKeeps
  <2>2. KindOK(task[j]) /\ CarriesOK(task[j])
    BY <1>3, <2>1, IdleOp DEF KindsOK, Shape, TasksOK
  <2>3. /\ task[j].room \in Rooms
        /\ task[j].pc \in {"addTa", "upsertTa"} => task[j].t \in TAs
    BY <1>3, <2>1, <2>2 DEF KindOK, CarriesOK
  <2>4. \/ room'[task[j].room].key = room[task[j].room].key
        \/ room[task[j].room].key \in Classes /\ room'[task[j].room].key = "unlinked"
    BY <2>3, ArriveKeeps
  <2> QED BY <1>3, <2>1, <2>3, <2>4, AcademicAssumption DEF RoomsOK
<1> QED BY <1>1, <1>2, <1>3 DEF RoomsOK, RoomsOf

(* Nothing was going on about a user and a section an event of theirs met  *)
(* alone.                                                                  *)
LEMMA Untangled ==
    ASSUME NEW us, NEW s, Entangle(us, s), NEW u \in Users, u \notin strays'
    PROVE  /\ u \in us => \A j \in Tasks : /\ task[j].u # u
                                           /\ s # None => ~Shifts(task[j], s)
           /\ \A j \in Tasks : task[j].s = s /\ s # None /\ Moves(task[j], u) => FALSE
<1> DEFINE met == {j \in Tasks : \/ task[j].u \in us
                                 \/ task[j].s = s /\ s # None /\ task[j].op # "createSection"}
<1>1. met # {} => us \subseteq strays' /\ \A j \in met : task[j].u # None => task[j].u \in strays'
  BY DEF Entangle
<1>2. ASSUME u \in us, NEW j \in Tasks PROVE task[j].u # u /\ (s # None => ~Shifts(task[j], s))
  <2>1. j \notin met
    BY <1>1, <1>2
  <2> QED BY <1>2, <2>1 DEF Shifts
<1>3. ASSUME NEW j \in Tasks, task[j].s = s, s # None, Moves(task[j], u) PROVE FALSE
  <2>1. j \in met /\ task[j].u = u
    BY <1>3 DEF Moves
  <2>2. u # None
    BY AcademicAssumption
  <2> HIDE DEF met
  <2> QED BY <1>1, <2>1, <2>2
<1> QED BY <1>2, <1>3

LEMMA ArriveQuiet ==
    ASSUME Shape, KindsOK, KindsOK', RoomsOK, NEW k \in Tasks, Arrive(k),
           NEW u \in Users, u \notin strays', Quiet(u)
    PROVE  Quiet(u)'
<1> DEFINE e == enrolled[u].s
           f == enrolled'[u].s
<1>1. /\ task[k] = Idle /\ \A j \in Tasks \ {k} : task'[j] = task[j]
      /\ task'[k].pc \notin {"joinTaRoom", "upsertTa"}
  BY ArriveKeeps
<1>2. ASSUME NEW j \in Tasks, NEW s
      PROVE  /\ Shifts(task[j], s) => s \in Sections /\ s # None
             /\ Shifts(task'[j], s) => s \in Sections /\ s # None
  BY IdleOp, AcademicAssumption DEF Shifts, KindsOK, KindOK
<1>3. ASSUME NEW s \in Sections, section[s] \in TAs PROVE section'[s] = section[s]
  BY <1>3, ArriveKeeps, AcademicAssumption
<1>4. ASSUME NEW j \in Tasks, Moves(task[j], u), task[j].pc \in {"joinTaRoom", "upsertTa"}
      PROVE  section'[task[j].s] = task[j].t
  <2>1. section[task[j].s] = task[j].t
    BY <1>4 DEF Quiet
  <2>2. task[j].t \in TAs /\ task[j].s \in Sections
    BY <1>4, IdleOp DEF KindsOK, KindOK
  <2> QED BY <1>3, <2>1, <2>2
<1>5. ASSUME NEW j \in Tasks, Shifts(task[j], e), task[j].pc = "write"
      PROVE  task[j].prev = section'[e]
  <2>1. task[j].prev = section[e] /\ e \in Sections /\ e # None
    BY <1>2, <1>5 DEF Quiet
  <2> QED BY <1>3, <2>1 DEF RoomsOK
<1>6. CASE /\ e = None /\ Entangle({u}, f)
           /\ task'[k] # Idle => task'[k].op = "enrol" /\ task'[k].u = u /\ task'[k].s = f
  <2>1. \A j \in Tasks : task[j].u # u /\ (f # None => ~Shifts(task[j], f))
    BY <1>6, Untangled
  <2>2. ~Shifts(task'[k], f)
    BY <1>6, IdleOp DEF Shifts
  <2>3. \A j \in Tasks : ~Shifts(task'[j], f)
    BY <1>1, <1>2, <2>1, <2>2
  <2>4. \A j \in Tasks : Moves(task'[j], u) => j = k /\ task'[k] # Idle
    BY <1>1, <2>1, IdleOp DEF Moves
  <2> HIDE DEF f
  <2>5. \A j \in Tasks : Moves(task'[j], u) => j = k /\ task'[j].s = f
    BY <1>6, <2>4
  <2> QED BY <1>1, <2>3, <2>5 DEF Quiet, f, Moves, Shifts
<1>7. CASE /\ f = None /\ Entangle({u}, e)
           /\ task'[k].op = "unenrol" /\ task'[k].u = u /\ task'[k].s = e
  <2>1. \A j \in Tasks : task[j].u # u /\ (e # None => ~Shifts(task[j], e))
    BY <1>7, Untangled
  <2>2. ~Shifts(task'[k], e)
    BY <1>7 DEF Shifts
  <2>3. \A j \in Tasks : ~Shifts(task'[j], e) /\ ~Shifts(task'[j], f)
    BY <1>1, <1>2, <1>7, <2>1, <2>2
  <2>5. \A j \in Tasks : Moves(task'[j], u) => j = k /\ task'[j].s = e /\ task'[j].op = "unenrol"
    BY <1>1, <1>7, <2>1 DEF Moves
  <2> HIDE DEF f, e
  <2> QED BY <1>1, <2>3, <2>5 DEF Quiet, f, Moves, Shifts
<1>8. ASSUME f = e, ~Moves(task'[k], u),
             \A j \in Tasks : Moves(task[j], u) => ~Shifts(task'[k], task[j].s),
             \A j \in Tasks : Shifts(task'[k], e) => ~Shifts(task[j], e),
             Shifts(task'[k], e) /\ task'[k].pc = "write" => task'[k].prev = section'[e]
      PROVE  Quiet(u)'
  <2>1. \A j \in Tasks : Moves(task'[j], u) => j # k /\ Moves(task[j], u) /\ task'[j] = task[j]
    BY <1>1, <1>8
  <2>2. \A j, l \in Tasks : Moves(task'[j], u) /\ Moves(task'[l], u) => j = l
    BY <2>1 DEF Quiet
  <2>3. \A j, l \in Tasks : Moves(task'[j], u) => ~Shifts(task'[l], task'[j].s)
    BY <1>1, <1>8, <2>1 DEF Quiet
  <2>4. \A j, l \in Tasks : Shifts(task'[j], e) /\ Shifts(task'[l], e) => j = l
    BY <1>1, <1>8 DEF Quiet
  <2>5. \A j \in Tasks : Moves(task'[j], u) /\ task'[j].op = "enrol" => task'[j].s = e
    BY <2>1 DEF Quiet
  <2>6. \A j \in Tasks : Shifts(task'[j], e) /\ task'[j].pc = "write" => task'[j].prev = section'[e]
    BY <1>1, <1>5, <1>8
  <2>7. \A j \in Tasks : Moves(task'[j], u) /\ task'[j].pc \in {"joinTaRoom", "upsertTa"} =>
          section'[task'[j].s] = task'[j].t
    BY <1>4, <2>1
  <2> HIDE DEF e, f
  <2> QED BY <1>8, <2>2, <2>3, <2>4, <2>5, <2>6, <2>7 DEF Quiet, f, Moves, Shifts
<1>9. ASSUME NEW s \in Sections, Shifts(task'[k], s),
             task'[k].pc = "write" => task'[k].prev = section[s],
             Entangle(InSection(s), s), f = e, section' = section
      PROVE  Quiet(u)'
  <2>1. ~Moves(task'[k], u) /\ s # None /\ \A x : Shifts(task'[k], x) => x = s
    BY <1>9, AcademicAssumption DEF Moves, Shifts
  <2>2. \A j \in Tasks : Moves(task[j], u) => ~Shifts(task'[k], task[j].s)
    BY <1>9, <2>1, Untangled
  <2>3. \A j \in Tasks : Shifts(task'[k], e) => ~Shifts(task[j], e)
    <3>1. CASE e = s
      <4>1. u \in InSection(s)
        BY <3>1 DEF InSection
      <4> QED BY <1>9, <2>1, <3>1, <4>1, Untangled
    <3> QED BY <2>1, <3>1
  <2> QED BY <1>8, <1>9, <2>1, <2>2, <2>3
<1>10. CASE ~Moves(task'[k], u) /\ (\A s : ~Shifts(task'[k], s)) /\ f = e
  BY <1>8, <1>10
<1>11. \/ \E s \in Sections :
                /\ Shifts(task'[k], s) /\ (task'[k].pc = "write" => task'[k].prev = section[s])
                /\ Entangle(InSection(s), s) /\ f = e /\ section' = section
       \/ /\ e = None /\ Entangle({u}, f)
          /\ task'[k] # Idle => task'[k].op = "enrol" /\ task'[k].u = u /\ task'[k].s = f
       \/ /\ f = None /\ Entangle({u}, e)
          /\ task'[k].op = "unenrol" /\ task'[k].u = u /\ task'[k].s = e
       \/ ~Moves(task'[k], u) /\ (\A s : ~Shifts(task'[k], s)) /\ f = e
  BY ArriveCases
<1> HIDE DEF e, f
<1> QED BY <1>6, <1>7, <1>9, <1>10, <1>11

LEMMA ArriveTracked ==
    ASSUME Shape, KindsOK, RoomsOK, NEW k \in Tasks, Arrive(k),
           NEW u \in Users, u \notin strays', Tracked(u)
    PROVE  Tracked(u)'
<1> DEFINE e == enrolled[u].s
           f == enrolled'[u].s
<1> SUFFICES ASSUME NEW r \in Rooms, member'[r][u] # "NONE", room'[r].key \in TAs \ {u}
             PROVE  \/ f # None /\ section'[f] = room'[r].key
                    \/ \E j \in Tasks : \/ MoveWillExpel(task[j], u, r)'
                                        \/ LeaveWillExpel(task[j], u, r)'
  BY DEF Tracked
<1> DEFINE t == room[r].key
<1>1. /\ task[k] = Idle /\ \A j \in Tasks \ {k} : task'[j] = task[j]
      /\ room'[r].key = t /\ t \in TAs \ {u} /\ member[r][u] # "NONE"
  <2>1. "unlinked" \notin TAs
    BY AcademicAssumption
  <2> QED BY <2>1, ArriveKeeps
<1>2. e \in Sections \cup {None}
  BY DEF Shape, TypeOK, Enrolment, NotEnrolled
<1>3. ASSUME NEW s \in Sections, section[s] \in TAs PROVE section'[s] = section[s]
  BY <1>3, ArriveKeeps, AcademicAssumption
<1>4. \/ e # None /\ section[e] = t
      \/ \E j \in Tasks : MoveWillExpel(task[j], u, r)
      \/ \E j \in Tasks : LeaveWillExpel(task[j], u, r)
  BY <1>1 DEF Tracked
<1>5. ASSUME NEW j \in Tasks, MoveWillExpel(task[j], u, r)
      PROVE  Shifts(task[j], e) /\ e # None /\ j # k
  BY <1>1, <1>5, IdleOp, AcademicAssumption DEF MoveWillExpel, Shifts, KindsOK, KindOK
<1>6. ASSUME NEW j \in Tasks, LeaveWillExpel(task[j], u, r)
      PROVE  task[j].u = u /\ j # k
  BY <1>1, <1>6, IdleOp DEF LeaveWillExpel
<1>7. CASE e = None /\ Entangle({u}, f)
  <2>1. \A j \in Tasks : task[j].u # u
    BY <1>7, Untangled
  <2> HIDE DEF e
  <2> QED BY <1>4, <1>5, <1>6, <1>7, <2>1
<1>8. CASE /\ Entangle({u}, e) /\ section' = section
           /\ task'[k].op = "unenrol" /\ task'[k].u = u /\ task'[k].s = e
           /\ e # None => task'[k].pc = "sectionTa"
  <2>1. \A j \in Tasks : task[j].u # u /\ (e # None => ~Shifts(task[j], e))
    BY <1>8, Untangled
  <2>2. e # None /\ section[e] = t
    BY <1>4, <1>5, <1>6, <2>1
  <2>3. LeaveWillExpel(task[k], u, r)'
    BY <1>1, <1>8, <2>2 DEF LeaveWillExpel
  <2> QED BY <2>3
<1>9. CASE f = e
  <2>1. CASE e # None /\ section[e] = t
    BY <1>1, <1>2, <1>3, <1>9, <2>1
  <2>2. ASSUME NEW j \in Tasks, MoveWillExpel(task[j], u, r)
        PROVE  MoveWillExpel(task[j], u, r)'
    <3>1. task'[j] = task[j]
      BY <1>1, <1>5, <2>2
    <3> QED BY <1>1, <1>9, <2>2, <3>1 DEF MoveWillExpel
  <2>3. ASSUME NEW j \in Tasks, LeaveWillExpel(task[j], u, r)
        PROVE  LeaveWillExpel(task[j], u, r)'
    <3>1. task'[j] = task[j]
      BY <1>1, <1>6, <2>3
    <3>2. task[j].pc = "sectionTa" => task[j].s \in Sections
      BY <2>3, IdleOp DEF LeaveWillExpel, KindsOK, KindOK
    <3> QED BY <1>1, <1>3, <2>3, <3>1, <3>2 DEF LeaveWillExpel
  <2> QED BY <1>4, <2>1, <2>2, <2>3
<1>10. \/ f = e \/ (e = None /\ Entangle({u}, f))
       \/ /\ Entangle({u}, e) /\ section' = section
          /\ task'[k].op = "unenrol" /\ task'[k].u = u /\ task'[k].s = e
          /\ e # None => task'[k].pc = "sectionTa"
  BY ArriveCases
<1> HIDE DEF e, f
<1> QED BY <1>7, <1>8, <1>9, <1>10

----------------------------------------------------------------------------

Tracking == Shape /\ KindsOK /\ MembersInv

LEMMA InitTracking == Init => Tracking
<1> SUFFICES ASSUME Init PROVE Tracking
  OBVIOUS
<1>1. /\ \A k \in Tasks : task[k] = Idle
      /\ \A u \in Users : enrolled[u].s = None
      /\ \A r \in Rooms, u \in Users : member[r][u] = "NONE"
  BY DEF Init, NotEnrolled
<1>2. KindsOK /\ RoomsOK
  BY <1>1, IdleOp DEF KindsOK, RoomsOK, RoomsOf
<1>3. ASSUME NEW u \in Users PROVE Quiet(u) /\ Tracked(u)
  <2>1. \A j \in Tasks : \A s : ~Moves(task[j], u) /\ ~Shifts(task[j], s)
    BY <1>1, IdleOp DEF Moves, Shifts
  <2> QED BY <1>1, <2>1 DEF Quiet, Tracked
<1> QED BY <1>2, <1>3, InitShape DEF Tracking, MembersInv

LEMMA NextTracking == Tracking /\ [Next]_vars => Tracking'
<1> SUFFICES ASSUME Tracking, [Next]_vars PROVE Tracking'
  OBVIOUS
<1> USE DEF Tracking, MembersInv
<1>1. ASSUME NEW k \in Tasks, Step(k) \/ Fail(k) PROVE Tracking'
  <2>1. Shape' /\ KindsOK' /\ RoomsOK' /\ strays \subseteq strays'
    BY <1>1, StepShape, FailShape, StepKinds, StepRooms, StrayEffect
  <2>2. ASSUME NEW u \in Users, u \notin strays' PROVE Quiet(u)' /\ Tracked(u)'
    BY <1>1, <2>1, <2>2, StepQuiet, StepTracked
  <2> QED BY <2>1, <2>2
<1>2. ASSUME NEW k \in Tasks, Arrive(k) PROVE Tracking'
  <2>1. Shape' /\ KindsOK' /\ RoomsOK' /\ strays \subseteq strays'
    BY <1>2, ArriveShape, ArriveKinds, ArriveRooms, ArriveKeeps
  <2>2. ASSUME NEW u \in Users, u \notin strays' PROVE Quiet(u)' /\ Tracked(u)'
    BY <1>2, <2>1, <2>2, ArriveQuiet, ArriveTracked
  <2> QED BY <2>1, <2>2
<1>3. CASE UNCHANGED vars
  <2>1. UNCHANGED <<class, section, professor, enrolled, room, member, task, followed, overridden, strays>>
    BY <1>3 DEF vars, records, rooms, history
  <2>2. Shape'
    BY <1>3, NextShape
  <2>3. KindsOK' /\ RoomsOK'
    BY <2>1 DEF KindsOK, RoomsOK, RoomsOf
  <2>4. ASSUME NEW u \in Users, u \notin strays' PROVE Quiet(u)' /\ Tracked(u)'
    <3>1. Quiet(u) /\ Tracked(u)
      BY <2>1, <2>4
    <3>2. Quiet(u)'
      BY <2>1, <3>1 DEF Quiet, Moves, Shifts
    <3>3. Tracked(u)'
      BY <2>1, <3>1 DEF Tracked, MoveWillExpel, LeaveWillExpel
    <3> QED BY <3>2, <3>3
  <2> QED BY <2>2, <2>3, <2>4
<1> QED BY <1>1, <1>2, <1>3 DEF Next

LEMMA TrackedAreEnrolled == Tracking => TaRoomMembersAreEnrolled
<1> SUFFICES ASSUME Tracking, NEW t \in TAs, NEW r \in RoomsOf(t),
                    NEW u \in Users \ (strays \cup {t}), member[r][u] # "NONE",
                    \A k \in Tasks : /\ task[k].u # u
                                     /\ task[k].op = "updateSection" => enrolled[u].s # task[k].s
             PROVE  enrolled[u].s # None /\ section[enrolled[u].s] = t
  BY DEF TaRoomMembersAreEnrolled
<1>1. r \in Rooms /\ room[r].key = t /\ t \in TAs \ {u} /\ Tracked(u)
  BY DEF RoomsOf, Tracking, MembersInv
<1>2. \A j \in Tasks : ~MoveWillExpel(task[j], u, r) /\ ~LeaveWillExpel(task[j], u, r)
  BY DEF MoveWillExpel, LeaveWillExpel
<1> QED BY <1>1, <1>2 DEF Tracked

(* Whoever else is in a TA's room is enrolled in one of the TA's sections, *)
(* for the users outside strays: those of whom no enrolment, unenrolment   *)
(* or change of TA met another handler about them or their section, none   *)
(* failed, no section of theirs was deleted, and none changed its TA while *)
(* they had another role than STUDENT or the TA two rooms.  By Tracking a  *)
(* row is the enrolment's, or one that an unenrolment or a change of TA in *)
(* flight is yet to delete.                                                *)
THEOREM TaRoomsAreForEnrolled == Spec => []TaRoomMembersAreEnrolled
  BY TrackedAreEnrolled, InitTracking, NextTracking, PTL DEF Spec
----------------------------------------------------------------------------
(* Members of the class rooms *)

(* A class has one room, from the write of its handler to its deletion.    *)
ClassRoomsOK ==
    \A c \in Classes :
      /\ \A r, x \in RoomsOf(c) : r = x
      /\ class[c] # "live" => RoomsOf(c) = {}
      /\ \A j \in Tasks : task[j].pc = "createRoom" /\ task[j].c = c =>
           /\ class[c] # "new" /\ RoomsOf(c) = {}
           /\ \A k \in Tasks : task[k].pc = "createRoom" /\ task[k].c = c => j = k

(* The rooms a task is to expel from keep the keys it looked for.          *)
FoundOK ==
    \A k \in Tasks :
      /\ task[k].pc = "expelOld" => room[task[k].room].key = task[k].prev
      /\ task[k].pc = "expel" =>
           \A r \in task[k].from : room[r].key \in {task[k].c, task[k].t, "unlinked"}

About(q, u, c) == q.u = u /\ q.c = c

(* The row that the handler of an event about u and c gives u, and whether *)
(* it has yet to come to room r of the class.                              *)
Gives(q) == IF q.op \in {"assign", "enrol"} THEN RoomRole(q.role) ELSE "NONE"

Pending(q, r) ==
    \/ q.pc = "classRoom"
    \/ q.pc \in {"upsertClass", "expelProfessor"} /\ q.room = r
    \/ q.op = "unenrol" /\ q.pc \in {"sectionTa", "findRooms"}
    \/ q.pc = "expel" /\ r \in q.from

Following(u, c) ==
    /\ class[c] # "new"
    /\ \A k \in Tasks : task[k].c = c => task[k].pc # "createRoom"
    /\ \A r \in RoomsOf(c) :
         /\ \A k \in Tasks : About(task[k], u, c) => Gives(task[k]) = Given(u, c)
         /\ \/ member[r][u] = Given(u, c)
            \/ \E k \in Tasks : About(task[k], u, c) /\ Pending(task[k], r)

FollowInv ==
    /\ ClassRoomsOK /\ FoundOK
    /\ \A u \in Users, c \in Classes : <<u, c>> \in followed => Following(u, c)
LEMMA LandsToExpel ==
    ASSUME Shape, KindsOK, NEW k \in Tasks, Step(k) \/ Fail(k), task'[k] # Idle
    PROVE  /\ task'[k].pc # "createRoom"
           /\ task'[k].pc = "expelOld" => task'[k].room \in RoomsOf(task[k].prev) /\ room' = room
           /\ task'[k].pc = "expel" =>
                /\ task'[k].t = task[k].t /\ room' = room
                /\ \/ task'[k].from = RoomsOf(task[k].c) \cup RoomsOf(task[k].t)
                   \/ task[k].pc = "expel" /\ task'[k].from \subseteq task[k].from
<1> DEFINE q == task[k]
           n == task'[k]
<1>1. q \in Task /\ task \in [Tasks -> Task \cup {Idle}] /\ ~End(k)
  <2>1. task \in [Tasks -> Task \cup {Idle}]
    BY DEF Shape, TypeOK
  <2> QED BY <2>1, Advances DEF End
<1>g. ASSUME NEW pc \in Steps, Goto(k, pc) PROVE n.pc = pc
  BY <1>1, <1>g DEF Goto, Task
<1>2. ASSUME AfterClassRoom(k) \/ AfterTaRoom(k) PROVE n.pc \in {"sectionTa", "move"}
  BY <1>1, <1>2, <1>g DEF AfterClassRoom, AfterTaRoom, Steps
<1>3. CASE n.pc \notin {"createRoom", "expelOld", "expel"}
  BY <1>3
<1>4. CASE Fail(k) \/ AddTa(k) \/ UpsertClassMember(k)
  BY <1>1, <1>2, <1>4 DEF Fail, AddTa, UpsertClassMember
<1>5. CASE FindTaRoom(k) \/ ExpelFromOldRoom(k) \/ DeleteSectionWrite(k) \/ FindSiblings(k)
  <2>1. n.pc \in {"createTaRoom", "findTaRoom", "siblings", "deactivateTa", "sectionTa", "move"}
    BY <1>1, <1>2, <1>5, <1>g DEF FindTaRoom, ExpelFromOldRoom, DeleteSectionWrite,
       FindSiblings, Steps
  <2> QED BY <2>1
<1>6. CASE \/ CreateClassRoom(k) \/ DeactivateClassRoom(k) \/ MoveStudents(k)
           \/ DeactivateTaRoom(k) \/ ExpelProfessor(k) \/ UpsertTaRoomMember(k)
  BY <1>1, <1>6 DEF CreateClassRoom, DeactivateClassRoom, MoveStudents, DeactivateTaRoom,
     ExpelProfessor, UpsertTaRoomMember
<1>7. CASE CreateTaRoom(k) \/ UpdateSectionWrite(k) \/ ReadStudents(k)
  <2>1. n.pc \in {"addTa", "students", "oldRoom"}
    BY <1>1, <1>7 DEF CreateTaRoom, UpdateSectionWrite, ReadStudents, Task
  <2> QED BY <2>1
<1>8. CASE FindEnrolmentRooms(k)
  <2> DEFINE from == RoomsOf(q.c) \cup RoomsOf(q.t)
  <2>1. task' = [task EXCEPT ![k].pc = "expel", ![k].from = from] /\ room' = room
    BY <1>8 DEF FindEnrolmentRooms, rooms
  <2> HIDE DEF from
  <2>2. n.pc = "expel" /\ n.from = from /\ n.t = q.t
    BY <1>1, <2>1 DEF Task
  <2> QED BY <2>1, <2>2 DEF from
<1>9. CASE FindOldRoom(k)
  <2>1. ASSUME NEW r \in RoomsOf(q.prev),
               task' = [task EXCEPT ![k].pc = "expelOld", ![k].room = r]
        PROVE  n.pc = "expelOld" /\ n.room \in RoomsOf(q.prev)
    BY <1>1, <2>1 DEF Task
  <2>2. n.pc = "findTaRoom" \/ (n.pc = "expelOld" /\ n.room \in RoomsOf(q.prev))
    BY <1>9, <1>g, <2>1 DEF FindOldRoom, Steps
  <2>3. room' = room
    BY <1>9 DEF FindOldRoom, rooms
  <2> QED BY <2>2, <2>3
<1>10. CASE ExpelFromRooms(k)
  <2>1. ASSUME NEW r, task' = [task EXCEPT ![k].from = @ \ {r}]
        PROVE  n.pc = q.pc /\ n.t = q.t /\ n.from \subseteq q.from
    BY <1>1, <2>1 DEF Task
  <2>2. q.pc = "expel" /\ room' = room
    BY <1>10 DEF ExpelFromRooms
  <2>3. n.pc = q.pc /\ n.t = q.t /\ n.from \subseteq q.from
    BY <1>1, <1>10, <2>1 DEF ExpelFromRooms
  <2> QED BY <2>2, <2>3
<1>11. CASE FindClassRoom(k)
  <2>1. ASSUME NEW r \in RoomsOf(q.c),
               task' = [task EXCEPT ![k].pc = IF q.op = "dismiss" THEN "expelProfessor"
                                              ELSE "upsertClass", ![k].room = r]
        PROVE  n.pc \in {"expelProfessor", "upsertClass"}
    BY <1>1, <2>1 DEF Task
  <2>2. n.pc \in {"expelProfessor", "upsertClass", "sectionTa", "move"}
    BY <1>2, <1>11, <2>1 DEF FindClassRoom
  <2> QED BY <2>2
<1>12. CASE ReadSectionTa(k)
  <2>1. CASE Goto(k, "findRooms")
    BY <1>g, <2>1 DEF Steps
  <2>2. CASE task' = [task EXCEPT ![k].t = section[q.s],
                                  ![k].pc = IF q.op = "enrol" THEN "joinTaRoom" ELSE "findRooms"]
    <3>1. n.pc \in {"joinTaRoom", "findRooms"}
      BY <1>1, <2>2 DEF Task
    <3> QED BY <3>1
  <2> QED BY <1>1, <1>12, <2>1, <2>2 DEF ReadSectionTa
<1>13. CASE FindTaRoomToJoin(k)
  <2>1. ASSUME NEW r \in RoomsOf(q.t), task' = [task EXCEPT ![k].pc = "upsertTa", ![k].room = r]
        PROVE  n.pc = "upsertTa"
    BY <1>1, <2>1 DEF Task
  <2>2. n.pc = "upsertTa"
    BY <1>1, <1>13, <2>1 DEF FindTaRoomToJoin
  <2> QED BY <2>2
<1> QED BY <1>4, <1>5, <1>6, <1>7, <1>8, <1>9, <1>10, <1>11, <1>12, <1>13 DEF Step

LEMMA OfKind ==
    ASSUME Shape, KindsOK, NEW j \in Tasks
    PROVE  /\ task[j].pc = "expelOld" => task[j].room \in Rooms /\ task[j].prev \in TAs
           /\ task[j].pc = "expel" => task[j].from \subseteq Rooms /\ task[j].op = "unenrol"
           /\ task[j].pc = "upsertClass" => task[j].op \in {"assign", "enrol"}
           /\ task[j].pc = "expelProfessor" => task[j].op = "dismiss"
           /\ task[j].pc \in {"addTa", "upsertTa"} => task[j].t \in TAs
           /\ task[j].c \in Classes \cup {None} /\ task[j].t \in TAs \cup {None}
<1>1. CASE task[j] = Idle
  BY <1>1 DEF Idle
<1>2. CASE task[j] # Idle
  <2>1. KindOK(task[j]) /\ CarriesOK(task[j]) /\ task[j] \in Task
    BY <1>2 DEF KindsOK, Shape, TypeOK, TasksOK
  <2>2. task[j].op \in AllOps /\ task[j].pc \in StepsOf(task[j].op)
    BY <2>1 DEF KindOK, Task
  <2>3. /\ task[j].pc = "expelOld" => task[j].op = "updateSection"
        /\ task[j].pc = "expel" => task[j].op = "unenrol"
        /\ task[j].pc = "upsertClass" => task[j].op \in {"assign", "enrol"}
        /\ task[j].pc = "expelProfessor" => task[j].op = "dismiss"
    BY <2>2 DEF StepsOf, AllOps
  <2>4. /\ task[j].from \subseteq Rooms
        /\ task[j].c \in Classes \cup {None} /\ task[j].t \in TAs \cup {None}
    BY <2>1 DEF Task
  <2> QED BY <2>1, <2>3, <2>4 DEF KindOK, CarriesOK
<1> QED BY <1>1, <1>2

LEMMA StepFound ==
    ASSUME Shape, KindsOK, FoundOK, NEW k \in Tasks, Step(k) \/ Fail(k)
    PROVE  FoundOK'
<1>1. ASSUME NEW r \in Rooms, room[r].key # "unused" PROVE room'[r].key = room[r].key
  BY <1>1, KeyEffect
<1>2. ASSUME NEW j \in Tasks, task'[j].pc = "expelOld"
      PROVE  room'[task'[j].room].key = task'[j].prev
  <2>1. CASE j # k
    <3>1. task'[j] = task[j]
      BY <2>1, Advances
    <3>2. task[j].room \in Rooms /\ room[task[j].room].key = task[j].prev /\ task[j].prev \in TAs
      BY <1>2, <3>1, OfKind DEF FoundOK
    <3> QED BY <1>1, <3>1, <3>2, AcademicAssumption
  <2>2. CASE j = k
    <3>1. task'[k] # Idle
      BY <1>2, <2>2, IdleOp
    <3>2. task'[k].prev = task[k].prev
      BY <3>1, Advances DEF Continues
    <3> QED BY <1>2, <2>2, <3>1, <3>2, LandsToExpel DEF RoomsOf
  <2> QED BY <2>1, <2>2
<1>3. ASSUME NEW j \in Tasks, task'[j].pc = "expel", NEW r \in task'[j].from
      PROVE  room'[r].key \in {task'[j].c, task'[j].t, "unlinked"}
  <2>1. ASSUME task[j].pc = "expel", r \in task[j].from
        PROVE  room'[r].key \in {task[j].c, task[j].t, "unlinked"}
    <3>1. r \in Rooms /\ room[r].key \in {task[j].c, task[j].t, "unlinked"}
      BY <2>1, OfKind DEF FoundOK
    <3>2. task[j].c # "unused" /\ task[j].t # "unused"
      BY OfKind, AcademicAssumption
    <3> QED BY <1>1, <3>1, <3>2
  <2>2. CASE j # k
    <3>1. task'[j] = task[j]
      BY <2>2, Advances
    <3> QED BY <1>3, <2>1, <3>1
  <2>3. CASE j = k
    <3>1. task'[k] # Idle
      BY <1>3, <2>3, IdleOp
    <3>2. /\ task'[k].c = task[k].c /\ task'[k].t = task[k].t /\ room' = room
          /\ \/ r \in RoomsOf(task[k].c) \cup RoomsOf(task[k].t)
             \/ task[k].pc = "expel" /\ r \in task[k].from
      BY <1>3, <2>3, <3>1, LandsToExpel, Advances DEF Continues
    <3> QED BY <2>1, <2>3, <3>2 DEF RoomsOf
  <2> QED BY <2>2, <2>3
<1> QED BY <1>2, <1>3 DEF FoundOK

LEMMA ArriveFound ==
    ASSUME Shape, KindsOK, FoundOK, NEW k \in Tasks, Arrive(k)
    PROVE  FoundOK'
<1>1. ASSUME NEW j \in Tasks, task'[j].pc \in {"expelOld", "expel"} PROVE task'[j] = task[j]
  BY <1>1, ArriveKeeps
<1>2. ASSUME NEW j \in Tasks, task'[j].pc = "expelOld"
      PROVE  room'[task'[j].room].key = task'[j].prev
  <2>1. task[j].room \in Rooms /\ room[task[j].room].key = task[j].prev /\ task[j].prev \in TAs
    BY <1>1, <1>2, OfKind DEF FoundOK
  <2> QED BY <1>1, <1>2, <2>1, ArriveKeeps, AcademicAssumption
<1>3. ASSUME NEW j \in Tasks, task'[j].pc = "expel", NEW r \in task'[j].from
      PROVE  room'[r].key \in {task'[j].c, task'[j].t, "unlinked"}
  <2>1. r \in Rooms /\ room[r].key \in {task[j].c, task[j].t, "unlinked"}
    BY <1>1, <1>3, OfKind DEF FoundOK
  <2> QED BY <1>1, <1>3, <2>1, ArriveKeeps
<1> QED BY <1>2, <1>3 DEF FoundOK

(* What the steps do to what the class rooms are to follow. *)
LEMMA RecordsEffect ==
    ASSUME Shape, NEW k \in Tasks, Step(k) \/ Fail(k)
    PROVE  /\ class' = class /\ professor' = professor /\ followed' \subseteq followed
           /\ overridden' = overridden
           /\ \A u \in Users : /\ enrolled'[u].c = enrolled[u].c
                               /\ enrolled'[u].role = enrolled[u].role
<1>1. CASE DeleteSectionWrite(k)
  <2>1. enrolled \in [Users -> Enrolment \cup {NotEnrolled}]
    BY DEF Shape, TypeOK
  <2>2. ASSUME NEW u \in Users
        PROVE  enrolled'[u].c = enrolled[u].c /\ enrolled'[u].role = enrolled[u].role
    <3>1. enrolled[u] \in Enrolment \/ enrolled[u] = NotEnrolled
      BY <2>1
    <3>2. enrolled'[u] = enrolled[u] \/ enrolled'[u] = [enrolled[u] EXCEPT !.s = None]
      BY <1>1 DEF DeleteSectionWrite
    <3> QED BY <3>1, <3>2 DEF Enrolment, NotEnrolled
  <2> QED BY <1>1, <2>2 DEF DeleteSectionWrite
<1>2. CASE ~DeleteSectionWrite(k) /\ Step(k)
  BY <1>2 DEF Step, CreateClassRoom, DeactivateClassRoom, FindTaRoom, CreateTaRoom, AddTa,
     UpdateSectionWrite, ReadStudents, FindOldRoom, ExpelFromOldRoom, MoveStudents,
     FindSiblings, DeactivateTaRoom, FindClassRoom, UpsertClassMember,
     ExpelProfessor, ReadSectionTa, FindTaRoomToJoin, UpsertTaRoomMember,
     FindEnrolmentRooms, ExpelFromRooms, records, history
<1>3. CASE Fail(k)
  BY <1>3 DEF Fail, records
<1> QED BY <1>1, <1>2, <1>3

(* The calls of the handlers that write or find the room of a class. *)
LEMMA ClassCalls ==
    ASSUME NEW k \in Tasks, Step(k)
    PROVE  /\ task[k].pc = "createRoom" => CreateClassRoom(k)
           /\ task[k].pc = "classRoom" => FindClassRoom(k)
           /\ task[k].pc = "upsertClass" => UpsertClassMember(k)
           /\ task[k].pc = "expelProfessor" => ExpelProfessor(k)
<1>1. CASE \/ DeactivateClassRoom(k) \/ FindTaRoom(k) \/ CreateTaRoom(k) \/ AddTa(k)
           \/ UpdateSectionWrite(k) \/ ReadStudents(k) \/ FindOldRoom(k) \/ ExpelFromOldRoom(k)
           \/ MoveStudents(k) \/ DeleteSectionWrite(k) \/ FindSiblings(k) \/ DeactivateTaRoom(k)
           \/ ReadSectionTa(k) \/ FindTaRoomToJoin(k) \/ UpsertTaRoomMember(k)
           \/ FindEnrolmentRooms(k) \/ ExpelFromRooms(k)
  <2>1. task[k].pc \notin {"createRoom", "classRoom", "upsertClass", "expelProfessor"}
    BY <1>1 DEF DeactivateClassRoom, FindTaRoom, CreateTaRoom, AddTa, UpdateSectionWrite,
       ReadStudents, FindOldRoom, ExpelFromOldRoom, MoveStudents, DeleteSectionWrite,
       FindSiblings, DeactivateTaRoom, ReadSectionTa, FindTaRoomToJoin, UpsertTaRoomMember,
       FindEnrolmentRooms, ExpelFromRooms
  <2> QED BY <2>1
<1>2. /\ CreateClassRoom(k) => task[k].pc = "createRoom"
      /\ FindClassRoom(k) => task[k].pc = "classRoom"
      /\ UpsertClassMember(k) => task[k].pc = "upsertClass"
      /\ ExpelProfessor(k) => task[k].pc = "expelProfessor"
  BY DEF CreateClassRoom, FindClassRoom, UpsertClassMember, ExpelProfessor
<1> QED BY <1>1, <1>2 DEF Step

LEMMA StepClassRooms ==
    ASSUME Shape, KindsOK, ClassRoomsOK, NEW k \in Tasks, Step(k) \/ Fail(k)
    PROVE  ClassRoomsOK'
<1>0. class' = class /\ \A j \in Tasks \ {k} : task'[j] = task[j]
  BY RecordsEffect, Advances
<1>1. \A j \in Tasks : task'[j].pc = "createRoom" => j # k /\ task'[j] = task[j]
  <2>1. task'[k].pc # "createRoom"
    BY LandsToExpel, IdleOp
  <2> QED BY <1>0, <2>1
<1>2. ASSUME NEW c \in Classes, RoomsOf(c)' = RoomsOf(c)
      PROVE  /\ \A r, x \in RoomsOf(c)' : r = x
             /\ class'[c] # "live" => RoomsOf(c)' = {}
             /\ \A j \in Tasks : task'[j].pc = "createRoom" /\ task'[j].c = c =>
                  /\ class'[c] # "new" /\ RoomsOf(c)' = {}
                  /\ \A l \in Tasks : task'[l].pc = "createRoom" /\ task'[l].c = c => j = l
  BY <1>0, <1>1, <1>2 DEF ClassRoomsOK
<1>3. CASE CreateClassRoom(k) /\ room' # room
  <2>0. task[k].c \in Classes
    BY <1>3, IdleOp DEF CreateClassRoom, Shape, TasksOK, CarriesOK
  <2> PICK b \in Classes : b = task[k].c
    BY <2>0
  <2>1. /\ class[b] = "live" /\ RoomsOf("unused") # {} /\ task[k].pc = "createRoom"
        /\ room' = [room EXCEPT ![NewRoom] = [key |-> b, active |-> TRUE]]
    BY <1>3 DEF CreateClassRoom
  <2>2. NewRoom \in Rooms /\ room[NewRoom].key = "unused"
    BY <2>1 DEF NewRoom, RoomsOf
  <2>3. room \in [Rooms -> Room]
    BY DEF Shape, TypeOK
  <2>4. ASSUME NEW c \in Classes, c # b PROVE RoomsOf(c)' = RoomsOf(c)
    BY <2>1, <2>2, <2>3, <2>4, AcademicAssumption DEF RoomsOf
  <2>5. RoomsOf(b) = {}
    BY <2>1, <2>3 DEF ClassRoomsOK
  <2>6. RoomsOf(b)' = {NewRoom}
    BY <2>1, <2>2, <2>3, <2>5 DEF RoomsOf
  <2>7. \A j \in Tasks : ~(task'[j].pc = "createRoom" /\ task'[j].c = b)
    BY <1>1, <2>1, <2>3 DEF ClassRoomsOK
  <2>8. /\ \A r, x \in RoomsOf(b)' : r = x
        /\ class'[b] # "live" => RoomsOf(b)' = {}
        /\ \A j \in Tasks : task'[j].pc = "createRoom" /\ task'[j].c = b =>
             /\ class'[b] # "new" /\ RoomsOf(b)' = {}
             /\ \A l \in Tasks : task'[l].pc = "createRoom" /\ task'[l].c = b => j = l
    BY <1>0, <2>1, <2>6, <2>7
  <2> QED BY <1>2, <2>4, <2>8 DEF ClassRoomsOK
<1>4. CASE ~CreateClassRoom(k) \/ room' = room
  <2>1. ASSUME NEW c \in Classes PROVE RoomsOf(c)' = RoomsOf(c)
    <3>1. CASE room' = room
      BY <3>1 DEF RoomsOf
    <3>2. CASE room' # room
      <4>1. task[k].pc # "createRoom"
        <5>1. ~Fail(k)
          BY <3>2 DEF Fail, rooms
        <5> QED BY <1>4, <3>2, <5>1, ClassCalls
      <4>2. ASSUME NEW r \in Rooms PROVE room'[r].key = c <=> room[r].key = c
        <5>1. \/ room'[r].key = room[r].key
              \/ room[r].key = "unused" /\ task[k].pc = "createTaRoom" /\ room'[r].key = task[k].t
          BY <4>1, KeyEffect
        <5>2. task[k].t \in TAs \cup {None}
          BY OfKind
        <5> QED BY <5>1, <5>2, AcademicAssumption
      <4> QED BY <4>2 DEF RoomsOf
    <3> QED BY <3>1, <3>2
  <2> QED BY <1>2, <2>1 DEF ClassRoomsOK
<1> QED BY <1>3, <1>4

(* A row changes by the call that writes it. *)
LEMMA RowEffect ==
    ASSUME Shape, KindsOK, NEW k \in Tasks, Step(k) \/ Fail(k), NEW r \in Rooms, NEW u \in Users,
           member'[r][u] # member[r][u]
    PROVE  \/ /\ r = task[k].room
              /\ \/ task[k].pc \in {"addTa", "upsertTa", "expelOld"}
                 \/ /\ task[k].pc = "upsertClass" /\ u = task[k].u
                    /\ member'[r][u] = RoomRole(task[k].role)
                 \/ task[k].pc = "expelProfessor" /\ u = task[k].u /\ member'[r][u] = "NONE"
           \/ /\ task[k].pc = "expel" /\ r \in task[k].from /\ u = task[k].u
              /\ member'[r][u] = "NONE"
<1>0. member \in [Rooms -> [Users -> MemberRole]]
  BY DEF Shape, TypeOK
<1>1. CASE AddTa(k)
  BY <1>0, <1>1 DEF AddTa
<1>2. CASE UpsertClassMember(k)
  BY <1>0, <1>2 DEF UpsertClassMember
<1>3. CASE UpsertTaRoomMember(k)
  BY <1>0, <1>3 DEF UpsertTaRoomMember
<1>4. CASE ExpelProfessor(k)
  BY <1>0, <1>4 DEF ExpelProfessor
<1>5. CASE ExpelFromOldRoom(k)
  BY <1>0, <1>5 DEF ExpelFromOldRoom
<1>6. CASE ExpelFromRooms(k)
  <2>1. PICK x \in task[k].from : member' = [member EXCEPT ![x][task[k].u] = "NONE"]
    BY <1>6 DEF ExpelFromRooms
  <2>2. task[k].pc = "expel"
    BY <1>6 DEF ExpelFromRooms
  <2> QED BY <1>0, <2>1, <2>2
<1>7. CASE /\ Step(k) /\ ~AddTa(k) /\ ~UpsertClassMember(k) /\ ~UpsertTaRoomMember(k)
           /\ ~ExpelProfessor(k) /\ ~ExpelFromOldRoom(k) /\ ~ExpelFromRooms(k)
  <2>1. member' = member
    BY <1>7 DEF Step, CreateClassRoom, DeactivateClassRoom, FindTaRoom, CreateTaRoom,
     UpdateSectionWrite, ReadStudents, FindOldRoom, MoveStudents, DeleteSectionWrite,
     FindSiblings, DeactivateTaRoom, FindClassRoom, ReadSectionTa, FindTaRoomToJoin,
     FindEnrolmentRooms, rooms
  <2> QED BY <2>1
<1>8. CASE Fail(k)
  <2>1. member' = member
    BY <1>8 DEF Fail, rooms
  <2> QED BY <2>1
<1> QED BY <1>1, <1>2, <1>3, <1>4, <1>5, <1>6, <1>7, <1>8

(* The row of a class room changes to what the event about it gives. *)
LEMMA RowGiven ==
    ASSUME Shape, KindsOK, RoomsOK, FoundOK, NEW k \in Tasks, Step(k) \/ Fail(k),
           NEW c \in Classes, NEW r \in RoomsOf(c), NEW u \in Users,
           member'[r][u] # member[r][u]
    PROVE  About(task[k], u, c) /\ member'[r][u] = Gives(task[k])
<1>1. r \in Rooms /\ room[r].key = c
  BY DEF RoomsOf
<1>2. c \notin TAs /\ c # "unlinked"
  BY AcademicAssumption
<1>3. ~(r = task[k].room /\ task[k].pc \in {"addTa", "upsertTa", "expelOld"})
  BY <1>1, <1>2, OfKind DEF RoomsOK, FoundOK
<1>4. CASE /\ r = task[k].room /\ task[k].pc = "upsertClass" /\ u = task[k].u
           /\ member'[r][u] = RoomRole(task[k].role)
  <2>1. task[k].c = c
    BY <1>1, <1>2, <1>4 DEF RoomsOK
  <2> QED BY <1>4, <2>1, OfKind DEF About, Gives
<1>5. CASE /\ r = task[k].room /\ task[k].pc = "expelProfessor" /\ u = task[k].u
           /\ member'[r][u] = "NONE"
  <2>1. task[k].c = c
    BY <1>1, <1>2, <1>5 DEF RoomsOK
  <2> QED BY <1>5, <2>1, OfKind DEF About, Gives
<1>6. CASE /\ task[k].pc = "expel" /\ r \in task[k].from /\ u = task[k].u
           /\ member'[r][u] = "NONE"
  <2>1. task[k].c = c
    <3>1. c \in {task[k].c, task[k].t, "unlinked"}
      BY <1>1, <1>6 DEF FoundOK
    <3>2. c # task[k].t
      BY <1>2, OfKind, AcademicAssumption
    <3> QED BY <1>2, <3>1, <3>2
  <2> QED BY <1>6, <2>1, OfKind DEF About, Gives
<1> QED BY <1>1, <1>3, <1>4, <1>5, <1>6, RowEffect

(* A row that is yet to come comes, or is yet to come after the call too.  *)
LEMMA PendingProceeds ==
    ASSUME Shape, KindsOK, ClassRoomsOK, NEW k \in Tasks, Step(k),
           NEW c \in Classes, NEW r \in RoomsOf(c), NEW u \in Users,
           About(task[k], u, c), Pending(task[k], r)
    PROVE  \/ member'[r][u] = Gives(task[k])
           \/ About(task'[k], u, c) /\ Pending(task'[k], r)
<1> DEFINE q == task[k]
           n == task'[k]
<1>0. /\ member \in [Rooms -> [Users -> MemberRole]] /\ r \in Rooms
      /\ q \in Task /\ task \in [Tasks -> Task \cup {Idle}] /\ q.u = u /\ q.c = c
      /\ n = Idle \/ Continues(q, n)
  BY Advances DEF Shape, TypeOK, RoomsOf, About
<1>a. n # Idle => About(n, u, c)
  BY <1>0 DEF Continues, About
<1>1. CASE q.pc = "classRoom"
  <2>1. FindClassRoom(k)
    BY <1>1, ClassCalls
  <2>2. PICK x \in RoomsOf(c) :
          task' = [task EXCEPT ![k].pc = IF q.op = "dismiss" THEN "expelProfessor"
                                         ELSE "upsertClass", ![k].room = x]
    BY <1>0, <2>1 DEF FindClassRoom
  <2>3. n.pc \in {"upsertClass", "expelProfessor"} /\ n.room = x
    BY <1>0, <2>2 DEF Task
  <2>4. x = r
    BY DEF ClassRoomsOK
  <2> QED BY <1>a, <2>3, <2>4, IdleOp DEF Pending
<1>2. CASE q.pc = "upsertClass" /\ q.room = r
  <2>1. UpsertClassMember(k)
    BY <1>2, ClassCalls
  <2>2. member'[r][u] = RoomRole(q.role)
    BY <1>0, <1>2, <2>1 DEF UpsertClassMember
  <2> QED BY <1>2, <2>2, OfKind DEF Gives
<1>3. CASE q.pc = "expelProfessor" /\ q.room = r
  <2>1. ExpelProfessor(k)
    BY <1>3, ClassCalls
  <2>2. member'[r][u] = "NONE"
    BY <1>0, <1>3, <2>1 DEF ExpelProfessor
  <2> QED BY <1>3, <2>2, OfKind DEF Gives
<1>4. CASE q.op = "unenrol" /\ q.pc = "sectionTa"
  <2>1. ReadSectionTa(k)
    BY <1>4, Expellers
  <2>2. n.pc = "findRooms" /\ n.op = q.op
    BY <1>0, <1>4, <2>1 DEF ReadSectionTa, Goto, Task
  <2> QED BY <1>a, <1>4, <2>2, IdleOp DEF Pending
<1>5. CASE q.pc = "findRooms"
  <2>1. FindEnrolmentRooms(k)
    BY <1>5, Expellers
  <2> DEFINE from == RoomsOf(q.c) \cup RoomsOf(q.t)
  <2>2. task' = [task EXCEPT ![k].pc = "expel", ![k].from = from] /\ r \in from
    BY <1>0, <2>1 DEF FindEnrolmentRooms
  <2> HIDE DEF from
  <2>3. n.pc = "expel" /\ n.from = from
    BY <1>0, <2>2 DEF Task
  <2> QED BY <1>a, <2>2, <2>3, IdleOp DEF Pending
<1>6. CASE q.pc = "expel" /\ r \in q.from
  <2>1. ExpelFromRooms(k)
    BY <1>6, Expellers
  <2>2. PICK x \in q.from : /\ member' = [member EXCEPT ![x][u] = "NONE"]
                            /\ task' = [task EXCEPT ![k].from = @ \ {x}]
    BY <1>0, <1>6, <2>1 DEF ExpelFromRooms
  <2>3. CASE x = r
    <3>1. member'[r][u] = "NONE"
      BY <1>0, <2>2, <2>3
    <3> QED BY <1>6, <3>1, OfKind DEF Gives
  <2>4. CASE x # r
    <3>1. n.pc = "expel" /\ r \in n.from
      BY <1>0, <1>6, <2>2, <2>4 DEF Task
    <3> QED BY <1>a, <3>1, IdleOp DEF Pending
  <2> QED BY <2>3, <2>4
<1> QED BY <1>1, <1>2, <1>3, <1>4, <1>5, <1>6 DEF Pending

LEMMA StepFollowing ==
    ASSUME Shape, KindsOK, RoomsOK, FoundOK, ClassRoomsOK, NEW k \in Tasks, Step(k) \/ Fail(k),
           NEW u \in Users, NEW c \in Classes, <<u, c>> \in followed', Following(u, c)
    PROVE  Following(u, c)'
<1>1. /\ class' = class /\ Given(u, c)' = Given(u, c)
      /\ \A j \in Tasks \ {k} : task'[j] = task[j]
      /\ task'[k] = Idle \/ Continues(task[k], task'[k])
  BY RecordsEffect, Advances DEF Given, Due
<1>2. ASSUME NEW j \in Tasks, task'[j].c = c PROVE task'[j].pc # "createRoom"
  <2>1. CASE j = k
    BY <2>1, LandsToExpel, IdleOp
  <2>2. CASE j # k
    BY <1>1, <1>2, <2>2 DEF Following
  <2> QED BY <2>1, <2>2
<1>3. ASSUME NEW r \in RoomsOf(c)' PROVE r \in RoomsOf(c)
  <2>1. r \in Rooms /\ room'[r].key = c
    BY DEF RoomsOf
  <2>2. task[k].c = c => task[k].pc # "createRoom"
    BY DEF Following
  <2>3. c # task[k].t
    BY OfKind, AcademicAssumption
  <2>4. room[r].key = c
    BY <2>1, <2>2, <2>3, KeyEffect
  <2> QED BY <2>1, <2>4 DEF RoomsOf
<1>4. ASSUME NEW j \in Tasks, About(task'[j], u, c)
      PROVE  About(task[j], u, c) /\ Gives(task'[j]) = Gives(task[j])
  <2>1. CASE j = k
    <3>1. task'[k] # Idle
      BY <1>4, <2>1, IdleOp, AcademicAssumption DEF About
    <3> QED BY <1>1, <1>4, <2>1, <3>1 DEF Continues, About, Gives
  <2>2. CASE j # k
    BY <1>1, <1>4, <2>2
  <2> QED BY <2>1, <2>2
<1>5. ASSUME NEW r \in RoomsOf(c)'
      PROVE  /\ \A j \in Tasks : About(task'[j], u, c) => Gives(task'[j]) = Given(u, c)
             /\ \/ member'[r][u] = Given(u, c)
                \/ \E j \in Tasks : About(task'[j], u, c) /\ Pending(task'[j], r)
  <2>1. /\ r \in RoomsOf(c)
        /\ \A j \in Tasks : About(task[j], u, c) => Gives(task[j]) = Given(u, c)
        /\ \/ member[r][u] = Given(u, c)
           \/ \E j \in Tasks : About(task[j], u, c) /\ Pending(task[j], r)
    BY <1>3 DEF Following
  <2>2. CASE member'[r][u] # member[r][u]
    BY <1>4, <2>1, <2>2, RowGiven
  <2>3. CASE member[r][u] = Given(u, c)
    BY <1>4, <2>1, <2>2, <2>3
  <2>4. ASSUME NEW j \in Tasks, About(task[j], u, c), Pending(task[j], r)
        PROVE  \/ member'[r][u] = Given(u, c)
               \/ About(task'[j], u, c) /\ Pending(task'[j], r)
    <3>1. CASE j # k
      BY <1>1, <2>4, <3>1
    <3>2. CASE j = k
      <4>1. ~Fail(k)
        BY <2>4, <3>2 DEF Fail, About
      <4> QED BY <2>1, <2>4, <3>2, <4>1, PendingProceeds
    <3> QED BY <3>1, <3>2
  <2> QED BY <1>4, <2>1, <2>3, <2>4
<1> QED BY <1>1, <1>2, <1>5 DEF Following, About, Pending, Gives, RoomsOf

(* An arrival creates a class, deletes one, or leaves classes and rooms.   *)
LEMMA ArriveClasses ==
    ASSUME Shape, NEW k \in Tasks, Arrive(k)
    PROVE  \/ \E c \in Classes : CreateClass(k, c) \/ DeleteClass(k, c)
           \/ class' = class /\ room' = room /\ task'[k].pc # "createRoom"
<1>1. ASSUME NEW c \in Classes, NEW p \in Professors,
             AssignProfessor(k, c, p) \/ RemoveProfessor(k, c, p)
      PROVE  class' = class /\ room' = room /\ task'[k].pc # "createRoom"
  <2>1. \/ Begins(k, "assign", "classRoom", c, None, p, None, None, "PROFESSOR")
        \/ Begins(k, "dismiss", "classRoom", c, None, p, None, None, "NONE")
    BY <1>1, Starts
  <2> QED BY <1>1, <2>1 DEF AssignProfessor, RemoveProfessor, Begins, rooms
<1>2. ASSUME NEW s \in Sections, NEW t \in TAs, CreateSection(k, s, t)
      PROVE  class' = class /\ room' = room /\ task'[k].pc # "createRoom"
  <2>1. Begins(k, "createSection", "findTaRoom", None, s, None, t, None, "NONE")
    BY <1>2, Starts
  <2> QED BY <1>2, <2>1 DEF CreateSection, Begins, rooms
<1>3. ASSUME NEW s \in Sections, NEW t, UpdateSection(k, s, t) \/ DeleteSection(k, s)
      PROVE  class' = class /\ room' = room /\ task'[k].pc # "createRoom"
  <2>1. \/ Begins(k, "updateSection", "write", None, s, None, t, section[s], "NONE")
        \/ Begins(k, "deleteSection", "delete", None, s, None, section[s], None, "NONE")
    BY <1>3, Starts
  <2> QED BY <1>3, <2>1 DEF UpdateSection, DeleteSection, Begins, records, rooms
<1>4. ASSUME NEW v \in Students, RemoveEnrolment(k, v)
      PROVE  class' = class /\ room' = room /\ task'[k].pc # "createRoom"
  <2>1. Begins(k, "unenrol", IF enrolled[v].s # None THEN "sectionTa" ELSE "findRooms",
               enrolled[v].c, enrolled[v].s, v, None, None, "NONE")
    BY <1>4, Starts
  <2> QED BY <1>4, <2>1 DEF RemoveEnrolment, Begins, rooms
<1>5. ASSUME NEW v \in Students, NEW c \in Classes \cup {None}, NEW s \in Sections \cup {None},
             NEW role \in Roles, CreateEnrolment(k, v, c, s, role)
      PROVE  class' = class /\ room' = room /\ task'[k].pc # "createRoom"
  <2>1. CASE task' = task
    <3>1. task[k] = Idle
      BY <1>5 DEF CreateEnrolment, Start
    <3> QED BY <1>5, <2>1, <3>1, IdleOp DEF CreateEnrolment, rooms
  <2>2. CASE Begins(k, "enrol", IF c # None THEN "classRoom" ELSE "sectionTa",
                    c, s, v, None, None, role)
    BY <1>5, <2>2 DEF CreateEnrolment, Begins, rooms
  <2> QED BY <1>5, <2>1, <2>2, Starts
<1> QED BY <1>1, <1>2, <1>3, <1>4, <1>5 DEF Arrive

LEMMA ArriveClassRooms ==
    ASSUME Shape, ClassRoomsOK, NEW k \in Tasks, Arrive(k)
    PROVE  ClassRoomsOK'
<1>0. /\ class \in [Classes -> {"new", "live", "gone"}] /\ room \in [Rooms -> Room]
      /\ \A j \in Tasks \ {k} : task'[j] = task[j]
  BY ArriveKeeps DEF Shape, TypeOK
<1> DEFINE Kept(c) ==
             /\ \A r, x \in RoomsOf(c)' : r = x
             /\ class'[c] # "live" => RoomsOf(c)' = {}
             /\ \A j \in Tasks : task'[j].pc = "createRoom" /\ task'[j].c = c =>
                  /\ class'[c] # "new" /\ RoomsOf(c)' = {}
                  /\ \A l \in Tasks : task'[l].pc = "createRoom" /\ task'[l].c = c => j = l
<1>1. ASSUME NEW c \in Classes, RoomsOf(c)' = RoomsOf(c), class'[c] = class[c],
             ~(task'[k].pc = "createRoom" /\ task'[k].c = c)
      PROVE  Kept(c)
  <2>1. \A j \in Tasks : task'[j].pc = "createRoom" /\ task'[j].c = c =>
          j # k /\ task'[j] = task[j]
    BY <1>0, <1>1
  <2> QED BY <1>1, <2>1 DEF ClassRoomsOK
<1>2. ASSUME NEW b \in Classes, CreateClass(k, b), NEW c \in Classes PROVE Kept(c)
  <2>1. Begins(k, "createClass", "createRoom", b, None, None, None, None, "NONE")
    BY <1>2, Starts
  <2>2. /\ class[b] = "new" /\ class' = [class EXCEPT ![b] = "live"]
        /\ RoomsOf(c)' = RoomsOf(c)
    BY <1>2 DEF CreateClass, rooms, RoomsOf
  <2>3. CASE c # b
    BY <1>0, <1>1, <2>1, <2>2, <2>3 DEF Begins
  <2>4. CASE c = b
    <3>1. RoomsOf(c) = {} /\ \A j \in Tasks : ~(task[j].pc = "createRoom" /\ task[j].c = c)
      BY <2>2, <2>4 DEF ClassRoomsOK
    <3>2. \A j \in Tasks : task'[j].pc = "createRoom" /\ task'[j].c = c => j = k
      BY <1>0, <3>1
    <3> QED BY <1>0, <2>2, <2>4, <3>1, <3>2
  <2> QED BY <2>3, <2>4
<1>3. ASSUME NEW b \in Classes, DeleteClass(k, b), NEW c \in Classes PROVE Kept(c)
  <2>1. Begins(k, "deleteClass", "deactivate", b, None, None, None, None, "NONE")
    BY <1>3, Starts
  <2>2. /\ class[b] = "live" /\ class' = [class EXCEPT ![b] = "gone"]
        /\ room' = [r \in Rooms |-> IF room[r].key = b
                                    THEN [room[r] EXCEPT !.key = "unlinked"] ELSE room[r]]
    BY <1>3 DEF DeleteClass
  <2>3. ASSUME NEW r \in Rooms
        PROVE  room'[r].key = IF room[r].key = b THEN "unlinked" ELSE room[r].key
    BY <1>0, <2>2 DEF Room
  <2>4. b # "unlinked" /\ c # "unlinked"
    BY AcademicAssumption
  <2>5. CASE c # b
    <3>1. RoomsOf(c)' = RoomsOf(c)
      BY <2>3, <2>4, <2>5 DEF RoomsOf
    <3> QED BY <1>0, <1>1, <2>1, <2>2, <2>5, <3>1 DEF Begins
  <2>6. CASE c = b
    <3>1. RoomsOf(c)' = {}
      BY <2>3, <2>4, <2>6 DEF RoomsOf
    <3>2. \A j \in Tasks : task'[j].pc = "createRoom" => j # k /\ task'[j] = task[j]
      BY <1>0, <2>1 DEF Begins
    <3>3. class'[c] = "gone"
      BY <1>0, <2>2, <2>6
    <3> QED BY <3>1, <3>2, <3>3 DEF ClassRoomsOK
  <2> QED BY <2>5, <2>6
<1>4. ASSUME class' = class, room' = room, task'[k].pc # "createRoom", NEW c \in Classes
      PROVE  Kept(c)
  BY <1>1, <1>4 DEF RoomsOf
<1>5. ASSUME NEW c \in Classes PROVE Kept(c)
  BY <1>2, <1>3, <1>4, ArriveClasses
<1> QED BY <1>5 DEF ClassRoomsOK

(* An operation about u and c that found a room and nobody at work on them *)
LEMMA AboutBegins ==
    ASSUME Shape, KindsOK, ClassRoomsOK, NEW k \in Tasks, NEW u \in Users, NEW c \in Classes,
           NEW beside, Follow(u, c, beside), <<u, c>> \in followed',
           class' = class, room' = room,
           \A j \in Tasks \ {k} : task'[j] = task[j],
           task'[k].pc # "createRoom", \A r : Pending(task'[k], r),
           About(task'[k], u, c), Gives(task'[k]) = Given(u, c)'
    PROVE  Following(u, c)'
<1>1. RoomsOf(c) # {} /\ \A j \in Tasks : ~About(task[j], u, c)
  BY DEF Follow, About
<1>2. class[c] = "live" /\ \A j \in Tasks : task[j].c = c => task[j].pc # "createRoom"
  BY <1>1 DEF ClassRoomsOK
<1>3. \A j \in Tasks : About(task'[j], u, c) => j = k
  BY <1>1
<1>4. \A j \in Tasks : task'[j].c = c => task'[j].pc # "createRoom"
  BY <1>2
<1>5. \A j \in Tasks : About(task'[j], u, c) => Gives(task'[j]) = Given(u, c)'
  BY <1>1, <1>3
<1>6. ASSUME NEW r PROVE \E j \in Tasks : About(task'[j], u, c) /\ Pending(task'[j], r)
  OBVIOUS
<1> QED BY <1>2, <1>4, <1>5, <1>6 DEF Following, About, Pending, Gives

(* Any other leaves what u and c are to follow. *)
LEMMA OthersBegin ==
    ASSUME Shape, ClassRoomsOK, NEW k \in Tasks, Arrive(k), NEW u \in Users, NEW c \in Classes,
           Following(u, c), ~About(task'[k], u, c), Given(u, c)' = Given(u, c) \/ RoomsOf(c)' = {}
    PROVE  Following(u, c)'
<1>0. /\ member' = member /\ task[k] = Idle /\ \A j \in Tasks \ {k} : task'[j] = task[j]
      /\ class \in [Classes -> {"new", "live", "gone"}]
  BY ArriveKeeps DEF Shape, TypeOK
<1>1. class'[c] # "new" /\ (task'[k].c = c => task'[k].pc # "createRoom")
  <2>1. ASSUME NEW b \in Classes, CreateClass(k, b)
        PROVE  class'[c] # "new" /\ (task'[k].c = c => task'[k].pc # "createRoom")
    <3>1. Begins(k, "createClass", "createRoom", b, None, None, None, None, "NONE")
      BY <2>1, Starts
    <3>2. class[b] = "new" /\ class[c] # "new" /\ class' = [class EXCEPT ![b] = "live"]
      BY <2>1 DEF CreateClass, Following
    <3> QED BY <1>0, <3>1, <3>2 DEF Begins
  <2>2. ASSUME NEW b \in Classes, DeleteClass(k, b)
        PROVE  class'[c] # "new" /\ (task'[k].c = c => task'[k].pc # "createRoom")
    <3>1. Begins(k, "deleteClass", "deactivate", b, None, None, None, None, "NONE")
      BY <2>2, Starts
    <3>2. class[c] # "new" /\ class' = [class EXCEPT ![b] = "gone"]
      BY <2>2 DEF DeleteClass, Following
    <3> QED BY <1>0, <3>1, <3>2 DEF Begins
  <2> QED BY <2>1, <2>2, ArriveClasses DEF Following
<1>2. \A j \in Tasks : task'[j].c = c => task'[j].pc # "createRoom"
  BY <1>0, <1>1 DEF Following
<1>3. ASSUME NEW r \in RoomsOf(c)' PROVE r \in RoomsOf(c) /\ Given(u, c)' = Given(u, c)
  <2>1. r \in Rooms /\ room'[r].key = c /\ c # "unlinked"
    BY AcademicAssumption DEF RoomsOf
  <2> QED BY <2>1, ArriveKeeps DEF RoomsOf
<1>4. ASSUME NEW r \in RoomsOf(c)'
      PROVE  /\ \A j \in Tasks : About(task'[j], u, c) => Gives(task'[j]) = Given(u, c)'
             /\ \/ member'[r][u] = Given(u, c)'
                \/ \E j \in Tasks : About(task'[j], u, c) /\ Pending(task'[j], r)
  <2>1. \A j \in Tasks : About(task'[j], u, c) => j # k /\ task'[j] = task[j]
    BY <1>0
  <2>2. \A j \in Tasks : About(task[j], u, c) => task'[j] = task[j]
    BY <1>0, IdleOp, AcademicAssumption DEF About
  <2>3. /\ r \in RoomsOf(c) /\ Given(u, c)' = Given(u, c)
    BY <1>3
  <2>4. /\ \A j \in Tasks : About(task[j], u, c) => Gives(task[j]) = Given(u, c)
        /\ \/ member[r][u] = Given(u, c)
           \/ \E j \in Tasks : About(task[j], u, c) /\ Pending(task[j], r)
    BY <2>3 DEF Following
  <2>5. \A j \in Tasks : About(task'[j], u, c) => Gives(task'[j]) = Given(u, c)'
    BY <2>1, <2>3, <2>4
  <2> QED BY <1>0, <2>2, <2>3, <2>4, <2>5
<1> QED BY <1>1, <1>2, <1>4 DEF Following, About, Pending, Gives

LEMMA ArriveFollowing ==
    ASSUME Shape, KindsOK, ClassRoomsOK, NEW k \in Tasks, Arrive(k),
           NEW u \in Users, NEW c \in Classes, <<u, c>> \in followed',
           <<u, c>> \in followed => Following(u, c)
    PROVE  Following(u, c)'
<1>0. /\ enrolled \in [Users -> Enrolment \cup {NotEnrolled}]
      /\ None \notin Users /\ None \notin Classes
      /\ \A j \in Tasks \ {k} : task'[j] = task[j]
  BY ArriveKeeps, AcademicAssumption DEF Shape, TypeOK
<1>a. ASSUME NEW v, NEW b, NEW beside, Follow(v, b, beside), <<v, b>> # <<u, c>>
      PROVE  /\ <<u, c>> \in followed
             /\ <<u, c>> \in overridden' <=> <<u, c>> \in overridden
  BY <1>a DEF Follow
<1>o. ASSUME <<u, c>> \in followed, ~About(task'[k], u, c),
             Given(u, c)' = Given(u, c) \/ RoomsOf(c)' = {}
      PROVE  Following(u, c)'
  BY <1>o, OthersBegin
<1>1. ASSUME NEW b \in Classes, CreateClass(k, b) PROVE Following(u, c)'
  <2>1. Begins(k, "createClass", "createRoom", b, None, None, None, None, "NONE")
    BY <1>1, Starts
  <2>2. UNCHANGED <<professor, enrolled, followed, overridden>>
    BY <1>1 DEF CreateClass, history
  <2> QED BY <1>0, <1>o, <2>1, <2>2 DEF Begins, About, Given, Due
<1>2. ASSUME NEW b \in Classes, DeleteClass(k, b) PROVE Following(u, c)'
  <2>1. Begins(k, "deleteClass", "deactivate", b, None, None, None, None, "NONE")
    BY <1>2, Starts
  <2>2. /\ UNCHANGED <<professor, followed, overridden>>
        /\ enrolled' = [v \in Users |-> IF enrolled[v].c = b
                                        THEN [enrolled[v] EXCEPT !.c = None] ELSE enrolled[v]]
        /\ room' = [r \in Rooms |-> IF room[r].key = b
                                    THEN [room[r] EXCEPT !.key = "unlinked"] ELSE room[r]]
    BY <1>2 DEF DeleteClass, history
  <2>3. ~About(task'[k], u, c)
    BY <1>0, <2>1 DEF Begins, About
  <2>4. CASE b = c
    <3>1. ASSUME NEW r \in Rooms PROVE room'[r].key # c
      <4>1. room[r] \in Room /\ c # "unlinked"
        BY AcademicAssumption DEF Shape, TypeOK
      <4>2. room'[r] = IF room[r].key = b THEN [room[r] EXCEPT !.key = "unlinked"] ELSE room[r]
        BY <2>2
      <4> QED BY <2>4, <4>1, <4>2 DEF Room
    <3>2. RoomsOf(c)' = {}
      BY <3>1 DEF RoomsOf
    <3> QED BY <1>o, <2>2, <2>3, <3>2
  <2>5. CASE b # c
    <3>1. enrolled[u] \in Enrolment \/ enrolled[u] = NotEnrolled
      BY <1>0
    <3>2. CASE enrolled[u].c = b
      <4>1. enrolled'[u] = [enrolled[u] EXCEPT !.c = None]
        BY <2>2, <3>2
      <4>2. enrolled'[u].c = None
        BY <3>1, <4>1 DEF Enrolment, NotEnrolled
      <4> QED BY <1>0, <1>o, <2>2, <2>3, <2>5, <3>2, <4>2 DEF Given, Due
    <3>3. CASE enrolled[u].c # b
      <4>1. enrolled'[u] = enrolled[u]
        BY <2>2, <3>3
      <4>2. professor' = professor /\ overridden' = overridden
        BY <2>2
      <4>3. Given(u, c)' = Given(u, c)
        BY <4>1, <4>2 DEF Given, Due
      <4> QED BY <1>o, <2>2, <2>3, <4>3
    <3> QED BY <3>2, <3>3
  <2> QED BY <2>4, <2>5
<1>3. ASSUME NEW b \in Classes, NEW p \in Professors, AssignProfessor(k, b, p)
      PROVE  Following(u, c)'
  <2>1. Begins(k, "assign", "classRoom", b, None, p, None, None, "PROFESSOR")
    BY <1>3, Starts
  <2>2. /\ professor' = professor \cup {<<b, p>>} /\ Follow(p, b, FALSE)
        /\ UNCHANGED <<class, enrolled, room>>
    BY <1>3 DEF AssignProfessor, rooms
  <2>3. CASE b = c /\ p = u
    <3>1. About(task'[k], u, c) /\ \A r : Pending(task'[k], r) /\ task'[k].pc # "createRoom"
      BY <2>1, <2>3 DEF Begins, About, Pending
    <3>2. Follow(u, c, FALSE)
      BY <2>2, <2>3
    <3>3. Gives(task'[k]) = "ADMIN" /\ Given(u, c)' = "ADMIN"
      BY <2>1, <2>2, <2>3, <3>2 DEF Begins, Gives, RoomRole, Given, Due, Follow
    <3> QED BY <1>0, <2>2, <3>1, <3>2, <3>3, AboutBegins
  <2>4. CASE ~(b = c /\ p = u)
    <3>1. /\ <<u, c>> \in followed
          /\ <<u, c>> \in overridden' <=> <<u, c>> \in overridden
      BY <1>a, <2>2, <2>4
    <3>2. ~About(task'[k], u, c)
      BY <2>1, <2>4 DEF Begins, About
    <3>3. Given(u, c)' = Given(u, c)
      BY <2>2, <2>4, <3>1 DEF Given, Due
    <3> QED BY <1>o, <3>1, <3>2, <3>3
  <2> QED BY <2>3, <2>4
<1>4. ASSUME NEW b \in Classes, NEW p \in Professors, RemoveProfessor(k, b, p)
      PROVE  Following(u, c)'
  <2>1. Begins(k, "dismiss", "classRoom", b, None, p, None, None, "NONE")
    BY <1>4, Starts
  <2>2. /\ professor' = professor \ {<<b, p>>} /\ Follow(p, b, enrolled[p].c = b)
        /\ UNCHANGED <<class, enrolled, room>>
    BY <1>4 DEF RemoveProfessor, rooms
  <2>3. CASE b = c /\ p = u
    <3>1. About(task'[k], u, c) /\ \A r : Pending(task'[k], r) /\ task'[k].pc # "createRoom"
      BY <2>1, <2>3 DEF Begins, About, Pending
    <3>2. Follow(u, c, enrolled[u].c = c)
      BY <2>2, <2>3
    <3>3. Gives(task'[k]) = Given(u, c)'
      BY <2>1, <2>2, <2>3, <3>2 DEF Begins, Gives, Given, Due, Follow
    <3> QED BY <1>0, <2>2, <3>1, <3>2, <3>3, AboutBegins
  <2>4. CASE ~(b = c /\ p = u)
    <3>1. /\ <<u, c>> \in followed
          /\ <<u, c>> \in overridden' <=> <<u, c>> \in overridden
      BY <1>a, <2>2, <2>4
    <3>2. ~About(task'[k], u, c)
      BY <2>1, <2>4 DEF Begins, About
    <3>3. Given(u, c)' = Given(u, c)
      BY <2>2, <2>4, <3>1 DEF Given, Due
    <3> QED BY <1>o, <3>1, <3>2, <3>3
  <2> QED BY <2>3, <2>4
<1>5. ASSUME NEW s \in Sections, NEW t,
             CreateSection(k, s, t) \/ UpdateSection(k, s, t) \/ DeleteSection(k, s)
      PROVE  Following(u, c)'
  <2>1. \/ Begins(k, "createSection", "findTaRoom", None, s, None, t, None, "NONE")
        \/ Begins(k, "updateSection", "write", None, s, None, t, section[s], "NONE")
        \/ Begins(k, "deleteSection", "delete", None, s, None, section[s], None, "NONE")
    BY <1>5, Starts
  <2>2. UNCHANGED <<professor, enrolled, followed, overridden>>
    BY <1>5 DEF CreateSection, UpdateSection, DeleteSection, history, records
  <2>3. ~About(task'[k], u, c)
    BY <1>0, <2>1 DEF Begins, About
  <2>4. Given(u, c)' = Given(u, c)
    BY <2>2 DEF Given, Due
  <2> QED BY <1>o, <2>2, <2>3, <2>4
<1>6. ASSUME NEW v \in Students, NEW b \in Classes \cup {None}, NEW s \in Sections \cup {None},
             NEW role \in Roles, CreateEnrolment(k, v, b, s, role)
      PROVE  Following(u, c)'
  <2>1. \/ b = None /\ s = None /\ task' = task
        \/ /\ b # None \/ s # None
           /\ Begins(k, "enrol", IF b # None THEN "classRoom" ELSE "sectionTa",
                     b, s, v, None, None, role)
    BY <1>6, Starts
  <2>2. /\ UNCHANGED <<class, professor, room>>
        /\ enrolled' = [enrolled EXCEPT ![v] = [c |-> b, s |-> s, role |-> role]]
        /\ enrolled[v].c = None /\ v \in Users /\ task[k] = Idle
        /\ IF b = None THEN UNCHANGED <<followed, overridden>>
                        ELSE Follow(v, b, <<b, v>> \in professor)
    BY <1>6 DEF CreateEnrolment, NotEnrolled, rooms, Users, Start
  <2>3. CASE b = c /\ v = u
    <3>1. Begins(k, "enrol", "classRoom", c, s, u, None, None, role)
      BY <1>0, <2>1, <2>3
    <3>2. About(task'[k], u, c) /\ \A r : Pending(task'[k], r) /\ task'[k].pc # "createRoom"
      BY <3>1 DEF Begins, About, Pending
    <3>3. enrolled'[u].c = c /\ enrolled'[u].role = role
      BY <1>0, <2>2, <2>3
    <3>4. Follow(u, c, <<c, u>> \in professor)
      BY <1>0, <2>2, <2>3
    <3>5. Gives(task'[k]) = Given(u, c)'
      BY <2>2, <3>1, <3>3, <3>4 DEF Begins, Gives, Given, Due, Follow
    <3> QED BY <1>0, <2>2, <3>2, <3>4, <3>5, AboutBegins
  <2>4. CASE ~(b = c /\ v = u)
    <3>1. /\ <<u, c>> \in followed
          /\ <<u, c>> \in overridden' <=> <<u, c>> \in overridden
      BY <1>a, <2>2, <2>4
    <3>2. ~About(task'[k], u, c)
      BY <1>0, <2>1, <2>2, <2>4, IdleOp DEF Begins, About
    <3>3. Given(u, c)' = Given(u, c)
      <4>1. CASE v = u
        <5>1. enrolled'[u].c = b
          BY <1>0, <2>2, <4>1
        <5> QED BY <1>0, <2>2, <2>4, <3>1, <4>1, <5>1 DEF Given, Due
      <4>2. CASE v # u
        <5>1. enrolled'[u] = enrolled[u]
          BY <1>0, <2>2, <4>2
        <5> QED BY <2>2, <3>1, <5>1 DEF Given, Due
      <4> QED BY <4>1, <4>2
    <3> QED BY <1>o, <3>1, <3>2, <3>3
  <2> QED BY <2>3, <2>4
<1>7. ASSUME NEW v \in Students, RemoveEnrolment(k, v)
      PROVE  Following(u, c)'
  <2> PICK b : b = enrolled[v].c
    OBVIOUS
  <2>1. Begins(k, "unenrol", IF enrolled[v].s # None THEN "sectionTa" ELSE "findRooms",
               b, enrolled[v].s, v, None, None, "NONE")
    BY <1>7, Starts
  <2>2. /\ UNCHANGED <<class, professor, room>>
        /\ enrolled' = [enrolled EXCEPT ![v] = NotEnrolled] /\ v \in Users
        /\ IF b = None THEN UNCHANGED <<followed, overridden>>
                        ELSE Follow(v, b, <<b, v>> \in professor)
    BY <1>7 DEF RemoveEnrolment, rooms, Users
  <2>3. CASE b = c /\ v = u
    <3>1. task'[k].op = "unenrol" /\ task'[k].pc \in {"sectionTa", "findRooms"}
          /\ task'[k].u = u /\ task'[k].c = c
      BY <2>1, <2>3 DEF Begins
    <3>2. About(task'[k], u, c) /\ \A r : Pending(task'[k], r) /\ task'[k].pc # "createRoom"
      BY <3>1 DEF About, Pending
    <3>3. enrolled'[u].c = None
      BY <1>0, <2>2, <2>3 DEF NotEnrolled
    <3>4. Follow(u, c, <<c, u>> \in professor)
      BY <1>0, <2>2, <2>3
    <3>5. Gives(task'[k]) = Given(u, c)'
      BY <1>0, <2>2, <3>1, <3>3, <3>4 DEF Gives, Given, Due, Follow
    <3> QED BY <1>0, <2>2, <3>2, <3>4, <3>5, AboutBegins
  <2>4. CASE ~(b = c /\ v = u)
    <3>1. /\ <<u, c>> \in followed
          /\ <<u, c>> \in overridden' <=> <<u, c>> \in overridden
      BY <1>a, <2>2, <2>4
    <3>2. ~About(task'[k], u, c)
      BY <2>1, <2>4 DEF Begins, About
    <3>3. Given(u, c)' = Given(u, c)
      <4>1. CASE v = u
        <5>1. enrolled'[u].c = None
          BY <1>0, <2>2, <4>1 DEF NotEnrolled
        <5> QED BY <1>0, <2>2, <2>4, <3>1, <4>1, <5>1 DEF Given, Due
      <4>2. CASE v # u
        <5>1. enrolled'[u] = enrolled[u]
          BY <1>0, <2>2, <4>2
        <5> QED BY <2>2, <3>1, <5>1 DEF Given, Due
      <4> QED BY <4>1, <4>2
    <3> QED BY <1>o, <3>1, <3>2, <3>3
  <2> QED BY <2>3, <2>4
<1> QED BY <1>1, <1>2, <1>3, <1>4, <1>5, <1>6, <1>7 DEF Arrive

----------------------------------------------------------------------------

RoomsFollow == Tracking /\ FollowInv

LEMMA InitFollow == Init => RoomsFollow
<1> SUFFICES ASSUME Init PROVE RoomsFollow
  OBVIOUS
<1>1. /\ \A k \in Tasks : task[k] = Idle
      /\ class = [c \in Classes |-> "new"] /\ room = [r \in Rooms |-> Unused] /\ followed = {}
  BY DEF Init
<1>2. ASSUME NEW c \in Classes PROVE RoomsOf(c) = {}
  BY <1>1, AcademicAssumption DEF RoomsOf, Unused
<1>3. ClassRoomsOK /\ FoundOK
  BY <1>1, <1>2, IdleOp DEF ClassRoomsOK, FoundOK
<1> QED BY <1>1, <1>3, InitTracking DEF RoomsFollow, FollowInv

LEMMA NextFollow == RoomsFollow /\ [Next]_vars => RoomsFollow'
<1> SUFFICES ASSUME RoomsFollow, [Next]_vars PROVE RoomsFollow'
  OBVIOUS
<1>0. /\ Shape /\ KindsOK /\ RoomsOK /\ ClassRoomsOK /\ FoundOK /\ Tracking'
      /\ \A u \in Users, c \in Classes : <<u, c>> \in followed => Following(u, c)
  BY NextTracking DEF RoomsFollow, Tracking, MembersInv, FollowInv
<1>1. ASSUME NEW k \in Tasks, Step(k) \/ Fail(k) PROVE FollowInv'
  <2>1. ClassRoomsOK' /\ FoundOK' /\ followed' \subseteq followed
    BY <1>0, <1>1, StepClassRooms, StepFound, RecordsEffect
  <2>2. ASSUME NEW u \in Users, NEW c \in Classes, <<u, c>> \in followed'
        PROVE  Following(u, c)'
    BY <1>0, <1>1, <2>1, <2>2, StepFollowing
  <2> QED BY <2>1, <2>2 DEF FollowInv
<1>2. ASSUME NEW k \in Tasks, Arrive(k) PROVE FollowInv'
  <2>1. ClassRoomsOK' /\ FoundOK'
    BY <1>0, <1>2, ArriveClassRooms, ArriveFound
  <2>2. ASSUME NEW u \in Users, NEW c \in Classes, <<u, c>> \in followed'
        PROVE  Following(u, c)'
    BY <1>0, <1>2, <2>2, ArriveFollowing
  <2> QED BY <2>1, <2>2 DEF FollowInv
<1>3. ASSUME UNCHANGED vars PROVE FollowInv'
  <2>1. UNCHANGED <<class, section, professor, enrolled, room, member, task, followed, overridden, strays>>
    BY <1>3 DEF vars, records, rooms, history
  <2>2. ClassRoomsOK' /\ FoundOK'
    BY <1>0, <2>1 DEF ClassRoomsOK, FoundOK, RoomsOf
  <2>3. ASSUME NEW u \in Users, NEW c \in Classes, <<u, c>> \in followed'
        PROVE  Following(u, c)'
    <3>1. Following(u, c)
      BY <1>0, <2>1, <2>3
    <3> QED BY <2>1, <3>1 DEF Following, RoomsOf, About, Pending, Gives, Given, Due
  <2> QED BY <2>2, <2>3 DEF FollowInv
<1> QED BY <1>0, <1>1, <1>2, <1>3 DEF Next, RoomsFollow

(* The rows of the class rooms are those that the last event about a user  *)
(* and a class gives, which is what the records call for unless the user   *)
(* both teaches and attends the class, where an enrolment demotes and a    *)
(* dismissal or an unenrolment expels them; the rows of the TAs' rooms are *)
(* those of their sections.  Both within the conditions of the properties: *)
(* for the pairs in followed, whose last event met a room and no other     *)
(* event about the two and did not fail, and for the users outside strays. *)
(* By FollowInv a row that differs is one that a handler in flight is yet  *)
(* to write, and every handler about it writes what the last event gives.  *)
THEOREM MembersDoFollow == Spec => []MembersFollow
<1>1. ASSUME RoomsFollow PROVE ClassMembersFollow
  BY <1>1 DEF RoomsFollow, FollowInv, ClassMembersFollow, Following, About
<1>2. ASSUME RoomsFollow PROVE TaRoomMembersAreEnrolled
  BY <1>2, TrackedAreEnrolled DEF RoomsFollow
<1> QED BY <1>1, <1>2, InitFollow, NextFollow, PTL DEF Spec, MembersFollow
=============================================================================
