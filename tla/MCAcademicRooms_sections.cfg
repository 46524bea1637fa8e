\* Two sections and two TAs, changes of TA, and a student.  Two rooms for each TA
\* are the most there can be.
SPECIFICATION Spec
CONSTANTS
    c1 = c1 sec1 = sec1 sec2 = sec2 stu1 = stu1 prof1 = prof1
    ta1 = ta1 ta2 = ta2 k1 = k1 k2 = k2
    rm1 = rm1 rm2 = rm2 rm3 = rm3 rm4 = rm4
    None = None
    Classes = {}
    Sections = {sec1, sec2}
    Students = {stu1}
    Professors = {}
    TAs = {ta1, ta2}
    Roles = {"STUDENT"}
    Rooms = {rm1, rm2, rm3, rm4}
    Tasks = {k1, k2}
    Failing = {}
    Ops = {"createSection", "updateSection", "deleteSection", "enrol", "unenrol"}
SYMMETRY Symmetry
INVARIANTS TaRoomsBounded TaRoomMembersAreEnrolled
