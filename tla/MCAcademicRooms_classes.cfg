\* A class, its professor, who also enrols in it, and a section; every call may
\* fail.  The class room and two rooms of the TA are the most there can be.
SPECIFICATION Spec
CONSTANTS
    c1 = c1 sec1 = sec1 sec2 = sec2 stu1 = stu1 prof1 = prof1
    ta1 = ta1 ta2 = ta2 k1 = k1 k2 = k2
    rm1 = rm1 rm2 = rm2 rm3 = rm3 rm4 = rm4
    None = None
    Classes = {c1}
    Sections = {sec1}
    Students = {prof1}
    Professors = {prof1}
    TAs = {ta1}
    Roles = {"STUDENT", "PROFESSOR"}
    Rooms = {rm1, rm2, rm3}
    Tasks = {k1, k2}
    Failing <- AllOps
    Ops = {"createClass", "deleteClass", "createSection", "assign", "dismiss", "enrol", "unenrol"}
SYMMETRY Symmetry
INVARIANTS TypeOK MembersFollow
