\* Two requests of every kind at once over one user, two departments and a course.
SPECIFICATION Spec
CONSTANTS
    u1 = u1 u2 = u2 d1 = d1 d2 = d2 c1 = c1 r1 = r1 r2 = r2
    None = None
    Users = {u1}
    Departments = {d1, d2}
    Courses = {c1}
    Requests = {r1, r2}
    Asks = {"login", "logout", "change-password", "deactivate", "delete", "reset-password",
            "activate", "update", "create", "transition", "departments", "course"}
    Updates <- MCUpdates
    MaxSessions = 2
    MaxOps = 4
    Failing = {"user", "sessions"}
SYMMETRY Symmetry
CHECK_DEADLOCK FALSE
INVARIANTS TypeOK RevokedStayEnded DefaultMustChange
PROPERTIES TransitionLeavesGE
