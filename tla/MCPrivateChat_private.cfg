\* One user with two sockets who writes to another, deletes, and pages in both
\* directions; the other user has a socket that is refused.
SPECIFICATION Spec
CONSTANTS
    u1 = u1 u2 = u2 s1 = s1 s2 = s2 s3 = s3 r1 = r1 r2 = r2 m1 = m1 m2 = m2
    h1 = h1 h2 = h2
    None = None
    Users = {u1, u2}
    Sockets = {s1, s2, s3}
    Rooms = {r1, r2}
    Messages = {m1, m2}
    Handlers = {h1, h2}
    Owner <- MCOwner
    Identified = {s1, s2}
    Readers = {u1}
    Directions = {"before", "after"}
    Limit = 1
    MaxClock = 2
    Asks = {"send", "page", "delete"}
    Failing = {"page"}
SYMMETRY Symmetry
INVARIANTS TypeOK OneSocketPerUser PrivateRoomOnce PagesAreTheHistory
CHECK_DEADLOCK FALSE
