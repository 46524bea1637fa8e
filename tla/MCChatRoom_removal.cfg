\* An admin invites a user, who may become an admin too; both send, with and
\* without attachments, and remove.  The supply of message ids ends, so sends stop.
SPECIFICATION Spec
CONSTANTS
    b1 = b1 b2 = b2 u1 = u1 u2 = u2
    m1 = m1 m2 = m2 m3 = m3 r1 = r1 r2 = r2
    None = None
    Users = {u1, u2}
    Messages = {m1, m2}
    Requests = {r1, r2}
    SysAdmins = {}
    Enrolled = {u1, u2}
    InitRole <- MCAdminOnly
    Posted = {}
    Author = u1
    Ops = {"send", "invite", "remove"}
    Bodies = {b1}
    Files = {FALSE, TRUE}
    ReplyTo = {}
    MaxPins = 1
    SlowTicks = 2
    InitSlow = {FALSE}
    DbFails = FALSE
    MaxClock = 1
SYMMETRY MessageSymmetry
INVARIANTS RemovedTail
CHECK_DEADLOCK FALSE
