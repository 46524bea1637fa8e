\* Pins, edits and deletions, concurrent and failing, of messages already in
\* the room, whose settings change.  MaxPins stands for the code's 5.
SPECIFICATION Spec
CONSTANTS
    b1 = b1 b2 = b2 u1 = u1 u2 = u2
    m1 = m1 m2 = m2 m3 = m3 r1 = r1 r2 = r2
    None = None
    Users = {u1, u2}
    Messages = {m1, m2, m3}
    Requests = {r1, r2}
    SysAdmins = {}
    Enrolled = {u1, u2}
    InitRole <- MCInitRole
    Posted = {m1, m2, m3}
    Author = u2
    Ops = {"pin", "unpin", "edit", "delete", "adminDelete", "toggle", "slow"}
    Bodies = {b1}
    Files = {FALSE}
    ReplyTo = {}
    MaxPins = 1
    SlowTicks = 2
    InitSlow = {FALSE}
    DbFails = TRUE
    MaxClock = 0
SYMMETRY MessageSymmetry
INVARIANTS TypeOK PinsBounded
PROPERTIES LedgerSpec
