\* Sends and replies of an admin and a member in a room with slow mode, with mutes
\* and unmutes and fair handlers: three messages in one interval, two handlers.  The
\* supply of message ids ends, so sends stop.
SPECIFICATION FairSpec
CONSTANTS
    b1 = b1 b2 = b2 u1 = u1 u2 = u2
    m1 = m1 m2 = m2 m3 = m3 r1 = r1 r2 = r2
    None = None
    Users = {u1, u2}
    Messages = {m1, m2, m3}
    Requests = {r1, r2}
    SysAdmins = {}
    Enrolled = {u1, u2}
    InitRole <- MCInitRole
    Posted = {}
    Author = u1
    Ops = {"send", "mute", "unmute"}
    Bodies = {b1}
    Files = {FALSE}
    ReplyTo = {m1}
    MaxPins = 1
    SlowTicks = 2
    InitSlow = {TRUE}
    DbFails = FALSE
    MaxClock = 1
INVARIANTS SlowModeBurst MutedTail
PROPERTIES StoredTextIsBroadcast
CHECK_DEADLOCK FALSE
