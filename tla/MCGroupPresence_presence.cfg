\* A user with two sockets and one with a single one, in two rooms, join, leave, close
\* and are removed while a message is broadcast and pushed.  MaxInbox is the messages
\* in their guards at once.
SPECIFICATION Spec
CONSTANTS
    u1 = u1 u2 = u2 s1 = s1 s2 = s2 s3 = s3 rA = rA rB = rB h1 = h1
    None = None
    Users = {u1, u2}
    Rooms = {rA, rB}
    Sockets = {s1, s2, s3}
    Owner <- MCOwner
    Members <- MCMembers
    Access <- MCAccess
    Sends = {h1}
    Removals <- MCRemovals
    MaxInbox = 1
SYMMETRY SocketSymmetry
INVARIANTS TypeOK ViewersAreInRoom
PROPERTIES UnpushedHeardOrJoined DisconnectForgets
