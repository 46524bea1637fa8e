\* An author and an admin with three requests at a time, a restart and failures.
SPECIFICATION Spec
CONSTANTS
    u1 = u1 u2 = u2 p1 = p1 p2 = p2 f1 = f1 f2 = f2 f3 = f3 r1 = r1 r2 = r2 r3 = r3 d1 = d1
    None = None
    Users = {u1, u2}
    Admins = {u2}
    Posts = {p1, p2}
    Files = {f1, f2, f3}
    Requests = {r1, r2, r3}
    Department <- MCDepartment
    Context <- MCContext
    Type <- MCType
    StoredPosts = {p1}
    StoredFiles = {f1}
    Owner <- MCOwner
    MaxFilesPerPost = 1
    MaxUploads = 1
    Asks = {"create", "edit", "update", "pin", "delete", "upload", "file", "associate", "remove", "deleteFile", "bulkDelete", "bulkMove"}
    Failing = {"row", "unrow", "unlink"}
    MaxCrashes = 1
SYMMETRY Symmetry
INVARIANTS TypeOK DiskMatchesRows LimitOverrunsOverlap PinFollowsToggles TakenFilesWereFree
CHECK_DEADLOCK FALSE
