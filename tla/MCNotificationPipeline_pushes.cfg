\* Jobs and calls of every kind, with restarts and failures of every call, for a
\* user who registers and removes two tokens.
SPECIFICATION FairSpec
CONSTANTS
    u1 = u1 u2 = u2 t1 = t1 t2 = t2 j1 = j1 j2 = j2 j3 = j3 c1 = c1
    None = None
    Users = {u1}
    Tokens = {t1, t2}
    Jobs = {j1, j2}
    Chats = {c1}
    ChatType <- MCChatType
    Workers = 1
    MaxStalls = 1
    Kinds = {"chat", "push", "bulk", "post", "join", "leave"}
    Asks = {"device-token"}
    Preferences <- MCPreferences
    Day = 3
    MaxClock = 0
    MaxCrashes = 1
    MaxBatches = 1
    Configured = {TRUE}
    Failing = {"mute", "add", "push", "save", "inactive", "batch", "upsert", "subscribe", "unsubscribe"}
INVARIANTS TypeOK PushedOnce InactiveIsInvalid SubscribedIffJoined
PROPERTIES JobsSettle
CHECK_DEADLOCK FALSE
