\* A user who changes preferences and mutes while two notifications and a check of
\* the mute are under way, without failures.
SPECIFICATION Spec
CONSTANTS
    u1 = u1 u2 = u2 t1 = t1 t2 = t2 j1 = j1 j2 = j2 j3 = j3 c1 = c1
    None = None
    Users = {u1}
    Tokens = {t1}
    Jobs = {j1, j2}
    Chats = {c1}
    ChatType <- MCChatType
    Workers = 1
    MaxStalls = 1
    Kinds = {"chat", "check"}
    Asks = {"device-token", "device-token/remove", "preferences", "chat-settings", "pause"}
    Preferences <- MCPreferences
    Day = 3
    MaxClock = 1
    MaxCrashes = 1
    MaxBatches = 1
    Configured = {TRUE, FALSE}
    Failing = {}
SYMMETRY Symmetry
INVARIANTS OptOutTail MuteLasts QuietHoursHold
