------------------------ MODULE NotificationPipeline ------------------------
(***************************************************************************)
(* Notifications on their way to the users' devices: the jobs of the Bull   *)
(* queue, the processors that run them, the settings of the users and the   *)
(* device tokens they meet, and Firebase Cloud Messaging (FCM).             *)
(*                                                                         *)
(* A job is a record.  While it runs, its pc names the database, Redis or   *)
(* FCM call it makes next, and one action is that call and the code up to   *)
(* the next one:                                                           *)
(*                                                                         *)
(*   chat         prefs -> mute -> [unmute] -> token -> push -> save        *)
(*   push, post   prefs -> token -> [push -> save]                          *)
(*   bulk         batch, once for each batch                                *)
(*   check        mute -> [unmute]                                          *)
(*   join, leave  token -> subscribe, unsubscribe                           *)
(*                                                                         *)
(* and a push with a dead token goes to inactive instead of save.  A post   *)
(* is the direct call of the post notifications when the queue is not       *)
(* reachable, a check the HTTP request that asks whether a chat is muted, a  *)
(* join and a leave the events of chat rooms that subscribe a device to the  *)
(* topic of the room: they run outside the queue, and a restart loses them. *)
(*                                                                         *)
(* The server may stop at any moment.  Bull keeps its jobs in Redis: it      *)
(* runs a job again that was active when the server stopped, MaxStalls      *)
(* times at most.                                                          *)
(***************************************************************************)
EXTENDS Integers, FiniteSets

CONSTANTS
    Users, Tokens,
    Jobs,           \* jobs and calls, in the order of no particular queue
    Chats,
    ChatType,       \* the type of each chat, "private" or "group"
    Workers,        \* how many jobs Bull runs at once
    MaxStalls,      \* Bull's maxStalledCount
    Kinds,          \* the kinds of jobs and calls there are
    Asks,           \* the requests of the users there are, as the controller names them
    Preferences,    \* the preferences a user may have
    Day,            \* the minutes of a day
    MaxClock,       \* bound on the clock
    MaxCrashes,     \* bound on the restarts
    MaxBatches,     \* bound on the batches of a bulk job
    Configured,     \* may FCM be configured, TRUE, or not, FALSE
    Failing,        \* the calls that may throw
    None

Types == {"PRIVATE_MESSAGE", "GROUP_MESSAGE"}
Steps == {"prefs", "mute", "unmute", "token", "push", "save", "inactive", "batch",
          "subscribe", "unsubscribe"}
TopicKinds == {"join", "leave"}
AllKinds == {"chat", "push", "bulk", "post", "check"} \cup TopicKinds

ASSUME PipelineAssumption ==
    /\ ChatType \in [Chats -> {"private", "group"}]
    /\ Workers \in Nat \ {0} /\ MaxStalls \in Nat /\ MaxCrashes \in Nat
    /\ Day \in Nat \ {0} /\ MaxClock \in Nat /\ MaxBatches \in Nat \ {0}
    /\ IsFiniteSet(Jobs) /\ Failing \subseteq Steps \cup {"add", "upsert"}
    /\ None \notin Tokens \cup Users \cup Chats \cup Nat /\ None \notin Steps \cup AllKinds
    /\ Configured \in SUBSET BOOLEAN \ {{}}
    /\ Preferences \subseteq [on: BOOLEAN, types: SUBSET Types,
                              from: (0 .. Day - 1) \cup {None}, to: (0 .. Day - 1) \cup {None}]

VARIABLES
    job,        \* the jobs and calls
    paused,     \* the queue hands out no jobs
    device,     \* the row of each user in device_tokens, token None without a row
    register,   \* the token that a registration has validated and not yet stored
    valid,      \* the tokens FCM still knows
    fcm,        \* is FCM configured
    prefs,      \* notification_preferences
    mute,       \* chat_notification_settings
    subs,       \* the tokens FCM has subscribed to the topic of a chat
    now, crashes,
    (* What the properties compare the state with: *)
    wish,       \* the mute setting each user asked for last, for each chat
    raced,      \* was a job about to clear an expired mute when it was asked for
    late,       \* pushes about a chat that met a user who does not want them
    overtaken,  \* was a push with an older token under way when a token was stored
    joined,     \* the chats each user is in, by the last event
    loose       \* users and chats whose last event failed, met another, or came before
                \* the user's device changed, or whose device was another user's when
                \* that user's event read it

queue == <<job, paused>>
devices == <<device, register, valid, fcm, overtaken>>
settings == <<prefs, mute, wish, raced>>
bounds == <<now, crashes>>
topics == <<subs, joined, loose>>
vars == <<job, paused, device, register, valid, fcm, prefs, mute, now, crashes,
          wish, raced, late, overtaken, subs, joined, loose>>

Setting == [muted: BOOLEAN, until: (0 .. MaxClock) \cup {None}]
Unmuted == [muted |-> FALSE, until |-> None]

(* A job or call as it is added. *)
New(state, kind, u, c, n, pc) ==
    [state |-> state, kind |-> kind, user |-> u, chat |-> c, stalls |-> 0, batches |-> n,
     batch |-> 0, pc |-> pc, prefs |-> None, token |-> None, at |-> None, id |-> FALSE,
     pushes |-> 0, sent |-> 0]
NoJob == New("none", None, None, None, 0, None)

(* What getNotificationPreferences returns for a user without a row. *)
DefaultPreferences == [on |-> TRUE, types |-> Types, from |-> None, to |-> None]

Job == [state: {"none", "delayed", "waiting", "active", "stalled", "call",
                "completed", "failed", "cleared", "lost"},
        kind: AllKinds \cup {None},
        user: Users \cup {None}, chat: Chats \cup {None}, stalls: 0 .. MaxStalls + 1,
        batches: 0 .. MaxBatches, batch: 0 .. MaxBatches, pc: Steps \cup {None},
        prefs: Preferences \cup {DefaultPreferences, None},
        token: Tokens \cup {None}, at: (0 .. Day - 1) \cup {None}, id: BOOLEAN,
        pushes: Nat, sent: Nat]

(* The notification types there is a template for. *)
Templates == Types \cup {"ASSIGNMENT_DEADLINE", "POST_CREATED", "POST_UPDATED", "POST_PINNED",
                         "POST_FILE_UPLOADED", "POST_URGENT", "POST_DEADLINE_REMINDER"}

(* The type a job sends under: the processors of push and bulk jobs name SYSTEM_ALERT. *)
TypeOf(j) == CASE job[j].kind = "chat" /\ ChatType[job[j].chat] = "private" -> "PRIVATE_MESSAGE"
               [] job[j].kind = "chat" /\ ChatType[job[j].chat] = "group" -> "GROUP_MESSAGE"
               [] job[j].kind = "post" -> "POST_CREATED"
               [] OTHER -> "SYSTEM_ALERT"

(* shouldSendNotification, and the two type checks of sendChatNotification.  The
   columns the other types ask for do not exist, so they default to true. *)
ShouldSend(type, p) == p.on /\ (type \in Types => type \in p.types)

Expired(s) == s.muted /\ s.until # None /\ s.until < now
Muted(s) == s.muted /\ ~Expired(s)

(* A mutant: the comparison of a range within one day, used for every range. *)
InQuietHoursOneDay(p, m) == p.from # None /\ p.to # None /\ m >= p.from /\ m <= p.to

InQuietHours(p, m) ==
    /\ p.from # None /\ p.to # None
    /\ IF p.from > p.to THEN m >= p.from \/ m <= p.to ELSE m >= p.from /\ m <= p.to

Running(j) == job[j].state \in {"active", "call"}
At(j, pc) == Running(j) /\ job[j].pc = pc
Active == {j \in Jobs : job[j].state = "active"}

(* Where a job of each kind begins. *)
FirstStep(kind) == CASE kind = "bulk" -> "batch" [] kind = "check" -> "mute"
                     [] kind \in TopicKinds -> "token" [] OTHER -> "prefs"

(* The job ends, and what it knew while it ran is gone. *)
Over(q, state) ==
    [state |-> state, kind |-> q.kind, user |-> q.user, chat |-> q.chat, stalls |-> q.stalls,
     batches |-> q.batches, batch |-> 0, pc |-> None, prefs |-> None, token |-> None,
     at |-> None, id |-> FALSE, pushes |-> q.pushes, sent |-> q.sent]
Finished(q) == Over(q, "completed")
End(j) == job' = [job EXCEPT ![j] = Finished(@)]
Go(j, pc) == job' = [job EXCEPT ![j].pc = pc]

Init ==
    /\ job = [j \in Jobs |-> NoJob] /\ paused = FALSE
    /\ device = [u \in Users |-> [token |-> None, active |-> FALSE]]
    /\ register = [u \in Users |-> None]
    /\ valid = Tokens /\ fcm \in Configured
    /\ prefs = [u \in Users |-> DefaultPreferences]
    /\ mute = [u \in Users |-> [c \in Chats |-> Unmuted]]
    /\ now = 0 /\ crashes = 0
    /\ wish = mute /\ raced = [u \in Users |-> [c \in Chats |-> FALSE]]
    /\ late = [u \in Users |-> [c \in Chats |-> 0]]
    /\ overtaken = [u \in Users |-> FALSE]
    /\ subs = {} /\ joined = {} /\ loose = {}

-----------------------------------------------------------------------------
(* The queue. *)

(* notificationQueue.add: chat jobs are ready at once, the others after a delay.
   When Redis does not answer, add throws and there is no job. *)
QueueChat(j, u, c) ==
    /\ job[j] = NoJob /\ "chat" \in Kinds
    /\ job' = [job EXCEPT ![j] = New("waiting", "chat", u, c, 0, None)]
    /\ UNCHANGED <<paused, devices, settings, bounds, late, topics>>

QueuePush(j, u) ==
    /\ job[j] = NoJob /\ "push" \in Kinds
    /\ job' = [job EXCEPT ![j] = New("delayed", "push", u, None, 0, None)]
    /\ UNCHANGED <<paused, devices, settings, bounds, late, topics>>

QueueBulk(j) ==
    /\ job[j] = NoJob /\ "bulk" \in Kinds
    /\ \E n \in 1 .. MaxBatches :
         job' = [job EXCEPT ![j] = New("delayed", "bulk", None, None, n, None)]
    /\ UNCHANGED <<paused, devices, settings, bounds, late, topics>>

(* sendNotificationsDirectly, when adding the bulk job threw. *)
CallPost(j, u) ==
    /\ job[j] = NoJob /\ "post" \in Kinds /\ "add" \in Failing
    /\ job' = [job EXCEPT ![j] = New("call", "post", u, None, 0, FirstStep("post"))]
    /\ UNCHANGED <<paused, devices, settings, bounds, late, topics>>

(* GET chat-settings/:chatId/:chatType/muted *)
CallCheck(j, u, c) ==
    /\ job[j] = NoJob /\ "check" \in Kinds
    /\ job' = [job EXCEPT ![j] = New("call", "check", u, c, 0, FirstStep("check"))]
    /\ UNCHANGED <<paused, devices, settings, bounds, late, topics>>

(* The events about a user: user.joined.group, user.enrolled.class and, for each member,
   room.created; or user.left.group, user.unenrolled.class and room.deleted. *)
TopicCalls(u, c) == {j \in Jobs : job[j].state = "call" /\ job[j].kind \in TopicKinds
                                  /\ job[j].user = u /\ job[j].chat = c}

CallTopic(j, u, c, kind) ==
    /\ job[j] = NoJob /\ kind \in Kinds /\ (kind = "leave" => <<u, c>> \in joined)
    /\ job' = [job EXCEPT ![j] = New("call", kind, u, c, 0, FirstStep(kind))]
    /\ joined' = IF kind = "join" THEN joined \cup {<<u, c>>} ELSE joined \ {<<u, c>>}
    /\ loose' = IF TopicCalls(u, c) = {} THEN loose \ {<<u, c>>} ELSE loose \cup {<<u, c>>}
    /\ UNCHANGED <<paused, devices, settings, bounds, late, subs>>

(* Bull: the delay of a job is over. *)
Promote(j) ==
    /\ job[j].state = "delayed"
    /\ job' = [job EXCEPT ![j].state = "waiting"]
    /\ UNCHANGED <<paused, devices, settings, bounds, late, topics>>

(* Bull: a free worker takes a job.  Any worker takes any kind of job: Bull adds up
   the concurrency of the named processors. *)
Take(j) ==
    /\ job[j].state = "waiting" /\ ~paused /\ Cardinality(Active) < Workers
    /\ job' = [job EXCEPT ![j].state = "active", ![j].pc = FirstStep(job[j].kind)]
    /\ UNCHANGED <<paused, devices, settings, bounds, late, topics>>

(* Bull: a job that was active when the server stopped is run again, or failed. *)
Stalled(j) ==
    /\ job[j].state = "stalled"
    /\ job' = [job EXCEPT ![j].stalls = @ + 1,
                          ![j].state = IF job[j].stalls < MaxStalls THEN "waiting" ELSE "failed"]
    /\ UNCHANGED <<paused, devices, settings, bounds, late, topics>>

ClearFailedJobs ==
    /\ \E j \in Jobs : job[j].state = "failed"
    /\ job' = [j \in Jobs |-> IF job[j].state = "failed"
                              THEN [job[j] EXCEPT !.state = "cleared"] ELSE job[j]]
    /\ UNCHANGED <<paused, devices, settings, bounds, late, topics>>

PauseQueue ==
    /\ "pause" \in Asks /\ ~paused /\ paused' = TRUE
    /\ UNCHANGED <<job, devices, settings, bounds, late, topics>>
ResumeQueue == paused /\ paused' = FALSE /\ UNCHANGED <<job, devices, settings, bounds, late, topics>>

-----------------------------------------------------------------------------
(* The processors. *)

(* What follows the answer that the chat is not muted: a check reports it, a
   notification goes on unless it is quiet now. *)
NotMuted(q) ==
    IF q.kind = "check" \/ InQuietHours(q.prefs, now % Day) THEN Finished(q)
    ELSE [q EXCEPT !.pc = "token", !.at = now % Day]

(* A mutant: the worker keeps the preferences it saw first. *)
ReadPreferencesDefault(j) ==
    /\ At(j, "prefs")
    /\ job' = [job EXCEPT ![j].prefs = DefaultPreferences,
                          ![j].pc = IF job[j].kind = "chat" THEN "mute" ELSE "token"]
    /\ UNCHANGED <<paused, devices, settings, bounds, late, topics>>

(* The preferences are read once, and used until the push. *)
ReadPreferences(j) ==
    /\ At(j, "prefs")
    /\ LET p == prefs[job[j].user] IN
         IF ~ShouldSend(TypeOf(j), p) THEN End(j)
         ELSE job' = [job EXCEPT ![j].prefs = p,
                                 ![j].pc = IF job[j].kind = "chat" THEN "mute" ELSE "token"]
    /\ UNCHANGED <<paused, devices, settings, bounds, late, topics>>

(* A mutant: a mute with an end counts as over. *)
ReadMuteTimed(j) ==
    /\ At(j, "mute")
    /\ LET s == mute[job[j].user][job[j].chat] IN
         \/ s.muted /\ s.until # None /\ Go(j, "unmute")
         \/ s.muted /\ s.until = None /\ End(j)
         \/ ~s.muted /\ job' = [job EXCEPT ![j] = NotMuted(@)]
    /\ UNCHANGED <<paused, devices, settings, bounds, late, topics>>

ReadMute(j) ==
    /\ At(j, "mute")
    /\ LET s == mute[job[j].user][job[j].chat] IN
         \/ Expired(s) /\ Go(j, "unmute")
         \/ Muted(s) /\ End(j)
         \/ ~s.muted /\ job' = [job EXCEPT ![j] = NotMuted(@)]
    /\ UNCHANGED <<paused, devices, settings, bounds, late, topics>>

ClearExpiredMute(j) ==
    /\ At(j, "unmute")
    /\ mute' = [mute EXCEPT ![job[j].user][job[j].chat] = Unmuted]
    /\ job' = [job EXCEPT ![j] = NotMuted(@)]
    /\ UNCHANGED <<paused, devices, prefs, wish, raced, bounds, late, topics>>

(* What comes after the token was found; there is nothing to send without a template. *)
AfterToken(j) == CASE job[j].kind = "join" -> "subscribe"
                   [] job[j].kind = "leave" -> "unsubscribe"
                   [] TypeOf(j) \in Templates -> "push"
                   [] OTHER -> None

ReadToken(j) ==
    /\ At(j, "token")
    /\ LET d == device[job[j].user] IN
         IF d.token = None \/ ~d.active \/ AfterToken(j) = None THEN End(j)
         ELSE job' = [job EXCEPT ![j].token = d.token, ![j].pc = AfterToken(j)]
    /\ UNCHANGED <<paused, devices, settings, bounds, late, topics>>

(* Does the user not want this job's push now, by the last settings they made? *)
Unwanted(u, c) ==
    \/ ~ShouldSend(IF ChatType[c] = "private" THEN "PRIVATE_MESSAGE" ELSE "GROUP_MESSAGE", prefs[u])
    \/ Muted(wish[u][c]) /\ ~raced[u][c]

(* A mutant: any error of FCM deactivates the token. *)
PushInactive(j) ==
    /\ At(j, "push")
    /\ LET q == job[j] IN
         \/ /\ fcm /\ q.token \in valid
            /\ job' = [job EXCEPT ![j].pc = "save", ![j].id = TRUE, ![j].pushes = @ + 1]
         \/ fcm /\ Go(j, "inactive")
    /\ UNCHANGED <<paused, devices, settings, bounds, late, topics>>

(* FCM takes the message, or answers that the token is not registered, or fails for
   another reason; without configuration nothing is sent and sendMessage returns null. *)
Push(j) ==
    /\ At(j, "push")
    /\ LET q == job[j] IN
         \/ /\ fcm /\ q.token \in valid
            /\ job' = [job EXCEPT ![j].pc = "save", ![j].id = TRUE, ![j].pushes = @ + 1]
            /\ IF q.kind = "chat" /\ Unwanted(q.user, q.chat)
               THEN late' = [late EXCEPT ![q.user][q.chat] = @ + 1] ELSE UNCHANGED late
         \/ fcm /\ q.token \notin valid /\ Go(j, "inactive") /\ UNCHANGED late
         \/ fcm /\ "push" \in Failing /\ End(j) /\ UNCHANGED late
         \/ ~fcm /\ Go(j, "save") /\ UNCHANGED late
    /\ UNCHANGED <<paused, devices, settings, bounds, topics>>

(* A mutant: sendChatNotification lets the error of the save out, and Bull runs the job again. *)
CallFailsRetry(j) ==
    /\ Running(j) /\ job[j].pc \in Failing \ {"push"}
    /\ job' = [job EXCEPT ![j] = IF @.pc = "save" /\ @.state = "active" THEN Over(@, "waiting")
                                 ELSE IF @.pc = "batch" THEN Over(@, "failed") ELSE Finished(@)]
    /\ UNCHANGED <<paused, devices, settings, bounds, late, topics>>

(* The row is SENT when FCM returned an id, FAILED otherwise. *)
Id(q) == IF q.id THEN 1 ELSE 0

SaveNotification(j) ==
    /\ At(j, "save")
    /\ LET q == job[j] IN job' = [job EXCEPT ![j] = Finished([q EXCEPT !.sent = @ + Id(q)])]
    /\ UNCHANGED <<paused, devices, settings, bounds, late, topics>>

(* The user's device is no longer the one the last events were about. *)
Loosen(u) == loose' = loose \cup ({u} \X Chats)

MarkTokenInactive(j) ==
    /\ At(j, "inactive")
    /\ End(j)
    /\ device' = [device EXCEPT ![job[j].user].active = FALSE]
    /\ Loosen(job[j].user)
    /\ UNCHANGED <<paused, register, valid, fcm, overtaken, settings, bounds, late, subs, joined>>

(* A mutant: every topic call subscribes. *)
UpdateTopicAlways(j) ==
    /\ Running(j) /\ job[j].pc \in {"subscribe", "unsubscribe"}
    /\ End(j)
    /\ IF fcm /\ job[j].token \in valid
       THEN subs' = subs \cup {<<job[j].token, job[j].chat>>} /\ UNCHANGED loose
       ELSE loose' = loose \cup {<<job[j].user, job[j].chat>>} /\ UNCHANGED subs
    /\ UNCHANGED <<paused, devices, settings, bounds, late, joined>>

(* FCM counts a token it does not know as a failure and goes on.  The token the call has
   read may be another user's device by now. *)
UpdateTopic(j) ==
    /\ Running(j) /\ job[j].pc \in {"subscribe", "unsubscribe"}
    /\ End(j)
    /\ LET q == job[j]  s == <<q.token, q.chat>> IN
         IF fcm /\ q.token \in valid
         THEN /\ subs' = IF q.pc = "subscribe" THEN subs \cup {s} ELSE subs \ {s}
              /\ loose' = loose \cup ({v \in Users \ {q.user} : device[v].token = q.token}
                                       \X {q.chat})
         ELSE loose' = loose \cup {<<q.user, q.chat>>} /\ UNCHANGED subs
    /\ UNCHANGED <<paused, devices, settings, bounds, late, joined>>

(* A mutant: one batch too many. *)
ProcessBatchPast(j) ==
    /\ At(j, "batch")
    /\ IF job[j].batch <= job[j].batches THEN job' = [job EXCEPT ![j].batch = @ + 1] ELSE End(j)
    /\ UNCHANGED <<paused, devices, settings, bounds, late, topics>>

(* A mutant: the loop over the batches begins again where it should end. *)
ProcessBatchStuck(j) ==
    /\ At(j, "batch")
    /\ job' = [job EXCEPT ![j].batch = IF @ < job[j].batches THEN @ + 1 ELSE 0]
    /\ UNCHANGED <<paused, devices, settings, bounds, late, topics>>

(* A batch of a bulk job: its sends read preferences and tokens, and find no template
   for SYSTEM_ALERT. *)
ProcessBatch(j) ==
    /\ At(j, "batch")
    /\ IF job[j].batch < job[j].batches THEN job' = [job EXCEPT ![j].batch = @ + 1] ELSE End(j)
    /\ UNCHANGED <<paused, devices, settings, bounds, late, topics>>

(* A call throws.  sendChatNotification, sendNotification, saveNotification and
   markTokenAsInactive log it and return, so the job is completed; isChatMuted
   returns false; only job.progress fails the job, whose one attempt it was. *)
CallFails(j) ==
    /\ Running(j) /\ job[j].pc \in Failing \ {"push"}
    /\ job' = [job EXCEPT ![j] = CASE @.pc = "batch" -> Over(@, "failed")
                                    [] @.pc \in {"mute", "unmute"} -> NotMuted(@)
                                    [] OTHER -> Finished(@)]
    /\ loose' = IF job[j].kind \in TopicKinds THEN loose \cup {<<job[j].user, job[j].chat>>}
                ELSE loose
    /\ UNCHANGED <<paused, devices, settings, bounds, late, subs, joined>>

-----------------------------------------------------------------------------
(* The users, through the controller. *)

(* FCM takes a dry run; with any other answer registerDeviceToken throws. *)
ValidateToken(u, t) ==
    /\ "device-token" \in Asks /\ register[u] = None /\ fcm /\ t \in valid
    /\ register' = [register EXCEPT ![u] = t]
    /\ UNCHANGED <<queue, device, valid, fcm, overtaken, settings, bounds, late, topics>>

(* The upsert, by user; it throws when the token is another user's. *)
StoreToken(u) ==
    /\ register[u] # None
    /\ register' = [register EXCEPT ![u] = None]
    /\ \/ /\ \A v \in Users \ {u} : device[v].token # register[u]
          /\ device' = [device EXCEPT ![u] = [token |-> register[u], active |-> TRUE]]
          /\ overtaken' = [overtaken EXCEPT ![u] =
               \E j \in Jobs : /\ At(j, "push") \/ At(j, "inactive")
                               /\ job[j].user = u /\ job[j].token # register[u]]
          /\ Loosen(u)
       \/ /\ "upsert" \in Failing \/ \E v \in Users \ {u} : device[v].token = register[u]
          /\ UNCHANGED <<device, overtaken, loose>>
    /\ UNCHANGED <<queue, valid, fcm, settings, bounds, late, subs, joined>>

RemoveDeviceToken(u) ==
    /\ "device-token/remove" \in Asks /\ device[u].token # None
    /\ device' = [device EXCEPT ![u] = [token |-> None, active |-> FALSE]]
    /\ Loosen(u)
    /\ UNCHANGED <<queue, register, valid, fcm, overtaken, settings, bounds, late, subs, joined>>

(* The user's wishes change: whoever is pushed from now on is pushed late anew. *)
Reconsidered(u) == late' = [late EXCEPT ![u] = [c \in Chats |-> 0]]

UpdatePreferences(u) ==
    /\ "preferences" \in Asks
    /\ \E p \in Preferences : prefs' = [prefs EXCEPT ![u] = p]
    /\ Reconsidered(u)
    /\ UNCHANGED <<queue, devices, mute, wish, raced, bounds, topics>>

UpdateChatSetting(u, c) ==
    /\ "chat-settings" \in Asks
    /\ \E s \in Setting :
         /\ s.muted \/ s.until = None
         /\ mute' = [mute EXCEPT ![u][c] = s]
         /\ wish' = [wish EXCEPT ![u][c] = s]
    /\ raced' = [raced EXCEPT ![u][c] =
         \E j \in Jobs : At(j, "unmute") /\ job[j].user = u /\ job[j].chat = c]
    /\ Reconsidered(u)
    /\ UNCHANGED <<queue, devices, prefs, bounds, topics>>

(* The application is removed from a device, or FCM issues another token. *)
TokenExpires(t) ==
    /\ t \in valid /\ valid' = valid \ {t}
    /\ UNCHANGED <<queue, device, register, fcm, overtaken, settings, bounds, late, topics>>

Tick ==
    /\ now < MaxClock /\ now' = now + 1
    /\ UNCHANGED <<queue, devices, settings, crashes, late, topics>>

(* The server stops and starts again: what ran in it is gone, Bull's jobs stay. *)
Restart ==
    /\ crashes < MaxCrashes /\ crashes' = crashes + 1
    /\ job' = [j \in Jobs |-> CASE job[j].state = "active" -> Over(job[j], "stalled")
                                [] job[j].state = "call" -> Over(job[j], "lost")
                                [] OTHER -> job[j]]
    /\ register' = [u \in Users |-> None]
    /\ fcm' \in Configured
    /\ loose' = loose \cup {p \in Users \X Chats : TopicCalls(p[1], p[2]) # {}}
    /\ UNCHANGED <<paused, device, valid, overtaken, settings, now, late, subs, joined>>

Process(j) ==
    \/ ReadPreferences(j) \/ ReadMute(j) \/ ClearExpiredMute(j) \/ ReadToken(j)
    \/ Push(j) \/ SaveNotification(j) \/ MarkTokenInactive(j) \/ ProcessBatch(j)
    \/ UpdateTopic(j) \/ CallFails(j)

Next ==
    \/ \E j \in Jobs : QueueBulk(j) \/ Promote(j) \/ Take(j) \/ Stalled(j) \/ Process(j)
    \/ \E j \in Jobs, u \in Users : QueuePush(j, u) \/ CallPost(j, u)
    \/ \E j \in Jobs, u \in Users, c \in Chats : QueueChat(j, u, c) \/ CallCheck(j, u, c)
    \/ \E j \in Jobs, u \in Users, c \in Chats, kind \in TopicKinds : CallTopic(j, u, c, kind)
    \/ \E u \in Users : StoreToken(u) \/ RemoveDeviceToken(u) \/ UpdatePreferences(u)
    \/ \E u \in Users, t \in Tokens : ValidateToken(u, t)
    \/ \E u \in Users, c \in Chats : UpdateChatSetting(u, c)
    \/ \E t \in Tokens : TokenExpires(t)
    \/ ClearFailedJobs \/ PauseQueue \/ ResumeQueue \/ Tick \/ Restart

Spec == Init /\ [][Next]_vars

(* Redis, the database and FCM answer or fail, Bull promotes, hands out and requeues
   its jobs.  Nothing else is sure to happen. *)
Fairness ==
    /\ \A j \in Jobs : WF_vars(Promote(j)) /\ WF_vars(Stalled(j)) /\ WF_vars(Process(j))
    /\ WF_vars(\E j \in Jobs : Take(j))

FairSpec == Spec /\ Fairness

-----------------------------------------------------------------------------
(* Properties. *)

(* Every variable keeps its shape (the tables and Bull's job records). *)
TypeOK ==
    /\ job \in [Jobs -> Job] /\ paused \in BOOLEAN
    /\ device \in [Users -> [token: Tokens \cup {None}, active: BOOLEAN]]
    /\ register \in [Users -> Tokens \cup {None}]
    /\ valid \subseteq Tokens /\ fcm \in BOOLEAN
    /\ prefs \in [Users -> Preferences \cup {DefaultPreferences}]
    /\ mute \in [Users -> [Chats -> Setting]] /\ wish \in [Users -> [Chats -> Setting]]
    /\ raced \in [Users -> [Chats -> BOOLEAN]] /\ late \in [Users -> [Chats -> Nat]]
    /\ overtaken \in [Users -> BOOLEAN]
    /\ subs \subseteq Tokens \X Chats /\ joined \subseteq Users \X Chats /\ loose \subseteq Users \X Chats
    /\ now \in 0 .. MaxClock /\ crashes \in 0 .. MaxCrashes

(* A notification reaches FCM once, and once more for each time the server stopped on
   its job; a row that says SENT stands for one of these pushes, whichever calls fail
   (sendChatNotification, sendNotification, saveNotification). *)
PushedOnce ==
    \A j \in Jobs : job[j].sent <= job[j].pushes /\ job[j].pushes <= 1 + job[j].stalls
                    + (IF job[j].state = "stalled" THEN 1 ELSE 0)

(* After a user turns a chat's notifications off, by their preferences or by a mute, no
   more of them are pushed than workers had looked at the settings before; not, when a
   job was just clearing an expired mute, which may clear the new one (isChatMuted). *)
OptOutTail == \A u \in Users, c \in Chats : late[u][c] <= Workers

(* A mute lasts until it expires or the user ends it, unless a job was just clearing
   the one before it (isChatMuted writes what it read was expired). *)
MuteLasts ==
    \A u \in Users, c \in Chats :
        Muted(wish[u][c]) /\ ~raced[u][c] => mute[u][c] = wish[u][c]

(* A token that FCM knows is not deactivated, unless it was stored while a push with an
   older one was under way: markTokenAsInactive goes by the user. *)
InactiveIsInvalid ==
    \A u \in Users : device[u].token \in valid /\ ~device[u].active => overtaken[u]

(* The device of a user is subscribed to the topics of the chats the user is in and to
   no others, unless the device changed since the last event about the user and the
   chat, that event met another one or failed, or an event about the user who had the
   device before came through late (handleUserJoinedGroup and the other handlers read the
   token first, and nothing brings the topics up to date later). *)
SubscribedIffJoined ==
    \A u \in Users, c \in Chats :
        device[u].active /\ TopicCalls(u, c) = {} /\ <<u, c>> \notin loose
            => (<<device[u].token, c>> \in subs <=> <<u, c>> \in joined)

(* Minute m is quiet when, counted from the start, it comes no later than the end. *)
Quiet(p, m) == p.from # None /\ p.to # None /\ (m - p.from) % Day <= (p.to - p.from) % Day

(* A chat notification that is on its way to FCM was not let through in a quiet minute,
   overnight ranges included (isInQuietHours). *)
QuietHoursHold ==
    \A j \in Jobs : job[j].at # None => ~Quiet(job[j].prefs, job[j].at)

(* Every job in the queue is completed or failed, whatever throws and however often the
   server stops, unless somebody pauses the queue (the processors, Bull's retries). *)
JobsSettle ==
    \A j \in Jobs : job[j].state \in {"delayed", "waiting", "active", "stalled"}
                    ~> (job[j].state \in {"completed", "failed", "cleared"} \/ paused)
=============================================================================
