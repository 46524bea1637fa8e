# TLA+ models of cis-hub

cis-hub is a NestJS backend for a university: academic records, group and
private chat over Socket.IO, posts, files, notifications and authentication, on
PostgreSQL (Prisma) with Redis behind the cache and the job queue. This
directory holds TLA+ models of it, the TLC configurations that check them, and
TLAPS proofs about them. Paths below are relative to the repository, `src/...`.

    tlc -config MCChatRoom_pins.cfg MCChatRoom      # one run
    tlapm ChatRoomProofs.tla                        # the proofs of one module

## The system

The server is one Node.js process. Code runs to its next `await` undisturbed;
everything hard comes from what other handlers do during an `await`, from the
absence of transactions (every Prisma call commits by itself), from errors
between two calls, and from in-memory maps that outlive the sockets they name.

| Component | State | Operations | Interacts with | Hard part | Correct when | Module |
|---|---|---|---|---|---|---|
| Group room (`modules/chat/services/chat.service.ts`, `gateways/group-chat.gateway.ts`) | `chat_rooms`, `room_members`, `chat_messages`, `pinned_messages` | send, edit, delete, toggle, slow mode, invite, remove, mute, unmute, pin, unpin, admin delete | guard reads academic tables; broadcasts; pushes | check, await, act; failure between store and broadcast | deletions are final, removal and mute take effect, limits hold up to what is in flight, what is stored is broadcast | `ChatRoom`, `RoomLedger` |
| Group presence (`online-status.service.ts`, gateway) | `connectedUsers`, `onlineUsers`, `activeRoomUsers`, the adapter's rooms | connect, join, leave, disconnect, remove, fan-out | group room; notification queue | sockets close during awaits; several sockets and rooms per user | a user is spared a push only while a socket of theirs is in the room | `GroupPresence` |
| Chat automation (`chat-automation.service.ts`, `chat-event-emitter.service.ts`) | `chat_rooms`, `room_members` | one handler per academic event | emitted by courses, asynchronously | later events overtake earlier ones; create-if-absent races; partial failure | member rows follow enrolments; one room per class and per TA and course | `AcademicRooms` |
| Academic records (`academic/courses`) | courses, classes, sections, enrolments, professors | CRUD, assign, enrol | events to the automation | row written, event lost | unique keys, cascades | `AcademicRooms`, `Accounts` |
| Departments (`academic/departments`) | `departments` | create, update, remove | users, courses and posts refer to them | a reference found, then removed | references are to rows | `Accounts` |
| Notification pipeline (`queues`, `notifications`, `notification-automation.service.ts`) | Bull jobs, device tokens, preferences, mutes, topics | enqueue, process, push, save, subscribe, settings | fan-out, posts; FCM | restarts, partial failure, settings read early, mutes that expire, quiet hours over midnight | pushed once, opt-outs take effect, every job ends | `NotificationPipeline` |
| Sessions (`modules/auth`) | `user_sessions`, access tokens | login, logout, change password | users | revocation beside an update | a closed session stays closed | `Accounts` |
| Users (`modules/users`) | `users` | create, update, deactivate, activate, delete, reset, transition | sessions, departments | read, await, write; two writes at once | default passwords are changed; only GE students move | `Accounts` |
| Private chat (`private-chat.gateway.ts`, `getOrCreatePrivateRoom`, `getMessages`) | `userSockets`, private rooms, messages | connect, send, delete, page, disconnect | online status | duplicate rooms; cursors; sessions | one room per pair; pages cover the history | `PrivateChat` |
| Posts (`modules/posts`) | posts, files by `context_id` | create, update, delete, pin, attach; feeds, search, open | `post.created` to notifications | count, then add; offset pages; stale events | limits, pins and attachments; who sees is who is told | `PostFiles`, `PostAudience` |
| Files (`modules/files`) | `files`, disk, thumbnails | upload, delete, bulk | posts, messages | row and disk in two steps | a row has its file | `PostFiles` |
| Cache (`common/services/cache.service.ts`, interceptor) | Redis | get, set, invalidate | none at run time: the interceptor sits on services, where Nest does not run it | - | - | not modelled |
| Configuration, controllers, seeds, Postman | none | I/O | - | - | - | not modelled |

`PROJECT.json` lists every component with its status and the hazards with the
line where each bites, neighbouring ones in one entry.

## Modules

For a component `X`, `X.tla` models it, `MCX.tla` gives it finite instances, one
`.cfg` per question, and `XProofs.tla` holds the theorems. `RoomLedger` is
abstract: what the history of a room promises, without requests or permissions, among
it that an unpin takes only a pin that was there when it was asked for (`asked`, which
`ChatRoom` maps to the unpins between their find and their write); `ChatRoom` is shown to
implement it.

All modules follow one convention. An operation in flight is a record whose `pc`
names the database, Redis, FCM or disk call it makes next; an action is that call
with the code up to the next one, since the event loop runs nothing else in
between. A call that may throw does so in an action of its own (`Fail`,
`CallFails`), which does what the catch blocks do. Variables marked as history
record what the properties compare the state with; no guard of an operation reads them.
Definitions with a comment "Mutant of" or "A mutant" are plausible faults, used
to see that each property can be violated; nothing else refers to them.

### ChatRoom

A request is a record in `req`: its operation, its `pc` and its arguments. Its
`pc` names the database call it makes next. Each action is one call and the code
up to the next call, so two requests interleave exactly at the awaits:

    send    perm -> [reply] -> create -> [attach] | stamp -> emit
    edit    own -> write -> emit          (delete the same)
    pin     auth -> find -> count -> write
    others  auth -> [find] -> write

`Arrive` is the guard (`GroupGuard` for the operations `WsJwtGroupGuard`
protects; edit and delete have none), `Proceed` a read that goes on or refuses,
`Fail` a Prisma call that throws: the request ends and what it wrote stays.
A member row is a record, role `"NONE"` when there is no row. `view` is what
the last broadcast about each message showed. Message texts are model values.

Abstracted: reads that only repeat a check whose answer cannot change here
(`verifyRoomMembership`: rows are never deleted by these operations) are part of
the next one; the lookup that refuses a second pin of a message is part of
the insert, whose unique key refuses it just the same; `validateMessageFiles` is left out as a
read that can only refuse; broadcasts about moderation, which change nothing the
model keeps, end the request with its write. `handleSendGroupMessage` reads the
reply preview before it broadcasts: an error there has the effect of `Fail`.
The academic tie of a user to the room (`Enrolled`) and the system role
(`SysAdmins`) do not change: the automation that changes them is in
`AcademicRooms`.

Two handlers suffice for each race between a check and a write of another
request; the bounds the properties state (`MaxPins + N - 1`, fewer than `N`
messages, `N` per interval) are reached with two. The limit of 5 pins becomes
`MaxPins = 1`, overrun just as well. `MaxClock` lets a member send again one tick
after a removal (`removal`) or when an interval has begun (`bursts`). Where clients
stop because message ids run out, deadlock is not checked.

Fairness (`FairSpec`): a handler that has started takes its next step
eventually. Prisma settles every promise and the event loop resumes the handler;
arrivals, failures and the clock are not fair. `bursts` runs without failures and
without attachments: with either a stored message may never be broadcast.

### GroupPresence

`conn` and `joined` are Socket.IO's, `connected`, `online` and `active` are the
maps of the gateway and of `OnlineStatusService`. A join or leave message waits
in `inbox` while its guard and access check are awaited; the socket may close
meanwhile, and the handler runs all the same. `client.join` and `client.leave`
act at once on the in-memory adapter, so what follows them in the handler belongs
to the same step. `fan` is the loop that decides, member by member, whom to push.
`connectedUsers` keeps insertion order, and `handleDisconnect` deletes the first
key it finds; the model lets it be any key that names the socket.
The private gateway calls `OnlineStatusService` as well, but it disconnects every
client before that call, so its calls are left out.

Two sockets and two rooms of one user are what the keys `userId-roomId` can
confuse; a third socket is the sender's. `MaxInbox = 1`: a second message in its
guard would only commute with the first. A closed socket does not come back, as
Socket.IO gives a new connection a new id.

### AcademicRooms

`CoursesService` writes an academic row and emits an event; EventEmitter2 calls the
handler in `ChatAutomationService` before the request goes on, and nobody awaits
it. So a task is one HTTP operation followed by the handler of its event, and its
`pc` names the database call it makes next:

    createClass     createRoom                 deleteClass    deactivate
    createSection   findTaRoom -> createTaRoom -> addTa
    updateSection   write -> students -> oldRoom -> [expelOld]
                    -> findTaRoom -> [createTaRoom -> addTa] -> move
    deleteSection   delete -> siblings -> [deactivateTa]
    assign          classRoom -> upsertClass
    dismiss         classRoom -> expelProfessor
    enrol           [classRoom -> upsertClass] -> [sectionTa -> joinTaRoom -> upsertTa]
    unenrol         [sectionTa] -> findRooms -> expel (one turn per room)

The action that starts a task is the write of the academic row, except in
`updateSection` and `deleteSection`, which read the section first and use what they
read in the event. Reads of the other operations that a constraint of the write
repeats (the class exists, the pair is unique) are part of it. The foreign keys
are those of the migrations: a class with a professor cannot be deleted; the deletion
of a class or a section sets the references of enrolments, and of the class's
room, to `NULL`. `Fail` is a Prisma call that throws; whether the handler goes on
depends on which helper catches it. A TA's room is found by TA and course.

There is one course, since no handler touches rooms of two. Ids are not used again. Member
rows are written by these handlers only: moderation of the group room, which
may remove or re-invite members, is in `ChatRoom`. `updateMany` and `deleteMany` are
one statement. Which of several rooms `findFirst` returns is any.

Three history variables tell the cases apart in which the rooms do not follow the
records. `followed` holds the pairs of user and class whose last event met a room and no
other event about them, and whose handler did not fail. `overridden` holds those whose last
event was written while the user had the other record too, a professor who is enrolled
or a student who is assigned: one member row stands for both records, and the handler knows of one.
`Given` is the row the last event then gives, `MEMBER` after an enrolment and
none after a dismissal or an unenrolment, and the one the records call for otherwise;
`ClassMembersFollow` compares the row with it, so it states the demotion of a professor who enrols,
without any overlap, instead of leaving such users out.
`strays` holds the users for whom a section event did not go through undisturbed: an enrolment,
unenrolment or change of TA that met another handler about the user or their section, or
failed, the deletion of the section, and a change of its TA while the user had another
role than STUDENT or the TA two rooms. The properties say that nothing else goes wrong.

`Rooms` is large enough that room ids never run out: a class has one room, a TA at
most as many as there are tasks. Two tasks are the least that overlap; a third
would repeat the two-task races on more rooms, and `TaRoomsAreBounded` is proved for any number.
One user suffices because no handler reads one user's rows for another; the
section events, which touch several, treat each alike. `sections` runs without failures to
stay small; the effect of failures on TA rooms is in `classes`, which has a section too
(`MembersFollow` is `ClassMembersFollow` and `TaRoomMembersAreEnrolled`).

### NotificationPipeline

`job` holds the Bull jobs, which live in Redis and survive a restart, and the calls
outside the queue, which do not: the direct send of the post notifications when
`add` throws, the HTTP question whether a chat is muted, and the topic
subscriptions that follow room and enrolment events.

    chat         prefs -> mute -> [unmute] -> token -> push -> save
    push, post   prefs -> token -> [push -> save]
    bulk         batch, once for each batch
    check        mute -> [unmute]
    join, leave  token -> subscribe, unsubscribe

A push that meets a dead token goes to `inactive`, which deactivates the row by
user. Bull is modelled as `notification-queue.service.ts` uses it: a delay, any
free worker, `Workers` at once, and a job that was active when the server
stopped run again at most `MaxStalls` times. FCM is a set of tokens it knows and a set of
subscriptions. `Templates` has the types with a template: `SYSTEM_ALERT`, which the
processors of push and bulk jobs name, has none, so those jobs find a token and
send nothing. The day has `Day` minutes; `QuietHoursHold` compares `isInQuietHours`
with a reference by distances modulo the day.

Bounds: one user, one chat of each run's kind, two jobs or calls, one restart; two tokens
where tokens matter (`pushes`), three minutes and a clock of one tick where the time
does (`optout`). Every race here is between one job and one request of its user or
one other job.

Fairness: Bull promotes, hands out and requeues jobs, and every call returns or
throws, since each of these is driven by a timer or a settled promise of the running
server. Requests, token expiry, the clock, restarts and `ResumeQueue` are not fair,
hence `paused` in `JobsSettle`.

### PrivateChat

`session` is `userSockets`, `members` the private rooms by their two members, `client`
a reader that asks for page after page with the cursor the last answer gave.
`getMessages` takes `Limit + 1` messages beyond the cursor in the order of their times and
hands the time of the last one shown on. `raced` has the pairs for whom two
handlers were about to create a room.
`Identified` is a parameter: nothing sets `client.data.user` before
`handleConnection`, so as deployed the gateway closes every socket; the model
checks the gateway for clients that are identified. A second socket of a user is refused,
because the code that would close the first throws.

Bounds: a user with two sockets who writes to another with none, two handlers, pages of one message, two messages, three times:
equal and different times, and a message written or deleted between two pages, occur.
Message and room ids run out, so deadlock is not checked.

### PostFiles

`post` and `file` are the rows, `disk` the files in the upload directory as they were uploaded,
`thumbs` those of which `generateThumbnails` made one or more smaller copies beside them. An image
gets these after its row; a deletion unlinks the uploaded file alone. Requests are those of
`posts.controller.ts`, `post-files.controller.ts` and `files.controller.ts` that create,
update, pin and delete posts and upload, attach, detach, move and delete files:

    create, update   [write] -> [clear] -> [find -> attach]
    upload, file     count -> {store -> row -> [thumbs]}, for each file
    associate        free -> count -> attach
    deleteFile, bulkDelete   unrow -> unlink

`dropped` has the files a failed call or a restart left in the middle, `unlimited` and
`overlapped` the posts whose files were added without a count or counted twice at
once, `raced` those whose pin was written inside a toggle.

Bounds: an author and an admin, a stored and a new post, a stored file and two that
arrive (one of a type uploads accept and posts do not), three requests at once, a limit of one file per post for
the code's ten, one restart, failures of the calls that make or remove rows and files. Requests are not
reused, so the system stops.

### PostAudience

`Visible` is the visibility filter as a predicate of user and post, `Matches` the filters a client
may send (type, scope, department, year, priority, pin, author and search), `Result` what a
feed or a search selects. `buildOrderBy` sorts by a key and then by `createdAt`, which is
`now()` and not unique: `Orders` has every order the database may answer in, and each find
takes any of them, so posts of equal keys and times may change places between two pages.
A reader asks for the pages of a feed one after the other; each page is a find at an
offset and a count, in either order, as `findAll` starts both. A created post leads to an event,
the event to the users `getTargetUsers` finds, and any user may open a post, be it one
they were told of. The notification of a new post has no id or link of the post in it
(`queueBulkNotification`), so the opening is a request of its own. `togglePin` writes a post as
`UpdatePost` does. `watch` records how the result moved around the reader between two reads,
which posts an edge of a page divided from their equals (`tied`), and whether the
reader's own profile changed (`turned`), after which the pages are of another result set.
`/posts/pinned` answers the first 50 and has no further pages; it is not among the feeds.

Bounds: pages of one post, two posts, two users, three writes, one visit for each reader,
one request at a time, three profiles, two contents, two times of the clock and one order
(priority, then date): equal times, and equal keys as well, occur. The proofs are for any of these.
The filters select, as the visibility does, from the same
result. Everything is bounded, so the system stops.

### Accounts

`user`, `dept`, `course` and `session` are the tables, `token` the users with an access
token that has not expired. `deactivateUser`, `deleteUser` and `resetUserPassword` write
the user and the sessions in one `Promise.all`: the two writes happen in either
order, either may fail alone, and the request answers when both settled or the
first has failed (`Settle`). Unique keys and foreign keys are those of the migrations.

Bounds: one user, two departments (the second may get the code GE), one course, two
requests at once, two sessions, four operations that start.
Operations are counted, so the system stops.

## Runs

| Run | Question | Instance |
|---|---|---|
| `pins` | types, pin bound, refinement of `RoomLedger` | 2 users, 3 messages, 2 handlers, limit 1, failures, settings change |
| `removal` | messages after a removal | 2 users (one invited, perhaps as ADMIN), 2 messages, 2 ticks, with and without attachments |
| `bursts` | messages after a mute and per slow mode interval; is every stored text broadcast | 2 users, 3 messages, 2 handlers, replies, slow mode |
| `presence` | is the record of an open socket true, does its closing forget the user, who gets neither the broadcast nor a push | 3 sockets of 2 users, 2 rooms, 1 send, 1 removal |
| `classes` | which row do assignments and enrolments of a user who has both leave in the class room and the TA's | 1 class, 1 section, 1 user, 2 tasks, every call may fail |
| `sections` | how many rooms has a TA, who is in them | 2 sections, 2 TAs, 1 student, 2 tasks, no failures |
| `pushes` | is a notification pushed twice, a working token lost, a subscription wrong, a job stuck | 2 jobs of every kind, 2 tokens, failures, a restart |
| `optout` | do mutes, preferences and quiet hours take effect | 2 jobs or checks, every request about settings, a pause, a restart |
| `files` | do rows, disk and thumbnails agree; limits, pins, attachments under overlap | 3 requests, failures, a restart |
| `private` | sessions, rooms, pages | 1 user with 2 sockets, 2 handlers, 2 messages, both directions |
| `accounts` | sessions, passwords, references, transitions | 2 requests, failures |
| `audience` | do pages cover the feed, ties included; who is told, and can they open it | 2 readers, 2 posts, 2 times, 3 writes |

Every run passes. The properties that name an exception (`raced`, `overlapped`,
`loose`, `strays`, `tied`, ...) do so because the code does go wrong in that case, which
dropping the exception shows at once; what they show is that it goes wrong in no other.

## Proofs

`ChatRoomProofs` proves, for any users, messages, handlers and settings,

- `TypeCorrect`: `Spec => []TypeOK`;
- `PinsAreBounded`: `Spec => []PinsBounded`;
- `ImplementsLedger`: `Spec => Ledger!Spec`.

All three rest on one inductive invariant, `IInv`. `TypeOK` alone is not
inductive: that a broadcast shows text depends on the text the request carries
(`CarriesOK`), and that a deletion or a pin concerns a stored message on the
request having found it earlier (`StoredOK`: stored messages stay stored).
`PinsBounded` needs `PinTally`, which counts the requests about to insert a pin
along with the pins: a request joins them only while there are fewer than
`MaxPins` pins, and no more than `N` requests exist. The refinement maps every
read to a stutter, `SendCreate` to `Post`, `DeleteWrite` to `Retract` or, when
the message was deleted meanwhile, to a stutter, `Broadcast` to `Show`. The read of an unpin
that finds the pin is an `Ask`, its write an `Unpin`, or a stutter when another unpin has taken that
pin (ids of pins are not used again, so a later pin of the message is another), and a
failed write at most a `Withdraw`.

The only assumption is `ChatRoomAssumption`, on the constants: finitely many
handlers, a positive pin limit, `NULL` and the two marks of `view` no message text.

`RemovalsTakeEffect` (`Spec => []RemovedTail`) and `MutesTakeEffect`
(`Spec => []MutedTail`) are proved by `TInv`. The messages sent since a removal are
not enough for an induction, since the sends that were permitted before it store theirs later.
`TailOK` counts both: at the removal there are no messages yet (`Past`: nothing
is dated after the clock) and at most `N - 1` such sends, as the handler that
removes is one of the `N`; afterwards a permitted send only turns into a
message, and `checkMessagePermissions` permits no new one of a barred member.

`SlowModeHolds` (`Spec => []SlowModeBurst`) is proved by `SInv` in the same way, for each
interval of slow mode: from the first stamp in the interval on, its messages and
the permitted sends together are at most `N`; before it, every message of the interval
belongs to a request that has yet to stamp. It has hypotheses:
no database call fails, slow mode is not switched, and nobody is invited. All three are
needed. A stamp that fails leaves a stored message which no later check knows of; what an
ADMIN sends is not held back, and an ADMIN may be removed and invited again as a MEMBER.

`GroupPresenceProofs` proves `Spec => []TypeOK`, `Spec => []ViewersAreInRoom`,
`Spec => DisconnectForgets` and `Spec => UnpushedHeardOrJoined` for any users, sockets and rooms, from
`PresenceAssumption` (each socket has an owner, the tables relate users and
rooms). The invariant is `PInv`. Its part `Keyed` ties the two maps that separate
classes keep: a record on an open socket has its key in `connectedUsers`, and a
key names a socket of its own user. So the disconnect, which stops at the
first key it finds, finds the right user whichever key that is. The last theorem adds
`RoomsKnow`: while a message is on its way, the owner of each socket in its room was there for the
broadcast or has joined since. A record that spares a member the push is on a socket that has
closed, or by `ViewersAreInRoom` on one in the room, and by `Keyed` the member's own.

`AcademicRoomsProofs` proves all four properties of `AcademicRooms` for any classes, sections,
users and number of tasks, from `AcademicAssumption` (finitely many tasks and rooms; the ids of
classes and TAs differ from each other and from the marks the model uses).
- `TypeCorrect` (`TypeOK`): that a new room has a key depends on what the task that creates it
  carries (`CarriesOK`).
- `TaRoomsAreBounded` (`TaRoomsBounded`) needs `RoomTally`, which counts the tasks that looked,
  found no room and have not created one yet along with the rooms: a task joins them only when
  there is no room, and then they are all the tally counts.
- `TaRoomsAreForEnrolled` (`TaRoomMembersAreEnrolled`): by `Tracked`, a row in a TA's room is the
  enrolment's, or one that a change of TA or an unenrolment in flight is yet to delete
  (`MoveWillExpel`, `LeaveWillExpel`, call by call). `Quiet` says what keeps this true between
  the calls: for a user whom no section event met another, at most one task is about their
  enrolment, no task changes its section meanwhile, and at most one changes the section they are
  enrolled in, for which the TA it has read is still the section's. It says nothing of the users in
  `strays`.
- `MembersDoFollow` (`MembersFollow`): by `Following`, a row of a class room other than the
  one the last event gives (`Given`, which differs from what the records call for only for a
  user with both) has yet to be written by a task about it (`Pending`), and every such task
  gives that one (`Gives`). `ClassRoomsOK` (a class has one room, and none once its deletion is
  written) makes the room a task finds the only one; `FoundOK` and `RoomsOK` (a room that was
  found keeps its key) keep the other tasks out of it.

Each invariant was checked by TLC on the instances of the runs before it was proved.

`PostFilesProofs` proves all five properties of `PostFiles` for any posts, files,
requests and limit, whatever fails and however often the process restarts. Each has its
invariant on top of `TInv`, which says what each request holds.
- `DiskAndRowsAgree` (`DiskMatchesRows`): by `DInv`, a request about to write a row holds a
  file that is on the disk, without a row, and held by no other (`HeldOK`). Of the thumbnails it
  says that they are of files that got a row: a deletion leaves them, so no more is true.
- `LimitHolds` (`LimitOverrunsOverlap`): by `LInv`, in a post whose files were always counted
  and never counted twice at once, what the one request that adds files has counted and not
  added yet still fits (`RoomLeft`).
- `PinsFollowToggles` (`PinFollowsToggles`): by `PinInv`, each toggle under way
  carries the opposite of the pin, unless another write came in between (`TogglesOK`).
- `AssociationsTakeFreeFiles` (`TakenFilesWereFree`): by `FInv`, what an association found
  free is still free, or another request has taken it meanwhile (`FreeOK`).

`AccountsProofs` proves all four properties of `Accounts` for any users, departments,
courses and requests, under any failures of the writes. `RevokedStayEnded` needs, by `SInv`, that a
session an operation has to end is its user's, and ended as soon as that write has
succeeded (`DueOK`). `DefaultMustChange` is inductive on top of `TInv`. `TransitionLeavesGE` needs, by
`GInv`, that a transition has read the department the student is still in, unless
another write came in between (`ReadOK`).

`NotificationPipelineProofs` proves all seven safety properties of `NotificationPipeline`
for any users, tokens, jobs, workers and restarts. On `TInv` rest
- `RunsPushOnce` (`PushedOnce`) and `QuietHoursKept` (`QuietHoursHold`);
- `LiveTokensStayActive` (`InactiveIsInvalid`), by `DeadInv`: a job about to push, or to switch
  a device off, has read the token the user still has, unless a newer one overtook it (`TokenRead`);
- `MutesHold` (`MuteLasts`), by `MuteInv`: no wish is left to clear for a job about to clear a
  mute, unless it raced (`MuteRead`);
- `TopicsFollowEvents` (`SubscribedIffJoined`), by `TopicInv`: for a user and a chat no event was lost
  on, at most one call is under way, for the last event, and without one the
  subscription is right (`InStep`). Two users who share a token taught that a call may be too
  late for either: the late call of the first one's join subscribes the
  token after it has passed to the second;
- `OptOutIsPrompt` (`OptOutTail`), by `OptInv`: the pushes since an opt-out and the workers past the
  check (`Past`) are together at most the workers. It has one hypothesis: the read of the
  mute does not fail, as the code counts a failed read as "not muted" and sends.

`PrivateChatProofs` proves all four properties of `PrivateChat` for any sockets, users,
handlers, rooms, page length and direction. `OneSocketPerUser` is inductive. `PrivateRoomOnce` needs
`LookedAtOnce`: two handlers that have found no room for the same pair have marked it as
raced. `PagesAreTheHistory` needs two facts of a client that reads (`PagesInv`): nothing it was shown lies
beyond its cursor (`ShownOK`), and what is due to it and was neither shown nor deleted does, or has
the time of another message (`DueOK`). Neither depends on the page the database
picks among messages of equal times.

`PostAudienceProofs` proves all four properties of `PostAudience` for any users, posts,
departments, feeds, filters and page length.
- `ToldAreAudience` (`AudienceIsTold`) rests on `TInv` and on `SameAudience`: the conditions of
  `getTargetUsers` and those of `buildVisibilityFilter` agree on every row.
- `LinksOpen` (`ToldCanOpen`): by `OInv`, a user who was told of a post and for whom nothing has
  changed is still in its audience (`SteadyAreTold`), and what the request that opens it has read
  of the user still holds (`ContextsHold`). The users told of a post are read once, so none becomes
  "unchanged" again while such a request is under way (`SureAreTold`).
- `PagesAreRead` (`PagesShowEachOnce`): whatever order a find takes, a post has a place from
  the first to the last of its equals (`OrderedPlaces`). By `PInv`, a post that was shown, has not moved
  back and is not tied has a place on the pages found so far (`ShownInFront`); one that was not
  shown, has not moved towards the front and is not tied has a place behind them, and the count of the
  current page has counted it (`RestBehind`). So no page repeats the first, and the last answer
  (`page >= totalPages`) leaves none of the second. The proof needs that no post precedes itself
  in `buildOrderBy` and nothing of the clock: posts of equal keys and times are what `tied` is for.

Beyond `ChatRoomAssumption`, the proofs assume of the constants that `None` is none of
the values it stands beside, that the sets that are counted are finite, and that limits are
positive; each module states this in its `ASSUME`, which TLC evaluates in every run.

Only model-checked:
- `StoredTextIsBroadcast` and `JobsSettle`: fairness and `ENABLED` are beyond the prover.

## Where the code differs from what it says

Met while modelling. The models do what the code does.

Chat:

- An edit in flight writes the text back into a message that was deleted meanwhile
  (`chat.service.ts:775`; line 836 "Clear content for privacy").
- Sends with attachments fail after the message is stored: the foreign key of
  `files.context_id` refers to posts (`chat.service.ts:738`; `README.md:50`).
- A join that resolves after its socket closed records the user as viewing the room
  (`group-chat.gateway.ts:112`; `online-status.service.ts:137` "User is offline, definitely send notification").
- When the TA of a section changes, its students leave the old room and join none: the
  call passes its arguments in another order (`chat-automation.service.ts:237`; line 235
  "Add students to the new room").
- Concurrent sends of a member can pass the slow mode check (`chat.service.ts:1264`)
  before either is stamped, and concurrent pins the count (`chat.service.ts:1106`):
  hence one message and one pin per handler in `SlowModeBurst` and `PinsBounded`.
- `muteUser` writes by row id after it read the role: a member removed and re-invited
  as ADMIN in between is muted, though line 1041 says "Cannot mute another admin".
- `this.server` is a namespace, so `this.server.sockets.sockets` is undefined: removal throws before
  the member's socket leaves the room (`group-chat.gateway.ts:587`), and a second private
  session is refused instead of replacing the first (`private-chat.gateway.ts:57`).
- `setUserOnline` drops `currentRoom` before `joinRoom` could leave that room
  (`online-status.service.ts:29`). Only a log line reads what stays behind.
- The room of a deleted class stays active, as the foreign key cleared
  `course_class_id` before `class.deleted` looks for it (`chat-automation.service.ts:127`).
- A TA's room, deactivated with the last section, is found again by the next
  section and stays inactive (`chat-automation.service.ts:152`).
- Professors and students who are there before the class room get no member row in it
  (`chat-automation.service.ts:59`); those who unenrol after their section was deleted
  keep theirs in the TA's room (`chat-automation.service.ts:428`).
- A professor who also enrols in the class, which `createEnrollment` does not refuse, becomes a
  MEMBER of its room (`chat-automation.service.ts:502`), and the dismissal (line 321) or the
  unenrolment (line 438) of such a user deletes the one member row, though the other record stays.
- A class room is created under the course's name and renamed to its code
  (`chat-automation.service.ts:47`, `:109`).
- A history page loses messages with the time of the page's last one
  (`chat.service.ts:247`), and two first messages make two rooms (`chat.service.ts:644`).

Notifications:

- A chat notification that fails is completed (`notification.processor.ts:93`), although
  `queue.config.ts:56` says "Retry failed notifications 3 times".
- Push and bulk jobs never deliver: they ask for `SYSTEM_ALERT`, which has no template.
- `queue.config.ts:150` says "Higher number = higher priority"; Bull takes the lowest first.
- Clearing an expired mute clears one set meanwhile (`notification.service.ts:320`); a
  dead token deactivates its successor (`notification.service.ts:198`).
- Topics are not brought up to date when a device registers. `sendGroupNotification`
  sends to `group_<id>` while class and section rooms subscribe `class_` and `section_`
  topics; `room.deleted` and `user.removed.class` are never emitted.

Posts and files:

- `post.created` is emitted before the attachments are found valid (`posts.service.ts:99`), and an
  update clears the old attachments before it validates the new (`posts.service.ts:437`).
- Deleting an image leaves its thumbnails, up to three of them, on the disk: `deleteFile` and
  `bulkDelete` unlink the uploaded file alone (`files.service.ts:171`, `:336`).
- `createdAt` is not unique (`schema.prisma:297`) and `buildOrderBy` ends with it
  (`posts.service.ts:333`), so posts of equal keys at the edge of a page may be missed or shown twice
  though nothing moved.
- The routes of posts' files and of files, and the ids in the DTOs of both, have to be UUIDs
  (`post-files.controller.ts:34`, `files.controller.ts:61`, `post-filter.dto.ts:17`,
  `create-post.dto.ts:36`), while the schema makes cuids (`schema.prisma:286`, `:315`), which
  these checks refuse. The models take the requests as served.
- `create`, `update`, `bulkMove` and `uploadFile` ignore the limit of ten files.
- A post moved to another audience is announced to nobody; `/feed/urgent` asks for
  HIGH, so URGENT posts are not in it; `publishedAt` and `isActive` filter no feed.
- Any user of the department may upload to a post and remove its attachments
  (`validatePostAccess`).
- `post.updated`, `post.pinned` and `file.uploaded` have handlers and are never emitted.

Accounts:

- `refreshToken` verifies as a JWT what `login` made as random hex
  (`auth.service.ts:168`), so it always throws; `logout` is given `body.userId`.
- `changePassword` asks for the current password and never compares it (`auth.service.ts:124`).
- `login` does not ask `isActive`. A user who must change the password cannot log in,
  and changing it requires a login.
- Year 4 students of GE may move to any department, though the comment speaks of year 3.

## Not modelled

- Read receipts, typing, and the queries of rooms and members: they change nothing another
  operation reads.
- `class.updated`, which renames a room: names are not modelled.
- `updateProfile`, `uploadAvatar`: they write columns nothing else reads.
- `sendGroupNotification` (a test endpoint's), the health service, and the four queues
  without a processor.
- `refreshToken` and `logoutAll`: the one always throws, the other has no caller.
- Serving and listing files, the scaling of images (that thumbnails are made is modelled), `cleanupOldFiles` (no caller), handlers of events
  nobody emits, post statistics and search suggestions.
- The cache: no request reaches it. Configuration, seeds, collections: no behaviour.
- Several servers: there is one process, and no Redis adapter of Socket.IO.

## Plan

What is left to model: the names of class rooms under concurrent updates, and read receipts.
