------------------------------ MODULE ChatRoom ------------------------------
(***************************************************************************)
(* One group room of the chat: its messages, pins, settings and member     *)
(* rows, and the requests that read and write them.                        *)
(*                                                                         *)
(* ChatService (chat.service.ts) runs every operation as a chain of        *)
(* awaited Prisma calls outside any transaction, so the requests of all    *)
(* users interleave between those calls.  A request is a record in req,    *)
(* its pc names the database call it makes next, and each action below is  *)
(* one such call together with the code that runs until the next one.      *)
(* The socket handlers of group-chat.gateway.ts guard a request when it    *)
(* arrives and broadcast its outcome when the service call has returned.   *)
(***************************************************************************)
EXTENDS Integers, FiniteSets

CONSTANTS
    Users, Messages,      \* ids; Messages bounds how many messages there are
    Requests,             \* handlers that can be in flight at once
    None,                 \* SQL NULL
    SysAdmins,            \* users whose system role is ADMIN
    Enrolled,             \* users the academic tables tie to this room
    InitRole,             \* member rows created by the chat automation
    Posted, Author,       \* messages already in the room, all by Author
    Ops,                  \* the operations clients issue in this instance
    Bodies, Files,        \* message texts; whether sends carry attachments
    ReplyTo,              \* the messages that sends may answer
    MaxPins, SlowTicks,   \* pin limit, and slow mode interval in clock ticks
    InitSlow, DbFails,    \* is slow mode on at the start; may database calls fail
    MaxClock              \* bound on the clock

Roles == {"NONE", "MEMBER", "ADMIN"}           \* "NONE": there is no row
OwnOps == {"edit", "delete"}
AdminOps == {"toggle", "slow", "invite", "remove", "mute", "unmute",
             "pin", "unpin", "adminDelete"}
AllOps == {"send"} \cup OwnOps \cup AdminOps

ASSUME ChatRoomAssumption ==
    /\ None \notin Users /\ None \notin Messages
    /\ SysAdmins \subseteq Users /\ Enrolled \subseteq Users
    /\ InitRole \in [Users -> Roles]
    /\ Posted \subseteq Messages /\ Author \in Users
    /\ Ops \subseteq AllOps
    /\ None \notin Bodies /\ {"unseen", "deleted"} \cap Bodies = {}
    /\ Files \subseteq BOOLEAN /\ ReplyTo \subseteq Messages
    /\ IsFiniteSet(Requests) /\ Requests # {}
    /\ MaxPins \in Nat \ {0} /\ SlowTicks \in Nat \ {0} /\ MaxClock \in Nat
    /\ InitSlow \subseteq BOOLEAN /\ DbFails \in BOOLEAN

VARIABLES
    enabled, slow,   \* chat_rooms.is_messaging_enabled, slow_mode_seconds set
    member,          \* room_members: one row per user
    msg,             \* chat_messages
    pinned,          \* pinned_messages, unique per room and message
    view,            \* what the last broadcast about a message showed clients
    req,             \* the requests in flight
    clock            \* Date.now()

db == <<enabled, slow, member, msg, pinned>>
vars == <<enabled, slow, member, msg, pinned, view, req, clock>>

Never == -1
Row == [role : Roles, muted : BOOLEAN, mutedAt : Int,
        blocked : BOOLEAN, blockedAt : Int, lastMessageAt : Int]
Message == [status : {"absent", "live", "deleted"}, sender : Users \cup {None},
            sentAt : Int, body : Bodies \cup {None}, file : BOOLEAN]
Args == Bodies \cup {None, "on", "off", "flip", "ADMIN", "MEMBER"}
Steps == {"perm", "reply", "create", "attach", "stamp", "own", "auth", "find",
          "count", "insert", "write", "emit"}
Idle == [op |-> "none", pc |-> "idle", by |-> None, who |-> None,
         m |-> None, arg |-> None, replyTo |-> None, file |-> FALSE]
Request == [op : AllOps, pc : Steps, by : Users, who : Users \cup {None},
            m : Messages \cup {None}, arg : Args,
            replyTo : Messages \cup {None}, file : BOOLEAN]

NewRow(role) == [role |-> role, muted |-> FALSE, mutedAt |-> Never,
                 blocked |-> FALSE, blockedAt |-> Never, lastMessageAt |-> Never]
NewMessage(u, b, f) == [status |-> "live", sender |-> u, sentAt |-> clock,
                        body |-> b, file |-> f]

Init ==
    /\ enabled = TRUE /\ slow \in InitSlow
    /\ member = [u \in Users |-> NewRow(InitRole[u])]
    /\ \E b \in Bodies :
         /\ msg = [m \in Messages |->
                     [status |-> IF m \in Posted THEN "live" ELSE "absent",
                      sender |-> IF m \in Posted THEN Author ELSE None,
                      sentAt |-> Never, file |-> FALSE,
                      body   |-> IF m \in Posted THEN b ELSE None]]
         /\ view = [m \in Messages |-> IF m \in Posted THEN b ELSE "unseen"]
    /\ pinned = {}
    /\ req = [r \in Requests |-> Idle]
    /\ clock = 0

----------------------------------------------------------------------------
(* Requests *)

At(r, op, pc) == req[r].op = op /\ req[r].pc = pc

(* A read: the request goes on to step pc if ok holds, and is refused      *)
(* (throws, and the gateway answers with an error) if not.                 *)
Proceed(r, ok, pc) ==
    /\ req' = [req EXCEPT ![r] = IF ok THEN [@ EXCEPT !.pc = pc] ELSE Idle]
    /\ UNCHANGED <<db, view, clock>>

Goto(r, pc) == req' = [req EXCEPT ![r].pc = pc]
Finish(r)   == req' = [req EXCEPT ![r] = Idle]

(* WsJwtGroupGuard: a member row, blocked or not, and an academic tie.     *)
GroupGuard(u) == member[u].role # "NONE" /\ u \in Enrolled

Fresh == {m \in Messages : msg[m].status = "absent"}
Sending == {r \in Requests : req[r].op = "send" /\ req[r].m = None}

ArriveSend(r) ==
    /\ "send" \in Ops
    /\ Cardinality(Fresh) > Cardinality(Sending)       \* bound: ids are left
    /\ \E u \in Users, b \in Bodies, f \in Files,
          t \in {None} \cup {m \in ReplyTo : msg[m].status # "absent"} :
         /\ GroupGuard(u)
         /\ req' = [req EXCEPT ![r] = [op |-> "send", pc |-> "perm", by |-> u,
                      who |-> None, m |-> None, arg |-> b, replyTo |-> t, file |-> f]]

ArriveOwn(r) ==
    \E op \in OwnOps \cap Ops, u \in Users, m \in Messages, b \in Bodies :
         req' = [req EXCEPT ![r] = [op |-> op, pc |-> "own", by |-> u, who |-> None,
                      m |-> m, arg |-> b, replyTo |-> None, file |-> FALSE]]

RoomInputs ==
         ({"toggle"} \X {None} \X {None} \X {"on", "off", "flip"})
    \cup ({"slow"} \X {None} \X {None} \X {"on", "off"})
MemberInputs ==
         ({"invite"} \X Users \X {None} \X {"ADMIN", "MEMBER"})
    \cup ({"remove", "mute", "unmute"} \X Users \X {None} \X {None})
MessageInputs == {"pin", "unpin", "adminDelete"} \X {None} \X Messages \X {None}

AdminInputs == RoomInputs \cup MemberInputs \cup MessageInputs

ArriveAdmin(r) ==
    \E u \in Users, in \in AdminInputs :
         /\ in[1] \in Ops
         /\ GroupGuard(u)
         /\ req' = [req EXCEPT ![r] = [op |-> in[1], pc |-> "auth", by |-> u,
                      who |-> in[2], m |-> in[3], arg |-> in[4],
                      replyTo |-> None, file |-> FALSE]]

Arrive(r) == /\ req[r] = Idle
             /\ ArriveSend(r) \/ ArriveOwn(r) \/ ArriveAdmin(r)
             /\ UNCHANGED <<db, view, clock>>

(* A database call throws, or its answer is lost: the handler's catch      *)
(* block answers with an error and what was written stays written.         *)
Fail(r) == /\ DbFails
           /\ req[r] # Idle
           /\ Finish(r)
           /\ UNCHANGED <<db, view, clock>>

----------------------------------------------------------------------------
(* sendGroupMessage, and the broadcast of handleSendGroupMessage *)

InSlowInterval(row) ==
    /\ slow /\ row.role = "MEMBER"
    /\ row.lastMessageAt # Never
    /\ clock - row.lastMessageAt < SlowTicks

(* Mutants of MaySend: the check of isBlocked, or of isMuted, is missing. *)
MaySendIfBlocked(u) ==
    /\ member[u].role # "NONE" /\ ~member[u].muted
    /\ enabled /\ ~InSlowInterval(member[u])
MaySendIfMuted(u) ==
    /\ member[u].role # "NONE" /\ ~member[u].blocked
    /\ enabled /\ ~InSlowInterval(member[u])

(* checkMessagePermissions *)
MaySend(u) ==
    LET row == member[u] IN
    /\ row.role # "NONE"
    /\ ~row.blocked
    /\ ~row.muted
    /\ enabled
    /\ ~InSlowInterval(row)

SendCheck(r) == /\ At(r, "send", "perm")
                /\ Proceed(r, MaySend(req[r].by),
                           IF req[r].replyTo = None THEN "create" ELSE "reply")

SendReply(r) == /\ At(r, "send", "reply")
                /\ Proceed(r, msg[req[r].replyTo].status = "live", "create")

SendCreate(r) ==
    /\ At(r, "send", "create")
    /\ \E m \in Fresh :
         /\ msg' = [msg EXCEPT ![m] = NewMessage(req[r].by, req[r].arg, req[r].file)]
         /\ req' = [req EXCEPT ![r].m = m,
                               ![r].pc = IF req[r].file THEN "attach" ELSE "stamp"]
    /\ UNCHANGED <<enabled, slow, member, pinned, view, clock>>

(* associateFilesWithMessage writes the message id into files.context_id,  *)
(* a foreign key to posts: that update throws, after the message is stored.*)
SendAttach(r) == /\ At(r, "send", "attach")
                 /\ Finish(r)
                 /\ UNCHANGED <<db, view, clock>>

(* Mutant of SendStamp: lastMessageAt is never written.                    *)
SendStampMissing(r) ==
    /\ At(r, "send", "stamp") /\ Goto(r, "emit")
    /\ UNCHANGED <<db, view, clock>>
(* Mutant of SendStamp: permissions are checked once more after storing.   *)
SendStampRechecks(r) ==
    /\ At(r, "send", "stamp")
    /\ member' = [member EXCEPT ![req[r].by].lastMessageAt = clock]
    /\ IF MaySend(req[r].by) THEN Goto(r, "emit") ELSE Finish(r)
    /\ UNCHANGED <<enabled, slow, msg, pinned, view, clock>>

SendStamp(r) ==
    /\ At(r, "send", "stamp")
    /\ member' = [member EXCEPT ![req[r].by].lastMessageAt = clock]
    /\ Goto(r, "emit")
    /\ UNCHANGED <<enabled, slow, msg, pinned, view, clock>>

(* Mutant of Broadcast: a deletion broadcasts the cleared content.         *)
BroadcastContent(r) ==
    /\ req[r].pc = "emit"
    /\ view' = [view EXCEPT ![req[r].m] = req[r].arg]
    /\ Finish(r) /\ UNCHANGED <<db, clock>>

(* group_message_received and message_edited carry the text the request    *)
(* wrote; message_deleted makes the clients drop it.                       *)
Broadcast(r) ==
    /\ req[r].pc = "emit"
    /\ view' = [view EXCEPT ![req[r].m] =
                  IF req[r].op \in {"send", "edit"} THEN req[r].arg ELSE "deleted"]
    /\ Finish(r)
    /\ UNCHANGED <<db, clock>>

----------------------------------------------------------------------------
(* editMessage, deleteMessage, adminDeleteMessage: a read that looks for a *)
(* message not yet deleted, then an update by primary key.                 *)

OwnFind(r) ==
    /\ req[r].op \in OwnOps /\ req[r].pc = "own"
    /\ LET row == msg[req[r].m] IN
         Proceed(r, row.status = "live" /\ row.sender = req[r].by, "write")

(* Mutant of EditWrite: the update writes the whole row it found back.     *)
EditWriteWholeRow(r) ==
    /\ At(r, "edit", "write")
    /\ msg' = [msg EXCEPT ![req[r].m].body = req[r].arg, ![req[r].m].status = "live"]
    /\ Goto(r, "emit")
    /\ UNCHANGED <<enabled, slow, member, pinned, view, clock>>

EditWrite(r) ==
    /\ At(r, "edit", "write")
    /\ msg' = [msg EXCEPT ![req[r].m].body = req[r].arg]
    /\ Goto(r, "emit")
    /\ UNCHANGED <<enabled, slow, member, pinned, view, clock>>

DeleteWrite(r) ==
    /\ req[r].op \in {"delete", "adminDelete"} /\ req[r].pc = "write"
    /\ msg' = [msg EXCEPT ![req[r].m].status = "deleted", ![req[r].m].body = None]
    /\ Goto(r, "emit")
    /\ UNCHANGED <<enabled, slow, member, pinned, view, clock>>

----------------------------------------------------------------------------
(* Moderation: verifyAdminAccess, then the reads and the write of each     *)
(* operation.                                                              *)

AdminAccess(u) == u \in SysAdmins \/ member[u].role = "ADMIN"

Authorize(r) ==
    /\ req[r].pc = "auth"
    /\ Proceed(r, /\ AdminAccess(req[r].by)
                  /\ req[r].op \in {"remove", "mute"} => req[r].by # req[r].who,
               IF req[r].op = "slow" THEN "write" ELSE "find")

(* The new state is computed from the value read here.                     *)
ToggleFind(r) ==
    /\ At(r, "toggle", "find")
    /\ LET on == req[r].arg = "on" \/ (req[r].arg = "flip" /\ ~enabled) IN
         req' = [req EXCEPT ![r] = [@ EXCEPT !.pc = "write",
                                             !.arg = IF on THEN "on" ELSE "off"]]
    /\ UNCHANGED <<db, view, clock>>

(* No row: insert one; a blocked row: unblock it; otherwise refuse.        *)
InviteFind(r) ==
    /\ At(r, "invite", "find")
    /\ LET row == member[req[r].who] IN
         Proceed(r, row.role = "NONE" \/ row.blocked,
                 IF row.role = "NONE" THEN "insert" ELSE "write")

RemoveFind(r) == /\ At(r, "remove", "find")
                 /\ Proceed(r, member[req[r].who].role # "NONE", "write")

MuteFind(r) ==
    /\ At(r, "mute", "find")
    /\ LET row == member[req[r].who] IN
         Proceed(r, row.role = "MEMBER" /\ ~row.blocked, "write")

UnmuteFind(r) == /\ At(r, "unmute", "find")
                 /\ Proceed(r, member[req[r].who].muted, "write")

AdminDeleteFind(r) == /\ At(r, "adminDelete", "find")
                      /\ Proceed(r, msg[req[r].m].status = "live", "write")

PinFind(r) == /\ At(r, "pin", "find")
              /\ Proceed(r, msg[req[r].m].status = "live", "count")

(* Mutant of PinCount: off by one.                                         *)
PinCountOffByOne(r) ==
    At(r, "pin", "count") /\ Proceed(r, Cardinality(pinned) <= MaxPins, "write")

PinCount(r) == /\ At(r, "pin", "count")
               /\ Proceed(r, Cardinality(pinned) < MaxPins, "write")

UnpinFind(r) == /\ At(r, "unpin", "find")
                /\ Proceed(r, req[r].m \in pinned, "write")

SetRow(r, u, row) == /\ member' = [member EXCEPT ![u] = row]
                     /\ Finish(r)
                     /\ UNCHANGED <<enabled, slow, msg, pinned, view, clock>>

ToggleWrite(r) == /\ At(r, "toggle", "write")
                  /\ enabled' = (req[r].arg = "on")
                  /\ Finish(r)
                  /\ UNCHANGED <<slow, member, msg, pinned, view, clock>>

SlowWrite(r) == /\ At(r, "slow", "write")
                /\ slow' = (req[r].arg = "on")
                /\ Finish(r)
                /\ UNCHANGED <<enabled, member, msg, pinned, view, clock>>

(* The unique key (room_id, user_id) makes the second of two inserts fail. *)
InviteInsert(r) ==
    /\ At(r, "invite", "insert")
    /\ LET u == req[r].who IN
         SetRow(r, u, IF member[u].role = "NONE" THEN NewRow(req[r].arg)
                                                 ELSE member[u])

(* A mute survives the removal and the new invitation.                     *)
InviteUnblock(r) ==
    /\ At(r, "invite", "write")
    /\ SetRow(r, req[r].who, [member[req[r].who] EXCEPT !.blocked = FALSE,
                                 !.blockedAt = Never, !.role = req[r].arg])

RemoveWrite(r) ==
    /\ At(r, "remove", "write")
    /\ SetRow(r, req[r].who, [member[req[r].who] EXCEPT !.blocked = TRUE,
                                                        !.blockedAt = clock])

MuteWrite(r) ==
    /\ At(r, "mute", "write")
    /\ SetRow(r, req[r].who, [member[req[r].who] EXCEPT !.muted = TRUE,
                                                        !.mutedAt = clock])

UnmuteWrite(r) ==
    /\ At(r, "unmute", "write")
    /\ SetRow(r, req[r].who, [member[req[r].who] EXCEPT !.muted = FALSE,
                                                        !.mutedAt = Never])

(* The lookup of an existing pin and the insert, whose unique key          *)
(* (room_id, message_id) refuses a second pin just as the lookup does.     *)
PinWrite(r) == /\ At(r, "pin", "write")
               /\ pinned' = pinned \cup {req[r].m}
               /\ Finish(r)
               /\ UNCHANGED <<enabled, slow, member, msg, view, clock>>

(* The delete names the pin's own id: another unpin that found the same    *)
(* pin is left with an id that is gone, and will remove nothing.           *)
UnpinWrite(r) ==
    /\ At(r, "unpin", "write")
    /\ pinned' = pinned \ {req[r].m}
    /\ req' = [q \in Requests |->
                 IF q = r THEN Idle
                 ELSE IF At(q, "unpin", "write") /\ req[q].m = req[r].m
                      THEN [req[q] EXCEPT !.m = None]
                      ELSE req[q]]
    /\ UNCHANGED <<enabled, slow, member, msg, view, clock>>

----------------------------------------------------------------------------
Reads(r) == \/ SendCheck(r) \/ SendReply(r) \/ SendAttach(r) \/ OwnFind(r)
            \/ Authorize(r) \/ ToggleFind(r) \/ InviteFind(r) \/ RemoveFind(r)
            \/ MuteFind(r) \/ UnmuteFind(r) \/ AdminDeleteFind(r)
            \/ PinFind(r) \/ PinCount(r) \/ UnpinFind(r)

Writes(r) == \/ SendCreate(r) \/ SendStamp(r) \/ EditWrite(r) \/ DeleteWrite(r)
             \/ ToggleWrite(r) \/ SlowWrite(r) \/ InviteInsert(r)
             \/ InviteUnblock(r) \/ RemoveWrite(r) \/ MuteWrite(r)
             \/ UnmuteWrite(r) \/ PinWrite(r) \/ UnpinWrite(r)

Handle(r) == Reads(r) \/ Writes(r) \/ Broadcast(r)

Tick == /\ clock < MaxClock
        /\ clock' = clock + 1
        /\ UNCHANGED <<db, view, req>>

Next == Tick \/ \E r \in Requests : Arrive(r) \/ Handle(r) \/ Fail(r)

Spec == Init /\ [][Next]_vars

(* A handler that has started runs on: Prisma settles every promise, and   *)
(* the event loop resumes the handlers whose promise is settled.           *)
FairSpec == Spec /\ \A r \in Requests : WF_vars(Handle(r))

----------------------------------------------------------------------------
(* Properties *)

(* Rows, messages, pins and requests have the shapes the Prisma schema and *)
(* the handlers give them, and a request past the arrival names the user   *)
(* or the message its operation is about.                                  *)
TypeOK ==
    /\ enabled \in BOOLEAN /\ slow \in BOOLEAN
    /\ member \in [Users -> Row]
    /\ msg \in [Messages -> Message]
    /\ pinned \subseteq Messages
    /\ view \in [Messages -> Bodies \cup {"unseen", "deleted"}]
    /\ req \in [Requests -> Request \cup {Idle}]
    /\ clock \in Nat

N == Cardinality(Requests)

(* pinMessage counts the pins, then inserts: the limit is overrun by at    *)
(* most the other handlers in flight that have counted already.            *)
PinsBounded == Cardinality(pinned) <= MaxPins + N - 1

SentBy(u, t) == {m \in Messages : /\ msg[m].status # "absent"
                                  /\ msg[m].sender = u
                                  /\ msg[m].sentAt > t}

(* removeUser takes effect at once: what a removed member still gets into  *)
(* the room was past checkMessagePermissions by then, at most one message  *)
(* for each other handler in flight.                                       *)
RemovedTail == \A u \in Users : member[u].blocked =>
                 Cardinality(SentBy(u, member[u].blockedAt)) < N

(* And so does muteUser.                                                   *)
MutedTail == \A u \in Users : member[u].muted =>
               Cardinality(SentBy(u, member[u].mutedAt)) < N

(* Slow mode, where it is on all the time, lets a MEMBER get at most one   *)
(* message per concurrent handler into any interval: the check reads       *)
(* lastMessageAt long before the send stamps it.  (Sends with attachments  *)
(* never reach the stamp and are not counted.)                             *)
SlowModeBurst ==
    slow => \A u \in Users, t \in 0 .. MaxClock :
              member[u].role = "MEMBER" =>
                Cardinality({m \in SentBy(u, t - 1) :
                    ~msg[m].file /\ msg[m].sentAt < t + SlowTicks}) <= N

(* A stored text message is broadcast to the room eventually: no check     *)
(* that can refuse comes after chatMessage.create.                         *)
StoredTextIsBroadcast ==
    \A m \in Messages :
      (msg[m].status # "absent" /\ ~msg[m].file /\ view[m] = "unseen")
        ~> view[m] # "unseen"

Asked == {m \in Messages : \E r \in Requests : At(r, "unpin", "write") /\ req[r].m = m}

(* The room keeps the promises of RoomLedger: among them that a deleted    *)
(* message is never live again whatever edits are in flight, that nothing  *)
(* is shown or pinned that was not stored first, and that an unpin whose   *)
(* pin another one removed does not take the pin that came after it.       *)
Ledger == INSTANCE RoomLedger WITH
            PinCap <- MaxPins + N - 1,
            status <- [m \in Messages |-> msg[m].status],
            author <- [m \in Messages |-> msg[m].sender],
            shown  <- {m \in Messages : view[m] # "unseen"},
            asked  <- Asked
LedgerSpec == Ledger!Spec
=============================================================================
