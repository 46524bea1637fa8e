----------------------------- MODULE PrivateChat -----------------------------
(***************************************************************************)
(* Private chat: the sessions of the private gateway, the rooms of two users *)
(* that the first message makes, sending and deleting, and clients          *)
(* that page through a history with a cursor.                               *)
(*                                                                         *)
(* A handler is a record.  Its pc names the database call it makes next:     *)
(*                                                                         *)
(*   send    room -> [create] -> insert                                    *)
(*   page    room -> [create] -> page                                       *)
(*   delete  own -> erase                                                   *)
(***************************************************************************)
EXTENDS Integers, FiniteSets

CONSTANTS
    Users, Sockets, Rooms, Messages, Handlers,
    Owner,          \* the user of each socket
    Identified,     \* the sockets whose client.data.user is set when they connect
    Readers,        \* the users whose clients page through a history
    Directions,     \* the directions they page in, before and after
    Limit,          \* messages of a page
    MaxClock,       \* bound on the clock that sentAt is taken from
    Asks,           \* the handlers there are
    Failing,        \* the calls that may throw
    None

Ops == {"send", "page", "delete"}
Calls == {"room", "create", "insert", "page", "own", "erase"}

ASSUME PrivateChatAssumption ==
    /\ Owner \in [Sockets -> Users] /\ Identified \subseteq Sockets /\ Readers \subseteq Users
    /\ Directions \subseteq {"before", "after"} /\ Limit \in Nat \ {0} /\ MaxClock \in Nat /\ Failing \subseteq Calls
    /\ Asks \subseteq Ops
    /\ None \notin Users \cup Sockets \cup Rooms \cup Messages \cup Nat \cup Ops
    /\ IsFiniteSet(Messages)

VARIABLES
    conn,       \* the connection of each socket
    session,    \* userSockets: the socket of each user
    members,    \* the members of each private room, none before it is created
    message,    \* chat_messages
    handler,    \* the handlers
    client,     \* what each reader's client has shown, and asks for next
    now,
    raced       \* pairs of users for whom two handlers found no room at the same time

sockets == <<conn, session>>
vars == <<conn, session, members, message, handler, client, now, raced>>

NoMessage == [room |-> None, sender |-> None, at |-> 0, deleted |-> FALSE]

(* A handler that begins with the call pc, and a client that begins to read. *)
Beginning(op, user, peer, ids, pc) ==
    [op |-> op, user |-> user, peer |-> peer, room |-> None, ids |-> ids, pc |-> pc]
Reading(peer, state, dir, due) ==
    [peer |-> peer, state |-> state, dir |-> dir, cursor |-> None, shown |-> {}, due |-> due,
     repeated |-> FALSE]

Idle == Beginning(None, None, None, {}, "idle")
NoClient == Reading(None, "none", "before", {})

Init ==
    /\ conn = [s \in Sockets |-> "new"] /\ session = [u \in Users |-> None]
    /\ members = [r \in Rooms |-> {}]
    /\ message = [m \in Messages |-> NoMessage]
    /\ handler = [h \in Handlers |-> Idle]
    /\ client = [u \in Readers |-> NoClient]
    /\ now = 0 /\ raced = {}

-----------------------------------------------------------------------------
(* Sessions. *)

(* A mutant: the session is not compared with the socket that goes. *)
SessionWithoutAny(s) == [session EXCEPT ![Owner[s]] = None]

(* What handleDisconnect leaves in userSockets. *)
SessionWithout(s) == [session EXCEPT ![Owner[s]] = IF @ = s THEN None ELSE @]

(* A socket without a user is disconnected.  For one whose user has a session, looking
   up the old socket throws (the server of a namespace is a Namespace, whose sockets is a
   Map, so this.server.sockets.sockets is undefined), and the new socket is disconnected. *)
HandleConnection(s) ==
    /\ conn[s] = "new"
    /\ IF s \in Identified /\ session[Owner[s]] = None
       THEN /\ conn' = [conn EXCEPT ![s] = "open"]
            /\ session' = [session EXCEPT ![Owner[s]] = s]
       ELSE /\ conn' = [conn EXCEPT ![s] = "closed"]
            /\ session' = SessionWithout(s)
    /\ UNCHANGED <<members, message, handler, client, now, raced>>

HandleDisconnect(s) ==
    /\ conn[s] = "open"
    /\ conn' = [conn EXCEPT ![s] = "closed"]
    /\ session' = SessionWithout(s)
    /\ UNCHANGED <<members, message, handler, client, now, raced>>

Connected(u) == \E s \in Sockets : conn[s] = "open" /\ Owner[s] = u

-----------------------------------------------------------------------------
(* Handlers begin. *)

At(h, pc) == handler[h].pc = pc
Go(h, pc) == handler' = [handler EXCEPT ![h].pc = pc]
Done(h) == handler' = [handler EXCEPT ![h] = Idle]

Begin(h, q) ==
    /\ handler[h] = Idle /\ Connected(q.user) /\ q.op \in Asks
    /\ handler' = [handler EXCEPT ![h] = q]
    /\ UNCHANGED <<sockets, members, message, client, now, raced>>

Stored == {m \in Messages : message[m].room # None}
In(r) == {m \in Stored : message[m].room = r}

HandlePrivateMessage(h, u, v) ==
    u # v /\ Begin(h, Beginning("send", u, v, {}, "room"))

HandleDeleteMessage(h, u, m) ==
    Begin(h, Beginning("delete", u, None, {m}, "own"))

(* A client that begins to read is due what the room of the two users has now; it asks
   for the next page when it has the last one. *)
BeginReading(u, v, dir) ==
    /\ u # v /\ client[u].state = "none" /\ Connected(u) /\ "page" \in Asks
    /\ client' = [client EXCEPT ![u] =
         Reading(v, "more", dir,
                 {m \in Stored : members[message[m].room] = {u, v} /\ ~message[m].deleted})]
    /\ UNCHANGED <<sockets, members, message, handler, now, raced>>

HandleGetPrivateMessages(h, u) ==
    /\ client[u].state = "more" /\ handler[h] = Idle /\ Connected(u)
    /\ handler' = [handler EXCEPT ![h] = Beginning("page", u, client[u].peer, {}, "room")]
    /\ client' = [client EXCEPT ![u].state = "waiting"]
    /\ UNCHANGED <<sockets, members, message, now, raced>>

-----------------------------------------------------------------------------
(* getOrCreatePrivateRoom. *)

Between(h) == {handler[h].user, handler[h].peer}

(* The handler has the room. *)
AfterRoom(op) == IF op = "send" THEN "insert" ELSE "page"
WithRoom(q, r) == [op |-> q.op, user |-> q.user, peer |-> q.peer, room |-> r, ids |-> q.ids,
                   pc |-> AfterRoom(q.op)]

(* A mutant: every member is compared with one of the two users. *)
FindRoomOfOne(h) ==
    /\ At(h, "room") /\ Go(h, "create")
    /\ raced' = IF \E g \in Handlers \ {h} : At(g, "create") /\ Between(g) = Between(h)
                THEN raced \cup {Between(h)} ELSE raced
    /\ UNCHANGED <<sockets, members, message, client, now>>

(* findFirst gives any of the rooms of exactly the two users. *)
FindRoom(h) ==
    /\ At(h, "room")
    /\ \/ \E r \in Rooms :
            /\ members[r] = Between(h)
            /\ handler' = [handler EXCEPT ![h] = WithRoom(@, r)]
            /\ UNCHANGED raced
       \/ /\ \A r \in Rooms : members[r] # Between(h)
          /\ Go(h, "create")
          /\ raced' = IF \E g \in Handlers \ {h} : At(g, "create") /\ Between(g) = Between(h)
                      THEN raced \cup {Between(h)} ELSE raced
    /\ UNCHANGED <<sockets, members, message, client, now>>

(* A mutant: the room is made without its members. *)
CreateRoomEmpty(h) ==
    /\ At(h, "create")
    /\ \E r \in Rooms :
         /\ members[r] = {}
         /\ handler' = [handler EXCEPT ![h] = WithRoom(@, r)]
    /\ UNCHANGED <<sockets, members, message, client, now, raced>>

CreateRoom(h) ==
    /\ At(h, "create")
    /\ \E r \in Rooms :
         /\ members[r] = {}
         /\ members' = [members EXCEPT ![r] = Between(h)]
         /\ handler' = [handler EXCEPT ![h] = WithRoom(@, r)]
    /\ UNCHANGED <<sockets, message, client, now, raced>>

-----------------------------------------------------------------------------
(* Sending. *)

(* chatMessage.create; the database takes the time.  What follows, the lastMessageAt of
   the sender's row and the emits, nothing in a private room reads. *)
InsertMessage(h) ==
    /\ At(h, "insert")
    /\ \E m \in Messages \ Stored :
         message' = [message EXCEPT ![m] =
                       [room |-> handler[h].room, sender |-> handler[h].user, at |-> now, deleted |-> FALSE]]
    /\ Done(h)
    /\ UNCHANGED <<sockets, members, client, now, raced>>

(* deleteMessage looks the message up among those of the user that are not deleted, and
   writes by its id alone. *)
FindOwnMessage(h) ==
    /\ At(h, "own")
    /\ IF \A m \in handler[h].ids : message[m].sender = handler[h].user /\ ~message[m].deleted
       THEN Go(h, "erase") ELSE Done(h)
    /\ UNCHANGED <<sockets, members, message, client, now, raced>>

EraseMessage(h) ==
    /\ At(h, "erase") /\ Done(h)
    /\ message' = [m \in Messages |-> IF m \in handler[h].ids
                                      THEN [message[m] EXCEPT !.deleted = TRUE]
                                      ELSE message[m]]
    /\ UNCHANGED <<sockets, members, client, now, raced>>

-----------------------------------------------------------------------------
(* getMessages. *)

Beyond(m, c) ==
    c.cursor # None => IF c.dir = "before" THEN message[m].at < c.cursor ELSE message[m].at > c.cursor

(* Does m come before n in the order of the query? *)
Ahead(m, n, dir) ==
    IF dir = "before" THEN message[m].at > message[n].at ELSE message[m].at < message[n].at

(* The first messages of a set in that order; equal times are in any order. *)
FirstOf(S, k, dir) ==
    {T \in SUBSET S : /\ Cardinality(T) = IF Cardinality(S) < k THEN Cardinality(S) ELSE k
                      /\ \A m \in T, n \in S \ T : ~Ahead(n, m, dir)}

(* The next cursor, the time of the last message of the page, when there are more. *)
NextCursors(T, dir, more) ==
    IF more THEN {t \in {message[m].at : m \in T} :
                    \A m \in T : IF dir = "before" THEN t <= message[m].at ELSE t >= message[m].at}
    ELSE {None}

Shown(c, T, cursor) ==
    [peer |-> c.peer, state |-> IF cursor = None THEN "end" ELSE "more", dir |-> c.dir,
     cursor |-> cursor, shown |-> c.shown \cup T, due |-> c.due,
     repeated |-> c.repeated \/ T \cap c.shown # {}]
Shows(h, u, T, cursor) == client' = [client EXCEPT ![u] = Shown(@, T, cursor)] /\ Done(h)

(* A mutant: the cursor is taken from the extra message. *)
GetMessagesPast(h) ==
    /\ At(h, "page")
    /\ LET u == handler[h].user  c == client[u]
           S == {m \in In(handler[h].room) : ~message[m].deleted /\ Beyond(m, c)} IN
         \E X \in FirstOf(S, Limit + 1, c.dir) : \E T \in FirstOf(X, Limit, c.dir) :
         \E cursor \in NextCursors(X, c.dir, Cardinality(X) > Limit) : Shows(h, u, T, cursor)
    /\ UNCHANGED <<sockets, members, message, now, raced>>

(* One message more than the page holds tells whether there are more. *)
GetMessages(h) ==
    /\ At(h, "page")
    /\ LET u == handler[h].user  c == client[u]
           S == {m \in In(handler[h].room) : ~message[m].deleted /\ Beyond(m, c)} IN
         \E X \in FirstOf(S, Limit + 1, c.dir) : \E T \in FirstOf(X, Limit, c.dir) :
         \E cursor \in NextCursors(T, c.dir, Cardinality(X) > Limit) : Shows(h, u, T, cursor)
    /\ UNCHANGED <<sockets, members, message, now, raced>>

-----------------------------------------------------------------------------
(* A call throws: the handler sends message_error and ends, and the client of a reader
   may ask again. *)
CallFails(h) ==
    /\ handler[h].pc \in Failing /\ Done(h)
    /\ client' = IF handler[h].op = "page" THEN [client EXCEPT ![handler[h].user].state = "more"]
                 ELSE client
    /\ UNCHANGED <<sockets, members, message, now, raced>>

Tick == now < MaxClock /\ now' = now + 1
        /\ UNCHANGED <<sockets, members, message, handler, client, raced>>

Begins(h) == handler[h] = Idle /\ \E u \in Users :
    \/ \E v \in Users : HandlePrivateMessage(h, u, v)
    \/ \E m \in Stored : HandleDeleteMessage(h, u, m)
    \/ u \in Readers /\ HandleGetPrivateMessages(h, u)

Proceeds(h) ==
    \/ FindRoom(h) \/ CreateRoom(h) \/ InsertMessage(h)
    \/ FindOwnMessage(h) \/ EraseMessage(h)
    \/ GetMessages(h) \/ CallFails(h)

Next ==
    \/ \E s \in Sockets : HandleConnection(s) \/ HandleDisconnect(s)
    \/ \E h \in Handlers : Begins(h) \/ Proceeds(h)
    \/ \E u \in Readers, v \in Users, dir \in Directions : BeginReading(u, v, dir)
    \/ Tick

Spec == Init /\ [][Next]_vars

-----------------------------------------------------------------------------
(* Properties. *)

(* Every variable has its type, and a handler that has a room has one with members:
   getOrCreatePrivateRoom makes the room and its rows in one write. *)
TypeOK ==
    /\ conn \in [Sockets -> {"new", "open", "closed"}]
    /\ session \in [Users -> Sockets \cup {None}]
    /\ members \in [Rooms -> SUBSET Users]
    /\ message \in [Messages -> [room: Rooms \cup {None}, sender: Users \cup {None}, at: 0 .. MaxClock,
                                 deleted: BOOLEAN]]
    /\ handler \in [Handlers -> [op: Ops \cup {None}, user: Users \cup {None}, peer: Users \cup {None},
                                 room: Rooms \cup {None},
                                 ids: SUBSET Messages, pc: Calls \cup {"idle"}]]
    /\ \A h \in Handlers : handler[h].room # None => members[handler[h].room] # {}
    /\ client \in [Readers -> [peer: Users \cup {None}, state: {"none", "more", "waiting", "end"},
                               dir: {"before", "after"}, cursor: (0 .. MaxClock) \cup {None},
                               shown: SUBSET Messages, due: SUBSET Messages, repeated: BOOLEAN]]
    /\ now \in 0 .. MaxClock /\ raced \subseteq SUBSET Users

(* However the sockets of a user come and go, at most one of them is connected, and it is
   the one userSockets has: handleDisconnect of a refused socket leaves the session alone. *)
OneSocketPerUser ==
    \A s \in Sockets : conn[s] = "open" => session[Owner[s]] = s

(* Two users have two private rooms only if two handlers looked for one at the same time. *)
PrivateRoomOnce ==
    \A q, r \in Rooms : q # r /\ members[q] = members[r] /\ members[q] # {} => members[q] \in raced

(* A client that has paged to the end has seen every message that was there when it
   began and was not deleted, while messages were sent and deleted in between, unless
   another message of the room has the same time, or the users have two rooms. *)
PagesCoverHistory ==
    \A u \in Readers : client[u].state = "end" =>
      \A m \in client[u].due \ client[u].shown :
        \/ message[m].deleted \/ {u, client[u].peer} \in raced
        \/ \E n \in In(message[m].room) \ {m} : message[n].at = message[m].at

(* No page shows a message again. *)
PagesDoNotRepeat == \A u \in Readers : ~client[u].repeated

(* What a client pages through is the history, once: the two properties above. *)
PagesAreTheHistory == PagesCoverHistory /\ PagesDoNotRepeat
=============================================================================
