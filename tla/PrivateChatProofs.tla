-------------------------- MODULE PrivateChatProofs --------------------------
(***************************************************************************)
(* Theorems about PrivateChat, for any users, sockets, rooms, messages and    *)
(* handlers, any length of a page, and whichever calls fail.                 *)
(*                                                                         *)
(* The handlers that look for a room and the rooms there are make one        *)
(* invariant; a second one relates what a client has shown to the cursor it   *)
(* asks with next.                                                          *)
(***************************************************************************)
EXTENDS PrivateChat, FiniteSetTheorems, TLAPS

HandlerType ==
    [op: Ops \cup {None}, user: Users \cup {None}, peer: Users \cup {None}, room: Rooms \cup {None},
     ids: SUBSET Messages, pc: Calls \cup {"idle"}]
MessageType ==
    [room: Rooms \cup {None}, sender: Users \cup {None}, at: 0 .. MaxClock, deleted: BOOLEAN]
ClientType ==
    [peer: Users \cup {None}, state: {"none", "more", "waiting", "end"}, dir: {"before", "after"},
     cursor: (0 .. MaxClock) \cup {None}, shown: SUBSET Messages, due: SUBSET Messages,
     repeated: BOOLEAN]

(* Where a handler of each kind may be, and what it has by then. *)
Fit(q) ==
    /\ q.op = "send" => q.pc \in {"room", "create", "insert"}
    /\ q.op = "page" => q.pc \in {"room", "create", "page"}
    /\ q.op = "delete" => q.pc \in {"own", "erase"}
    /\ q.op = None <=> q.pc = "idle"
    /\ q.op # None => q.user \in Users
    /\ q.op \in {"send", "page"} => q.peer \in Users
    /\ q.room # None <=> q.pc \in {"insert", "page"}

HandlersOK ==
    /\ handler \in [Handlers -> HandlerType] /\ \A h \in Handlers : Fit(handler[h])
    /\ \A h \in Handlers : handler[h].room # None => members[handler[h].room] = Between(h)

TablesOK ==
    /\ conn \in [Sockets -> {"new", "open", "closed"}] /\ session \in [Users -> Sockets \cup {None}]
    /\ members \in [Rooms -> SUBSET Users] /\ message \in [Messages -> MessageType]
    /\ client \in [Readers -> ClientType]
    /\ \A u \in Readers : client[u].state # "none" => client[u].peer \in Users
    /\ now \in 0 .. MaxClock /\ raced \subseteq SUBSET Users

(* A client waits for the one page it asked for. *)
WaitingOK ==
    /\ \A h \in Handlers : handler[h].op = "page" =>
         LET u == handler[h].user IN
           u \in Readers /\ client[u].state = "waiting" /\ client[u].peer = handler[h].peer
    /\ \A g, h \in Handlers :
         handler[g].op = "page" /\ handler[h].op = "page" /\ handler[g].user = handler[h].user => g = h

TInv == HandlersOK /\ TablesOK /\ WaitingOK
-----------------------------------------------------------------------------
(* Handlers *)

(* One handler moves; the others stay. *)
Becomes(h, q) ==
    /\ q \in HandlerType /\ Fit(q) /\ handler'[h] = q
    /\ \A g \in Handlers \ {h} : handler'[g] = handler[g]
    /\ handler' \in [Handlers -> HandlerType]

LEMMA Becoming ==
    ASSUME TInv, NEW h \in Handlers, NEW q \in HandlerType, Fit(q), handler' = [handler EXCEPT ![h] = q]
    PROVE  Becomes(h, q)
BY DEF TInv, HandlersOK, Becomes

LEMMA Ending ==
    ASSUME TInv, NEW h \in Handlers, Done(h)
    PROVE  Becomes(h, Idle) /\ Idle.op = None /\ Idle.room = None /\ Idle.pc = "idle"
<1>1. /\ Idle \in HandlerType /\ Idle.op = None /\ Idle.room = None /\ Idle.pc = "idle"
  BY PrivateChatAssumption DEF Idle, Beginning, HandlerType
<1>2. Fit(Idle)
  BY <1>1, PrivateChatAssumption DEF Fit, Ops
<1> QED BY <1>1, <1>2, Becoming DEF Done

LEMMA Going ==
    ASSUME TInv, NEW h \in Handlers, NEW pc \in Calls, Go(h, pc),
           \/ handler[h].pc = "room" /\ pc = "create"
           \/ handler[h].pc = "own" /\ pc = "erase"
    PROVE  \E q : /\ Becomes(h, q) /\ q.pc = pc /\ q.op = handler[h].op /\ q.user = handler[h].user
                  /\ q.peer = handler[h].peer /\ q.room = None
<1>1. handler[h] \in HandlerType /\ Fit(handler[h])
  BY DEF TInv, HandlersOK
<1>2. PICK q : q = [handler[h] EXCEPT !.pc = pc]
  OBVIOUS
<1>3. /\ q \in HandlerType /\ q.pc = pc /\ q.op = handler[h].op /\ q.user = handler[h].user
      /\ q.peer = handler[h].peer /\ q.room = handler[h].room
  BY <1>1, <1>2 DEF HandlerType
<1>4. Fit(q) /\ q.room = None
  BY <1>1, <1>3, PrivateChatAssumption DEF Fit, Ops, HandlerType
<1>5. handler' = [handler EXCEPT ![h] = q]
  BY <1>2 DEF Go
<1> QED BY <1>3, <1>4, <1>5, Becoming

(* The handler has got the room of its two users. *)
LEMMA Rooming ==
    ASSUME TInv, NEW h \in Handlers, handler[h].pc \in {"room", "create"}, NEW r \in Rooms,
           handler' = [handler EXCEPT ![h] = WithRoom(@, r)]
    PROVE  \E q : /\ Becomes(h, q) /\ q.room = r /\ q.op = handler[h].op /\ q.user = handler[h].user
                  /\ q.peer = handler[h].peer /\ q.pc \in {"insert", "page"}
                  /\ handler[h].user \in Users /\ handler[h].peer \in Users
<1>1. handler[h] \in HandlerType /\ Fit(handler[h])
  BY DEF TInv, HandlersOK
<1>2. handler[h].op \in {"send", "page"} /\ handler[h].user \in Users /\ handler[h].peer \in Users
  BY <1>1, PrivateChatAssumption DEF Fit, HandlerType, Ops
<1>3. PICK q : q = WithRoom(handler[h], r)
  OBVIOUS
<1>4. /\ q.room = r /\ q.op = handler[h].op /\ q.user = handler[h].user
      /\ q.peer = handler[h].peer /\ q.ids = handler[h].ids
      /\ q.pc = IF q.op = "send" THEN "insert" ELSE "page"
      /\ q \in HandlerType
  BY <1>1, <1>3 DEF WithRoom, AfterRoom, HandlerType, Calls
<1>5. Fit(q)
  BY <1>2, <1>4, PrivateChatAssumption DEF Fit, Ops
<1>6. handler' = [handler EXCEPT ![h] = q]
  BY <1>3
<1> QED BY <1>2, <1>4, <1>5, <1>6, Becoming

LEMMA Starting ==
    ASSUME NEW op \in Ops, NEW u \in Users, NEW v \in Users \cup {None},
           NEW ids \in SUBSET Messages, NEW pc \in Calls,
           op = "delete" => pc = "own", op # "delete" => pc = "room" /\ v \in Users,
           NEW q, q = Beginning(op, u, v, ids, pc)
    PROVE  /\ q \in HandlerType /\ Fit(q) /\ q.op = op /\ q.user = u /\ q.peer = v /\ q.pc = pc
           /\ q.room = None
<1>1. /\ q \in HandlerType /\ q.op = op /\ q.user = u /\ q.peer = v /\ q.pc = pc /\ q.room = None
  BY DEF Beginning, HandlerType
<1>2. Fit(q)
  BY <1>1, PrivateChatAssumption DEF Fit, Ops, Calls
<1> QED BY <1>1, <1>2

-----------------------------------------------------------------------------
(* Types *)

(* A handler begins. *)
LEMMA Beginnings ==
    ASSUME TInv, NEW h \in Handlers, Begins(h)
    PROVE  \E q : /\ Becomes(h, q) /\ q.room = None /\ q.pc \in {"room", "own"}
                  /\ UNCHANGED <<conn, session, members, message, now, raced>>
                  /\ handler[h] = Idle
                  /\ \/ q.op # "page" /\ UNCHANGED client
                     \/ /\ q.op = "page" /\ q.user \in Readers /\ client[q.user].state = "more"
                        /\ q.peer = client[q.user].peer
                        /\ client' = [client EXCEPT ![q.user].state = "waiting"]
<1> USE PrivateChatAssumption
<1>1. ASSUME NEW u \in Users, NEW v \in Users, HandlePrivateMessage(h, u, v)
      PROVE  \E q : /\ Becomes(h, q) /\ q.room = None /\ q.pc = "room" /\ q.op = "send"
                    /\ UNCHANGED client /\ handler[h] = Idle
                    /\ UNCHANGED <<conn, session, members, message, now, raced>>
  <2>1. /\ handler' = [handler EXCEPT ![h] = Beginning("send", u, v, {}, "room")] /\ handler[h] = Idle
        /\ UNCHANGED <<conn, session, members, message, client, now, raced>>
    BY <1>1 DEF HandlePrivateMessage, Begin, sockets
  <2>2. PICK q : q = Beginning("send", u, v, {}, "room")
    OBVIOUS
  <2>3. "send" \in Ops /\ "room" \in Calls /\ {} \in SUBSET Messages /\ v \in Users \cup {None}
    BY DEF Ops, Calls
  <2>4. q \in HandlerType /\ Fit(q) /\ q.op = "send" /\ q.pc = "room" /\ q.room = None
    BY <2>2, <2>3, Starting
  <2> QED BY <2>1, <2>2, <2>4, Becoming
<1>2. ASSUME NEW u \in Users, NEW m \in Stored, HandleDeleteMessage(h, u, m)
      PROVE  \E q : /\ Becomes(h, q) /\ q.room = None /\ q.pc = "own" /\ q.op = "delete"
                    /\ UNCHANGED client /\ handler[h] = Idle
                    /\ UNCHANGED <<conn, session, members, message, now, raced>>
  <2>1. /\ handler' = [handler EXCEPT ![h] = Beginning("delete", u, None, {m}, "own")] /\ handler[h] = Idle
        /\ UNCHANGED <<conn, session, members, message, client, now, raced>>
    BY <1>2 DEF HandleDeleteMessage, Begin, sockets
  <2>2. {m} \in SUBSET Messages
    BY DEF Stored
  <2>3. PICK q : q = Beginning("delete", u, None, {m}, "own")
    OBVIOUS
  <2>4. "delete" \in Ops /\ "own" \in Calls /\ None \in Users \cup {None}
    BY DEF Ops, Calls
  <2>5. q \in HandlerType /\ Fit(q) /\ q.op = "delete" /\ q.pc = "own" /\ q.room = None
    BY <2>2, <2>3, <2>4, Starting
  <2> QED BY <2>1, <2>3, <2>5, Becoming
<1>3. ASSUME NEW u \in Users, u \in Readers, HandleGetPrivateMessages(h, u)
      PROVE  \E q : /\ Becomes(h, q) /\ q.room = None /\ q.pc = "room" /\ q.op = "page"
                    /\ q.user = u /\ client[u].state = "more" /\ q.peer = client[u].peer
                    /\ client' = [client EXCEPT ![u].state = "waiting"] /\ handler[h] = Idle
                    /\ UNCHANGED <<conn, session, members, message, now, raced>>
  <2>1. /\ handler' = [handler EXCEPT ![h] = Beginning("page", u, client[u].peer, {}, "room")]
        /\ client[u].state = "more" /\ client' = [client EXCEPT ![u].state = "waiting"]
        /\ UNCHANGED <<conn, session, members, message, now, raced>> /\ handler[h] = Idle
    BY <1>3 DEF HandleGetPrivateMessages, sockets
  <2>2. client[u].peer \in Users
    BY <1>3, <2>1 DEF TInv, TablesOK, ClientType
  <2>3. PICK q : q = Beginning("page", u, client[u].peer, {}, "room")
    OBVIOUS
  <2>4. "page" \in Ops /\ "room" \in Calls /\ {} \in SUBSET Messages /\ client[u].peer \in Users \cup {None}
    BY <2>2 DEF Ops, Calls
  <2>5. /\ q \in HandlerType /\ Fit(q) /\ q.op = "page" /\ q.user = u /\ q.peer = client[u].peer
        /\ q.pc = "room" /\ q.room = None
    BY <2>2, <2>3, <2>4, Starting
  <2> QED BY <2>1, <2>3, <2>5, Becoming
<1>4. \/ \E u \in Users, v \in Users : HandlePrivateMessage(h, u, v)
      \/ \E u \in Users, m \in Stored : HandleDeleteMessage(h, u, m)
      \/ \E u \in Users : u \in Readers /\ HandleGetPrivateMessages(h, u)
  BY DEF Begins
<1>5. CASE \E u \in Users, v \in Users : HandlePrivateMessage(h, u, v)
  BY <1>1, <1>5
<1>6. CASE \E u \in Users, m \in Stored : HandleDeleteMessage(h, u, m)
  BY <1>2, <1>6
<1>7. CASE \E u \in Users : u \in Readers /\ HandleGetPrivateMessages(h, u)
  <2>1. PICK u \in Users : u \in Readers /\ HandleGetPrivateMessages(h, u)
    BY <1>7
  <2>2. PICK q : /\ Becomes(h, q) /\ q.room = None /\ q.pc = "room" /\ q.op = "page"
                 /\ q.user = u /\ client[u].state = "more" /\ q.peer = client[u].peer
                 /\ client' = [client EXCEPT ![u].state = "waiting"] /\ handler[h] = Idle
                 /\ UNCHANGED <<conn, session, members, message, now, raced>>
    BY <1>3, <2>1
  <2>3. client' = [client EXCEPT ![q.user].state = "waiting"]
    BY <2>2
  <2> QED BY <2>1, <2>2, <2>3
<1> QED BY <1>4, <1>5, <1>6, <1>7

(* The room of the two users is found, or there is none. *)
LEMMA Finding ==
    ASSUME TInv, NEW h \in Handlers, FindRoom(h)
    PROVE  \E q : /\ Becomes(h, q) /\ handler[h].pc = "room"
                  /\ q.op = handler[h].op /\ q.user = handler[h].user /\ q.peer = handler[h].peer
                  /\ UNCHANGED <<conn, session, members, message, client, now>>
                  /\ \/ /\ q.room \in Rooms /\ members[q.room] = {q.user, q.peer} /\ UNCHANGED raced
                        /\ q.pc \in {"insert", "page"}
                     \/ /\ q.room = None /\ q.pc = "create"
                        /\ \A r \in Rooms : members[r] # Between(h)
                        /\ raced' = IF \E g \in Handlers \ {h} : At(g, "create") /\ Between(g) = Between(h)
                                    THEN raced \cup {Between(h)} ELSE raced
<1>1. handler[h].pc = "room" /\ UNCHANGED <<conn, session, members, message, client, now>>
  BY DEF FindRoom, At, sockets
<1>2. ASSUME NEW r \in Rooms, members[r] = Between(h), handler' = [handler EXCEPT ![h] = WithRoom(@, r)]
      PROVE  \E q : /\ Becomes(h, q) /\ q.op = handler[h].op /\ q.user = handler[h].user
                    /\ q.peer = handler[h].peer /\ q.room \in Rooms
                    /\ members[q.room] = {q.user, q.peer} /\ q.pc \in {"insert", "page"}
  <2>1. PICK q : /\ Becomes(h, q) /\ q.room = r /\ q.op = handler[h].op /\ q.user = handler[h].user
                 /\ q.peer = handler[h].peer /\ q.pc \in {"insert", "page"}
    BY <1>1, <1>2, Rooming
  <2> QED BY <1>2, <2>1 DEF Between
<1>3. ASSUME Go(h, "create")
      PROVE  \E q : /\ Becomes(h, q) /\ q.op = handler[h].op /\ q.user = handler[h].user
                    /\ q.peer = handler[h].peer /\ q.room = None /\ q.pc = "create"
  BY <1>1, <1>3, Going DEF Calls
<1> QED BY <1>1, <1>2, <1>3 DEF FindRoom

LEMMA Creating ==
    ASSUME TInv, NEW h \in Handlers, CreateRoom(h)
    PROVE  \E q, r : /\ Becomes(h, q) /\ handler[h].pc = "create" /\ r \in Rooms /\ members[r] = {}
                     /\ q.op = handler[h].op /\ q.user = handler[h].user /\ q.peer = handler[h].peer
                     /\ q.room = r /\ q.user \in Users /\ q.peer \in Users /\ q.pc \in {"insert", "page"}
                     /\ members' = [members EXCEPT ![r] = {q.user, q.peer}]
                     /\ UNCHANGED <<conn, session, message, client, now, raced>>
<1>1. PICK r \in Rooms : /\ members[r] = {} /\ members' = [members EXCEPT ![r] = Between(h)]
                         /\ handler' = [handler EXCEPT ![h] = WithRoom(@, r)]
  BY DEF CreateRoom
<1>2. handler[h].pc = "create" /\ UNCHANGED <<conn, session, message, client, now, raced>>
  BY DEF CreateRoom, At, sockets
<1> QED BY <1>1, <1>2, Rooming DEF Between

LEMMA Inserting ==
    ASSUME TInv, NEW h \in Handlers, InsertMessage(h)
    PROVE  /\ Done(h) /\ handler[h].pc = "insert" /\ handler[h].room \in Rooms
           /\ members[handler[h].room] = Between(h)
           /\ UNCHANGED <<conn, session, members, client, now, raced>>
           /\ message' \in [Messages -> MessageType]
           /\ \E m \in Messages \ Stored :
                /\ message'[m].room = handler[h].room /\ ~message'[m].deleted
                /\ \A n \in Messages \ {m} : message'[n] = message[n]
<1>1. PICK m \in Messages \ Stored :
        message' = [message EXCEPT ![m] =
                      [room |-> handler[h].room, sender |-> handler[h].user, at |-> now, deleted |-> FALSE]]
  BY DEF InsertMessage
<1>2. /\ handler[h].pc = "insert" /\ Done(h)
      /\ UNCHANGED <<conn, session, members, client, now, raced>>
  BY DEF InsertMessage, At, sockets
<1>3. handler[h] \in HandlerType /\ Fit(handler[h]) /\ now \in 0 .. MaxClock /\ message \in [Messages -> MessageType]
  BY DEF TInv, HandlersOK, TablesOK
<1>4. handler[h].room \in Rooms /\ handler[h].user \in Users
  BY <1>2, <1>3, PrivateChatAssumption DEF Fit, HandlerType
<1>5. members[handler[h].room] = Between(h)
  BY <1>4, PrivateChatAssumption DEF TInv, HandlersOK
<1>6. PICK q : q = [room |-> handler[h].room, sender |-> handler[h].user, at |-> now, deleted |-> FALSE]
  OBVIOUS
<1>7. q \in MessageType /\ q.room = handler[h].room /\ ~q.deleted
  BY <1>3, <1>4, <1>6 DEF MessageType
<1> QED BY <1>1, <1>2, <1>3, <1>4, <1>5, <1>6, <1>7

(* A message is deleted: it keeps its room and its time. *)
LEMMA Erasing ==
    ASSUME TInv, NEW h \in Handlers, EraseMessage(h)
    PROVE  /\ Done(h) /\ UNCHANGED <<conn, session, members, client, now, raced>>
           /\ message' \in [Messages -> MessageType]
           /\ \A m \in Messages : /\ message'[m].room = message[m].room /\ message'[m].at = message[m].at
                                  /\ message[m].deleted => message'[m].deleted
<1>1. /\ Done(h) /\ UNCHANGED <<conn, session, members, client, now, raced>>
      /\ message' = [m \in Messages |-> IF m \in handler[h].ids
                                        THEN [message[m] EXCEPT !.deleted = TRUE]
                                        ELSE message[m]]
  BY DEF EraseMessage, sockets
<1>2. ASSUME NEW m \in Messages
      PROVE  /\ message'[m] \in MessageType /\ message'[m].room = message[m].room
             /\ message'[m].at = message[m].at /\ (message[m].deleted => message'[m].deleted)
  <2>1. message[m] \in MessageType
    BY DEF TInv, TablesOK
  <2>2. PICK q : q = [message[m] EXCEPT !.deleted = TRUE]
    OBVIOUS
  <2>3. q \in MessageType /\ q.room = message[m].room /\ q.at = message[m].at /\ q.deleted
    BY <2>1, <2>2 DEF MessageType
  <2>4. message'[m] = q \/ message'[m] = message[m]
    BY <1>1, <2>2
  <2> QED BY <2>1, <2>3, <2>4
<1> QED BY <1>1, <1>2

LEMMA Owning ==
    ASSUME TInv, NEW h \in Handlers, FindOwnMessage(h)
    PROVE  \E q : /\ Becomes(h, q) /\ q.room = None /\ q.op # "page" /\ q.pc \in {"idle", "erase"}
                  /\ handler[h].op = "delete"
                  /\ UNCHANGED <<conn, session, members, message, client, now, raced>>
<1>1. handler[h].pc = "own" /\ UNCHANGED <<conn, session, members, message, client, now, raced>>
  BY DEF FindOwnMessage, At, sockets
<1>2. handler[h].op = "delete"
  BY <1>1, PrivateChatAssumption DEF TInv, HandlersOK, Fit, HandlerType, Ops
<1>3. CASE Go(h, "erase")
  BY <1>1, <1>2, <1>3, Going DEF Calls
<1>4. CASE Done(h)
  BY <1>1, <1>2, <1>4, Ending, PrivateChatAssumption DEF Ops
<1> QED BY <1>3, <1>4 DEF FindOwnMessage

(* The record of a client *)
LEMMA Waits ==
    ASSUME NEW c \in ClientType, NEW x \in {"more", "waiting"}, NEW d, d = [c EXCEPT !.state = x]
    PROVE  /\ d \in ClientType /\ d.state = x /\ d.peer = c.peer /\ d.dir = c.dir /\ d.cursor = c.cursor
           /\ d.shown = c.shown /\ d.due = c.due /\ d.repeated = c.repeated
BY PrivateChatAssumption DEF ClientType

(* A page is shown: X is what the query gives, T the page, and d the client after it. *)
Page(h, u, d, S, X, T) ==
    /\ u \in Readers /\ u = handler[h].user /\ handler[h].pc = "page" /\ handler[h].op = "page"
    /\ T \subseteq Messages
    /\ S = {m \in In(handler[h].room) : ~message[m].deleted /\ Beyond(m, client[u])}
    /\ X \in FirstOf(S, Limit + 1, client[u].dir) /\ T \in FirstOf(X, Limit, client[u].dir)
    /\ d.cursor \in NextCursors(T, client[u].dir, Cardinality(X) > Limit)

Showing(c, d, T) ==
    /\ d \in ClientType /\ d.peer = c.peer /\ d.dir = c.dir /\ d.shown = c.shown \cup T /\ d.due = c.due
    /\ d.cursor = None => d.state = "end"
    /\ d.cursor # None => d.state = "more"
    /\ (c.repeated = FALSE /\ T \cap c.shown = {}) => d.repeated = FALSE

LEMMA Paging ==
    ASSUME TInv, NEW h \in Handlers, GetMessages(h)
    PROVE  \E u, d, S, X, T :
             /\ Page(h, u, d, S, X, T) /\ Showing(client[u], d, T) /\ Done(h)
             /\ client' = [client EXCEPT ![u] = d]
             /\ UNCHANGED <<conn, session, members, message, now, raced>>
<1>1. /\ handler[h].pc = "page" /\ UNCHANGED <<conn, session, members, message, now, raced>>
  BY DEF GetMessages, At, sockets
<1>2. PICK u : u = handler[h].user
  OBVIOUS
<1>3. handler[h].op = "page"
  BY <1>1, PrivateChatAssumption DEF TInv, HandlersOK, Fit, HandlerType, Ops
<1>4. u \in Readers /\ message \in [Messages -> MessageType] /\ client[u] \in ClientType
  BY <1>2, <1>3 DEF TInv, TablesOK, WaitingOK
<1>5. PICK S, X, T, cursor :
        /\ S = {m \in In(handler[h].room) : ~message[m].deleted /\ Beyond(m, client[u])}
        /\ X \in FirstOf(S, Limit + 1, client[u].dir) /\ T \in FirstOf(X, Limit, client[u].dir)
        /\ cursor \in NextCursors(T, client[u].dir, Cardinality(X) > Limit)
        /\ client' = [client EXCEPT ![u] = Shown(client[u], T, cursor)] /\ Done(h)
  BY <1>2 DEF GetMessages, Shows
<1>6. T \subseteq Messages
  BY <1>5 DEF FirstOf, In, Stored
<1>7. cursor \in (0 .. MaxClock) \cup {None}
  BY <1>4, <1>5, <1>6 DEF NextCursors, MessageType
<1>8. PICK c \in ClientType : c = client[u]
  BY <1>4
<1>9. PICK b \in BOOLEAN : b = (c.repeated \/ T \cap c.shown # {})
  OBVIOUS
<1>10. PICK d : d = [peer |-> c.peer, state |-> IF cursor = None THEN "end" ELSE "more", dir |-> c.dir,
                     cursor |-> cursor, shown |-> c.shown \cup T, due |-> c.due, repeated |-> b]
  OBVIOUS
<1>11. Shown(c, T, cursor) = d
  BY <1>9, <1>10, Zenon DEF Shown
<1>12. Showing(c, d, T)
  <2>1. c.shown \cup T \in SUBSET Messages
    BY <1>6, <1>8 DEF ClientType
  <2>2. d \in ClientType
    BY <1>7, <1>8, <1>9, <1>10, <2>1 DEF ClientType
  <2>3. (c.repeated = FALSE /\ T \cap c.shown = {}) => b = FALSE
    BY <1>9, Zenon
  <2>4. (c.repeated = FALSE /\ T \cap c.shown = {}) => d.repeated = FALSE
    BY <1>10, <2>3
  <2> QED BY <1>10, <2>2, <2>4 DEF Showing
<1>13. d.cursor = cursor
  BY <1>10
<1>14. Page(h, u, d, S, X, T)
  BY <1>1, <1>2, <1>3, <1>4, <1>5, <1>6, <1>13 DEF Page
<1>15. client' = [client EXCEPT ![u] = d] /\ Showing(client[u], d, T)
  BY <1>5, <1>8, <1>11, <1>12
<1> QED BY <1>1, <1>5, <1>14, <1>15

LEMMA FailedCall ==
    ASSUME TInv, NEW h \in Handlers, CallFails(h)
    PROVE  /\ Done(h) /\ UNCHANGED <<conn, session, members, message, now, raced>>
           /\ \/ handler[h].op # "page" /\ UNCHANGED client
              \/ /\ handler[h].op = "page" /\ handler[h].user \in Readers
                 /\ client' = [client EXCEPT ![handler[h].user].state = "more"]
BY DEF CallFails, TInv, WaitingOK, sockets

(* The rooms that have members keep them. *)
RoomsKept == \A r \in Rooms : members[r] # {} => members'[r] = members[r]

LEMMA HandlersKept ==
    ASSUME TInv, NEW h \in Handlers, NEW q, Becomes(h, q), RoomsKept,
           q.room # None => members'[q.room] = {q.user, q.peer}
    PROVE  HandlersOK'
<1>1. /\ handler' \in [Handlers -> HandlerType] /\ \A g \in Handlers : Fit(handler'[g])
      /\ handler'[h] = q
  BY DEF Becomes, TInv, HandlersOK
<1>2. ASSUME NEW g \in Handlers, g # h, handler'[g].room # None
      PROVE  members'[handler'[g].room] = {handler'[g].user, handler'[g].peer}
  <2>1. handler'[g] = handler[g] /\ handler[g] \in HandlerType
    BY <1>2 DEF Becomes, TInv, HandlersOK
  <2>2. members[handler[g].room] = Between(g) /\ handler[g].room \in Rooms
    BY <1>2, <2>1 DEF TInv, HandlersOK, HandlerType
  <2>3. members[handler[g].room] # {}
    BY <2>2 DEF Between
  <2> QED BY <2>1, <2>2, <2>3 DEF RoomsKept, Between
<1> QED BY <1>1, <1>2 DEF HandlersOK, Between

LEMMA SameHandlers ==
    ASSUME TInv, UNCHANGED <<handler, members>>
    PROVE  HandlersOK'
BY DEF TInv, HandlersOK, Between

(* The clients that wait *)
LEMMA WaitingKept ==
    ASSUME TInv, NEW h \in Handlers, NEW q, Becomes(h, q), q.op = "page" => handler[h].op = "page",
           q.op = "page" => q.user = handler[h].user /\ q.peer = handler[h].peer,
           \A u \in Readers : client'[u] = client[u]
                              \/ (handler[h].op = "page" /\ handler[h].user = u /\ q.op # "page")
    PROVE  WaitingOK'
<1>1. \A g \in Handlers : /\ handler'[g].op = "page" => handler[g].op = "page"
                          /\ handler'[g].op = "page" => /\ handler'[g].user = handler[g].user
                                                        /\ handler'[g].peer = handler[g].peer
  BY DEF Becomes
<1>2. ASSUME NEW g \in Handlers, handler'[g].op = "page"
      PROVE  client'[handler'[g].user] = client[handler[g].user] /\ handler[g].user \in Readers
  <2>1. handler[g].op = "page" /\ handler'[g].user = handler[g].user /\ handler[g].user \in Readers
    BY <1>1, <1>2 DEF TInv, WaitingOK
  <2>2. CASE g = h
    BY <1>2, <2>1, <2>2 DEF Becomes
  <2>3. CASE g # h
    BY <2>1, <2>3 DEF TInv, WaitingOK
  <2> QED BY <2>2, <2>3
<1>3. ASSUME NEW g \in Handlers, handler'[g].op = "page", NEW u, u = handler'[g].user
      PROVE  u \in Readers /\ client'[u].state = "waiting" /\ client'[u].peer = handler'[g].peer
  <2>1. handler[g].op = "page" /\ u = handler[g].user /\ handler'[g].peer = handler[g].peer
    BY <1>1, <1>3
  <2>2. client'[u] = client[u]
    BY <1>2, <1>3, <2>1
  <2> QED BY <2>1, <2>2 DEF TInv, WaitingOK
<1>4. ASSUME NEW f \in Handlers, NEW g \in Handlers, handler'[f].op = "page", handler'[g].op = "page",
             handler'[f].user = handler'[g].user
      PROVE  f = g
  <2>1. handler[f].op = "page" /\ handler[g].op = "page" /\ handler[f].user = handler[g].user
    BY <1>1, <1>4
  <2> QED BY <2>1 DEF TInv, WaitingOK
<1> QED BY <1>3, <1>4 DEF WaitingOK

LEMMA WaitingBegins ==
    ASSUME TInv, NEW h \in Handlers, Begins(h)
    PROVE  WaitingOK' /\ client' \in [Readers -> ClientType]
           /\ \A u \in Readers : client'[u].state # "none" => client'[u].peer \in Users
<1>1. PICK q : /\ Becomes(h, q) /\ handler[h] = Idle
               /\ \/ q.op # "page" /\ UNCHANGED client
                  \/ /\ q.op = "page" /\ q.user \in Readers /\ client[q.user].state = "more"
                     /\ q.peer = client[q.user].peer
                     /\ client' = [client EXCEPT ![q.user].state = "waiting"]
  BY Beginnings
<1>2. client \in [Readers -> ClientType]
  BY DEF TInv, TablesOK
<1>3. CASE q.op # "page" /\ UNCHANGED client
  BY <1>1, <1>2, <1>3, WaitingKept DEF TInv, TablesOK
<1>4. CASE /\ q.op = "page" /\ q.user \in Readers /\ client[q.user].state = "more"
           /\ q.peer = client[q.user].peer
           /\ client' = [client EXCEPT ![q.user].state = "waiting"]
  <2>1. PICK u \in Readers : u = q.user
    BY <1>4
  <2>2. PICK d : d = [client[u] EXCEPT !.state = "waiting"]
    OBVIOUS
  <2>3. /\ d \in ClientType /\ d.state = "waiting" /\ d.peer = client[u].peer
    BY <1>2, <2>2, Waits
  <2>4. client' = [client EXCEPT ![u] = d]
    BY <1>4, <2>1, <2>2
  <2>5. /\ client' \in [Readers -> ClientType] /\ client'[u] = d
        /\ \A v \in Readers \ {u} : client'[v] = client[v]
    BY <1>2, <2>3, <2>4
  <2>6. \A g \in Handlers : handler[g].op = "page" => handler[g].user \in Readers \ {u}
    BY <1>4, <2>1 DEF TInv, WaitingOK
  <2>7. \A g \in Handlers \ {h} : handler'[g] = handler[g]
    BY <1>1 DEF Becomes
  <2>8. handler'[h] = q
    BY <1>1 DEF Becomes
  <2>9. \A g \in Handlers : handler'[g].op = "page" =>
          LET v == handler'[g].user IN
            v \in Readers /\ client'[v].state = "waiting" /\ client'[v].peer = handler'[g].peer
    BY <1>4, <2>1, <2>3, <2>5, <2>6, <2>7, <2>8 DEF TInv, WaitingOK
  <2>10. \A f, g \in Handlers :
           handler'[f].op = "page" /\ handler'[g].op = "page" /\ handler'[f].user = handler'[g].user => f = g
    <3> SUFFICES ASSUME NEW f \in Handlers, NEW g \in Handlers, handler'[f].op = "page",
                        handler'[g].op = "page", handler'[f].user = handler'[g].user, f # g
                 PROVE  FALSE
      OBVIOUS
    <3>1. f # h => handler'[f] = handler[f] /\ handler'[f].user # u
      BY <2>6, <2>7
    <3>2. g # h => handler'[g] = handler[g] /\ handler'[g].user # u
      BY <2>6, <2>7
    <3> QED BY <2>1, <2>8, <3>1, <3>2 DEF TInv, WaitingOK
  <2>11. \A v \in Readers : client'[v].state # "none" => client'[v].peer \in Users
    BY <1>4, <2>1, <2>3, <2>5 DEF TInv, TablesOK
  <2> QED BY <2>5, <2>9, <2>10, <2>11 DEF WaitingOK
<1> QED BY <1>1, <1>3, <1>4

LEMMA HandlerSteps ==
    ASSUME TInv, NEW h \in Handlers, Begins(h) \/ Proceeds(h)
    PROVE  TInv'
<1> USE PrivateChatAssumption
<1>1. /\ members \in [Rooms -> SUBSET Users] /\ client \in [Readers -> ClientType]
      /\ raced \subseteq SUBSET Users /\ HandlersOK /\ message \in [Messages -> MessageType]
      /\ \A u \in Readers : client[u].state # "none" => client[u].peer \in Users
  BY DEF TInv, TablesOK
<1>2. ASSUME members' = members PROVE RoomsKept
  BY <1>2 DEF RoomsKept
<1>3. ASSUME UNCHANGED <<conn, session, members, message, now, raced, client>>
      PROVE  TablesOK'
  BY <1>3 DEF TInv, TablesOK
<1>4. CASE Begins(h)
  <2>1. PICK q : /\ Becomes(h, q) /\ q.room = None
                 /\ UNCHANGED <<conn, session, members, message, now, raced>>
    BY <1>4, Beginnings
  <2>2. HandlersOK'
    BY <1>2, <2>1, HandlersKept
  <2>3. WaitingOK' /\ client' \in [Readers -> ClientType]
        /\ \A u \in Readers : client'[u].state # "none" => client'[u].peer \in Users
    BY <1>4, WaitingBegins
  <2>4. TablesOK'
    BY <2>1, <2>3 DEF TInv, TablesOK
  <2> QED BY <2>2, <2>3, <2>4 DEF TInv
<1>5. CASE FindRoom(h)
  <2>1. PICK q : /\ Becomes(h, q)
                 /\ q.op = handler[h].op /\ q.user = handler[h].user /\ q.peer = handler[h].peer
                 /\ UNCHANGED <<conn, session, members, message, client, now>>
                 /\ q.room # None => members[q.room] = {q.user, q.peer}
                 /\ raced' = raced \/ raced' = raced \cup {Between(h)}
    BY <1>5, Finding
  <2>2. HandlersOK'
    BY <1>2, <2>1, HandlersKept
  <2>3. WaitingOK'
    BY <2>1, WaitingKept
  <2>4. raced' \subseteq SUBSET Users
    <3>1. handler[h].op \in {"send", "page"}
      BY <1>5 DEF FindRoom, At, TInv, HandlersOK, Fit, HandlerType, Ops
    <3>2. Between(h) \subseteq Users
      BY <1>1, <3>1 DEF HandlersOK, Fit, Between
    <3> QED BY <1>1, <2>1, <3>2
  <2>5. TablesOK'
    BY <2>1, <2>4 DEF TInv, TablesOK
  <2> QED BY <2>2, <2>3, <2>5 DEF TInv
<1>6. CASE CreateRoom(h)
  <2>1. PICK q, r : /\ Becomes(h, q) /\ r \in Rooms /\ members[r] = {}
                    /\ q.op = handler[h].op /\ q.user = handler[h].user /\ q.peer = handler[h].peer
                    /\ q.room = r /\ q.user \in Users /\ q.peer \in Users
                    /\ members' = [members EXCEPT ![r] = {q.user, q.peer}]
                    /\ UNCHANGED <<conn, session, message, client, now, raced>>
    BY <1>6, Creating
  <2>2. RoomsKept /\ members'[r] = {q.user, q.peer} /\ members' \in [Rooms -> SUBSET Users]
    BY <1>1, <2>1 DEF RoomsKept
  <2>3. HandlersOK'
    BY <2>1, <2>2, HandlersKept
  <2>4. WaitingOK'
    BY <2>1, WaitingKept
  <2>5. TablesOK'
    BY <2>1, <2>2 DEF TInv, TablesOK
  <2> QED BY <2>3, <2>4, <2>5 DEF TInv
<1>7. ASSUME Done(h), UNCHANGED <<conn, session, members, now, raced>>,
             message' \in [Messages -> MessageType], client' \in [Readers -> ClientType],
             \A u \in Readers : client'[u].state # "none" => client'[u].peer \in Users,
             \A u \in Readers : client'[u] = client[u] \/ (handler[h].op = "page" /\ handler[h].user = u)
      PROVE  TInv'
  <2>1. Becomes(h, Idle) /\ Idle.op = None /\ Idle.room = None
    BY <1>7, Ending
  <2>2. HandlersOK'
    BY <1>2, <1>7, <2>1, HandlersKept
  <2>3. WaitingOK'
    BY <1>7, <2>1, WaitingKept DEF Ops
  <2>4. TablesOK'
    BY <1>7 DEF TInv, TablesOK
  <2> QED BY <2>2, <2>3, <2>4 DEF TInv
<1>8. CASE InsertMessage(h)
  BY <1>1, <1>7, <1>8, Inserting
<1>9. CASE EraseMessage(h)
  BY <1>1, <1>7, <1>9, Erasing
<1>10. CASE FindOwnMessage(h)
  <2>1. PICK q : /\ Becomes(h, q) /\ q.room = None /\ q.op # "page"
                 /\ UNCHANGED <<conn, session, members, message, client, now, raced>>
    BY <1>10, Owning
  <2>2. HandlersOK'
    BY <1>2, <2>1, HandlersKept
  <2>3. WaitingOK'
    BY <2>1, WaitingKept
  <2> QED BY <1>3, <2>1, <2>2, <2>3 DEF TInv
<1>11. CASE GetMessages(h)
  <2>1. PICK u, d, S, X, T :
          /\ Page(h, u, d, S, X, T) /\ Showing(client[u], d, T) /\ Done(h)
          /\ client' = [client EXCEPT ![u] = d]
          /\ UNCHANGED <<conn, session, members, message, now, raced>>
    BY <1>11, Paging
  <2>2. u \in Readers /\ u = handler[h].user /\ handler[h].op = "page"
    BY <2>1 DEF Page
  <2>3. d \in ClientType /\ d.peer = client[u].peer
    BY <2>1 DEF Showing
  <2>4. client' \in [Readers -> ClientType] /\ client'[u] = d /\ \A v \in Readers \ {u} : client'[v] = client[v]
    BY <1>1, <2>1, <2>2, <2>3
  <2>5. client[u].state = "waiting"
    BY <2>2 DEF TInv, WaitingOK
  <2> QED BY <1>1, <1>7, <2>1, <2>2, <2>3, <2>4, <2>5
<1>12. CASE CallFails(h)
  <2>1. CASE handler[h].op # "page" /\ UNCHANGED client
    BY <1>1, <1>7, <1>12, <2>1, FailedCall
  <2>2. CASE /\ handler[h].op = "page" /\ handler[h].user \in Readers
             /\ client' = [client EXCEPT ![handler[h].user].state = "more"]
    <3>1. PICK u \in Readers : u = handler[h].user
      BY <2>2
    <3>2. PICK d : d = [client[u] EXCEPT !.state = "more"]
      OBVIOUS
    <3>3. d \in ClientType /\ d.peer = client[u].peer
      BY <1>1, <3>2, Waits
    <3>4. client' = [client EXCEPT ![u] = d]
      BY <2>2, <3>1, <3>2
    <3>5. client' \in [Readers -> ClientType] /\ client'[u] = d /\ \A v \in Readers \ {u} : client'[v] = client[v]
      BY <1>1, <3>3, <3>4
    <3>6. client[u].state = "waiting"
      BY <2>2, <3>1 DEF TInv, WaitingOK
    <3> QED BY <1>1, <1>7, <1>12, <2>2, <3>1, <3>3, <3>5, <3>6, FailedCall
  <2> QED BY <1>12, <2>1, <2>2, FailedCall
<1> QED BY <1>4, <1>5, <1>6, <1>8, <1>9, <1>10, <1>11, <1>12 DEF Proceeds

LEMMA SocketSteps ==
    ASSUME TInv, NEW s \in Sockets, HandleConnection(s) \/ HandleDisconnect(s)
    PROVE  TInv' /\ UNCHANGED <<members, message, handler, client, now, raced>>
<1>1. UNCHANGED <<members, message, handler, client, now, raced>>
  BY DEF HandleConnection, HandleDisconnect
<1>2. Owner[s] \in Users
  BY PrivateChatAssumption
<1>3. conn \in [Sockets -> {"new", "open", "closed"}] /\ session \in [Users -> Sockets \cup {None}]
  BY DEF TInv, TablesOK
<1>4. SessionWithout(s) \in [Users -> Sockets \cup {None}]
  BY <1>2, <1>3 DEF SessionWithout
<1>5. conn' \in [Sockets -> {"new", "open", "closed"}] /\ session' \in [Users -> Sockets \cup {None}]
  BY <1>2, <1>3, <1>4 DEF HandleConnection, HandleDisconnect
<1>6. TablesOK' /\ HandlersOK' /\ WaitingOK'
  BY <1>1, <1>5, SameHandlers DEF TInv, TablesOK, WaitingOK
<1> QED BY <1>1, <1>6 DEF TInv

(* A client begins to read. *)
LEMMA ReadingBegins ==
    ASSUME TInv, NEW u \in Readers, NEW v \in Users, NEW dir \in Directions, BeginReading(u, v, dir)
    PROVE  \E d : /\ d \in ClientType /\ client' = [client EXCEPT ![u] = d] /\ client[u].state = "none"
                  /\ d.peer = v /\ d.state = "more" /\ d.dir = dir /\ d.cursor = None /\ d.shown = {}
                  /\ d.due = {m \in Stored : members[message[m].room] = {u, v} /\ ~message[m].deleted}
                  /\ ~d.repeated
                  /\ UNCHANGED <<conn, session, members, message, handler, now, raced>>
<1> DEFINE D == {m \in Stored : members[message[m].room] = {u, v} /\ ~message[m].deleted}
<1>1. PICK d : d = Reading(v, "more", dir, D)
  OBVIOUS
<1>2. D \in SUBSET Messages
  BY DEF Stored
<1>3. /\ d \in ClientType /\ d.peer = v /\ d.state = "more" /\ d.dir = dir /\ d.cursor = None
      /\ d.shown = {} /\ d.due = D /\ ~d.repeated
  <2> HIDE DEF D
  <2> QED BY <1>1, <1>2, PrivateChatAssumption DEF Reading, ClientType
<1> QED BY <1>1, <1>3 DEF BeginReading, sockets

LEMMA TypeStep == TInv /\ [Next]_vars => TInv'
<1> SUFFICES ASSUME TInv, [Next]_vars PROVE TInv'
  OBVIOUS
<1>1. ASSUME NEW h \in Handlers, Begins(h) \/ Proceeds(h) PROVE TInv'
  BY <1>1, HandlerSteps
<1>2. ASSUME NEW s \in Sockets, HandleConnection(s) \/ HandleDisconnect(s) PROVE TInv'
  BY <1>2, SocketSteps
<1>3. ASSUME NEW u \in Readers, NEW v \in Users, NEW dir \in Directions, BeginReading(u, v, dir)
      PROVE  TInv'
  <2>1. PICK d \in ClientType : /\ client' = [client EXCEPT ![u] = d] /\ client[u].state = "none" /\ d.peer = v
                                /\ UNCHANGED <<conn, session, members, message, handler, now, raced>>
    BY <1>3, ReadingBegins
  <2>2. /\ client' \in [Readers -> ClientType] /\ client'[u] = d
        /\ \A w \in Readers \ {u} : client'[w] = client[w]
    BY <2>1 DEF TInv, TablesOK
  <2>3. HandlersOK' /\ TablesOK'
    BY <2>1, <2>2, SameHandlers DEF TInv, TablesOK
  <2>4. WaitingOK'
    BY <2>1, <2>2 DEF TInv, WaitingOK
  <2> QED BY <2>3, <2>4 DEF TInv
<1>4. CASE Tick
  <2>1. UNCHANGED <<conn, session, members, message, handler, client, raced>> /\ now' \in 0 .. MaxClock
    BY <1>4, PrivateChatAssumption DEF Tick, sockets, TInv, TablesOK
  <2> QED BY <2>1, SameHandlers DEF TInv, TablesOK, WaitingOK
<1>5. CASE UNCHANGED vars
  BY <1>5, SameHandlers DEF vars, TInv, TablesOK, WaitingOK
<1> QED BY <1>1, <1>2, <1>3, <1>4, <1>5 DEF Next

LEMMA TypeInit == Init => TInv
<1> SUFFICES ASSUME Init PROVE TInv
  OBVIOUS
<1> USE PrivateChatAssumption
<1>1. Idle \in HandlerType /\ Idle.op = None /\ Idle.pc = "idle" /\ Idle.room = None
  BY DEF Idle, Beginning, HandlerType
<1>2. Fit(Idle)
  BY <1>1 DEF Fit, Ops
<1>3. HandlersOK
  BY <1>1, <1>2 DEF Init, HandlersOK
<1>4. NoClient \in ClientType /\ NoClient.state = "none"
  BY DEF NoClient, Reading, ClientType
<1>5. NoMessage \in MessageType
  BY DEF NoMessage, MessageType
<1>6. TablesOK
  <2>1. now \in 0 .. MaxClock
    BY DEF Init
  <2> QED BY <1>4, <1>5, <2>1 DEF Init, TablesOK
<1>7. WaitingOK
  <2>1. \A h \in Handlers : handler[h].op # "page"
    BY <1>1 DEF Init, Ops
  <2> QED BY <2>1 DEF WaitingOK
<1> QED BY <1>3, <1>6, <1>7 DEF TInv

LEMMA TypeInvariant == Spec => []TInv
BY TypeInit, TypeStep, PTL DEF Spec

(* Every variable has its type, and a handler that has a room has one with members:
   getOrCreatePrivateRoom makes the room and the rows of its two members in one write. *)
THEOREM TypeCorrect == Spec => []TypeOK
<1>1. TInv => TypeOK
  BY DEF TInv, HandlersOK, TablesOK, HandlerType, MessageType, ClientType, Between, TypeOK
<1> QED BY <1>1, TypeInvariant, PTL

-----------------------------------------------------------------------------
(* Sessions *)

LEMMA SocketsMove ==
    ASSUME TInv, OneSocketPerUser, NEW s \in Sockets, HandleConnection(s) \/ HandleDisconnect(s)
    PROVE  OneSocketPerUser'
<1> USE PrivateChatAssumption
<1>1. /\ conn \in [Sockets -> {"new", "open", "closed"}] /\ session \in [Users -> Sockets \cup {None}]
      /\ Owner[s] \in Users
  BY DEF TInv, TablesOK
<1>2. ASSUME NEW t \in Sockets, conn'[t] = "open" PROVE session'[Owner[t]] = t
  <2>1. Owner[t] \in Users
    OBVIOUS
  <2>2. ASSUME t # s PROVE session[Owner[t]] = t /\ t # None
    <3>1. conn[t] = "open"
      BY <1>1, <1>2, <2>2 DEF HandleConnection, HandleDisconnect
    <3> QED BY <3>1 DEF OneSocketPerUser
  <2>3. CASE session' = SessionWithout(s) /\ conn' = [conn EXCEPT ![s] = "closed"]
    BY <1>1, <1>2, <2>1, <2>2, <2>3 DEF SessionWithout
  <2>4. CASE /\ session[Owner[s]] = None /\ session' = [session EXCEPT ![Owner[s]] = s]
    BY <1>1, <2>1, <2>2, <2>4
  <2> QED BY <2>3, <2>4 DEF HandleConnection, HandleDisconnect
<1> QED BY <1>2 DEF OneSocketPerUser

(* The steps that move no socket *)
LEMMA HandlersMoveNoSocket ==
    ASSUME TInv, NEW h \in Handlers, Begins(h) \/ Proceeds(h)
    PROVE  UNCHANGED <<conn, session>>
BY DEF Begins, Proceeds, HandlePrivateMessage, HandleDeleteMessage, HandleGetPrivateMessages, Begin, FindRoom,
       CreateRoom, InsertMessage, FindOwnMessage, EraseMessage, GetMessages, CallFails, sockets

(* However the sockets of a user come and go, at most one of them is connected, and it is
   the one userSockets has: handleConnection refuses a second one, and handleDisconnect
   of the refused one compares the session with the socket that goes. *)
THEOREM OneSocketEach == Spec => []OneSocketPerUser
<1>1. Init => OneSocketPerUser
  BY DEF Init, OneSocketPerUser
<1>2. TInv /\ OneSocketPerUser /\ [Next]_vars => OneSocketPerUser'
  <2> SUFFICES ASSUME TInv, OneSocketPerUser, [Next]_vars PROVE OneSocketPerUser'
    OBVIOUS
  <2>1. ASSUME UNCHANGED <<conn, session>> PROVE OneSocketPerUser'
    BY <2>1 DEF OneSocketPerUser
  <2>2. ASSUME NEW s \in Sockets, HandleConnection(s) \/ HandleDisconnect(s) PROVE OneSocketPerUser'
    BY <2>2, SocketsMove
  <2>3. ASSUME NEW h \in Handlers, Begins(h) \/ Proceeds(h) PROVE OneSocketPerUser'
    BY <2>1, <2>3, HandlersMoveNoSocket
  <2>4. ASSUME NEW u \in Readers, NEW v \in Users, NEW dir \in Directions, BeginReading(u, v, dir)
        PROVE  OneSocketPerUser'
    BY <2>1, <2>4 DEF BeginReading, sockets
  <2>5. CASE Tick \/ UNCHANGED vars
    BY <2>1, <2>5 DEF Tick, vars, sockets
  <2> QED BY <2>2, <2>3, <2>4, <2>5 DEF Next
<1> QED BY <1>1, <1>2, TypeInvariant, PTL DEF Spec

-----------------------------------------------------------------------------
(* The rooms of two users *)

(* A handler that is to create a room found none: where there is one by then, or another
   handler is to create one too, the two handlers looked for it at the same time. *)
LookedAtOnce ==
    /\ \A g, h \in Handlers :
         g # h /\ At(g, "create") /\ At(h, "create") /\ Between(g) = Between(h) => Between(h) \in raced
    /\ \A h \in Handlers, r \in Rooms : At(h, "create") /\ members[r] = Between(h) => Between(h) \in raced

RoomInv == TInv /\ PrivateRoomOnce /\ LookedAtOnce

(* The handlers at "create" are those that were, and the rooms are the same. *)
LEMMA NoneLooked ==
    ASSUME RoomInv, NEW h \in Handlers, NEW q, Becomes(h, q), q.pc # "create", UNCHANGED <<members, raced>>
    PROVE  PrivateRoomOnce' /\ LookedAtOnce'
<1>1. ASSUME NEW g \in Handlers, handler'[g].pc = "create" PROVE handler'[g] = handler[g]
  BY <1>1 DEF Becomes
<1>2. PrivateRoomOnce'
  BY DEF RoomInv, PrivateRoomOnce
<1>3. LookedAtOnce'
  BY <1>1 DEF RoomInv, LookedAtOnce, At, Between
<1> QED BY <1>2, <1>3

LEMMA RoomLooked ==
    ASSUME RoomInv, NEW h \in Handlers, FindRoom(h)
    PROVE  PrivateRoomOnce' /\ LookedAtOnce'
<1>1. PICK q : /\ Becomes(h, q) /\ handler[h].pc = "room"
               /\ q.op = handler[h].op /\ q.user = handler[h].user /\ q.peer = handler[h].peer
               /\ UNCHANGED <<conn, session, members, message, client, now>>
               /\ \/ /\ q.room \in Rooms /\ members[q.room] = {q.user, q.peer} /\ UNCHANGED raced
                     /\ q.pc \in {"insert", "page"}
                  \/ /\ q.room = None /\ q.pc = "create"
                     /\ \A r \in Rooms : members[r] # Between(h)
                     /\ raced' = IF \E g \in Handlers \ {h} : At(g, "create") /\ Between(g) = Between(h)
                                 THEN raced \cup {Between(h)} ELSE raced
  BY Finding DEF RoomInv
<1>2. CASE q.pc # "create"
  BY <1>1, <1>2, NoneLooked
<1>3. CASE q.pc = "create"
  <2>1. raced \subseteq raced' /\ \A r \in Rooms : members[r] # Between(h)
    BY <1>1, <1>3
  <2>2. PrivateRoomOnce'
    BY <1>1, <2>1 DEF RoomInv, PrivateRoomOnce
  <2>3. /\ Between(h)' = Between(h) /\ \A g \in Handlers \ {h} : handler'[g] = handler[g]
    BY <1>1 DEF Becomes, Between
  <2>4. ASSUME NEW g \in Handlers, g # h, handler'[g].pc = "create",
               {handler'[g].user, handler'[g].peer} = Between(h)
        PROVE  Between(h) \in raced'
    <3>1. At(g, "create") /\ Between(g) = Between(h)
      BY <2>3, <2>4 DEF At, Between
    <3> QED BY <1>1, <1>3, <2>4, <3>1
  <2>5. ASSUME NEW f \in Handlers, NEW g \in Handlers, f # g, handler'[f].pc = "create",
               handler'[g].pc = "create",
               {handler'[f].user, handler'[f].peer} = {handler'[g].user, handler'[g].peer}
        PROVE  {handler'[g].user, handler'[g].peer} \in raced'
    <3>1. CASE f = h \/ g = h
      BY <2>3, <2>4, <2>5, <3>1 DEF Between
    <3>2. CASE f # h /\ g # h
      BY <2>1, <2>3, <2>5, <3>2 DEF RoomInv, LookedAtOnce, At, Between
    <3> QED BY <3>1, <3>2
  <2>6. ASSUME NEW g \in Handlers, NEW r \in Rooms, handler'[g].pc = "create",
               members'[r] = {handler'[g].user, handler'[g].peer}
        PROVE  {handler'[g].user, handler'[g].peer} \in raced'
    <3>1. members[r] = members'[r]
      BY <1>1
    <3>2. g # h
      BY <2>1, <2>3, <2>6, <3>1 DEF Between
    <3> QED BY <2>1, <2>3, <2>6, <3>1, <3>2 DEF RoomInv, LookedAtOnce, At, Between
  <2>7. LookedAtOnce'
    BY <2>5, <2>6 DEF LookedAtOnce, At, Between
  <2> QED BY <2>2, <2>7
<1> QED BY <1>2, <1>3

LEMMA RoomMade ==
    ASSUME RoomInv, NEW h \in Handlers, CreateRoom(h)
    PROVE  PrivateRoomOnce' /\ LookedAtOnce'
<1>1. PICK q, r : /\ Becomes(h, q) /\ handler[h].pc = "create" /\ r \in Rooms /\ members[r] = {}
                  /\ q.op = handler[h].op /\ q.user = handler[h].user /\ q.peer = handler[h].peer
                  /\ q.room = r /\ q.user \in Users /\ q.peer \in Users /\ q.pc \in {"insert", "page"}
                  /\ members' = [members EXCEPT ![r] = {q.user, q.peer}]
                  /\ UNCHANGED <<conn, session, message, client, now, raced>>
  BY Creating DEF RoomInv
<1>2. /\ \A g \in Handlers \ {h} : handler'[g] = handler[g]
      /\ handler'[h].pc # "create" /\ Between(h) = {q.user, q.peer}
  BY <1>1 DEF Becomes, Between
<1>3. members'[r] = Between(h) /\ \A t \in Rooms \ {r} : members'[t] = members[t]
  BY <1>1, <1>2 DEF RoomInv, TInv, TablesOK
<1>4. \A t \in Rooms : members[t] = Between(h) => Between(h) \in raced
  BY <1>1 DEF RoomInv, LookedAtOnce, At
<1>5. PrivateRoomOnce'
  <2>1. ASSUME NEW s \in Rooms, NEW t \in Rooms, s # t, members'[s] = members'[t], members'[s] # {}
        PROVE  members'[s] \in raced
    <3>1. CASE s = r \/ t = r
      BY <1>3, <1>4, <2>1, <3>1
    <3>2. CASE s # r /\ t # r
      BY <1>3, <2>1, <3>2 DEF RoomInv, PrivateRoomOnce
    <3> QED BY <3>1, <3>2
  <2> QED BY <1>1, <2>1 DEF PrivateRoomOnce
<1>6. LookedAtOnce'
  <2>1. ASSUME NEW f \in Handlers, NEW g \in Handlers, f # g, handler'[f].pc = "create",
               handler'[g].pc = "create",
               {handler'[f].user, handler'[f].peer} = {handler'[g].user, handler'[g].peer}
        PROVE  {handler'[g].user, handler'[g].peer} \in raced'
    <3>1. handler'[f] = handler[f] /\ handler'[g] = handler[g]
      BY <1>2, <2>1
    <3>2. At(f, "create") /\ At(g, "create") /\ Between(f) = Between(g)
      BY <2>1, <3>1 DEF At, Between
    <3> QED BY <1>1, <2>1, <3>1, <3>2 DEF RoomInv, LookedAtOnce, Between
  <2>2. ASSUME NEW g \in Handlers, NEW t \in Rooms, handler'[g].pc = "create",
               members'[t] = {handler'[g].user, handler'[g].peer}
        PROVE  {handler'[g].user, handler'[g].peer} \in raced'
    <3>1. g # h /\ handler'[g] = handler[g]
      BY <1>2, <2>2
    <3>2. At(g, "create") /\ members'[t] = Between(g)
      BY <2>2, <3>1 DEF At, Between
    <3>3. CASE t = r
      <4>1. Between(g) = Between(h)
        BY <1>3, <3>2, <3>3
      <4> QED BY <1>1, <3>1, <3>2, <4>1 DEF RoomInv, LookedAtOnce, At, Between
    <3>4. CASE t # r
      BY <1>1, <1>3, <3>1, <3>2, <3>4 DEF RoomInv, LookedAtOnce, Between
    <3> QED BY <3>3, <3>4
  <2> QED BY <2>1, <2>2 DEF LookedAtOnce, At, Between
<1> QED BY <1>5, <1>6

LEMMA RoomInvStep == RoomInv /\ [Next]_vars => RoomInv' /\ raced \subseteq raced' /\ RoomsKept
<1> SUFFICES ASSUME RoomInv, [Next]_vars PROVE RoomInv' /\ raced \subseteq raced' /\ RoomsKept
  OBVIOUS
<1> DEFINE Goal == PrivateRoomOnce' /\ LookedAtOnce' /\ raced \subseteq raced' /\ RoomsKept
<1>1. TInv'
  BY TypeStep DEF RoomInv
<1>2. ASSUME UNCHANGED <<members, raced, handler>> PROVE Goal
  BY <1>2 DEF RoomInv, PrivateRoomOnce, LookedAtOnce, At, Between, RoomsKept
<1>3. ASSUME NEW h \in Handlers, NEW q, Becomes(h, q), q.pc # "create", UNCHANGED <<members, raced>>
      PROVE  Goal
  BY <1>3, NoneLooked DEF RoomsKept
<1>4. ASSUME NEW h \in Handlers, UNCHANGED <<members, raced>>, Done(h) PROVE Goal
  BY <1>3, <1>4, Ending DEF RoomInv
<1>5. ASSUME NEW h \in Handlers, Begins(h) PROVE Goal
  <2>1. PICK q : /\ Becomes(h, q) /\ q.pc \in {"room", "own"} /\ UNCHANGED <<members, raced>>
    BY <1>5, Beginnings DEF RoomInv
  <2> QED BY <1>3, <2>1
<1>6. ASSUME NEW h \in Handlers, FindRoom(h) PROVE Goal
  <2>1. raced \subseteq raced' /\ UNCHANGED members
    BY <1>6 DEF FindRoom
  <2> QED BY <1>6, <2>1, RoomLooked DEF RoomsKept
<1>7. ASSUME NEW h \in Handlers, CreateRoom(h) PROVE Goal
  <2>1. PICK r \in Rooms : members[r] = {} /\ members' = [members EXCEPT ![r] = Between(h)]
    BY <1>7 DEF CreateRoom
  <2>2. UNCHANGED raced
    BY <1>7 DEF CreateRoom
  <2>3. RoomsKept
    BY <2>1 DEF RoomInv, TInv, TablesOK, RoomsKept
  <2> QED BY <1>7, <2>2, <2>3, RoomMade
<1>8. ASSUME NEW h \in Handlers, FindOwnMessage(h) PROVE Goal
  <2>1. PICK q : Becomes(h, q) /\ q.pc \in {"idle", "erase"} /\ UNCHANGED <<members, raced>>
    BY <1>8, Owning DEF RoomInv
  <2> QED BY <1>3, <2>1
<1>9. ASSUME NEW h \in Handlers, InsertMessage(h) \/ EraseMessage(h) \/ GetMessages(h) \/ CallFails(h)
      PROVE  Goal
  <2>1. UNCHANGED <<members, raced>> /\ Done(h)
    BY <1>9 DEF InsertMessage, EraseMessage, GetMessages, CallFails, Shows
  <2> QED BY <1>4, <2>1
<1>10. ASSUME NEW s \in Sockets, HandleConnection(s) \/ HandleDisconnect(s) PROVE Goal
  BY <1>2, <1>10 DEF HandleConnection, HandleDisconnect
<1>11. ASSUME NEW u \in Readers, NEW v \in Users, NEW dir \in Directions, BeginReading(u, v, dir) PROVE Goal
  BY <1>2, <1>11 DEF BeginReading
<1>12. ASSUME Tick \/ UNCHANGED vars PROVE Goal
  BY <1>2, <1>12 DEF Tick, vars
<1>13. Goal
  <2> HIDE DEF Goal
  <2> QED BY <1>5, <1>6, <1>7, <1>8, <1>9, <1>10, <1>11, <1>12 DEF Next, Proceeds
<1> QED BY <1>1, <1>13 DEF RoomInv

LEMMA RoomInvInit == Init => RoomInv
<1> SUFFICES ASSUME Init PROVE RoomInv
  OBVIOUS
<1>1. \A h \in Handlers : ~At(h, "create")
  BY DEF Init, At, Idle, Beginning
<1> QED BY <1>1, TypeInit DEF Init, RoomInv, PrivateRoomOnce, LookedAtOnce

LEMMA RoomInvariant == Spec => []RoomInv
<1>1. RoomInv /\ [Next]_vars => RoomInv'
  BY RoomInvStep
<1> QED BY <1>1, RoomInvInit, PTL DEF Spec

(* Two users have two private rooms only if two handlers looked for one at the same time,
   and neither found it: getOrCreatePrivateRoom reads and then creates. *)
THEOREM OneRoomEach == Spec => []PrivateRoomOnce
<1>1. RoomInv => PrivateRoomOnce
  BY DEF RoomInv
<1> QED BY <1>1, RoomInvariant, PTL

-----------------------------------------------------------------------------
(* Pages *)

(* FirstOf gives the whole set when it has room for it. *)
LEMMA WholeSet ==
    ASSUME NEW S, IsFiniteSet(S), NEW k \in Nat, NEW dir, NEW X \in FirstOf(S, k, dir),
           Cardinality(S) <= k \/ Cardinality(X) < k
    PROVE  X = S
<1>1. X \in SUBSET S /\ Cardinality(X) = IF Cardinality(S) < k THEN Cardinality(S) ELSE k
  BY DEF FirstOf
<1>2. Cardinality(S) \in Nat /\ Cardinality(X) \in Nat
  BY <1>1, FS_CardinalityType, FS_Subset
<1>3. Cardinality(X) = Cardinality(S)
  BY <1>1, <1>2
<1> QED BY <1>1, <1>3, FS_Subset

(* Another message of its room has the same time. *)
Tied(m) == \E n \in In(message[m].room) \ {m} : message[n].at = message[m].at

(* What the client of u has shown lies before its cursor; what it is due and has not
   shown lies beyond it, unless the history itself is not in order. *)
ShownOK(c) ==
    /\ c.repeated = FALSE
    /\ c.shown \subseteq Stored
    /\ c.cursor = None /\ c.state # "end" => c.shown = {}
    /\ c.cursor # None => \A m \in c.shown : ~Beyond(m, c)
DueOK(u, c) ==
    \A m \in c.due :
      /\ m \in Stored /\ members[message[m].room] = {u, c.peer}
      /\ \/ m \in c.shown \/ message[m].deleted \/ {u, c.peer} \in raced \/ Tied(m)
         \/ c.state # "end" /\ Beyond(m, c)

PagesOK == \A u \in Readers : ShownOK(client[u]) /\ DueOK(u, client[u])

PagesInv == RoomInv /\ PagesOK

(* Messages keep their rooms and times, rooms their members. *)
MessagesKept ==
    \A m \in Stored : /\ message'[m].room = message[m].room /\ message'[m].at = message[m].at
                      /\ message[m].deleted => message'[m].deleted

(* A client that shows nothing new is as right as it was. *)
LEMMA HistoryKept ==
    ASSUME TInv, TInv', MessagesKept, RoomsKept, raced \subseteq raced', NEW u \in Readers,
           NEW c \in ClientType, NEW d \in ClientType, ShownOK(c), DueOK(u, c),
           d.peer = c.peer, d.dir = c.dir, d.cursor = c.cursor, d.shown = c.shown, d.due = c.due,
           d.repeated = c.repeated, d.state = "end" <=> c.state = "end"
    PROVE  ShownOK(d)' /\ DueOK(u, d)'
<1> USE PrivateChatAssumption
<1>1. Stored \subseteq Stored' /\ \A m \in Stored : m \in Messages /\ message[m].room \in Rooms
  <2>1. message \in [Messages -> MessageType]
    BY DEF TInv, TablesOK
  <2> QED BY <2>1 DEF MessagesKept, Stored, MessageType
<1>2. ASSUME NEW m \in Stored PROVE Beyond(m, d)' <=> Beyond(m, c)
  BY <1>2 DEF MessagesKept, Beyond
<1>3. ShownOK(d)'
  <2>1. d.repeated = FALSE /\ d.shown \subseteq Stored'
    BY <1>1 DEF ShownOK
  <2>2. d.cursor = None /\ d.state # "end" => d.shown = {}
    BY DEF ShownOK
  <2>3. ASSUME d.cursor # None, NEW m \in d.shown PROVE ~Beyond(m, d)'
    BY <1>2, <2>3 DEF ShownOK
  <2> QED BY <2>1, <2>2, <2>3 DEF ShownOK
<1>4. ASSUME NEW m \in Stored, Tied(m) PROVE Tied(m)'
  <2>1. PICK n \in Stored : n # m /\ message[n].room = message[m].room /\ message[n].at = message[m].at
    BY <1>4 DEF Tied, In
  <2>2. n \in Stored' /\ n # m /\ message'[n].room = message'[m].room /\ message'[n].at = message'[m].at
    BY <1>1, <1>4, <2>1 DEF MessagesKept
  <2> QED BY <2>2 DEF Tied, In
<1>5. ASSUME NEW m \in d.due
      PROVE  /\ m \in Stored' /\ members'[message'[m].room] = {u, d.peer}
             /\ \/ m \in d.shown \/ message'[m].deleted \/ {u, d.peer} \in raced' \/ Tied(m)'
                \/ d.state # "end" /\ Beyond(m, d)'
  <2>1. m \in Stored /\ members[message[m].room] = {u, c.peer}
    BY <1>5 DEF DueOK
  <2>2. members'[message'[m].room] = {u, d.peer}
    BY <1>1, <2>1 DEF MessagesKept, RoomsKept
  <2>3. message[m].deleted => message'[m].deleted
    BY <2>1 DEF MessagesKept
  <2>4. \/ m \in c.shown \/ message[m].deleted \/ {u, c.peer} \in raced \/ Tied(m)
        \/ c.state # "end" /\ Beyond(m, c)
    BY <1>5 DEF DueOK
  <2> QED BY <1>1, <1>2, <1>4, <2>1, <2>2, <2>3, <2>4
<1>6. DueOK(u, d)'
  BY <1>5 DEF DueOK
<1> QED BY <1>3, <1>6

(* What the query gives lies beyond the cursor, and in the order of the direction. *)
LEMMA PageOrder ==
    ASSUME TInv, NEW h \in Handlers, NEW u, NEW d, NEW S, NEW X, NEW T, Page(h, u, d, S, X, T)
    PROVE  /\ T \subseteq X /\ X \subseteq S /\ S \subseteq Stored
           /\ \A m \in S : Beyond(m, client[u])
           /\ \A m \in S \ T, n \in T : ~Ahead(m, n, client[u].dir)
           /\ d.cursor = None => T = S
           /\ d.cursor # None => \E n \in T : /\ d.cursor = message[n].at
                                              /\ \A m \in T : m = n \/ ~Ahead(n, m, client[u].dir)
<1> USE PrivateChatAssumption
<1>1. /\ S = {m \in In(handler[h].room) : ~message[m].deleted /\ Beyond(m, client[u])}
      /\ X \in FirstOf(S, Limit + 1, client[u].dir) /\ T \in FirstOf(X, Limit, client[u].dir)
      /\ d.cursor \in NextCursors(T, client[u].dir, Cardinality(X) > Limit)
  BY DEF Page
<1>2. T \subseteq X /\ X \subseteq S /\ S \subseteq Stored /\ S \subseteq Messages
  BY <1>1 DEF FirstOf, In, Stored
<1>3. \A m \in S \ T, n \in T : ~Ahead(m, n, client[u].dir)
  BY <1>1, <1>2 DEF FirstOf
<1>4. message \in [Messages -> MessageType]
  BY DEF TInv, TablesOK
<1>5. ASSUME d.cursor = None PROVE T = S
  <2>1. ~(Cardinality(X) > Limit)
    BY <1>1, <1>2, <1>4, <1>5 DEF NextCursors, MessageType
  <2>2. IsFiniteSet(S) /\ IsFiniteSet(X) /\ Cardinality(X) \in Nat
    BY <1>2, FS_Subset, FS_CardinalityType
  <2>3. X = S
    BY <1>1, <2>1, <2>2, WholeSet
  <2>4. T = X
    BY <1>1, <2>1, <2>2, WholeSet
  <2> QED BY <2>3, <2>4
<1>6. ASSUME d.cursor # None
      PROVE  \E n \in T : /\ d.cursor = message[n].at
                          /\ \A m \in T : m = n \/ ~Ahead(n, m, client[u].dir)
  <2>1. PICK n \in T : /\ d.cursor = message[n].at
                       /\ \A m \in T : IF client[u].dir = "before" THEN message[n].at <= message[m].at
                                       ELSE message[n].at >= message[m].at
    BY <1>1, <1>6 DEF NextCursors
  <2>2. \A m \in T : message[m].at \in Int
    BY <1>2, <1>4 DEF MessageType
  <2> QED BY <2>1, <2>2 DEF Ahead
<1> QED BY <1>1, <1>2, <1>3, <1>5, <1>6

(* A page leaves its client right: no message again, and none passed over. *)
LEMMA PageShown ==
    ASSUME PagesInv, NEW h \in Handlers, NEW u, NEW d, NEW S, NEW X, NEW T, Page(h, u, d, S, X, T),
           Showing(client[u], d, T)
    PROVE  ShownOK(d) /\ DueOK(u, d)
<1> USE PrivateChatAssumption
<1>1. /\ T \subseteq X /\ X \subseteq S /\ S \subseteq Stored
      /\ \A m \in S : Beyond(m, client[u])
      /\ \A m \in S \ T, n \in T : ~Ahead(m, n, client[u].dir)
      /\ d.cursor = None => T = S
      /\ d.cursor # None => \E n \in T : /\ d.cursor = message[n].at
                                         /\ \A m \in T : m = n \/ ~Ahead(n, m, client[u].dir)
  BY PageOrder DEF PagesInv, RoomInv
<1>2. PICK c \in ClientType : c = client[u] /\ ShownOK(c) /\ DueOK(u, c)
  BY DEF PagesInv, PagesOK, RoomInv, TInv, TablesOK, Page
<1>3. /\ d \in ClientType /\ d.peer = c.peer /\ d.dir = c.dir /\ d.shown = c.shown \cup T /\ d.due = c.due
      /\ d.cursor = None => d.state = "end"
      /\ d.cursor # None => d.state = "more"
      /\ (c.repeated = FALSE /\ T \cap c.shown = {}) => d.repeated = FALSE
  BY <1>2 DEF Showing
<1>4. c.state = "waiting" /\ c.peer = handler[h].peer /\ u = handler[h].user /\ handler[h].pc = "page"
  BY <1>2 DEF PagesInv, RoomInv, TInv, WaitingOK, Page
<1>5. \A m \in Stored : m \in Messages /\ message[m].room \in Rooms /\ message[m].at \in Int
  <2>1. message \in [Messages -> MessageType]
    BY DEF PagesInv, RoomInv, TInv, TablesOK
  <2> QED BY <2>1 DEF Stored, MessageType
<1>6. c.cursor = None \/ c.cursor \in Int
  BY <1>2 DEF ClientType
<1>7. ASSUME NEW m \in c.shown, m \in T PROVE FALSE
  <2>1. c.cursor # None
    BY <1>2, <1>4, <1>7 DEF ShownOK
  <2>2. Beyond(m, c) /\ ~Beyond(m, c)
    BY <1>1, <1>2, <1>7, <2>1 DEF ShownOK
  <2> QED BY <2>2
<1>8. ASSUME d.cursor # None, NEW m \in d.shown PROVE ~Beyond(m, d)
  <2>1. PICK n \in T : d.cursor = message[n].at /\ \A k \in T : k = n \/ ~Ahead(n, k, c.dir)
    BY <1>1, <1>2, <1>8
  <2>2. m \in Stored /\ n \in Stored
    BY <1>1, <1>2, <1>3, <1>8 DEF ShownOK
  <2>3. message[m].at \in Int /\ message[n].at \in Int
    BY <1>5, <2>2
  <2>4. CASE m \in T
    BY <1>3, <1>8, <2>1, <2>3, <2>4 DEF Ahead, Beyond
  <2>5. CASE m \in c.shown
    <3>1. c.cursor # None
      BY <1>2, <1>4, <2>5 DEF ShownOK
    <3>2. ~Beyond(m, c) /\ Beyond(n, c)
      BY <1>1, <1>2, <2>5, <3>1 DEF ShownOK
    <3> QED BY <1>3, <1>6, <1>8, <2>1, <2>3, <3>1, <3>2 DEF Beyond
  <2> QED BY <1>3, <1>8, <2>4, <2>5
<1>9. ShownOK(d)
  <2>1. c.shown \subseteq Stored /\ c.repeated = FALSE /\ T \cap c.shown = {}
    BY <1>2, <1>7 DEF ShownOK
  <2>2. d.shown \subseteq Stored
    BY <1>1, <1>3, <2>1
  <2> QED BY <1>3, <1>8, <2>1, <2>2 DEF ShownOK
<1>10. ASSUME NEW m \in d.due, m \notin d.shown, ~message[m].deleted, {u, d.peer} \notin raced, ~Tied(m)
       PROVE  d.state # "end" /\ Beyond(m, d)
  <2>1. m \in Stored /\ members[message[m].room] = {u, c.peer} /\ Beyond(m, c)
    BY <1>2, <1>3, <1>10 DEF DueOK
  <2>2. message[m].room = handler[h].room
    <3>1. handler[h].room \in Rooms /\ members[handler[h].room] = {u, c.peer}
      <4>1. handler[h].room # None /\ handler[h] \in HandlerType
        BY <1>4 DEF PagesInv, RoomInv, TInv, HandlersOK, Fit
      <4> QED BY <1>4, <4>1 DEF PagesInv, RoomInv, TInv, HandlersOK, HandlerType, Between
    <3>2. message[m].room \in Rooms
      BY <1>5, <2>1
    <3>3. members[message[m].room] = members[handler[h].room] /\ members[handler[h].room] # {}
      BY <2>1, <3>1
    <3>4. members[message[m].room] \notin raced
      BY <1>3, <1>10, <2>1
    <3> QED BY <3>1, <3>2, <3>3, <3>4 DEF PagesInv, RoomInv, PrivateRoomOnce
  <2>3. m \in S /\ m \notin T
    BY <1>2, <1>3, <1>10, <2>1, <2>2 DEF Page, In
  <2>4. d.cursor # None
    BY <1>1, <2>3
  <2>5. PICK n \in T : d.cursor = message[n].at
    BY <1>1, <2>4
  <2>6. ~Ahead(m, n, c.dir)
    BY <1>1, <1>2, <2>3
  <2>7. n \in In(message[m].room) \ {m}
    <3>1. n \in S /\ n # m
      BY <1>1, <2>3
    <3>2. n \in In(handler[h].room)
      BY <3>1 DEF Page
    <3> QED BY <2>2, <3>1, <3>2
  <2>8. message[n].at # message[m].at
    BY <1>10, <2>7 DEF Tied
  <2>9. message[m].at \in Int /\ message[n].at \in Int
    BY <1>5, <2>1, <2>7 DEF In
  <2>10. Beyond(m, d)
    BY <1>3, <2>5, <2>6, <2>8, <2>9 DEF Ahead, Beyond
  <2> QED BY <1>3, <2>4, <2>10
<1>11. ASSUME NEW m \in d.due PROVE m \in Stored /\ members[message[m].room] = {u, d.peer}
  BY <1>2, <1>3, <1>11 DEF DueOK
<1>12. DueOK(u, d)
  BY <1>10, <1>11 DEF DueOK
<1> QED BY <1>9, <1>12

(* The steps that store and delete messages leave the others as they are. *)
LEMMA MessagesStep == TInv /\ [Next]_vars => MessagesKept
<1> SUFFICES ASSUME TInv, [Next]_vars PROVE MessagesKept
  OBVIOUS
<1>1. ASSUME UNCHANGED message PROVE MessagesKept
  BY <1>1 DEF MessagesKept
<1>2. ASSUME NEW h \in Handlers, InsertMessage(h) PROVE MessagesKept
  <2>1. PICK m \in Messages \ Stored : \A n \in Messages \ {m} : message'[n] = message[n]
    BY <1>2, Inserting
  <2>2. \A n \in Stored : message'[n] = message[n]
    BY <2>1 DEF Stored
  <2> QED BY <2>2 DEF MessagesKept
<1>3. ASSUME NEW h \in Handlers, EraseMessage(h) PROVE MessagesKept
  BY <1>3, Erasing DEF MessagesKept, Stored
<1>4. ASSUME NEW h \in Handlers, Begins(h) PROVE MessagesKept
  BY <1>1, <1>4, Beginnings
<1>5. ASSUME NEW h \in Handlers,
             FindRoom(h) \/ CreateRoom(h) \/ FindOwnMessage(h) \/ GetMessages(h) \/ CallFails(h)
      PROVE  MessagesKept
  BY <1>1, <1>5 DEF FindRoom, CreateRoom, FindOwnMessage, GetMessages, CallFails
<1>6. ASSUME NEW s \in Sockets, HandleConnection(s) \/ HandleDisconnect(s) PROVE MessagesKept
  BY <1>1, <1>6, SocketSteps
<1>7. ASSUME NEW u \in Readers, NEW v \in Users, NEW dir \in Directions, BeginReading(u, v, dir)
      PROVE  MessagesKept
  BY <1>1, <1>7 DEF BeginReading
<1>8. CASE Tick \/ UNCHANGED vars
  BY <1>1, <1>8 DEF Tick, vars
<1> QED BY <1>2, <1>3, <1>4, <1>5, <1>6, <1>7, <1>8 DEF Next, Proceeds

(* What a step makes of the client of u *)
ClientStep(u, c, d) ==
    \/ /\ d.peer = c.peer /\ d.dir = c.dir /\ d.cursor = c.cursor /\ d.shown = c.shown /\ d.due = c.due
       /\ d.repeated = c.repeated /\ (d.state = "end" <=> c.state = "end")
    \/ /\ ShownOK(d) /\ DueOK(u, d)
       /\ UNCHANGED <<message, members, raced>>

LEMMA ClientSteps ==
    ASSUME PagesInv, [Next]_vars, NEW u \in Readers
    PROVE  ClientStep(u, client[u], client'[u])
<1> DEFINE Goal == ClientStep(u, client[u], client'[u])
<1>1. client \in [Readers -> ClientType] /\ TInv
  BY DEF PagesInv, RoomInv, TInv, TablesOK
<1>2. ASSUME client'[u] = client[u] PROVE Goal
  BY <1>2 DEF ClientStep
<1>3. ASSUME NEW x \in {"more", "waiting"}, client[u].state # "end", NEW w,
             client' = [client EXCEPT ![w].state = x]
      PROVE  Goal
  <2>1. CASE w # u
    BY <1>1, <1>2, <1>3, <2>1
  <2>2. CASE w = u
    <3>1. PICK c \in ClientType : c = client[u]
      BY <1>1
    <3>2. PICK d : d = [c EXCEPT !.state = x]
      OBVIOUS
    <3>3. /\ d.state = x /\ d.peer = c.peer /\ d.dir = c.dir /\ d.cursor = c.cursor
          /\ d.shown = c.shown /\ d.due = c.due /\ d.repeated = c.repeated
      BY <3>1, <3>2, Waits
    <3>4. client'[u] = d
      BY <1>1, <1>3, <2>2, <3>1, <3>2
    <3> QED BY <1>3, <3>1, <3>3, <3>4 DEF ClientStep
  <2> QED BY <2>1, <2>2
<1>4. ASSUME NEW h \in Handlers, Begins(h) PROVE Goal
  <2>1. PICK q : \/ UNCHANGED client
                 \/ /\ q.user \in Readers /\ client[q.user].state = "more"
                    /\ client' = [client EXCEPT ![q.user].state = "waiting"]
    BY <1>1, <1>4, Beginnings
  <2>2. CASE q.user = u
    BY <1>2, <1>3, <2>1, <2>2
  <2>3. CASE q.user # u
    <3>1. client'[u] = client[u]
      BY <1>1, <2>1, <2>3
    <3> QED BY <1>2, <3>1
  <2> QED BY <2>2, <2>3
<1>5. ASSUME NEW h \in Handlers, CallFails(h) PROVE Goal
  <2>1. \/ UNCHANGED client
        \/ /\ handler[h].op = "page" /\ handler[h].user \in Readers
           /\ client' = [client EXCEPT ![handler[h].user].state = "more"]
    BY <1>1, <1>5, FailedCall
  <2>2. CASE handler[h].op = "page" /\ handler[h].user = u
    <3>1. client[u].state # "end"
      BY <1>1, <2>2 DEF TInv, WaitingOK
    <3> QED BY <1>2, <1>3, <2>1, <2>2, <3>1
  <2>3. CASE ~(handler[h].op = "page" /\ handler[h].user = u)
    <3>1. client'[u] = client[u]
      BY <1>1, <2>1, <2>3
    <3> QED BY <1>2, <3>1
  <2> QED BY <2>2, <2>3
<1>6. ASSUME NEW h \in Handlers, GetMessages(h) PROVE Goal
  <2>1. PICK w, d, S, X, T :
          /\ Page(h, w, d, S, X, T) /\ Showing(client[w], d, T)
          /\ client' = [client EXCEPT ![w] = d]
          /\ UNCHANGED <<conn, session, members, message, now, raced>>
    BY <1>1, <1>6, Paging
  <2>2. CASE w = u
    <3>1. ShownOK(d) /\ DueOK(u, d)
      BY <2>1, <2>2, PageShown
    <3>2. client'[u] = d
      BY <1>1, <2>1, <2>2
    <3> QED BY <2>1, <3>1, <3>2 DEF ClientStep
  <2>3. CASE w # u
    BY <1>1, <1>2, <2>1, <2>3
  <2> QED BY <2>2, <2>3
<1>7. ASSUME NEW w \in Readers, NEW v \in Users, NEW dir \in Directions, BeginReading(w, v, dir) PROVE Goal
  <2>1. PICK d : /\ d \in ClientType /\ client' = [client EXCEPT ![w] = d]
                 /\ d.peer = v /\ d.state = "more" /\ d.cursor = None /\ d.shown = {}
                 /\ d.due = {m \in Stored : members[message[m].room] = {w, v} /\ ~message[m].deleted}
                 /\ ~d.repeated
                 /\ UNCHANGED <<conn, session, members, message, handler, now, raced>>
    BY <1>1, <1>7, ReadingBegins
  <2>2. CASE w = u
    <3>1. client'[u] = d
      BY <1>1, <2>1, <2>2
    <3>2. ShownOK(d)
      BY <2>1 DEF ShownOK, ClientType
    <3>3. DueOK(u, d)
      BY <2>1, <2>2 DEF DueOK, Beyond
    <3> QED BY <2>1, <3>1, <3>2, <3>3 DEF ClientStep
  <2>3. CASE w # u
    BY <1>1, <1>2, <2>1, <2>3
  <2> QED BY <2>2, <2>3
<1>8. ASSUME UNCHANGED client PROVE Goal
  BY <1>2, <1>8
<1>9. ASSUME NEW h \in Handlers, \/ FindRoom(h) \/ CreateRoom(h) \/ InsertMessage(h)
                                 \/ FindOwnMessage(h) \/ EraseMessage(h)
      PROVE  Goal
  BY <1>8, <1>9 DEF FindRoom, CreateRoom, InsertMessage, FindOwnMessage, EraseMessage
<1>10. ASSUME NEW s \in Sockets, HandleConnection(s) \/ HandleDisconnect(s) PROVE Goal
  BY <1>1, <1>8, <1>10, SocketSteps
<1>11. ASSUME Tick \/ UNCHANGED vars PROVE Goal
  BY <1>8, <1>11 DEF Tick, vars
<1> HIDE DEF Goal
<1>12. Goal
  BY <1>4, <1>5, <1>6, <1>7, <1>9, <1>10, <1>11 DEF Next, Proceeds
<1> QED BY <1>12 DEF Goal

LEMMA PagesInvStep == PagesInv /\ [Next]_vars => PagesInv'
<1> SUFFICES ASSUME PagesInv, [Next]_vars PROVE PagesInv'
  OBVIOUS
<1>1. RoomInv' /\ raced \subseteq raced' /\ RoomsKept /\ MessagesKept /\ TInv /\ TInv'
  BY RoomInvStep, MessagesStep DEF PagesInv, RoomInv
<1>2. ASSUME NEW u \in Readers, NEW d, d = client'[u] PROVE ShownOK(d)' /\ DueOK(u, d)'
  <2>1. PICK c : c = client[u]
    OBVIOUS
  <2>2. c \in ClientType /\ d \in ClientType /\ ShownOK(c) /\ DueOK(u, c)
    BY <1>1, <1>2, <2>1 DEF TInv, TablesOK, PagesInv, PagesOK
  <2>3. ClientStep(u, c, d)
    BY <1>2, <2>1, ClientSteps
  <2>4. CASE ShownOK(d) /\ DueOK(u, d) /\ UNCHANGED <<message, members, raced>>
    BY <2>4 DEF ShownOK, DueOK, Stored, Beyond, Tied, In
  <2>5. CASE /\ d.peer = c.peer /\ d.dir = c.dir /\ d.cursor = c.cursor /\ d.shown = c.shown
             /\ d.due = c.due /\ d.repeated = c.repeated /\ (d.state = "end" <=> c.state = "end")
    BY <1>1, <2>2, <2>5, HistoryKept
  <2> QED BY <2>3, <2>4, <2>5 DEF ClientStep
<1>3. PagesOK'
  <2> SUFFICES ASSUME NEW u \in Readers PROVE (ShownOK(client[u]) /\ DueOK(u, client[u]))'
    BY DEF PagesOK
  <2>1. PICK d : d = client'[u]
    OBVIOUS
  <2>2. ShownOK(d)' /\ DueOK(u, d)'
    BY <1>2, <2>1
  <2> QED BY <2>1, <2>2 DEF ShownOK, DueOK, Beyond
<1> QED BY <1>1, <1>3 DEF PagesInv

(* What a client pages through is the history, once: no page shows a message again, and
   at the end every message that was there when the client began has been shown, unless it
   was deleted, has the time of another one of the room, or the two users have two rooms.
   The cursor that getMessages gives is the time of the last message of the page. *)
THEOREM HistoryIsShown == Spec => []PagesAreTheHistory
<1>1. Init => PagesInv
  <2> SUFFICES ASSUME Init PROVE PagesInv
    OBVIOUS
  <2>1. ASSUME NEW u \in Readers PROVE ShownOK(client[u]) /\ DueOK(u, client[u])
    <3>1. PICK c : c = client[u]
      OBVIOUS
    <3>2. c.shown = {} /\ c.due = {} /\ c.cursor = None /\ c.repeated = FALSE
      BY <3>1 DEF Init, NoClient, Reading
    <3>3. ShownOK(c) /\ DueOK(u, c)
      BY <3>2 DEF ShownOK, DueOK
    <3> QED BY <3>1, <3>3
  <2> QED BY <2>1, RoomInvInit DEF PagesInv, PagesOK
<1>2. PagesInv => PagesAreTheHistory
  <2> SUFFICES ASSUME PagesInv PROVE PagesAreTheHistory
    OBVIOUS
  <2>1. PagesDoNotRepeat
    BY DEF PagesInv, PagesOK, ShownOK, PagesDoNotRepeat
  <2>2. PagesCoverHistory
    BY DEF PagesInv, PagesOK, DueOK, Tied, PagesCoverHistory
  <2> QED BY <2>1, <2>2 DEF PagesAreTheHistory
<1> QED BY <1>1, <1>2, PagesInvStep, PTL DEF Spec
=============================================================================
