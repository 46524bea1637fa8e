--------------------------- MODULE GroupPresence ---------------------------
(***************************************************************************)
(* Who is connected to the group chat, which room each user is believed to *)
(* be viewing, and whom a group message reaches.                           *)
(*                                                                         *)
(* GroupChatGateway (group-chat.gateway.ts) handles the sockets of the     *)
(* namespace /chat/groups and registers them in connectedUsers;            *)
(* OnlineStatusService (online-status.service.ts) keeps onlineUsers and    *)
(* activeRoomUsers; Socket.IO's in-memory adapter keeps the rooms a socket *)
(* is in.  The handlers await a guard and a database answer before they    *)
(* touch any of this, and the socket may close in between.                 *)
(***************************************************************************)
EXTENDS Naturals, FiniteSets

CONSTANTS
    Users, Rooms, Sockets,
    Owner,            \* the user whose token a socket carries
    Members,          \* room_members rows, <<user, room>>
    Access,           \* the rows that validateGroupAccess admits
    Sends,            \* send handlers that can be in flight at once
    None,
    Removals,         \* the rows that admins remove in this instance
    MaxInbox          \* bound on messages in their guards

ASSUME PresenceAssumption ==
    /\ Owner \in [Sockets -> Users]
    /\ Access \subseteq Members /\ Members \subseteq Users \X Rooms
    /\ Removals \subseteq Members
    /\ None \notin Sockets /\ None \notin Rooms
    /\ MaxInbox \in Nat

VARIABLES
    conn,        \* Socket.IO: is a socket not yet, still, or no longer open
    joined,      \* Socket.IO's adapter: the rooms a socket is in
    inbox,       \* join_group and leave_group messages in their guards
    connected,   \* connectedUsers: "userId-roomId" -> socket
    online,      \* onlineUsers: user -> socket and current room
    active,      \* activeRoomUsers: room -> users
    removed,     \* members that remove_user has blocked
    fan          \* the send handlers between broadcast and last push

presence == <<connected, online, active>>
vars == <<conn, joined, inbox, presence, removed, fan>>

Offline == [socket |-> None, room |-> None]
Record == [socket : Sockets, room : Rooms \cup {None}]
Idle == [pc |-> "idle"]
(* todo: members the loop has not come to; pushed: those a push was queued *)
(* for.  heard and late are history: who was in the room when the message  *)
(* was broadcast, and who has joined it since.                             *)
Fan == [pc : {"members", "loop"}, room : Rooms, sender : Users,
        todo : SUBSET Users, pushed : SUBSET Users,
        heard : SUBSET Users, late : SUBSET Users]

Init ==
    /\ conn = [s \in Sockets |-> "new"]
    /\ joined = [s \in Sockets |-> {}]
    /\ inbox = {}
    /\ connected = [k \in Users \X Rooms |-> None]
    /\ online = [u \in Users |-> Offline]
    /\ active = [r \in Rooms |-> {}]
    /\ removed = {}
    /\ fan = [h \in Sends |-> Idle]

----------------------------------------------------------------------------
(* OnlineStatusService *)

(* setUserOnline, then joinRoom.  The new record has no current room, so   *)
(* joinRoom finds no previous room to leave.                               *)
EnterRoom(u, s, r) ==
    /\ online' = [online EXCEPT ![u] = [socket |-> s, room |-> r]]
    /\ active' = [active EXCEPT ![r] = @ \cup {u}]

LeaveRoom(u, r) ==
    /\ online' = [online EXCEPT ![u].room = IF @ = r THEN None ELSE @]
    /\ active' = [active EXCEPT ![r] = @ \ {u}]

(* Mutant of SetUserOffline: the room is left, the record is half cleared. *)
SetUserOfflineHalf(u) ==
    /\ online' = [online EXCEPT ![u].socket = None]
    /\ active' = [r \in Rooms |-> active[r] \ {u}]

SetUserOffline(u) ==
    /\ online' = [online EXCEPT ![u] = Offline]
    /\ active' = [r \in Rooms |-> IF r = online[u].room THEN active[r] \ {u}
                                                        ELSE active[r]]

(* Mutant of ShouldNotifyUser: whoever is online is spared the push.       *)
ShouldNotifyIfOffline(u, r) == online[u] = Offline

ShouldNotifyUser(u, r) == online[u].room # r

----------------------------------------------------------------------------
(* GroupChatGateway *)

HandleConnection(s) ==
    /\ conn[s] = "new"
    /\ conn' = [conn EXCEPT ![s] = "open"]
    /\ UNCHANGED <<joined, inbox, presence, removed, fan>>

Receive(s, event, r) ==
    /\ conn[s] = "open"
    /\ Cardinality(inbox) < MaxInbox
    /\ inbox' = inbox \cup {<<event, s, r>>}
    /\ UNCHANGED <<conn, joined, presence, removed, fan>>

(* The access check has answered.  client.join on the in-memory adapter    *)
(* awaits a settled value, so no other handler runs before the rest; on a  *)
(* socket that has closed meanwhile it does nothing, and the rest runs.    *)
HandleJoinGroup(s, r) ==
    /\ <<"join", s, r>> \in inbox
    /\ inbox' = inbox \ {<<"join", s, r>>}
    /\ IF <<Owner[s], r>> \in Access
       THEN /\ joined' = IF conn[s] = "open"
                         THEN [joined EXCEPT ![s] = @ \cup {r}] ELSE joined
            /\ connected' = [connected EXCEPT ![<<Owner[s], r>>] = s]
            /\ EnterRoom(Owner[s], s, r)
            /\ fan' = [h \in Sends |->
                         IF fan[h] # Idle /\ fan[h].room = r
                         THEN [fan[h] EXCEPT !.late = @ \cup {Owner[s]}]
                         ELSE fan[h]]
       ELSE UNCHANGED <<joined, presence, fan>>
    /\ UNCHANGED <<conn, removed>>

(* Mutant of HandleLeaveGroup: the status service is not told.             *)
HandleLeaveGroupSilent(s, r) ==
    /\ <<"leave", s, r>> \in inbox
    /\ inbox' = inbox \ {<<"leave", s, r>>}
    /\ joined' = [joined EXCEPT ![s] = @ \ {r}]
    /\ connected' = [connected EXCEPT ![<<Owner[s], r>>] = None]
    /\ UNCHANGED <<conn, online, active, removed, fan>>

HandleLeaveGroup(s, r) ==
    /\ <<"leave", s, r>> \in inbox
    /\ inbox' = inbox \ {<<"leave", s, r>>}
    /\ joined' = [joined EXCEPT ![s] = @ \ {r}]
    /\ connected' = [connected EXCEPT ![<<Owner[s], r>>] = None]
    /\ LeaveRoom(Owner[s], r)
    /\ UNCHANGED <<conn, removed, fan>>

(* Mutant of HandleDisconnect: only the last key of a user is looked at.   *)
HandleDisconnectLast(s) ==
    /\ conn[s] = "open"
    /\ conn' = [conn EXCEPT ![s] = "closed"]
    /\ joined' = [joined EXCEPT ![s] = {}]
    /\ \/ \E k \in Users \X Rooms :
            /\ connected[k] = s
            /\ connected' = [connected EXCEPT ![k] = None]
            /\ IF \A j \in Users \X Rooms : j[1] = k[1] => connected'[j] = None
               THEN SetUserOffline(k[1]) ELSE UNCHANGED <<online, active>>
       \/ /\ \A k \in Users \X Rooms : connected[k] # s
          /\ UNCHANGED presence
    /\ UNCHANGED <<inbox, removed, fan>>

(* Socket.IO leaves the rooms, then the gateway deletes the first key that *)
(* names the socket, and no other, and marks the user of that key offline. *)
(* Which of several keys comes first is left open.                         *)
HandleDisconnect(s) ==
    /\ conn[s] = "open"
    /\ conn' = [conn EXCEPT ![s] = "closed"]
    /\ joined' = [joined EXCEPT ![s] = {}]
    /\ \/ \E k \in Users \X Rooms :
            /\ connected[k] = s
            /\ connected' = [connected EXCEPT ![k] = None]
            /\ SetUserOffline(k[1])
       \/ /\ \A k \in Users \X Rooms : connected[k] # s
          /\ UNCHANGED presence
    /\ UNCHANGED <<inbox, removed, fan>>

(* The member row is blocked.  The code that would make the member's       *)
(* socket leave the room reads this.server.sockets.sockets, and the server *)
(* of a namespaced gateway is a Namespace, whose sockets is a Map: the     *)
(* access throws, and neither the room nor connectedUsers changes.         *)
HandleRemoveUser(u, r) ==
    /\ <<u, r>> \in Removals
    /\ removed' = removed \cup {<<u, r>>}
    /\ UNCHANGED <<conn, joined, inbox, presence, fan>>

(* handleSendGroupMessage, once the message is stored. *)
BroadcastMessage(h) ==
    /\ fan[h] = Idle
    /\ \E s \in Sockets, r \in Rooms :
         /\ conn[s] # "new" /\ <<Owner[s], r>> \in Access
         /\ fan' = [fan EXCEPT ![h] =
                      [pc |-> "members", room |-> r, sender |-> Owner[s],
                       todo |-> {}, pushed |-> {}, late |-> {},
                       heard |-> {Owner[t] : t \in {x \in Sockets : r \in joined[x]}}]]
    /\ UNCHANGED <<conn, joined, inbox, presence, removed>>

(* getRoomMembers: every row, blocked or not. *)
ReadMembers(h) ==
    /\ fan[h].pc = "members"
    /\ fan' = [fan EXCEPT ![h].pc = "loop",
                          ![h].todo = {u \in Users : <<u, fan[h].room>> \in Members}
                                        \ {fan[h].sender}]
    /\ UNCHANGED <<conn, joined, inbox, presence, removed>>

(* One turn of the loop, which awaits the queue before the next one.  That *)
(* a failure to queue is caught and logged is left out: pushed has the     *)
(* members a push was tried for.                                           *)
NotifyMember(h) ==
    /\ fan[h].pc = "loop"
    /\ \E u \in fan[h].todo :
         fan' = [fan EXCEPT ![h].todo = @ \ {u},
                            ![h].pushed = IF ShouldNotifyUser(u, fan[h].room)
                                          THEN @ \cup {u} ELSE @]
    /\ UNCHANGED <<conn, joined, inbox, presence, removed>>

(* The loop is through, or a database call threw and was caught. *)
EndFan(h) ==
    /\ \/ fan[h].pc = "loop" /\ fan[h].todo = {}
       \/ fan[h].pc = "members"
    /\ fan' = [fan EXCEPT ![h] = Idle]
    /\ UNCHANGED <<conn, joined, inbox, presence, removed>>

----------------------------------------------------------------------------
Next ==
    \/ \E s \in Sockets :
         \/ HandleConnection(s) \/ HandleDisconnect(s)
         \/ \E r \in Rooms : \/ Receive(s, "join", r) \/ Receive(s, "leave", r)
                             \/ HandleJoinGroup(s, r) \/ HandleLeaveGroup(s, r)
    \/ \E u \in Users, r \in Rooms : HandleRemoveUser(u, r)
    \/ \E h \in Sends : \/ BroadcastMessage(h) \/ ReadMembers(h)
                        \/ NotifyMember(h) \/ EndFan(h)

Spec == Init /\ [][Next]_vars

----------------------------------------------------------------------------
(* Properties *)

(* The maps and sets of the gateway, the status service and Socket.IO.     *)
TypeOK ==
    /\ conn \in [Sockets -> {"new", "open", "closed"}]
    /\ joined \in [Sockets -> SUBSET Rooms]
    /\ inbox \subseteq {"join", "leave"} \X Sockets \X Rooms
    /\ connected \in [Users \X Rooms -> Sockets \cup {None}]
    /\ online \in [Users -> Record \cup {Offline}]
    /\ active \in [Rooms -> SUBSET Users]
    /\ removed \subseteq Removals
    /\ fan \in [Sends -> Fan \cup {Idle}]

(* The user is recorded as viewing room r on socket s. *)
Viewing(u, s, r) == online[u] = [socket |-> s, room |-> r]

(* As long as the socket of a viewing record is open, it is in that room,  *)
(* whatever the user's other sockets join, leave and close: the user sees  *)
(* the broadcasts that shouldNotifyUser spares them the pushes for.        *)
ViewersAreInRoom ==
    \A u \in Users, s \in Sockets, r \in Rooms :
      Viewing(u, s, r) /\ conn[s] = "open" => r \in joined[s] /\ u \in active[r]

(* handleDisconnect finds users by connectedUsers, not by the record: it   *)
(* nonetheless forgets every user who was viewing a room on the socket.    *)
DisconnectForgets ==
    [][\A s \in Sockets, u \in Users, r \in Rooms :
         (Viewing(u, s, r) /\ conn[s] = "open" /\ conn'[s] = "closed")
           => online'[u] = Offline /\ u \notin active'[r]]_vars

(* A member the loop has passed without a push had heard the broadcast, or *)
(* joined the room after it (and reads the history then), or was recorded  *)
(* as viewing on a socket that is gone.                                    *)
UnpushedHeardOrJoined ==
    [][\A h \in Sends : fan[h].pc = "loop" /\ fan'[h].pc = "loop" =>
         \A u \in fan[h].todo \ fan'[h].todo :
           \/ u \in fan'[h].pushed \cup fan[h].heard \cup fan[h].late
           \/ conn[online[u].socket] = "closed"]_vars
=============================================================================
