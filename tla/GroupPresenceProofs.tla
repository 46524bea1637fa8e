------------------------ MODULE GroupPresenceProofs ------------------------
(***************************************************************************)
(* Theorems about GroupPresence, for every number of users, rooms, sockets *)
(* and messages: its type invariant, that the record of an open socket is  *)
(* true of it, that closing the socket forgets its user, and that whoever  *)
(* the send loop spares a push knows of the message.                       *)
(*                                                                         *)
(* handleDisconnect looks in connectedUsers for the user to forget, while  *)
(* the record is kept by another service.  What ties them together is      *)
(* Keyed: a record on an open socket has its key in connectedUsers, and a  *)
(* key names a socket of its own user.  Started says that nothing is known *)
(* about a socket before it connects.                                      *)
(***************************************************************************)
EXTENDS GroupPresence, TLAPS

Keyed ==
    /\ \A u \in Users, s \in Sockets, r \in Rooms :
         Viewing(u, s, r) /\ conn[s] = "open" => connected[<<u, r>>] = s
    /\ \A u \in Users, r \in Rooms :
         connected[<<u, r>>] # None => Owner[connected[<<u, r>>]] = u

Started ==
    /\ \A m \in inbox : conn[m[2]] # "new"
    /\ \A u \in Users, s \in Sockets : online[u].socket = s => conn[s] # "new"

PInv == TypeOK /\ Started /\ Keyed /\ ViewersAreInRoom

(* Whoever is in the room of a message on its way heard it, or came later. *)
RoomsKnow ==
    \A h \in Sends : fan[h] # Idle =>
      \A s \in Sockets :
        fan[h].room \in joined[s] => Owner[s] \in fan[h].heard \cup fan[h].late

----------------------------------------------------------------------------
(* Types *)

LEMMA InitTypes == Init => TypeOK
  BY DEF Init, TypeOK, Record, Offline, Fan, Idle

LEMMA JoinTypes ==
    ASSUME TypeOK, NEW s \in Sockets, NEW r \in Rooms, HandleJoinGroup(s, r)
    PROVE  TypeOK'
<1> USE PresenceAssumption DEF TypeOK
<1>1. Owner[s] \in Users
  OBVIOUS
<1>2. CASE <<Owner[s], r>> \notin Access
  BY <1>2 DEF HandleJoinGroup, presence
<1>3. CASE <<Owner[s], r>> \in Access
  <2>1. joined' \in [Sockets -> SUBSET Rooms]
    BY <1>3 DEF HandleJoinGroup
  <2>2. connected' \in [Users \X Rooms -> Sockets \cup {None}]
    BY <1>1, <1>3 DEF HandleJoinGroup
  <2>3. online' \in [Users -> Record \cup {Offline}]
    BY <1>1, <1>3 DEF HandleJoinGroup, EnterRoom, Record
  <2>4. active' \in [Rooms -> SUBSET Users]
    BY <1>1, <1>3 DEF HandleJoinGroup, EnterRoom
  <2>5. fan' \in [Sends -> Fan \cup {Idle}]
    <3>1. ASSUME NEW h \in Sends
          PROVE  fan'[h] \in Fan \cup {Idle}
      <4>1. CASE fan[h] = Idle \/ fan[h].room # r
        BY <1>3, <4>1 DEF HandleJoinGroup
      <4>2. CASE fan[h] # Idle /\ fan[h].room = r
        <5>1. fan'[h] = [fan[h] EXCEPT !.late = @ \cup {Owner[s]}]
          BY <1>3, <4>2 DEF HandleJoinGroup
        <5>2. fan[h] \in Fan
          BY <4>2
        <5> QED BY <1>1, <5>1, <5>2 DEF Fan
      <4> QED BY <4>1, <4>2
    <3> QED BY <1>3, <3>1 DEF HandleJoinGroup
  <2> QED BY <2>1, <2>2, <2>3, <2>4, <2>5 DEF HandleJoinGroup
<1> QED BY <1>2, <1>3

LEMMA LeaveTypes ==
    ASSUME TypeOK, NEW s \in Sockets, NEW r \in Rooms, HandleLeaveGroup(s, r)
    PROVE  TypeOK'
<1> USE PresenceAssumption DEF TypeOK
<1>1. Owner[s] \in Users
  OBVIOUS
<1>2. online' \in [Users -> Record \cup {Offline}]
  BY <1>1 DEF HandleLeaveGroup, LeaveRoom, Record, Offline
<1>3. active' \in [Rooms -> SUBSET Users]
  BY <1>1 DEF HandleLeaveGroup, LeaveRoom
<1>4. joined' \in [Sockets -> SUBSET Rooms]
  BY DEF HandleLeaveGroup
<1>5. connected' \in [Users \X Rooms -> Sockets \cup {None}]
  BY <1>1 DEF HandleLeaveGroup
<1> QED BY <1>2, <1>3, <1>4, <1>5 DEF HandleLeaveGroup

LEMMA DisconnectTypes ==
    ASSUME TypeOK, NEW s \in Sockets, HandleDisconnect(s)
    PROVE  TypeOK'
<1> USE PresenceAssumption DEF TypeOK
<1>1. connected' \in [Users \X Rooms -> Sockets \cup {None}]
  BY DEF HandleDisconnect, presence
<1>2. online' \in [Users -> Record \cup {Offline}]
  BY DEF HandleDisconnect, SetUserOffline, presence
<1>3. active' \in [Rooms -> SUBSET Users]
  BY DEF HandleDisconnect, SetUserOffline, presence
<1> QED BY <1>1, <1>2, <1>3 DEF HandleDisconnect

LEMMA FanTypes ==
    ASSUME TypeOK, NEW h \in Sends,
           \/ BroadcastMessage(h) \/ ReadMembers(h)
           \/ NotifyMember(h) \/ EndFan(h)
    PROVE  TypeOK'
<1> USE PresenceAssumption DEF TypeOK
<1>1. PICK f : fan' = [fan EXCEPT ![h] = f] /\ f \in Fan \cup {Idle}
  <2>1. CASE BroadcastMessage(h)
    <3>1. PICK s \in Sockets, r \in Rooms : fan' = [fan EXCEPT ![h] =
              [pc |-> "members", room |-> r, sender |-> Owner[s],
               todo |-> {}, pushed |-> {}, late |-> {},
               heard |-> {Owner[t] : t \in {x \in Sockets : r \in joined[x]}}]]
      BY <2>1 DEF BroadcastMessage
    <3> DEFINE there == {Owner[t] : t \in {x \in Sockets : r \in joined[x]}}
               f == [pc |-> "members", room |-> r, sender |-> Owner[s],
                     todo |-> {}, pushed |-> {}, late |-> {}, heard |-> there]
    <3>2. there \subseteq Users /\ Owner[s] \in Users
      OBVIOUS
    <3>3. fan' = [fan EXCEPT ![h] = f]
      BY <3>1
    <3> HIDE DEF there
    <3>4. f \in Fan
      BY <3>2 DEF Fan
    <3> QED BY <3>3, <3>4
  <2>2. CASE ReadMembers(h)
    <3> DEFINE f == [fan[h] EXCEPT !.pc = "loop",
                       !.todo = {u \in Users : <<u, fan[h].room>> \in Members}
                                  \ {fan[h].sender}]
    <3>1. fan[h] \in Fan
      BY <2>2 DEF ReadMembers, Idle
    <3>2. fan' = [fan EXCEPT ![h] = f]
      BY <2>2 DEF ReadMembers
    <3>3. f \in Fan
      BY <3>1 DEF Fan
    <3> QED BY <3>2, <3>3
  <2>3. CASE NotifyMember(h)
    <3>1. fan[h] \in Fan
      <4>1. fan[h].pc = "loop"
        BY <2>3 DEF NotifyMember
      <4> QED BY <4>1 DEF Idle
    <3>2. PICK u \in fan[h].todo :
            fan' = [fan EXCEPT ![h].todo = @ \ {u},
                               ![h].pushed = IF ShouldNotifyUser(u, fan[h].room)
                                             THEN @ \cup {u} ELSE @]
      BY <2>3 DEF NotifyMember
    <3> DEFINE f == [fan[h] EXCEPT !.todo = @ \ {u},
                       !.pushed = IF ShouldNotifyUser(u, fan[h].room)
                                  THEN @ \cup {u} ELSE @]
    <3>3. fan' = [fan EXCEPT ![h] = f]
      BY <3>2
    <3>4. f \in Fan
      BY <3>1 DEF Fan
    <3> QED BY <3>3, <3>4
  <2>4. CASE EndFan(h)
    BY <2>4 DEF EndFan
  <2> QED BY <2>1, <2>2, <2>3, <2>4
<1>2. UNCHANGED <<conn, joined, inbox, presence, removed>>
  BY DEF BroadcastMessage, ReadMembers, NotifyMember, EndFan
<1> QED BY <1>1, <1>2 DEF presence

----------------------------------------------------------------------------
(* The steps that touch a record *)

(* The join replaces the user's record and key together.                   *)
LEMMA JoinKeyed ==
    ASSUME PInv, TypeOK', NEW s \in Sockets, NEW r \in Rooms,
           HandleJoinGroup(s, r)
    PROVE  Keyed' /\ ViewersAreInRoom'
<1> USE PresenceAssumption DEF PInv, TypeOK
<1>1. CASE <<Owner[s], r>> \notin Access
  BY <1>1 DEF HandleJoinGroup, presence, Keyed, ViewersAreInRoom, Viewing
<1>2. CASE <<Owner[s], r>> \in Access
  <2> DEFINE o == Owner[s]
  <2>1. /\ o \in Users /\ UNCHANGED conn
        /\ online' = [online EXCEPT ![o] = [socket |-> s, room |-> r]]
        /\ active' = [active EXCEPT ![r] = @ \cup {o}]
        /\ connected' = [connected EXCEPT ![<<o, r>>] = s]
        /\ joined' = IF conn[s] = "open"
                     THEN [joined EXCEPT ![s] = @ \cup {r}] ELSE joined
    BY <1>2 DEF HandleJoinGroup, EnterRoom
  <2> HIDE DEF o
  <2>2. ASSUME NEW u \in Users, NEW t \in Sockets, NEW q \in Rooms,
               online'[u] = [socket |-> t, room |-> q], conn'[t] = "open"
        PROVE  connected'[<<u, q>>] = t /\ q \in joined'[t] /\ u \in active'[q]
    <3>1. CASE u = o
      <4>1. t = s /\ q = r
        BY <2>1, <2>2, <3>1 DEF Viewing
      <4> QED BY <2>1, <2>2, <3>1, <4>1
    <3>2. CASE u # o
      BY <2>1, <2>2, <3>2 DEF Keyed, ViewersAreInRoom, Viewing
    <3> QED BY <3>1, <3>2
  <2>3. ASSUME NEW u \in Users, NEW q \in Rooms, connected'[<<u, q>>] # None
        PROVE  Owner[connected'[<<u, q>>]] = u
    BY <2>1, <2>3 DEF o, Keyed
  <2> QED BY ONLY <2>2, <2>3 DEF Keyed, ViewersAreInRoom, Viewing
<1> QED BY <1>1, <1>2

(* A leave ends the user's record only if it is about the same room.       *)
LEMMA LeaveKeyed ==
    ASSUME PInv, TypeOK', NEW s \in Sockets, NEW r \in Rooms,
           HandleLeaveGroup(s, r)
    PROVE  Keyed' /\ ViewersAreInRoom'
<1> USE PresenceAssumption DEF PInv, TypeOK
<1> DEFINE o == Owner[s]
<1>1. /\ o \in Users /\ UNCHANGED conn
      /\ online' = [online EXCEPT ![o].room = IF @ = r THEN None ELSE @]
      /\ active' = [active EXCEPT ![r] = @ \ {o}]
      /\ connected' = [connected EXCEPT ![<<o, r>>] = None]
      /\ joined' = [joined EXCEPT ![s] = @ \ {r}]
  BY DEF HandleLeaveGroup, LeaveRoom
<1>2. ASSUME NEW u \in Users, NEW t \in Sockets, NEW q \in Rooms,
             online'[u] = [socket |-> t, room |-> q], conn'[t] = "open"
      PROVE  connected'[<<u, q>>] = t /\ q \in joined'[t] /\ u \in active'[q]
  <2>1. online[u] = [socket |-> t, room |-> q] /\ (u = o => q # r)
    <3>1. CASE u = o
      <4>1. /\ online'[u] = [online[u] EXCEPT !.room = IF @ = r THEN None ELSE @]
            /\ online[u] \in Record \cup {Offline}
        BY <1>1, <3>1
      <4>2. online[u].room # r
        BY <1>2, <4>1 DEF Record, Offline
      <4>3. online'[u] = online[u] /\ q # r
        BY <1>2, <4>1, <4>2 DEF Record, Offline
      <4> QED BY <1>2, <4>3
    <3>2. CASE u # o
      BY <1>1, <1>2, <3>2 DEF Viewing
    <3> QED BY <3>1, <3>2
  <2>2. connected[<<u, q>>] = t /\ q \in joined[t] /\ u \in active[q]
    BY <1>1, <1>2, <2>1 DEF Keyed, ViewersAreInRoom, Viewing
  <2>3. Owner[t] = u
    BY <2>2 DEF Keyed
  <2> QED BY <1>1, <2>1, <2>2, <2>3
<1>3. ASSUME NEW u \in Users, NEW q \in Rooms, connected'[<<u, q>>] # None
      PROVE  Owner[connected'[<<u, q>>]] = u
  BY <1>1, <1>3 DEF Keyed
<1> QED BY ONLY <1>2, <1>3 DEF Keyed, ViewersAreInRoom, Viewing

(* Whom a disconnect forgets: the user whose record is on the socket.      *)
LEMMA DisconnectFinds ==
    ASSUME PInv, NEW s \in Sockets, HandleDisconnect(s),
           NEW u \in Users, NEW r \in Rooms, Viewing(u, s, r)
    PROVE  SetUserOffline(u)
<1> USE PresenceAssumption DEF PInv, TypeOK, Keyed
<1>1. connected[<<u, r>>] = s /\ s # None
  BY DEF HandleDisconnect
<1>2. PICK k \in Users \X Rooms : connected[k] = s /\ SetUserOffline(k[1])
  BY <1>1 DEF HandleDisconnect
<1>3. k = <<k[1], k[2]>> /\ k[1] \in Users /\ k[2] \in Rooms
  OBVIOUS
<1>4. Owner[s] = u /\ Owner[s] = k[1]
  BY <1>1, <1>2, <1>3
<1> QED BY <1>2, <1>4

LEMMA DisconnectKeyed ==
    ASSUME PInv, TypeOK', NEW s \in Sockets, HandleDisconnect(s)
    PROVE  Keyed' /\ ViewersAreInRoom'
<1> USE PresenceAssumption DEF PInv, TypeOK
<1>1. /\ conn' = [conn EXCEPT ![s] = "closed"]
      /\ joined' = [joined EXCEPT ![s] = {}]
  BY DEF HandleDisconnect
<1>2. \A k \in Users \X Rooms : \/ connected'[k] = connected[k]
                                \/ connected'[k] = None /\ connected[k] = s
  BY DEF HandleDisconnect, presence
<1>3. ASSUME NEW u \in Users
      PROVE  \/ online'[u] = Offline
             \/ /\ online'[u] = online[u]
                /\ \A r \in Rooms : u \in active[r] => u \in active'[r]
  <2>1. CASE UNCHANGED presence
    BY <2>1 DEF presence
  <2>2. CASE \E k \in Users \X Rooms : SetUserOffline(k[1])
    BY <2>2 DEF SetUserOffline
  <2> QED BY <2>1, <2>2 DEF HandleDisconnect
<1>4. ASSUME NEW u \in Users, NEW t \in Sockets, NEW q \in Rooms,
             online'[u] = [socket |-> t, room |-> q], conn'[t] = "open"
      PROVE  connected'[<<u, q>>] = t /\ q \in joined'[t] /\ u \in active'[q]
  <2>1. t # s /\ conn[t] = "open"
    BY <1>1, <1>4
  <2>2. Viewing(u, t, q) /\ \A r \in Rooms : u \in active[r] => u \in active'[r]
    BY <1>3, <1>4 DEF Viewing, Offline
  <2>3. connected[<<u, q>>] = t /\ q \in joined[t] /\ u \in active[q]
    BY <2>1, <2>2 DEF Keyed, ViewersAreInRoom
  <2> QED BY <1>1, <1>2, <2>1, <2>2, <2>3
<1>5. ASSUME NEW u \in Users, NEW q \in Rooms, connected'[<<u, q>>] # None
      PROVE  Owner[connected'[<<u, q>>]] = u
  BY <1>2, <1>5 DEF Keyed
<1> QED BY ONLY <1>4, <1>5 DEF Keyed, ViewersAreInRoom, Viewing

----------------------------------------------------------------------------
(* The invariant *)

LEMMA InitPInv == Init => PInv
<1> SUFFICES ASSUME Init PROVE PInv
  OBVIOUS
<1>1. Keyed /\ ViewersAreInRoom
  BY PresenceAssumption DEF Init, Keyed, ViewersAreInRoom, Viewing, Offline
<1>2. Started
  BY PresenceAssumption DEF Init, Started, Offline
<1> QED BY <1>1, <1>2, InitTypes DEF PInv

LEMMA StartedStep == PInv /\ [Next]_vars => Started'
<1> SUFFICES ASSUME PInv, [Next]_vars PROVE Started'
  OBVIOUS
<1> USE PresenceAssumption DEF PInv, TypeOK, Started
<1>1. ASSUME NEW s \in Sockets, HandleConnection(s) PROVE Started'
  BY <1>1 DEF HandleConnection, presence
<1>2. ASSUME NEW s \in Sockets, NEW r \in Rooms, NEW e, Receive(s, e, r)
      PROVE  Started'
  BY <1>2 DEF Receive, presence
<1>3. ASSUME NEW s \in Sockets, NEW r \in Rooms, HandleJoinGroup(s, r)
      PROVE  Started'
  <2>1. conn[s] # "new" /\ UNCHANGED conn
    BY <1>3 DEF HandleJoinGroup
  <2>2. \A u \in Users : online'[u] = online[u] \/ online'[u].socket = s
    BY <1>3 DEF HandleJoinGroup, EnterRoom, presence
  <2> QED BY <1>3, <2>1, <2>2 DEF HandleJoinGroup
<1>4. ASSUME NEW s \in Sockets, NEW r \in Rooms, HandleLeaveGroup(s, r)
      PROVE  Started'
  <2>1. \A u \in Users : online'[u].socket = online[u].socket
    BY <1>4 DEF HandleLeaveGroup, LeaveRoom, Record, Offline
  <2> QED BY <1>4, <2>1 DEF HandleLeaveGroup
<1>5. ASSUME NEW s \in Sockets, HandleDisconnect(s) PROVE Started'
  <2>1. \A u \in Users : online'[u] = online[u] \/ online'[u] = Offline
    BY <1>5 DEF HandleDisconnect, SetUserOffline, presence
  <2>2. \A t \in Sockets : conn'[t] = conn[t] \/ conn'[t] = "closed"
    BY <1>5 DEF HandleDisconnect
  <2> QED BY <1>5, <2>1, <2>2 DEF HandleDisconnect, Offline
<1>6. CASE UNCHANGED <<conn, inbox, presence>>
  BY <1>6 DEF presence
<1> QED BY <1>1, <1>2, <1>3, <1>4, <1>5, <1>6
       DEF Next, HandleRemoveUser, BroadcastMessage, ReadMembers, NotifyMember,
           EndFan, vars, presence

LEMMA NextPInv == PInv /\ [Next]_vars => PInv'
<1> SUFFICES ASSUME PInv, [Next]_vars PROVE PInv'
  OBVIOUS
<1> USE DEF PInv
<1>0. Started'
  BY StartedStep
<1>1. ASSUME NEW s \in Sockets, HandleConnection(s) PROVE PInv'
  <2>1. /\ conn' = [conn EXCEPT ![s] = "open"] /\ conn[s] = "new"
        /\ UNCHANGED <<joined, inbox, presence, removed, fan>>
    BY <1>1 DEF HandleConnection
  <2>2. TypeOK'
    BY <2>1 DEF TypeOK, presence
  <2>3. ASSUME NEW u \in Users, NEW t \in Sockets, NEW r \in Rooms,
               online'[u] = [socket |-> t, room |-> r], conn'[t] = "open"
        PROVE  connected'[<<u, r>>] = t /\ r \in joined'[t] /\ u \in active'[r]
    <3>1. Viewing(u, t, r) /\ t # s
      BY <2>1, <2>3 DEF Viewing, Started, presence
    <3>2. conn[t] = "open"
      BY <2>1, <2>3, <3>1 DEF TypeOK
    <3> QED BY <2>1, <3>1, <3>2 DEF Keyed, ViewersAreInRoom, presence
  <2>4. ASSUME NEW u \in Users, NEW r \in Rooms, connected'[<<u, r>>] # None
        PROVE  Owner[connected'[<<u, r>>]] = u
    BY <2>1, <2>4 DEF Keyed, presence
  <2>5. Keyed' /\ ViewersAreInRoom'
    BY ONLY <2>3, <2>4 DEF Keyed, ViewersAreInRoom, Viewing
  <2> QED BY <1>0, <2>2, <2>5
<1>2. ASSUME NEW s \in Sockets, NEW r \in Rooms, NEW e \in {"join", "leave"},
             Receive(s, e, r)
      PROVE  PInv'
  BY <1>0, <1>2 DEF Receive, TypeOK, Keyed, ViewersAreInRoom, Viewing, presence
<1>3. ASSUME NEW s \in Sockets, NEW r \in Rooms, HandleJoinGroup(s, r)
      PROVE  PInv'
  BY <1>0, <1>3, JoinTypes, JoinKeyed
<1>4. ASSUME NEW s \in Sockets, NEW r \in Rooms, HandleLeaveGroup(s, r)
      PROVE  PInv'
  BY <1>0, <1>4, LeaveTypes, LeaveKeyed
<1>5. ASSUME NEW s \in Sockets, HandleDisconnect(s) PROVE PInv'
  BY <1>0, <1>5, DisconnectTypes, DisconnectKeyed
<1>6. ASSUME NEW u \in Users, NEW r \in Rooms, HandleRemoveUser(u, r)
      PROVE  PInv'
  BY <1>0, <1>6 DEF HandleRemoveUser, TypeOK, Keyed, ViewersAreInRoom, Viewing, presence
<1>7. ASSUME NEW h \in Sends,
             \/ BroadcastMessage(h) \/ ReadMembers(h)
             \/ NotifyMember(h) \/ EndFan(h)
      PROVE  PInv'
  <2>1. UNCHANGED <<conn, joined, presence>>
    BY <1>7 DEF BroadcastMessage, ReadMembers, NotifyMember, EndFan
  <2>2. Keyed' /\ ViewersAreInRoom'
    BY <2>1 DEF Keyed, ViewersAreInRoom, Viewing, presence
  <2> QED BY <1>0, <1>7, <2>2, FanTypes
<1>8. CASE UNCHANGED vars
  BY <1>0, <1>8 DEF vars, presence, TypeOK, Keyed, ViewersAreInRoom, Viewing
<1> QED BY <1>1, <1>2, <1>3, <1>4, <1>5, <1>6, <1>7, <1>8 DEF Next

LEMMA PresenceInvariant == Spec => []PInv
<1> QED BY InitPInv, NextPInv, PTL DEF Spec

(* The maps of the gateway and of the status service keep their shapes.    *)
THEOREM TypeCorrect == Spec => []TypeOK
<1>1. PInv => TypeOK
  BY DEF PInv
<1> QED BY <1>1, PresenceInvariant, PTL

(* A record on an open socket is true of that socket: the user is spared   *)
(* pushes by handleSendGroupMessage only for broadcasts the socket gets.   *)
THEOREM OpenRecordsAreTrue == Spec => []ViewersAreInRoom
<1>1. PInv => ViewersAreInRoom
  BY DEF PInv
<1> QED BY <1>1, PresenceInvariant, PTL

(* handleDisconnect forgets whoever was viewing a room on the socket.      *)
THEOREM ClosingForgets == Spec => DisconnectForgets
<1> DEFINE Forgets ==
      \A s \in Sockets, u \in Users, r \in Rooms :
        (Viewing(u, s, r) /\ conn[s] = "open" /\ conn'[s] = "closed")
          => online'[u] = Offline /\ u \notin active'[r]
<1>1. PInv /\ [Next]_vars => [Forgets]_vars
  <2> SUFFICES ASSUME PInv, [Next]_vars, NEW s \in Sockets, NEW u \in Users,
                      NEW r \in Rooms, Viewing(u, s, r), conn[s] = "open",
                      conn'[s] = "closed"
               PROVE  online'[u] = Offline /\ u \notin active'[r]
    OBVIOUS
  <2>1. HandleDisconnect(s)
    BY DEF Next, PInv, TypeOK, vars, presence, HandleConnection, Receive,
           HandleJoinGroup, HandleLeaveGroup, HandleDisconnect, HandleRemoveUser,
           BroadcastMessage, ReadMembers, NotifyMember, EndFan
  <2>2. SetUserOffline(u)
    BY <2>1, DisconnectFinds
  <2> QED BY <2>2 DEF SetUserOffline, Viewing, PInv, TypeOK
<1> QED BY <1>1, PresenceInvariant, PTL DEF Spec, DisconnectForgets

----------------------------------------------------------------------------
(* The send loop *)

LEMMA JoinRoomsKnow ==
    ASSUME PInv, RoomsKnow, NEW s \in Sockets, NEW r \in Rooms,
           HandleJoinGroup(s, r)
    PROVE  RoomsKnow'
<1> USE PresenceAssumption DEF PInv, TypeOK, RoomsKnow
<1>1. CASE <<Owner[s], r>> \notin Access
  BY <1>1 DEF HandleJoinGroup
<1>2. CASE <<Owner[s], r>> \in Access
  <2> SUFFICES ASSUME NEW h \in Sends, fan'[h] # Idle, NEW t \in Sockets,
                      fan'[h].room \in joined'[t]
               PROVE  Owner[t] \in fan'[h].heard \cup fan'[h].late
    OBVIOUS
  <2>1. \A x \in Rooms : x \in joined'[t] => x \in joined[t] \/ (t = s /\ x = r)
    BY <1>2 DEF HandleJoinGroup
  <2>2. fan[h] # Idle
    BY <1>2 DEF HandleJoinGroup
  <2>3. fan[h] \in Fan
    BY <2>2
  <2>4. CASE fan[h].room = r
    <3>1. fan'[h] = [fan[h] EXCEPT !.late = @ \cup {Owner[s]}]
      BY <1>2, <2>2, <2>4 DEF HandleJoinGroup
    <3>2. /\ fan'[h].room = r /\ fan'[h].heard = fan[h].heard
          /\ fan'[h].late = fan[h].late \cup {Owner[s]}
      BY <2>3, <2>4, <3>1 DEF Fan
    <3> QED BY <2>1, <2>2, <2>4, <3>2
  <2>5. CASE fan[h].room # r
    <3>1. fan'[h] = fan[h]
      BY <1>2, <2>5 DEF HandleJoinGroup
    <3>2. fan[h].room \in Rooms
      BY <2>3 DEF Fan
    <3> QED BY <2>1, <2>2, <2>5, <3>1, <3>2
  <2> QED BY <2>4, <2>5
<1> QED BY <1>1, <1>2

LEMMA SendRoomsKnow ==
    ASSUME PInv, RoomsKnow, NEW h \in Sends,
           \/ BroadcastMessage(h) \/ ReadMembers(h)
           \/ NotifyMember(h) \/ EndFan(h)
    PROVE  RoomsKnow'
<1> USE PresenceAssumption DEF PInv, TypeOK
<1>1. UNCHANGED joined /\ \A g \in Sends : g # h => fan'[g] = fan[g]
  BY DEF BroadcastMessage, ReadMembers, NotifyMember, EndFan
<1>2. ASSUME fan'[h] # Idle, NEW s \in Sockets, fan'[h].room \in joined[s]
      PROVE  Owner[s] \in fan'[h].heard \cup fan'[h].late
  <2>1. CASE BroadcastMessage(h)
    <3>1. PICK r \in Rooms :
            /\ fan'[h].room = r
            /\ fan'[h].heard = {Owner[t] : t \in {x \in Sockets : r \in joined[x]}}
      BY <2>1 DEF BroadcastMessage
    <3> QED BY <1>2, <3>1
  <2>2. CASE ReadMembers(h) \/ NotifyMember(h)
    <3>1. fan[h] # Idle
      BY <2>2 DEF ReadMembers, NotifyMember, Idle
    <3>2. fan[h] \in Fan
      BY <3>1
    <3>3. /\ fan'[h].room = fan[h].room /\ fan'[h].heard = fan[h].heard
          /\ fan'[h].late = fan[h].late
      <4>1. CASE ReadMembers(h)
        BY <3>2, <4>1 DEF ReadMembers, Fan
      <4>2. CASE NotifyMember(h)
        <5>1. PICK v \in fan[h].todo :
                fan' = [fan EXCEPT ![h].todo = @ \ {v},
                                   ![h].pushed = IF ShouldNotifyUser(v, fan[h].room)
                                                 THEN @ \cup {v} ELSE @]
          BY <4>2 DEF NotifyMember
        <5> QED BY <3>2, <5>1 DEF Fan
      <4> QED BY <2>2, <4>1, <4>2
    <3> QED BY <1>2, <3>1, <3>3 DEF RoomsKnow
  <2>3. CASE EndFan(h)
    BY <1>2, <2>3 DEF EndFan
  <2> QED BY <2>1, <2>2, <2>3
<1> QED BY <1>1, <1>2 DEF RoomsKnow

LEMMA NextRoomsKnow == PInv /\ RoomsKnow /\ [Next]_vars => RoomsKnow'
<1> SUFFICES ASSUME PInv, RoomsKnow, [Next]_vars PROVE RoomsKnow'
  OBVIOUS
<1>1. ASSUME NEW s \in Sockets, NEW r \in Rooms, HandleJoinGroup(s, r)
      PROVE  RoomsKnow'
  BY <1>1, JoinRoomsKnow
<1>2. ASSUME NEW h \in Sends,
             \/ BroadcastMessage(h) \/ ReadMembers(h)
             \/ NotifyMember(h) \/ EndFan(h)
      PROVE  RoomsKnow'
  BY <1>2, SendRoomsKnow
<1>3. ASSUME NEW s \in Sockets, NEW r \in Rooms,
             HandleLeaveGroup(s, r)
      PROVE  RoomsKnow'
  <2>1. UNCHANGED fan /\ \A t \in Sockets : joined'[t] \subseteq joined[t]
    BY <1>3 DEF HandleLeaveGroup, PInv, TypeOK
  <2> QED BY <2>1 DEF RoomsKnow
<1>4. CASE UNCHANGED <<joined, fan>>
  BY <1>4 DEF RoomsKnow
<1>5. ASSUME NEW s \in Sockets, HandleDisconnect(s) PROVE RoomsKnow'
  <2>1. UNCHANGED fan /\ \A t \in Sockets : joined'[t] \subseteq joined[t]
    BY <1>5 DEF HandleDisconnect, PInv, TypeOK
  <2> QED BY <2>1 DEF RoomsKnow
<1> QED BY <1>1, <1>2, <1>3, <1>4, <1>5
       DEF Next, HandleConnection, Receive, HandleRemoveUser, vars

(* A record that spares a member the push for a message is on a socket     *)
(* that has closed, or on one that is in the room.                         *)
LEMMA SparedIsThere ==
    ASSUME PInv, RoomsKnow, NEW h \in Sends, fan[h] # Idle, NEW u \in Users,
           ~ShouldNotifyUser(u, fan[h].room)
    PROVE  \/ u \in fan[h].heard \cup fan[h].late
           \/ conn[online[u].socket] = "closed"
<1> USE PresenceAssumption DEF PInv, TypeOK
<1> DEFINE s == online[u].socket
           r == fan[h].room
<1>1. r \in Rooms
  BY DEF Fan
<1>2. online[u] \in Record
  BY <1>1 DEF ShouldNotifyUser, Offline
<1>3. s \in Sockets /\ online[u] = [socket |-> s, room |-> r]
  BY <1>2 DEF ShouldNotifyUser, Record
<1>4. conn[s] # "new"
  BY <1>3 DEF Started
<1>5. ASSUME conn[s] = "open" PROVE u \in fan[h].heard \cup fan[h].late
  <2>1. r \in joined[s] /\ connected[<<u, r>>] = s
    BY <1>1, <1>3, <1>5 DEF Viewing, ViewersAreInRoom, Keyed
  <2>2. Owner[s] = u
    BY <1>1, <1>3, <2>1 DEF Keyed
  <2> QED BY <1>3, <2>1, <2>2 DEF RoomsKnow
<1> QED BY <1>3, <1>4, <1>5

(* Whoever the send loop passes over had heard the message, has come to    *)
(* the room since, or was recorded on a socket that is gone.               *)
THEOREM PassedOverKnow == Spec => UnpushedHeardOrJoined
<1> DEFINE Passed ==
      \A h \in Sends : fan[h].pc = "loop" /\ fan'[h].pc = "loop" =>
        \A u \in fan[h].todo \ fan'[h].todo :
          \/ u \in fan'[h].pushed \cup fan[h].heard \cup fan[h].late
          \/ conn[online[u].socket] = "closed"
<1>1. Init => RoomsKnow
  BY DEF Init, RoomsKnow
<1>2. PInv /\ RoomsKnow /\ [Next]_vars => [Passed]_vars
  <2> SUFFICES ASSUME PInv, RoomsKnow, [Next]_vars, NEW h \in Sends,
                      fan[h].pc = "loop", fan'[h].pc = "loop",
                      NEW u \in fan[h].todo \ fan'[h].todo
               PROVE  \/ u \in fan'[h].pushed \cup fan[h].heard \cup fan[h].late
                      \/ conn[online[u].socket] = "closed"
    OBVIOUS
  <2> USE PresenceAssumption DEF PInv, TypeOK
  <2>1. fan[h] \in Fan /\ fan[h] # Idle
    BY DEF Idle
  <2>2. u \in Users
    BY <2>1 DEF Fan
  <2>3. NotifyMember(h)
    <3>1. ASSUME NEW s \in Sockets, NEW r \in Rooms, HandleJoinGroup(s, r)
          PROVE  fan'[h].todo = fan[h].todo
      <4>1. \/ fan'[h] = fan[h]
            \/ fan'[h] = [fan[h] EXCEPT !.late = @ \cup {Owner[s]}]
        BY <3>1 DEF HandleJoinGroup
      <4> QED BY <2>1, <4>1 DEF Fan
    <3>2. ASSUME NEW g \in Sends, BroadcastMessage(g) \/ ReadMembers(g) \/ EndFan(g)
          PROVE  fan'[h] = fan[h]
      <4>1. g # h
        BY <2>1, <3>2 DEF BroadcastMessage, ReadMembers, EndFan, Idle
      <4> QED BY <3>2, <4>1 DEF BroadcastMessage, ReadMembers, EndFan
    <3>3. ASSUME NEW g \in Sends, NotifyMember(g), g # h
          PROVE  fan'[h] = fan[h]
      BY <3>3 DEF NotifyMember
    <3> QED BY <3>1, <3>2, <3>3
           DEF Next, HandleConnection, Receive, HandleLeaveGroup,
               HandleDisconnect, HandleRemoveUser, vars
  <2>4. u \in fan'[h].pushed \/ ~ShouldNotifyUser(u, fan[h].room)
    BY <2>1, <2>3 DEF NotifyMember, Fan
  <2> QED BY <2>1, <2>2, <2>4, SparedIsThere
<1> QED BY <1>1, <1>2, NextRoomsKnow, PresenceInvariant, PTL
       DEF Spec, UnpushedHeardOrJoined
=============================================================================
