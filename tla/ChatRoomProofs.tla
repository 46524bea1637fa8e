--------------------------- MODULE ChatRoomProofs ---------------------------
(***************************************************************************)
(* Theorems about ChatRoom, for every number of users, messages, requests  *)
(* and every setting of its constants: its type invariant, the bound on    *)
(* the pins, that it implements RoomLedger, that removals and mutes take   *)
(* effect, and what slow mode lets through.                                *)
(*                                                                         *)
(* TypeOK is not inductive: that a broadcast shows text, and that an edit  *)
(* or a pin names a message, depends on what the request carries, and the  *)
(* bound on the pins depends on the requests that have counted them and    *)
(* not yet inserted.  IInv adds both.                                      *)
(*                                                                         *)
(* The messages sent since a removal are not enough for an induction:      *)
(* requests past checkMessagePermissions will send more.  TailOK counts    *)
(* both, and a removal starts the count with at most N - 1 such requests,  *)
(* as the handler that removes is one of the N.  BurstOK counts both for   *)
(* an interval of slow mode, from the first stamp in it on; before it, the *)
(* messages of the interval are those of requests that have yet to stamp.  *)
(***************************************************************************)
EXTENDS ChatRoom, FiniteSetTheorems, TLAPS

(* What a request carries from its arrival on. *)
CarriesOK(q) ==
    /\ q.op \in {"send", "edit"} => q.arg \in Bodies
    /\ q.op = "invite" => q.arg \in {"ADMIN", "MEMBER"}
    /\ q.op \in {"edit", "delete", "pin", "adminDelete"} => q.m \in Messages

(* The requests that have stored, or found, the message they are about. *)
HasMessage(q) ==
    \/ q.pc \in {"stamp", "emit"}
    \/ q.op \in {"edit", "delete", "adminDelete"} /\ q.pc = "write"
    \/ q.op = "pin" /\ q.pc \in {"count", "write"}

StoredOK(q, messages) ==
    HasMessage(q) => q.m \in Messages /\ messages[q.m].status # "absent"

RequestsOK == \A r \in Requests : CarriesOK(req[r]) /\ StoredOK(req[r], msg)

PinWriters == {r \in Requests : At(r, "pin", "write")}

(* Every request about to insert a pin is counted as a pin. *)
PinTally ==
    /\ IsFiniteSet(pinned)
    /\ Cardinality(pinned) + Cardinality(PinWriters) <= MaxPins + N - 1

IInv == TypeOK /\ RequestsOK /\ PinTally

----------------------------------------------------------------------------
(* Steps that change one request *)

(* A request with a step to make is a full record. *)
LEMMA Busy ==
    ASSUME TypeOK, NEW r \in Requests, req[r].pc # "idle"
    PROVE  req[r] \in Request
  BY DEF TypeOK, Idle

(* A step that keeps every message stored and gives one request a record   *)
(* that is idle, or well-formed, keeps all of them well-formed.            *)
LEMMA RequestStep ==
    ASSUME TypeOK, RequestsOK, NEW r \in Requests, NEW q \in Request \cup {Idle},
           q # Idle => CarriesOK(q) /\ StoredOK(q, msg'),
           \A m \in Messages : msg[m].status # "absent" => msg'[m].status # "absent",
           req' = [req EXCEPT ![r] = q]
    PROVE  req' \in [Requests -> Request \cup {Idle}] /\ RequestsOK'
<1>1. req' \in [Requests -> Request \cup {Idle}]
  BY DEF TypeOK
<1>2. ASSUME NEW p \in Requests
      PROVE  CarriesOK(req'[p]) /\ StoredOK(req'[p], msg')
  <2>1. CASE p = r
    <3>1. req'[p] = q
      BY <2>1 DEF TypeOK
    <3>2. CASE q = Idle
      BY <3>1, <3>2 DEF CarriesOK, StoredOK, HasMessage, Idle
    <3>3. CASE q # Idle
      BY <3>1, <3>3 DEF StoredOK
    <3> QED BY <3>2, <3>3
  <2>2. CASE p # r
    <3>1. req'[p] = req[p]
      BY <2>2 DEF TypeOK
    <3>2. CarriesOK(req[p]) /\ StoredOK(req[p], msg)
      BY DEF RequestsOK
    <3> QED BY <3>1, <3>2 DEF StoredOK
  <2> QED BY <2>1, <2>2
<1> QED BY <1>1, <1>2 DEF RequestsOK

(* A step that adds no pin and no request about to insert one keeps the    *)
(* tally.                                                                  *)
LEMMA TallyStep ==
    ASSUME PinTally, pinned' \subseteq pinned, PinWriters' \subseteq PinWriters
    PROVE  PinTally'
<1>1. IsFiniteSet(PinWriters)
  BY ChatRoomAssumption, FS_Subset DEF PinWriters
<1>2. /\ IsFiniteSet(pinned') /\ Cardinality(pinned') <= Cardinality(pinned)
      /\ IsFiniteSet(PinWriters')
      /\ Cardinality(PinWriters') <= Cardinality(PinWriters)
  BY <1>1, FS_Subset DEF PinTally
<1>3. /\ Cardinality(pinned) \in Nat /\ Cardinality(PinWriters) \in Nat
      /\ Cardinality(pinned') \in Nat /\ Cardinality(PinWriters') \in Nat
      /\ N \in Nat /\ MaxPins \in Nat
  BY <1>1, <1>2, ChatRoomAssumption, FS_CardinalityType DEF PinTally, N
<1> HIDE DEF PinWriters
<1> QED BY <1>2, <1>3 DEF PinTally, N

(* No step but the count of pinMessage adds a request to PinWriters. *)
LEMMA WritersStep ==
    ASSUME TypeOK, NEW r \in Requests, NEW q,
           q.op = "pin" => q.pc # "write",
           req' = [req EXCEPT ![r] = q]
    PROVE  PinWriters' \subseteq PinWriters
  BY DEF TypeOK, PinWriters, At

(* A read keeps the invariant if going on is right for the request.        *)
LEMMA ProceedStep ==
    ASSUME IInv, NEW r \in Requests, req[r].pc # "idle",
           NEW ok, NEW pc \in Steps, Proceed(r, ok, pc),
           ok => StoredOK([req[r] EXCEPT !.pc = pc], msg),
           ok /\ req[r].op = "pin" => pc # "write"
    PROVE  IInv'
<1> DEFINE q == IF ok THEN [req[r] EXCEPT !.pc = pc] ELSE Idle
<1>1. req[r] \in Request /\ CarriesOK(req[r])
  BY Busy DEF IInv, RequestsOK
<1>2. req' = [req EXCEPT ![r] = q] /\ UNCHANGED <<db, view, clock>>
  BY DEF Proceed
<1>3. q \in Request \cup {Idle}
  BY <1>1 DEF Request
<1>4. q # Idle => CarriesOK(q) /\ StoredOK(q, msg')
  BY <1>1, <1>2 DEF CarriesOK, StoredOK, Request, db
<1>5. q.op = "pin" => q.pc # "write"
  BY <1>1 DEF Idle, Request
<1> HIDE DEF q
<1>6. req' \in [Requests -> Request \cup {Idle}] /\ RequestsOK'
  BY <1>2, <1>3, <1>4, RequestStep DEF IInv, db
<1>7. TypeOK'
  BY <1>2, <1>6 DEF IInv, TypeOK, db
<1>8. PinTally'
  BY <1>2, <1>5, WritersStep, TallyStep DEF IInv, db
<1> QED BY <1>6, <1>7, <1>8 DEF IInv

(* So does the end of a handler whose write keeps the messages stored and  *)
(* adds no pin, where the requests are concerned.                          *)
LEMMA FinishStep ==
    ASSUME IInv, NEW r \in Requests, Finish(r), pinned' \subseteq pinned,
           \A m \in Messages : msg[m].status # "absent" => msg'[m].status # "absent"
    PROVE  /\ req' \in [Requests -> Request \cup {Idle}]
           /\ RequestsOK' /\ PinTally'
<1>1. req' = [req EXCEPT ![r] = Idle] /\ Idle.op = "none"
  BY DEF Finish, Idle
<1>2. req' \in [Requests -> Request \cup {Idle}] /\ RequestsOK'
  BY <1>1, RequestStep DEF IInv
<1>3. PinTally'
  BY <1>1, WritersStep, TallyStep DEF IInv
<1> QED BY <1>2, <1>3

(* And a write after which the handler goes on.                            *)
LEMMA GotoStep ==
    ASSUME IInv, NEW r \in Requests, req[r].pc # "idle", req[r].op # "pin",
           NEW pc \in Steps, Goto(r, pc), UNCHANGED pinned,
           StoredOK([req[r] EXCEPT !.pc = pc], msg'),
           \A m \in Messages : msg[m].status # "absent" => msg'[m].status # "absent"
    PROVE  /\ req' \in [Requests -> Request \cup {Idle}]
           /\ RequestsOK' /\ PinTally'
<1> DEFINE q == [req[r] EXCEPT !.pc = pc]
<1>1. req[r] \in Request /\ CarriesOK(req[r])
  BY Busy DEF IInv, RequestsOK
<1>2. req' = [req EXCEPT ![r] = q]
  BY DEF Goto
<1>3. q \in Request /\ CarriesOK(q) /\ q.op # "pin"
  BY <1>1 DEF Request, CarriesOK
<1>4. StoredOK(q, msg')
  OBVIOUS
<1> HIDE DEF q
<1>5. req' \in [Requests -> Request \cup {Idle}] /\ RequestsOK'
  BY <1>2, <1>3, <1>4, RequestStep DEF IInv
<1>6. PinTally'
  BY <1>2, <1>3, WritersStep, TallyStep DEF IInv
<1> QED BY <1>5, <1>6

----------------------------------------------------------------------------
(* The invariant *)

LEMMA InitIInv == Init => IInv
<1> SUFFICES ASSUME Init PROVE IInv
  OBVIOUS
<1>1. TypeOK
  BY ChatRoomAssumption
     DEF Init, TypeOK, Row, NewRow, Roles, Never, Message, Request, Idle
<1>2. RequestsOK
  BY DEF Init, RequestsOK, CarriesOK, StoredOK, HasMessage, Idle
<1>3. PinTally
  <2>1. pinned = {} /\ PinWriters = {}
    BY DEF Init, PinWriters, At, Idle
  <2>2. IsFiniteSet({}) /\ Cardinality({}) = 0
    BY FS_EmptySet
  <2>3. N \in Nat /\ N # 0
    BY ChatRoomAssumption, FS_CardinalityType, FS_EmptySet DEF N
  <2>4. MaxPins \in Nat /\ MaxPins # 0
    BY ChatRoomAssumption
  <2> QED BY <2>1, <2>2, <2>3, <2>4 DEF PinTally
<1> QED BY <1>1, <1>2, <1>3 DEF IInv

(* The request of an arrival. *)
LEMMA ArriveRequest ==
    ASSUME NEW r \in Requests, Arrive(r)
    PROVE  \E q \in Request :
             /\ req' = [req EXCEPT ![r] = q]
             /\ CarriesOK(q) /\ q.pc \in {"perm", "own", "auth"} /\ q.op \in Ops
<1>1. CASE ArriveSend(r)
  <2>1. PICK u \in Users, b \in Bodies, f \in Files, t \in {None} \cup ReplyTo :
          req' = [req EXCEPT ![r] =
                    [op |-> "send", pc |-> "perm", by |-> u, who |-> None,
                     m |-> None, arg |-> b, replyTo |-> t, file |-> f]]
    BY <1>1 DEF ArriveSend
  <2> DEFINE q == [op |-> "send", pc |-> "perm", by |-> u, who |-> None,
                   m |-> None, arg |-> b, replyTo |-> t, file |-> f]
  <2>2. q \in Request
    BY ChatRoomAssumption DEF Request, AllOps, Steps, Args
  <2>3. CarriesOK(q)
    BY DEF CarriesOK
  <2> QED BY <1>1, <2>1, <2>2, <2>3 DEF ArriveSend
<1>2. CASE ArriveOwn(r)
  <2>1. PICK op \in OwnOps \cap Ops, u \in Users, m \in Messages, b \in Bodies :
          req' = [req EXCEPT ![r] =
                    [op |-> op, pc |-> "own", by |-> u, who |-> None,
                     m |-> m, arg |-> b, replyTo |-> None, file |-> FALSE]]
    BY <1>2 DEF ArriveOwn
  <2> DEFINE q == [op |-> op, pc |-> "own", by |-> u, who |-> None,
                   m |-> m, arg |-> b, replyTo |-> None, file |-> FALSE]
  <2>2. q \in Request
    BY DEF Request, AllOps, OwnOps, Steps, Args
  <2>3. CarriesOK(q)
    BY DEF CarriesOK, OwnOps
  <2> QED BY <2>1, <2>2, <2>3
<1>3. CASE ArriveAdmin(r)
  <2>1. PICK u \in Users, in \in AdminInputs :
          in[1] \in Ops /\ req' = [req EXCEPT ![r] =
                    [op |-> in[1], pc |-> "auth", by |-> u, who |-> in[2],
                     m |-> in[3], arg |-> in[4], replyTo |-> None, file |-> FALSE]]
    BY <1>3 DEF ArriveAdmin
  <2> DEFINE q == [op |-> in[1], pc |-> "auth", by |-> u, who |-> in[2],
                   m |-> in[3], arg |-> in[4], replyTo |-> None, file |-> FALSE]
  <2>2. /\ in[1] \in AdminOps /\ in[2] \in Users \cup {None}
        /\ in[3] \in Messages \cup {None}
        /\ in[4] \in {None, "on", "off", "flip", "ADMIN", "MEMBER"}
        /\ in[1] = "invite" => in[4] \in {"ADMIN", "MEMBER"}
        /\ in[1] \in {"pin", "adminDelete"} => in[3] \in Messages
    BY DEF AdminInputs, RoomInputs, MemberInputs, MessageInputs, AdminOps
  <2>3. q \in Request
    BY <2>2 DEF Request, AllOps, Steps, Args
  <2>4. CarriesOK(q)
    BY <2>2 DEF CarriesOK, AdminOps
  <2> QED BY <2>1, <2>3, <2>4
<1> QED BY <1>1, <1>2, <1>3 DEF Arrive

LEMMA ArriveIInv ==
    ASSUME IInv, NEW r \in Requests, Arrive(r)
    PROVE  IInv'
<1>1. PICK q \in Request :
        /\ req' = [req EXCEPT ![r] = q]
        /\ CarriesOK(q) /\ q.pc \in {"perm", "own", "auth"}
  BY ArriveRequest
<1>2. UNCHANGED <<db, view, clock>>
  BY DEF Arrive
<1>3. StoredOK(q, msg')
  BY <1>1 DEF StoredOK, HasMessage, Request
<1>4. req' \in [Requests -> Request \cup {Idle}] /\ RequestsOK'
  BY <1>1, <1>2, <1>3, RequestStep DEF IInv, db
<1>5. PinTally'
  BY <1>1, <1>2, WritersStep, TallyStep DEF IInv, db
<1> QED BY <1>2, <1>4, <1>5 DEF IInv, TypeOK, db

LEMMA PinCountIInv ==
    ASSUME IInv, NEW r \in Requests, PinCount(r)
    PROVE  IInv'
<1>1. /\ At(r, "pin", "count")
      /\ Proceed(r, Cardinality(pinned) < MaxPins, "write")
  BY DEF PinCount
<1>2. CASE ~(Cardinality(pinned) < MaxPins)
  BY <1>1, <1>2, ProceedStep DEF At, Steps
<1>3. CASE Cardinality(pinned) < MaxPins
  <2> DEFINE q == [req[r] EXCEPT !.pc = "write"]
  <2>1. req' = [req EXCEPT ![r] = q] /\ UNCHANGED <<db, view, clock>>
    BY <1>1, <1>3 DEF Proceed
  <2>2. req[r] \in Request /\ CarriesOK(req[r]) /\ StoredOK(req[r], msg)
    BY <1>1, Busy DEF At, IInv, RequestsOK
  <2>3. q \in Request /\ CarriesOK(q) /\ StoredOK(q, msg')
    BY <1>1, <2>1, <2>2 DEF At, Request, Steps, CarriesOK, StoredOK, HasMessage, db
  <2> HIDE DEF q
  <2>4. req' \in [Requests -> Request \cup {Idle}] /\ RequestsOK'
    BY <2>1, <2>3, RequestStep DEF IInv, db
  <2>5. Cardinality(PinWriters') <= N /\ Cardinality(PinWriters') \in Nat
    BY ChatRoomAssumption, FS_Subset, FS_CardinalityType DEF PinWriters, N
  <2>6. Cardinality(pinned) \in Nat /\ N \in Nat /\ MaxPins \in Nat
    BY ChatRoomAssumption, FS_CardinalityType DEF IInv, PinTally, N
  <2>7. Cardinality(pinned) <= MaxPins - 1
    BY <1>3, <2>6
  <2>8. PinTally'
    BY <2>1, <2>5, <2>6, <2>7 DEF IInv, PinTally, N, db
  <2> QED BY <2>1, <2>4, <2>8 DEF IInv, TypeOK, db
<1> QED BY <1>2, <1>3

LEMMA PinWriteIInv ==
    ASSUME IInv, NEW r \in Requests, PinWrite(r)
    PROVE  IInv'
<1>1. /\ At(r, "pin", "write") /\ Finish(r)
      /\ pinned' = pinned \cup {req[r].m}
      /\ UNCHANGED <<enabled, slow, member, msg, view, clock>>
  BY DEF PinWrite
<1>2. req[r].m \in Messages
  BY <1>1 DEF IInv, RequestsOK, CarriesOK, At
<1>3. req' = [req EXCEPT ![r] = Idle]
  BY <1>1 DEF Finish
<1>4. req' \in [Requests -> Request \cup {Idle}] /\ RequestsOK'
  BY <1>1, <1>3, RequestStep DEF IInv
<1>5. PinTally'
  <2>1. r \in PinWriters /\ PinWriters' = PinWriters \ {r}
    BY <1>1, <1>3 DEF IInv, TypeOK, PinWriters, At, Idle
  <2>2. IsFiniteSet(PinWriters)
    BY ChatRoomAssumption, FS_Subset DEF PinWriters
  <2>3. Cardinality(PinWriters') = Cardinality(PinWriters) - 1
    BY <2>1, <2>2, FS_RemoveElement
  <2>4. IsFiniteSet(pinned') /\ Cardinality(pinned') <= Cardinality(pinned) + 1
    <3>1. IsFiniteSet(pinned) /\ Cardinality(pinned) \in Nat
      BY FS_CardinalityType DEF IInv, PinTally
    <3>2. /\ IsFiniteSet(pinned \cup {req[r].m})
          /\ Cardinality(pinned \cup {req[r].m})
               = IF req[r].m \in pinned THEN Cardinality(pinned)
                                        ELSE Cardinality(pinned) + 1
      BY <3>1, FS_AddElement
    <3> QED BY <1>1, <3>1, <3>2
  <2>5. /\ Cardinality(pinned) \in Nat /\ Cardinality(pinned') \in Nat
        /\ Cardinality(PinWriters) \in Nat /\ N \in Nat /\ MaxPins \in Nat
    BY <2>2, <2>4, ChatRoomAssumption, FS_CardinalityType DEF IInv, PinTally, N
  <2> HIDE DEF PinWriters
  <2> QED BY <2>3, <2>4, <2>5 DEF IInv, PinTally, N
<1> QED BY <1>1, <1>2, <1>4, <1>5 DEF IInv, TypeOK

LEMMA UnpinWriteIInv ==
    ASSUME IInv, NEW r \in Requests, UnpinWrite(r)
    PROVE  IInv'
<1>1. /\ pinned' = pinned \ {req[r].m}
      /\ UNCHANGED <<enabled, slow, member, msg, view, clock>>
  BY DEF UnpinWrite
<1>2. \A p \in Requests :
        \/ req'[p] = Idle
        \/ req'[p] = [req[p] EXCEPT !.m = None] /\ At(p, "unpin", "write")
        \/ req'[p] = req[p]
  BY DEF UnpinWrite
<1>3. ASSUME NEW p \in Requests
      PROVE  /\ req'[p] \in Request \cup {Idle}
             /\ CarriesOK(req'[p]) /\ StoredOK(req'[p], msg')
             /\ p \in PinWriters' => p \in PinWriters
  <2>1. CarriesOK(req[p]) /\ StoredOK(req[p], msg) /\ req[p] \in Request \cup {Idle}
    BY DEF IInv, TypeOK, RequestsOK
  <2>2. CASE req'[p] = Idle
    BY <2>2 DEF CarriesOK, StoredOK, HasMessage, Idle, PinWriters, At
  <2>3. CASE req'[p] = [req[p] EXCEPT !.m = None] /\ At(p, "unpin", "write")
    <3>1. req[p] \in Request
      BY <2>3, Busy DEF IInv, At
    <3> QED BY <2>3, <3>1 DEF CarriesOK, StoredOK, HasMessage, Request, PinWriters, At
  <2>4. CASE req'[p] = req[p]
    BY <1>1, <2>1, <2>4 DEF PinWriters, At
  <2> QED BY <1>2, <2>2, <2>3, <2>4
<1>4. req' \in [Requests -> Request \cup {Idle}]
  BY <1>3 DEF UnpinWrite
<1>5. RequestsOK'
  BY <1>3 DEF RequestsOK
<1>6. PinTally'
  <2>1. PinWriters' \subseteq PinWriters
    BY <1>3 DEF PinWriters
  <2> QED BY <1>1, <2>1, TallyStep DEF IInv
<1> QED BY <1>1, <1>4, <1>5, <1>6 DEF IInv, TypeOK

LEMMA ReadsIInv ==
    ASSUME IInv, NEW r \in Requests, Reads(r)
    PROVE  IInv'
<1> DEFINE q(pc) == [req[r] EXCEPT !.pc = pc]
<1>0. ASSUME req[r].pc # "idle"
      PROVE  /\ req[r] \in Request /\ CarriesOK(req[r])
             /\ \A pc : /\ q(pc).pc = pc /\ q(pc).op = req[r].op
                        /\ q(pc).m = req[r].m
  BY <1>0, Busy DEF IInv, RequestsOK, Request
<1>1. CASE SendCheck(r)
  <2>1. ~HasMessage(q("create")) /\ ~HasMessage(q("reply"))
    BY <1>0, <1>1 DEF SendCheck, HasMessage, At
  <2> QED BY <1>1, <2>1, ProceedStep DEF SendCheck, StoredOK, At, Steps
<1>2. CASE SendReply(r)
  <2>1. ~HasMessage(q("create"))
    BY <1>0, <1>2 DEF SendReply, HasMessage, At
  <2> QED BY <1>2, <2>1, ProceedStep DEF SendReply, StoredOK, At, Steps
<1>3. CASE SendAttach(r)
  <2>1. /\ req' \in [Requests -> Request \cup {Idle}] /\ RequestsOK' /\ PinTally'
    BY <1>3, FinishStep DEF SendAttach, db
  <2> QED BY <1>3, <2>1 DEF SendAttach, IInv, TypeOK, db
<1>4. CASE OwnFind(r)
  <2>1. /\ req[r].pc # "idle" /\ req[r].op \in {"edit", "delete"}
        /\ Proceed(r, msg[req[r].m].status = "live" /\ msg[req[r].m].sender = req[r].by,
                   "write")
    BY <1>4 DEF OwnFind, OwnOps
  <2>2. msg[req[r].m].status = "live" => StoredOK(q("write"), msg)
    BY <1>0, <2>1 DEF StoredOK, CarriesOK
  <2> QED BY <2>1, <2>2, ProceedStep DEF Steps
<1>5. CASE Authorize(r)
  <2>1. req[r].pc = "auth" /\ req[r].pc # "idle"
    BY <1>5 DEF Authorize
  <2>2. /\ req[r].op = "slow" => ~HasMessage(q("write"))
        /\ ~HasMessage(q("find"))
    BY <1>0, <2>1 DEF HasMessage
  <2> QED BY <1>5, <2>1, <2>2, ProceedStep DEF Authorize, StoredOK, Steps
<1>6. CASE ToggleFind(r)
  <2> DEFINE on == req[r].arg = "on" \/ (req[r].arg = "flip" /\ ~enabled)
             p == [req[r] EXCEPT !.pc = "write", !.arg = IF on THEN "on" ELSE "off"]
  <2>1. /\ At(r, "toggle", "find") /\ UNCHANGED <<db, view, clock>>
        /\ req' = [req EXCEPT ![r] = p]
    BY <1>6 DEF ToggleFind
  <2>2. req[r] \in Request
    BY <1>0, <2>1 DEF At
  <2>3. p \in Request /\ p.op = "toggle" /\ p.pc = "write"
    BY <2>1, <2>2 DEF Request, Args, Steps, At
  <2> HIDE DEF p
  <2>4. CarriesOK(p) /\ StoredOK(p, msg')
    BY <2>3 DEF CarriesOK, StoredOK, HasMessage
  <2>5. req' \in [Requests -> Request \cup {Idle}] /\ RequestsOK'
    BY <2>1, <2>3, <2>4, RequestStep DEF IInv, db
  <2>6. PinTally'
    BY <2>1, <2>3, WritersStep, TallyStep DEF IInv, db
  <2> QED BY <2>1, <2>5, <2>6 DEF IInv, TypeOK, db
<1>7. ASSUME NEW ok, NEW pc \in {"insert", "write"}, Proceed(r, ok, pc),
             req[r].pc # "idle",
             req[r].op \in {"invite", "remove", "mute", "unmute", "unpin"}
      PROVE  IInv'
  <2>1. ~HasMessage(q(pc))
    BY <1>0, <1>7 DEF HasMessage
  <2> QED BY <1>7, <2>1, ProceedStep DEF StoredOK, Steps
<1>8. CASE AdminDeleteFind(r)
  <2>1. /\ req[r].pc # "idle" /\ req[r].op = "adminDelete"
        /\ Proceed(r, msg[req[r].m].status = "live", "write")
    BY <1>8 DEF AdminDeleteFind, At
  <2>2. msg[req[r].m].status = "live" => StoredOK(q("write"), msg)
    BY <1>0, <2>1 DEF StoredOK, CarriesOK
  <2> QED BY <2>1, <2>2, ProceedStep DEF Steps
<1>9. CASE PinFind(r)
  <2>1. /\ req[r].pc # "idle" /\ req[r].op = "pin"
        /\ Proceed(r, msg[req[r].m].status = "live", "count")
    BY <1>9 DEF PinFind, At
  <2>2. msg[req[r].m].status = "live" => StoredOK(q("count"), msg)
    BY <1>0, <2>1 DEF StoredOK, CarriesOK
  <2> QED BY <2>1, <2>2, ProceedStep DEF Steps
<1>10. CASE PinCount(r)
  BY <1>10, PinCountIInv
<1>11. CASE InviteFind(r)
  BY <1>7, <1>11 DEF InviteFind, At
<1>12. CASE RemoveFind(r)
  BY <1>7, <1>12 DEF RemoveFind, At
<1>13. CASE MuteFind(r)
  BY <1>7, <1>13 DEF MuteFind, At
<1>14. CASE UnmuteFind(r)
  BY <1>7, <1>14 DEF UnmuteFind, At
<1>15. CASE UnpinFind(r)
  BY <1>7, <1>15 DEF UnpinFind, At
<1> QED BY <1>1, <1>2, <1>3, <1>4, <1>5, <1>6, <1>8, <1>9, <1>10, <1>11, <1>12,
           <1>13, <1>14, <1>15 DEF Reads

LEMMA SendCreateIInv ==
    ASSUME IInv, NEW r \in Requests, SendCreate(r)
    PROVE  IInv'
<1>1. At(r, "send", "create") /\ UNCHANGED <<enabled, slow, member, pinned, view, clock>>
  BY DEF SendCreate
<1>2. PICK m \in Fresh :
        /\ msg' = [msg EXCEPT ![m] = NewMessage(req[r].by, req[r].arg, req[r].file)]
        /\ req' = [req EXCEPT ![r].m = m,
                              ![r].pc = IF req[r].file THEN "attach" ELSE "stamp"]
  BY DEF SendCreate
<1> DEFINE q == [req[r] EXCEPT !.m = m,
                               !.pc = IF req[r].file THEN "attach" ELSE "stamp"]
<1>3. req[r] \in Request /\ CarriesOK(req[r])
  BY <1>1, Busy DEF IInv, RequestsOK, At
<1>4. req' = [req EXCEPT ![r] = q]
  BY <1>2 DEF IInv, TypeOK
<1>5. NewMessage(req[r].by, req[r].arg, req[r].file) \in Message
  BY <1>1, <1>3 DEF NewMessage, Message, Request, CarriesOK, At, IInv, TypeOK
<1>6. msg' \in [Messages -> Message] /\ msg'[m].status = "live" /\ m \in Messages
  BY <1>2, <1>5 DEF IInv, TypeOK, Fresh, NewMessage
<1>7. \A n \in Messages : msg[n].status # "absent" => msg'[n].status # "absent"
  BY <1>2, <1>6 DEF IInv, TypeOK
<1>8. /\ q \in Request /\ q.op = "send" /\ q.arg = req[r].arg /\ q.m = m
      /\ q.pc \in {"attach", "stamp"}
  BY <1>1, <1>3, <1>6 DEF Request, Steps, At
<1> HIDE DEF q
<1>9. CarriesOK(q) /\ StoredOK(q, msg')
  BY <1>1, <1>3, <1>6, <1>8 DEF CarriesOK, StoredOK, At
<1>10. req' \in [Requests -> Request \cup {Idle}] /\ RequestsOK'
  BY <1>4, <1>7, <1>8, <1>9, RequestStep DEF IInv
<1>11. PinTally'
  BY <1>1, <1>4, <1>8, WritersStep, TallyStep DEF IInv
<1> QED BY <1>1, <1>6, <1>10, <1>11 DEF IInv, TypeOK

(* A moderation of a member row. *)
LEMMA SetRowIInv ==
    ASSUME IInv, NEW r \in Requests, NEW u, NEW row, SetRow(r, u, row),
           u \in Users => row \in Row
    PROVE  IInv'
<1>1. /\ member' = [member EXCEPT ![u] = row] /\ Finish(r)
      /\ UNCHANGED <<enabled, slow, msg, pinned, view, clock>>
  BY DEF SetRow
<1>2. /\ req' \in [Requests -> Request \cup {Idle}] /\ RequestsOK' /\ PinTally'
  BY <1>1, FinishStep
<1>3. member' \in [Users -> Row]
  BY <1>1 DEF IInv, TypeOK
<1> QED BY <1>1, <1>2, <1>3 DEF IInv, TypeOK

LEMMA WritesIInv ==
    ASSUME IInv, NEW r \in Requests, Writes(r)
    PROVE  IInv'
<1> USE DEF At
<1>0. /\ \A u \in Users : member[u] \in Row
      /\ clock \in Int /\ Never \in Int
  BY DEF IInv, TypeOK, Never
<1>1. CASE SendCreate(r)
  BY <1>1, SendCreateIInv
<1>2. CASE SendStamp(r)
  <2>1. /\ req[r].op = "send" /\ req[r].pc = "stamp" /\ Goto(r, "emit")
        /\ member' = [member EXCEPT ![req[r].by].lastMessageAt = clock]
        /\ UNCHANGED <<enabled, slow, msg, pinned, view, clock>>
    BY <1>2 DEF SendStamp
  <2>2. StoredOK([req[r] EXCEPT !.pc = "emit"], msg')
    <3>1. req[r] \in Request /\ StoredOK(req[r], msg)
      BY <2>1, Busy DEF IInv, RequestsOK
    <3> QED BY <2>1, <3>1 DEF StoredOK, HasMessage, Request
  <2>3. /\ req' \in [Requests -> Request \cup {Idle}] /\ RequestsOK' /\ PinTally'
    BY <2>1, <2>2, GotoStep DEF Steps
  <2>4. member' \in [Users -> Row]
    BY <1>0, <2>1 DEF IInv, TypeOK, Row
  <2> QED BY <2>1, <2>3, <2>4 DEF IInv, TypeOK
<1>3. CASE EditWrite(r)
  <2>1. /\ req[r].op = "edit" /\ req[r].pc = "write" /\ Goto(r, "emit")
        /\ msg' = [msg EXCEPT ![req[r].m].body = req[r].arg]
        /\ UNCHANGED <<enabled, slow, member, pinned, view, clock>>
    BY <1>3 DEF EditWrite
  <2>2. req[r] \in Request /\ CarriesOK(req[r]) /\ StoredOK(req[r], msg)
    BY <2>1, Busy DEF IInv, RequestsOK
  <2>3. /\ msg' \in [Messages -> Message]
        /\ \A m \in Messages : msg'[m].status = msg[m].status
    BY <2>1, <2>2 DEF IInv, TypeOK, CarriesOK, Message
  <2>4. StoredOK([req[r] EXCEPT !.pc = "emit"], msg')
    BY <2>1, <2>2, <2>3 DEF StoredOK, HasMessage, Request
  <2>5. /\ req' \in [Requests -> Request \cup {Idle}] /\ RequestsOK' /\ PinTally'
    BY <2>1, <2>3, <2>4, GotoStep DEF Steps
  <2> QED BY <2>1, <2>3, <2>5 DEF IInv, TypeOK
<1>4. CASE DeleteWrite(r)
  <2>1. /\ req[r].op \in {"delete", "adminDelete"} /\ req[r].pc = "write"
        /\ Goto(r, "emit")
        /\ msg' = [msg EXCEPT ![req[r].m].status = "deleted",
                              ![req[r].m].body = None]
        /\ UNCHANGED <<enabled, slow, member, pinned, view, clock>>
    BY <1>4 DEF DeleteWrite
  <2>2. req[r] \in Request /\ StoredOK(req[r], msg)
    BY <2>1, Busy DEF IInv, RequestsOK
  <2>3. /\ msg' \in [Messages -> Message]
        /\ \A m \in Messages : msg'[m].status \in {msg[m].status, "deleted"}
    <3>1. msg \in [Messages -> Message] /\ msg[req[r].m] \in Message
      BY <2>1, <2>2 DEF IInv, TypeOK, StoredOK, HasMessage
    <3>2. msg' = [msg EXCEPT ![req[r].m] = [@ EXCEPT !.status = "deleted", !.body = None]]
      BY <2>1, <3>1
    <3>3. [msg[req[r].m] EXCEPT !.status = "deleted", !.body = None] \in Message
      BY <3>1 DEF Message
    <3> QED BY <3>1, <3>2, <3>3 DEF Message
  <2>4. StoredOK([req[r] EXCEPT !.pc = "emit"], msg')
    BY <2>1, <2>2, <2>3 DEF StoredOK, HasMessage, Request
  <2>5. /\ req' \in [Requests -> Request \cup {Idle}] /\ RequestsOK' /\ PinTally'
    BY <2>1, <2>3, <2>4, GotoStep DEF Steps
  <2> QED BY <2>1, <2>3, <2>5 DEF IInv, TypeOK
<1>5. CASE ToggleWrite(r)
  <2>1. /\ req' \in [Requests -> Request \cup {Idle}] /\ RequestsOK' /\ PinTally'
    BY <1>5, FinishStep DEF ToggleWrite
  <2> QED BY <1>5, <2>1 DEF ToggleWrite, IInv, TypeOK
<1>6. CASE SlowWrite(r)
  <2>1. /\ req' \in [Requests -> Request \cup {Idle}] /\ RequestsOK' /\ PinTally'
    BY <1>6, FinishStep DEF SlowWrite
  <2> QED BY <1>6, <2>1 DEF SlowWrite, IInv, TypeOK
<1>7. CASE InviteInsert(r)
  <2>1. req[r].arg \in {"ADMIN", "MEMBER"}
    BY <1>7 DEF InviteInsert, IInv, RequestsOK, CarriesOK
  <2>2. NewRow(req[r].arg) \in Row
    BY <1>0, <2>1 DEF NewRow, Row, Roles
  <2> QED BY <1>0, <1>7, <2>2, SetRowIInv DEF InviteInsert
<1>8. CASE InviteUnblock(r)
  <2>1. req[r].arg \in {"ADMIN", "MEMBER"}
    BY <1>8 DEF InviteUnblock, IInv, RequestsOK, CarriesOK
  <2>2. ASSUME req[r].who \in Users
        PROVE  [member[req[r].who] EXCEPT !.blocked = FALSE, !.blockedAt = Never,
                                          !.role = req[r].arg] \in Row
    BY <1>0, <2>1, <2>2 DEF Row, Roles
  <2> QED BY <1>8, <2>2, SetRowIInv DEF InviteUnblock
<1>9. CASE RemoveWrite(r)
  <2>1. ASSUME req[r].who \in Users
        PROVE  [member[req[r].who] EXCEPT !.blocked = TRUE, !.blockedAt = clock]
                 \in Row
    BY <1>0, <2>1 DEF Row
  <2> QED BY <1>9, <2>1, SetRowIInv DEF RemoveWrite
<1>10. CASE MuteWrite(r)
  <2>1. ASSUME req[r].who \in Users
        PROVE  [member[req[r].who] EXCEPT !.muted = TRUE, !.mutedAt = clock] \in Row
    BY <1>0, <2>1 DEF Row
  <2> QED BY <1>10, <2>1, SetRowIInv DEF MuteWrite
<1>11. CASE UnmuteWrite(r)
  <2>1. ASSUME req[r].who \in Users
        PROVE  [member[req[r].who] EXCEPT !.muted = FALSE, !.mutedAt = Never] \in Row
    BY <1>0, <2>1 DEF Row
  <2> QED BY <1>11, <2>1, SetRowIInv DEF UnmuteWrite
<1>12. CASE PinWrite(r)
  BY <1>12, PinWriteIInv
<1>13. CASE UnpinWrite(r)
  BY <1>13, UnpinWriteIInv
<1> QED BY <1>1, <1>2, <1>3, <1>4, <1>5, <1>6, <1>7, <1>8, <1>9, <1>10, <1>11,
           <1>12, <1>13 DEF Writes

LEMMA NextIInv == IInv /\ [Next]_vars => IInv'
<1> SUFFICES ASSUME IInv, [Next]_vars PROVE IInv'
  OBVIOUS
<1>1. CASE Tick
  BY <1>1 DEF Tick, IInv, TypeOK, RequestsOK, PinTally, PinWriters, At, db
<1>2. ASSUME NEW r \in Requests, Fail(r)
      PROVE  IInv'
  <2>1. /\ req' \in [Requests -> Request \cup {Idle}] /\ RequestsOK' /\ PinTally'
    BY <1>2, FinishStep DEF Fail, db
  <2> QED BY <1>2, <2>1 DEF Fail, IInv, TypeOK, db
<1>3. ASSUME NEW r \in Requests, Broadcast(r)
      PROVE  IInv'
  <2>1. /\ req[r].pc = "emit" /\ Finish(r) /\ UNCHANGED <<db, clock>>
        /\ view' = [view EXCEPT ![req[r].m] =
                      IF req[r].op \in {"send", "edit"} THEN req[r].arg ELSE "deleted"]
    BY <1>3 DEF Broadcast
  <2>2. /\ req' \in [Requests -> Request \cup {Idle}] /\ RequestsOK' /\ PinTally'
    BY <2>1, FinishStep DEF db
  <2>3. req[r].op \in {"send", "edit"} => req[r].arg \in Bodies
    BY DEF IInv, RequestsOK, CarriesOK
  <2>4. view' \in [Messages -> Bodies \cup {"unseen", "deleted"}]
    BY <2>1, <2>3 DEF IInv, TypeOK
  <2> QED BY <2>1, <2>2, <2>4 DEF IInv, TypeOK, db
<1>4. CASE UNCHANGED vars
  BY <1>4 DEF vars, IInv, TypeOK, RequestsOK, PinTally, PinWriters, At
<1> QED BY <1>1, <1>2, <1>3, <1>4, ArriveIInv, ReadsIInv, WritesIInv DEF Next, Handle

LEMMA InductiveInvariant == Spec => []IInv
  BY InitIInv, NextIInv, PTL DEF Spec

(* Every reachable state has the shapes the Prisma schema declares and the *)
(* handlers assume.                                                        *)
THEOREM TypeCorrect == Spec => []TypeOK
<1>1. IInv => TypeOK
  BY DEF IInv
<1> QED BY <1>1, InductiveInvariant, PTL

(* However many admins pin at once, the check that pinMessage makes before *)
(* its insert is overrun by at most the other handlers in flight.          *)
THEOREM PinsAreBounded == Spec => []PinsBounded
<1>1. IInv => PinsBounded
  <2>1. ASSUME IInv PROVE PinsBounded
    <3>1. IsFiniteSet(PinWriters)
      BY ChatRoomAssumption, FS_Subset DEF PinWriters
    <3>2. /\ Cardinality(pinned) \in Nat /\ Cardinality(PinWriters) \in Nat
          /\ N \in Nat /\ MaxPins \in Nat
      BY <2>1, <3>1, ChatRoomAssumption, FS_CardinalityType DEF IInv, PinTally, N
    <3> HIDE DEF PinWriters
    <3> QED BY <2>1, <3>2 DEF IInv, PinTally, PinsBounded
  <2> QED BY <2>1
<1> QED BY <1>1, InductiveInvariant, PTL

----------------------------------------------------------------------------
(* ChatRoom implements RoomLedger *)

LEMMA LedgerInit == Init => Ledger!Init
<1> SUFFICES ASSUME Init PROVE Ledger!Init
  OBVIOUS
<1>1. PICK b \in Bodies :
        /\ msg = [m \in Messages |->
                    [status |-> IF m \in Posted THEN "live" ELSE "absent",
                     sender |-> IF m \in Posted THEN Author ELSE None,
                     sentAt |-> Never, file |-> FALSE,
                     body   |-> IF m \in Posted THEN b ELSE None]]
        /\ view = [m \in Messages |-> IF m \in Posted THEN b ELSE "unseen"]
  BY DEF Init
<1>2. b # "unseen"
  BY ChatRoomAssumption
<1>3. {m \in Messages : view[m] # "unseen"}
        = {m \in Messages : [n \in Messages |-> msg[n].status][m] = "live"}
  BY <1>1, <1>2
<1>4. [m \in Messages |-> msg[m].status] \in [Messages -> {"absent", "live"}]
  BY <1>1
<1>5. [m \in Messages |-> msg[m].sender] \in [Messages -> Users \cup {None}]
  BY <1>1, ChatRoomAssumption
<1>6. Asked = {}
  BY DEF Init, Asked, At, Idle
<1> QED BY <1>3, <1>4, <1>5, <1>6 DEF Init, Ledger!Init

(* Most steps leave what the ledger sees alone. *)
LEMMA LedgerStutter ==
    ASSUME TypeOK, UNCHANGED <<pinned, view, Asked>>,
           \A m \in Messages : /\ msg'[m].status = msg[m].status
                               /\ msg'[m].sender = msg[m].sender
    PROVE  UNCHANGED Ledger!vars
  BY DEF Ledger!vars

(* No step of another operation touches what the unpins have found. *)
LEMMA AskedKept ==
    ASSUME IInv, NEW r \in Requests,
           \/ Arrive(r)
           \/ Reads(r) /\ ~UnpinFind(r)
           \/ Writes(r) /\ ~UnpinWrite(r)
           \/ Broadcast(r)
           \/ Fail(r) /\ ~At(r, "unpin", "write")
    PROVE  Asked' = Asked
<1> DEFINE Elsewhere == /\ \A x \in Requests \ {r} : req'[x] = req[x]
                        /\ ~At(r, "unpin", "write") /\ ~At(r, "unpin", "write")'
<1>0. req \in [Requests -> Request \cup {Idle}]
  BY DEF IInv, TypeOK
<1> SUFFICES Elsewhere
  BY DEF Asked, At
<1>1. CASE Arrive(r)
  BY <1>0, <1>1 DEF Arrive, ArriveSend, ArriveOwn, ArriveAdmin, At, Idle
<1>2. CASE Broadcast(r) \/ (Fail(r) /\ ~At(r, "unpin", "write"))
  BY <1>0, <1>2 DEF Broadcast, Fail, Finish, At, Idle
<1>3. CASE Reads(r) /\ ~UnpinFind(r)
  <2>1. CASE Authorize(r)
    <3>1. req[r] \in Request /\ req[r].pc = "auth"
      BY <1>0, <2>1 DEF Authorize, Idle
    <3> QED BY <1>0, <2>1, <3>1 DEF Authorize, Proceed, At, Idle, Request
  <2>2. CASE ToggleFind(r)
    BY <1>0, <2>2 DEF ToggleFind, At, Idle
  <2>3. CASE \/ SendCheck(r) \/ SendReply(r) \/ SendAttach(r) \/ OwnFind(r)
             \/ InviteFind(r) \/ RemoveFind(r) \/ MuteFind(r) \/ UnmuteFind(r)
             \/ AdminDeleteFind(r) \/ PinFind(r) \/ PinCount(r)
    <3>1. /\ req[r].op # "unpin" /\ req[r] \in Request
          /\ \E pc : req' = [req EXCEPT ![r] = [@ EXCEPT !.pc = pc]]
             \/ req' = [req EXCEPT ![r] = Idle]
      BY <1>0, <2>3 DEF SendCheck, SendReply, SendAttach, OwnFind, InviteFind, RemoveFind,
                        MuteFind, UnmuteFind, AdminDeleteFind, PinFind, PinCount, Proceed,
                        Finish, At, Idle, OwnOps
    <3> QED BY <1>0, <3>1 DEF At, Idle, Request
  <2> QED BY <1>3, <2>1, <2>2, <2>3 DEF Reads
<1>4. CASE Writes(r) /\ ~UnpinWrite(r)
  <2>1. CASE SendCreate(r)
    BY <1>0, <2>1 DEF SendCreate, At, Idle, Request
  <2>2. CASE \/ SendStamp(r) \/ EditWrite(r) \/ DeleteWrite(r)
    BY <1>0, <2>2 DEF SendStamp, EditWrite, DeleteWrite, Goto, At, Idle, Request
  <2>3. CASE \/ ToggleWrite(r) \/ SlowWrite(r) \/ InviteInsert(r) \/ InviteUnblock(r)
             \/ RemoveWrite(r) \/ MuteWrite(r) \/ UnmuteWrite(r) \/ PinWrite(r)
    BY <1>0, <2>3 DEF ToggleWrite, SlowWrite, InviteInsert, InviteUnblock, RemoveWrite, MuteWrite,
                      UnmuteWrite, PinWrite, SetRow, Finish, At, Idle
  <2> QED BY <1>4, <2>1, <2>2, <2>3 DEF Writes
<1> QED BY <1>1, <1>2, <1>3, <1>4

(* A broadcast shows its message. *)
LEMMA LedgerShow ==
    ASSUME IInv, NEW r \in Requests, Broadcast(r)
    PROVE  \E m \in Messages : Ledger!Show(m)
<1>1. req[r].m \in Messages /\ msg[req[r].m].status # "absent"
  BY DEF Broadcast, IInv, RequestsOK, StoredOK, HasMessage
<1>2. /\ \A m \in Messages \ {req[r].m} : view'[m] = view[m]
      /\ view'[req[r].m] # "unseen"
      /\ UNCHANGED <<msg, pinned>>
  <2>1. req[r].op \in {"send", "edit"} => req[r].arg \in Bodies
    BY DEF IInv, RequestsOK, CarriesOK
  <2>2. "unseen" \notin Bodies
    BY ChatRoomAssumption
  <2> QED BY <1>1, <2>1, <2>2 DEF Broadcast, IInv, TypeOK, db
<1>3. {m \in Messages : view'[m] # "unseen"}
        = {m \in Messages : view[m] # "unseen"} \cup {req[r].m}
  BY <1>1, <1>2
<1>4. Asked' = Asked
  BY AskedKept
<1> QED BY <1>1, <1>2, <1>3, <1>4 DEF Ledger!Show

(* chatMessage.create posts a message of the sender. *)
LEMMA LedgerPost ==
    ASSUME IInv, NEW r \in Requests, SendCreate(r)
    PROVE  \E m \in Messages, u \in Users : Ledger!Post(m, u)
<1>1. PICK m \in Fresh :
        msg' = [msg EXCEPT ![m] = NewMessage(req[r].by, req[r].arg, req[r].file)]
  BY DEF SendCreate
<1>2. req[r].by \in Users
  <2>1. req[r] \in Request
    BY Busy DEF SendCreate, At, IInv
  <2> QED BY <2>1 DEF Request
<1>3. m \in Messages /\ msg[m].status = "absent" /\ UNCHANGED <<pinned, view>>
  BY DEF Fresh, SendCreate
<1>4. /\ msg'[m].status = "live" /\ msg'[m].sender = req[r].by
      /\ \A n \in Messages \ {m} : msg'[n] = msg[n]
  BY <1>1, <1>3 DEF IInv, TypeOK, NewMessage
<1>5. /\ [n \in Messages |-> msg'[n].status]
           = [[n \in Messages |-> msg[n].status] EXCEPT ![m] = "live"]
      /\ [n \in Messages |-> msg'[n].sender]
           = [[n \in Messages |-> msg[n].sender] EXCEPT ![m] = req[r].by]
  BY <1>3, <1>4
<1>6. Asked' = Asked
  BY AskedKept DEF Writes, SendCreate, UnpinWrite, At
<1> QED BY <1>2, <1>3, <1>5, <1>6 DEF Ledger!Post

(* Both deletions retract a live message, or repeat a retraction. *)
LEMMA LedgerRetract ==
    ASSUME IInv, NEW r \in Requests, DeleteWrite(r)
    PROVE  UNCHANGED Ledger!vars \/ \E m \in Messages : Ledger!Retract(m)
<1> DEFINE m == req[r].m
<1>1. m \in Messages /\ msg[m].status # "absent"
  BY DEF DeleteWrite, IInv, RequestsOK, StoredOK, HasMessage
<1>2. /\ msg'[m].status = "deleted" /\ msg'[m].sender = msg[m].sender
      /\ \A n \in Messages \ {m} : msg'[n] = msg[n]
      /\ msg[m].status \in {"live", "deleted"}
      /\ UNCHANGED <<pinned, view>>
  <2>1. msg[m] \in Message /\ msg[m].status \in {"live", "deleted"}
    BY <1>1 DEF IInv, TypeOK, Message
  <2>2. UNCHANGED <<pinned, view>>
    BY DEF DeleteWrite
  <2>3. msg' = [msg EXCEPT ![m].status = "deleted", ![m].body = None]
    BY DEF DeleteWrite
  <2> QED BY <1>1, <2>1, <2>2, <2>3 DEF IInv, TypeOK, Message
<1>0. Asked' = Asked
  BY AskedKept DEF Writes, DeleteWrite, UnpinWrite, At
<1> HIDE DEF m
<1>3. CASE msg[m].status = "deleted"
  BY <1>0, <1>1, <1>2, <1>3, LedgerStutter DEF IInv
<1>4. CASE msg[m].status = "live"
  <2>1. /\ [n \in Messages |-> msg'[n].status]
             = [[n \in Messages |-> msg[n].status] EXCEPT ![m] = "deleted"]
        /\ [n \in Messages |-> msg'[n].sender] = [n \in Messages |-> msg[n].sender]
    BY <1>1, <1>2
  <2> QED BY <1>0, <1>1, <1>2, <1>4, <2>1 DEF Ledger!Retract
<1> QED BY <1>2, <1>3, <1>4

(* RoomLedger counts as ChatRoom does. *)
LEMMA LedgerCardinality == \A S : Ledger!Cardinality(S) = Cardinality(S)
  BY DEF Cardinality, Ledger!Cardinality

(* The counted pins leave room for the one that is inserted. *)
LEMMA LedgerPin ==
    ASSUME IInv, NEW r \in Requests, PinWrite(r)
    PROVE  \E m \in Messages : Ledger!Pin(m)
<1>1. req[r].m \in Messages /\ msg[req[r].m].status # "absent"
  BY DEF PinWrite, At, IInv, RequestsOK, StoredOK, HasMessage
<1>2. Cardinality(pinned) < MaxPins + N - 1
  <2>1. IsFiniteSet(PinWriters) /\ r \in PinWriters
    BY ChatRoomAssumption, FS_Subset DEF PinWriters, PinWrite
  <2>2. Cardinality(PinWriters) \in Nat /\ Cardinality(PinWriters) # 0
    BY <2>1, FS_EmptySet, FS_CardinalityType
  <2>3. Cardinality(pinned) \in Nat /\ N \in Nat /\ MaxPins \in Nat
    BY ChatRoomAssumption, FS_CardinalityType DEF IInv, PinTally, N
  <2> HIDE DEF PinWriters
  <2> QED BY <2>2, <2>3 DEF IInv, PinTally
<1>3. pinned' = pinned \cup {req[r].m} /\ UNCHANGED <<msg, view>>
  BY DEF PinWrite
<1>4. Asked' = Asked
  BY AskedKept DEF Writes, PinWrite, UnpinWrite, At
<1> QED BY <1>1, <1>2, <1>3, <1>4, LedgerCardinality DEF Ledger!Pin

(* An unpin asks for the pin it finds there. *)
LEMMA LedgerAsk ==
    ASSUME IInv, NEW r \in Requests, UnpinFind(r)
    PROVE  UNCHANGED Ledger!vars \/ \E m \in Messages : Ledger!Ask(m)
<1> DEFINE m == req[r].m
<1>1. /\ At(r, "unpin", "find") /\ UNCHANGED <<msg, pinned, view>> /\ pinned \subseteq Messages
      /\ req \in [Requests -> Request \cup {Idle}]
  BY DEF UnpinFind, Proceed, IInv, TypeOK, db
<1>2. CASE m \in pinned
  <2>1. req' = [req EXCEPT ![r] = [@ EXCEPT !.pc = "write"]]
    BY <1>2 DEF UnpinFind, Proceed
  <2>2. /\ \A x \in Requests \ {r} : req'[x] = req[x]
        /\ req'[r].op = "unpin" /\ req'[r].pc = "write" /\ req'[r].m = m
    BY <1>1, <2>1 DEF At, Request, Idle
  <2>3. m \in Messages
    BY <1>1, <1>2
  <2>4. Asked' = Asked \cup {m}
    BY <1>1, <2>2, <2>3 DEF Asked, At
  <2> QED BY <1>1, <1>2, <2>3, <2>4 DEF Ledger!Ask
<1>3. CASE m \notin pinned
  <2>1. req' = [req EXCEPT ![r] = Idle]
    BY <1>3 DEF UnpinFind, Proceed
  <2>2. Asked' = Asked
    BY <1>1, <2>1 DEF Asked, At, Idle
  <2> QED BY <1>1, <2>2, LedgerStutter DEF IInv
<1> QED BY <1>2, <1>3

(* One that fails asks no more, though another may. *)
LEMMA LedgerFail ==
    ASSUME IInv, NEW r \in Requests, Fail(r)
    PROVE  UNCHANGED Ledger!vars \/ \E m \in Messages : Ledger!Withdraw(m)
<1> DEFINE m == req[r].m
<1>1. /\ UNCHANGED <<msg, pinned, view>> /\ req \in [Requests -> Request \cup {Idle}]
      /\ req' = [req EXCEPT ![r] = Idle]
  BY DEF Fail, Finish, IInv, TypeOK, db
<1>2. CASE Asked' = Asked
  BY <1>1, <1>2, LedgerStutter DEF IInv
<1>3. CASE Asked' # Asked
  <2>1. At(r, "unpin", "write")
    BY <1>3, AskedKept
  <2>2. \A x \in Messages : x # m => (x \in Asked' <=> x \in Asked)
    BY <1>1, <2>1 DEF Asked, At, Idle
  <2>3. Asked' \subseteq Asked /\ Asked \subseteq Messages
    BY <1>1 DEF Asked, At, Idle
  <2>4. m \in Messages /\ Asked' = Asked \ {m}
    BY <1>3, <2>2, <2>3
  <2> QED BY <1>1, <2>4 DEF Ledger!Withdraw
<1> QED BY <1>2, <1>3

(* The unpin takes the pin it asked for, and for which nobody asks after.  *)
LEMMA LedgerUnpin ==
    ASSUME IInv, NEW r \in Requests, UnpinWrite(r)
    PROVE  UNCHANGED Ledger!vars \/ \E m \in Messages : Ledger!Unpin(m)
<1> DEFINE m == req[r].m
<1>1. /\ At(r, "unpin", "write") /\ pinned' = pinned \ {m} /\ UNCHANGED <<msg, view>>
      /\ req \in [Requests -> Request \cup {Idle}]
      /\ \A q \in Requests : req'[q] = IF q = r THEN Idle
                                      ELSE IF At(q, "unpin", "write") /\ req[q].m = m
                                      THEN [req[q] EXCEPT !.m = None] ELSE req[q]
  BY DEF UnpinWrite, IInv, TypeOK
<1>2. ASSUME NEW q \in Requests, NEW x \in Messages
      PROVE  (At(q, "unpin", "write")' /\ req'[q].m = x)
               <=> (At(q, "unpin", "write") /\ req[q].m = x /\ x # m)
  <2>1. CASE q = r
    <3>1. req'[r] = Idle
      BY <1>1
    <3>2. req'[q].op = "none" /\ req[q].m = m
      BY <2>1, <3>1 DEF Idle
    <3> QED BY <3>2 DEF At
  <2>2. CASE q # r /\ At(q, "unpin", "write") /\ req[q].m = m
    <3>1. req[q] \in Request /\ None \notin Messages
      BY <1>1, <2>2, ChatRoomAssumption DEF At, Idle
    <3>2. req'[q].m = None
      BY <1>1, <2>2, <3>1 DEF Request
    <3> QED BY <2>2, <3>1, <3>2
  <2>3. CASE q # r /\ ~(At(q, "unpin", "write") /\ req[q].m = m)
    <3>1. req'[q] = req[q]
      BY <1>1, <2>3
    <3> QED BY <2>3, <3>1 DEF At
  <2> QED BY <2>1, <2>2, <2>3
<1>3. Asked' = Asked \ {m}
  BY <1>2 DEF Asked
<1>4. CASE m \in Messages
  <2>1. m \in Asked
    BY <1>1, <1>4 DEF Asked
  <2> QED BY <1>1, <1>3, <1>4, <2>1 DEF Ledger!Unpin
<1>5. CASE m \notin Messages
  <2>1. m \notin Asked /\ m \notin pinned
    BY <1>5 DEF Asked, IInv, TypeOK
  <2> QED BY <1>1, <1>3, <2>1, LedgerStutter DEF IInv, TypeOK
<1> QED BY <1>4, <1>5

LEMMA LedgerStep == IInv /\ [Next]_vars => [Ledger!Next]_(Ledger!vars)
<1> SUFFICES ASSUME IInv, [Next]_vars
             PROVE  Ledger!Next \/ UNCHANGED Ledger!vars
  OBVIOUS
<1>1. CASE UNCHANGED vars \/ Tick
  <2>1. Asked' = Asked
    BY <1>1 DEF vars, Tick, Asked, At
  <2> QED BY <1>1, <2>1, LedgerStutter DEF IInv, vars, Tick, db
<1>2. ASSUME NEW r \in Requests, Arrive(r) \/ (Reads(r) /\ ~UnpinFind(r))
      PROVE  UNCHANGED Ledger!vars
  <2>1. UNCHANGED <<db, view>>
    BY <1>2 DEF Arrive, Reads, Proceed, SendCheck, SendReply, SendAttach,
                OwnFind, Authorize, ToggleFind, InviteFind, RemoveFind, MuteFind,
                UnmuteFind, AdminDeleteFind, PinFind, PinCount, UnpinFind
  <2>2. Asked' = Asked
    BY <1>2, AskedKept
  <2> QED BY <2>1, <2>2, LedgerStutter DEF IInv, db
<1>3. ASSUME NEW r \in Requests, Writes(r)
      PROVE  Ledger!Next \/ UNCHANGED Ledger!vars
  <2>1. CASE EditWrite(r)
    <3>1. /\ \A m \in Messages : /\ msg'[m].status = msg[m].status
                                 /\ msg'[m].sender = msg[m].sender
          /\ UNCHANGED <<pinned, view>>
      BY <2>1 DEF EditWrite, IInv, TypeOK, Message
    <3>2. Asked' = Asked
      BY <2>1, AskedKept DEF Writes, EditWrite, UnpinWrite, At
    <3> QED BY <3>1, <3>2, LedgerStutter DEF IInv
  <2>2. CASE \/ SendStamp(r) \/ ToggleWrite(r) \/ SlowWrite(r) \/ InviteInsert(r)
             \/ InviteUnblock(r) \/ RemoveWrite(r) \/ MuteWrite(r) \/ UnmuteWrite(r)
    <3>1. UNCHANGED <<msg, pinned, view>>
      BY <2>2 DEF SendStamp, ToggleWrite, SlowWrite, InviteInsert, InviteUnblock,
                  RemoveWrite, MuteWrite, UnmuteWrite, SetRow
    <3>2. ~At(r, "unpin", "write")
      BY <2>2 DEF SendStamp, ToggleWrite, SlowWrite, InviteInsert, InviteUnblock, RemoveWrite,
                  MuteWrite, UnmuteWrite, At
    <3>3. Asked' = Asked
      BY <1>3, <3>2, AskedKept DEF UnpinWrite
    <3> QED BY <3>1, <3>3, LedgerStutter DEF IInv
  <2> QED BY <1>3, <2>1, <2>2, LedgerPost, LedgerRetract, LedgerPin, LedgerUnpin
          DEF Writes, Ledger!Next
<1>4. ASSUME NEW r \in Requests, UnpinFind(r) \/ Fail(r)
      PROVE  Ledger!Next \/ UNCHANGED Ledger!vars
  BY <1>4, LedgerAsk, LedgerFail DEF Ledger!Next
<1> QED BY <1>1, <1>2, <1>3, <1>4, LedgerShow DEF Next, Handle, Ledger!Next

(* The room keeps the promises of RoomLedger: messages are posted once and *)
(* keep their author, a deletion is final whatever edits are in flight,    *)
(* only stored messages are broadcast or pinned, and an unpin takes the    *)
(* pin it found and none that came after it.                               *)
THEOREM ImplementsLedger == Spec => LedgerSpec
  BY LedgerInit, LedgerStep, InductiveInvariant, PTL
     DEF Spec, LedgerSpec, Ledger!Spec

----------------------------------------------------------------------------
(* Removals and mutes *)


(* SentBy, of a given table of messages. *)
SentIn(ms, u, t) == {m \in Messages : /\ ms[m].status # "absent"
                                      /\ ms[m].sender = u
                                      /\ ms[m].sentAt > t}

(* A send that was permitted and has not stored its message. *)
Permitted(q, u) == q.op = "send" /\ q.by = u /\ q.pc \in {"reply", "create"}
Pending(rq, u)  == {r \in Requests : Permitted(rq[r], u)}

TailOK(ms, rq, u, t) ==
    /\ IsFiniteSet(SentIn(ms, u, t))
    /\ Cardinality(SentIn(ms, u, t)) + Cardinality(Pending(rq, u)) < N

Past == \A m \in Messages : msg[m].sentAt <= clock

Tails == \A u \in Users :
           /\ member[u].blocked => TailOK(msg, req, u, member[u].blockedAt)
           /\ member[u].muted   => TailOK(msg, req, u, member[u].mutedAt)

TInv == IInv /\ Past /\ Tails

----------------------------------------------------------------------------
(* Steps and tails *)

LEMMA PendingFinite ==
    ASSUME NEW rq, NEW u
    PROVE  /\ IsFiniteSet(Pending(rq, u))
           /\ Cardinality(Pending(rq, u)) \in Nat
           /\ N \in Nat /\ N # 0
<1>1. IsFiniteSet(Pending(rq, u)) /\ IsFiniteSet(Requests) /\ Requests # {}
  BY ChatRoomAssumption, FS_Subset DEF Pending
<1> QED BY <1>1, FS_CardinalityType, FS_EmptySet DEF N

(* No new message, no newly permitted request. *)
LEMMA TailKept ==
    ASSUME NEW ms, NEW ms2, NEW rq, NEW rq2, NEW u, NEW t,
           TailOK(ms, rq, u, t), SentIn(ms2, u, t) = SentIn(ms, u, t),
           Pending(rq2, u) \subseteq Pending(rq, u)
    PROVE  TailOK(ms2, rq2, u, t)
<1>1. Cardinality(Pending(rq2, u)) <= Cardinality(Pending(rq, u))
  BY PendingFinite, FS_Subset
<1>2. Cardinality(SentIn(ms, u, t)) \in Nat
  BY FS_CardinalityType DEF TailOK
<1> QED BY <1>1, <1>2, PendingFinite DEF TailOK

(* A permitted request stores its message. *)
LEMMA TailCreate ==
    ASSUME NEW ms, NEW ms2, NEW rq, NEW rq2, NEW u, NEW t, NEW m, NEW r \in Requests,
           TailOK(ms, rq, u, t), SentIn(ms2, u, t) \subseteq SentIn(ms, u, t) \cup {m},
           r \in Pending(rq, u), Pending(rq2, u) \subseteq Pending(rq, u) \ {r}
    PROVE  TailOK(ms2, rq2, u, t)
<1> DEFINE S == SentIn(ms, u, t)
           P == Pending(rq, u)
<1>1. IsFiniteSet(S) /\ Cardinality(S) \in Nat
  BY FS_CardinalityType DEF TailOK
<1>2. /\ IsFiniteSet(S \cup {m})
      /\ Cardinality(S \cup {m}) = IF m \in S THEN Cardinality(S)
                                               ELSE Cardinality(S) + 1
  BY <1>1, FS_AddElement
<1>3. /\ IsFiniteSet(SentIn(ms2, u, t))
      /\ Cardinality(SentIn(ms2, u, t)) <= Cardinality(S \cup {m})
  BY <1>2, FS_Subset
<1>4. IsFiniteSet(P) /\ IsFiniteSet(P \ {r}) /\ Cardinality(P \ {r}) = Cardinality(P) - 1
  BY PendingFinite, FS_RemoveElement
<1>5. Cardinality(Pending(rq2, u)) <= Cardinality(P \ {r})
  BY <1>4, FS_Subset
<1>6. /\ Cardinality(SentIn(ms2, u, t)) \in Nat /\ Cardinality(S \cup {m}) \in Nat
      /\ Cardinality(P) \in Nat /\ Cardinality(Pending(rq2, u)) \in Nat /\ N \in Nat
  BY <1>2, <1>3, PendingFinite, FS_CardinalityType
<1>7. Cardinality(S) + Cardinality(P) < N
  BY DEF TailOK
<1> HIDE DEF S, P
<1> QED BY <1>1, <1>2, <1>3, <1>4, <1>5, <1>6, <1>7 DEF TailOK

(* A removal or mute by handler r starts a tail. *)
LEMMA TailFresh ==
    ASSUME NEW ms, NEW rq, NEW u, NEW t, NEW r \in Requests,
           SentIn(ms, u, t) = {}, r \notin Pending(rq, u)
    PROVE  TailOK(ms, rq, u, t)
<1>1. IsFiniteSet({}) /\ Cardinality({}) = 0
  BY FS_EmptySet
<1>2. IsFiniteSet(Requests \ {r}) /\ Cardinality(Requests \ {r}) = N - 1
  BY ChatRoomAssumption, FS_RemoveElement DEF N
<1>3. Cardinality(Pending(rq, u)) <= Cardinality(Requests \ {r})
  BY <1>2, FS_Subset DEF Pending
<1> QED BY <1>1, <1>2, <1>3, PendingFinite DEF TailOK

(* A step of one request leaves u with no more permitted sends. *)
LEMMA PendingStep ==
    ASSUME TypeOK, NEW r \in Requests, NEW q, req' = [req EXCEPT ![r] = q],
           NEW u, Permitted(q, u) => Permitted(req[r], u)
    PROVE  Pending(req', u) \subseteq Pending(req, u)
  BY DEF TypeOK, Pending

SameSends == \A m \in Messages : /\ msg'[m].status = "absent" <=> msg[m].status = "absent"
                                 /\ msg'[m].sender = msg[m].sender
                                 /\ msg'[m].sentAt = msg[m].sentAt

SameBars == \A u \in Users :
              /\ member'[u].blocked => /\ member[u].blocked
                                       /\ member'[u].blockedAt = member[u].blockedAt
              /\ member'[u].muted   => /\ member[u].muted
                                       /\ member'[u].mutedAt = member[u].mutedAt

LEMMA SameSent ==
    ASSUME SameSends, NEW u, NEW t
    PROVE  SentIn(msg', u, t) = SentIn(msg, u, t)
  BY DEF SameSends, SentIn

LEMMA PastStep ==
    ASSUME TInv, SameSends, clock' \in {clock, clock + 1}
    PROVE  Past'
<1>1. ASSUME NEW m \in Messages PROVE msg[m].sentAt \in Int /\ msg[m].sentAt <= clock
  BY DEF TInv, IInv, TypeOK, Message, Past
<1>2. clock \in Int
  BY DEF TInv, IInv, TypeOK
<1> QED BY <1>1, <1>2 DEF SameSends, Past

(* Most steps store no message, permit no send of a barred user, and       *)
(* remove and mute nobody.                                                 *)
LEMMA QuietStep ==
    ASSUME TInv, IInv', SameSends, SameBars, clock' \in {clock, clock + 1},
           \A u \in Users : member[u].blocked \/ member[u].muted =>
              Pending(req', u) \subseteq Pending(req, u)
    PROVE  TInv'
<1>1. ASSUME NEW u \in Users
      PROVE  /\ member'[u].blocked => TailOK(msg', req', u, member'[u].blockedAt)
             /\ member'[u].muted   => TailOK(msg', req', u, member'[u].mutedAt)
  BY SameSent, TailKept DEF TInv, Tails, SameBars
<1> QED BY <1>1, PastStep DEF TInv, Tails

(* A request that is refused, or goes on to no step of a permitted send    *)
(* that it was not at already.                                             *)
LEMMA ProceedQuiet ==
    ASSUME TInv, IInv', NEW r \in Requests, NEW ok, NEW pc, Proceed(r, ok, pc),
           req[r] \in Request,
           req[r].pc = "reply" \/ pc \notin {"reply", "create"}
    PROVE  TInv'
<1> DEFINE q == IF ok THEN [req[r] EXCEPT !.pc = pc] ELSE Idle
<1>1. req' = [req EXCEPT ![r] = q] /\ UNCHANGED <<db, view, clock>>
  BY DEF Proceed
<1>2. ASSUME NEW u PROVE Permitted(q, u) => Permitted(req[r], u)
  BY DEF Permitted, Request, Idle
<1> HIDE DEF q
<1>3. \A u : Pending(req', u) \subseteq Pending(req, u)
  BY <1>1, <1>2, PendingStep DEF TInv, IInv
<1>4. SameSends /\ SameBars
  BY <1>1 DEF SameSends, SameBars, db
<1> QED BY <1>1, <1>3, <1>4, QuietStep

LEMMA FinishQuiet ==
    ASSUME TInv, IInv', NEW r \in Requests, Finish(r), SameSends, SameBars,
           UNCHANGED clock
    PROVE  TInv'
<1>1. \A u : ~Permitted(Idle, u)
  BY DEF Permitted, Idle
<1>2. \A u : Pending(req', u) \subseteq Pending(req, u)
  BY <1>1, PendingStep DEF TInv, IInv, Finish
<1> QED BY <1>2, QuietStep

LEMMA GotoQuiet ==
    ASSUME TInv, IInv', NEW r \in Requests, req[r] \in Request,
           NEW pc \in {"emit", "stamp"}, Goto(r, pc),
           SameSends, SameBars, UNCHANGED clock
    PROVE  TInv'
<1> DEFINE q == [req[r] EXCEPT !.pc = pc]
<1>1. req' = [req EXCEPT ![r] = q]
  BY DEF Goto
<1>2. \A u : ~Permitted(q, u)
  BY DEF Permitted, Request
<1> HIDE DEF q
<1>3. \A u : Pending(req', u) \subseteq Pending(req, u)
  BY <1>1, <1>2, PendingStep DEF TInv, IInv
<1> QED BY <1>3, QuietStep

----------------------------------------------------------------------------
(* The steps that matter *)

(* checkMessagePermissions permits no send of a barred user. *)
LEMMA SendCheckTails ==
    ASSUME TInv, IInv', NEW r \in Requests, SendCheck(r)
    PROVE  TInv'
<1>1. PICK pc : Proceed(r, MaySend(req[r].by), pc)
  BY DEF SendCheck
<1> DEFINE q == IF MaySend(req[r].by) THEN [req[r] EXCEPT !.pc = pc] ELSE Idle
<1>2. req' = [req EXCEPT ![r] = q] /\ UNCHANGED <<db, view, clock>>
  BY <1>1 DEF Proceed
<1>3. req[r] \in Request
  BY Busy DEF SendCheck, At, TInv, IInv
<1>4. ASSUME NEW u \in Users, member[u].blocked \/ member[u].muted
      PROVE  ~Permitted(q, u)
  BY <1>3, <1>4 DEF Permitted, MaySend, Request, Idle
<1> HIDE DEF q
<1>5. \A u \in Users : member[u].blocked \/ member[u].muted =>
        Pending(req', u) \subseteq Pending(req, u)
  BY <1>2, <1>4, PendingStep DEF TInv, IInv
<1>6. SameSends /\ SameBars
  BY <1>2 DEF SameSends, SameBars, db
<1> QED BY <1>2, <1>5, <1>6, QuietStep

(* A stored message was counted as a permitted send before. *)
LEMMA SendCreateTails ==
    ASSUME TInv, IInv', NEW r \in Requests, SendCreate(r)
    PROVE  TInv'
<1>1. PICK m \in Fresh :
        /\ msg' = [msg EXCEPT ![m] = NewMessage(req[r].by, req[r].arg, req[r].file)]
        /\ req' = [req EXCEPT ![r].m = m,
                              ![r].pc = IF req[r].file THEN "attach" ELSE "stamp"]
        /\ UNCHANGED <<member, clock>>
  BY DEF SendCreate
<1>2. m \in Messages /\ msg[m].status = "absent"
  BY DEF Fresh
<1>3. /\ At(r, "send", "create")
      /\ req[r] \in Request /\ req \in [Requests -> Request \cup {Idle}]
      /\ msg \in [Messages -> Message] /\ clock \in Nat
  BY Busy DEF SendCreate, At, TInv, IInv, TypeOK
<1>4. /\ msg'[m] = NewMessage(req[r].by, req[r].arg, req[r].file)
      /\ \A n \in Messages : n # m => msg'[n] = msg[n]
  BY <1>1, <1>2, <1>3
<1>5. Past'
  BY <1>1, <1>3, <1>4 DEF TInv, Past, NewMessage
<1>6. ASSUME NEW u \in Users, NEW t, TailOK(msg, req, u, t)
      PROVE  TailOK(msg', req', u, t)
  <2>1. \A p \in Requests : p # r => req'[p] = req[p]
    BY <1>1, <1>3
  <2>2. ~Permitted(req'[r], u)
    BY <1>1, <1>3 DEF Permitted, Request
  <2>3. Pending(req', u) \subseteq Pending(req, u) \ {r}
    BY <2>1, <2>2 DEF Pending
  <2>4. CASE req[r].by = u
    <3>1. r \in Pending(req, u)
      BY <1>3, <2>4 DEF Pending, Permitted, At
    <3>2. SentIn(msg', u, t) \subseteq SentIn(msg, u, t) \cup {m}
      BY <1>4 DEF SentIn
    <3> QED BY <1>6, <2>3, <3>1, <3>2, TailCreate
  <2>5. CASE req[r].by # u
    <3>1. SentIn(msg', u, t) = SentIn(msg, u, t)
      BY <1>2, <1>4, <2>5 DEF SentIn, NewMessage
    <3> QED BY <1>6, <2>3, <3>1, TailKept
  <2> QED BY <2>4, <2>5
<1> QED BY <1>1, <1>5, <1>6 DEF TInv, Tails

(* Nothing has been sent after the present tick. *)
LEMMA NothingSentSince ==
    ASSUME TInv, NEW u
    PROVE  SentIn(msg, u, clock) = {}
  BY DEF TInv, IInv, TypeOK, Message, Past, SentIn

(* A removal or a mute that takes effect at this tick. *)
LEMMA BarTails ==
    ASSUME TInv, IInv', NEW r \in Requests, RemoveWrite(r) \/ MuteWrite(r)
    PROVE  TInv'
<1> DEFINE w == req[r].who
           row == IF RemoveWrite(r)
                  THEN [member[w] EXCEPT !.blocked = TRUE, !.blockedAt = clock]
                  ELSE [member[w] EXCEPT !.muted = TRUE, !.mutedAt = clock]
<1>1. /\ member' = [member EXCEPT ![w] = row]
      /\ Finish(r) /\ UNCHANGED <<msg, clock>>
  BY DEF RemoveWrite, MuteWrite, SetRow
<1>2. member \in [Users -> Row]
  BY DEF TInv, IInv, TypeOK
<1>3. \A u : ~Permitted(Idle, u)
  BY DEF Permitted, Idle
<1>4. \A u : Pending(req', u) \subseteq Pending(req, u)
  BY <1>1, <1>3, PendingStep DEF TInv, IInv, Finish
<1>5. \A u : r \notin Pending(req', u)
  BY <1>1, <1>3 DEF Pending, Finish, TInv, IInv, TypeOK
<1>6. \A u : TailOK(msg', req', u, clock)
  BY <1>1, <1>5, NothingSentSince, TailFresh
<1>7. \A u, t : TailOK(msg, req, u, t) => TailOK(msg', req', u, t)
  BY <1>1, <1>4, TailKept
<1>8. ASSUME NEW u \in Users
      PROVE  /\ member'[u].blocked => /\ member[u].blocked
                                      /\ member'[u].blockedAt = member[u].blockedAt
                                   \/ member'[u].blockedAt = clock
             /\ member'[u].muted   => /\ member[u].muted
                                      /\ member'[u].mutedAt = member[u].mutedAt
                                   \/ member'[u].mutedAt = clock
  BY <1>1, <1>2 DEF Row
<1>9. ASSUME NEW u \in Users
      PROVE  /\ member'[u].blocked => TailOK(msg', req', u, member'[u].blockedAt)
             /\ member'[u].muted   => TailOK(msg', req', u, member'[u].mutedAt)
  BY <1>6, <1>7, <1>8 DEF TInv, Tails
<1>10. SameSends
  BY <1>1 DEF SameSends
<1> QED BY <1>1, <1>9, <1>10, PastStep DEF TInv, Tails

----------------------------------------------------------------------------
(* All steps *)

LEMMA ArriveTails ==
    ASSUME TInv, IInv', NEW r \in Requests, Arrive(r)
    PROVE  TInv'
<1>1. PICK q : req' = [req EXCEPT ![r] = q] /\ q.pc \in {"perm", "own", "auth"}
  BY ArriveRequest
<1>2. \A u : ~Permitted(q, u)
  BY <1>1 DEF Permitted
<1>3. \A u : Pending(req', u) \subseteq Pending(req, u)
  BY <1>1, <1>2, PendingStep DEF TInv, IInv
<1>4. SameSends /\ SameBars /\ UNCHANGED clock
  BY DEF Arrive, SameSends, SameBars, db
<1> QED BY <1>3, <1>4, QuietStep

(* A lookup goes on to no step of a permitted send that it was not at.     *)
LEMMA FindProceeds ==
    ASSUME NEW r \in Requests,
           \/ SendReply(r) \/ OwnFind(r) \/ Authorize(r) \/ InviteFind(r)
           \/ RemoveFind(r) \/ MuteFind(r) \/ UnmuteFind(r)
           \/ AdminDeleteFind(r) \/ PinFind(r) \/ PinCount(r) \/ UnpinFind(r)
    PROVE  \E ok, pc : /\ req[r].pc \notin {"idle", "stamp"} /\ Proceed(r, ok, pc)
                       /\ req[r].pc = "reply" \/ pc \notin {"reply", "create"}
<1>1. CASE SendReply(r) \/ OwnFind(r)
  BY <1>1 DEF SendReply, OwnFind, At
<1>2. CASE Authorize(r)
  <2> DEFINE ok == /\ AdminAccess(req[r].by)
                   /\ req[r].op \in {"remove", "mute"} => req[r].by # req[r].who
             to == IF req[r].op = "slow" THEN "write" ELSE "find"
  <2>1. req[r].pc \notin {"idle", "stamp"} /\ Proceed(r, ok, to)
    BY <1>2 DEF Authorize
  <2>2. to \notin {"reply", "create"}
    OBVIOUS
  <2> HIDE DEF ok, to
  <2> QED BY <2>1, <2>2
<1>3. CASE InviteFind(r)
  <2> DEFINE row == member[req[r].who]
             to  == IF row.role = "NONE" THEN "insert" ELSE "write"
  <2>1. req[r].pc \notin {"idle", "stamp"} /\ Proceed(r, row.role = "NONE" \/ row.blocked, to)
    BY <1>3 DEF InviteFind, At
  <2>2. to \notin {"reply", "create"}
    OBVIOUS
  <2> HIDE DEF row, to
  <2> QED BY <2>1, <2>2
<1>4. CASE RemoveFind(r) \/ MuteFind(r) \/ UnmuteFind(r)
  BY <1>4 DEF RemoveFind, MuteFind, UnmuteFind, At
<1>5. CASE AdminDeleteFind(r) \/ PinFind(r) \/ PinCount(r) \/ UnpinFind(r)
  BY <1>5 DEF AdminDeleteFind, PinFind, PinCount, UnpinFind, At
<1> QED BY <1>1, <1>2, <1>3, <1>4, <1>5

LEMMA ReadsTails ==
    ASSUME TInv, IInv', NEW r \in Requests, Reads(r)
    PROVE  TInv'
<1>1. CASE SendCheck(r)
  BY <1>1, SendCheckTails
<1>2. CASE SendAttach(r)
  <2>1. Finish(r) /\ UNCHANGED <<db, clock>>
    BY <1>2 DEF SendAttach
  <2>2. SameSends /\ SameBars
    BY <2>1 DEF SameSends, SameBars, db
  <2> QED BY <2>1, <2>2, FinishQuiet
<1>3. CASE ToggleFind(r)
  <2>1. PICK q : /\ req' = [req EXCEPT ![r] = q] /\ \A u : ~Permitted(q, u)
                 /\ UNCHANGED <<db, clock>>
    <3> DEFINE q == [req[r] EXCEPT !.pc = "write", !.arg =
                       IF req[r].arg = "on" \/ (req[r].arg = "flip" /\ ~enabled)
                       THEN "on" ELSE "off"]
    <3>1. req' = [req EXCEPT ![r] = q] /\ UNCHANGED <<db, clock>>
      BY <1>3 DEF ToggleFind
    <3>2. req[r] \in Request
      BY <1>3, Busy DEF ToggleFind, At, TInv, IInv
    <3>3. \A u : ~Permitted(q, u)
      BY <3>2 DEF Permitted, Request
    <3> HIDE DEF q
    <3> QED BY <3>1, <3>3
  <2>2. \A u : Pending(req', u) \subseteq Pending(req, u)
    BY <2>1, PendingStep DEF TInv, IInv
  <2>3. SameSends /\ SameBars
    BY <2>1 DEF SameSends, SameBars, db
  <2> QED BY <2>1, <2>2, <2>3, QuietStep
<1>4. CASE \/ SendReply(r) \/ OwnFind(r) \/ Authorize(r) \/ InviteFind(r)
           \/ RemoveFind(r) \/ MuteFind(r) \/ UnmuteFind(r)
           \/ AdminDeleteFind(r) \/ PinFind(r) \/ PinCount(r) \/ UnpinFind(r)
  <2>1. PICK ok, pc : /\ req[r].pc \notin {"idle", "stamp"} /\ Proceed(r, ok, pc)
                      /\ req[r].pc = "reply" \/ pc \notin {"reply", "create"}
    BY <1>4, FindProceeds
  <2> QED BY <2>1, Busy, ProceedQuiet DEF TInv, IInv
<1> QED BY <1>1, <1>2, <1>3, <1>4 DEF Reads

LEMMA WritesTails ==
    ASSUME TInv, IInv', NEW r \in Requests, Writes(r)
    PROVE  TInv'
<1> USE DEF TInv, IInv, TypeOK
<1>1. CASE SendCreate(r)
  BY <1>1, SendCreateTails
<1>2. CASE SendStamp(r)
  <2>1. Goto(r, "emit") /\ SameSends /\ UNCHANGED clock
    BY <1>2 DEF SendStamp, SameSends
  <2>2. SameBars
    BY <1>2 DEF SendStamp, SameBars, Row
  <2>3. req[r] \in Request
    BY <1>2, Busy DEF SendStamp, At
  <2> QED BY <2>1, <2>2, <2>3, GotoQuiet
<1>3. CASE EditWrite(r) \/ DeleteWrite(r)
  <2>1. Goto(r, "emit") /\ SameBars /\ UNCHANGED clock
    BY <1>3 DEF EditWrite, DeleteWrite, SameBars
  <2>2. /\ req[r] \in Request /\ req[r].m \in Messages
        /\ msg[req[r].m].status # "absent"
    BY <1>3, Busy DEF EditWrite, DeleteWrite, At, RequestsOK, StoredOK, HasMessage
  <2>3. SameSends
    BY <1>3, <2>2 DEF EditWrite, DeleteWrite, SameSends, Message
  <2> QED BY <2>1, <2>2, <2>3, GotoQuiet
<1>4. CASE ToggleWrite(r) \/ SlowWrite(r) \/ PinWrite(r)
  <2>1. Finish(r) /\ SameSends /\ SameBars /\ UNCHANGED clock
    BY <1>4 DEF ToggleWrite, SlowWrite, PinWrite, SameSends, SameBars
  <2> QED BY <2>1, FinishQuiet
<1>5. CASE InviteInsert(r) \/ InviteUnblock(r) \/ UnmuteWrite(r)
  <2>1. Finish(r) /\ SameSends /\ UNCHANGED clock
    BY <1>5 DEF InviteInsert, InviteUnblock, UnmuteWrite, SetRow, SameSends
  <2>2. SameBars
    <3>1. CASE InviteInsert(r)
      BY <3>1 DEF InviteInsert, SetRow, NewRow, SameBars, Row
    <3>2. CASE InviteUnblock(r)
      BY <3>2 DEF InviteUnblock, SetRow, SameBars, Row
    <3>3. CASE UnmuteWrite(r)
      BY <3>3 DEF UnmuteWrite, SetRow, SameBars, Row
    <3> QED BY <1>5, <3>1, <3>2, <3>3
  <2> QED BY <2>1, <2>2, FinishQuiet
<1>6. CASE RemoveWrite(r) \/ MuteWrite(r)
  BY <1>6, BarTails
<1>7. CASE UnpinWrite(r)
  <2>1. \A u : Pending(req', u) \subseteq Pending(req, u)
    BY <1>7 DEF UnpinWrite, Pending, Permitted, At, Idle
  <2>2. SameSends /\ SameBars /\ UNCHANGED clock
    BY <1>7 DEF UnpinWrite, SameSends, SameBars
  <2> QED BY <2>1, <2>2, QuietStep
<1> QED BY <1>1, <1>2, <1>3, <1>4, <1>5, <1>6, <1>7 DEF Writes

LEMMA NextTails == TInv /\ [Next]_vars => TInv'
<1> SUFFICES ASSUME TInv, [Next]_vars PROVE TInv'
  OBVIOUS
<1>1. IInv'
  BY NextIInv DEF TInv
<1>2. CASE Tick
  BY <1>1, <1>2, QuietStep DEF Tick, SameSends, SameBars, db
<1>3. ASSUME NEW r \in Requests, Arrive(r) PROVE TInv'
  BY <1>1, <1>3, ArriveTails
<1>4. ASSUME NEW r \in Requests, Reads(r) PROVE TInv'
  BY <1>1, <1>4, ReadsTails
<1>5. ASSUME NEW r \in Requests, Writes(r) PROVE TInv'
  BY <1>1, <1>5, WritesTails
<1>6. ASSUME NEW r \in Requests, Broadcast(r) \/ Fail(r) PROVE TInv'
  <2>1. Finish(r) /\ UNCHANGED <<db, clock>>
    BY <1>6 DEF Broadcast, Fail
  <2>2. SameSends /\ SameBars
    BY <2>1 DEF SameSends, SameBars, db
  <2> QED BY <1>1, <2>1, <2>2, FinishQuiet
<1>7. CASE UNCHANGED vars
  BY <1>1, <1>7, QuietStep DEF vars, SameSends, SameBars
<1> QED BY <1>2, <1>3, <1>4, <1>5, <1>6, <1>7 DEF Next, Handle

LEMMA InitTails == Init => TInv
<1> SUFFICES ASSUME Init PROVE TInv
  OBVIOUS
<1>1. IInv
  BY InitIInv
<1>2. Past
  BY DEF Init, Past, Never
<1>3. Tails
  BY DEF Init, Tails, NewRow
<1> QED BY <1>1, <1>2, <1>3 DEF TInv

LEMMA TailInvariant == Spec => []TInv
<1> QED BY InitTails, NextTails, PTL DEF Spec

(* removeUser takes effect: a member who is removed gets fewer than N      *)
(* messages into the room afterwards, N being the number of handlers.      *)
THEOREM RemovalsTakeEffect == Spec => []RemovedTail
<1>1. TInv => RemovedTail
  <2> SUFFICES ASSUME TInv, NEW u \in Users, member[u].blocked
               PROVE  Cardinality(SentBy(u, member[u].blockedAt)) < N
    BY DEF RemovedTail
  <2>1. TailOK(msg, req, u, member[u].blockedAt)
    BY DEF TInv, Tails
  <2>2. SentBy(u, member[u].blockedAt) = SentIn(msg, u, member[u].blockedAt)
    BY DEF SentBy, SentIn
  <2> QED BY <2>1, <2>2, PendingFinite, FS_CardinalityType DEF TailOK
<1> QED BY <1>1, TailInvariant, PTL

(* muteUser takes effect in the same way.                                  *)
THEOREM MutesTakeEffect == Spec => []MutedTail
<1>1. TInv => MutedTail
  <2> SUFFICES ASSUME TInv, NEW u \in Users, member[u].muted
               PROVE  Cardinality(SentBy(u, member[u].mutedAt)) < N
    BY DEF MutedTail
  <2>1. TailOK(msg, req, u, member[u].mutedAt)
    BY DEF TInv, Tails
  <2>2. SentBy(u, member[u].mutedAt) = SentIn(msg, u, member[u].mutedAt)
    BY DEF SentBy, SentIn
  <2> QED BY <2>1, <2>2, PendingFinite, FS_CardinalityType DEF TailOK
<1> QED BY <1>1, TailInvariant, PTL
----------------------------------------------------------------------------
(* Slow mode *)

(* The text messages of u in the interval that begins at t, and the sends  *)
(* of u that have stored theirs and have yet to stamp the member row.      *)
Burst(ms, u, t) == {m \in SentIn(ms, u, t - 1) : ~ms[m].file /\ ms[m].sentAt < t + SlowTicks}
Stamping(rq, u) == {r \in Requests : rq[r].op = "send" /\ rq[r].pc = "stamp" /\ rq[r].by = u}

BurstOK(ms, rq, last, now, u, t) ==
    /\ IsFiniteSet(Burst(ms, u, t)) /\ Cardinality(Burst(ms, u, t)) <= N
    /\ last < t => \A m \in Burst(ms, u, t) : \E r \in Stamping(rq, u) : rq[r].m = m
    /\ last >= t /\ now < t + SlowTicks =>
         Cardinality(Burst(ms, u, t)) + Cardinality(Pending(rq, u)) <= N

(* Slow mode stays as it is, and nobody's role changes. *)
SteadyRoom == DbFails = FALSE /\ "slow" \notin Ops /\ "invite" \notin Ops

OnlyOps == \A r \in Requests : req[r] = Idle \/ req[r].op \in Ops

Bursts ==
    slow => \A u \in Users, t \in 0 .. MaxClock :
              member[u].role = "MEMBER" => BurstOK(msg, req, member[u].lastMessageAt, clock, u, t)

SInv == TInv /\ OnlyOps /\ Bursts

(* Before the first stamp of the interval every message of it belongs to a *)
(* request of its own.                                                     *)
LEMMA BurstCount ==
    ASSUME NEW ms, NEW rq, NEW u, NEW t,
           \A m \in Burst(ms, u, t) : \E r \in Stamping(rq, u) : rq[r].m = m
    PROVE  /\ IsFiniteSet(Burst(ms, u, t)) /\ Cardinality(Burst(ms, u, t)) <= N
           /\ Cardinality(Burst(ms, u, t)) + Cardinality(Pending(rq, u)) <= N
<1> DEFINE W == Burst(ms, u, t)
           S == Stamping(rq, u)
           P == Pending(rq, u)
           f == [m \in W |-> CHOOSE r \in S : rq[r].m = m]
<1>1. IsFiniteSet(Requests) /\ IsFiniteSet(S) /\ IsFiniteSet(P)
  BY ChatRoomAssumption, FS_Subset DEF Stamping, Pending
<1>2. \A m \in W : f[m] \in S /\ rq[f[m]].m = m
  OBVIOUS
<1>3. f \in Injection(W, S)
  <2>1. f \in [W -> S]
    BY <1>2
  <2>2. \A m, n \in W : f[m] = f[n] => m = n
    BY <1>2
  <2> HIDE DEF f, W, S
  <2> QED BY <2>1, <2>2 DEF Injection, IsInjective
<1>4. IsFiniteSet(W) /\ Cardinality(W) <= Cardinality(S)
  <2> HIDE DEF f, W, S
  <2> QED BY <1>1, <1>3, FS_Injection
<1>5. S \cap P = {} /\ S \cup P \subseteq Requests
  BY DEF Stamping, Pending, Permitted
<1>6. Cardinality({}) = 0
  BY FS_EmptySet
<1>7. Cardinality(S \cup P) = Cardinality(S) + Cardinality(P) - Cardinality(S \cap P)
  <2> HIDE DEF S, P
  <2> QED BY <1>1, FS_Union
<1>8. Cardinality(S \cup P) <= N
  BY <1>1, <1>5, FS_Subset DEF N
<1>9. /\ Cardinality(S) \in Nat /\ Cardinality(P) \in Nat /\ Cardinality(W) \in Nat
      /\ Cardinality(S \cup P) \in Nat /\ N \in Nat
  BY <1>1, <1>4, <1>5, FS_CardinalityType, FS_Subset DEF N
<1> HIDE DEF W, S, P, f
<1>10. Cardinality(W) + Cardinality(P) <= N
  <2>1. Cardinality(S \cap P) = 0
    BY <1>5, <1>6
  <2> QED BY <1>4, <1>7, <1>8, <1>9, <2>1
<1>11. Cardinality(W) <= N
  BY <1>9, <1>10
<1> QED BY <1>4, <1>10, <1>11 DEF W, P

(* No new message, no newly permitted send, no new stamp, and the requests *)
(* that have yet to stamp are left alone.                                  *)
LEMMA BurstKept ==
    ASSUME NEW ms, NEW ms2, NEW rq, NEW rq2, NEW u, NEW t \in Nat, NEW last \in Int,
           NEW now \in Nat, NEW now2 \in Nat, now <= now2,
           BurstOK(ms, rq, last, now, u, t), Burst(ms2, u, t) = Burst(ms, u, t),
           Pending(rq2, u) \subseteq Pending(rq, u),
           \A r \in Stamping(rq, u) : r \in Stamping(rq2, u) /\ rq2[r].m = rq[r].m
    PROVE  BurstOK(ms2, rq2, last, now2, u, t)
<1>1. Cardinality(Pending(rq2, u)) <= Cardinality(Pending(rq, u))
  BY PendingFinite, FS_Subset
<1>2. /\ Cardinality(Burst(ms, u, t)) \in Nat /\ Cardinality(Pending(rq, u)) \in Nat
      /\ Cardinality(Pending(rq2, u)) \in Nat /\ N \in Nat /\ SlowTicks \in Nat
  BY PendingFinite, FS_CardinalityType, ChatRoomAssumption DEF BurstOK
<1>3. last < t => \A m \in Burst(ms2, u, t) : \E r \in Stamping(rq2, u) : rq2[r].m = m
  BY DEF BurstOK
<1>4. last >= t /\ now2 < t + SlowTicks =>
        Cardinality(Burst(ms2, u, t)) + Cardinality(Pending(rq2, u)) <= N
  BY <1>1, <1>2 DEF BurstOK
<1> QED BY <1>3, <1>4 DEF BurstOK

(* checkMessagePermissions permits a send of u, whose stamp is not of this *)
(* interval.                                                               *)
LEMMA BurstPermit ==
    ASSUME NEW ms, NEW rq, NEW rq2, NEW u, NEW t \in Nat, NEW last \in Int, NEW now \in Nat,
           BurstOK(ms, rq, last, now, u, t), last < t \/ now >= t + SlowTicks,
           \A r \in Stamping(rq, u) : r \in Stamping(rq2, u) /\ rq2[r].m = rq[r].m
    PROVE  BurstOK(ms, rq2, last, now, u, t)
<1>1. last < t => \A m \in Burst(ms, u, t) : \E r \in Stamping(rq2, u) : rq2[r].m = m
  BY DEF BurstOK
<1>2. SlowTicks \in Nat
  BY ChatRoomAssumption
<1> QED BY <1>1, <1>2 DEF BurstOK

(* A permitted send of u stores its message.                               *)
LEMMA BurstCreate ==
    ASSUME NEW ms, NEW ms2, NEW rq, NEW rq2, NEW u, NEW t \in Nat, NEW last \in Int, NEW now \in Nat,
           NEW r \in Requests, NEW m,
           BurstOK(ms, rq, last, now, u, t),
           \/ Burst(ms2, u, t) = Burst(ms, u, t)
           \/ /\ now < t + SlowTicks /\ Burst(ms2, u, t) = Burst(ms, u, t) \cup {m}
              /\ r \in Stamping(rq2, u) /\ rq2[r].m = m,
           r \in Pending(rq, u), Pending(rq2, u) \subseteq Pending(rq, u) \ {r},
           \A p \in Stamping(rq, u) : p \in Stamping(rq2, u) /\ rq2[p].m = rq[p].m
    PROVE  BurstOK(ms2, rq2, last, now, u, t)
<1> DEFINE W == Burst(ms, u, t)
           P == Pending(rq, u)
<1>1. last < t => \A n \in Burst(ms2, u, t) : \E p \in Stamping(rq2, u) : rq2[p].m = n
  BY DEF BurstOK
<1>2. CASE last < t
  BY <1>1, <1>2, BurstCount DEF BurstOK
<1>3. CASE Burst(ms2, u, t) = W /\ last >= t
  BY <1>3, BurstKept
<1>4. CASE now < t + SlowTicks /\ Burst(ms2, u, t) = W \cup {m} /\ last >= t
  <2>1. IsFiniteSet(W) /\ Cardinality(W) \in Nat /\ Cardinality(W) + Cardinality(P) <= N
    BY <1>4, FS_CardinalityType DEF BurstOK
  <2>2. /\ IsFiniteSet(W \cup {m}) /\ Cardinality(W \cup {m}) \in Nat
        /\ Cardinality(W \cup {m}) <= Cardinality(W) + 1
    <3>1. IsFiniteSet(W \cup {m}) /\ Cardinality(W \cup {m}) = IF m \in W THEN Cardinality(W) ELSE Cardinality(W) + 1
      BY <2>1, FS_AddElement
    <3> HIDE DEF W
    <3> QED BY <2>1, <3>1
  <2>3. IsFiniteSet(P) /\ IsFiniteSet(P \ {r}) /\ Cardinality(P \ {r}) = Cardinality(P) - 1
    BY PendingFinite, FS_RemoveElement
  <2>4. Cardinality(Pending(rq2, u)) <= Cardinality(P \ {r})
    BY <2>3, FS_Subset
  <2>5. Cardinality(P) \in Nat /\ Cardinality(Pending(rq2, u)) \in Nat /\ N \in Nat
    BY PendingFinite
  <2>6. IsFiniteSet(Burst(ms2, u, t)) /\ Cardinality(Burst(ms2, u, t)) = Cardinality(W \cup {m})
    BY <1>4, <2>2
  <2>7. Cardinality(Burst(ms2, u, t)) + Cardinality(Pending(rq2, u)) <= N
    <3> HIDE DEF W, P
    <3> QED BY <2>1, <2>2, <2>3, <2>4, <2>5, <2>6
  <2>8. Cardinality(Burst(ms2, u, t)) <= N
    <3> HIDE DEF W, P
    <3> QED BY <2>2, <2>5, <2>6, <2>7
  <2> QED BY <1>4, <2>6, <2>7, <2>8 DEF BurstOK
<1> HIDE DEF W, P
<1> QED BY <1>2, <1>3, <1>4 DEF W

(* A send of u stamps the member row. *)
LEMMA BurstStamp ==
    ASSUME NEW ms, NEW rq, NEW rq2, NEW u, NEW t \in Nat, NEW last \in Int, NEW now \in Nat,
           BurstOK(ms, rq, last, now, u, t), Pending(rq2, u) \subseteq Pending(rq, u),
           now < t => Burst(ms, u, t) = {}
    PROVE  BurstOK(ms, rq2, now, now, u, t)
<1>1. Cardinality(Pending(rq2, u)) <= Cardinality(Pending(rq, u))
  BY PendingFinite, FS_Subset
<1>2. /\ Cardinality(Burst(ms, u, t)) \in Nat /\ Cardinality(Pending(rq, u)) \in Nat
      /\ Cardinality(Pending(rq2, u)) \in Nat /\ N \in Nat
  BY PendingFinite, FS_CardinalityType DEF BurstOK
<1>3. now < t + SlowTicks => Cardinality(Burst(ms, u, t)) + Cardinality(Pending(rq, u)) <= N
  <2>1. CASE last < t
    BY <2>1, BurstCount DEF BurstOK
  <2>2. CASE last >= t
    BY <2>2 DEF BurstOK
  <2> QED BY <2>1, <2>2
<1> QED BY <1>1, <1>2, <1>3 DEF BurstOK

SameTexts == SameSends /\ \A m \in Messages : msg'[m].file = msg[m].file

SameStamps == \A u \in Users : /\ member'[u].role = member[u].role
                               /\ member'[u].lastMessageAt = member[u].lastMessageAt

LEMMA SameBurst ==
    ASSUME SameTexts, NEW u, NEW t
    PROVE  Burst(msg', u, t) = Burst(msg, u, t)
  BY DEF SameTexts, SameSends, Burst, SentIn

LEMMA StampType ==
    ASSUME TInv, NEW u \in Users
    PROVE  member[u].lastMessageAt \in Int /\ clock \in Nat
  BY DEF TInv, IInv, TypeOK, Row

(* Most steps store no text, permit no send and stamp no row.              *)
LEMMA BurstQuiet ==
    ASSUME SInv, TInv', OnlyOps', SameTexts, SameStamps, UNCHANGED slow,
           clock' \in {clock, clock + 1},
           \A u : Pending(req', u) \subseteq Pending(req, u),
           \A r \in Requests : req[r].pc = "stamp" => req'[r] = req[r]
    PROVE  SInv'
<1> SUFFICES ASSUME slow, NEW u \in Users, NEW t \in 0 .. MaxClock, member[u].role = "MEMBER"
             PROVE  BurstOK(msg', req', member[u].lastMessageAt, clock', u, t)
  BY DEF SInv, Bursts, SameStamps
<1>1. BurstOK(msg, req, member[u].lastMessageAt, clock, u, t)
  BY DEF SInv, Bursts
<1>2. \A r \in Stamping(req, u) : r \in Stamping(req', u) /\ req'[r].m = req[r].m
  BY DEF Stamping
<1>3. /\ t \in Nat /\ member[u].lastMessageAt \in Int
      /\ clock \in Nat /\ clock' \in Nat /\ clock <= clock'
  BY StampType, ChatRoomAssumption DEF SInv
<1>4. Burst(msg', u, t) = Burst(msg, u, t)
  BY SameBurst
<1>5. Pending(req', u) \subseteq Pending(req, u)
  OBVIOUS
<1> QED BY <1>1, <1>2, <1>3, <1>4, <1>5, BurstKept

(* The step of one request that has no row to stamp.                       *)
LEMMA BurstRequest ==
    ASSUME SInv, TInv', NEW r \in Requests, NEW q, req' = [req EXCEPT ![r] = q],
           req[r].pc # "stamp", \A u : Permitted(q, u) => Permitted(req[r], u),
           q = Idle \/ q.op \in Ops,
           SameTexts, SameStamps, UNCHANGED <<slow, clock>>
    PROVE  SInv'
<1>1. \A u : Pending(req', u) \subseteq Pending(req, u)
  BY PendingStep DEF SInv, TInv, IInv
<1>2. \A p \in Requests : req'[p] = IF p = r THEN q ELSE req[p]
  BY DEF SInv, TInv, IInv, TypeOK
<1>3. OnlyOps'
  BY <1>2 DEF SInv, OnlyOps
<1>4. \A p \in Requests : req[p].pc = "stamp" => req'[p] = req[p]
  BY <1>2
<1>5. UNCHANGED slow /\ clock' \in {clock, clock + 1}
  OBVIOUS
<1> QED BY <1>1, <1>3, <1>4, <1>5, BurstQuiet

LEMMA BurstFinish ==
    ASSUME SInv, TInv', NEW r \in Requests, Finish(r), req[r].pc # "stamp",
           SameTexts, SameStamps, UNCHANGED <<slow, clock>>
    PROVE  SInv'
<1>1. req' = [req EXCEPT ![r] = Idle]
  BY DEF Finish
<1>2. \A u : ~Permitted(Idle, u)
  BY DEF Permitted, Idle
<1> QED BY <1>1, <1>2, BurstRequest

LEMMA SameDb == ASSUME UNCHANGED db PROVE SameTexts /\ SameStamps /\ UNCHANGED slow
  BY DEF db, SameTexts, SameSends, SameStamps

(* A busy request carries one of the operations of the instance.           *)
LEMMA BusyOp ==
    ASSUME SInv, NEW r \in Requests, req[r].pc # "idle"
    PROVE  req[r] \in Request /\ req[r].op \in Ops
<1>1. req[r] \in Request
  BY Busy DEF SInv, TInv, IInv
<1>2. req[r] # Idle
  BY DEF Idle
<1> QED BY <1>1, <1>2 DEF SInv, OnlyOps

LEMMA BurstProceed ==
    ASSUME SInv, TInv', NEW r \in Requests, NEW ok, NEW pc, Proceed(r, ok, pc),
           req[r].pc \notin {"idle", "stamp"},
           req[r].pc = "reply" \/ pc \notin {"reply", "create"}
    PROVE  SInv'
<1> DEFINE q == IF ok THEN [req[r] EXCEPT !.pc = pc] ELSE Idle
<1>1. req' = [req EXCEPT ![r] = q] /\ UNCHANGED <<db, view, clock>>
  BY DEF Proceed
<1>2. req[r] \in Request /\ req[r].op \in Ops
  BY BusyOp
<1>3. \A u : Permitted(q, u) => Permitted(req[r], u)
  BY <1>2 DEF Permitted, Request, Idle
<1>4. q = Idle \/ q.op \in Ops
  BY <1>2 DEF Request
<1>5. SameTexts /\ SameStamps /\ UNCHANGED <<slow, clock>>
  BY <1>1, SameDb
<1> HIDE DEF q
<1> QED BY <1>1, <1>3, <1>4, <1>5, BurstRequest

(* checkMessagePermissions permits no send of a MEMBER in the interval of  *)
(* its stamp.                                                              *)
LEMMA SendCheckBursts ==
    ASSUME SInv, TInv', NEW r \in Requests, SendCheck(r)
    PROVE  SInv'
<1>1. PICK pc : Proceed(r, MaySend(req[r].by), pc)
  BY DEF SendCheck
<1> DEFINE q == IF MaySend(req[r].by) THEN [req[r] EXCEPT !.pc = pc] ELSE Idle
<1>2. req' = [req EXCEPT ![r] = q] /\ UNCHANGED <<db, view, clock>>
  BY <1>1 DEF Proceed
<1>3. req[r] \in Request /\ req[r].op \in Ops /\ req[r].pc = "perm"
  BY BusyOp DEF SendCheck, At
<1>4. \A p \in Requests : req'[p] = IF p = r THEN q ELSE req[p]
  BY <1>2 DEF SInv, TInv, IInv, TypeOK
<1>5. OnlyOps'
  BY <1>3, <1>4 DEF SInv, OnlyOps, Request
<1>6. ASSUME slow, NEW u \in Users, NEW t \in 0 .. MaxClock, member[u].role = "MEMBER"
      PROVE  BurstOK(msg, req', member[u].lastMessageAt, clock, u, t)
  <2> DEFINE last == member[u].lastMessageAt
  <2>1. BurstOK(msg, req, last, clock, u, t)
    BY <1>6 DEF SInv, Bursts
  <2>2. \A p \in Stamping(req, u) : p \in Stamping(req', u) /\ req'[p].m = req[p].m
    BY <1>3, <1>4 DEF Stamping
  <2>3. t \in Nat /\ last \in Int /\ clock \in Nat /\ SlowTicks \in Nat
    BY StampType, ChatRoomAssumption DEF SInv
  <2>4. CASE Permitted(q, u)
    <3>1. req[r].by = u /\ MaySend(u)
      BY <1>3, <2>4 DEF Permitted, Request, Idle
    <3>2. last = Never \/ clock - last >= SlowTicks
      BY <1>6, <2>3, <3>1 DEF MaySend, InSlowInterval
    <3>3. last < t \/ clock >= t + SlowTicks
      <4> HIDE DEF last
      <4> QED BY <2>3, <3>2 DEF Never
    <3> HIDE DEF q
    <3> QED BY <2>1, <2>2, <2>3, <3>3, BurstPermit
  <2>5. CASE ~Permitted(q, u)
    <3>1. Pending(req', u) \subseteq Pending(req, u)
      BY <1>2, <2>5, PendingStep DEF SInv, TInv, IInv
    <3>2. clock <= clock
      BY <2>3
    <3> HIDE DEF q
    <3> QED BY <2>1, <2>2, <2>3, <3>1, <3>2, BurstKept
  <2> QED BY <2>4, <2>5
<1>7. UNCHANGED <<msg, member, slow, clock>>
  BY <1>2 DEF db
<1> QED BY <1>5, <1>6, <1>7 DEF SInv, Bursts

(* A stored text was counted as a permitted send before.                   *)
LEMMA SendCreateBursts ==
    ASSUME SInv, TInv', NEW r \in Requests, SendCreate(r)
    PROVE  SInv'
<1>1. PICK m \in Fresh :
        /\ msg' = [msg EXCEPT ![m] = NewMessage(req[r].by, req[r].arg, req[r].file)]
        /\ req' = [req EXCEPT ![r].m = m,
                              ![r].pc = IF req[r].file THEN "attach" ELSE "stamp"]
        /\ UNCHANGED <<member, slow, clock>>
  BY DEF SendCreate
<1>2. m \in Messages /\ msg[m].status = "absent"
  BY <1>1 DEF Fresh
<1>3. /\ At(r, "send", "create")
      /\ req[r] \in Request /\ req[r].op \in Ops /\ req \in [Requests -> Request \cup {Idle}]
      /\ msg \in [Messages -> Message] /\ clock \in Nat
  BY BusyOp DEF SendCreate, At, SInv, TInv, IInv, TypeOK
<1>4. /\ msg'[m] = NewMessage(req[r].by, req[r].arg, req[r].file)
      /\ \A n \in Messages : n # m => msg'[n] = msg[n]
  BY <1>1, <1>2, <1>3
<1>5. /\ \A p \in Requests : p # r => req'[p] = req[p]
      /\ req'[r].op = "send" /\ req'[r].by = req[r].by /\ req'[r].m = m
      /\ req'[r].pc = IF req[r].file THEN "attach" ELSE "stamp"
  BY <1>1, <1>3 DEF At, Request
<1>6. OnlyOps'
  BY <1>3, <1>5 DEF SInv, OnlyOps, At
<1>7. ASSUME slow, NEW u \in Users, NEW t \in 0 .. MaxClock, member[u].role = "MEMBER"
      PROVE  BurstOK(msg', req', member[u].lastMessageAt, clock, u, t)
  <2> DEFINE last == member[u].lastMessageAt
  <2>1. BurstOK(msg, req, last, clock, u, t)
    BY <1>7 DEF SInv, Bursts
  <2>2. \A p \in Stamping(req, u) : p \in Stamping(req', u) /\ req'[p].m = req[p].m
    BY <1>3, <1>5 DEF Stamping, At
  <2>3. t \in Nat /\ last \in Int /\ clock \in Nat /\ SlowTicks \in Nat
    BY StampType, ChatRoomAssumption DEF SInv
  <2>4. Pending(req', u) \subseteq Pending(req, u) \ {r}
    BY <1>5 DEF Pending, Permitted
  <2>5. CASE req[r].by # u \/ req[r].file \/ clock < t \/ clock >= t + SlowTicks
    <3>1. Burst(msg', u, t) = Burst(msg, u, t)
      <4>1. m \notin Burst(msg', u, t) /\ m \notin Burst(msg, u, t)
        BY <1>2, <1>4, <2>3, <2>5 DEF Burst, SentIn, NewMessage
      <4>2. \A n \in Messages \ {m} : n \in Burst(msg', u, t) <=> n \in Burst(msg, u, t)
        BY <1>4 DEF Burst, SentIn
      <4>3. Burst(msg', u, t) \subseteq Messages /\ Burst(msg, u, t) \subseteq Messages
        BY DEF Burst, SentIn
      <4> QED BY <4>1, <4>2, <4>3
    <3>2. clock <= clock /\ Pending(req', u) \subseteq Pending(req, u)
      BY <2>3, <2>4
    <3> QED BY <2>1, <2>2, <2>3, <3>1, <3>2, BurstKept
  <2>6. CASE req[r].by = u /\ ~req[r].file /\ ~(clock < t) /\ ~(clock >= t + SlowTicks)
    <3>1. clock < t + SlowTicks /\ Burst(msg', u, t) = Burst(msg, u, t) \cup {m}
      <4>1. m \in Burst(msg', u, t)
        BY <1>2, <1>4, <2>3, <2>6 DEF Burst, SentIn, NewMessage
      <4>2. \A n \in Messages \ {m} : n \in Burst(msg', u, t) <=> n \in Burst(msg, u, t)
        BY <1>4 DEF Burst, SentIn
      <4>3. Burst(msg', u, t) \subseteq Messages /\ Burst(msg, u, t) \subseteq Messages
        BY DEF Burst, SentIn
      <4> QED BY <2>3, <2>6, <4>1, <4>2, <4>3
    <3>2. r \in Stamping(req', u) /\ req'[r].m = m
      BY <1>5, <2>6 DEF Stamping
    <3>3. r \in Pending(req, u)
      BY <1>3, <2>6 DEF Pending, Permitted, At
    <3> QED BY <2>1, <2>2, <2>3, <2>4, <3>1, <3>2, <3>3, BurstCreate
  <2> QED BY <2>5, <2>6
<1> QED BY <1>1, <1>6, <1>7 DEF SInv, Bursts

(* The stamp makes the interval one whose sends are all counted.           *)
LEMMA SendStampBursts ==
    ASSUME SInv, TInv', NEW r \in Requests, SendStamp(r)
    PROVE  SInv'
<1> DEFINE w == req[r].by
<1>1. /\ member' = [member EXCEPT ![w].lastMessageAt = clock]
      /\ req' = [req EXCEPT ![r].pc = "emit"]
      /\ UNCHANGED <<slow, msg, clock>>
  BY DEF SendStamp, Goto
<1>2. req[r] \in Request /\ req[r].op \in Ops
  BY BusyOp DEF SendStamp, At
<1>3. /\ member \in [Users -> Row] /\ req \in [Requests -> Request \cup {Idle}]
      /\ clock \in Nat /\ w \in Users
  BY <1>2 DEF SInv, TInv, IInv, TypeOK, Request
<1>4. /\ \A p \in Requests : p # r => req'[p] = req[p]
      /\ req'[r].op = req[r].op /\ req'[r].pc = "emit"
  BY <1>1, <1>2, <1>3 DEF Request
<1>5. OnlyOps'
  BY <1>2, <1>4 DEF SInv, OnlyOps
<1>6. \A u \in Users : /\ member'[u].role = member[u].role
                       /\ member'[u].lastMessageAt = IF u = w THEN clock ELSE member[u].lastMessageAt
  BY <1>1, <1>3 DEF Row
<1>7. \A u : Pending(req', u) \subseteq Pending(req, u)
  BY <1>4 DEF Pending, Permitted
<1>8. ASSUME slow, NEW u \in Users, NEW t \in 0 .. MaxClock, member[u].role = "MEMBER"
      PROVE  BurstOK(msg, req', member'[u].lastMessageAt, clock, u, t)
  <2>1. BurstOK(msg, req, member[u].lastMessageAt, clock, u, t)
    BY <1>8 DEF SInv, Bursts
  <2>2. t \in Nat /\ member[u].lastMessageAt \in Int
    BY StampType DEF SInv
  <2>3. CASE u = w
    <3>1. clock < t => Burst(msg, u, t) = {}
      BY <1>3, <2>2 DEF Burst, SentIn, SInv, TInv, IInv, TypeOK, Message, Past
    <3>2. Pending(req', u) \subseteq Pending(req, u)
      BY <1>7
    <3>3. BurstOK(msg, req', clock, clock, u, t)
      BY <1>3, <2>1, <2>2, <3>1, <3>2, BurstStamp
    <3> QED BY <1>6, <2>3, <3>3
  <2>4. CASE u # w
    <3>1. \A p \in Stamping(req, u) : p \in Stamping(req', u) /\ req'[p].m = req[p].m
      BY <1>4, <2>4 DEF Stamping
    <3>2. Pending(req', u) \subseteq Pending(req, u) /\ clock <= clock
      BY <1>3, <1>7
    <3>3. BurstOK(msg, req', member[u].lastMessageAt, clock, u, t)
      BY <1>3, <2>1, <2>2, <3>1, <3>2, BurstKept
    <3> QED BY <1>6, <2>4, <3>3
  <2> HIDE DEF w
  <2> QED BY <2>3, <2>4
<1> QED BY <1>1, <1>5, <1>6, <1>8 DEF SInv, Bursts
LEMMA ArriveBursts ==
    ASSUME SInv, TInv', NEW r \in Requests, Arrive(r)
    PROVE  SInv'
<1>1. PICK q : req' = [req EXCEPT ![r] = q] /\ q.pc \in {"perm", "own", "auth"} /\ q.op \in Ops
  BY ArriveRequest
<1>2. \A u : ~Permitted(q, u)
  BY <1>1 DEF Permitted
<1>3. SameTexts /\ SameStamps /\ UNCHANGED <<slow, clock>> /\ req[r].pc # "stamp"
  BY SameDb DEF Arrive, Idle
<1> QED BY <1>1, <1>2, <1>3, BurstRequest

LEMMA ReadsBursts ==
    ASSUME SInv, TInv', NEW r \in Requests, Reads(r)
    PROVE  SInv'
<1>1. CASE SendCheck(r)
  BY <1>1, SendCheckBursts
<1>2. CASE SendAttach(r)
  <2>1. Finish(r) /\ UNCHANGED <<db, clock>> /\ req[r].pc # "stamp"
    BY <1>2 DEF SendAttach, At
  <2> QED BY <2>1, SameDb, BurstFinish
<1>3. CASE ToggleFind(r)
  <2> DEFINE q == [req[r] EXCEPT !.pc = "write", !.arg =
                     IF req[r].arg = "on" \/ (req[r].arg = "flip" /\ ~enabled)
                     THEN "on" ELSE "off"]
  <2>1. req' = [req EXCEPT ![r] = q] /\ UNCHANGED <<db, clock>> /\ req[r].pc = "find"
    BY <1>3 DEF ToggleFind, At
  <2>2. req[r] \in Request /\ req[r].op \in Ops
    BY <2>1, BusyOp
  <2>3. (\A u : ~Permitted(q, u)) /\ q.op \in Ops
    BY <2>2 DEF Permitted, Request
  <2> HIDE DEF q
  <2> QED BY <2>1, <2>3, SameDb, BurstRequest
<1>4. CASE \/ SendReply(r) \/ OwnFind(r) \/ Authorize(r) \/ InviteFind(r)
           \/ RemoveFind(r) \/ MuteFind(r) \/ UnmuteFind(r)
           \/ AdminDeleteFind(r) \/ PinFind(r) \/ PinCount(r) \/ UnpinFind(r)
  <2>1. PICK ok, pc : /\ req[r].pc \notin {"idle", "stamp"} /\ Proceed(r, ok, pc)
                      /\ req[r].pc = "reply" \/ pc \notin {"reply", "create"}
    BY <1>4, FindProceeds
  <2> QED BY <2>1, BurstProceed
<1> QED BY <1>1, <1>2, <1>3, <1>4 DEF Reads

LEMMA WritesBursts ==
    ASSUME SteadyRoom, SInv, TInv', NEW r \in Requests, Writes(r)
    PROVE  SInv'
<1> USE DEF SInv, TInv, IInv, TypeOK
<1>1. CASE SendCreate(r)
  BY <1>1, SendCreateBursts
<1>2. CASE SendStamp(r)
  BY <1>2, SendStampBursts
<1>3. CASE EditWrite(r) \/ DeleteWrite(r)
  <2> DEFINE q == [req[r] EXCEPT !.pc = "emit"]
  <2>1. /\ req' = [req EXCEPT ![r] = q] /\ SameStamps /\ UNCHANGED <<slow, clock>>
        /\ req[r].pc = "write"
    BY <1>3 DEF EditWrite, DeleteWrite, SameStamps, Goto, At
  <2>2. /\ req[r] \in Request /\ req[r].op \in Ops /\ req[r].m \in Messages
        /\ msg[req[r].m].status # "absent"
    BY <1>3, <2>1, BusyOp DEF EditWrite, DeleteWrite, At, RequestsOK, StoredOK, HasMessage
  <2>3. SameTexts
    <3>1. SameSends
      BY <1>3, <2>2 DEF EditWrite, DeleteWrite, SameSends, Message
    <3>2. \A m \in Messages : msg'[m].file = msg[m].file
      BY <1>3, <2>2 DEF EditWrite, DeleteWrite, Message
    <3> QED BY <3>1, <3>2 DEF SameTexts
  <2>4. (\A u : ~Permitted(q, u)) /\ q.op \in Ops
    BY <2>2 DEF Permitted, Request
  <2> HIDE DEF q
  <2> QED BY <2>1, <2>3, <2>4, BurstRequest
<1>4. CASE ToggleWrite(r) \/ PinWrite(r)
  BY <1>4, BurstFinish DEF ToggleWrite, PinWrite, At, SameTexts, SameSends, SameStamps
<1>5. CASE SlowWrite(r) \/ InviteInsert(r) \/ InviteUnblock(r)
  <2>1. req[r].pc # "idle" /\ req[r].op \in {"slow", "invite"}
    BY <1>5 DEF SlowWrite, InviteInsert, InviteUnblock, At
  <2> QED BY <2>1, BusyOp DEF SteadyRoom
<1>6. CASE RemoveWrite(r) \/ MuteWrite(r) \/ UnmuteWrite(r)
  <2>1. /\ Finish(r) /\ req[r].pc # "stamp" /\ UNCHANGED <<msg, slow, clock>>
    BY <1>6 DEF RemoveWrite, MuteWrite, UnmuteWrite, SetRow, At
  <2>2. SameStamps
    <3>1. CASE RemoveWrite(r)
      BY <3>1 DEF RemoveWrite, SetRow, SameStamps, Row
    <3>2. CASE MuteWrite(r)
      BY <3>2 DEF MuteWrite, SetRow, SameStamps, Row
    <3>3. CASE UnmuteWrite(r)
      BY <3>3 DEF UnmuteWrite, SetRow, SameStamps, Row
    <3> QED BY <1>6, <3>1, <3>2, <3>3
  <2>3. SameTexts
    BY <2>1 DEF SameTexts, SameSends
  <2> QED BY <2>1, <2>2, <2>3, BurstFinish
<1>7. CASE UnpinWrite(r)
  <2>1. \A u : Pending(req', u) \subseteq Pending(req, u)
    BY <1>7 DEF UnpinWrite, Pending, Permitted, At, Idle
  <2>2. SameTexts /\ SameStamps /\ UNCHANGED <<slow, clock>>
    BY <1>7 DEF UnpinWrite, SameTexts, SameSends, SameStamps
  <2>3. \A p \in Requests : req[p].pc = "stamp" => req'[p] = req[p]
    BY <1>7 DEF UnpinWrite, At
  <2>4. OnlyOps'
    <3>1. ASSUME NEW p \in Requests, req'[p] # Idle PROVE req'[p].op \in Ops
      <4>1. \/ req'[p] = req[p]
            \/ At(p, "unpin", "write") /\ req'[p] = [req[p] EXCEPT !.m = None]
        BY <1>7, <3>1 DEF UnpinWrite
      <4>2. CASE req'[p] = req[p]
        BY <3>1, <4>2 DEF OnlyOps
      <4>3. CASE At(p, "unpin", "write") /\ req'[p] = [req[p] EXCEPT !.m = None]
        BY <4>3, BusyOp DEF At, Request
      <4> QED BY <4>1, <4>2, <4>3
    <3> QED BY <3>1 DEF OnlyOps
  <2> QED BY <2>1, <2>2, <2>3, <2>4, BurstQuiet
<1> QED BY <1>1, <1>2, <1>3, <1>4, <1>5, <1>6, <1>7 DEF Writes

LEMMA NextBursts == SteadyRoom /\ SInv /\ [Next]_vars => SInv'
<1> SUFFICES ASSUME SteadyRoom, SInv, [Next]_vars PROVE SInv'
  OBVIOUS
<1>1. TInv'
  BY NextTails DEF SInv
<1>2. CASE Tick
  <2>1. UNCHANGED <<db, req>> /\ clock' \in {clock, clock + 1}
    BY <1>2 DEF Tick
  <2>2. OnlyOps'
    BY <2>1 DEF SInv, OnlyOps
  <2> QED BY <1>1, <2>1, <2>2, SameDb, BurstQuiet
<1>3. ASSUME NEW r \in Requests, Arrive(r) PROVE SInv'
  BY <1>1, <1>3, ArriveBursts
<1>4. ASSUME NEW r \in Requests, Reads(r) PROVE SInv'
  BY <1>1, <1>4, ReadsBursts
<1>5. ASSUME NEW r \in Requests, Writes(r) PROVE SInv'
  BY <1>1, <1>5, WritesBursts
<1>6. ASSUME NEW r \in Requests, Broadcast(r) PROVE SInv'
  <2>1. Finish(r) /\ UNCHANGED <<db, clock>> /\ req[r].pc # "stamp"
    BY <1>6 DEF Broadcast
  <2> QED BY <1>1, <2>1, SameDb, BurstFinish
<1>7. ASSUME NEW r \in Requests, Fail(r) PROVE SInv'
  BY <1>7 DEF Fail, SteadyRoom
<1>8. CASE UNCHANGED vars
  <2>1. UNCHANGED <<db, req, clock>>
    BY <1>8 DEF vars, db
  <2>2. OnlyOps'
    BY <2>1 DEF SInv, OnlyOps
  <2> QED BY <1>1, <2>1, <2>2, SameDb, BurstQuiet
<1> QED BY <1>2, <1>3, <1>4, <1>5, <1>6, <1>7, <1>8 DEF Next, Handle

LEMMA InitBursts == Init => SInv
<1> SUFFICES ASSUME Init PROVE SInv
  OBVIOUS
<1>1. TInv /\ OnlyOps
  BY InitTails DEF Init, OnlyOps
<1>2. ASSUME NEW u \in Users, NEW t \in 0 .. MaxClock
      PROVE  BurstOK(msg, req, member[u].lastMessageAt, clock, u, t)
  <2>1. t \in Nat /\ Burst(msg, u, t) = {}
    BY ChatRoomAssumption DEF Init, Burst, SentIn, Never
  <2>2. member[u].lastMessageAt = -1
    BY DEF Init, NewRow, Never
  <2> QED BY <2>1, <2>2, PendingFinite, FS_EmptySet DEF BurstOK
<1> QED BY <1>1, <1>2 DEF SInv, Bursts

(* What slow mode, where it is on, lets through: however a MEMBER's sends  *)
(* interleave, no interval has more of its texts than there are handlers.  *)
(* For this the room must be a steady one.  A stamp that fails leaves a    *)
(* stored text no later check knows of; slow mode switched on says nothing *)
(* of the sends before; and an ADMIN, who slow mode does not hold back,    *)
(* may be removed and invited as a MEMBER in the middle of an interval.    *)
THEOREM SlowModeHolds ==
    ASSUME DbFails = FALSE, "slow" \notin Ops, "invite" \notin Ops
    PROVE  Spec => []SlowModeBurst
<1>1. SteadyRoom
  BY DEF SteadyRoom
<1>2. SInv /\ [Next]_vars => SInv'
  BY <1>1, NextBursts
<1>3. SInv => SlowModeBurst
  <2> SUFFICES ASSUME SInv, slow, NEW u \in Users, NEW t \in 0 .. MaxClock, member[u].role = "MEMBER"
               PROVE  Cardinality({m \in SentBy(u, t - 1) : ~msg[m].file /\ msg[m].sentAt < t + SlowTicks}) <= N
    BY DEF SlowModeBurst
  <2>1. Cardinality(Burst(msg, u, t)) <= N
    BY DEF SInv, Bursts, BurstOK
  <2>2. Burst(msg, u, t) = {m \in SentBy(u, t - 1) : ~msg[m].file /\ msg[m].sentAt < t + SlowTicks}
    BY DEF Burst, SentIn, SentBy
  <2> QED BY <2>1, <2>2
<1> QED BY <1>2, <1>3, InitBursts, PTL DEF Spec
=============================================================================
