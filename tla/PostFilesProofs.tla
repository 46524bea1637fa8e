--------------------------- MODULE PostFilesProofs ---------------------------
(***************************************************************************)
(* Theorems about PostFiles, for any posts, files and number of requests:    *)
(* its types, that rows and disk agree, and that the pins, the attachments   *)
(* and the limit go wrong only by the overlaps the properties name.          *)
(*                                                                         *)
(* Each property needs to know what the requests carry from one call to the  *)
(* next, since no transaction ties the calls together.                       *)
(***************************************************************************)
EXTENDS PostFiles, FiniteSetTheorems, TLAPS

Request == [op: Ops \cup {None}, user: Users \cup {None}, post: Posts \cup {None},
            files: SUBSET Files, pin: BOOLEAN \cup {None}, left: 0 .. MaxUploads,
            pc: Calls \cup {"thumbs", "idle", "done"}]

Busy(q) == q.pc \notin {"idle", "done"}

(* A request at work is some user's, and an upload has a file left to store. *)
Shaped(q) ==
    /\ Busy(q) => q.user \in Users /\ q.op \in Ops
    /\ q.pc = "store" \/ (q.pc = "count" /\ q.op = "upload") => q.left # 0
    /\ q.op = "pin" => q.pc = "write" /\ q.post \in Posts /\ q.pin \in BOOLEAN
    /\ q.pc = "write" => q.op \in {"pin", "edit", "update"} /\ q.post \in Posts
    /\ q.pc \in {"erase", "clear", "find", "attach", "free", "count", "detach"} => q.post \in Posts
    /\ q.pc = "count" => q.op \in {"upload", "associate"}
    /\ q.pc = "free" => q.op = "associate"
    /\ q.op = "associate" => q.pc \in {"free", "count", "attach"}
    /\ q.op = "upload" => q.pc \in {"count", "store", "row", "thumbs"}
    /\ q.pc = "row" => \E f \in Files : q.files = {f}

ShapeOK == \A r \in Requests : Shaped(req[r])

TInv == TypeOK /\ ShapeOK

(* A file that is about to get its row is on the disk, had no row before and is no other
   request's; a file whose thumbnails are made, or whose row is about to go or has gone,
   had one. *)
HeldOK ==
    /\ \A f \in Files : file[f].row => file[f].owner # None
    /\ \A r \in Requests : \A f \in req[r].files :
         /\ At(r, "row") => /\ f \in disk /\ ~file[f].row /\ file[f].owner = None
                            /\ \A x \in Requests \ {r} : At(x, "row") => f \notin req[x].files
         /\ req[r].pc \in {"thumbs", "unrow", "unlink"} => file[f].owner # None
         /\ At(r, "unlink") => ~file[f].row

DInv == TInv /\ HeldOK /\ DiskMatchesRows

(* A toggle carries the opposite of the pin, unless another write came in between. *)
TogglesOK ==
    /\ \A p \in Posts : /\ post[p].row => post[p].author # None
                        /\ post[p].author = None => ~expected[p]
    /\ \A r \in Toggling :
         LET p == req[r].post IN
           /\ post[p].author # None
           /\ post[p].row /\ p \notin raced => req[r].pin # post[p].pinned

PinInv == TInv /\ expected \in [Posts -> BOOLEAN] /\ TogglesOK /\ PinFollowsToggles

(* The files associateFilesWithPost has found free are rows, and free unless grabbed. *)
FreeOK ==
    \A r \in Requests : req[r].op = "associate" /\ req[r].pc \in {"count", "attach"} =>
      \A f \in req[r].files : /\ file[f].owner # None
                              /\ file[f].post = None \/ f \in grabbed

FInv == DInv /\ FreeOK /\ TakenFilesWereFree

(* How many files a request has counted and not added yet. *)
Pending(r) == CASE req[r].op # "upload" -> Cardinality(req[r].files)
                [] At(r, "row") -> req[r].left + 1
                [] OTHER -> req[r].left

(* One request at a time adds files to the post, and those it has counted fit. *)
Fits(p) ==
    /\ Cardinality(Counted(p)) <= MaxFilesPerPost
    /\ \A r, x \in Adding(p) : r = x
    /\ \A r \in Adding(p) : Cardinality(Counted(p)) + Pending(r) <= MaxFilesPerPost

RoomLeft == \A p \in Posts \ (unlimited \cup overlapped) : Fits(p)

LInv == DInv /\ RoomLeft
-----------------------------------------------------------------------------
(* The steps *)

(* A request arrives and writes nothing yet. *)
AsksFor(r, q) ==
    /\ At(r, "idle") /\ req' = [req EXCEPT ![r] = q]
    /\ Shaped(q) /\ q.user \in Users
    /\ q.pc \in {"write", "erase", "count", "store", "free", "detach", "unrow"}
    /\ q.pc = "count" => q.op = "upload"
    /\ q.pc = "store" => q.op = "file"
    /\ q.op = "associate" => q.pc = "free"
    /\ q.op = "pin" => post[q.post].row /\ q.pin # post[q.post].pinned
    /\ q.pc = "unrow" => \A f \in q.files : file[f].row
    /\ UNCHANGED <<post, file, disk, thumbs, crashes, history>>

Asking(r) == \E q \in Request : AsksFor(r, q)

(* A request arrives that writes at once: the post it creates, or the files it moves. *)
Creating(r) == \E u \in Users, p \in Posts, fs \in SUBSET {f \in Files : ~NewFile(f)} :
    At(r, "idle") /\ CreatePost(r, u, p, fs)
Moving(r) == \E u \in Users, p \in Posts, fs \in SUBSET {f \in Files : ~NewFile(f)} :
    At(r, "idle") /\ BulkMove(r, u, p, fs)

LEMMA Asked ==
    ASSUME NEW r \in Requests, NEW op \in Ops, NEW u \in Users,
           NEW p \in Posts \cup {None}, NEW fs \in SUBSET Files, NEW pin \in BOOLEAN \cup {None},
           NEW n \in 0 .. MaxUploads,
           NEW pc \in {"write", "erase", "count", "store", "free", "detach", "unrow"},
           Begin(r, op, u, p, fs, pin, n, pc),
           pc \in {"count", "store"} => n # 0,
           pc = "count" => op = "upload",
           pc = "store" => op = "file",
           op = "associate" <=> pc = "free",
           op = "upload" => pc = "count",
           pc \in {"write", "erase", "count", "free", "detach"} => p \in Posts,
           pc = "write" => op \in {"pin", "edit", "update"},
           op = "pin" => /\ pc = "write" /\ p \in Posts /\ post[p].row
                         /\ pin \in BOOLEAN /\ pin # post[p].pinned,
           pc = "unrow" => \A f \in fs : file[f].row,
           UNCHANGED <<post, file, disk, thumbs, crashes, history>>
    PROVE  Asking(r)
<1> DEFINE q == [op |-> op, user |-> u, post |-> p, files |-> fs, pin |-> pin, left |-> n, pc |-> pc]
<1>1. q \in Request
  BY DEF Request, Calls
<1>2. /\ q.op = op /\ q.user = u /\ q.post = p /\ q.files = fs /\ q.pin = pin
      /\ q.left = n /\ q.pc = pc /\ At(r, "idle") /\ req' = [req EXCEPT ![r] = q]
  BY DEF Begin, At
<1> HIDE DEF q
<1>3. Shaped(q)
  BY <1>1, <1>2 DEF Shaped, Busy
<1> QED BY <1>1, <1>2, <1>3 DEF Asking, AsksFor

LEMMA Arrived ==
    ASSUME TypeOK, NEW r \in Requests, Arrives(r)
    PROVE  Asking(r) \/ Creating(r) \/ Moving(r)
<1> USE PostFilesAssumption DEF Ops
<1>1. At(r, "idle")
  BY DEF Arrives
<1>2. ASSUME NEW u \in Users, NEW p \in Posts, TogglePin(r, u, p)
      PROVE  Asking(r)
  <2>1. PICK pin \in BOOLEAN : pin = ~post[p].pinned
    OBVIOUS
  <2>2. pin # post[p].pinned
    BY <2>1
  <2>3. /\ Begin(r, "pin", u, p, {}, pin, 0, "write")
        /\ post[p].row /\ UNCHANGED <<post, file, disk, thumbs, crashes, history>>
    BY <1>2, <2>1 DEF TogglePin, Write
  <2> QED BY <1>1, <2>2, <2>3, Asked
<1>3. ASSUME NEW u \in Users, NEW p \in Posts, DeletePost(r, u, p)
      PROVE  Asking(r)
  <2>1. /\ Begin(r, "delete", u, p, {}, None, 0, "erase")
        /\ UNCHANGED <<post, file, disk, thumbs, crashes, history>>
    BY <1>3 DEF DeletePost
  <2> QED BY <1>1, <2>1, Asked
<1>4. ASSUME NEW u \in Users, NEW p \in Posts, NEW n \in 1 .. MaxUploads,
             UploadPostFiles(r, u, p, n)
      PROVE  Asking(r)
  <2>1. /\ Begin(r, "upload", u, p, {}, None, n, "count")
        /\ UNCHANGED <<post, file, disk, thumbs, crashes, history>>
    BY <1>4 DEF UploadPostFiles
  <2> QED BY <1>1, <2>1, Asked
<1>5. ASSUME NEW u \in Users, NEW p \in Posts, NEW op \in {"edit", "update"},
             NEW fs \in SUBSET Files, NEW pin \in BOOLEAN \cup {None},
             UpdatePost(r, u, p, op, fs, pin)
      PROVE  Asking(r)
  <2>1. /\ Begin(r, op, u, p, fs, pin, 0, "write")
        /\ UNCHANGED <<post, file, disk, thumbs, crashes, history>>
    BY <1>5 DEF UpdatePost, Write
  <2> QED BY <1>1, <2>1, Asked
<1>6. ASSUME NEW u \in Users, NEW p \in Posts, NEW fs \in SUBSET Files, AssociateFiles(r, u, p, fs)
      PROVE  Asking(r)
  <2>1. /\ Begin(r, "associate", u, p, fs, None, 0, "free")
        /\ UNCHANGED <<post, file, disk, thumbs, crashes, history>>
    BY <1>6 DEF AssociateFiles
  <2> QED BY <1>1, <2>1, Asked
<1>7. ASSUME NEW u \in Users, NEW p \in Posts, NEW fs \in SUBSET Files, RemoveAttachments(r, u, p, fs)
      PROVE  Asking(r)
  <2>1. /\ Begin(r, "remove", u, p, fs, None, 0, "detach")
        /\ UNCHANGED <<post, file, disk, thumbs, crashes, history>>
    BY <1>7 DEF RemoveAttachments
  <2> QED BY <1>1, <2>1, Asked
<1>8. ASSUME NEW u \in Users, NEW p \in Posts \cup {None}, UploadFile(r, u, p)
      PROVE  Asking(r)
  <2>1. /\ Begin(r, "file", u, p, {}, None, 1, "store")
        /\ UNCHANGED <<post, file, disk, thumbs, crashes, history>>
    BY <1>8 DEF UploadFile
  <2> QED BY <1>1, <2>1, Asked
<1>9. ASSUME NEW u \in Users, NEW f \in Files, DeleteFile(r, u, f)
      PROVE  Asking(r)
  <2>1. /\ Begin(r, "deleteFile", u, None, {f}, None, 0, "unrow")
        /\ file[f].row /\ UNCHANGED <<post, file, disk, thumbs, crashes, history>>
    BY <1>9 DEF DeleteFile
  <2> QED BY <1>1, <2>1, Asked
<1>10. ASSUME NEW u \in Users, NEW fs \in SUBSET Files, BulkDelete(r, u, fs)
       PROVE  Asking(r)
  <2> DEFINE own == {f \in fs : file[f].row /\ file[f].owner = u}
  <2>1. /\ Begin(r, "bulkDelete", u, None, own, None, 0, "unrow")
        /\ UNCHANGED <<post, file, disk, thumbs, crashes, history>>
    BY <1>10 DEF BulkDelete
  <2>2. own \in SUBSET Files /\ \A f \in own : file[f].row
    OBVIOUS
  <2> HIDE DEF own
  <2> QED BY <1>1, <2>1, <2>2, Asked
<1> QED BY <1>1, <1>2, <1>3, <1>4, <1>5, <1>6, <1>7, <1>8, <1>9, <1>10
        DEF Arrives, Creating, Moving

(* What a step makes of the request that takes it. *)
Becomes(r, q) == /\ q \in Request /\ Shaped(q) /\ req'[r] = q
                 /\ \A x \in Requests \ {r} : req'[x] = req[x]
                 /\ req' \in [Requests -> Request] /\ ShapeOK'

LEMMA Becoming ==
    ASSUME TInv, NEW r \in Requests, NEW q \in Request, Shaped(q), req' = [req EXCEPT ![r] = q]
    PROVE  Becomes(r, q)
<1>1. req \in [Requests -> Request]
  BY DEF TInv, TypeOK, Request
<1>2. req'[r] = q /\ req' \in [Requests -> Request]
  BY <1>1
<1>3. \A x \in Requests \ {r} : req'[x] = req[x]
  BY <1>1
<1>4. ShapeOK'
  BY <1>2, <1>3 DEF TInv, ShapeOK
<1> QED BY <1>2, <1>3, <1>4 DEF Becomes

LEMMA Finishing ==
    ASSUME TInv, NEW r \in Requests, Done(r)
    PROVE  Becomes(r, Answered)
<1>1. Answered \in Request /\ Shaped(Answered)
  BY PostFilesAssumption DEF Answered, Request, Shaped, Busy, Ops
<1>2. req' = [req EXCEPT ![r] = Answered]
  BY DEF Done
<1> QED BY <1>1, <1>2, Becoming

(* The same request, with its next call. *)
Follows(q, s, pc) == /\ q.op = s.op /\ q.user = s.user /\ q.post = s.post /\ q.files = s.files
                     /\ q.pin = s.pin /\ q.left = s.left /\ q.pc = pc

LEMMA Going ==
    ASSUME TInv, NEW r \in Requests, NEW pc \in Calls \cup {"thumbs"}, Go(r, pc), Busy(req[r]),
           pc \in {"clear", "find", "attach", "count"} => req[r].post \in Posts,
           pc = "store" => req[r].left # 0,
           pc \notin {"write", "free"}, req[r].op # "pin",
           pc = "count" => req[r].op = "associate",
           req[r].op = "associate" => pc \in {"count", "attach"},
           req[r].op = "upload" => pc \in {"store", "thumbs"},
           pc \notin {"erase", "detach", "row"}
    PROVE  \E q : Becomes(r, q) /\ Follows(q, req[r], pc)
<1> DEFINE q == [req[r] EXCEPT !.pc = pc]
<1>1. req \in [Requests -> Request]
  BY DEF TInv, TypeOK, Request
<1>2. q \in Request /\ Follows(q, req[r], pc)
  BY <1>1 DEF Request, Follows
<1>3. req' = [req EXCEPT ![r] = q]
  BY <1>1 DEF Go
<1> HIDE DEF q
<1>4. Shaped(req[r])
  BY DEF TInv, ShapeOK
<1>5. Shaped(q)
  BY <1>2, <1>4 DEF Shaped, Busy, Follows
<1>6. Becomes(r, q)
  BY <1>2, <1>3, <1>5, Becoming
<1> QED BY <1>2, <1>6

LEMMA Uploading ==
    ASSUME TInv, NEW r \in Requests, NEW fs \in SUBSET Files, NEW n \in 0 .. MaxUploads,
           NEW pc \in {"store", "row"}, GoUpload(r, fs, n, pc), req[r].pc \in {"store", "row", "thumbs"},
           pc = "store" => n # 0, pc = "row" => \E f \in Files : fs = {f}
    PROVE  \E q : /\ Becomes(r, q) /\ q.op = req[r].op /\ q.user = req[r].user
                  /\ q.post = req[r].post /\ q.files = fs /\ q.pin = req[r].pin
                  /\ q.left = n /\ q.pc = pc
<1> DEFINE q == [op |-> req[r].op, user |-> req[r].user, post |-> req[r].post, files |-> fs,
                 pin |-> req[r].pin, left |-> n, pc |-> pc]
<1>1. req \in [Requests -> Request] /\ Shaped(req[r])
  BY DEF TInv, TypeOK, Request, ShapeOK
<1>2. q \in Request
  BY <1>1 DEF Request, Calls
<1>3. req' = [req EXCEPT ![r] = q]
  BY <1>1 DEF GoUpload
<1>4. Shaped(q)
  BY <1>1 DEF Shaped, Busy
<1> HIDE DEF q
<1>5. Becomes(r, q)
  BY <1>2, <1>3, <1>4, Becoming
<1> QED BY <1>5 DEF q

(* After a file the request ends, or goes on to the next one. *)
Onward(r, q) ==
    /\ Becomes(r, q) /\ q.files = {}
    /\ \/ q = Answered
       \/ /\ q.op = req[r].op /\ q.user = req[r].user /\ q.post = req[r].post
          /\ q.left = req[r].left /\ q.left # 0 /\ q.pc = "store"

LEMMA GoingOn ==
    ASSUME TInv, NEW r \in Requests, NextFile(r), req[r].pc \in {"row", "thumbs"}
    PROVE  \E q : Onward(r, q)
<1>1. req[r] \in Request
  BY DEF TInv, TypeOK, Request
<1>2. CASE Done(r)
  <2>1. Becomes(r, Answered) /\ Answered.files = {}
    BY <1>2, Finishing DEF Answered
  <2> QED BY <2>1 DEF Onward
<1>3. CASE req[r].left # 0 /\ GoUpload(r, {}, req[r].left, "store")
  <2>1. req[r].left \in 0 .. MaxUploads /\ {} \in SUBSET Files
    BY <1>1 DEF Request
  <2>2. PICK q : /\ Becomes(r, q) /\ q.op = req[r].op /\ q.user = req[r].user
                 /\ q.post = req[r].post /\ q.files = {} /\ q.pin = req[r].pin
                 /\ q.left = req[r].left /\ q.pc = "store"
    BY <1>3, <2>1, Uploading
  <2> QED BY <1>3, <2>2 DEF Onward
<1> QED BY <1>2, <1>3 DEF NextFile

ReqOK == req \in [Requests -> Request] /\ ShapeOK

LEMMA Arriving ==
    ASSUME TInv, NEW r \in Requests, NEW q \in Request, AsksFor(r, q)
    PROVE  Becomes(r, q)
BY Becoming DEF AsksFor

LEMMA Announcing ==
    ASSUME TInv, NEW r \in Requests, NEW u \in Users, NEW p \in Posts,
           NEW fs \in SUBSET Files, CreatePost(r, u, p, fs)
    PROVE  Becomes(r, Answered) \/ \E q : Becomes(r, q) /\ q.op = "create" /\ q.pc = "find"
<1>1. CASE fs = {}
  <2>1. Done(r)
    BY <1>1 DEF CreatePost
  <2> QED BY <2>1, Finishing
<1>2. CASE fs # {}
  <2> DEFINE q == [op |-> "create", user |-> u, post |-> p, files |-> fs, pin |-> None,
                   left |-> 0, pc |-> "find"]
  <2>1. req' = [req EXCEPT ![r] = q]
    BY <1>2 DEF CreatePost, Begin
  <2>2. q \in Request /\ Shaped(q)
    BY PostFilesAssumption DEF Request, Shaped, Busy, Calls, Ops
  <2> HIDE DEF q
  <2>3. Becomes(r, q)
    BY <2>1, <2>2, Becoming
  <2> QED BY <2>3 DEF q
<1> QED BY <1>1, <1>2

(* A request that proceeds ends, or goes on for the same user and post with a later call. *)
Advances(r, q) ==
    /\ Becomes(r, q)
    /\ \/ q = Answered
       \/ /\ q.op = req[r].op /\ q.user = req[r].user /\ q.post = req[r].post
          /\ q.pc \in {"clear", "find", "attach", "count", "store", "row", "thumbs", "unlink"}
          /\ req[r].op # "pin" /\ Busy(req[r])

LEMMA Advancing ==
    ASSUME TInv, NEW r \in Requests, Proceeds(r)
    PROVE  \E q : Advances(r, q)
<1>1. Shaped(req[r]) /\ req[r] \in Request
  BY DEF TInv, ShapeOK, TypeOK, Request
<1>2. ASSUME Done(r)
      PROVE  Advances(r, Answered)
  BY <1>2, Finishing DEF Advances, Answered
<1>3. ASSUME NEW pc \in {"clear", "find", "attach", "count", "store", "thumbs", "unlink"}, Go(r, pc),
             Busy(req[r]),
             pc \in {"clear", "find", "attach", "count"} => req[r].post \in Posts,
             pc = "store" => req[r].left # 0, req[r].op # "pin",
             pc = "count" => req[r].op = "associate",
             req[r].op = "associate" => pc \in {"count", "attach"},
             req[r].op = "upload" => pc \in {"store", "thumbs"}
      PROVE  \E q : Advances(r, q)
  <2>1. PICK q : Becomes(r, q) /\ Follows(q, req[r], pc)
    BY <1>3, Going DEF Calls
  <2>2. Advances(r, q)
    BY <1>3, <2>1 DEF Advances, Follows, At
  <2> QED BY <2>2
<1>4. CASE WritePost(r)
  BY <1>1, <1>2, <1>3, <1>4 DEF WritePost, Shaped, At, Busy
<1>5. CASE ErasePost(r) \/ AttachFiles(r) \/ DetachFiles(r) \/ Unlink(r) \/ CallFails(r)
  BY <1>2, <1>5 DEF ErasePost, AttachFiles, DetachFiles, Unlink, CallFails
<1>6. CASE ClearAttachments(r) \/ FindFiles(r)
  BY <1>1, <1>2, <1>3, <1>6 DEF ClearAttachments, FindFiles, Shaped, At, Busy
<1>7. CASE FindFree(r)
  BY <1>1, <1>2, <1>3, <1>7 DEF FindFree, Shaped, At, Busy
<1>8. CASE CountFiles(r)
  BY <1>1, <1>2, <1>3, <1>8 DEF CountFiles, Shaped, At, Busy
<1>9. CASE DeleteRows(r)
  BY <1>1, <1>2, <1>3, <1>9 DEF DeleteRows, Shaped, At, Busy
<1>10. CASE StoreFile(r)
  <2>1. req[r].left - 1 \in 0 .. MaxUploads
    BY <1>1, <1>10, PostFilesAssumption DEF StoreFile, Request, Shaped, At
  <2> QED BY <1>1, <1>2, <1>10, <2>1, Uploading DEF StoreFile, At, Advances, Shaped, Busy
<1>11. ASSUME NextFile(r), req[r].pc \in {"row", "thumbs"}
       PROVE  \E q : Advances(r, q)
  <2>1. PICK q : Onward(r, q)
    BY <1>11, GoingOn
  <2>2. Advances(r, q)
    BY <1>1, <1>11, <2>1 DEF Onward, Advances, Shaped, Busy
  <2> QED BY <2>2
<1>12. CASE CreateRow(r)
  BY <1>1, <1>2, <1>3, <1>11, <1>12 DEF CreateRow, At, Shaped, Busy
<1>13. CASE MakeThumbnails(r)
  BY <1>11, <1>13 DEF MakeThumbnails, At
<1> QED BY <1>4, <1>5, <1>6, <1>7, <1>8, <1>9, <1>10, <1>12, <1>13 DEF Proceeds

(* Restart answers what is under way. *)
LEMMA Restarting ==
    ASSUME TInv, Restart
    PROVE  /\ ReqOK' /\ \A r \in Requests : req'[r] = req[r] \/ req'[r] = Answered
           /\ \A r \in Requests : Busy(req[r]) => req'[r] = Answered
<1>1. \A r \in Requests : Shaped(req[r]) /\ req[r] \in Request
  BY DEF TInv, ShapeOK, TypeOK, Request
<1>2. Answered \in Request /\ Shaped(Answered)
  BY PostFilesAssumption DEF Answered, Request, Shaped, Busy, Ops
<1>3. req' = [r \in Requests |-> IF req[r].pc = "idle" THEN req[r] ELSE Answered]
  BY DEF Restart, At
<1>4. \A r \in Requests : req'[r] = IF req[r].pc = "idle" THEN req[r] ELSE Answered
  BY <1>3
<1>5. \A r \in Requests : req'[r] \in Request /\ Shaped(req'[r])
  BY <1>1, <1>2, <1>4
<1>6. req' \in [Requests -> Request]
  BY <1>3, <1>5
<1> QED BY <1>4, <1>5, <1>6 DEF ReqOK, ShapeOK, Busy

DataOK ==
    /\ post \in [Posts -> [row: BOOLEAN, author: Users \cup {None}, pinned: BOOLEAN]]
    /\ file \in [Files -> [row: BOOLEAN, owner: Users \cup {None}, post: Posts \cup {None}]]
    /\ disk \subseteq Files /\ thumbs \subseteq Files /\ crashes \in 0 .. MaxCrashes
    /\ \A f \in Files : file[f].post # None => file[f].row /\ post[file[f].post].row

LEMMA TypeSplit == TInv <=> DataOK /\ ReqOK
BY DEF TInv, TypeOK, DataOK, ReqOK, Request

LEMMA DataProceeds ==
    ASSUME TInv, NEW r \in Requests, Proceeds(r)
    PROVE  DataOK'
<1>1. DataOK /\ Shaped(req[r]) /\ req[r] \in Request
  BY TypeSplit DEF ReqOK, ShapeOK
<1> USE DEF At
<1>2. CASE FindFiles(r) \/ FindFree(r) \/ CountFiles(r) \/ CallFails(r)
  BY <1>1, <1>2 DEF FindFiles, FindFree, CountFiles, CallFails, DataOK
<1>3. CASE WritePost(r)
  <2>1. CASE UNCHANGED post
    BY <1>1, <1>3, <2>1 DEF WritePost, DataOK
  <2>2. CASE post' = [post EXCEPT ![req[r].post].pinned = IF req[r].pin = None THEN @ ELSE req[r].pin]
    <3>1. req[r].post \in Posts
      BY <1>1, <1>3 DEF WritePost, Shaped
    <3>2. CASE req[r].pin = None
      BY <1>1, <1>3, <2>2, <3>1, <3>2 DEF WritePost, DataOK
    <3>3. CASE req[r].pin \in BOOLEAN
      <4>1. PICK b \in BOOLEAN : b = req[r].pin
        BY <3>3
      <4>2. req[r].pin # None /\ b # None
        BY <3>3, <4>1, PostFilesAssumption
      <4>3. post' = [post EXCEPT ![req[r].post].pinned = b]
        BY <2>2, <4>1, <4>2, Zenon
      <4>4. UNCHANGED <<file, disk, thumbs, crashes>>
        BY <1>3 DEF WritePost
      <4> QED BY <1>1, <3>1, <4>3, <4>4 DEF DataOK
    <3> QED BY <1>1, <3>2, <3>3 DEF Request
  <2> QED BY <1>3, <2>1, <2>2 DEF WritePost
<1>4. CASE ErasePost(r)
  <2>1. req[r].post \in Posts
    BY <1>1, <1>4 DEF ErasePost, Shaped
  <2>2. post' \in [Posts -> [row: BOOLEAN, author: Users \cup {None}, pinned: BOOLEAN]]
    <3>1. PICK p \in Posts : p = req[r].post
      BY <2>1
    <3>2. PICK b \in BOOLEAN : post' = [post EXCEPT ![p].row = b]
      BY <1>4, <3>1 DEF ErasePost
    <3> QED BY <1>1, <3>2 DEF DataOK
  <2>3. \A f \in Files : /\ file'[f].row = file[f].row /\ file'[f].owner = file[f].owner
                         /\ file'[f].post = IF file[f].post = req[r].post THEN None ELSE file[f].post
    BY <1>1, <1>4 DEF ErasePost, Attached, DataOK
  <2>4. file' \in [Files -> [row: BOOLEAN, owner: Users \cup {None}, post: Posts \cup {None}]]
    BY <1>1, <1>4 DEF ErasePost, Attached, DataOK
  <2>5. \A p \in Posts \ {req[r].post} : post'[p] = post[p]
    BY <1>1, <1>4 DEF ErasePost, DataOK
  <2>6. \A f \in Files : file'[f].post # None => file'[f].row /\ post'[file'[f].post].row
    BY <1>1, <2>3, <2>5 DEF DataOK
  <2> QED BY <1>1, <1>4, <2>2, <2>4, <2>6 DEF ErasePost, DataOK
<1>5. CASE ClearAttachments(r)
  BY <1>1, <1>5 DEF ClearAttachments, Attached, DataOK
<1>6. CASE AttachFiles(r)
  BY <1>1, <1>6 DEF AttachFiles, DataOK, Shaped
<1>7. CASE DetachFiles(r)
  BY <1>1, <1>7 DEF DetachFiles, DataOK
<1>8. CASE StoreFile(r)
  BY <1>1, <1>8 DEF StoreFile, DataOK
<1>9. CASE CreateRow(r)
  <2>1. CASE UNCHANGED file
    BY <1>1, <1>9, <2>1 DEF CreateRow, DataOK
  <2>2. CASE /\ req[r].post # None => post[req[r].post].row
             /\ file' = [f \in Files |-> IF f \in req[r].files
                          THEN [row |-> TRUE, owner |-> req[r].user, post |-> req[r].post] ELSE file[f]]
    <3>1. req[r].user \in Users /\ req[r].post \in Posts \cup {None}
      BY <1>1, <1>9 DEF CreateRow, Shaped, Busy, Request
    <3>2. UNCHANGED <<post, disk, thumbs, crashes>>
      BY <1>9 DEF CreateRow
    <3> QED BY <1>1, <2>2, <3>1, <3>2 DEF DataOK
  <2> QED BY <1>9, <2>1, <2>2 DEF CreateRow
<1>10. CASE DeleteRows(r)
  <2>1. CASE UNCHANGED file
    BY <1>1, <1>10, <2>1 DEF DeleteRows, DataOK
  <2>2. CASE file' = [f \in Files |-> IF f \in req[r].files
                        THEN [row |-> FALSE, owner |-> file[f].owner, post |-> None] ELSE file[f]]
    BY <1>1, <1>10, <2>2 DEF DeleteRows, DataOK
  <2> QED BY <1>10, <2>1, <2>2 DEF DeleteRows
<1>11. CASE Unlink(r)
  BY <1>1, <1>11 DEF Unlink, DataOK
<1>12. CASE MakeThumbnails(r)
  <2>1. req[r].files \subseteq Files
    BY <1>1 DEF Request
  <2> QED BY <1>1, <1>12, <2>1 DEF MakeThumbnails, DataOK
<1> QED BY <1>2, <1>3, <1>4, <1>5, <1>6, <1>7, <1>8, <1>9, <1>10, <1>11, <1>12 DEF Proceeds

LEMMA TypeStep == TInv /\ [Next]_vars => TInv'
<1> SUFFICES ASSUME TInv, [Next]_vars
             PROVE  DataOK' /\ ReqOK'
  BY TypeSplit, PTL
<1>1. DataOK /\ ReqOK
  BY TypeSplit
<1>2. CASE Restart
  BY <1>1, <1>2, Restarting, PostFilesAssumption DEF Restart, DataOK
<1>3. CASE UNCHANGED vars
  BY <1>1, <1>3 DEF vars, DataOK, ReqOK, ShapeOK
<1>4. ASSUME NEW r \in Requests, Proceeds(r)
      PROVE  DataOK' /\ ReqOK'
  <2>1. PICK q : Becomes(r, q)
    BY <1>4, Advancing DEF Advances
  <2> QED BY <1>4, <2>1, DataProceeds DEF Becomes, ReqOK
<1>5. ASSUME NEW r \in Requests, Arrives(r)
      PROVE  DataOK' /\ ReqOK'
  <2>1. CASE Asking(r)
    <3>1. ReqOK'
      BY <2>1, Arriving DEF Asking, Becomes, ReqOK
    <3> QED BY <1>1, <2>1, <3>1 DEF Asking, AsksFor, DataOK
  <2>2. CASE Creating(r)
    <3>1. PICK u \in Users, p \in Posts, fs \in SUBSET Files : CreatePost(r, u, p, fs)
      BY <2>2 DEF Creating
    <3>2. ReqOK'
      BY <3>1, Announcing DEF Becomes, ReqOK
    <3> QED BY <1>1, <3>1, <3>2 DEF CreatePost, DataOK
  <2>3. CASE Moving(r)
    <3>1. PICK u \in Users, p \in Posts, fs \in SUBSET Files : BulkMove(r, u, p, fs)
      BY <2>3 DEF Moving
    <3>2. ReqOK'
      BY <3>1, Finishing DEF BulkMove, Becomes, ReqOK
    <3> QED BY <1>1, <3>1, <3>2 DEF BulkMove, DataOK
  <2> QED BY <1>5, <2>1, <2>2, <2>3, Arrived DEF TInv
<1> QED BY <1>2, <1>3, <1>4, <1>5 DEF Next

LEMMA TypeInit == Init => TInv
<1> SUFFICES ASSUME Init PROVE DataOK /\ ReqOK
  BY TypeSplit
<1>1. DataOK
  BY PostFilesAssumption DEF Init, DataOK, NoPost, NoFile
<1>2. NoRequest \in Request /\ Shaped(NoRequest)
  BY PostFilesAssumption DEF NoRequest, Request, Shaped, Busy, Ops
<1>3. ReqOK
  BY <1>2 DEF Init, ReqOK, ShapeOK
<1> QED BY <1>1, <1>3

(* PostFiles keeps its types, and a file is attached only while it and its post are rows. *)
THEOREM TypeCorrect == Spec => []TypeOK
<1>1. TInv => TypeOK
  BY DEF TInv
<1> QED BY <1>1, TypeInit, TypeStep, PTL DEF Spec
-----------------------------------------------------------------------------
(* Rows and disk *)

(* A step that neither writes a file nor touches a row but for its post. *)
Quiet(r) ==
    /\ \E q : /\ Becomes(r, q) /\ q.pc \notin {"row", "thumbs", "unlink"}
              /\ q.pc = "unrow" => \A f \in q.files : file[f].row
    /\ req[r].pc \notin {"row", "unlink"}
    /\ \A f \in Files : file'[f].row = file[f].row /\ file'[f].owner = file[f].owner
    /\ UNCHANGED <<disk, thumbs, dropped>>

Rejected(r) == At(r, "store") /\ Done(r) /\ UNCHANGED <<post, file, disk, thumbs, crashes, history>>

LEMMA QuietArrival ==
    ASSUME TInv, NEW r \in Requests, Arrives(r)
    PROVE  Quiet(r)
<1> USE DEF At
<1>1. DataOK
  BY TypeSplit
<1>2. CASE Asking(r)
  <2>1. PICK q \in Request : AsksFor(r, q)
    BY <1>2 DEF Asking
  <2>2. Becomes(r, q)
    BY <2>1, Arriving
  <2> QED BY <2>1, <2>2 DEF AsksFor, Quiet, history
<1>3. CASE Creating(r)
  <2>1. PICK u \in Users, p \in Posts, fs \in SUBSET Files : CreatePost(r, u, p, fs) /\ At(r, "idle")
    BY <1>3 DEF Creating
  <2>2. Becomes(r, Answered) \/ \E q : Becomes(r, q) /\ q.op = "create" /\ q.pc = "find"
    BY <2>1, Announcing
  <2>3. Answered.pc = "done"
    BY DEF Answered
  <2> QED BY <2>1, <2>2, <2>3 DEF CreatePost, Quiet, history
<1>4. CASE Moving(r)
  <2>1. PICK u \in Users, p \in Posts, fs \in SUBSET Files : BulkMove(r, u, p, fs) /\ At(r, "idle")
    BY <1>4 DEF Moving
  <2>2. Becomes(r, Answered)
    BY <2>1, Finishing DEF BulkMove
  <2>3. Answered.pc = "done"
    BY DEF Answered
  <2>4. \A f \in Files : file'[f].row = file[f].row /\ file'[f].owner = file[f].owner
    BY <1>1, <2>1 DEF BulkMove, DataOK
  <2> QED BY <2>1, <2>2, <2>3, <2>4 DEF BulkMove, Quiet
<1> QED BY <1>2, <1>3, <1>4, Arrived DEF TInv

LEMMA QuietProceeding ==
    ASSUME TInv, NEW r \in Requests,
           \/ WritePost(r) \/ ErasePost(r) \/ ClearAttachments(r) \/ FindFiles(r) \/ AttachFiles(r)
           \/ FindFree(r) \/ CountFiles(r) \/ DetachFiles(r) \/ Rejected(r)
    PROVE  Quiet(r)
<1> USE DEF At
<1>1. DataOK /\ Shaped(req[r])
  BY TypeSplit DEF ReqOK, ShapeOK
<1> DEFINE Kept == /\ \A f \in Files : file'[f].row = file[f].row /\ file'[f].owner = file[f].owner
                   /\ UNCHANGED <<disk, thumbs, dropped>> /\ req[r].pc \notin {"row", "unlink"}
<1>2. ASSUME Kept, Done(r)
      PROVE  Quiet(r)
  <2>1. Becomes(r, Answered) /\ Answered.pc = "done"
    BY <1>2, Finishing DEF Answered
  <2> QED BY <1>2, <2>1 DEF Quiet
<1>3. ASSUME Kept, NEW pc \in {"clear", "find", "attach", "count", "store"}, Go(r, pc),
             req[r].post \in Posts, pc = "store" => req[r].left # 0, req[r].op # "pin",
             pc = "count" => req[r].op = "associate",
             req[r].op = "associate" => pc \in {"count", "attach"}, Busy(req[r]),
             req[r].op = "upload" => pc = "store"
      PROVE  Quiet(r)
  <2>1. \E q : Becomes(r, q) /\ q.pc = pc
    BY <1>3, Going DEF Calls, Follows
  <2> QED BY <1>3, <2>1 DEF Quiet
<1>4. CASE WritePost(r)
  <2>1. Kept
    BY <1>4 DEF WritePost
  <2> HIDE DEF Kept
  <2> QED BY <1>1, <1>2, <1>3, <1>4, <2>1 DEF WritePost, Shaped, Busy
<1>5. CASE ErasePost(r)
  <2>1. Kept
    BY <1>1, <1>5 DEF ErasePost, history, Attached, DataOK
  <2> HIDE DEF Kept
  <2> QED BY <1>2, <1>5, <2>1 DEF ErasePost
<1>6. CASE ClearAttachments(r)
  <2>1. Kept
    BY <1>1, <1>6 DEF ClearAttachments, history, Attached, DataOK
  <2> HIDE DEF Kept
  <2> QED BY <1>1, <1>2, <1>3, <1>6, <2>1 DEF ClearAttachments, Shaped, Busy
<1>7. CASE FindFiles(r)
  <2>1. Kept
    BY <1>7 DEF FindFiles, history
  <2> HIDE DEF Kept
  <2> QED BY <1>1, <1>2, <1>3, <1>7, <2>1 DEF FindFiles, Shaped, Busy
<1>8. CASE AttachFiles(r)
  <2>1. Kept
    BY <1>1, <1>8 DEF AttachFiles, DataOK
  <2> HIDE DEF Kept
  <2> QED BY <1>2, <1>8, <2>1 DEF AttachFiles
<1>9. CASE FindFree(r)
  <2>1. Kept
    BY <1>9 DEF FindFree, history
  <2> HIDE DEF Kept
  <2> QED BY <1>1, <1>2, <1>3, <1>9, <2>1 DEF FindFree, Shaped, Busy
<1>10. CASE CountFiles(r)
  <2>1. Kept
    BY <1>10 DEF CountFiles
  <2> HIDE DEF Kept
  <2> QED BY <1>1, <1>2, <1>3, <1>10, <2>1 DEF CountFiles, Shaped, Busy
<1>11. CASE DetachFiles(r)
  <2>1. Kept
    BY <1>1, <1>11 DEF DetachFiles, history, DataOK
  <2> HIDE DEF Kept
  <2> QED BY <1>2, <1>11, <2>1 DEF DetachFiles
<1>12. CASE Rejected(r)
  <2>1. Kept
    BY <1>12 DEF Rejected, history
  <2> HIDE DEF Kept
  <2> QED BY <1>2, <1>12, <2>1 DEF Rejected
<1> QED BY <1>4, <1>5, <1>6, <1>7, <1>8, <1>9, <1>10, <1>11, <1>12

DiskOK == HeldOK /\ DiskMatchesRows

LEMMA QuietKeepsDisk ==
    ASSUME DInv, NEW r \in Requests, Quiet(r)
    PROVE  DiskOK'
<1>1. PICK q : /\ Becomes(r, q) /\ q.pc \notin {"row", "thumbs", "unlink"}
               /\ q.pc = "unrow" => \A f \in q.files : file[f].row
  BY DEF Quiet
<1>2. /\ \A f \in Files : file'[f].row = file[f].row /\ file'[f].owner = file[f].owner
      /\ disk' = disk /\ thumbs' = thumbs /\ dropped' = dropped /\ req[r].pc \notin {"row", "unlink"}
  BY DEF Quiet
<1>3. q.files \subseteq Files /\ req'[r] = q /\ \A x \in Requests \ {r} : req'[x] = req[x]
  BY <1>1 DEF Becomes, Request
<1>4. DataOK /\ HeldOK /\ DiskMatchesRows /\ \A x \in Requests : req[x].files \subseteq Files
  BY TypeSplit DEF DInv, ReqOK, Request
<1>5. \A f \in Files : file'[f].row => file'[f].owner # None
  BY <1>2, <1>4 DEF HeldOK
<1>6. ASSUME NEW x \in Requests, NEW f \in req'[x].files
      PROVE  /\ At(x, "row")' => /\ f \in disk' /\ ~file'[f].row /\ file'[f].owner = None
                                 /\ \A y \in Requests \ {x} : At(y, "row")' => f \notin req'[y].files
             /\ req'[x].pc \in {"thumbs", "unrow", "unlink"} => file'[f].owner # None
             /\ At(x, "unlink")' => ~file'[f].row
  <2>1. CASE x = r
    BY <1>1, <1>2, <1>3, <1>4, <1>5, <2>1 DEF HeldOK, At
  <2>2. CASE x # r
    BY <1>1, <1>2, <1>3, <1>4, <2>2 DEF HeldOK, At
  <2> QED BY <2>1, <2>2
<1>7. HeldOK'
  BY <1>5, <1>6 DEF HeldOK
<1>8. DiskMatchesRows'
  <2>1. RowsHaveFiles'
    BY <1>2, <1>4 DEF DiskMatchesRows, RowsHaveFiles
  <2>2. OrphansWereDropped'
    BY <1>2, <1>3, <1>4 DEF DiskMatchesRows, OrphansWereDropped, DataOK
  <2>3. ThumbnailsHadRows'
    BY <1>2, <1>4 DEF DiskMatchesRows, ThumbnailsHadRows, DataOK
  <2> QED BY <2>1, <2>2, <2>3 DEF DiskMatchesRows
<1> QED BY <1>7, <1>8 DEF DiskOK

LEMMA StoreKeepsDisk ==
    ASSUME DInv, NEW r \in Requests, StoreFile(r), ~Rejected(r)
    PROVE  DiskOK'
<1> USE DEF At
<1>1. DataOK /\ HeldOK /\ DiskMatchesRows
  BY TypeSplit DEF DInv
<1>2. \A x \in Requests : req[x].files \subseteq Files /\ Shaped(req[x]) /\ req[x].left \in 0 .. MaxUploads
  BY TypeSplit DEF DInv, ReqOK, ShapeOK, Request
<1>3. PICK f \in Files : /\ NewFile(f) /\ disk' = disk \cup {f} /\ UNCHANGED <<file, thumbs, dropped>>
                         /\ GoUpload(r, {f}, req[r].left - 1, "row")
  BY DEF StoreFile, Rejected, history
<1>4. req[r].left - 1 \in 0 .. MaxUploads
  BY <1>2, PostFilesAssumption DEF StoreFile, Shaped
<1>5. PICK q : Becomes(r, q) /\ q.files = {f} /\ q.pc = "row"
  BY <1>3, <1>4, Uploading DEF DInv, StoreFile
<1>6. req'[r] = q /\ \A x \in Requests \ {r} : req'[x] = req[x]
  BY <1>5 DEF Becomes
<1>7. ~file[f].row /\ file[f].owner = None /\ \A x \in Requests : f \notin req[x].files
  BY <1>3 DEF NewFile
<1>8. HeldOK'
  <2>1. ASSUME NEW x \in Requests, NEW g \in req'[x].files
        PROVE  /\ At(x, "row")' => /\ g \in disk' /\ ~file'[g].row /\ file'[g].owner = None
                                   /\ \A y \in Requests \ {x} : At(y, "row")' => g \notin req'[y].files
               /\ req'[x].pc \in {"thumbs", "unrow", "unlink"} => file'[g].owner # None
               /\ At(x, "unlink")' => ~file'[g].row
    <3>1. CASE x = r
      BY <1>3, <1>5, <1>6, <1>7, <3>1
    <3>2. CASE x # r
      BY <1>1, <1>3, <1>5, <1>6, <1>7, <3>2 DEF HeldOK
    <3> QED BY <3>1, <3>2
  <2> QED BY <1>1, <1>3, <2>1 DEF HeldOK
<1>9. RowsHaveFiles'
  BY <1>1, <1>3 DEF DiskMatchesRows, RowsHaveFiles
<1>10. OrphansWereDropped'
  BY <1>1, <1>3, <1>5, <1>6 DEF DiskMatchesRows, OrphansWereDropped, StoreFile
<1>11. ThumbnailsHadRows'
  BY <1>1, <1>3 DEF DiskMatchesRows, ThumbnailsHadRows
<1> QED BY <1>8, <1>9, <1>10, <1>11 DEF DiskOK, DiskMatchesRows

LEMMA CreateKeepsDisk ==
    ASSUME DInv, NEW r \in Requests, CreateRow(r)
    PROVE  DiskOK'
<1> USE DEF At
<1>1. DataOK /\ HeldOK /\ DiskMatchesRows
  BY TypeSplit DEF DInv
<1>2. \A x \in Requests : req[x] \in Request /\ Shaped(req[x])
  BY TypeSplit DEF DInv, ReqOK, ShapeOK
<1>3. /\ disk' = disk /\ thumbs' = thumbs
      /\ req[r].pc = "row" /\ req[r].user \in Users /\ req[r].user # None
  BY <1>2, PostFilesAssumption DEF CreateRow, Shaped, Busy
<1>4. CASE /\ file' = [f \in Files |-> IF f \in req[r].files
                        THEN [row |-> TRUE, owner |-> req[r].user, post |-> req[r].post] ELSE file[f]]
           /\ Go(r, "thumbs") \/ NextFile(r)
           /\ UNCHANGED dropped
  <2>1. \E q : /\ Becomes(r, q) /\ q.pc \notin {"row", "unrow", "unlink"}
               /\ q.files = {} \/ q.files = req[r].files
    <3>1. CASE NextFile(r)
      BY <1>3, <3>1, GoingOn DEF DInv, Onward, Answered
    <3>2. CASE Go(r, "thumbs")
      <4>1. req[r].op # "pin" /\ req[r].op # "associate" /\ Busy(req[r])
        BY <1>2, <1>3 DEF Shaped, Busy
      <4>2. PICK q : Becomes(r, q) /\ Follows(q, req[r], "thumbs")
        BY <3>2, <4>1, Going DEF DInv
      <4> QED BY <4>2 DEF Follows
    <3> QED BY <1>4, <3>1, <3>2
  <2>2. /\ req'[r].files = {} \/ req'[r].files = req[r].files
        /\ \A x \in Requests \ {r} : req'[x] = req[x]
        /\ req'[r].pc \notin {"row", "unrow", "unlink"}
    BY <2>1 DEF Becomes
  <2>3. \A f \in req[r].files : /\ f \in Files /\ f \in disk /\ ~file[f].row /\ file[f].owner = None
                                /\ \A x \in Requests \ {r} : At(x, "row") => f \notin req[x].files
    BY <1>1, <1>2, <1>3 DEF HeldOK, Request
  <2>5. \A f \in req[r].files : file'[f].row /\ file'[f].owner # None
    BY <1>3, <1>4, <2>3
  <2>4. \A f \in Files \ req[r].files : file'[f] = file[f]
    BY <1>4
  <2>6. HeldOK'
    <3>1. ASSUME NEW f \in Files, file'[f].row
          PROVE  file'[f].owner # None
      <4>1. CASE f \in req[r].files
        BY <2>5, <4>1
      <4>2. CASE f \notin req[r].files
        BY <1>1, <2>4, <3>1, <4>2 DEF HeldOK
      <4> QED BY <4>1, <4>2
    <3>2. ASSUME NEW x \in Requests \ {r}, NEW g \in req[x].files
          PROVE  /\ At(x, "row") => /\ g \in disk' /\ ~file'[g].row /\ file'[g].owner = None
                                    /\ \A y \in Requests \ {x} : At(y, "row")' => g \notin req'[y].files
                 /\ req[x].pc \in {"thumbs", "unrow", "unlink"} => file'[g].owner # None
                 /\ At(x, "unlink") => ~file'[g].row
      <4>1. g \in Files
        BY <1>2 DEF Request
      <4>2. CASE g \in req[r].files
        BY <1>1, <2>3, <3>2, <4>2 DEF HeldOK
      <4>3. CASE g \notin req[r].files
        BY <1>1, <1>3, <2>2, <2>4, <3>2, <4>1, <4>3 DEF HeldOK
      <4> QED BY <4>2, <4>3
    <3> QED BY <2>2, <2>5, <3>1, <3>2 DEF HeldOK
  <2>7. RowsHaveFiles'
    BY <1>1, <1>3, <2>3, <2>4, <2>5 DEF DiskMatchesRows, RowsHaveFiles
  <2>8. OrphansWereDropped'
    BY <1>1, <1>3, <1>4, <2>2, <2>3, <2>4, <2>5 DEF DiskMatchesRows, OrphansWereDropped, DataOK
  <2>9. ThumbnailsHadRows'
    BY <1>1, <1>3, <2>4, <2>5 DEF DiskMatchesRows, ThumbnailsHadRows, DataOK
  <2> QED BY <2>6, <2>7, <2>8, <2>9 DEF DiskOK, DiskMatchesRows
<1>5. CASE Done(r) /\ file' = file /\ dropped' = dropped \cup req[r].files
  <2>1. Becomes(r, Answered) /\ Answered.pc = "done" /\ Answered.files = {}
    BY <1>5, Finishing DEF DInv, Answered
  <2>2. req'[r] = Answered /\ \A x \in Requests \ {r} : req'[x] = req[x]
    BY <2>1 DEF Becomes
  <2>3. HeldOK'
    BY <1>1, <1>3, <1>5, <2>1, <2>2 DEF HeldOK
  <2>4. RowsHaveFiles'
    BY <1>1, <1>3, <1>5 DEF DiskMatchesRows, RowsHaveFiles
  <2>5. OrphansWereDropped'
    BY <1>1, <1>3, <1>5, <2>2 DEF DiskMatchesRows, OrphansWereDropped
  <2>6. ThumbnailsHadRows'
    BY <1>1, <1>3, <1>5 DEF DiskMatchesRows, ThumbnailsHadRows
  <2> QED BY <2>3, <2>4, <2>5, <2>6 DEF DiskOK, DiskMatchesRows
<1> QED BY <1>4, <1>5 DEF CreateRow

(* An upload makes thumbnails of the file that got its row from it. *)
LEMMA ThumbnailsKeepDisk ==
    ASSUME DInv, NEW r \in Requests, MakeThumbnails(r)
    PROVE  DiskOK'
<1> USE DEF At
<1>1. DataOK /\ HeldOK /\ DiskMatchesRows
  BY TypeSplit DEF DInv
<1>2. PICK made \in SUBSET (req[r].files \cap disk) : thumbs' = thumbs \cup made
  BY DEF MakeThumbnails
<1>3. disk' = disk /\ dropped' = dropped /\ file' = file /\ req[r].pc = "thumbs" /\ NextFile(r)
  BY DEF MakeThumbnails, history
<1>4. PICK q : Becomes(r, q) /\ q.files = {}
  BY <1>3, GoingOn DEF DInv, Onward
<1>5. req'[r].files = {} /\ \A x \in Requests \ {r} : req'[x] = req[x]
  BY <1>4 DEF Becomes
<1>6. HeldOK'
  BY <1>1, <1>3, <1>5 DEF HeldOK
<1>7. RowsHaveFiles'
  BY <1>1, <1>3 DEF DiskMatchesRows, RowsHaveFiles
<1>8. OrphansWereDropped'
  BY <1>1, <1>3, <1>5 DEF DiskMatchesRows, OrphansWereDropped
<1>9. \A f \in made : file[f].owner # None
  BY <1>1, <1>3 DEF HeldOK
<1>10. ThumbnailsHadRows'
  BY <1>1, <1>2, <1>3, <1>9 DEF DiskMatchesRows, ThumbnailsHadRows
<1> QED BY <1>6, <1>7, <1>8, <1>10 DEF DiskOK, DiskMatchesRows

LEMMA DeleteKeepsDisk ==
    ASSUME DInv, NEW r \in Requests, DeleteRows(r)
    PROVE  DiskOK'
<1> USE DEF At
<1>1. DataOK /\ HeldOK /\ DiskMatchesRows
  BY TypeSplit DEF DInv
<1>2. \A x \in Requests : req[x] \in Request /\ Shaped(req[x])
  BY TypeSplit DEF DInv, ReqOK, ShapeOK
<1>3. disk' = disk /\ thumbs' = thumbs /\ dropped' = dropped /\ req[r].pc = "unrow"
  BY DEF DeleteRows, history
<1>4. CASE Done(r) /\ UNCHANGED file
  <2>1. Becomes(r, Answered) /\ Answered.pc = "done"
    BY <1>4, Finishing DEF DInv, Answered
  <2> QED BY <1>3, <1>4, <2>1, QuietKeepsDisk DEF Quiet
<1>5. CASE /\ file' = [f \in Files |-> IF f \in req[r].files
                        THEN [row |-> FALSE, owner |-> file[f].owner, post |-> None] ELSE file[f]]
           /\ Go(r, "unlink")
  <2>1. req[r].op \notin {"pin", "associate", "upload"}
    BY <1>2, <1>3 DEF Shaped
  <2>2. PICK q : Becomes(r, q) /\ Follows(q, req[r], "unlink")
    BY <1>3, <1>5, <2>1, Going DEF DInv, Calls, Busy
  <2>3. /\ req'[r].files = req[r].files /\ req'[r].pc = "unlink"
        /\ \A x \in Requests \ {r} : req'[x] = req[x]
    BY <2>2 DEF Becomes, Follows
  <2>4. \A f \in Files \ req[r].files : file'[f] = file[f]
    BY <1>5
  <2>5. \A f \in req[r].files : f \in Files /\ file[f].owner # None /\ ~file'[f].row
                               /\ file'[f].owner = file[f].owner
    BY <1>1, <1>2, <1>3, <1>5 DEF HeldOK, Request
  <2>6. HeldOK'
    <3>1. \A f \in Files : file'[f].row => file'[f].owner # None
      BY <1>1, <2>4, <2>5 DEF HeldOK
    <3>2. ASSUME NEW x \in Requests \ {r}, NEW g \in req[x].files
          PROVE  /\ At(x, "row") => /\ g \in disk' /\ ~file'[g].row /\ file'[g].owner = None
                                    /\ \A y \in Requests \ {x} : At(y, "row")' => g \notin req'[y].files
                 /\ req[x].pc \in {"thumbs", "unrow", "unlink"} => file'[g].owner # None
                 /\ At(x, "unlink") => ~file'[g].row
      <4>1. g \in Files
        BY <1>2 DEF Request
      <4>2. CASE g \in req[r].files
        BY <1>1, <2>5, <3>2, <4>2 DEF HeldOK
      <4>3. CASE g \notin req[r].files
        BY <1>1, <1>3, <2>3, <2>4, <3>2, <4>1, <4>3 DEF HeldOK
      <4> QED BY <4>2, <4>3
    <3> QED BY <2>3, <2>5, <3>1, <3>2 DEF HeldOK
  <2>7. RowsHaveFiles'
    BY <1>1, <1>3, <2>4, <2>5 DEF DiskMatchesRows, RowsHaveFiles
  <2>8. ASSUME NEW f \in disk, ~file'[f].row, f \notin dropped
        PROVE  \E x \in Requests : f \in req'[x].files /\ req'[x].pc \in {"row", "unlink"}
    <3>1. CASE f \in req[r].files
      BY <2>3, <3>1
    <3>2. CASE f \notin req[r].files
      <4>1. ~file[f].row
        BY <1>1, <2>4, <2>8, <3>2 DEF DataOK
      <4>2. PICK x \in Requests : f \in req[x].files /\ req[x].pc \in {"row", "unlink"}
        BY <1>1, <2>8, <4>1 DEF DiskMatchesRows, OrphansWereDropped
      <4> QED BY <2>3, <3>2, <4>2
    <3> QED BY <3>1, <3>2
  <2>9. OrphansWereDropped'
    BY <1>3, <2>8 DEF OrphansWereDropped
  <2>10. ThumbnailsHadRows'
    BY <1>1, <1>3, <2>4, <2>5 DEF DiskMatchesRows, ThumbnailsHadRows, DataOK
  <2> QED BY <2>6, <2>7, <2>9, <2>10 DEF DiskOK, DiskMatchesRows
<1> QED BY <1>4, <1>5 DEF DeleteRows

LEMMA UnlinkKeepsDisk ==
    ASSUME DInv, NEW r \in Requests, Unlink(r)
    PROVE  DiskOK'
<1> USE DEF At
<1>1. DataOK /\ HeldOK /\ DiskMatchesRows /\ \A x \in Requests : req[x].files \subseteq Files
  BY TypeSplit DEF DInv, ReqOK, Request
<1>2. /\ disk' = disk \ req[r].files /\ thumbs' = thumbs /\ dropped' = dropped /\ file' = file
      /\ req[r].pc = "unlink"
  BY DEF Unlink, history
<1>3. Becomes(r, Answered) /\ Answered.pc = "done" /\ Answered.files = {}
  BY Finishing DEF DInv, Unlink, Answered
<1>4. req'[r] = Answered /\ \A x \in Requests \ {r} : req'[x] = req[x]
  BY <1>3 DEF Becomes
<1>5. \A f \in req[r].files : ~file[f].row /\ file[f].owner # None
  BY <1>1, <1>2 DEF HeldOK
<1>6. HeldOK'
  <2>1. ASSUME NEW x \in Requests \ {r}, NEW g \in req[x].files, At(x, "row")
        PROVE  g \in disk'
    BY <1>1, <1>2, <1>5, <2>1 DEF HeldOK
  <2> QED BY <1>1, <1>2, <1>3, <1>4, <2>1 DEF HeldOK
<1>7. RowsHaveFiles'
  BY <1>1, <1>2, <1>5 DEF DiskMatchesRows, RowsHaveFiles
<1>8. OrphansWereDropped'
  BY <1>1, <1>2, <1>4 DEF DiskMatchesRows, OrphansWereDropped
<1>9. ThumbnailsHadRows'
  BY <1>1, <1>2 DEF DiskMatchesRows, ThumbnailsHadRows
<1> QED BY <1>6, <1>7, <1>8, <1>9 DEF DiskOK, DiskMatchesRows

LEMMA FailureKeepsDisk ==
    ASSUME DInv, NEW r \in Requests, CallFails(r)
    PROVE  DiskOK'
<1> USE DEF At
<1>1. DataOK /\ HeldOK /\ DiskMatchesRows
  BY TypeSplit DEF DInv
<1>2. disk' = disk /\ thumbs' = thumbs /\ dropped' = dropped \cup LeftBy(req[r]) /\ file' = file
  BY DEF CallFails
<1>3. Becomes(r, Answered) /\ Answered.pc = "done" /\ Answered.files = {}
  BY Finishing DEF DInv, CallFails, Answered
<1>4. req'[r] = Answered /\ \A x \in Requests \ {r} : req'[x] = req[x]
  BY <1>3 DEF Becomes
<1>5. HeldOK'
  BY <1>1, <1>2, <1>3, <1>4 DEF HeldOK
<1>6. RowsHaveFiles'
  BY <1>1, <1>2 DEF DiskMatchesRows, RowsHaveFiles
<1>7. OrphansWereDropped'
  BY <1>1, <1>2, <1>4 DEF DiskMatchesRows, OrphansWereDropped, LeftBy
<1>8. ThumbnailsHadRows'
  BY <1>1, <1>2 DEF DiskMatchesRows, ThumbnailsHadRows
<1> QED BY <1>5, <1>6, <1>7, <1>8 DEF DiskOK, DiskMatchesRows

LEMMA RestartKeepsDisk ==
    ASSUME DInv, Restart
    PROVE  DiskOK'
<1> USE DEF At
<1>1. DataOK /\ HeldOK /\ DiskMatchesRows
  BY TypeSplit DEF DInv
<1>2. /\ disk' = disk /\ thumbs' = thumbs /\ file' = file
      /\ dropped' = dropped \cup UNION {LeftBy(req[r]) : r \in Requests}
  BY DEF Restart
<1>3. /\ \A r \in Requests : req'[r] = req[r] \/ req'[r] = Answered
      /\ \A r \in Requests : Busy(req[r]) => req'[r] = Answered
      /\ Answered.pc = "done" /\ Answered.files = {}
  BY Restarting DEF DInv, Answered
<1>4. \A r \in Requests : req'[r].pc \notin {"row", "thumbs", "unrow", "unlink"}
  BY <1>3 DEF Busy
<1>5. HeldOK'
  BY <1>1, <1>2, <1>4 DEF HeldOK
<1>6. RowsHaveFiles'
  BY <1>1, <1>2 DEF DiskMatchesRows, RowsHaveFiles
<1>7. ASSUME NEW f \in disk, ~file[f].row, f \notin dropped
      PROVE  f \in dropped'
  <2>1. PICK r \in Requests : f \in req[r].files /\ req[r].pc \in {"row", "unlink"}
    BY <1>1, <1>7 DEF DiskMatchesRows, OrphansWereDropped
  <2>2. f \in LeftBy(req[r])
    BY <1>7, <2>1 DEF LeftBy
  <2> QED BY <1>2, <2>2
<1>8. OrphansWereDropped'
  BY <1>2, <1>7 DEF OrphansWereDropped
<1>9. ThumbnailsHadRows'
  BY <1>1, <1>2 DEF DiskMatchesRows, ThumbnailsHadRows
<1> QED BY <1>5, <1>6, <1>8, <1>9 DEF DiskOK, DiskMatchesRows

LEMMA DiskStep == DInv /\ [Next]_vars => DInv'
<1> SUFFICES ASSUME DInv, [Next]_vars
             PROVE  DiskOK'
  BY TypeStep, PTL DEF DInv, DiskOK
<1>1. CASE UNCHANGED vars
  BY <1>1 DEF DInv, vars, history, DiskOK, HeldOK, DiskMatchesRows, RowsHaveFiles, OrphansWereDropped,
     ThumbnailsHadRows, At
<1>2. ASSUME NEW r \in Requests, Arrives(r)
      PROVE  DiskOK'
  BY <1>2, QuietArrival, QuietKeepsDisk DEF DInv
<1>3. ASSUME NEW r \in Requests, Proceeds(r)
      PROVE  DiskOK'
  BY <1>3, QuietProceeding, QuietKeepsDisk, StoreKeepsDisk, CreateKeepsDisk, ThumbnailsKeepDisk,
     DeleteKeepsDisk, UnlinkKeepsDisk, FailureKeepsDisk DEF DInv, Proceeds
<1> QED BY <1>1, <1>2, <1>3, RestartKeepsDisk DEF Next

LEMMA DiskInit == Init => DInv
<1> SUFFICES ASSUME Init PROVE DInv
  OBVIOUS
<1>1. \A f \in StoredFiles : Owner[f] # None
  BY PostFilesAssumption
<1>2. \A f \in Files : /\ file[f].row <=> f \in StoredFiles
                       /\ f \in StoredFiles => file[f].owner = Owner[f]
  BY DEF Init, NoFile
<1>3. disk = StoredFiles /\ thumbs = {} /\ \A r \in Requests : req[r].files = {}
  BY DEF Init, NoRequest
<1>4. HeldOK
  BY <1>1, <1>2, <1>3 DEF HeldOK
<1>5. DiskMatchesRows
  BY <1>2, <1>3, PostFilesAssumption DEF DiskMatchesRows, RowsHaveFiles, OrphansWereDropped,
     ThumbnailsHadRows
<1> QED BY <1>4, <1>5, TypeInit DEF DInv

(* The disk and the rows of files agree: a row always has its file, and an uploaded file
   without a row is some request's at work or was dropped by a call that failed or a
   restart.  Of the thumbnails only this: they are those of files that got a row.  No
   request deletes them, so they are there after the file and its row are gone. *)
THEOREM DiskAndRowsAgree == Spec => []DiskMatchesRows
<1>1. DInv => DiskMatchesRows
  BY DEF DInv
<1> QED BY <1>1, DiskInit, DiskStep, PTL DEF Spec
-----------------------------------------------------------------------------
(* Pins *)

PinOK == expected \in [Posts -> BOOLEAN] /\ TogglesOK /\ PinFollowsToggles

(* A step that writes no pin and begins no toggle. *)
LEMMA NoToggle ==
    ASSUME PinInv, UNCHANGED <<post, expected, raced>>,
           \A x \in Requests : At(x, "write")' => req'[x] = req[x]
    PROVE  PinOK'
<1>1. \A x \in Toggling' : x \in Toggling /\ req'[x] = req[x]
  BY DEF Toggling, At
<1>2. TogglesOK'
  BY <1>1 DEF PinInv, TogglesOK
<1> QED BY <1>2 DEF PinInv, PinOK, PinFollowsToggles

LEMMA ToggleBegins ==
    ASSUME PinInv, NEW r \in Requests, Asking(r)
    PROVE  PinOK'
<1>1. PICK q \in Request : AsksFor(r, q)
  BY DEF Asking
<1>2. req'[r] = q /\ Shaped(q) /\ \A x \in Requests \ {r} : req'[x] = req[x]
  BY <1>1, Arriving DEF Becomes, PinInv
<1>3. UNCHANGED <<post, expected, raced>>
  BY <1>1 DEF AsksFor, history
<1>4. ASSUME NEW x \in Toggling'
      PROVE  LET p == req'[x].post IN
               /\ post'[p].author # None
               /\ post'[p].row /\ p \notin raced' => req'[x].pin # post'[p].pinned
  <2>1. CASE x = r
    <3>1. q.op = "pin" /\ q.post \in Posts
      BY <1>2, <2>1 DEF Toggling, Shaped
    <3>2. post[q.post].row /\ q.pin # post[q.post].pinned
      BY <1>1, <3>1 DEF AsksFor
    <3> QED BY <1>2, <1>3, <2>1, <3>1, <3>2 DEF PinInv, TogglesOK
  <2>2. CASE x # r
    BY <1>2, <1>3, <2>2 DEF PinInv, TogglesOK, Toggling, At
  <2> QED BY <2>1, <2>2
<1>5. TogglesOK'
  BY <1>3, <1>4 DEF PinInv, TogglesOK
<1> QED BY <1>3, <1>5 DEF PinInv, PinOK, PinFollowsToggles

LEMMA PostBegins ==
    ASSUME PinInv, NEW r \in Requests, Creating(r)
    PROVE  PinOK'
<1>1. PICK u \in Users, p \in Posts, fs \in SUBSET Files : CreatePost(r, u, p, fs)
  BY DEF Creating
<1>2. Becomes(r, Answered) \/ \E q : Becomes(r, q) /\ q.op = "create" /\ q.pc = "find"
  BY <1>1, Announcing DEF PinInv
<1>3. \A x \in Toggling' : x \in Toggling /\ req'[x] = req[x]
  BY <1>2 DEF Toggling, At, Becomes, Answered
<1>4. UNCHANGED <<expected, raced>>
  BY <1>1 DEF CreatePost, history
<1>5. post[p].author = None /\ DataOK
  BY <1>1, TypeSplit DEF CreatePost, NewPost, PinInv
<1>6. /\ post'[p].row /\ post'[p].author = u /\ u # None /\ post'[p].pinned = FALSE
      /\ \A o \in Posts \ {p} : post'[o] = post[o]
  BY <1>1, <1>5, PostFilesAssumption DEF CreatePost, DataOK
<1>7. \A x \in Toggling : req[x].post # p /\ req[x].post \in Posts
  BY <1>5, TypeSplit DEF PinInv, TogglesOK, ReqOK, ShapeOK, Shaped, Toggling
<1>8. TogglesOK'
  <2>1. \A o \in Posts : /\ post'[o].row => post'[o].author # None
                         /\ post'[o].author = None => ~expected'[o]
    BY <1>4, <1>6 DEF PinInv, TogglesOK
  <2>2. ASSUME NEW x \in Toggling'
        PROVE  LET o == req'[x].post IN
                 /\ post'[o].author # None
                 /\ post'[o].row /\ o \notin raced' => req'[x].pin # post'[o].pinned
    BY <1>3, <1>4, <1>6, <1>7 DEF PinInv, TogglesOK
  <2> QED BY <2>1, <2>2 DEF TogglesOK
<1>9. expected[p] = FALSE
  BY <1>5 DEF PinInv, TogglesOK
<1>10. PinFollowsToggles'
  BY <1>4, <1>6, <1>9 DEF PinInv, PinFollowsToggles
<1> QED BY <1>4, <1>8, <1>10 DEF PinInv, PinOK

LEMMA PostEnds ==
    ASSUME PinInv, NEW r \in Requests, ErasePost(r)
    PROVE  PinOK'
<1> USE DEF At
<1>1. DataOK /\ Shaped(req[r])
  BY TypeSplit DEF PinInv, ReqOK, ShapeOK
<1>2. Becomes(r, Answered)
  BY Finishing DEF PinInv, ErasePost
<1>3. \A x \in Toggling' : x \in Toggling /\ req'[x] = req[x]
  BY <1>2 DEF Toggling, Becomes, Answered
<1>4. UNCHANGED <<expected, raced>>
  BY DEF ErasePost, history
<1>5. PICK p \in Posts : p = req[r].post
  BY <1>1 DEF ErasePost, Shaped
<1>6. /\ ~post'[p].row /\ post'[p].author = post[p].author
      /\ \A o \in Posts \ {p} : post'[o] = post[o]
  BY <1>1, <1>5 DEF ErasePost, DataOK
<1>7. \A x \in Toggling : req[x].post \in Posts
  BY TypeSplit DEF PinInv, ReqOK, ShapeOK, Shaped, Toggling
<1>8. TogglesOK'
  <2>1. \A o \in Posts : /\ post'[o].row => post'[o].author # None
                         /\ post'[o].author = None => ~expected'[o]
    BY <1>4, <1>6 DEF PinInv, TogglesOK
  <2>2. ASSUME NEW x \in Toggling'
        PROVE  LET o == req'[x].post IN
                 /\ post'[o].author # None
                 /\ post'[o].row /\ o \notin raced' => req'[x].pin # post'[o].pinned
    BY <1>3, <1>4, <1>6, <1>7 DEF PinInv, TogglesOK
  <2> QED BY <2>1, <2>2 DEF TogglesOK
<1>9. PinFollowsToggles'
  BY <1>4, <1>6 DEF PinInv, PinFollowsToggles
<1> QED BY <1>4, <1>8, <1>9 DEF PinInv, PinOK

LEMMA PinWritten ==
    ASSUME PinInv, NEW r \in Requests, WritePost(r)
    PROVE  PinOK'
<1> USE DEF At
<1>1. /\ DataOK /\ Shaped(req[r]) /\ req[r] \in Request /\ req[r].pc = "write"
      /\ expected \in [Posts -> BOOLEAN]
  BY TypeSplit DEF PinInv, ReqOK, ShapeOK, WritePost
<1>2. PICK q : Becomes(r, q) /\ q.pc # "write"
  BY Advancing DEF PinInv, Advances, Answered, Proceeds
<1>3. /\ \A x \in Toggling' : x \in Toggling \ {r} /\ req'[x] = req[x]
      /\ \A x \in Requests : x \in Toggling => req[x].post \in Posts
  BY <1>2, TypeSplit DEF Toggling, Becomes, PinInv, ReqOK, ShapeOK, Shaped
<1>4. CASE UNCHANGED <<post, expected, raced>>
  BY <1>2, <1>4, NoToggle DEF Becomes
<1>5. CASE /\ post[req[r].post].row
           /\ post' = [post EXCEPT ![req[r].post].pinned =
                         IF req[r].pin = None THEN @ ELSE req[r].pin]
           /\ expected' = [expected EXCEPT ![req[r].post] =
                             CASE req[r].op = "pin" -> ~@
                               [] req[r].op # "pin" /\ req[r].pin # None -> req[r].pin
                               [] OTHER -> @]
           /\ raced' = IF req[r].pin # None /\ \E x \in Toggling \ {r} : req[x].post = req[r].post
                       THEN raced \cup {req[r].post} ELSE raced
  <2>1. PICK p \in Posts : p = req[r].post
    BY <1>1 DEF Shaped
  <2>2. /\ \A o \in Posts : post'[o].row = post[o].row /\ post'[o].author = post[o].author
        /\ \A o \in Posts \ {p} : post'[o] = post[o] /\ expected'[o] = expected[o]
    BY <1>1, <1>5, <2>1 DEF DataOK
  <2>3. post[p].author # None /\ raced \subseteq raced'
    BY <1>5, <2>1 DEF PinInv, TogglesOK
  (* Other toggles of p that are under way see their post raced. *)
  <2>4. ASSUME req[r].pin # None, p \notin raced'
        PROVE  \A x \in Toggling' : req[x].post # p
    BY <1>3, <1>5, <2>1, <2>4
  <2>5. CASE req[r].pin = None
    <3>1. req[r].op # "pin"
      BY <1>1, <2>5, PostFilesAssumption DEF Shaped
    <3>2. expected' = [expected EXCEPT ![p] = expected[p]]
      BY <1>5, <2>1, <2>5, <3>1
    <3>3. expected' = expected
      BY <1>1, <3>2
    <3>4. post' = [post EXCEPT ![p].pinned = post[p].pinned]
      BY <1>5, <2>1, <2>5
    <3>5. post' = post
      BY <1>1, <3>4 DEF DataOK
    <3>6. raced' = raced
      BY <1>5, <2>5
    <3> QED BY <1>4, <3>3, <3>5, <3>6
  <2>6. CASE req[r].pin # None
    <3>1. PICK b \in BOOLEAN : b = req[r].pin
      BY <1>1, <2>6 DEF Request
    <3>2. post' = [post EXCEPT ![p].pinned = b]
      BY <1>5, <2>1, <2>6, <3>1, Zenon
    <3>3. post'[p].pinned = b
      BY <1>1, <3>2 DEF DataOK
    <3>4. /\ expected' \in [Posts -> BOOLEAN]
          /\ p \notin raced' => expected'[p] = b
      <4>1. CASE req[r].op = "pin"
        <5>1. PICK e \in BOOLEAN : e = ~expected[p]
          OBVIOUS
        <5>2. expected' = [expected EXCEPT ![p] = e]
          BY <1>5, <2>1, <4>1, <5>1, Zenon
        <5>3. r \in Toggling
          BY <1>1, <4>1 DEF Toggling
        <5>4. p \notin raced => b # post[p].pinned /\ post[p].pinned = expected[p]
          BY <1>5, <2>1, <3>1, <5>3 DEF PinInv, TogglesOK, PinFollowsToggles
        <5>5. expected[p] \in BOOLEAN /\ e # expected[p]
          BY <1>1, <5>1
        <5> QED BY <1>1, <2>3, <5>2, <5>4, <5>5
      <4>2. CASE req[r].op # "pin"
        <5>1. expected' = [expected EXCEPT ![p] = b]
          BY <1>5, <2>1, <2>6, <3>1, <4>2, Zenon
        <5> QED BY <1>1, <5>1
      <4> QED BY <4>1, <4>2
    <3>5. TogglesOK'
      <4>1. \A o \in Posts : /\ post'[o].row => post'[o].author # None
                             /\ post'[o].author = None => ~expected'[o]
        BY <2>2, <2>3 DEF PinInv, TogglesOK
      <4>2. ASSUME NEW x \in Toggling'
            PROVE  LET o == req'[x].post IN
                     /\ post'[o].author # None
                     /\ post'[o].row /\ o \notin raced' => req'[x].pin # post'[o].pinned
        <5>1. x \in Toggling /\ req'[x] = req[x] /\ req[x].post \in Posts
          BY <1>3 DEF Toggling
        <5>2. CASE req[x].post = p
          BY <2>2, <2>3, <2>4, <2>6, <4>2, <5>1, <5>2
        <5>3. CASE req[x].post # p
          BY <2>2, <2>3, <5>1, <5>3 DEF PinInv, TogglesOK
        <5> QED BY <5>2, <5>3
      <4> QED BY <4>1, <4>2 DEF TogglesOK
    <3>6. PinFollowsToggles'
      BY <2>2, <2>3, <3>3, <3>4 DEF PinInv, PinFollowsToggles
    <3> QED BY <3>4, <3>5, <3>6 DEF PinOK
  <2> QED BY <2>5, <2>6
<1> QED BY <1>4, <1>5 DEF WritePost

LEMMA PinStep == PinInv /\ [Next]_vars => PinInv'
<1> SUFFICES ASSUME PinInv, [Next]_vars
             PROVE  PinOK'
  BY TypeStep, PTL DEF PinInv, PinOK
<1>1. CASE UNCHANGED vars
  BY <1>1, NoToggle DEF vars
<1>2. CASE Restart
  <2>1. \A x \in Requests : ~At(x, "write")'
    BY <1>2, Restarting DEF PinInv, Busy, At, Answered
  <2> QED BY <1>2, <2>1, NoToggle DEF Restart
<1>3. ASSUME NEW r \in Requests, Arrives(r)
      PROVE  PinOK'
  <2>1. CASE Moving(r)
    <3>1. PICK u \in Users, p \in Posts, fs \in SUBSET Files : BulkMove(r, u, p, fs)
      BY <2>1 DEF Moving
    <3>2. Becomes(r, Answered) /\ Answered.pc = "done"
      BY <3>1, Finishing DEF BulkMove, PinInv, Answered
    <3> QED BY <3>1, <3>2, NoToggle DEF BulkMove, Becomes, At
  <2> QED BY <1>3, <2>1, Arrived, ToggleBegins, PostBegins DEF PinInv, TInv
<1>4. ASSUME NEW r \in Requests, Proceeds(r), ~WritePost(r), ~ErasePost(r)
      PROVE  PinOK'
  <2>1. PICK q : Becomes(r, q) /\ q.pc # "write"
    BY <1>4, Advancing DEF PinInv, Advances, Answered
  <2>2. UNCHANGED <<post, expected, raced>>
    BY <1>4 DEF Proceeds, ClearAttachments, FindFiles, AttachFiles, FindFree, CountFiles, DetachFiles,
       StoreFile, CreateRow, MakeThumbnails, DeleteRows, Unlink, CallFails, history
  <2> QED BY <2>1, <2>2, NoToggle DEF Becomes, At
<1> QED BY <1>1, <1>2, <1>3, <1>4, PostEnds, PinWritten DEF Next

LEMMA PinInit == Init => PinInv
<1> SUFFICES ASSUME Init PROVE PinInv
  OBVIOUS
<1>1. \A p \in StoredPosts : Owner[p] # None
  BY PostFilesAssumption
<1>2. Toggling = {}
  BY DEF Init, NoRequest, Toggling, At
<1>3. /\ expected = [p \in Posts |-> FALSE] /\ raced = {}
      /\ \A p \in Posts : /\ post[p].row => p \in StoredPosts /\ post[p].author = Owner[p]
                          /\ post[p].pinned = FALSE
  BY DEF Init, NoPost
<1> QED BY <1>1, <1>2, <1>3, TypeInit DEF PinInv, TogglesOK, PinFollowsToggles

(* A post is pinned as the toggles and updates of its pin say in the order they were
   written, unless one was written between the read and the write of a toggle. *)
THEOREM PinsFollowToggles == Spec => []PinFollowsToggles
<1>1. PinInv => PinFollowsToggles
  BY DEF PinInv
<1> QED BY <1>1, PinInit, PinStep, PTL DEF Spec
-----------------------------------------------------------------------------
(* Files that are free *)

Holding(q) == q.op = "associate" /\ q.pc \in {"count", "attach"}

LEMMA FreeKept ==
    ASSUME FInv, NEW r \in Requests, \A x \in Requests \ {r} : req'[x] = req[x],
           Holding(req'[r]) => \A f \in req'[r].files : /\ file'[f].owner # None
                                                        /\ file'[f].post = None \/ f \in grabbed',
           \A f \in Files : file[f].owner # None =>
             /\ file'[f].owner # None
             /\ file'[f].post \in {file[f].post, None} \/ f \notin Held(r) \/ f \in grabbed',
           grabbed \subseteq grabbed'
    PROVE  FreeOK'
<1>1. \A x \in Requests : req[x].files \subseteq Files
  BY TypeSplit DEF FInv, DInv, ReqOK, Request
<1>2. ASSUME NEW x \in Requests, Holding(req'[x]), NEW f \in req'[x].files
      PROVE  file'[f].owner # None /\ (file'[f].post = None \/ f \in grabbed')
  <2>1. CASE x = r
    BY <1>2, <2>1 DEF Holding
  <2>2. CASE x # r
    <3>1. /\ req'[x] = req[x] /\ f \in Files /\ file[f].owner # None
          /\ file[f].post = None \/ f \in grabbed
      BY <1>1, <1>2, <2>2 DEF FInv, FreeOK, Holding
    <3>2. f \in Held(r)
      BY <1>2, <2>2, <3>1 DEF Held, Holding
    <3> QED BY <3>1, <3>2
  <2> QED BY <2>1, <2>2
<1> QED BY <1>2 DEF FreeOK, Holding

LEMMA FreeStep == FInv /\ [Next]_vars => FInv'
<1> SUFFICES ASSUME FInv, [Next]_vars
             PROVE  FreeOK' /\ TakenFilesWereFree'
  BY DiskStep, PTL DEF FInv
<1> USE DEF At
<1>1. /\ DataOK /\ HeldOK /\ DInv /\ TInv
      /\ \A x \in Requests : req[x] \in Request /\ Shaped(req[x])
  BY TypeSplit DEF FInv, DInv, ReqOK, ShapeOK
<1>2. CASE UNCHANGED vars
  BY <1>2 DEF FInv, FreeOK, TakenFilesWereFree, vars
<1>3. CASE Restart
  <2>1. \A x \in Requests : ~Busy(req'[x])
    BY <1>1, <1>3, Restarting DEF Busy, Answered
  <2>2. \A x \in Requests : ~Holding(req'[x])
    BY <2>1 DEF Busy, Holding
  <2> QED BY <1>3, <2>2 DEF FInv, FreeOK, TakenFilesWereFree, Restart, Holding
<1>4. ASSUME NEW r \in Requests, Asking(r) \/ Creating(r)
      PROVE  FreeOK' /\ TakenFilesWereFree'
  <2>1. \E q : Becomes(r, q) /\ ~Holding(q)
    <3>1. CASE Asking(r)
      <4>1. PICK q \in Request : AsksFor(r, q)
        BY <3>1 DEF Asking
      <4>2. Becomes(r, q)
        BY <1>1, <4>1, Arriving
      <4> QED BY <4>1, <4>2 DEF AsksFor, Holding
    <3>2. CASE Creating(r)
      <4>1. PICK u \in Users, p \in Posts, fs \in SUBSET Files : CreatePost(r, u, p, fs)
        BY <3>2 DEF Creating
      <4>2. Becomes(r, Answered) \/ \E q : Becomes(r, q) /\ q.op = "create" /\ q.pc = "find"
        BY <1>1, <4>1, Announcing
      <4> QED BY <4>2 DEF Holding, Answered
    <3> QED BY <1>4, <3>1, <3>2
  <2>2. UNCHANGED <<file, taken, grabbed>>
    BY <1>4 DEF Asking, AsksFor, Creating, CreatePost, history
  <2>3. ~Holding(req'[r]) /\ \A x \in Requests \ {r} : req'[x] = req[x]
    BY <2>1 DEF Becomes
  <2> QED BY <2>2, <2>3, FreeKept DEF FInv, TakenFilesWereFree
<1>5. ASSUME NEW r \in Requests, Moving(r)
      PROVE  FreeOK' /\ TakenFilesWereFree'
  <2>1. PICK u \in Users, p \in Posts, fs \in SUBSET Files : BulkMove(r, u, p, fs)
    BY <1>5 DEF Moving
  <2>2. Becomes(r, Answered)
    BY <1>1, <2>1, Finishing DEF BulkMove
  <2>3. ~Holding(req'[r]) /\ \A x \in Requests \ {r} : req'[x] = req[x]
    BY <2>2 DEF Becomes, Holding, Answered
  <2>4. /\ grabbed' = grabbed \cup (fs \cap Held(r)) /\ taken' = taken
        /\ file' = [f \in Files |-> IF f \in fs /\ file[f].row /\ file[f].owner = u
                                   THEN [file[f] EXCEPT !.post = p] ELSE file[f]]
    BY <2>1 DEF BulkMove
  <2>5. \A f \in Files : /\ file'[f].owner = file[f].owner
                         /\ file'[f].post = file[f].post \/ f \in fs
    BY <1>1, <2>4 DEF DataOK
  <2>6. FreeOK'
    BY <2>3, <2>4, <2>5, FreeKept
  <2> QED BY <2>4, <2>6 DEF FInv, TakenFilesWereFree
<1>6. ASSUME NEW r \in Requests, Proceeds(r)
      PROVE  FreeOK' /\ TakenFilesWereFree'
  <2>1. PICK q : Advances(r, q)
    BY <1>1, <1>6, Advancing
  <2>2. req'[r] = q /\ \A x \in Requests \ {r} : req'[x] = req[x]
    BY <2>1 DEF Advances, Becomes
  <2>3. CASE FindFree(r)
    <3>1. UNCHANGED <<file, taken, grabbed>>
      BY <2>3 DEF FindFree, history
    <3>2. CASE Done(r)
      <4>1. ~Holding(req'[r])
        BY <1>1, <3>2, Finishing DEF Becomes, Holding, Answered
      <4> QED BY <2>2, <3>1, <4>1, FreeKept DEF FInv, TakenFilesWereFree
    <3>3. CASE Go(r, "count") /\ \A f \in req[r].files : file[f].row /\ file[f].post = None
      <4>1. req'[r].files = req[r].files
        BY <1>1, <3>3 DEF Go, Request
      <4>2. \A f \in req[r].files : f \in Files /\ file[f].owner # None
        BY <1>1, <3>3 DEF HeldOK, Request
      <4> QED BY <2>2, <3>1, <3>3, <4>1, <4>2, FreeKept DEF FInv, TakenFilesWereFree
    <3> QED BY <2>3, <3>2, <3>3 DEF FindFree
  <2>4. CASE CountFiles(r)
    <3>1. UNCHANGED <<file, taken, grabbed>> /\ req[r].pc = "count"
      BY <2>4 DEF CountFiles
    <3>2. CASE Done(r)
      <4>1. ~Holding(req'[r])
        BY <1>1, <3>2, Finishing DEF Becomes, Holding, Answered
      <4> QED BY <2>2, <3>1, <4>1, FreeKept DEF FInv, TakenFilesWereFree
    <3>3. CASE \E pc \in {"store", "attach"} : Go(r, pc)
      <4>1. req'[r].files = req[r].files /\ req'[r].op = req[r].op
        BY <1>1, <3>3 DEF Go, Request
      <4>2. Holding(req'[r]) => Holding(req[r])
        BY <3>1, <4>1 DEF Holding
      <4> QED BY <2>2, <3>1, <4>1, <4>2, FreeKept DEF FInv, FreeOK, Holding, TakenFilesWereFree
    <3> QED BY <2>4, <3>2, <3>3 DEF CountFiles
  <2>5. CASE AttachFiles(r)
    <3> DEFINE p == req[r].post  rows == {f \in req[r].files : file[f].row}
    <3>1. /\ Done(r) /\ req[r].pc = "attach" /\ grabbed' = grabbed \cup (rows \cap Held(r))
          /\ \/ file' = [f \in Files |-> IF f \in rows THEN [file[f] EXCEPT !.post = p] ELSE file[f]]
             \/ file' = file
          /\ \/ taken' = taken
             \/ /\ req[r].op = "associate"
                /\ taken' = taken \cup {f \in rows : file[f].post \notin {p, None}}
      BY <2>5 DEF AttachFiles
    <3>2. ~Holding(req'[r])
      BY <1>1, <3>1, Finishing DEF Becomes, Holding, Answered
    <3>3. \A f \in Files : /\ file'[f].owner = file[f].owner
                           /\ file'[f].post = file[f].post \/ f \in rows
      BY <1>1, <3>1 DEF DataOK
    <3>4. \A f \in rows : f \in Held(r) => f \in grabbed'
      BY <3>1
    <3>5. FreeOK'
      BY <2>2, <3>1, <3>2, <3>3, <3>4, FreeKept
    <3>6. req[r].op = "associate" => \A f \in rows : file[f].post = None \/ f \in grabbed
      BY <3>1 DEF FInv, FreeOK
    <3>7. TakenFilesWereFree'
      BY <3>1, <3>6 DEF FInv, TakenFilesWereFree
    <3> QED BY <3>5, <3>7
  <2>6. CASE ~FindFree(r) /\ ~CountFiles(r) /\ ~AttachFiles(r)
    <3>1. ~Holding(req'[r])
      <4>1. CASE CallFails(r)
        BY <1>1, <4>1, Finishing DEF CallFails, Becomes, Holding, Answered
      <4>2. CASE ~CallFails(r)
        <5>1. req[r].pc \notin {"free", "count", "attach"}
          BY <1>6, <2>6, <4>2 DEF Proceeds, WritePost, ErasePost, ClearAttachments, FindFiles, DetachFiles,
             StoreFile, CreateRow, MakeThumbnails, DeleteRows, Unlink
        <5>2. req[r].op # "associate"
          BY <1>1, <5>1 DEF Shaped
        <5> QED BY <2>1, <2>2, <5>2 DEF Advances, Holding, Answered
      <4> QED BY <4>1, <4>2
    <3>2. UNCHANGED <<taken, grabbed>>
      BY <1>6, <2>6 DEF Proceeds, WritePost, ErasePost, ClearAttachments, FindFiles, DetachFiles,
         StoreFile, CreateRow, MakeThumbnails, DeleteRows, Unlink, CallFails, history
    <3>3. \A f \in Files : file[f].owner # None => /\ file'[f].owner # None
                                                   /\ file'[f].post \in {file[f].post, None}
      <4>1. CASE WritePost(r) \/ FindFiles(r) \/ StoreFile(r) \/ MakeThumbnails(r) \/ Unlink(r) \/ CallFails(r)
        BY <4>1 DEF WritePost, FindFiles, StoreFile, MakeThumbnails, Unlink, CallFails
      <4>2. CASE ErasePost(r) \/ ClearAttachments(r)
        BY <1>1, <4>2 DEF ErasePost, ClearAttachments, DataOK
      <4>3. CASE DetachFiles(r)
        BY <1>1, <4>3 DEF DetachFiles, DataOK
      <4>4. CASE CreateRow(r)
        <5>1. \A f \in req[r].files : file[f].owner = None
          BY <1>1, <4>4 DEF CreateRow, HeldOK
        <5>2. \A f \in Files \ req[r].files : file'[f] = file[f]
          BY <4>4 DEF CreateRow
        <5> QED BY <5>1, <5>2
      <4>5. CASE DeleteRows(r)
        BY <1>1, <4>5 DEF DeleteRows, DataOK
      <4> QED BY <1>6, <2>6, <4>1, <4>2, <4>3, <4>4, <4>5 DEF Proceeds
    <3> QED BY <2>2, <3>1, <3>2, <3>3, FreeKept DEF FInv, TakenFilesWereFree
  <2> QED BY <2>3, <2>4, <2>5, <2>6
<1> QED BY <1>1, <1>2, <1>3, <1>4, <1>5, <1>6, Arrived DEF Next, TInv

(* associateFilesWithPost takes no file from another post, but one another request has
   attached since it was found free. *)
THEOREM AssociationsTakeFreeFiles == Spec => []TakenFilesWereFree
<1>1. Init => FInv
  <2> SUFFICES ASSUME Init PROVE FInv
    OBVIOUS
  <2> QED BY DiskInit DEF FInv, FreeOK, TakenFilesWereFree, Init, NoRequest
<1>2. FInv => TakenFilesWereFree
  BY DEF FInv
<1> QED BY <1>1, <1>2, FreeStep, PTL DEF Spec
-----------------------------------------------------------------------------
(* The limit of a post's files *)

LEMMA FilesFinite ==
    /\ \A S \in SUBSET Files : IsFiniteSet(S) /\ Cardinality(S) \in Nat
    /\ \A S \in SUBSET Files : \A T \in SUBSET S : Cardinality(T) <= Cardinality(S)
    /\ \A S, T \in SUBSET Files : Cardinality(S \cup T) <= Cardinality(S) + Cardinality(T)
<1>1. \A S \in SUBSET Files : IsFiniteSet(S) /\ Cardinality(S) \in Nat
  BY PostFilesAssumption, FS_Subset, FS_CardinalityType
<1>2. \A S \in SUBSET Files : \A T \in SUBSET S : Cardinality(T) <= Cardinality(S)
  BY <1>1, FS_Subset
<1>3. ASSUME NEW S \in SUBSET Files, NEW T \in SUBSET Files
      PROVE  Cardinality(S \cup T) <= Cardinality(S) + Cardinality(T)
  <2>1. S \cap T \in SUBSET Files
    OBVIOUS
  <2>2. Cardinality(S \cup T) = Cardinality(S) + Cardinality(T) - Cardinality(S \cap T)
    BY <1>1, FS_Union
  <2> QED BY <1>1, <2>1, <2>2
<1> QED BY <1>1, <1>2, <1>3

LEMMA PendingType ==
    ASSUME TInv, NEW r \in Requests
    PROVE  Pending(r) \in Nat
<1>1. req[r].files \in SUBSET Files /\ req[r].left \in 0 .. MaxUploads
  BY DEF TInv, TypeOK
<1>2. req[r].left \in Nat /\ Cardinality(req[r].files) \in Nat
  BY <1>1, FilesFinite, PostFilesAssumption
<1> QED BY <1>2 DEF Pending

(* A post that gets no files, and no request that has counted them. *)
LEMMA FewerFit ==
    ASSUME TInv, NEW p \in Posts, Fits(p), Counted(p)' \subseteq Counted(p),
           \A x \in Adding(p)' : x \in Adding(p) /\ Pending(x)' = Pending(x)
    PROVE  Fits(p)'
<1> DEFINE new == Counted(p)'
<1>1. Counted(p) \in SUBSET Files /\ new \in SUBSET Counted(p)
  BY DEF Counted, Attached
<1>2. /\ Cardinality(new) \in Nat /\ Cardinality(Counted(p)) \in Nat
      /\ Cardinality(new) <= Cardinality(Counted(p))
  BY <1>1, FilesFinite
<1>3. \A x \in Adding(p)' : x \in Adding(p) /\ Pending(x)' = Pending(x) /\ Pending(x) \in Nat
  BY PendingType DEF Adding
<1>4. Cardinality(new) <= MaxFilesPerPost
  BY <1>2, PostFilesAssumption DEF Fits
<1>5. \A x \in Adding(p)' : Cardinality(new) + Pending(x)' <= MaxFilesPerPost
  BY <1>2, <1>3, PostFilesAssumption DEF Fits
<1>6. \A x, y \in Adding(p)' : x = y
  BY <1>3 DEF Fits
<1> QED BY <1>4, <1>5, <1>6 DEF Fits

(* A request that is not adding files to p is none of p's business. *)
LEMMA OthersFit ==
    ASSUME LInv, NEW r \in Requests, \A x \in Requests \ {r} : req'[x] = req[x],
           NEW p \in Posts, p \notin unlimited \cup overlapped, Counted(p)' \subseteq Counted(p),
           r \in Adding(p)' => r \in Adding(p) /\ Pending(r)' = Pending(r)
    PROVE  Fits(p)'
<1>1. \A x \in Adding(p)' : x \in Adding(p) /\ Pending(x)' = Pending(x)
  <2>1. \A x \in Requests \ {r} : /\ x \in Adding(p)' => x \in Adding(p)
                                  /\ Pending(x)' = Pending(x)
    BY DEF Adding, Pending, At
  <2> QED BY <2>1 DEF Adding
<1> QED BY <1>1, FewerFit DEF LInv, DInv, RoomLeft

(* The one request that adds files to p does so. *)
LEMMA AdderFits ==
    ASSUME LInv, NEW r \in Requests, \A x \in Requests \ {r} : req'[x] = req[x],
           NEW p \in Posts, p \notin unlimited \cup overlapped,
           r \in Adding(p), NEW fs \in SUBSET Files, Counted(p)' \subseteq Counted(p) \cup fs,
           NEW n \in Nat, Cardinality(fs) + n <= Pending(r),
           r \in Adding(p)' => Pending(r)' = n
    PROVE  Fits(p)'
<1> DEFINE new == Counted(p)'
<1>1. Fits(p) /\ Pending(r) \in Nat
  BY PendingType DEF LInv, DInv, RoomLeft
<1>2. Counted(p) \in SUBSET Files /\ Counted(p) \cup fs \in SUBSET Files
      /\ new \in SUBSET (Counted(p) \cup fs)
  BY DEF Counted, Attached
<1>3. /\ Cardinality(new) \in Nat /\ Cardinality(Counted(p)) \in Nat /\ Cardinality(fs) \in Nat
      /\ Cardinality(new) <= Cardinality(Counted(p)) + Cardinality(fs)
  <2>1. /\ Cardinality(new) <= Cardinality(Counted(p) \cup fs)
        /\ Cardinality(Counted(p) \cup fs) <= Cardinality(Counted(p)) + Cardinality(fs)
    BY <1>2, FilesFinite
  <2>2. /\ Cardinality(new) \in Nat /\ Cardinality(Counted(p)) \in Nat /\ Cardinality(fs) \in Nat
        /\ Cardinality(Counted(p) \cup fs) \in Nat
    BY <1>2, FilesFinite
  <2> QED BY <2>1, <2>2
<1>4. Cardinality(Counted(p)) + Pending(r) <= MaxFilesPerPost
  BY <1>1 DEF Fits
<1>5. Cardinality(new) + n <= MaxFilesPerPost
  BY <1>1, <1>3, <1>4, PostFilesAssumption
<1>6. \A x \in Adding(p)' : x = r
  <2>1. \A x \in Requests \ {r} : x \in Adding(p)' => x \in Adding(p)
    BY DEF Adding, At
  <2> QED BY <1>1, <2>1 DEF Fits, Adding
<1>7. /\ Cardinality(new) <= MaxFilesPerPost /\ \A x, y \in Adding(p)' : x = y
      /\ \A x \in Adding(p)' : Cardinality(new) + Pending(x)' <= MaxFilesPerPost
  BY <1>3, <1>5, <1>6, PostFilesAssumption
<1> QED BY <1>7 DEF Fits

LEMMA AttachFits ==
    ASSUME LInv, NEW r \in Requests, AttachFiles(r), NEW p \in Posts,
           p \notin unlimited' \cup overlapped'
    PROVE  Fits(p)'
<1> USE DEF At
<1>1. DataOK /\ TInv /\ req[r] \in Request /\ Done(r) /\ req[r].pc = "attach"
  BY TypeSplit DEF LInv, DInv, ReqOK, AttachFiles
<1>2. /\ req'[r].op = None /\ None # "upload" /\ None # "associate"
      /\ \A x \in Requests \ {r} : req'[x] = req[x]
  BY <1>1, Finishing, PostFilesAssumption DEF Becomes, Answered, Ops
<1>3. p \notin unlimited \cup overlapped
  BY DEF AttachFiles
<1>4. \/ file' = file
      \/ /\ file' = [f \in Files |-> IF f \in req[r].files /\ file[f].row
                                    THEN [file[f] EXCEPT !.post = req[r].post] ELSE file[f]]
         /\ p # req[r].post \/ req[r].op = "associate"
  BY DEF AttachFiles
<1>5. CASE req[r].post = p /\ req[r].op = "associate"
  <2>1. r \in Adding(p) /\ r \notin Adding(p)'
    BY <1>1, <1>2, <1>5 DEF Adding
  <2>2. req[r].files \in SUBSET Files /\ Cardinality(req[r].files) \in Nat
    BY <1>1, FilesFinite DEF Request
  <2>3. Cardinality(req[r].files) + 0 <= Pending(r)
    BY <1>1, <1>5, <2>2 DEF Pending
  <2>4. Counted(p)' \subseteq Counted(p) \cup req[r].files
    BY <1>1, <1>4 DEF Counted, Attached, DataOK
  <2> QED BY <1>2, <1>3, <2>1, <2>2, <2>3, <2>4, AdderFits
<1>6. CASE ~(req[r].post = p /\ req[r].op = "associate")
  <2>1. Counted(p)' \subseteq Counted(p)
    BY <1>1, <1>4, <1>6 DEF Counted, Attached, DataOK
  <2>2. r \notin Adding(p)'
    BY <1>2 DEF Adding
  <2> QED BY <1>2, <1>3, <2>1, <2>2, OthersFit
<1> QED BY <1>5, <1>6

LEMMA CreateFits ==
    ASSUME LInv, NEW r \in Requests, CreateRow(r), NEW p \in Posts,
           p \notin unlimited' \cup overlapped'
    PROVE  Fits(p)'
<1> USE DEF At
<1>1. DataOK /\ TInv /\ req[r] \in Request /\ req[r].pc = "row" /\ Shaped(req[r])
  BY TypeSplit DEF LInv, DInv, ReqOK, ShapeOK, CreateRow
<1>2. p \notin unlimited \cup overlapped
  BY DEF CreateRow
<1>3. PICK q : Advances(r, q)
  BY <1>1, Advancing DEF Proceeds
<1>4. req'[r] = q /\ \A x \in Requests \ {r} : req'[x] = req[x]
  BY <1>3 DEF Advances, Becomes
<1>5. None # "upload" /\ None # "associate" /\ None \notin Posts
  BY PostFilesAssumption DEF Ops
<1>6. Done(r) => req'[r] = Answered
  BY <1>1, Finishing DEF Becomes
<1>7. CASE file' = file /\ Done(r)
  <2>1. r \notin Adding(p)' /\ Counted(p)' \subseteq Counted(p)
    BY <1>5, <1>6, <1>7 DEF Adding, Answered, Counted, Attached
  <2> QED BY <1>2, <1>4, <2>1, OthersFit
<1>8. CASE /\ file' = [f \in Files |-> IF f \in req[r].files
                        THEN [row |-> TRUE, owner |-> req[r].user, post |-> req[r].post] ELSE file[f]]
           /\ unlimited' = IF req[r].op = "upload" THEN unlimited ELSE unlimited \cup ({req[r].post} \ {None})
           /\ Go(r, "thumbs") \/ NextFile(r)
  <2>1. CASE p = req[r].post
    <3>1. req[r].op = "upload" /\ r \in Adding(p)
      BY <1>1, <1>5, <1>8, <2>1 DEF Adding
    <3>2. PICK f \in Files : req[r].files = {f}
      BY <1>1 DEF Shaped
    <3>3. /\ req[r].files \in SUBSET Files /\ Cardinality(req[r].files) = 1
          /\ req[r].left \in Nat /\ Pending(r) = req[r].left + 1
      <4>1. Cardinality(req[r].files) = 1 /\ req[r].files \in SUBSET Files
        BY <3>2, FS_Singleton
      <4>2. Pending(r) = req[r].left + 1 /\ req[r].left \in Nat
        BY <1>1, <3>1 DEF Pending, Request
      <4> QED BY <4>1, <4>2
    <3>4. Counted(p)' \subseteq Counted(p) \cup req[r].files
      BY <1>8 DEF Counted, Attached
    <3>5. r \in Adding(p)' => Pending(r)' = req[r].left
      <4>1. CASE NextFile(r)
        <5>1. PICK s : Onward(r, s)
          BY <1>1, <4>1, GoingOn
        <5>2. req'[r] = s
          BY <5>1 DEF Onward, Becomes
        <5> QED BY <1>5, <3>1, <5>1, <5>2 DEF Onward, Adding, Pending, Answered
      <4>2. CASE Go(r, "thumbs")
        <5>1. PICK s : Becomes(r, s) /\ Follows(s, req[r], "thumbs")
          BY <1>1, <3>1, <4>2, Going DEF Busy
        <5>2. req'[r].op = "upload" /\ req'[r].left = req[r].left /\ req'[r].pc = "thumbs"
          BY <3>1, <5>1 DEF Becomes, Follows
        <5> QED BY <5>2 DEF Pending
      <4> QED BY <1>8, <4>1, <4>2
    <3> QED BY <1>2, <1>4, <3>1, <3>3, <3>4, <3>5, AdderFits
  <2>2. CASE p # req[r].post
    <3>1. r \notin Adding(p)'
      BY <1>3, <1>4, <1>5, <2>2 DEF Advances, Adding, Answered
    <3>2. Counted(p)' \subseteq Counted(p)
      BY <1>8, <2>2 DEF Counted, Attached
    <3> QED BY <1>2, <1>4, <3>1, <3>2, OthersFit
  <2> QED BY <2>1, <2>2
<1> QED BY <1>7, <1>8 DEF CreateRow

LEMMA CountFits ==
    ASSUME LInv, NEW r \in Requests, CountFiles(r), NEW p \in Posts,
           p \notin unlimited' \cup overlapped'
    PROVE  Fits(p)'
<1> USE DEF At
<1>1. DataOK /\ TInv /\ req[r] \in Request /\ req[r].pc = "count" /\ Shaped(req[r])
  BY TypeSplit DEF LInv, DInv, ReqOK, ShapeOK, CountFiles
<1>2. p \notin unlimited \cup overlapped /\ Counted(p)' = Counted(p)
  BY DEF CountFiles, Counted, Attached
<1>3. PICK q : Advances(r, q)
  BY <1>1, Advancing DEF Proceeds
<1>4. req'[r] = q /\ \A x \in Requests \ {r} : req'[x] = req[x]
  BY <1>3 DEF Advances, Becomes
<1>5. None # "upload" /\ None # "associate" /\ None \notin Posts
  BY PostFilesAssumption DEF Ops
<1>6. CASE Done(r) \/ req[r].post # p
  <2>1. Done(r) => req'[r] = Answered
    BY <1>1, Finishing DEF Becomes
  <2>2. r \notin Adding(p)'
    BY <1>3, <1>4, <1>5, <1>6, <2>1 DEF Advances, Adding, Answered
  <2> QED BY <1>2, <1>4, <2>2, OthersFit
<1>7. CASE /\ req[r].post = p /\ Cardinality(Counted(p)) + More(req[r]) <= MaxFilesPerPost
           /\ Go(r, IF req[r].op = "upload" THEN "store" ELSE "attach")
  <2>1. Adding(p) = {}
    BY <1>7 DEF CountFiles
  <2>2. req'[r] = [req[r] EXCEPT !.pc = IF req[r].op = "upload" THEN "store" ELSE "attach"]
    BY <1>1, <1>7 DEF Go, TInv, TypeOK
  <2>3. /\ req'[r].op = req[r].op /\ req'[r].files = req[r].files /\ req'[r].left = req[r].left
        /\ req'[r].pc \in {"store", "attach"}
    BY <1>1, <2>2 DEF Request
  <2>4. Pending(r)' = More(req[r])
    BY <2>3 DEF Pending, More
  <2>5. \A x \in Adding(p)' : x = r
    BY <1>4, <2>1 DEF Adding
  <2>6. Cardinality(Counted(p)) \in Nat /\ Fits(p)
    BY <1>2, FilesFinite DEF Counted, Attached, LInv, RoomLeft
  <2>7. /\ Cardinality(Counted(p)') <= MaxFilesPerPost
        /\ \A x, y \in Adding(p)' : x = y
        /\ \A x \in Adding(p)' : Cardinality(Counted(p)') + Pending(x)' <= MaxFilesPerPost
    BY <1>2, <1>7, <2>4, <2>5, <2>6 DEF Fits
  <2> QED BY <2>7 DEF Fits
<1>8. More(req[r]) \in Nat /\ Cardinality(Counted(p)) \in Nat /\ MaxFilesPerPost \in Nat
  BY <1>1, FilesFinite, PostFilesAssumption DEF More, Request, Counted, Attached
<1> QED BY <1>6, <1>7, <1>8 DEF CountFiles

LEMMA StoreFits ==
    ASSUME LInv, NEW r \in Requests, StoreFile(r), NEW p \in Posts,
           p \notin unlimited' \cup overlapped'
    PROVE  Fits(p)'
<1> USE DEF At
<1>1. TInv /\ req[r] \in Request /\ req[r].pc = "store" /\ Shaped(req[r])
  BY TypeSplit DEF LInv, DInv, ReqOK, ShapeOK, StoreFile
<1>2. p \notin unlimited \cup overlapped /\ Counted(p)' = Counted(p)
  BY DEF StoreFile, history, Counted, Attached
<1>3. None # "upload" /\ None # "associate"
  BY PostFilesAssumption DEF Ops
<1>4. CASE Done(r)
  <2>1. /\ req'[r] = Answered /\ \A x \in Requests \ {r} : req'[x] = req[x]
    BY <1>1, <1>4, Finishing DEF Becomes
  <2>2. r \notin Adding(p)'
    BY <1>3, <2>1 DEF Adding, Answered
  <2> QED BY <1>2, <2>1, <2>2, OthersFit
<1>5. CASE \E f \in Files : GoUpload(r, {f}, req[r].left - 1, "row")
  <2>1. PICK f \in Files : GoUpload(r, {f}, req[r].left - 1, "row")
    BY <1>5
  <2>2. req[r].left \in Nat /\ req[r].left - 1 \in 0 .. MaxUploads /\ {f} \in SUBSET Files
    BY <1>1, PostFilesAssumption DEF Request, Shaped
  <2>3. PICK s : /\ Becomes(r, s) /\ s.op = req[r].op /\ s.post = req[r].post
                 /\ s.left = req[r].left - 1 /\ s.pc = "row"
    BY <1>1, <2>1, <2>2, Uploading
  <2>4. /\ req'[r].op = req[r].op /\ req'[r].post = req[r].post
        /\ req'[r].left = req[r].left - 1 /\ req'[r].pc = "row"
        /\ \A x \in Requests \ {r} : req'[x] = req[x]
    BY <2>3 DEF Becomes
  <2>5. req[r].op # "associate"
    BY <1>1 DEF Shaped
  <2>6. r \in Adding(p)' => r \in Adding(p) /\ Pending(r)' = Pending(r)
    BY <1>1, <2>2, <2>4, <2>5 DEF Adding, Pending
  <2> QED BY <1>2, <2>4, <2>6, OthersFit
<1> QED BY <1>4, <1>5 DEF StoreFile

LEMMA ThumbnailsFit ==
    ASSUME LInv, NEW r \in Requests, MakeThumbnails(r), NEW p \in Posts,
           p \notin unlimited' \cup overlapped'
    PROVE  Fits(p)'
<1> USE DEF At
<1>1. TInv /\ req[r] \in Request /\ req[r].pc = "thumbs" /\ Shaped(req[r])
  BY TypeSplit DEF LInv, DInv, ReqOK, ShapeOK, MakeThumbnails
<1>2. p \notin unlimited \cup overlapped /\ Counted(p)' = Counted(p)
  BY DEF MakeThumbnails, history, Counted, Attached
<1>3. None # "upload" /\ None # "associate"
  BY PostFilesAssumption DEF Ops
<1>4. PICK s : Onward(r, s)
  BY <1>1, GoingOn DEF MakeThumbnails
<1>5. req'[r] = s /\ \A x \in Requests \ {r} : req'[x] = req[x]
  BY <1>4 DEF Onward, Becomes
<1>6. req[r].op # "associate"
  BY <1>1 DEF Shaped
<1>7. r \in Adding(p)' => r \in Adding(p) /\ Pending(r)' = Pending(r)
  BY <1>1, <1>3, <1>4, <1>5, <1>6 DEF Onward, Adding, Pending, Answered
<1> QED BY <1>2, <1>5, <1>7, OthersFit

LEMMA ProceedingFits ==
    ASSUME LInv, NEW r \in Requests, Proceeds(r), NEW p \in Posts,
           p \notin unlimited' \cup overlapped'
    PROVE  Fits(p)'
<1> USE DEF At
<1>1. DataOK /\ TInv /\ req[r] \in Request /\ Shaped(req[r])
  BY TypeSplit DEF LInv, DInv, ReqOK, ShapeOK
<1>2. SUFFICES ASSUME ~AttachFiles(r), ~CreateRow(r), ~CountFiles(r), ~StoreFile(r), ~MakeThumbnails(r)
               PROVE  Fits(p)'
  BY AttachFits, CreateFits, CountFits, StoreFits, ThumbnailsFit
<1>3. p \notin unlimited \cup overlapped
  BY <1>2 DEF Proceeds, WritePost, ErasePost, ClearAttachments, FindFiles, FindFree, DetachFiles,
     DeleteRows, Unlink, CallFails, history
<1>4. PICK q : Advances(r, q)
  BY <1>1, Advancing
<1>5. req'[r] = q /\ \A x \in Requests \ {r} : req'[x] = req[x]
  BY <1>4 DEF Advances, Becomes
<1>6. r \notin Adding(p)'
  <2>1. None # "upload" /\ None # "associate"
    BY PostFilesAssumption DEF Ops
  <2>2. CASE CallFails(r)
    BY <1>1, <2>1, <2>2, Finishing DEF CallFails, Becomes, Adding, Answered
  <2>3. CASE FindFree(r)
    <3>1. req'[r].pc \in {"count", "done"}
      BY <1>1, <1>2, <2>3, Finishing DEF FindFree, Go, Request, TInv, TypeOK, Becomes, Answered
    <3> QED BY <3>1 DEF Adding
  <2>4. CASE ~CallFails(r) /\ ~FindFree(r)
    <3>1. req[r].pc \in {"write", "erase", "clear", "find", "detach", "unrow", "unlink"}
      BY <1>2, <2>4 DEF Proceeds, WritePost, ErasePost, ClearAttachments, FindFiles, DetachFiles,
         DeleteRows, Unlink
    <3>2. req[r].op \notin {"upload", "associate"}
      BY <1>1, <3>1 DEF Shaped
    <3> QED BY <1>4, <1>5, <2>1, <3>2 DEF Advances, Adding, Answered
  <2> QED BY <2>2, <2>3, <2>4
<1>7. Counted(p)' \subseteq Counted(p)
  <2>1. CASE UNCHANGED file
    BY <2>1 DEF Counted, Attached
  <2>2. CASE \E S \in SUBSET Files :
               file' = [f \in Files |-> IF f \in S THEN [file[f] EXCEPT !.post = None] ELSE file[f]]
    BY <1>1, <2>2, PostFilesAssumption DEF Counted, Attached, DataOK
  <2>3. CASE DeleteRows(r)
    BY <2>3, PostFilesAssumption DEF DeleteRows, Counted, Attached
  <2>4. CASE ErasePost(r) \/ ClearAttachments(r)
    <3>1. Attached(req[r].post) \in SUBSET Files
      BY DEF Attached
    <3> QED BY <2>2, <2>4, <3>1 DEF ErasePost, ClearAttachments
  <2>5. CASE DetachFiles(r)
    <3> DEFINE gone == {f \in Counted(req[r].post) :
                  req[r].files # {} => f \in req[r].files /\ (req[r].user \in Admins \/ file[f].owner = req[r].user)}
    <3>1. gone \in SUBSET Files
      BY DEF Counted, Attached
    <3>2. file' = [f \in Files |-> IF f \in gone THEN [file[f] EXCEPT !.post = None] ELSE file[f]]
      BY <2>5 DEF DetachFiles
    <3> HIDE DEF gone
    <3> QED BY <2>2, <3>1, <3>2
  <2> QED BY <1>2, <2>1, <2>3, <2>4, <2>5 DEF Proceeds, WritePost, FindFiles, FindFree, Unlink, CallFails
<1> QED BY <1>3, <1>5, <1>6, <1>7, OthersFit

LEMMA RoomStep == LInv /\ [Next]_vars => LInv'
<1> SUFFICES ASSUME LInv, [Next]_vars
             PROVE  RoomLeft'
  BY DiskStep, PTL DEF LInv
<1> SUFFICES ASSUME NEW p \in Posts, p \notin unlimited' \cup overlapped'
             PROVE  Fits(p)'
  BY DEF RoomLeft
<1> USE DEF At
<1>1. DataOK /\ TInv /\ None # "upload" /\ None # "associate"
  BY TypeSplit, PostFilesAssumption DEF LInv, DInv, Ops
<1>2. CASE UNCHANGED vars
  <2>1. p \notin unlimited \cup overlapped /\ Counted(p)' = Counted(p)
    BY <1>2 DEF vars, Counted, Attached
  <2>2. \A x \in Adding(p)' : x \in Adding(p) /\ Pending(x)' = Pending(x)
    BY <1>2 DEF vars, Adding, Pending
  <2> QED BY <1>1, <2>1, <2>2, FewerFit DEF LInv, RoomLeft
<1>3. CASE Restart
  <2>1. p \notin unlimited \cup overlapped /\ Counted(p)' = Counted(p)
    BY <1>3 DEF Restart, Counted, Attached
  <2>2. Adding(p)' = {}
    <3>1. \A x \in Requests : ~Busy(req'[x])
      BY <1>1, <1>3, Restarting DEF Busy, Answered
    <3> QED BY <3>1 DEF Busy, Adding
  <2> QED BY <1>1, <2>1, <2>2, FewerFit DEF LInv, RoomLeft
<1>4. ASSUME NEW r \in Requests, Asking(r)
      PROVE  Fits(p)'
  <2>1. PICK q \in Request : AsksFor(r, q)
    BY <1>4 DEF Asking
  <2>2. req'[r] = q /\ \A x \in Requests \ {r} : req'[x] = req[x]
    BY <1>1, <2>1, Arriving DEF Becomes
  <2>3. r \notin Adding(p)'
    BY <2>1, <2>2 DEF AsksFor, Adding
  <2>4. p \notin unlimited \cup overlapped /\ Counted(p)' = Counted(p)
    BY <2>1 DEF AsksFor, history, Counted, Attached
  <2> QED BY <2>2, <2>3, <2>4, OthersFit
<1>5. ASSUME NEW r \in Requests, Creating(r)
      PROVE  Fits(p)'
  <2>1. PICK u \in Users, o \in Posts, fs \in SUBSET Files : CreatePost(r, u, o, fs)
    BY <1>5 DEF Creating
  <2>2. Becomes(r, Answered) \/ \E q : Becomes(r, q) /\ q.op = "create" /\ q.pc = "find"
    BY <1>1, <2>1, Announcing
  <2>3. r \notin Adding(p)' /\ \A x \in Requests \ {r} : req'[x] = req[x]
    BY <1>1, <2>2 DEF Becomes, Adding, Answered
  <2>4. p \notin unlimited \cup overlapped /\ Counted(p)' = Counted(p)
    BY <2>1 DEF CreatePost, history, Counted, Attached
  <2> QED BY <2>3, <2>4, OthersFit
<1>6. ASSUME NEW r \in Requests, Moving(r)
      PROVE  Fits(p)'
  <2>1. PICK u \in Users, o \in Posts, fs \in SUBSET Files : BulkMove(r, u, o, fs)
    BY <1>6 DEF Moving
  <2>2. Becomes(r, Answered)
    BY <1>1, <2>1, Finishing DEF BulkMove
  <2>3. r \notin Adding(p)' /\ \A x \in Requests \ {r} : req'[x] = req[x]
    BY <1>1, <2>2 DEF Becomes, Adding, Answered
  <2>4. p \notin unlimited \cup overlapped /\ p # o
    BY <2>1 DEF BulkMove
  <2>5. Counted(p)' \subseteq Counted(p)
    BY <1>1, <2>1, <2>4 DEF BulkMove, Counted, Attached, DataOK
  <2> QED BY <2>3, <2>4, <2>5, OthersFit
<1> QED BY <1>1, <1>2, <1>3, <1>4, <1>5, <1>6, Arrived, ProceedingFits DEF Next, TInv

(* validateFileCountLimits holds for uploads and associations that do not overlap: a post
   has too many files only through a request that counts nothing, or two at a time. *)
THEOREM LimitHolds == Spec => []LimitOverrunsOverlap
<1>1. Init => LInv
  <2> SUFFICES ASSUME Init, NEW p \in Posts
               PROVE  Fits(p)
    BY DiskInit DEF LInv, RoomLeft
  <2>1. \A f \in Files : file[f].post = None
    BY DEF Init, NoFile
  <2>2. Counted(p) = {}
    BY <2>1, PostFilesAssumption DEF Counted, Attached
  <2>3. Adding(p) = {}
    BY DEF Init, NoRequest, Adding
  <2> QED BY <2>2, <2>3, FS_EmptySet, PostFilesAssumption DEF Fits
<1>2. LInv => LimitOverrunsOverlap
  BY DEF LInv, RoomLeft, Fits, LimitOverrunsOverlap
<1> QED BY <1>1, <1>2, RoomStep, PTL DEF Spec

=============================================================================
