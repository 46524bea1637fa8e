------------------------------ MODULE PostFiles ------------------------------
(***************************************************************************)
(* Posts, the files attached to them, and the files on the disk: the posts   *)
(* service, the post file service, and the files and storage services.       *)
(*                                                                         *)
(* Each request is a record.  Its pc names the database or disk call it      *)
(* makes next; the first read of a request is its arrival:                   *)
(*                                                                         *)
(*   create      (insert)  -> [find -> attach]                              *)
(*   edit, pin   (check)   -> write                                         *)
(*   update      (check)   -> write -> clear -> [find -> attach]            *)
(*   delete      (check)   -> erase                                         *)
(*   upload      (check)   -> count -> {store -> row -> [thumbs]}, once for   *)
(*                            each file                                     *)
(*   file                     store -> row -> [thumbs]                      *)
(*   associate   (check)   -> free -> count -> attach                       *)
(*   remove      (check)   -> detach                                        *)
(*   deleteFile  (look)    -> unrow -> unlink                               *)
(*   bulkDelete  (look)    -> unrow -> unlink                               *)
(*                                                                         *)
(* No transaction spans two steps.  A call may throw, and the server may     *)
(* stop: the request is over where it stands.                               *)
(***************************************************************************)
EXTENDS Integers, FiniteSets

CONSTANTS
    Users, Admins, Posts, Files, Requests,
    Department,     \* of each user and each post, None for a post of no department
    Context,        \* the upload context of each file
    Type,           \* the media type of each file
    StoredPosts,    \* the posts and files there are in the beginning,
    StoredFiles,
    Owner,          \* and who made them
    MaxFilesPerPost,
    MaxUploads,     \* bound on the files of one upload
    Asks,           \* the requests there are
    Failing,        \* the calls that may throw
    MaxCrashes,     \* bound on the restarts
    None

Calls == {"find", "attach", "write", "clear", "erase", "count", "store", "row", "free",
          "detach", "unrow", "unlink"}
Ops == {"create", "edit", "update", "pin", "delete", "upload", "file", "associate", "remove",
        "deleteFile", "bulkDelete", "bulkMove"}

ASSUME PostFilesAssumption ==
    /\ Admins \subseteq Users /\ StoredPosts \subseteq Posts /\ StoredFiles \subseteq Files
    /\ Context \in [Files -> {"POST", "GENERAL"}]
    /\ Owner \in [StoredPosts \cup StoredFiles -> Users]
    /\ Asks \subseteq Ops /\ Failing \subseteq Calls
    /\ MaxFilesPerPost \in Nat /\ MaxUploads \in Nat \ {0} /\ MaxCrashes \in Nat
    /\ None \notin Users \cup Posts \cup Files /\ None \notin Ops /\ None \notin BOOLEAN
    /\ IsFiniteSet(Files)

VARIABLES
    post,       \* the rows of posts
    file,       \* the rows of files
    disk,       \* the files in the upload directory, as they were uploaded
    thumbs,     \* the files of which a thumbnail is there as well
    req,        \* the requests
    crashes,
    (* What the properties compare the state with: *)
    dropped,    \* files a failed or interrupted request left on the disk
    expected,   \* is the post pinned, counting every toggle
    raced,      \* posts pinned by one request while another toggled the pin
    unlimited,  \* posts that got files from a request that counts nothing
    overlapped, \* posts for which a request counted the files while another was adding some
    taken,      \* files moved out of another post by associateFilesWithPost
    grabbed     \* files attached by one request while associateFilesWithPost held them for free

history == <<dropped, expected, raced, unlimited, overlapped, taken, grabbed>>
vars == <<post, file, disk, thumbs, req, crashes,
          dropped, expected, raced, unlimited, overlapped, taken, grabbed>>

NoPost == [row |-> FALSE, author |-> None, pinned |-> FALSE]
NoFile == [row |-> FALSE, owner |-> None, post |-> None]
NoRequest == [op |-> None, user |-> None, post |-> None, files |-> {}, pin |-> None,
              left |-> 0, pc |-> "idle"]
Answered == [op |-> None, user |-> None, post |-> None, files |-> {}, pin |-> None,
             left |-> 0, pc |-> "done"]

Init ==
    /\ post = [p \in Posts |-> IF p \in StoredPosts
                               THEN [row |-> TRUE, author |-> Owner[p], pinned |-> FALSE] ELSE NoPost]
    /\ file = [f \in Files |-> IF f \in StoredFiles
                               THEN [row |-> TRUE, owner |-> Owner[f], post |-> None] ELSE NoFile]
    /\ disk = StoredFiles /\ thumbs = {}
    /\ req = [r \in Requests |-> NoRequest]
    /\ crashes = 0
    /\ dropped = {} /\ expected = [p \in Posts |-> FALSE] /\ raced = {}
    /\ unlimited = {} /\ overlapped = {} /\ taken = {} /\ grabbed = {}

-----------------------------------------------------------------------------
(* What the requests read. *)

Attached(p) == {f \in Files : file[f].post = p}
Counted(p) == {f \in Attached(p) : Context[f] = "POST"}

(* The ids that were never given away. *)
NewPost(p) == ~post[p].row /\ post[p].author = None
NewFile(f) == ~file[f].row /\ file[f].owner = None /\ f \notin disk /\ \A r \in Requests : f \notin req[r].files

(* validateUserCanEditPost: an admin may edit a post that does not exist. *)
CanEdit(u, p) == u \in Admins \/ (post[p].row /\ post[p].author = u)

(* validatePostAccess *)
CanAccess(u, p) ==
    post[p].row /\ (u \in Admins \/ post[p].author = u \/ Department[p] \in {None, Department[u]})

(* validateUserCanAccessDepartment, for a post of a department. *)
CanPost(u, p) == u \in Admins \/ Department[p] \in {None, Department[u]}

(* What both validatePostFile and the limits of its upload context let through. *)
UploadTypes == [POST |-> {"jpeg", "png", "webp", "heic", "heif", "mp4", "quicktime", "3gpp", "pdf"},
                GENERAL |-> {"jpeg", "png", "webp", "pdf"}]
PostTypes == {"jpeg", "png", "gif", "webp", "pdf", "office", "plain", "csv"}
Accepted(f, op) == Type[f] \in UploadTypes[Context[f]] /\ (op = "upload" => Type[f] \in PostTypes)

-----------------------------------------------------------------------------
(* Requests arrive. *)

Begin(r, op, u, p, fs, pin, n, pc) ==
    /\ op \in Asks /\ req[r].pc = "idle"
    /\ req' = [req EXCEPT ![r] = [op |-> op, user |-> u, post |-> p, files |-> fs, pin |-> pin,
                                  left |-> n, pc |-> pc]]
At(r, pc) == req[r].pc = pc
Go(r, pc) == req' = [req EXCEPT ![r].pc = pc]
Done(r) == req' = [req EXCEPT ![r] = Answered]

(* create announces the post before it looks at the attachments. *)
CreatePost(r, u, p, fs) ==
    /\ NewPost(p) /\ CanPost(u, p)
    /\ IF fs = {} THEN "create" \in Asks /\ At(r, "idle") /\ Done(r)
       ELSE Begin(r, "create", u, p, fs, None, 0, "find")
    /\ post' = [post EXCEPT ![p] = [row |-> TRUE, author |-> u, pinned |-> FALSE]]
    /\ UNCHANGED <<file, disk, thumbs, crashes, history>>

(* update of the post alone, and maybe its pin, or with a list of attachments too. *)
Write(r, op, u, p, fs, pin) ==
    /\ Begin(r, op, u, p, fs, pin, 0, "write")
    /\ UNCHANGED <<post, file, disk, thumbs, crashes, history>>

UpdatePost(r, u, p, op, fs, pin) == CanEdit(u, p) /\ Write(r, op, u, p, fs, pin)
TogglePin(r, u, p) == u \in Admins /\ post[p].row /\ Write(r, "pin", u, p, {}, ~post[p].pinned)

DeletePost(r, u, p) ==
    /\ CanEdit(u, p) /\ Begin(r, "delete", u, p, {}, None, 0, "erase")
    /\ UNCHANGED <<post, file, disk, thumbs, crashes, history>>

UploadPostFiles(r, u, p, n) ==
    /\ CanAccess(u, p) /\ Begin(r, "upload", u, p, {}, None, n, "count")
    /\ UNCHANGED <<post, file, disk, thumbs, crashes, history>>

(* uploadFile of the files controller; its contextId is a post or nothing. *)
UploadFile(r, u, p) ==
    /\ Begin(r, "file", u, p, {}, None, 1, "store")
    /\ UNCHANGED <<post, file, disk, thumbs, crashes, history>>

AssociateFiles(r, u, p, fs) ==
    /\ CanAccess(u, p) /\ Begin(r, "associate", u, p, fs, None, 0, "free")
    /\ UNCHANGED <<post, file, disk, thumbs, crashes, history>>

RemoveAttachments(r, u, p, fs) ==
    /\ CanAccess(u, p) /\ Begin(r, "remove", u, p, fs, None, 0, "detach")
    /\ UNCHANGED <<post, file, disk, thumbs, crashes, history>>

(* getFileById and the check of the owner. *)
DeleteFile(r, u, f) ==
    /\ file[f].row /\ file[f].owner = u /\ Begin(r, "deleteFile", u, None, {f}, None, 0, "unrow")
    /\ UNCHANGED <<post, file, disk, thumbs, crashes, history>>

BulkDelete(r, u, fs) ==
    /\ Begin(r, "bulkDelete", u, None, {f \in fs : file[f].row /\ file[f].owner = u}, None, 0,
             "unrow")
    /\ UNCHANGED <<post, file, disk, thumbs, crashes, history>>

(* The files that other requests of associateFilesWithPost have found free. *)
Held(r) == UNION {req[x].files : x \in {y \in Requests \ {r} :
                     req[y].op = "associate" /\ req[y].pc \in {"count", "attach"}}}

(* bulkMove asks neither for the post's author nor for its limit; without the post
   the foreign key of context_id lets nothing through. *)
BulkMove(r, u, p, fs) ==
    /\ post[p].row /\ "bulkMove" \in Asks /\ At(r, "idle") /\ Done(r)
    /\ file' = [f \in Files |-> IF f \in fs /\ file[f].row /\ file[f].owner = u
                                THEN [file[f] EXCEPT !.post = p] ELSE file[f]]
    /\ unlimited' = unlimited \cup {p} /\ grabbed' = grabbed \cup (fs \cap Held(r))
    /\ UNCHANGED <<post, disk, thumbs, crashes, dropped, expected, raced, overlapped, taken>>

-----------------------------------------------------------------------------
(* The steps of the posts service. *)

Toggling == {x \in Requests : req[x].op = "pin" /\ At(x, "write")}

(* A mutant: togglePin sets the pin. *)
WritePostPins(r) ==
    /\ At(r, "write")
    /\ LET q == req[r]  p == q.post IN
         \/ /\ post[p].row
            /\ post' = [post EXCEPT ![p].pinned = IF q.pin = None THEN @ ELSE TRUE]
            /\ expected' = [expected EXCEPT ![p] = CASE q.op = "pin" -> ~@
                                                     [] q.op # "pin" /\ q.pin # None -> q.pin
                                                     [] OTHER -> @]
            /\ raced' = IF q.pin # None /\ \E x \in Toggling \ {r} : req[x].post = p
                        THEN raced \cup {p} ELSE raced
            /\ IF q.op = "update" THEN Go(r, "clear") ELSE Done(r)
         \/ ~post[p].row /\ Done(r) /\ UNCHANGED <<post, expected, raced>>
    /\ UNCHANGED <<file, disk, thumbs, crashes, dropped, unlimited, overlapped, taken, grabbed>>

(* post.update throws when the post is gone. *)
WritePost(r) ==
    /\ At(r, "write")
    /\ LET q == req[r]  p == q.post IN
         \/ /\ post[p].row
            /\ post' = [post EXCEPT ![p].pinned = IF q.pin = None THEN @ ELSE q.pin]
            /\ expected' = [expected EXCEPT ![p] = CASE q.op = "pin" -> ~@
                                                     [] q.op # "pin" /\ q.pin # None -> q.pin
                                                     [] OTHER -> @]
            /\ raced' = IF q.pin # None /\ \E x \in Toggling \ {r} : req[x].post = p
                        THEN raced \cup {p} ELSE raced
            /\ IF q.op = "update" THEN Go(r, "clear") ELSE Done(r)
         \/ ~post[p].row /\ Done(r) /\ UNCHANGED <<post, expected, raced>>
    /\ UNCHANGED <<file, disk, thumbs, crashes, dropped, unlimited, overlapped, taken, grabbed>>

(* A mutant: the files keep the id of the deleted post. *)
ErasePostOnly(r) ==
    /\ At(r, "erase") /\ Done(r)
    /\ post' = [post EXCEPT ![req[r].post].row = FALSE]
    /\ UNCHANGED <<file, disk, thumbs, crashes, history>>

(* The foreign key sets the context_id of the files to NULL. *)
ErasePost(r) ==
    /\ At(r, "erase") /\ Done(r)
    /\ post' = [post EXCEPT ![req[r].post].row = FALSE]
    /\ file' = [f \in Files |-> IF f \in Attached(req[r].post)
                                THEN [file[f] EXCEPT !.post = None] ELSE file[f]]
    /\ UNCHANGED <<disk, thumbs, crashes, history>>

(* updatePostAttachments: the old list goes before the new one is looked at. *)
ClearAttachments(r) ==
    /\ At(r, "clear")
    /\ file' = [f \in Files |-> IF f \in Attached(req[r].post)
                                THEN [file[f] EXCEPT !.post = None] ELSE file[f]]
    /\ IF req[r].files = {} THEN Done(r) ELSE Go(r, "find")
    /\ UNCHANGED <<post, disk, thumbs, crashes, history>>

(* The files the user asked for are theirs: findMany by id, uploader and context. *)
FindFiles(r) ==
    /\ At(r, "find")
    /\ IF \A f \in req[r].files : file[f].row /\ file[f].owner = req[r].user /\ Context[f] = "POST"
       THEN Go(r, "attach") ELSE Done(r)
    /\ UNCHANGED <<post, file, disk, thumbs, crashes, history>>

(* The updateMany by id alone, of both services.  Rows that are gone are left out. *)
AttachFiles(r) ==
    /\ At(r, "attach") /\ Done(r)
    /\ LET q == req[r]  p == q.post  rows == {f \in q.files : file[f].row} IN
         /\ IF post[p].row
            THEN file' = [f \in Files |-> IF f \in rows THEN [file[f] EXCEPT !.post = p] ELSE file[f]]
            ELSE UNCHANGED file
         /\ unlimited' = IF q.op = "associate" THEN unlimited ELSE unlimited \cup {p}
         /\ taken' = IF q.op # "associate" \/ ~post[p].row THEN taken
                     ELSE taken \cup {f \in rows : file[f].post \notin {p, None}}
         /\ grabbed' = grabbed \cup (rows \cap Held(r))
    /\ UNCHANGED <<post, disk, thumbs, crashes, dropped, expected, raced, overlapped>>

-----------------------------------------------------------------------------
(* The steps of the post file service. *)

(* A mutant: files that are attached elsewhere are not left out. *)
FindFreeAny(r) ==
    /\ At(r, "free")
    /\ IF \A f \in req[r].files : file[f].row /\ file[f].owner = req[r].user /\ Context[f] = "POST"
       THEN Go(r, "count") ELSE Done(r)
    /\ UNCHANGED <<post, file, disk, thumbs, crashes, history>>

FindFree(r) ==
    /\ At(r, "free")
    /\ IF \A f \in req[r].files : /\ file[f].row /\ file[f].owner = req[r].user
                                  /\ Context[f] = "POST" /\ file[f].post = None
       THEN Go(r, "count") ELSE Done(r)
    /\ UNCHANGED <<post, file, disk, thumbs, crashes, history>>

(* Requests that have counted the files of p and are about to add some. *)
Adding(p) == {r \in Requests : /\ req[r].op \in {"upload", "associate"} /\ req[r].post = p
                               /\ \/ req[r].pc \in {"store", "row", "attach"}
                                  \/ At(r, "thumbs") /\ req[r].left # 0}

More(q) == IF q.op = "upload" THEN q.left ELSE Cardinality(q.files)

(* A mutant: the files to add are not counted. *)
CountFilesThere(r) ==
    /\ At(r, "count")
    /\ LET q == req[r] IN
         /\ IF Cardinality(Counted(q.post)) > MaxFilesPerPost THEN Done(r)
            ELSE Go(r, IF q.op = "upload" THEN "store" ELSE "attach")
         /\ overlapped' = IF Adding(q.post) = {} THEN overlapped ELSE overlapped \cup {q.post}
    /\ UNCHANGED <<post, file, disk, thumbs, crashes, dropped, expected, raced, unlimited, taken, grabbed>>

(* validateFileCountLimits *)
CountFiles(r) ==
    /\ At(r, "count")
    /\ LET q == req[r] IN
         /\ IF Cardinality(Counted(q.post)) + More(q) > MaxFilesPerPost THEN Done(r)
            ELSE Go(r, IF q.op = "upload" THEN "store" ELSE "attach")
         /\ overlapped' = IF Adding(q.post) = {} THEN overlapped ELSE overlapped \cup {q.post}
    /\ UNCHANGED <<post, file, disk, thumbs, crashes, dropped, expected, raced, unlimited, taken, grabbed>>

(* updateMany: of a list of files, only an admin's request takes those of others. *)
DetachFiles(r) ==
    /\ At(r, "detach") /\ Done(r)
    /\ LET q == req[r]
           gone == {f \in Counted(q.post) :
                      q.files # {} => f \in q.files /\ (q.user \in Admins \/ file[f].owner = q.user)} IN
         file' = [f \in Files |-> IF f \in gone THEN [file[f] EXCEPT !.post = None] ELSE file[f]]
    /\ UNCHANGED <<post, disk, thumbs, crashes, history>>

-----------------------------------------------------------------------------
(* The steps of the files service. *)

GoUpload(r, fs, n, pc) ==
    req' = [req EXCEPT ![r] = [op |-> @.op, user |-> @.user, post |-> @.post, files |-> fs,
                               pin |-> @.pin, left |-> n, pc |-> pc]]

(* The next file is validated and written to the disk, under a name of its own. *)
StoreFile(r) ==
    /\ At(r, "store")
    /\ \E f \in Files :
         /\ NewFile(f)
         /\ IF Accepted(f, req[r].op)
            THEN /\ disk' = disk \cup {f}
                 /\ GoUpload(r, {f}, req[r].left - 1, "row")
            ELSE Done(r) /\ UNCHANGED disk
    /\ UNCHANGED <<post, file, thumbs, crashes, history>>

NextFile(r) == IF req[r].left = 0 THEN Done(r) ELSE GoUpload(r, {}, req[r].left, "store")

(* isImageFile: the types whose files get thumbnails, by their extension. *)
Images == {"jpeg", "png", "gif", "webp"}

(* file.create; the foreign key of context_id wants the post. *)
CreateRow(r) ==
    /\ At(r, "row")
    /\ LET q == req[r] IN
         \/ /\ q.post # None => post[q.post].row
            /\ file' = [f \in Files |-> IF f \in q.files
                          THEN [row |-> TRUE, owner |-> q.user, post |-> q.post] ELSE file[f]]
            /\ unlimited' = IF q.op = "upload" THEN unlimited ELSE unlimited \cup ({q.post} \ {None})
            /\ IF \E f \in q.files : Type[f] \in Images THEN Go(r, "thumbs") ELSE NextFile(r)
            /\ UNCHANGED dropped
         \/ /\ q.post # None /\ ~post[q.post].row
            /\ dropped' = dropped \cup q.files /\ Done(r)
            /\ UNCHANGED <<file, unlimited>>
    /\ UNCHANGED <<post, disk, thumbs, crashes, expected, raced, overlapped, taken, grabbed>>

(* generateThumbnails writes up to three of them beside the file, and catches what
   throws: the image may not be one, be named otherwise, or be gone by now. *)
MakeThumbnails(r) ==
    /\ At(r, "thumbs") /\ NextFile(r)
    /\ \E made \in SUBSET (req[r].files \cap disk) : thumbs' = thumbs \cup made
    /\ UNCHANGED <<post, file, disk, crashes, history>>

(* A mutant: the disk first, then the rows. *)
DeleteRowsLast(r) ==
    /\ At(r, "unrow") /\ Go(r, "unlink")
    /\ disk' = disk \ req[r].files
    /\ UNCHANGED <<post, file, thumbs, crashes, history>>

(* delete throws when the row is gone, deleteMany does not. *)
DeleteRows(r) ==
    /\ At(r, "unrow")
    /\ LET q == req[r] IN
         IF q.op = "deleteFile" /\ \E f \in q.files : ~file[f].row
         THEN Done(r) /\ UNCHANGED file
         ELSE /\ file' = [f \in Files |-> IF f \in q.files
                                          THEN [row |-> FALSE, owner |-> file[f].owner, post |-> None]
                                          ELSE file[f]]
              /\ Go(r, "unlink")
    /\ UNCHANGED <<post, disk, thumbs, crashes, history>>

(* Of the file alone: its thumbnails stay. *)
Unlink(r) ==
    /\ At(r, "unlink") /\ Done(r)
    /\ disk' = disk \ req[r].files
    /\ UNCHANGED <<post, file, thumbs, crashes, history>>

-----------------------------------------------------------------------------
(* Failures. *)

(* What a request leaves behind on the disk when it ends before its next call. *)
LeftBy(q) == IF q.pc \in {"row", "unlink"} THEN {f \in q.files : f \in disk /\ ~file[f].row} ELSE {}

(* A call throws; deleteFile of the storage service catches the error of unlink. *)
CallFails(r) ==
    /\ req[r].pc \in Failing
    /\ Done(r) /\ dropped' = dropped \cup LeftBy(req[r])
    /\ UNCHANGED <<post, file, disk, thumbs, crashes, expected, raced, unlimited, overlapped, taken, grabbed>>

Restart ==
    /\ crashes < MaxCrashes /\ crashes' = crashes + 1
    /\ dropped' = dropped \cup UNION {LeftBy(req[r]) : r \in Requests}
    /\ req' = [r \in Requests |-> IF At(r, "idle") THEN req[r]
                                  ELSE Answered]
    /\ UNCHANGED <<post, file, disk, thumbs, expected, raced, unlimited, overlapped, taken, grabbed>>

Arrives(r) == At(r, "idle") /\ \E u \in Users :
    \/ \E p \in Posts :
         \/ TogglePin(r, u, p) \/ DeletePost(r, u, p)
         \/ \E n \in 1 .. MaxUploads : UploadPostFiles(r, u, p, n)
         \/ \E pin \in {None} \cup BOOLEAN : UpdatePost(r, u, p, "edit", {}, pin)
         \/ \E fs \in SUBSET {f \in Files : ~NewFile(f)} :
              \/ CreatePost(r, u, p, fs) \/ UpdatePost(r, u, p, "update", fs, None)
              \/ AssociateFiles(r, u, p, fs) \/ RemoveAttachments(r, u, p, fs)
              \/ BulkMove(r, u, p, fs)
    \/ \E p \in Posts \cup {None} : UploadFile(r, u, p)
    \/ \E f \in Files : DeleteFile(r, u, f)
    \/ \E fs \in SUBSET {f \in Files : ~NewFile(f)} : BulkDelete(r, u, fs)

Proceeds(r) ==
    \/ WritePost(r) \/ ErasePost(r) \/ ClearAttachments(r) \/ FindFiles(r) \/ AttachFiles(r)
    \/ FindFree(r) \/ CountFiles(r) \/ DetachFiles(r)
    \/ StoreFile(r) \/ CreateRow(r) \/ MakeThumbnails(r)
    \/ DeleteRows(r) \/ Unlink(r) \/ CallFails(r)

Next == Restart \/ \E r \in Requests : Arrives(r) \/ Proceeds(r)

Spec == Init /\ [][Next]_vars

-----------------------------------------------------------------------------
(* Properties. *)

(* Every variable has its type, and a file is attached only while it and its post are
   rows: the foreign key of files, which a deletion of the post sets to NULL. *)
TypeOK ==
    /\ post \in [Posts -> [row: BOOLEAN, author: Users \cup {None}, pinned: BOOLEAN]]
    /\ file \in [Files -> [row: BOOLEAN, owner: Users \cup {None}, post: Posts \cup {None}]]
    /\ disk \subseteq Files /\ thumbs \subseteq Files /\ crashes \in 0 .. MaxCrashes
    /\ req \in [Requests -> [op: Ops \cup {None}, user: Users \cup {None},
                             post: Posts \cup {None}, files: SUBSET Files,
                             pin: BOOLEAN \cup {None}, left: 0 .. MaxUploads,
                             pc: Calls \cup {"thumbs", "idle", "done"}]]
    /\ \A f \in Files : file[f].post # None => file[f].row /\ post[file[f].post].row

(* Every row of files has its file on the disk, whatever fails and whoever deletes at
   the same time: deleteFile and bulkDelete remove the row before the file, and
   uploadFile stores the file before the row. *)
RowsHaveFiles == \A f \in Files : file[f].row => f \in disk

(* An uploaded file on the disk without a row is one a request is still working on, or
   one that a failed call or a restart left behind: requests that all succeed leave no
   such file, also when they delete the same files at the same time.  They do leave its
   thumbnails, which no request deletes. *)
OrphansWereDropped ==
    \A f \in disk : \/ file[f].row \/ f \in dropped
                    \/ \E r \in Requests : f \in req[r].files /\ req[r].pc \in {"row", "unlink"}

(* Thumbnails are those of files that got a row, also when the file was deleted before
   they were made: an upload that failed or was cut short before its row leaves none. *)
ThumbnailsHadRows == \A f \in thumbs : file[f].owner # None

(* The files and the rows agree: the three properties above. *)
DiskMatchesRows == RowsHaveFiles /\ OrphansWereDropped /\ ThumbnailsHadRows

(* A post has more than MaxFilesPerPost files only if a request that counts nothing
   (create, update, bulkMove, uploadFile) gave it some, or two requests counted at the
   same time: validateFileCountLimits holds for uploads and associations in turn. *)
LimitOverrunsOverlap ==
    \A p \in Posts \ (unlimited \cup overlapped) : Cardinality(Counted(p)) <= MaxFilesPerPost

(* Every toggle of a pin counts, and every update of it is the last word until the next
   one, unless the pin was written between the read and the write of a toggle. *)
PinFollowsToggles == \A p \in Posts \ raced : post[p].row => post[p].pinned = expected[p]

(* associateFilesWithPost of the post file service takes a file from another post only
   if that post got it after the request had found it free. *)
TakenFilesWereFree == taken \subseteq grabbed
=============================================================================
