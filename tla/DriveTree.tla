------------------------------ MODULE DriveTree ------------------------------
(***************************************************************************)
(* The node tree of one owner of CH-Api-Drive: handlers/files.rs (folders, *)
(* direct upload, move, trash, restore, purge) over repository/nodes.rs,   *)
(* the owner's row of drive_users, the blobs and thumbnails of             *)
(* services/storage.rs, and the recomputation of used_bytes in             *)
(* handlers/admin.rs.                                                      *)
(*                                                                         *)
(* As in UploadSession a handler is cut at its awaits, and a SQL statement *)
(* is atomic.  A purge is a READ COMMITTED transaction of several          *)
(* statements: each of them sees what is committed when it starts.  What a *)
(* transaction has deleted is in deleting until it commits, and statements *)
(* that need those rows wait.                                              *)
(*                                                                         *)
(* Names are left out: a name that is taken is the fault "conflict", which *)
(* makes the statement fail; so rename changes nothing here.               *)
(***************************************************************************)
EXTENDS Integers, FiniteSets, FiniteSetsExt

CONSTANTS
    NumNodes,    \* bound: how many folders and files are ever made, besides the root
    Handlers,    \* request slots
    NoHandler,   \* nobody
    FileSizes,   \* the sizes of the files that are uploaded
    Quota,       \* quota_bytes, which nothing changes here
    Ops,         \* which requests arrive, a subset of Operations
    Faults       \* which failures happen, a subset of FaultKinds

Operations == {"create_folder", "upload", "upload_image", "move", "trash", "restore",
               "purge_node", "purge_trash", "recompute_used"}
FaultKinds == {"drop", "conflict", "stream", "unlink"}

ASSUME NodesAssumption == NumNodes \in Nat
ASSUME HandlersAssumption == NoHandler \notin Handlers
ASSUME SizesAssumption == FileSizes \subseteq Nat /\ Quota \in Nat
ASSUME ScopeAssumption == Ops \subseteq Operations /\ Faults \subseteq FaultKinds

Root == 0
NoNode == -1
Nodes == 0 .. NumNodes

(***************************************************************************)
(* STATE                                                                   *)
(***************************************************************************)
VARIABLES
    kind,         \* [Nodes -> Kinds]
    parent_id,    \* [Nodes -> Nodes \cup {NoNode}]
    trashed,      \* [Nodes -> BOOLEAN], trashed_at IS NOT NULL
    size_bytes,   \* [Nodes -> Nat]
    has_thumbnail,\* [Nodes -> BOOLEAN]
    used_bytes,   \* of the owner's row
    rowLock,      \* the handler whose transaction holds the owner's row FOR UPDATE
    blob,         \* [Nodes -> BOOLEAN], there is a file at the storage_key of the node
    thumb,        \* [Nodes -> BOOLEAN], there is a file at its thumb_key
    pc,           \* [Handlers -> Labels], the next await of the handler
    req,          \* [Handlers -> Request], its local variables
    deleting      \* [Handlers -> SUBSET Nodes], rows its open transaction has deleted

treeVars == <<kind, parent_id, trashed, size_bytes>>
nodeVars == <<treeVars, has_thumbnail>>
userVars == <<used_bytes, rowLock>>
fsVars == <<blob, thumb>>
handlerVars == <<pc, req, deleting>>
vars == <<nodeVars, userVars, fsVars, handlerVars>>

\* "unused": no row yet.  "gone": deleted.
Kinds == {"unused", "folder", "file", "gone"}

UploadLabels == {"write_blob", "write_over_quota", "lock_user", "insert_file",
                 "commit_upload", "unlink_blob", "read_blob", "write_thumb",
                 "set_media_meta"}
PurgeLabels == {"select_blobs", "sum_freed", "delete_nodes", "release_quota", "unlink_blobs"}
Labels == {"idle", "create_folder", "check_descendant", "move_node", "trash", "restore",
           "write_used"} \cup UploadLabels \cup PurgeLabels

\* The labels at which the handler's transaction holds the owner's row.
InTransaction == {"insert_file", "commit_upload"}

Request == [node: Nodes \cup {NoNode},     \* the node the request is about; NoNode: the trash
            parent: Nodes \cup {NoNode},   \* parent resolved by create_folder, upload or move
            amount: Nat,                   \* size of the upload, bytes freed, or sum of sizes
            image: BOOLEAN,                \* the upload is classified as an image
            blobs: SUBSET Nodes,           \* PurgedBlob list: blobs still to delete
            thumbs: SUBSET Nodes]          \* and thumbnails still to delete
NoRequest == [node |-> NoNode, parent |-> NoNode, amount |-> 0, image |-> FALSE,
              blobs |-> {}, thumbs |-> {}]

(***************************************************************************)
(* QUERIES                                                                 *)
(***************************************************************************)
Rows == {n \in Nodes : kind[n] \in {"folder", "file"}}
Files(S) == {n \in S : kind[n] = "file"}
Bytes(S) == MapThenSumSet(LAMBDA n : size_bytes[n], Files(S))

\* WITH RECURSIVE subtree: the least set that holds n and the children of its members.
Subtree(n) ==
    {m \in Rows : /\ n \in Rows
                  /\ \A S \in SUBSET Rows :
                       n \in S /\ (\A c \in Rows : parent_id[c] \in S => c \in S) => m \in S}

\* UNION ALL keeps duplicates: on a node that is below itself the query never ends.
OnCycle(n) == \E c \in Rows : parent_id[c] = n /\ n \in Subtree(c)

Trash == {n \in Rows : trashed[n]}

\* Mutant: the check on trashed_at is forgotten.
resolve_parent_any(p) == kind[p] = "folder"

resolve_parent(p) == p = Root \/ (kind[p] = "folder" /\ ~trashed[p])

\* A number that nothing knows: a new row and a new storage_key get a fresh UUID.
Unknown(n) == kind[n] = "unused" /\ ~blob[n] /\ \A h \in Handlers : req[h].node # n
Fresh(n) == Unknown(n) /\ \A m \in 0 .. n - 1 : ~Unknown(m)

\* A statement that touches, or makes a foreign key to, a row of S waits for these.
Deleted(S) == \E h \in Handlers : deleting[h] \cap S # {}

\* A file inserted and not committed holds a key share lock on its parent.
KeyShared(S) == \E h \in Handlers : pc[h] = "commit_upload" /\ req[h].parent \in S

(***************************************************************************)
(* CONTROL OF A HANDLER                                                    *)
(***************************************************************************)
Goto(h, label) == pc' = [pc EXCEPT ![h] = label]

Return(h) == /\ pc' = [pc EXCEPT ![h] = "idle"]
             /\ req' = [req EXCEPT ![h] = NoRequest]

Receive(h, op, label, request) ==
    /\ op \in Ops
    /\ pc[h] = "idle"
    /\ pc' = [pc EXCEPT ![h] = label]
    /\ req' = [req EXCEPT ![h] = request]
    /\ UNCHANGED <<nodeVars, userVars, fsVars, deleting>>

\* Mutant: a plain SELECT, without FOR UPDATE.
RowFree_unlocked == TRUE

RowFree == rowLock = NoHandler
UnlockRow == rowLock' = NoHandler

\* INSERT of one row
InsertRow(n, row_kind, parent, size) ==
    /\ kind' = [kind EXCEPT ![n] = row_kind]
    /\ parent_id' = [parent_id EXCEPT ![n] = parent]
    /\ size_bytes' = [size_bytes EXCEPT ![n] = size]
    /\ UNCHANGED <<trashed, has_thumbnail>>

\* Storage::delete; every caller ignores its failure.
DeleteBlob(n) == /\ \/ blob' = [blob EXCEPT ![n] = FALSE]
                    \/ "unlink" \in Faults /\ UNCHANGED blob
                 /\ UNCHANGED thumb

DeleteThumb(n) == /\ \/ thumb' = [thumb EXCEPT ![n] = FALSE]
                     \/ "unlink" \in Faults /\ UNCHANGED thumb
                  /\ UNCHANGED blob

Init ==
    /\ kind = [n \in Nodes |-> IF n = Root THEN "folder" ELSE "unused"]
    /\ parent_id = [n \in Nodes |-> NoNode]
    /\ trashed = [n \in Nodes |-> FALSE]
    /\ size_bytes = [n \in Nodes |-> 0]
    /\ has_thumbnail = [n \in Nodes |-> FALSE]
    /\ used_bytes = 0
    /\ rowLock = NoHandler
    /\ blob = [n \in Nodes |-> FALSE]
    /\ thumb = [n \in Nodes |-> FALSE]
    /\ pc = [h \in Handlers |-> "idle"]
    /\ req = [h \in Handlers |-> NoRequest]
    /\ deleting = [h \in Handlers |-> {}]

(***************************************************************************)
(* POST /folders                                                           *)
(***************************************************************************)
CreateReceive(h, n, p) ==
    /\ Fresh(n)
    /\ resolve_parent(p)
    /\ Receive(h, "create_folder", "create_folder", [NoRequest EXCEPT !.node = n, !.parent = p])

\* One INSERT, whose two foreign keys need the owner's row and the parent's.
CreateFolder(h) ==
    LET n == req[h].node
        p == req[h].parent
    IN /\ pc[h] = "create_folder"
       /\ RowFree /\ ~Deleted({p})
       /\ \/ p \in Rows /\ InsertRow(n, "folder", p, 0)
          \/ (p \notin Rows \/ "conflict" \in Faults) /\ UNCHANGED nodeVars
       /\ Return(h)
       /\ UNCHANGED <<userVars, fsVars, deleting>>

(***************************************************************************)
(* POST /files                                                             *)
(***************************************************************************)
remaining == Max({0, Quota - used_bytes})

\* ensure_user and resolve_parent.  remaining comes from the row read here; it
\* only decides how early the upload is refused.
UploadReceive(h, n, p, size) ==
    /\ Fresh(n)
    /\ resolve_parent(p)
    /\ \E op \in {"upload", "upload_image"} :
          Receive(h, op, IF size > remaining THEN "write_over_quota" ELSE "write_blob",
                  [NoRequest EXCEPT !.node = n, !.parent = p, !.amount = size,
                                    !.image = (op = "upload_image")])

\* create_writer and the loop over the chunks of the stream
UploadWrite(h) ==
    /\ pc[h] \in {"write_blob", "write_over_quota"}
    /\ blob' = [blob EXCEPT ![req[h].node] = TRUE]
    /\ Goto(h, IF pc[h] = "write_blob" THEN "lock_user" ELSE "unlink_blob")
    /\ UNCHANGED <<nodeVars, userVars, thumb, req, deleting>>

\* The stream breaks off: the handler returns and the file stays.
UploadStreamFails(h) ==
    /\ "stream" \in Faults
    /\ pc[h] \in {"write_blob", "write_over_quota"}
    /\ blob' = [blob EXCEPT ![req[h].node] = TRUE]
    /\ Return(h)
    /\ UNCHANGED <<nodeVars, userVars, thumb, deleting>>

\* begin and quota_used_for_update; a refusal rolls back.
UploadLockUser(h) ==
    /\ pc[h] = "lock_user"
    /\ RowFree
    /\ IF used_bytes + req[h].amount > Quota
       THEN Goto(h, "unlink_blob") /\ UNCHANGED rowLock
       ELSE Goto(h, "insert_file") /\ rowLock' = h
    /\ UNCHANGED <<nodeVars, used_bytes, fsVars, req, deleting>>

UploadRollback(h) == Goto(h, "unlink_blob") /\ UnlockRow

\* insert_file: the row is not visible yet, the lock on the parent is taken.
UploadInsert(h) ==
    LET p == req[h].parent
    IN /\ pc[h] = "insert_file"
       /\ ~Deleted({p})
       /\ \/ p \in Rows /\ Goto(h, "commit_upload") /\ UNCHANGED rowLock
          \/ (p \notin Rows \/ "conflict" \in Faults) /\ UploadRollback(h)
       /\ UNCHANGED <<nodeVars, used_bytes, fsVars, req, deleting>>

\* Only an image gets a thumbnail.  The event that is published last changes
\* nothing here.
AfterCommit(h) == IF req[h].image THEN Goto(h, "read_blob") /\ UNCHANGED req ELSE Return(h)

\* Mutant: add_used_bytes is forgotten.
UploadCommit_uncounted(h) ==
    /\ pc[h] = "commit_upload"
    /\ InsertRow(req[h].node, "file", req[h].parent, req[h].amount)
    /\ UnlockRow
    /\ AfterCommit(h)
    /\ UNCHANGED <<used_bytes, fsVars, deleting>>

\* add_used_bytes and commit
UploadCommit(h) ==
    /\ pc[h] = "commit_upload"
    /\ InsertRow(req[h].node, "file", req[h].parent, req[h].amount)
    /\ used_bytes' = used_bytes + req[h].amount
    /\ UnlockRow
    /\ AfterCommit(h)
    /\ UNCHANGED <<fsVars, deleting>>

UploadUnlink(h) ==
    /\ pc[h] = "unlink_blob"
    /\ DeleteBlob(req[h].node)
    /\ Return(h)
    /\ UNCHANGED <<nodeVars, userVars, deleting>>

\* Mutant: an image that cannot be read or decoded is marked all the same.
ThumbnailRead_unchecked(h) ==
    /\ pc[h] = "read_blob"
    /\ \/ blob[req[h].node] /\ Goto(h, "write_thumb")
       \/ Goto(h, "set_media_meta")
    /\ UNCHANGED <<nodeVars, userVars, fsVars, req, deleting>>

\* generate_thumbnail: open the blob, read it and decode it.  The file may be
\* gone by now, and its content need not be an image.
ThumbnailRead(h) ==
    /\ pc[h] = "read_blob"
    /\ \/ blob[req[h].node] /\ Goto(h, "write_thumb") /\ UNCHANGED req
       \/ Return(h)
    /\ UNCHANGED <<nodeVars, userVars, fsVars, deleting>>

ThumbnailWrite(h) ==
    /\ pc[h] = "write_thumb"
    /\ thumb' = [thumb EXCEPT ![req[h].node] = TRUE]
    /\ Goto(h, "set_media_meta")
    /\ UNCHANGED <<nodeVars, userVars, blob, req, deleting>>

\* One UPDATE, of no row when the node has been purged.
SetMediaMeta(h) ==
    LET n == req[h].node
    IN /\ pc[h] = "set_media_meta"
       /\ ~Deleted({n})
       /\ has_thumbnail' = [has_thumbnail EXCEPT ![n] = @ \/ n \in Rows]
       /\ Return(h)
       /\ UNCHANGED <<treeVars, userVars, fsVars, deleting>>

(***************************************************************************)
(* PATCH /nodes/{id} with a parent_id                                      *)
(***************************************************************************)
\* The node and the parent are read.  The kind of the node never changes, and a
\* node that is deleted meanwhile is missed by move_node.
MoveReceive(h, n, p) ==
    /\ n \in Rows /\ n # p
    /\ resolve_parent(p)
    /\ Receive(h, "move", IF kind[n] = "folder" THEN "check_descendant" ELSE "move_node",
               [NoRequest EXCEPT !.node = n, !.parent = p])

\* Mutant: only the folder itself is refused as its new parent.
is_descendant_or_self_only_self(n, p) == p = n

is_descendant_or_self(n, p) == p \in Subtree(n)

MoveCheck(h) ==
    /\ pc[h] = "check_descendant"
    /\ ~OnCycle(req[h].node)
    /\ IF is_descendant_or_self(req[h].node, req[h].parent)
       THEN Return(h)
       ELSE Goto(h, "move_node") /\ UNCHANGED req
    /\ UNCHANGED <<nodeVars, userVars, fsVars, deleting>>

MoveNode(h) ==
    LET n == req[h].node
        p == req[h].parent
    IN /\ pc[h] = "move_node"
       /\ ~Deleted({n, p})
       /\ \/ {n, p} \subseteq Rows /\ parent_id' = [parent_id EXCEPT ![n] = p]
          \/ (~({n, p} \subseteq Rows) \/ "conflict" \in Faults) /\ UNCHANGED parent_id
       /\ Return(h)
       /\ UNCHANGED <<kind, trashed, size_bytes, has_thumbnail, userVars, fsVars, deleting>>

(***************************************************************************)
(* TRASH AND RESTORE                                                       *)
(***************************************************************************)
TrashReceive(h, n) ==
    /\ n \in Rows \ {Root}
    /\ Receive(h, "trash", "trash", [NoRequest EXCEPT !.node = n])

RestoreReceive(h, n) ==
    /\ n \in Rows
    /\ Receive(h, "restore", "restore", [NoRequest EXCEPT !.node = n])

\* Mutant: the UPDATE stops at the node itself.
MarkSubtree_node_only(h, label, mark) ==
    LET n == req[h].node
    IN /\ pc[h] = label
       /\ ~Deleted({n})
       /\ trashed' = IF n \in Rows THEN [trashed EXCEPT ![n] = mark] ELSE trashed
       /\ Return(h)
       /\ UNCHANGED <<kind, parent_id, size_bytes, has_thumbnail, userVars, fsVars, deleting>>

\* trash_subtree and restore_subtree: one UPDATE over the subtree
MarkSubtree(h, label, mark) ==
    LET S == Subtree(req[h].node)
    IN /\ pc[h] = label
       /\ ~OnCycle(req[h].node) /\ ~Deleted(S)
       /\ trashed' = [n \in Nodes |-> IF n \in S THEN mark ELSE trashed[n]]
       /\ Return(h)
       /\ UNCHANGED <<kind, parent_id, size_bytes, has_thumbnail, userVars, fsVars, deleting>>

TrashSubtree(h) == MarkSubtree(h, "trash", TRUE)
RestoreSubtree(h) == MarkSubtree(h, "restore", FALSE)

\* A restored name is taken by now.
RestoreConflict(h) ==
    /\ "conflict" \in Faults
    /\ pc[h] = "restore"
    /\ Return(h)
    /\ UNCHANGED <<nodeVars, userVars, fsVars, deleting>>

(***************************************************************************)
(* PURGE                                                                   *)
(***************************************************************************)
PurgeNodeReceive(h, n) ==
    /\ n \in Rows \ {Root}
    /\ Receive(h, "purge_node", "select_blobs", [NoRequest EXCEPT !.node = n])

PurgeTrashReceive(h) == Receive(h, "purge_trash", "select_blobs", NoRequest)

\* Mutant: the query of purge_trash forgets trashed_at.
Listed_all(h) == IF req[h].node = NoNode THEN Rows ELSE Subtree(req[h].node)

\* The rows that the two SELECTs of a purge range over.
Listed(h) == IF req[h].node = NoNode THEN Trash ELSE Subtree(req[h].node)

QueryEnds(h) == req[h].node # NoNode => ~OnCycle(req[h].node)

PurgeSelect(h) ==
    /\ pc[h] = "select_blobs"
    /\ QueryEnds(h)
    /\ req' = [req EXCEPT ![h].blobs = Files(Listed(h)),
                          ![h].thumbs = {n \in Files(Listed(h)) : has_thumbnail[n]}]
    /\ Goto(h, "sum_freed")
    /\ UNCHANGED <<nodeVars, userVars, fsVars, deleting>>

PurgeSum(h) ==
    /\ pc[h] = "sum_freed"
    /\ QueryEnds(h)
    /\ req' = [req EXCEPT ![h].amount = Bytes(Listed(h))]
    /\ Goto(h, "delete_nodes")
    /\ UNCHANGED <<nodeVars, userVars, fsVars, deleting>>

\* DELETE, with ON DELETE CASCADE to the children whatever their trashed_at
Doomed(h) == UNION {Subtree(n) : n \in IF req[h].node = NoNode THEN Trash ELSE {req[h].node}}

PurgeDelete(h) ==
    /\ pc[h] = "delete_nodes"
    /\ ~Deleted(Doomed(h)) /\ ~KeyShared(Doomed(h))
    /\ deleting' = [deleting EXCEPT ![h] = Doomed(h)]
    /\ Goto(h, "release_quota")
    /\ UNCHANGED <<nodeVars, userVars, fsVars, req>>

\* Mutant: without GREATEST.
release_quota_unclamped(freed) == used_bytes' = used_bytes - freed

release_quota(freed) == used_bytes' = Max({0, used_bytes - freed})

\* release_quota waits for the owner's row; then commit.
PurgeCommit(h) ==
    /\ pc[h] = "release_quota"
    /\ RowFree
    /\ release_quota(req[h].amount)
    /\ kind' = [n \in Nodes |-> IF n \in deleting[h] THEN "gone" ELSE kind[n]]
    /\ deleting' = [deleting EXCEPT ![h] = {}]
    /\ Goto(h, "unlink_blobs")
    /\ UNCHANGED <<parent_id, trashed, size_bytes, has_thumbnail, rowLock, fsVars, req>>

\* delete_blobs: each blob is followed by its thumbnail, when the row had one
\* when it was listed.
PurgeUnlink(h) ==
    LET r == req[h]
        due == r.thumbs \ r.blobs
    IN /\ pc[h] = "unlink_blobs"
       /\ \/ /\ r.blobs = {} /\ due = {}
             /\ Return(h)
             /\ UNCHANGED fsVars
          \/ \E n \in r.blobs :
                /\ due = {}
                /\ DeleteBlob(n)
                /\ req' = [req EXCEPT ![h].blobs = @ \ {n}]
                /\ UNCHANGED pc
          \/ \E n \in due :
                /\ DeleteThumb(n)
                /\ req' = [req EXCEPT ![h].thumbs = @ \ {n}]
                /\ UNCHANGED pc
       /\ UNCHANGED <<nodeVars, userVars, deleting>>

(***************************************************************************)
(* POST /admin/users/{id}/recompute                                        *)
(***************************************************************************)
\* One UPDATE.  Its subquery sums the sizes as of the start of the statement,
\* and keeps that sum when it has to wait for the row.
RecomputeRead(h) ==
    Receive(h, "recompute_used", "write_used", [NoRequest EXCEPT !.amount = Bytes(Rows)])

RecomputeWrite(h) ==
    /\ pc[h] = "write_used"
    /\ RowFree
    /\ used_bytes' = req[h].amount
    /\ Return(h)
    /\ UNCHANGED <<nodeVars, rowLock, fsVars, deleting>>

(***************************************************************************)
(* FAILURES                                                                *)
(***************************************************************************)
\* Mutant: insert_file runs in a savepoint and is tried again when PostgreSQL aborts
\* it.  The owner's row stays locked, so it closes the cycle again.
Deadlock_retried(h, g) ==
    /\ pc[h] = "insert_file" /\ pc[g] = "release_quota"
    /\ req[h].parent \in deleting[g]
    /\ UNCHANGED vars

\* h holds the owner's row and waits for a row that g has deleted, while g waits
\* for the owner's row: PostgreSQL aborts one of the two.
Deadlock(h, g) ==
    /\ pc[h] = "insert_file" /\ pc[g] = "release_quota"
    /\ req[h].parent \in deleting[g]
    /\ \/ UploadRollback(h) /\ UNCHANGED <<req, deleting>>
       \/ /\ Return(g)
          /\ deleting' = [deleting EXCEPT ![g] = {}]
          /\ UNCHANGED rowLock
    /\ UNCHANGED <<nodeVars, used_bytes, fsVars>>

\* The future is dropped at an await, or the statement fails with no error
\* branch.  An open transaction rolls back; files stay as they are.
Drop(h) ==
    /\ "drop" \in Faults
    /\ pc[h] # "idle"
    /\ rowLock' = IF rowLock = h THEN NoHandler ELSE rowLock
    /\ deleting' = [deleting EXCEPT ![h] = {}]
    /\ Return(h)
    /\ UNCHANGED <<nodeVars, used_bytes, fsVars>>

(***************************************************************************)
(* SPECIFICATION                                                           *)
(***************************************************************************)
UploadStep(h) == \/ UploadWrite(h) \/ UploadStreamFails(h) \/ UploadLockUser(h)
                 \/ UploadInsert(h) \/ UploadCommit(h) \/ UploadUnlink(h)
                 \/ ThumbnailRead(h) \/ ThumbnailWrite(h) \/ SetMediaMeta(h)

PurgeStep(h) == \/ PurgeSelect(h) \/ PurgeSum(h) \/ PurgeDelete(h)
                \/ PurgeCommit(h) \/ PurgeUnlink(h)

HandlerStep(h) == \/ CreateFolder(h) \/ UploadStep(h) \/ MoveCheck(h) \/ MoveNode(h)
                  \/ TrashSubtree(h) \/ RestoreSubtree(h) \/ RestoreConflict(h)
                  \/ PurgeStep(h) \/ RecomputeWrite(h)

Arrival(h) ==
    \/ \E n, p \in Nodes :
          \/ CreateReceive(h, n, p)
          \/ \E size \in FileSizes : UploadReceive(h, n, p, size)
          \/ MoveReceive(h, n, p)
    \/ \E n \in Nodes : TrashReceive(h, n) \/ RestoreReceive(h, n) \/ PurgeNodeReceive(h, n)
    \/ PurgeTrashReceive(h)
    \/ RecomputeRead(h)

Next == \E h \in Handlers :
            \/ Arrival(h) \/ HandlerStep(h) \/ Drop(h)
            \/ \E g \in Handlers : Deadlock(h, g)

Spec == Init /\ [][Next]_vars

\* The runtime polls every request in flight, PostgreSQL grants a lock in the
\* order of the requests for it and looks for deadlocks after deadlock_timeout.
Fairness == \A h \in Handlers :
                /\ SF_vars(HandlerStep(h))
                /\ WF_vars(\E g \in Handlers : Deadlock(h, g))

FairSpec == Spec /\ Fairness

(***************************************************************************)
(* PROPERTIES                                                              *)
(***************************************************************************)
\* Type invariant.  used_bytes never goes negative, whatever is freed twice.
TypeOK ==
    /\ kind \in [Nodes -> Kinds]
    /\ parent_id \in [Nodes -> Nodes \cup {NoNode}]
    /\ trashed \in [Nodes -> BOOLEAN]
    /\ size_bytes \in [Nodes -> Nat]
    /\ has_thumbnail \in [Nodes -> BOOLEAN]
    /\ used_bytes \in Nat
    /\ rowLock \in Handlers \cup {NoHandler}
    /\ \A h \in Handlers : rowLock = h <=> pc[h] \in InTransaction
    /\ blob \in [Nodes -> BOOLEAN]
    /\ thumb \in [Nodes -> BOOLEAN]
    /\ pc \in [Handlers -> Labels]
    /\ req \in [Handlers -> Request]
    /\ deleting \in [Handlers -> SUBSET Nodes]

\* Every node can be reached from the root: no sequence of moves makes a folder
\* its own ancestor or takes the root away (is_descendant_or_self).
Rooted == \A n \in Rows : n \in Subtree(Root)

\* Every file can be downloaded: upload writes before it inserts, a purge deletes
\* its rows before the blobs, and it deletes the blobs of the rows it deleted.
FileHasBlob == \A n \in Files(Rows) : blob[n]

\* A thumbnail that the listing announces is there: generate_thumbnail writes it
\* before it marks the row, which may be in the middle of a purge by then.
ThumbnailIsThere == \A n \in Files(Rows) : has_thumbnail[n] => thumb[n]

\* used_bytes is what the files add up to: each way in or out of the tree moves
\* both in one transaction, so a recomputation would change nothing.
UsedIsExact == used_bytes = Bytes(Rows)

\* No upload takes used_bytes past the quota, with uploads and purges in parallel:
\* the check and the addition are under one FOR UPDATE lock.
UploadsWithinQuota == [][used_bytes' > used_bytes => used_bytes' <= Quota]_vars

\* A live node is under live folders only: trash takes the whole subtree, and
\* nothing is put into a folder of the trash.
TrashIsClosed == \A n \in Trash : \A m \in Subtree(n) : trashed[m]

\* Emptying the trash deletes nodes of the trash and no others.
OnlyTrashIsPurged ==
    [][\A h \in Handlers :
         pc[h] = "release_quota" /\ pc'[h] = "unlink_blobs" /\ req[h].node = NoNode
         => \A n \in Rows : kind'[n] = "gone" => trashed[n]]_vars

\* Every request is answered, the deadlock between an upload and a purge included.
RequestsAreAnswered == \A h \in Handlers : pc[h] # "idle" ~> pc[h] = "idle"

=============================================================================
