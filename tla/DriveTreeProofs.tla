--------------------------- MODULE DriveTreeProofs ---------------------------
(***************************************************************************)
(* Proofs about DriveTree, for every number of nodes and of handlers, all  *)
(* file sizes and quotas, every set of requests and of failures; where a   *)
(* property needs more, the theorem assumes it.                            *)
(*                                                                         *)
(* TypeOK and Shape are inductive whatever runs in parallel.  On top of    *)
(* them stand one invariant per property:                                  *)
(*                                                                         *)
(*   RoomIsKept             UploadsWithinQuota   no recomputation          *)
(*   Blobs, PurgeList       FileHasBlob,         no move and no restore,   *)
(*                          ThumbnailIsThere     or one request at a time  *)
(*   RootStands             Rooted               no move, or one request   *)
(*                                               at a time                 *)
(*   TrashShut, Counted     TrashIsClosed,       one request at a time,    *)
(*                          OnlyTrashIsPurged,   no restore                *)
(*                          UsedIsExact                                    *)
(*                                                                         *)
(* UsedIsExact also holds with any requests in parallel when no purge and  *)
(* no recomputation is among them.                                         *)
(***************************************************************************)
EXTENDS DriveTree, SumLemmas

(***************************************************************************)
(* TYPE CORRECTNESS                                                        *)
(***************************************************************************)

\* The bound on the nodes makes every set of them finite.
LEMMA NodesFinite ==
    /\ IsFiniteSet(Nodes)
    /\ \A S \in SUBSET Nodes : IsFiniteSet(S)
    /\ Root \in Nodes /\ NoNode \notin Nodes
<1>1. IsFiniteSet(Nodes)
    BY FS_Interval, NodesAssumption DEF Nodes
<1>2. \A S \in SUBSET Nodes : IsFiniteSet(S)
    BY <1>1, FS_Subset
<1>3. Root \in Nodes /\ NoNode \notin Nodes
    BY NodesAssumption DEF Nodes, Root, NoNode
<1> QED BY <1>1, <1>2, <1>3

\* The sum of the sizes of the files of S.
LEMMA BytesIsSum ==
    ASSUME NEW S
    PROVE  Bytes(S) = Sum(size_bytes, Files(S))
BY MapThenSum DEF Bytes

\* It is a number of bytes.
LEMMA BytesNat ==
    ASSUME TypeOK, NEW S \in SUBSET Nodes
    PROVE  Bytes(S) \in Nat
<1>1. Files(S) \in SUBSET Nodes
    BY DEF Files
<1>2. \A n \in Files(S) : size_bytes[n] \in Nat
    BY <1>1 DEF TypeOK
<1> QED BY <1>1, <1>2, NodesFinite, SumNat, BytesIsSum

\* The locals that an arrival makes are well typed.
LEMMA RequestTypes ==
    /\ NoRequest \in Request
    /\ \A n, p \in Nodes \cup {NoNode}, a \in Nat, i \in BOOLEAN :
         /\ [NoRequest EXCEPT !.node = n] \in Request
         /\ [NoRequest EXCEPT !.amount = a] \in Request
         /\ [NoRequest EXCEPT !.node = n, !.parent = p] \in Request
         /\ [NoRequest EXCEPT !.node = n, !.parent = p, !.amount = a, !.image = i] \in Request
BY DEF Request, NoRequest

\* Every query returns nodes.
LEMMA QueryTypes ==
    /\ Rows \in SUBSET Nodes /\ Trash \in SUBSET Nodes
    /\ \A n : Subtree(n) \in SUBSET Nodes
    /\ \A h : Listed(h) \in SUBSET Nodes /\ Doomed(h) \in SUBSET Nodes
<1>1. Rows \in SUBSET Nodes /\ Trash \in SUBSET Nodes /\ \A n : Subtree(n) \in SUBSET Nodes
    BY DEF Rows, Trash, Subtree
<1> QED BY <1>1 DEF Listed, Doomed

\* A step to another label.
LEMMA GotoStep ==
    ASSUME TypeOK, NEW h \in Handlers, NEW label \in Labels, Goto(h, label)
    PROVE  /\ pc' \in [Handlers -> Labels]
           /\ pc'[h] = label
           /\ \A g \in Handlers \ {h} : pc'[g] = pc[g]
BY DEF TypeOK, Goto

\* A request that is answered.
LEMMA ReturnStep ==
    ASSUME TypeOK, NEW h \in Handlers, Return(h)
    PROVE  /\ pc' \in [Handlers -> Labels] /\ req' \in [Handlers -> Request]
           /\ pc'[h] = "idle" /\ req'[h] = NoRequest
           /\ \A g \in Handlers \ {h} : pc'[g] = pc[g] /\ req'[g] = req[g]
<1>1. "idle" \in Labels
    BY DEF Labels
<1>2. NoRequest \in Request
    BY RequestTypes
<1> QED BY <1>1, <1>2 DEF TypeOK, Return

\* A request that arrives.
LEMMA ReceiveStep ==
    ASSUME TypeOK, NEW h \in Handlers, NEW op, NEW label \in Labels, NEW request \in Request,
           Receive(h, op, label, request)
    PROVE  /\ pc' \in [Handlers -> Labels] /\ req' \in [Handlers -> Request]
           /\ pc[h] = "idle" /\ pc'[h] = label /\ req'[h] = request
           /\ \A g \in Handlers \ {h} : pc'[g] = pc[g] /\ req'[g] = req[g]
           /\ op \in Ops
           /\ UNCHANGED <<nodeVars, userVars, fsVars, deleting>>
BY DEF TypeOK, Receive

\* Nobody but the handler that moves gains or loses the owner's row.
LEMMA LockKept ==
    ASSUME TypeOK, NEW h \in Handlers, pc[h] \notin InTransaction, pc'[h] \notin InTransaction,
           \A g \in Handlers \ {h} : pc'[g] = pc[g], rowLock' = rowLock
    PROVE  \A g \in Handlers : rowLock' = g <=> pc'[g] \in InTransaction
BY DEF TypeOK

\* The end of an upload's transaction frees the row.
LEMMA LockReleased ==
    ASSUME TypeOK, NEW h \in Handlers, pc[h] \in InTransaction, pc'[h] \notin InTransaction,
           \A g \in Handlers \ {h} : pc'[g] = pc[g], rowLock' = NoHandler
    PROVE  \A g \in Handlers : rowLock' = g <=> pc'[g] \in InTransaction
BY HandlersAssumption DEF TypeOK

\* The empty tree is well typed.
LEMMA TypeInit == Init => TypeOK
<1> SUFFICES ASSUME Init PROVE TypeOK
    OBVIOUS
<1>1. req \in [Handlers -> Request]
    BY RequestTypes DEF Init
<1>2. \A h \in Handlers : rowLock = h <=> pc[h] \in InTransaction
    BY HandlersAssumption DEF Init, InTransaction
<1> QED BY <1>1, <1>2, NodesFinite DEF Init, TypeOK, Kinds, Labels

\* The arrival of a request changes nothing but pc and req.
LEMMA ReceiveType ==
    ASSUME TypeOK, NEW h \in Handlers, NEW op, NEW label \in Labels \ InTransaction,
           NEW request \in Request, Receive(h, op, label, request)
    PROVE  TypeOK'
<1>1. pc[h] \notin InTransaction /\ pc'[h] \notin InTransaction
    BY ReceiveStep DEF InTransaction
<1>2. \A g \in Handlers : rowLock' = g <=> pc'[g] \in InTransaction
    BY <1>1, ReceiveStep, LockKept DEF userVars
<1> QED BY <1>2, ReceiveStep DEF TypeOK, nodeVars, treeVars, userVars, fsVars

\* Requests arrive with locals of their types.
LEMMA ArrivalType == ASSUME TypeOK, NEW h \in Handlers, Arrival(h) PROVE TypeOK'
<1> DEFINE Outside == Labels \ InTransaction
<1>1. {"create_folder", "write_over_quota", "write_blob", "check_descendant", "move_node",
       "trash", "restore", "select_blobs", "write_used"} \subseteq Outside
    BY DEF Labels, UploadLabels, PurgeLabels, InTransaction
<1> HIDE DEF Outside
<1>2. ASSUME NEW n \in Nodes, NEW p \in Nodes, CreateReceive(h, n, p) PROVE TypeOK'
    BY <1>1, <1>2, ReceiveType, RequestTypes DEF CreateReceive, Outside
<1>3. ASSUME NEW n \in Nodes, NEW p \in Nodes, NEW size \in FileSizes, UploadReceive(h, n, p, size)
      PROVE  TypeOK'
    <2>1. PICK op \in {"upload", "upload_image"} :
              Receive(h, op, IF size > remaining THEN "write_over_quota" ELSE "write_blob",
                      [NoRequest EXCEPT !.node = n, !.parent = p, !.amount = size,
                                        !.image = (op = "upload_image")])
        BY <1>3 DEF UploadReceive
    <2>2. size \in Nat /\ (op = "upload_image") \in BOOLEAN
        BY SizesAssumption
    <2>3. [NoRequest EXCEPT !.node = n, !.parent = p, !.amount = size,
                            !.image = (op = "upload_image")] \in Request
        BY <2>2 DEF NoRequest, Request
    <2> QED BY <1>1, <2>1, <2>3, ReceiveType DEF Outside
<1>4. ASSUME NEW n \in Nodes, NEW p \in Nodes, MoveReceive(h, n, p) PROVE TypeOK'
    BY <1>1, <1>4, ReceiveType, RequestTypes DEF MoveReceive, Outside
<1>5. ASSUME NEW n \in Nodes, TrashReceive(h, n) \/ RestoreReceive(h, n) \/ PurgeNodeReceive(h, n)
      PROVE  TypeOK'
    BY <1>1, <1>5, ReceiveType, RequestTypes DEF TrashReceive, RestoreReceive, PurgeNodeReceive, Outside
<1>6. ASSUME PurgeTrashReceive(h) PROVE TypeOK'
    BY <1>1, <1>6, ReceiveType, RequestTypes DEF PurgeTrashReceive, Outside
<1>7. ASSUME RecomputeRead(h) PROVE TypeOK'
    <2>1. Bytes(Rows) \in Nat
        BY QueryTypes, BytesNat
    <2> QED BY <1>1, <1>7, <2>1, ReceiveType, RequestTypes DEF RecomputeRead, Outside
<1> QED BY <1>2, <1>3, <1>4, <1>5, <1>6, <1>7 DEF Arrival

\* A step of a handler that holds no lock, before or after.
LEMMA UnlockedStepType ==
    ASSUME TypeOK, NEW h \in Handlers, pc[h] \notin InTransaction,
           \/ Return(h)
           \/ \E label \in Labels \ InTransaction : Goto(h, label) /\ req' \in [Handlers -> Request],
           rowLock' = rowLock
    PROVE  /\ pc' \in [Handlers -> Labels] /\ req' \in [Handlers -> Request]
           /\ rowLock' \in Handlers \cup {NoHandler}
           /\ \A g \in Handlers : rowLock' = g <=> pc'[g] \in InTransaction
<1>1. CASE Return(h)
    <2>1. pc'[h] \notin InTransaction
        BY <1>1, ReturnStep DEF InTransaction
    <2> QED BY <1>1, <2>1, ReturnStep, LockKept DEF TypeOK
<1>2. ASSUME NEW label \in Labels \ InTransaction, Goto(h, label), req' \in [Handlers -> Request]
      PROVE  /\ pc' \in [Handlers -> Labels] /\ req' \in [Handlers -> Request]
             /\ rowLock' \in Handlers \cup {NoHandler}
             /\ \A g \in Handlers : rowLock' = g <=> pc'[g] \in InTransaction
    BY <1>2, GotoStep, LockKept DEF TypeOK
<1> QED BY <1>1, <1>2

\* An INSERT writes values of the columns' types.
LEMMA InsertRowType ==
    ASSUME TypeOK, NEW n, NEW k \in Kinds, NEW p \in Nodes \cup {NoNode},
           NEW size \in Nat, InsertRow(n, k, p, size)
    PROVE  /\ kind' \in [Nodes -> Kinds] /\ parent_id' \in [Nodes -> Nodes \cup {NoNode}]
           /\ size_bytes' \in [Nodes -> Nat] /\ trashed' = trashed
           /\ has_thumbnail' = has_thumbnail
BY DEF TypeOK, InsertRow

\* What the provers need to know of the labels.
LEMMA LabelFacts ==
    /\ {"idle", "write_blob", "write_over_quota", "lock_user", "unlink_blob", "read_blob",
        "write_thumb", "set_media_meta", "create_folder", "check_descendant", "move_node", "trash",
        "restore", "write_used", "select_blobs", "sum_freed", "delete_nodes", "release_quota",
        "unlink_blobs"} \subseteq Labels \ InTransaction
    /\ {"insert_file", "commit_upload"} = InTransaction
    /\ InTransaction \subseteq Labels
BY DEF Labels, UploadLabels, PurgeLabels, InTransaction

\* A direct upload preserves the types, and the row lock follows its label.
LEMMA UploadStepType == ASSUME TypeOK, NEW h \in Handlers, UploadStep(h) PROVE TypeOK'
<1>1. CASE UploadWrite(h) \/ UploadStreamFails(h)
    <2>1. pc[h] \in {"write_blob", "write_over_quota"} /\ rowLock' = rowLock
        BY <1>1 DEF UploadWrite, UploadStreamFails, userVars
    <2>2. \/ Return(h)
          \/ \E label \in Labels \ InTransaction : Goto(h, label) /\ req' \in [Handlers -> Request]
        BY <1>1, LabelFacts DEF UploadWrite, UploadStreamFails, TypeOK
    <2>3. blob' \in [Nodes -> BOOLEAN] /\ UNCHANGED <<nodeVars, userVars, thumb, deleting>>
        BY <1>1 DEF UploadWrite, UploadStreamFails, TypeOK
    <2>4. pc[h] \notin InTransaction
        BY <2>1, LabelFacts
    <2>5. /\ pc' \in [Handlers -> Labels] /\ req' \in [Handlers -> Request]
          /\ rowLock' \in Handlers \cup {NoHandler}
          /\ \A g \in Handlers : rowLock' = g <=> pc'[g] \in InTransaction
        BY <2>1, <2>2, <2>4, UnlockedStepType
    <2> QED BY <2>3, <2>5 DEF TypeOK, nodeVars, treeVars, userVars
<1>2. CASE UploadLockUser(h)
    <2>1. /\ pc[h] = "lock_user" /\ rowLock = NoHandler
          /\ \/ Goto(h, "unlink_blob") /\ rowLock' = rowLock
             \/ Goto(h, "insert_file") /\ rowLock' = h
          /\ UNCHANGED <<nodeVars, used_bytes, fsVars, req, deleting>>
        BY <1>2 DEF UploadLockUser, RowFree
    <2>2. pc' \in [Handlers -> Labels]
        BY <2>1, GotoStep, LabelFacts
    <2>3. \A g \in Handlers : rowLock' = g <=> pc'[g] \in InTransaction
        BY <2>1, GotoStep, LabelFacts, HandlersAssumption DEF TypeOK
    <2> QED BY <2>1, <2>2, <2>3 DEF TypeOK, nodeVars, treeVars, fsVars
<1>3. CASE UploadInsert(h)
    <2>1. /\ pc[h] = "insert_file"
          /\ \/ Goto(h, "commit_upload") /\ rowLock' = rowLock
             \/ Goto(h, "unlink_blob") /\ rowLock' = NoHandler
          /\ UNCHANGED <<nodeVars, used_bytes, fsVars, req, deleting>>
        BY <1>3 DEF UploadInsert, UploadRollback, UnlockRow
    <2>2. pc' \in [Handlers -> Labels]
        BY <2>1, GotoStep, LabelFacts
    <2>3. \A g \in Handlers : rowLock' = g <=> pc'[g] \in InTransaction
        BY <2>1, GotoStep, LabelFacts, HandlersAssumption DEF TypeOK
    <2> QED BY <2>1, <2>2, <2>3 DEF TypeOK, nodeVars, treeVars, fsVars
<1>4. CASE UploadCommit(h)
    <2>1. /\ pc[h] = "commit_upload"
          /\ InsertRow(req[h].node, "file", req[h].parent, req[h].amount)
          /\ used_bytes' = used_bytes + req[h].amount
          /\ rowLock' = NoHandler
          /\ \/ Goto(h, "read_blob") /\ req' = req
             \/ Return(h)
          /\ UNCHANGED <<fsVars, deleting>>
        BY <1>4 DEF UploadCommit, UnlockRow, AfterCommit
    <2>2. pc' \in [Handlers -> Labels] /\ req' \in [Handlers -> Request]
        BY <2>1, GotoStep, ReturnStep, LabelFacts DEF TypeOK
    <2>3. \A g \in Handlers : rowLock' = g <=> pc'[g] \in InTransaction
        BY <2>1, GotoStep, ReturnStep, LabelFacts, LockReleased
    <2>4. req[h].amount \in Nat /\ req[h].parent \in Nodes \cup {NoNode} /\ "file" \in Kinds
        BY DEF TypeOK, Request, Kinds
    <2>5. /\ kind' \in [Nodes -> Kinds] /\ parent_id' \in [Nodes -> Nodes \cup {NoNode}]
          /\ size_bytes' \in [Nodes -> Nat] /\ trashed' = trashed
          /\ has_thumbnail' = has_thumbnail
        BY <2>1, <2>4, InsertRowType
    <2>6. used_bytes' \in Nat
        BY <2>1, <2>4 DEF TypeOK
    <2> QED BY <2>1, <2>2, <2>3, <2>5, <2>6 DEF TypeOK, fsVars
<1>5. CASE UploadUnlink(h) \/ ThumbnailRead(h) \/ ThumbnailWrite(h) \/ SetMediaMeta(h)
    <2>1. /\ pc[h] \in {"unlink_blob", "read_blob", "write_thumb", "set_media_meta"}
          /\ UNCHANGED <<treeVars, userVars, deleting>>
        BY <1>5 DEF UploadUnlink, ThumbnailRead, ThumbnailWrite, SetMediaMeta, nodeVars
    <2>2. \/ Return(h)
          \/ \E label \in Labels \ InTransaction : Goto(h, label) /\ req' \in [Handlers -> Request]
        BY <1>5, LabelFacts DEF UploadUnlink, ThumbnailRead, ThumbnailWrite, SetMediaMeta, TypeOK
    <2>3. /\ blob' \in [Nodes -> BOOLEAN] /\ thumb' \in [Nodes -> BOOLEAN]
          /\ has_thumbnail' \in [Nodes -> BOOLEAN]
        BY <1>5 DEF UploadUnlink, ThumbnailRead, ThumbnailWrite, SetMediaMeta, DeleteBlob, TypeOK,
                    nodeVars, fsVars
    <2>4. pc[h] \notin InTransaction /\ rowLock' = rowLock
        BY <2>1, LabelFacts DEF userVars
    <2>5. /\ pc' \in [Handlers -> Labels] /\ req' \in [Handlers -> Request]
          /\ rowLock' \in Handlers \cup {NoHandler}
          /\ \A g \in Handlers : rowLock' = g <=> pc'[g] \in InTransaction
        BY <2>2, <2>4, UnlockedStepType
    <2> QED BY <2>1, <2>3, <2>5 DEF TypeOK, treeVars, userVars
<1> QED BY <1>1, <1>2, <1>3, <1>4, <1>5 DEF UploadStep

\* GREATEST(0, i)
LEMMA MaxZero ==
    ASSUME NEW i \in Int
    PROVE  Max({0, i}) \in Nat /\ Max({0, i}) = IF i < 0 THEN 0 ELSE i
<1>1. \E x \in {0, i} : \A y \in {0, i} : x >= y
    <2>1. CASE i < 0
        BY <2>1
    <2>2. CASE i >= 0
        BY <2>2
    <2> QED BY <2>1, <2>2
<1>2. Max({0, i}) \in {0, i} /\ \A y \in {0, i} : Max({0, i}) >= y
    BY <1>1 DEF Max
<1> QED BY <1>2

\* What the two SELECTs of a purge and the unlinking of a file leave in req.
LEMMA PurgeSelectReq ==
    ASSUME TypeOK, NEW h \in Handlers, PurgeSelect(h)
    PROVE  /\ req' \in [Handlers -> Request]
           /\ req'[h].node = req[h].node
           /\ req'[h].blobs = Files(Listed(h))
           /\ req'[h].thumbs = {n \in Files(Listed(h)) : has_thumbnail[n]}
           /\ \A g \in Handlers \ {h} : req'[g] = req[g]
<1> DEFINE B == Files(Listed(h))
           T == {n \in B : has_thumbnail[n]}
<1>1. B \in SUBSET Nodes /\ T \in SUBSET Nodes
    BY QueryTypes DEF Files
<1>2. req' = [req EXCEPT ![h].blobs = B, ![h].thumbs = T]
    BY DEF PurgeSelect
<1>3. req \in [Handlers -> Request] /\ req[h] \in Request
    BY DEF TypeOK
<1> HIDE DEF B, T
<1>4. /\ req'[h] = [req[h] EXCEPT !.blobs = B, !.thumbs = T]
      /\ req' = [req EXCEPT ![h] = req'[h]]
    BY <1>2, <1>3
<1>5. [req[h] EXCEPT !.blobs = B, !.thumbs = T] \in Request
    BY <1>1, <1>3 DEF Request
<1>6. /\ req'[h].node = req[h].node /\ req'[h].blobs = B /\ req'[h].thumbs = T
    BY <1>3, <1>4 DEF Request
<1> QED BY <1>3, <1>4, <1>5, <1>6 DEF B, T

\* What SUM leaves in req.
LEMMA PurgeSumReq ==
    ASSUME TypeOK, NEW h \in Handlers, PurgeSum(h)
    PROVE  /\ req' \in [Handlers -> Request]
           /\ req'[h].node = req[h].node
           /\ req'[h].blobs = req[h].blobs /\ req'[h].thumbs = req[h].thumbs
           /\ req'[h].amount = Bytes(Listed(h))
           /\ \A g \in Handlers \ {h} : req'[g] = req[g]
<1> DEFINE a == Bytes(Listed(h))
<1>1. a \in Nat
    BY QueryTypes, BytesNat
<1>2. req' = [req EXCEPT ![h].amount = a]
    BY DEF PurgeSum
<1>3. req \in [Handlers -> Request] /\ req[h] \in Request
    BY DEF TypeOK
<1> HIDE DEF a
<1> QED BY <1>1, <1>2, <1>3 DEF Request, a

\* What the unlinking of a file leaves in req.
LEMMA UnlinkReq ==
    ASSUME TypeOK, NEW h \in Handlers, PurgeUnlink(h)
    PROVE  \/ Return(h)
           \/ /\ UNCHANGED pc
              /\ req' \in [Handlers -> Request]
              /\ req'[h].node = req[h].node
              /\ req'[h].blobs \subseteq req[h].blobs /\ req'[h].thumbs \subseteq req[h].thumbs
              /\ \A g \in Handlers \ {h} : req'[g] = req[g]
<1>1. req \in [Handlers -> Request] /\ req[h] \in Request
    BY DEF TypeOK
<1>2. ASSUME NEW n, req' = [req EXCEPT ![h].blobs = @ \ {n}]
      PROVE  /\ req' \in [Handlers -> Request]
             /\ req'[h].node = req[h].node
             /\ req'[h].blobs \subseteq req[h].blobs /\ req'[h].thumbs \subseteq req[h].thumbs
             /\ \A g \in Handlers \ {h} : req'[g] = req[g]
    BY <1>1, <1>2 DEF Request
<1>3. ASSUME NEW n, req' = [req EXCEPT ![h].thumbs = @ \ {n}]
      PROVE  /\ req' \in [Handlers -> Request]
             /\ req'[h].node = req[h].node
             /\ req'[h].blobs \subseteq req[h].blobs /\ req'[h].thumbs \subseteq req[h].thumbs
             /\ \A g \in Handlers \ {h} : req'[g] = req[g]
    BY <1>1, <1>3 DEF Request
<1>4. \/ Return(h)
      \/ UNCHANGED pc /\ \E n : req' = [req EXCEPT ![h].blobs = @ \ {n}]
      \/ UNCHANGED pc /\ \E n : req' = [req EXCEPT ![h].thumbs = @ \ {n}]
    BY DEF PurgeUnlink
<1> QED BY <1>2, <1>3, <1>4

\* A purge preserves the types.
LEMMA PurgeStepType == ASSUME TypeOK, NEW h \in Handlers, PurgeStep(h) PROVE TypeOK'
<1>1. CASE PurgeSelect(h) \/ PurgeSum(h) \/ PurgeDelete(h)
    <2>1. /\ pc[h] \in {"select_blobs", "sum_freed", "delete_nodes"}
          /\ UNCHANGED <<nodeVars, userVars, fsVars>>
        BY <1>1 DEF PurgeSelect, PurgeSum, PurgeDelete
    <2>3. req' \in [Handlers -> Request]
        BY <1>1, PurgeSelectReq, PurgeSumReq DEF PurgeDelete, TypeOK
    <2>4. \E label \in Labels \ InTransaction : Goto(h, label)
        BY <1>1, LabelFacts DEF PurgeSelect, PurgeSum, PurgeDelete
    <2>5. deleting' \in [Handlers -> SUBSET Nodes]
        BY <1>1, QueryTypes DEF PurgeSelect, PurgeSum, PurgeDelete, TypeOK
    <2>6. pc[h] \notin InTransaction /\ rowLock' = rowLock
        BY <2>1, LabelFacts DEF userVars
    <2>7. /\ pc' \in [Handlers -> Labels]
          /\ rowLock' \in Handlers \cup {NoHandler}
          /\ \A g \in Handlers : rowLock' = g <=> pc'[g] \in InTransaction
        BY <2>3, <2>4, <2>6, UnlockedStepType
    <2> QED BY <2>1, <2>3, <2>5, <2>7 DEF TypeOK, nodeVars, treeVars, userVars, fsVars
<1>2. CASE PurgeCommit(h)
    <2>1. /\ pc[h] = "release_quota" /\ Goto(h, "unlink_blobs")
          /\ UNCHANGED <<parent_id, trashed, size_bytes, has_thumbnail, rowLock, fsVars, req>>
        BY <1>2 DEF PurgeCommit
    <2>2. used_bytes' \in Nat
        <3>1. used_bytes - req[h].amount \in Int
            BY DEF TypeOK, Request
        <3>2. Max({0, used_bytes - req[h].amount}) \in Nat
            BY <3>1, MaxZero
        <3> QED BY <1>2, <3>2 DEF PurgeCommit, release_quota
    <2>3. kind' \in [Nodes -> Kinds]
        BY <1>2 DEF PurgeCommit, TypeOK, Kinds
    <2>4. deleting' \in [Handlers -> SUBSET Nodes]
        BY <1>2 DEF PurgeCommit, TypeOK
    <2>5. pc[h] \notin InTransaction
        BY <2>1, LabelFacts
    <2>6. /\ pc' \in [Handlers -> Labels]
          /\ rowLock' \in Handlers \cup {NoHandler}
          /\ \A g \in Handlers : rowLock' = g <=> pc'[g] \in InTransaction
        BY <2>1, <2>5, LabelFacts, UnlockedStepType DEF TypeOK
    <2> QED BY <2>1, <2>2, <2>3, <2>4, <2>6 DEF TypeOK, fsVars
<1>3. CASE PurgeUnlink(h)
    <2>1. /\ pc[h] = "unlink_blobs" /\ UNCHANGED <<nodeVars, userVars, deleting>>
        BY <1>3 DEF PurgeUnlink
    <2>2. blob' \in [Nodes -> BOOLEAN] /\ thumb' \in [Nodes -> BOOLEAN]
        BY <1>3 DEF PurgeUnlink, DeleteBlob, DeleteThumb, TypeOK, fsVars
    <2>3. \/ Return(h)
          \/ UNCHANGED pc /\ req' \in [Handlers -> Request]
        BY <1>3, UnlinkReq
    <2>4. CASE Return(h)
        <3>1. /\ pc' \in [Handlers -> Labels] /\ req' \in [Handlers -> Request]
              /\ rowLock' \in Handlers \cup {NoHandler}
              /\ \A g \in Handlers : rowLock' = g <=> pc'[g] \in InTransaction
            BY <2>1, <2>4, LabelFacts, UnlockedStepType DEF userVars
        <3> QED BY <2>1, <2>2, <3>1 DEF TypeOK, nodeVars, treeVars, userVars
    <2>5. CASE UNCHANGED pc /\ req' \in [Handlers -> Request]
        BY <2>1, <2>2, <2>5 DEF TypeOK, nodeVars, treeVars, userVars
    <2> QED BY <2>3, <2>4, <2>5
<1> QED BY <1>1, <1>2, <1>3 DEF PurgeStep

\* The requests of a single statement, and moves, preserve them.
LEMMA OtherStepType ==
    ASSUME TypeOK, NEW h \in Handlers,
           \/ CreateFolder(h) \/ MoveCheck(h) \/ MoveNode(h) \/ TrashSubtree(h)
           \/ RestoreSubtree(h) \/ RestoreConflict(h) \/ RecomputeWrite(h)
    PROVE  TypeOK'
<1>1. /\ pc[h] \in {"create_folder", "check_descendant", "move_node", "trash", "restore", "write_used"}
      /\ rowLock' = rowLock /\ UNCHANGED <<fsVars, has_thumbnail, deleting>>
    BY DEF CreateFolder, MoveCheck, MoveNode, TrashSubtree, RestoreSubtree, MarkSubtree,
           RestoreConflict, RecomputeWrite, userVars, nodeVars, InsertRow
<1>2. \/ Return(h)
      \/ \E label \in Labels \ InTransaction : Goto(h, label) /\ req' \in [Handlers -> Request]
    BY LabelFacts DEF CreateFolder, MoveCheck, MoveNode, TrashSubtree, RestoreSubtree,
                      MarkSubtree, RestoreConflict, RecomputeWrite, TypeOK
<1>3. pc[h] \notin InTransaction
    BY <1>1, LabelFacts
<1>4. /\ pc' \in [Handlers -> Labels] /\ req' \in [Handlers -> Request]
      /\ rowLock' \in Handlers \cup {NoHandler}
      /\ \A g \in Handlers : rowLock' = g <=> pc'[g] \in InTransaction
    BY <1>1, <1>2, <1>3, UnlockedStepType
<1>5. used_bytes' \in Nat
    BY DEF CreateFolder, MoveCheck, MoveNode, TrashSubtree, RestoreSubtree, MarkSubtree,
           RestoreConflict, RecomputeWrite, userVars, TypeOK, Request
<1>6. /\ kind' \in [Nodes -> Kinds] /\ parent_id' \in [Nodes -> Nodes \cup {NoNode}]
      /\ trashed' \in [Nodes -> BOOLEAN] /\ size_bytes' \in [Nodes -> Nat]
    <2>1. CASE CreateFolder(h)
        <3>1. "folder" \in Kinds /\ 0 \in Nat /\ req[h].parent \in Nodes \cup {NoNode}
            BY DEF Kinds, TypeOK, Request
        <3>2. CASE InsertRow(req[h].node, "folder", req[h].parent, 0)
            BY <3>1, <3>2, InsertRowType DEF TypeOK
        <3>3. CASE UNCHANGED nodeVars
            BY <3>3 DEF nodeVars, treeVars, TypeOK
        <3> QED BY <2>1, <3>2, <3>3 DEF CreateFolder
    <2>2. CASE MoveNode(h)
        BY <2>2 DEF MoveNode, TypeOK, Request
    <2>3. CASE TrashSubtree(h) \/ RestoreSubtree(h)
        <3>1. PICK mark \in BOOLEAN, label \in {"trash", "restore"} : MarkSubtree(h, label, mark)
            BY <2>3 DEF TrashSubtree, RestoreSubtree
        <3> QED BY <3>1 DEF MarkSubtree, TypeOK
    <2>4. CASE MoveCheck(h) \/ RestoreConflict(h) \/ RecomputeWrite(h)
        BY <2>4 DEF MoveCheck, RestoreConflict, RecomputeWrite, nodeVars, treeVars, TypeOK
    <2> QED BY <2>1, <2>2, <2>3, <2>4
<1> QED BY <1>1, <1>4, <1>5, <1>6 DEF TypeOK, fsVars

\* So do rollbacks and dropped futures.
LEMMA FailureType ==
    ASSUME TypeOK, NEW h \in Handlers, Drop(h) \/ \E g \in Handlers : Deadlock(h, g)
    PROVE  TypeOK'
<1>1. CASE Drop(h)
    <2>1. /\ pc' \in [Handlers -> Labels] /\ req' \in [Handlers -> Request]
          /\ pc'[h] = "idle" /\ \A g \in Handlers \ {h} : pc'[g] = pc[g]
        BY <1>1, ReturnStep DEF Drop
    <2>2. /\ rowLock' = IF rowLock = h THEN NoHandler ELSE rowLock
          /\ deleting' = [deleting EXCEPT ![h] = {}]
          /\ UNCHANGED <<nodeVars, used_bytes, fsVars>>
        BY <1>1 DEF Drop
    <2>3. \A g \in Handlers : rowLock' = g <=> pc'[g] \in InTransaction
        BY <2>1, <2>2, LabelFacts, HandlersAssumption DEF TypeOK
    <2> QED BY <2>1, <2>2, <2>3 DEF TypeOK, nodeVars, treeVars, fsVars
<1>2. ASSUME NEW g \in Handlers, Deadlock(h, g) PROVE TypeOK'
    <2>1. /\ pc[h] = "insert_file" /\ pc[g] = "release_quota"
          /\ UNCHANGED <<nodeVars, used_bytes, fsVars>>
        BY <1>2 DEF Deadlock
    <2>2. CASE UploadRollback(h) /\ UNCHANGED <<req, deleting>>
        <3>1. Goto(h, "unlink_blob") /\ rowLock' = NoHandler
            BY <2>2 DEF UploadRollback, UnlockRow
        <3>2. pc' \in [Handlers -> Labels]
            BY <3>1, GotoStep, LabelFacts
        <3>3. \A k \in Handlers : rowLock' = k <=> pc'[k] \in InTransaction
            BY <2>1, <3>1, GotoStep, LabelFacts, LockReleased
        <3> QED BY <2>1, <2>2, <3>1, <3>2, <3>3 DEF TypeOK, nodeVars, treeVars, fsVars
    <2>3. CASE Return(g) /\ deleting' = [deleting EXCEPT ![g] = {}] /\ UNCHANGED rowLock
        <3>1. /\ pc' \in [Handlers -> Labels] /\ req' \in [Handlers -> Request]
              /\ rowLock' \in Handlers \cup {NoHandler}
              /\ \A k \in Handlers : rowLock' = k <=> pc'[k] \in InTransaction
            BY <2>1, <2>3, LabelFacts, UnlockedStepType
        <3> QED BY <2>1, <2>3, <3>1 DEF TypeOK, nodeVars, treeVars, fsVars
    <2> QED BY <1>2, <2>2, <2>3 DEF Deadlock
<1> QED BY <1>1, <1>2

\* The type invariant is inductive by itself.
LEMMA TypeNext == TypeOK /\ [Next]_vars => TypeOK'
<1> SUFFICES ASSUME TypeOK, [Next]_vars PROVE TypeOK'
    OBVIOUS
<1>1. ASSUME NEW h \in Handlers, HandlerStep(h) PROVE TypeOK'
    BY <1>1, UploadStepType, PurgeStepType, OtherStepType DEF HandlerStep
<1>2. CASE UNCHANGED vars
    BY <1>2 DEF vars, nodeVars, treeVars, userVars, fsVars, handlerVars, TypeOK
<1> QED BY <1>1, <1>2, ArrivalType, FailureType DEF Next

\* Type correctness, for any number of nodes, handlers and sizes and for every
\* set of requests and failures.  Two of its parts are more than types:
\* used_bytes never goes negative whatever is freed twice (GREATEST of
\* release_quota), and a handler holds the owner's row exactly while its upload
\* is between quota_used_for_update and the end of its transaction.
THEOREM Typing == Spec => []TypeOK
BY TypeInit, TypeNext, PTL DEF Spec

(***************************************************************************)
(* SUBTREES                                                                *)
(***************************************************************************)

Closed(S, R, par) == \A c \in R : par[c] \in S => c \in S
Below(n, R, par) ==
    {m \in R : n \in R /\ \A S \in SUBSET R : n \in S /\ Closed(S, R, par) => m \in S}

\* A node is below itself.
LEMMA BelowSelf == ASSUME NEW R, NEW par, NEW n \in R PROVE n \in Below(n, R, par)
BY DEF Below

\* The children of what is below n are below n.
LEMMA BelowClosed == ASSUME NEW R, NEW par, NEW n PROVE Closed(Below(n, R, par), R, par)
<1> SUFFICES ASSUME NEW c \in R, par[c] \in Below(n, R, par) PROVE c \in Below(n, R, par)
    BY DEF Closed
<1>1. n \in R
    BY DEF Below
<1>2. ASSUME NEW S \in SUBSET R, n \in S, Closed(S, R, par) PROVE c \in S
    BY <1>2 DEF Below, Closed
<1> QED BY <1>1, <1>2 DEF Below

\* A subtree is in every set that is closed and holds its root.
LEMMA BelowLeast ==
    ASSUME NEW R, NEW par, NEW S, NEW n \in S, Closed(S, R, par)
    PROVE  Below(n, R, par) \subseteq S
<1> SUFFICES ASSUME NEW m \in Below(n, R, par) PROVE m \in S
    OBVIOUS
<1>1. n \in R
    BY DEF Below
<1>2. S \cap R \in SUBSET R /\ n \in S \cap R /\ Closed(S \cap R, R, par)
    BY <1>1 DEF Closed
<1> QED BY <1>2 DEF Below

\* What is below m is below whatever m is below.
LEMMA BelowTransitive ==
    ASSUME NEW R, NEW par, NEW n, NEW m \in Below(n, R, par)
    PROVE  Below(m, R, par) \subseteq Below(n, R, par)
BY BelowClosed, BelowLeast

\* A closed set is removed: what is left of a subtree is the subtree of what is left.
LEMMA BelowRemove ==
    ASSUME NEW R, NEW par, NEW D, Closed(D, R, par), NEW n, NEW m \in Below(n, R, par), m \notin D
    PROVE  n \notin D /\ m \in Below(n, R \ D, par)
<1>1. n \in R /\ m \in R
    BY DEF Below
<1>2. n \notin D
    BY BelowLeast
<1>3. ASSUME NEW S \in SUBSET (R \ D), n \in S, Closed(S, R \ D, par) PROVE m \in S
    <2>1. Closed(S \cup D, R, par) /\ n \in S \cup D
        BY <1>3 DEF Closed
    <2>2. Below(n, R, par) \subseteq S \cup D
        BY <2>1, BelowLeast
    <2> QED BY <2>2
<1> QED BY <1>1, <1>2, <1>3 DEF Below

\* More nodes, and nothing moved: the subtrees can only grow.
LEMMA BelowGrows ==
    ASSUME NEW R, NEW par, NEW R2, NEW par2, R \subseteq R2, \A c \in R : par2[c] = par[c], NEW n
    PROVE  Below(n, R, par) \subseteq Below(n, R2, par2)
<1> SUFFICES ASSUME NEW m \in Below(n, R, par) PROVE m \in Below(n, R2, par2)
    OBVIOUS
<1>1. n \in R /\ m \in R
    BY DEF Below
<1>2. ASSUME NEW S \in SUBSET R2, n \in S, Closed(S, R2, par2) PROVE m \in S
    <2>1. Closed(S, R, par)
        BY <1>2 DEF Closed
    <2> QED BY <1>2, <2>1, BelowLeast
<1> QED BY <1>1, <1>2 DEF Below

\* The subtree of the root stays everything when n goes under a node that is
\* not below n.
LEMMA BelowMove ==
    ASSUME NEW R, NEW par, NEW root, R = Below(root, R, par),
           NEW n \in R, NEW p \in R, p \notin Below(n, R, par),
           NEW par2, par2[n] = p, \A c \in R \ {n} : par2[c] = par[c]
    PROVE  n # root /\ Below(root, R, par2) = R
<1>1. n # root
    OBVIOUS
<1>2. root \in R
    BY DEF Below
<1> DEFINE B == Below(n, R, par)
<1>3. n \in B /\ Closed(B, R, par) /\ B \subseteq R
    BY BelowSelf, BelowClosed DEF Below
<1>4. ASSUME NEW S \in SUBSET R, root \in S, Closed(S, R, par2) PROVE S = R
    <2>1. Closed(S \cup B, R, par)
        BY <1>3, <1>4 DEF Closed
    <2>2. R \subseteq S \cup B
        BY <1>4, <2>1, BelowLeast
    <2>3. n \in S
        BY <1>4, <2>2 DEF Closed
    <2>4. Closed(S \cap B, R, par) /\ n \in S \cap B
        BY <1>3, <1>4, <2>3 DEF Closed
    <2>5. B \subseteq S \cap B
        BY <2>4, BelowLeast
    <2> QED BY <2>2, <2>5
<1>5. \A m \in R : m \in Below(root, R, par2)
    BY <1>2, <1>4 DEF Below
<1> QED BY <1>1, <1>5 DEF Below

\* The recursive query, before and after a step.
LEMMA SubtreeIsBelow ==
    /\ \A n : Subtree(n) = Below(n, Rows, parent_id)
    /\ \A n : Subtree(n)' = Below(n, Rows', parent_id')
BY DEF Subtree, Below, Closed

\* The lemmas above for the rows as they are.
LEMMA SubtreeFacts ==
    ASSUME NEW n
    PROVE  /\ n \in Rows => n \in Subtree(n)
           /\ Subtree(n) \subseteq Rows
           /\ Closed(Subtree(n), Rows, parent_id)
           /\ \A m \in Subtree(n) : Subtree(m) \subseteq Subtree(n)
           /\ \A S : n \in S /\ Closed(S, Rows, parent_id) => Subtree(n) \subseteq S
<1>1. Subtree(n) \subseteq Rows
    BY DEF Subtree
<1>2. n \in Rows => n \in Subtree(n)
    BY SubtreeIsBelow, BelowSelf
<1>3. Closed(Subtree(n), Rows, parent_id)
    BY SubtreeIsBelow, BelowClosed
<1>4. \A m \in Subtree(n) : Subtree(m) \subseteq Subtree(n)
    BY SubtreeIsBelow, BelowTransitive
<1>5. ASSUME NEW S, n \in S, Closed(S, Rows, parent_id) PROVE Subtree(n) \subseteq S
    BY <1>5, SubtreeIsBelow, BelowLeast
<1> QED BY <1>1, <1>2, <1>3, <1>4, <1>5

(***************************************************************************)
(* THE SHAPE OF THE TREE                                                   *)
(***************************************************************************)

\* The handler has a fresh number and has not committed its row.
NoRowYet == {"create_folder", "write_blob", "write_over_quota", "lock_user", "insert_file",
             "commit_upload", "unlink_blob"}
Thumbnailing == {"read_blob", "write_thumb", "set_media_meta"}
Moving == {"check_descendant", "move_node"}

RequestShape(h) ==
    /\ pc[h] \in NoRowYet \cup Moving =>
          /\ req[h].node \in Nodes
          /\ req[h].parent \in Nodes /\ kind[req[h].parent] \in {"folder", "gone"}
    /\ pc[h] \in NoRowYet => kind[req[h].node] = "unused"
    /\ pc[h] \in Thumbnailing => req[h].node \in Nodes /\ kind[req[h].node] \in {"file", "gone"}
    /\ pc[h] \in Moving => "move" \in Ops /\ req[h].node # req[h].parent
    /\ pc[h] = "restore" => "restore" \in Ops
    /\ pc[h] = "write_used" => "recompute_used" \in Ops
    /\ pc[h] \in {"trash"} \cup PurgeLabels => req[h].node # Root

\* Two handlers never make the same node.
Distinct ==
    \A g, h \in Handlers :
       g # h /\ pc[g] \in NoRowYet /\ pc[h] \in NoRowYet => req[g].node # req[h].node

\* The foreign key on parent_id: only the root has no parent, and only a folder
\* is one.
Parents ==
    /\ kind[Root] \in {"folder", "gone"}
    /\ \A n \in Rows : \/ n = Root /\ parent_id[n] = NoNode
                       \/ parent_id[n] \in Nodes /\ kind[parent_id[n]] = "folder"

\* What an open purge has deleted: whole subtrees, that no other purge and no
\* uncommitted upload touches.
Deletions ==
    /\ \A h \in Handlers :
         /\ deleting[h] \subseteq Rows
         /\ deleting[h] # {} => pc[h] = "release_quota"
         /\ Closed(deleting[h], Rows, parent_id)
         /\ \A g \in Handlers \ {h} : deleting[g] \cap deleting[h] = {}
    /\ \A h \in Handlers : pc[h] = "commit_upload" =>
         /\ kind[req[h].parent] = "folder"
         /\ \A g \in Handlers : req[h].parent \notin deleting[g]

Shape == (\A h \in Handlers : RequestShape(h)) /\ Distinct /\ Parents /\ Deletions

\* The empty tree has the shape.
LEMMA ShapeInit == Init => Shape
<1> SUFFICES ASSUME Init PROVE Shape
    OBVIOUS
<1>1. \A h \in Handlers : RequestShape(h)
    BY DEF Init, RequestShape, NoRowYet, Moving, Thumbnailing, PurgeLabels
<1>2. Distinct
    BY DEF Init, Distinct, NoRowYet
<1>3. Parents
    BY NodesFinite DEF Init, Parents, Rows
<1>4. Deletions
    BY DEF Init, Deletions, Closed
<1> QED BY <1>1, <1>2, <1>3, <1>4 DEF Shape

\* A step of h that leaves the rows and the open deletions alone.
LEMMA QuietShape ==
    ASSUME TypeOK, Shape, NEW h \in Handlers, UNCHANGED <<kind, parent_id, deleting>>,
           \A g \in Handlers \ {h} : pc'[g] = pc[g] /\ req'[g] = req[g],
           deleting[h] = {},
           RequestShape(h)',
           pc'[h] \in NoRowYet =>
              \A g \in Handlers \ {h} : pc[g] \in NoRowYet => req[g].node # req'[h].node,
           pc'[h] = "commit_upload" =>
              /\ kind[req'[h].parent] = "folder"
              /\ \A g \in Handlers : req'[h].parent \notin deleting[g]
    PROVE  Shape'
<1>1. ASSUME NEW g \in Handlers PROVE RequestShape(g)'
    BY DEF Shape, RequestShape
<1>2. Distinct'
    BY DEF Shape, Distinct
<1>3. Parents' /\ Rows' = Rows
    BY DEF Shape, Parents, Rows
<1>4. Deletions'
    <2>1. \A g \in Handlers : pc'[g] = "commit_upload" =>
            /\ kind'[req'[g].parent] = "folder"
            /\ \A k \in Handlers : req'[g].parent \notin deleting'[k]
        BY DEF Shape, Deletions
    <2>2. ASSUME NEW g \in Handlers
          PROVE  /\ deleting'[g] \subseteq Rows'
                 /\ deleting'[g] # {} => pc'[g] = "release_quota"
                 /\ Closed(deleting'[g], Rows', parent_id')
                 /\ \A k \in Handlers \ {g} : deleting'[k] \cap deleting'[g] = {}
        BY <1>3 DEF Shape, Deletions
    <2> QED BY <2>1, <2>2 DEF Deletions
<1> QED BY <1>1, <1>2, <1>3, <1>4 DEF Shape

\* A request that is answered.
LEMMA ReturnShape ==
    ASSUME TypeOK, Shape, NEW h \in Handlers, Return(h), deleting[h] = {},
           UNCHANGED <<kind, parent_id, deleting>>
    PROVE  Shape'
<1>1. pc'[h] = "idle" /\ \A g \in Handlers \ {h} : pc'[g] = pc[g] /\ req'[g] = req[g]
    BY ReturnStep
<1>2. RequestShape(h)' /\ pc'[h] \notin NoRowYet /\ pc'[h] # "commit_upload"
    BY <1>1 DEF RequestShape, NoRowYet, Moving, Thumbnailing, PurgeLabels
<1> QED BY <1>1, <1>2, QuietShape

\* Only a purge that waits for its commit has deleted rows.
LEMMA IdleDeletesNothing ==
    ASSUME Shape, NEW h \in Handlers, pc[h] # "release_quota"
    PROVE  deleting[h] = {}
BY DEF Shape, Deletions

\* A request that arrives with what its label calls for.
LEMMA ReceiveShape ==
    ASSUME TypeOK, Shape, NEW h \in Handlers, NEW op, NEW label \in Labels, NEW request \in Request,
           Receive(h, op, label, request),
           label \notin Thumbnailing \cup {"commit_upload"},
           label \in NoRowYet \cup Moving =>
              /\ request.node \in Nodes
              /\ request.parent \in Nodes /\ kind[request.parent] \in {"folder", "gone"},
           label \in NoRowYet =>
              kind[request.node] = "unused" /\ \A g \in Handlers : req[g].node # request.node,
           label \in Moving => op = "move" /\ request.node # request.parent,
           label = "restore" => op = "restore",
           label = "write_used" => op = "recompute_used",
           label \in {"trash"} \cup PurgeLabels => request.node # Root
    PROVE  Shape'
<1>1. /\ pc[h] = "idle" /\ pc'[h] = label /\ req'[h] = request
      /\ \A g \in Handlers \ {h} : pc'[g] = pc[g] /\ req'[g] = req[g]
      /\ op \in Ops
      /\ UNCHANGED <<kind, parent_id, deleting>>
    BY ReceiveStep DEF nodeVars, treeVars
<1>2. deleting[h] = {}
    BY <1>1, IdleDeletesNothing
<1>3. RequestShape(h)'
    BY <1>1 DEF RequestShape
<1> QED BY <1>1, <1>2, <1>3, QuietShape

\* What resolve_parent accepts is a folder, or the root.
LEMMA ParentResolved ==
    ASSUME Shape, NEW p \in Nodes, resolve_parent(p)
    PROVE  kind[p] \in {"folder", "gone"}
BY DEF resolve_parent, Shape, Parents

\* Every arrival is of that kind.
LEMMA ArrivalShape == ASSUME TypeOK, Shape, NEW h \in Handlers, Arrival(h) PROVE Shape'
<1> USE DEF NoRowYet, Moving, Thumbnailing, PurgeLabels
<1>1. ASSUME NEW n \in Nodes, NEW p \in Nodes, CreateReceive(h, n, p) PROVE Shape'
    <2> DEFINE r == [NoRequest EXCEPT !.node = n, !.parent = p]
    <2>1. r \in Request /\ r.node = n /\ r.parent = p
        BY DEF Request, NoRequest
    <2>2. /\ Receive(h, "create_folder", "create_folder", r)
          /\ kind[n] = "unused" /\ \A g \in Handlers : req[g].node # n
          /\ kind[p] \in {"folder", "gone"}
        BY <1>1, ParentResolved DEF CreateReceive, Fresh, Unknown
    <2> HIDE DEF r
    <2> QED BY <2>1, <2>2, LabelFacts, ReceiveShape
<1>2. ASSUME NEW n \in Nodes, NEW p \in Nodes, NEW size \in FileSizes, UploadReceive(h, n, p, size)
      PROVE  Shape'
    <2>1. PICK op \in {"upload", "upload_image"} :
              Receive(h, op, IF size > remaining THEN "write_over_quota" ELSE "write_blob",
                      [NoRequest EXCEPT !.node = n, !.parent = p, !.amount = size,
                                        !.image = (op = "upload_image")])
        BY <1>2 DEF UploadReceive
    <2> DEFINE i == (op = "upload_image")
               r == [NoRequest EXCEPT !.node = n, !.parent = p, !.amount = size, !.image = i]
               label == IF size > remaining THEN "write_over_quota" ELSE "write_blob"
    <2>2. size \in Nat /\ i \in BOOLEAN
        BY SizesAssumption
    <2>3. r \in Request /\ r.node = n /\ r.parent = p
        <3> HIDE DEF i
        <3> QED BY <2>2 DEF Request, NoRequest
    <2>4. /\ kind[n] = "unused" /\ \A g \in Handlers : req[g].node # n
          /\ kind[p] \in {"folder", "gone"}
        BY <1>2, ParentResolved DEF UploadReceive, Fresh, Unknown
    <2>5. Receive(h, op, label, r)
        BY <2>1
    <2>6. label \in {"write_over_quota", "write_blob"}
        OBVIOUS
    <2> HIDE DEF r, label
    <2> QED BY <2>3, <2>4, <2>5, <2>6, LabelFacts, ReceiveShape
<1>3. ASSUME NEW n \in Nodes, NEW p \in Nodes, MoveReceive(h, n, p) PROVE Shape'
    <2> DEFINE r == [NoRequest EXCEPT !.node = n, !.parent = p]
               label == IF kind[n] = "folder" THEN "check_descendant" ELSE "move_node"
    <2>1. r \in Request /\ r.node = n /\ r.parent = p
        BY DEF Request, NoRequest
    <2>2. Receive(h, "move", label, r) /\ n # p /\ kind[p] \in {"folder", "gone"}
        BY <1>3, ParentResolved DEF MoveReceive
    <2>3. label \in {"check_descendant", "move_node"}
        OBVIOUS
    <2> HIDE DEF r, label
    <2> QED BY <2>1, <2>2, <2>3, LabelFacts, ReceiveShape
<1>4. ASSUME NEW n \in Nodes, TrashReceive(h, n) \/ RestoreReceive(h, n) \/ PurgeNodeReceive(h, n)
      PROVE  Shape'
    <2> DEFINE r == [NoRequest EXCEPT !.node = n]
    <2>1. r \in Request /\ r.node = n
        BY DEF Request, NoRequest
    <2>2. \/ Receive(h, "trash", "trash", r) /\ n # Root
          \/ Receive(h, "restore", "restore", r)
          \/ Receive(h, "purge_node", "select_blobs", r) /\ n # Root
        BY <1>4 DEF TrashReceive, RestoreReceive, PurgeNodeReceive
    <2> HIDE DEF r
    <2> QED BY <2>1, <2>2, LabelFacts, ReceiveShape
<1>5. ASSUME PurgeTrashReceive(h) PROVE Shape'
    <2>1. NoRequest.node = NoNode /\ NoRequest \in Request /\ NoNode # Root
        BY RequestTypes, NodesFinite DEF NoRequest
    <2> QED BY <1>5, <2>1, LabelFacts, ReceiveShape DEF PurgeTrashReceive
<1>6. ASSUME RecomputeRead(h) PROVE Shape'
    <2>1. Bytes(Rows) \in Nat
        BY QueryTypes, BytesNat
    <2> DEFINE r == [NoRequest EXCEPT !.amount = Bytes(Rows)]
    <2>2. Receive(h, "recompute_used", "write_used", r) /\ r \in Request
        BY <1>6, <2>1, RequestTypes DEF RecomputeRead
    <2> HIDE DEF r
    <2> QED BY <2>2, LabelFacts, ReceiveShape
<1> QED BY <1>1, <1>2, <1>3, <1>4, <1>5, <1>6 DEF Arrival

\* The INSERT of CreateFolder and UploadCommit.
LEMMA InsertFacts ==
    ASSUME TypeOK, Shape, NEW h \in Handlers, pc[h] \in NoRowYet, NEW k \in {"folder", "file"},
           NEW size, InsertRow(req[h].node, k, req[h].parent, size)
    PROVE  LET n == req[h].node
               p == req[h].parent
           IN  /\ n \in Nodes \ {Root} /\ n \notin Rows /\ p \in Nodes /\ n # p
               /\ Rows' = Rows \cup {n}
               /\ kind'[n] = k /\ parent_id'[n] = p /\ size_bytes'[n] = size
               /\ \A m \in Nodes \ {n} : /\ kind'[m] = kind[m] /\ parent_id'[m] = parent_id[m]
                                         /\ size_bytes'[m] = size_bytes[m]
               /\ trashed' = trashed /\ has_thumbnail' = has_thumbnail
<1> DEFINE n == req[h].node
           p == req[h].parent
<1>1. /\ n \in Nodes /\ kind[n] = "unused" /\ p \in Nodes /\ kind[p] \in {"folder", "gone"}
      /\ kind[Root] # "unused"
    BY DEF Shape, RequestShape, Parents
<1>2. /\ kind' = [kind EXCEPT ![n] = k] /\ parent_id' = [parent_id EXCEPT ![n] = p]
      /\ size_bytes' = [size_bytes EXCEPT ![n] = size]
      /\ trashed' = trashed /\ has_thumbnail' = has_thumbnail
    BY DEF InsertRow
<1> HIDE DEF n, p
<1>3. /\ kind'[n] = k /\ parent_id'[n] = p /\ size_bytes'[n] = size
      /\ \A m \in Nodes \ {n} : /\ kind'[m] = kind[m] /\ parent_id'[m] = parent_id[m]
                                /\ size_bytes'[m] = size_bytes[m]
    BY <1>1, <1>2 DEF TypeOK
<1>4. Rows' = Rows \cup {n} /\ n \notin Rows
    BY <1>1, <1>3 DEF Rows
<1>5. n # Root /\ n # p
    BY <1>1
<1> QED BY <1>1, <1>2, <1>3, <1>4, <1>5 DEF n, p

\* A new row goes under a folder that no open purge has deleted.
LEMMA InsertShape ==
    ASSUME TypeOK, Shape, NEW h \in Handlers, pc[h] \in NoRowYet, NEW k \in {"folder", "file"},
           NEW size, InsertRow(req[h].node, k, req[h].parent, size),
           kind[req[h].parent] = "folder", \A g \in Handlers : req[h].parent \notin deleting[g],
           deleting' = deleting,
           \/ pc'[h] = "idle"
           \/ pc'[h] = "read_blob" /\ k = "file" /\ req'[h] = req[h],
           \A g \in Handlers \ {h} : pc'[g] = pc[g] /\ req'[g] = req[g]
    PROVE  Shape'
<1> DEFINE n == req[h].node
           p == req[h].parent
<1>1. /\ n \in Nodes \ {Root} /\ n \notin Rows /\ p \in Nodes /\ n # p
      /\ Rows' = Rows \cup {n}
      /\ kind'[n] = k /\ parent_id'[n] = p
      /\ \A m \in Nodes \ {n} : kind'[m] = kind[m] /\ parent_id'[m] = parent_id[m]
    BY InsertFacts
<1>2. kind[n] = "unused"
    BY DEF Shape, RequestShape
<1>3. pc[h] # "release_quota"
    BY DEF NoRowYet
<1>4. ASSUME NEW g \in Handlers PROVE RequestShape(g)'
    <2>1. CASE g = h
        BY <1>1, <2>1 DEF RequestShape, NoRowYet, Thumbnailing, Moving, PurgeLabels
    <2>2. CASE g # h
        <3>1. RequestShape(g) /\ pc'[g] = pc[g] /\ req'[g] = req[g]
            BY <2>2 DEF Shape
        <3>2. pc[g] \in NoRowYet => req[g].node # n
            BY <2>2 DEF Shape, Distinct
        <3> QED BY <1>1, <1>2, <3>1, <3>2 DEF RequestShape
    <2> QED BY <2>1, <2>2
<1>5. Distinct'
    BY DEF Shape, Distinct, NoRowYet
<1>6. Parents'
    <2>1. kind[p] = "folder" /\ kind[Root] \in {"folder", "gone"} /\ Root \in Nodes
        BY NodesFinite DEF Shape, Parents
    <2>2. ASSUME NEW m \in Rows
          PROVE  \/ m = Root /\ parent_id'[m] = NoNode
                 \/ parent_id'[m] \in Nodes /\ kind'[parent_id'[m]] = "folder"
        BY <1>1, <1>2 DEF Shape, Parents, Rows
    <2> QED BY <1>1, <2>1, <2>2 DEF Parents
<1>7. Deletions'
    <2>1. ASSUME NEW g \in Handlers
          PROVE  /\ deleting'[g] \subseteq Rows'
                 /\ deleting'[g] # {} => pc'[g] = "release_quota"
                 /\ Closed(deleting'[g], Rows', parent_id')
                 /\ \A i \in Handlers \ {g} : deleting'[i] \cap deleting'[g] = {}
        <3>1. /\ deleting[g] \subseteq Rows /\ Closed(deleting[g], Rows, parent_id)
              /\ deleting[g] # {} => pc[g] = "release_quota"
              /\ \A i \in Handlers \ {g} : deleting[i] \cap deleting[g] = {}
            BY DEF Shape, Deletions
        <3>2. Closed(deleting'[g], Rows', parent_id')
            BY <1>1, <3>1 DEF Closed, Rows
        <3> QED BY <1>1, <1>3, <3>1, <3>2
    <2>2. ASSUME NEW g \in Handlers, pc'[g] = "commit_upload"
          PROVE  /\ kind'[req'[g].parent] = "folder"
                 /\ \A i \in Handlers : req'[g].parent \notin deleting'[i]
        <3>1. g # h /\ pc[g] = "commit_upload" /\ req'[g] = req[g]
            BY <2>2
        <3>2. /\ kind[req[g].parent] = "folder" /\ req[g].parent \in Nodes
              /\ \A i \in Handlers : req[g].parent \notin deleting[i]
            BY <3>1 DEF Shape, Deletions, RequestShape, NoRowYet
        <3> QED BY <1>1, <1>2, <3>1, <3>2
    <2> QED BY <2>1, <2>2 DEF Deletions
<1> QED BY <1>4, <1>5, <1>6, <1>7 DEF Shape

\* The commit of a purge: the rows of a closed set go.
LEMMA PurgeCommitFacts ==
    ASSUME TypeOK, Shape, NEW h \in Handlers, PurgeCommit(h)
    PROVE  LET D == deleting[h]
           IN  /\ D \subseteq Rows /\ Closed(D, Rows, parent_id)
               /\ Rows' = Rows \ D
               /\ \A n \in Nodes : kind'[n] = IF n \in D THEN "gone" ELSE kind[n]
               /\ deleting'[h] = {} /\ \A g \in Handlers \ {h} : deleting'[g] = deleting[g]
               /\ pc[h] = "release_quota" /\ pc'[h] = "unlink_blobs"
               /\ \A g \in Handlers \ {h} : pc'[g] = pc[g]
               /\ UNCHANGED <<parent_id, trashed, size_bytes, has_thumbnail, rowLock, fsVars, req>>
<1>1. /\ deleting[h] \subseteq Rows /\ Closed(deleting[h], Rows, parent_id)
    BY DEF Shape, Deletions
<1>2. /\ pc[h] = "release_quota" /\ Goto(h, "unlink_blobs")
      /\ kind' = [n \in Nodes |-> IF n \in deleting[h] THEN "gone" ELSE kind[n]]
      /\ deleting' = [deleting EXCEPT ![h] = {}]
      /\ UNCHANGED <<parent_id, trashed, size_bytes, has_thumbnail, rowLock, fsVars, req>>
    BY DEF PurgeCommit
<1>3. pc'[h] = "unlink_blobs" /\ \A g \in Handlers \ {h} : pc'[g] = pc[g]
    BY <1>2, GotoStep, LabelFacts
<1>4. Rows' = Rows \ deleting[h]
    BY <1>2 DEF Rows
<1>5. deleting'[h] = {} /\ \A g \in Handlers \ {h} : deleting'[g] = deleting[g]
    BY <1>2 DEF TypeOK
<1>6. \A n \in Nodes : kind'[n] = IF n \in deleting[h] THEN "gone" ELSE kind[n]
    BY <1>2
<1> QED BY <1>1, <1>2, <1>3, <1>4, <1>5, <1>6

\* Such a commit leaves no child without its parent.
LEMMA PurgeCommitShape ==
    ASSUME TypeOK, Shape, NEW h \in Handlers, PurgeCommit(h)
    PROVE  Shape'
<1> DEFINE D == deleting[h]
<1>1. /\ D \subseteq Rows /\ Closed(D, Rows, parent_id)
      /\ Rows' = Rows \ D
      /\ \A n \in Nodes : kind'[n] = IF n \in D THEN "gone" ELSE kind[n]
      /\ deleting'[h] = {} /\ \A g \in Handlers \ {h} : deleting'[g] = deleting[g]
      /\ pc[h] = "release_quota" /\ pc'[h] = "unlink_blobs"
      /\ \A g \in Handlers \ {h} : pc'[g] = pc[g]
      /\ req' = req /\ parent_id' = parent_id
    BY PurgeCommitFacts
<1>2. \A n \in D : kind[n] \in {"folder", "file"}
    BY <1>1 DEF Rows
<1>3. ASSUME NEW g \in Handlers PROVE RequestShape(g)'
    <2>1. RequestShape(g)
        BY DEF Shape
    <2>2. CASE g = h
        BY <1>1, <2>1, <2>2 DEF RequestShape, NoRowYet, Thumbnailing, Moving, PurgeLabels
    <2>3. CASE g # h
        BY <1>1, <1>2, <2>1, <2>3 DEF RequestShape
    <2> QED BY <2>2, <2>3
<1>4. Distinct'
    BY <1>1 DEF Shape, Distinct, NoRowYet
<1>5. Parents'
    <2>1. kind'[Root] \in {"folder", "gone"}
        BY <1>1, NodesFinite DEF Shape, Parents
    <2>2. ASSUME NEW n \in Rows \ D
          PROVE  \/ n = Root /\ parent_id'[n] = NoNode
                 \/ parent_id'[n] \in Nodes /\ kind'[parent_id'[n]] = "folder"
        <3>1. \/ n = Root /\ parent_id[n] = NoNode
              \/ parent_id[n] \in Nodes /\ kind[parent_id[n]] = "folder"
            BY DEF Shape, Parents
        <3>2. parent_id[n] \notin D
            BY <1>1 DEF Closed
        <3> QED BY <1>1, <3>1, <3>2
    <2> QED BY <1>1, <2>1, <2>2 DEF Parents
<1>6. Deletions'
    <2>1. ASSUME NEW g \in Handlers
          PROVE  /\ deleting'[g] \subseteq Rows'
                 /\ deleting'[g] # {} => pc'[g] = "release_quota"
                 /\ Closed(deleting'[g], Rows', parent_id')
                 /\ \A i \in Handlers \ {g} : deleting'[i] \cap deleting'[g] = {}
        <3>1. CASE g = h
            BY <1>1, <3>1 DEF Closed
        <3>2. CASE g # h
            <4>1. /\ deleting[g] \subseteq Rows /\ Closed(deleting[g], Rows, parent_id)
                  /\ deleting[g] # {} => pc[g] = "release_quota"
                  /\ \A i \in Handlers \ {g} : deleting[i] \cap deleting[g] = {}
                BY DEF Shape, Deletions
            <4>2. deleting'[g] \subseteq Rows'
                BY <1>1, <3>2, <4>1
            <4>3. Closed(deleting'[g], Rows', parent_id')
                BY <1>1, <3>2, <4>1 DEF Closed
            <4>4. \A i \in Handlers \ {g} : deleting'[i] \cap deleting'[g] = {}
                BY <1>1, <3>2, <4>1
            <4> QED BY <1>1, <3>2, <4>1, <4>2, <4>3, <4>4
        <3> QED BY <3>1, <3>2
    <2>2. ASSUME NEW g \in Handlers, pc'[g] = "commit_upload"
          PROVE  /\ kind'[req'[g].parent] = "folder"
                 /\ \A i \in Handlers : req'[g].parent \notin deleting'[i]
        <3>1. g # h /\ pc[g] = "commit_upload"
            BY <1>1, <2>2
        <3>2. /\ kind[req[g].parent] = "folder" /\ req[g].parent \in Nodes
              /\ \A i \in Handlers : req[g].parent \notin deleting[i]
            BY <3>1 DEF Shape, Deletions, RequestShape, NoRowYet
        <3> QED BY <1>1, <3>1, <3>2
    <2> QED BY <2>1, <2>2 DEF Deletions
<1> QED BY <1>3, <1>4, <1>5, <1>6 DEF Shape

\* DELETE with its cascade takes a closed set, and at least what was listed.
LEMMA DoomedFacts ==
    ASSUME NEW h
    PROVE  /\ Doomed(h) \subseteq Rows
           /\ Closed(Doomed(h), Rows, parent_id)
           /\ Listed(h) \subseteq Doomed(h)
<1> DEFINE T == IF req[h].node = NoNode THEN Trash ELSE {req[h].node}
<1>1. Doomed(h) = UNION {Subtree(n) : n \in T}
    BY DEF Doomed
<1> HIDE DEF T
<1>2. Doomed(h) \subseteq Rows
    BY <1>1, SubtreeFacts
<1>3. Closed(Doomed(h), Rows, parent_id)
    <2> SUFFICES ASSUME NEW c \in Rows, parent_id[c] \in Doomed(h) PROVE c \in Doomed(h)
        BY DEF Closed
    <2>1. PICK n \in T : parent_id[c] \in Subtree(n)
        BY <1>1
    <2>2. c \in Subtree(n)
        BY <2>1, SubtreeFacts DEF Closed
    <2> QED BY <1>1, <2>2
<1>4. Listed(h) \subseteq Doomed(h)
    <2>1. CASE req[h].node = NoNode
        <3> SUFFICES ASSUME NEW n \in Trash PROVE n \in Doomed(h)
            BY <2>1 DEF Listed
        <3>1. n \in Subtree(n) /\ n \in T
            BY <2>1, SubtreeFacts DEF Trash, T
        <3> QED BY <1>1, <3>1
    <2>2. CASE req[h].node # NoNode
        <3>1. Listed(h) = Subtree(req[h].node) /\ req[h].node \in T
            BY <2>2 DEF Listed, T
        <3> QED BY <1>1, <3>1
    <2> QED BY <2>1, <2>2
<1> QED BY <1>2, <1>3, <1>4

\* The DELETE of a purge waits for the rows it needs.
LEMMA PurgeDeleteFacts ==
    ASSUME TypeOK, NEW h \in Handlers, PurgeDelete(h)
    PROVE  /\ pc[h] = "delete_nodes" /\ pc'[h] = "release_quota"
           /\ \A g \in Handlers \ {h} : pc'[g] = pc[g]
           /\ deleting'[h] = Doomed(h) /\ \A g \in Handlers \ {h} : deleting'[g] = deleting[g]
           /\ \A g \in Handlers : deleting[g] \cap Doomed(h) = {}
           /\ \A g \in Handlers : pc[g] = "commit_upload" => req[g].parent \notin Doomed(h)
           /\ UNCHANGED <<nodeVars, userVars, fsVars, req>>
<1>1. /\ pc[h] = "delete_nodes" /\ Goto(h, "release_quota")
      /\ deleting' = [deleting EXCEPT ![h] = Doomed(h)]
      /\ \A g \in Handlers : deleting[g] \cap Doomed(h) = {}
      /\ \A g \in Handlers : pc[g] = "commit_upload" => req[g].parent \notin Doomed(h)
      /\ UNCHANGED <<nodeVars, userVars, fsVars, req>>
    BY DEF PurgeDelete, Deleted, KeyShared
<1>2. pc'[h] = "release_quota" /\ \A g \in Handlers \ {h} : pc'[g] = pc[g]
    BY <1>1, GotoStep, LabelFacts
<1> QED BY <1>1, <1>2 DEF TypeOK

\* So the open deletions stay apart from each other and from the uploads.
LEMMA PurgeDeleteShape ==
    ASSUME TypeOK, Shape, NEW h \in Handlers, PurgeDelete(h)
    PROVE  Shape'
<1> DEFINE D == Doomed(h)
<1>1. /\ pc[h] = "delete_nodes" /\ pc'[h] = "release_quota"
      /\ \A g \in Handlers \ {h} : pc'[g] = pc[g]
      /\ deleting'[h] = D /\ \A g \in Handlers \ {h} : deleting'[g] = deleting[g]
      /\ \A g \in Handlers : deleting[g] \cap D = {}
      /\ \A g \in Handlers : pc[g] = "commit_upload" => req[g].parent \notin D
      /\ UNCHANGED <<kind, parent_id, req>>
    BY PurgeDeleteFacts DEF nodeVars, treeVars
<1>2. D \subseteq Rows /\ Closed(D, Rows, parent_id)
    BY DoomedFacts
<1> HIDE DEF D
<1>3. ASSUME NEW g \in Handlers PROVE RequestShape(g)'
    BY <1>1 DEF Shape, RequestShape, NoRowYet, Thumbnailing, Moving, PurgeLabels
<1>4. Distinct'
    BY <1>1 DEF Shape, Distinct, NoRowYet
<1>5. Parents' /\ Rows' = Rows
    BY <1>1 DEF Shape, Parents, Rows
<1>6. Deletions'
    <2>1. ASSUME NEW g \in Handlers
          PROVE  /\ deleting'[g] \subseteq Rows'
                 /\ deleting'[g] # {} => pc'[g] = "release_quota"
                 /\ Closed(deleting'[g], Rows', parent_id')
                 /\ \A i \in Handlers \ {g} : deleting'[i] \cap deleting'[g] = {}
        BY <1>1, <1>2, <1>5 DEF Shape, Deletions
    <2>2. ASSUME NEW g \in Handlers, pc'[g] = "commit_upload"
          PROVE  /\ kind'[req'[g].parent] = "folder"
                 /\ \A i \in Handlers : req'[g].parent \notin deleting'[i]
        <3>1. g # h /\ pc[g] = "commit_upload"
            BY <1>1, <2>2
        <3> QED BY <1>1, <3>1 DEF Shape, Deletions
    <2> QED BY <2>1, <2>2 DEF Deletions
<1> QED BY <1>3, <1>4, <1>5, <1>6 DEF Shape

\* A move that changes something puts a row under a folder that is there.
LEMMA MoveNodeFacts ==
    ASSUME TypeOK, Shape, NEW h \in Handlers, MoveNode(h), parent_id' # parent_id
    PROVE  LET n == req[h].node
               p == req[h].parent
           IN  /\ n \in Rows /\ p \in Rows /\ kind[p] = "folder" /\ n # p
               /\ parent_id'[n] = p /\ \A m \in Nodes \ {n} : parent_id'[m] = parent_id[m]
               /\ \A g \in Handlers : n \notin deleting[g] /\ p \notin deleting[g]
<1>1. /\ pc[h] = "move_node" /\ {req[h].node, req[h].parent} \subseteq Rows
      /\ parent_id' = [parent_id EXCEPT ![req[h].node] = req[h].parent]
      /\ \A g \in Handlers : req[h].node \notin deleting[g] /\ req[h].parent \notin deleting[g]
    BY DEF MoveNode, Deleted
<1>2. /\ req[h].node \in Nodes /\ req[h].node # req[h].parent
      /\ kind[req[h].parent] \in {"folder", "gone"}
    BY <1>1 DEF Shape, RequestShape, Moving
<1> QED BY <1>1, <1>2 DEF TypeOK, Rows

\* It cannot leave or enter what a purge is deleting.
LEMMA MoveNodeShape ==
    ASSUME TypeOK, Shape, NEW h \in Handlers, MoveNode(h)
    PROVE  Shape'
<1>1. /\ pc[h] = "move_node" /\ Return(h) /\ kind' = kind /\ deleting' = deleting
    BY DEF MoveNode
<1>2. deleting[h] = {}
    BY <1>1, IdleDeletesNothing
<1>3. CASE parent_id' = parent_id
    BY <1>1, <1>2, <1>3, ReturnShape
<1>4. CASE parent_id' # parent_id
    <2> DEFINE n == req[h].node
               p == req[h].parent
    <2>1. /\ n \in Rows /\ p \in Rows /\ kind[p] = "folder"
          /\ parent_id'[n] = p /\ \A m \in Nodes \ {n} : parent_id'[m] = parent_id[m]
          /\ \A g \in Handlers : n \notin deleting[g] /\ p \notin deleting[g]
        BY <1>4, MoveNodeFacts
    <2> HIDE DEF n, p
    <2>2. /\ pc'[h] = "idle" /\ \A g \in Handlers \ {h} : pc'[g] = pc[g] /\ req'[g] = req[g]
        BY <1>1, ReturnStep
    <2>3. ASSUME NEW g \in Handlers PROVE RequestShape(g)'
        BY <1>1, <2>2 DEF Shape, RequestShape, NoRowYet, Thumbnailing, Moving, PurgeLabels
    <2>4. Distinct'
        BY <2>2 DEF Shape, Distinct, NoRowYet
    <2>5. Rows' = Rows /\ Rows \subseteq Nodes
        BY <1>1 DEF Rows
    <2>6. Parents'
        BY <1>1, <2>1, <2>5 DEF Shape, Parents
    <2>7. Deletions'
        <3>1. ASSUME NEW g \in Handlers PROVE Closed(deleting'[g], Rows', parent_id')
            BY <1>1, <2>1, <2>5 DEF Shape, Deletions, Closed
        <3>2. ASSUME NEW g \in Handlers
              PROVE  /\ deleting'[g] \subseteq Rows'
                     /\ deleting'[g] # {} => pc'[g] = "release_quota"
                     /\ \A i \in Handlers \ {g} : deleting'[i] \cap deleting'[g] = {}
            BY <1>1, <1>2, <2>2, <2>5 DEF Shape, Deletions
        <3>3. ASSUME NEW g \in Handlers, pc'[g] = "commit_upload"
              PROVE  /\ kind'[req'[g].parent] = "folder"
                     /\ \A i \in Handlers : req'[g].parent \notin deleting'[i]
            BY <1>1, <2>2, <3>3 DEF Shape, Deletions
        <3> QED BY <3>1, <3>2, <3>3 DEF Deletions
    <2> QED BY <2>3, <2>4, <2>6, <2>7 DEF Shape
<1> QED BY <1>3, <1>4

\* A transaction that rolls back deletes nothing.
LEMMA RollbackShape ==
    ASSUME TypeOK, Shape, NEW h \in Handlers, Return(h), kind' = kind, parent_id' = parent_id,
           deleting' = [deleting EXCEPT ![h] = {}]
    PROVE  Shape'
<1>1. /\ pc'[h] = "idle" /\ \A g \in Handlers \ {h} : pc'[g] = pc[g] /\ req'[g] = req[g]
    BY ReturnStep
<1>2. deleting'[h] = {} /\ \A g \in Handlers \ {h} : deleting'[g] = deleting[g]
    BY DEF TypeOK
<1>3. ASSUME NEW g \in Handlers PROVE RequestShape(g)'
    BY <1>1 DEF Shape, RequestShape, NoRowYet, Thumbnailing, Moving, PurgeLabels
<1>4. Distinct'
    BY <1>1 DEF Shape, Distinct, NoRowYet
<1>5. Parents' /\ Rows' = Rows
    BY DEF Shape, Parents, Rows
<1>6. Deletions'
    <2>1. ASSUME NEW g \in Handlers
          PROVE  /\ deleting'[g] \subseteq Rows'
                 /\ deleting'[g] # {} => pc'[g] = "release_quota"
                 /\ Closed(deleting'[g], Rows', parent_id')
                 /\ \A i \in Handlers \ {g} : deleting'[i] \cap deleting'[g] = {}
        <3>1. Closed({}, Rows, parent_id)
            BY DEF Closed
        <3> QED BY <1>1, <1>2, <1>5, <3>1 DEF Shape, Deletions
    <2>2. ASSUME NEW g \in Handlers, pc'[g] = "commit_upload"
          PROVE  /\ kind'[req'[g].parent] = "folder"
                 /\ \A i \in Handlers : req'[g].parent \notin deleting'[i]
        BY <1>1, <1>2, <2>2 DEF Shape, Deletions
    <2> QED BY <2>1, <2>2 DEF Deletions
<1> QED BY <1>3, <1>4, <1>5, <1>6 DEF Shape

\* A step of h that goes on with the same request.
LEMMA GotoShape ==
    ASSUME TypeOK, Shape, NEW h \in Handlers, NEW label \in Labels, Goto(h, label),
           UNCHANGED <<kind, parent_id, deleting>>, deleting[h] = {},
           req'[h].node = req[h].node, req'[h].parent = req[h].parent,
           \A g \in Handlers \ {h} : req'[g] = req[g],
           \/ {pc[h], label} \subseteq NoRowYet \ {"commit_upload"}
           \/ /\ pc[h] = "insert_file" /\ label = "commit_upload"
              /\ kind[req[h].parent] = "folder" /\ \A g \in Handlers : req[h].parent \notin deleting[g]
           \/ {pc[h], label} \subseteq Thumbnailing
           \/ {pc[h], label} \subseteq Moving
           \/ {pc[h], label} \subseteq PurgeLabels
    PROVE  Shape'
<1>1. pc'[h] = label /\ \A g \in Handlers \ {h} : pc'[g] = pc[g]
    BY GotoStep
<1>2. RequestShape(h)
    BY DEF Shape
<1>3. RequestShape(h)'
    BY <1>1, <1>2 DEF RequestShape, NoRowYet, Thumbnailing, Moving, PurgeLabels
<1>4. pc'[h] \in NoRowYet =>
         \A g \in Handlers \ {h} : pc[g] \in NoRowYet => req[g].node # req'[h].node
    BY <1>1 DEF Shape, Distinct, NoRowYet, Thumbnailing, Moving, PurgeLabels
<1>5. pc'[h] = "commit_upload" =>
         /\ kind[req'[h].parent] = "folder"
         /\ \A g \in Handlers : req'[h].parent \notin deleting[g]
    BY <1>1 DEF NoRowYet, Thumbnailing, Moving, PurgeLabels
<1> QED BY <1>1, <1>3, <1>4, <1>5, QuietShape

\* A direct upload preserves the shape.
LEMMA UploadStepShape == ASSUME TypeOK, Shape, NEW h \in Handlers, UploadStep(h) PROVE Shape'
<1>0. pc[h] # "release_quota" => deleting[h] = {}
    BY IdleDeletesNothing
<1> USE DEF NoRowYet, Thumbnailing
<1>1. CASE UploadWrite(h) \/ UploadLockUser(h) \/ ThumbnailWrite(h)
    <2>1. /\ UNCHANGED <<kind, parent_id, deleting, req>>
          /\ pc[h] # "release_quota"
          /\ \E label \in Labels : /\ Goto(h, label)
                                   /\ \/ {pc[h], label} \subseteq NoRowYet \ {"commit_upload"}
                                      \/ {pc[h], label} \subseteq Thumbnailing
        BY <1>1, LabelFacts DEF UploadWrite, UploadLockUser, ThumbnailWrite, nodeVars, treeVars
    <2> QED BY <1>0, <2>1, GotoShape
<1>2. CASE UploadStreamFails(h) \/ UploadUnlink(h) \/ SetMediaMeta(h)
    <2>1. Return(h) /\ UNCHANGED <<kind, parent_id, deleting>> /\ pc[h] # "release_quota"
        BY <1>2 DEF UploadStreamFails, UploadUnlink, SetMediaMeta, nodeVars, treeVars
    <2> QED BY <1>0, <2>1, ReturnShape
<1>3. CASE UploadInsert(h)
    <2>1. /\ UNCHANGED <<kind, parent_id, deleting, req>> /\ pc[h] = "insert_file"
          /\ \A g \in Handlers : req[h].parent \notin deleting[g]
          /\ \/ req[h].parent \in Rows /\ Goto(h, "commit_upload")
             \/ Goto(h, "unlink_blob")
        BY <1>3 DEF UploadInsert, UploadRollback, Deleted, nodeVars, treeVars
    <2>2. req[h].parent \in Rows => kind[req[h].parent] = "folder"
        BY <2>1 DEF Shape, RequestShape, Rows
    <2> QED BY <1>0, <2>1, <2>2, LabelFacts, GotoShape
<1>4. CASE UploadCommit(h)
    <2>1. /\ InsertRow(req[h].node, "file", req[h].parent, req[h].amount)
          /\ pc[h] = "commit_upload" /\ deleting' = deleting
          /\ \/ Goto(h, "read_blob") /\ req' = req
             \/ Return(h)
        BY <1>4 DEF UploadCommit, AfterCommit
    <2>2. kind[req[h].parent] = "folder" /\ \A g \in Handlers : req[h].parent \notin deleting[g]
        BY <2>1 DEF Shape, Deletions
    <2>3. /\ \/ pc'[h] = "idle"
             \/ pc'[h] = "read_blob" /\ req'[h] = req[h]
          /\ \A g \in Handlers \ {h} : pc'[g] = pc[g] /\ req'[g] = req[g]
        BY <2>1, GotoStep, ReturnStep, LabelFacts
    <2> QED BY <2>1, <2>2, <2>3, InsertShape
<1>5. CASE ThumbnailRead(h)
    <2>1. /\ UNCHANGED <<kind, parent_id, deleting>> /\ pc[h] = "read_blob"
          /\ \/ Goto(h, "write_thumb") /\ UNCHANGED req
             \/ Return(h)
        BY <1>5 DEF ThumbnailRead, nodeVars, treeVars
    <2> QED BY <1>0, <2>1, LabelFacts, GotoShape, ReturnShape
<1> QED BY <1>1, <1>2, <1>3, <1>4, <1>5 DEF UploadStep

\* A purge preserves it.
LEMMA PurgeStepShape == ASSUME TypeOK, Shape, NEW h \in Handlers, PurgeStep(h) PROVE Shape'
<1>0. pc[h] # "release_quota" => deleting[h] = {}
    BY IdleDeletesNothing
<1>1. CASE PurgeSelect(h) \/ PurgeSum(h)
    <2>1. /\ UNCHANGED <<kind, parent_id, deleting>> /\ pc[h] # "release_quota"
          /\ \E label \in Labels : Goto(h, label) /\ {pc[h], label} \subseteq PurgeLabels
        BY <1>1, LabelFacts DEF PurgeSelect, PurgeSum, nodeVars, treeVars, PurgeLabels
    <2>2. /\ req'[h].node = req[h].node /\ \A g \in Handlers \ {h} : req'[g] = req[g]
        BY <1>1, PurgeSelectReq, PurgeSumReq
    <2>3. PICK label \in Labels : Goto(h, label) /\ {pc[h], label} \subseteq PurgeLabels
        BY <2>1
    <2>4. pc'[h] = label /\ \A g \in Handlers \ {h} : pc'[g] = pc[g]
        BY <2>3, GotoStep
    <2>5. RequestShape(h)'
        BY <2>2, <2>3, <2>4 DEF Shape, RequestShape, NoRowYet, Thumbnailing, Moving, PurgeLabels
    <2>6. label \notin NoRowYet /\ label # "commit_upload"
        BY <2>3 DEF NoRowYet, PurgeLabels
    <2> QED BY <1>0, <2>1, <2>2, <2>4, <2>5, <2>6, QuietShape
<1>2. CASE PurgeUnlink(h)
    <2>1. UNCHANGED <<kind, parent_id, deleting>> /\ pc[h] = "unlink_blobs"
        BY <1>2 DEF PurgeUnlink, nodeVars, treeVars
    <2>2. CASE Return(h)
        BY <1>0, <2>1, <2>2, ReturnShape
    <2>3. CASE /\ UNCHANGED pc /\ req'[h].node = req[h].node
               /\ \A g \in Handlers \ {h} : req'[g] = req[g]
        <3>1. RequestShape(h)'
            BY <2>1, <2>3 DEF Shape, RequestShape, NoRowYet, Thumbnailing, Moving, PurgeLabels
        <3>2. pc'[h] \notin NoRowYet
            BY <2>1, <2>3 DEF NoRowYet
        <3> QED BY <1>0, <2>1, <2>3, <3>1, <3>2, QuietShape
    <2> QED BY <1>2, <2>2, <2>3, UnlinkReq
<1> QED BY <1>1, <1>2, PurgeDeleteShape, PurgeCommitShape DEF PurgeStep

\* The requests of a single statement, and moves, preserve it.
LEMMA OtherStepShape ==
    ASSUME TypeOK, Shape, NEW h \in Handlers,
           \/ CreateFolder(h) \/ MoveCheck(h) \/ MoveNode(h) \/ TrashSubtree(h)
           \/ RestoreSubtree(h) \/ RestoreConflict(h) \/ RecomputeWrite(h)
    PROVE  Shape'
<1>0. pc[h] # "release_quota" => deleting[h] = {}
    BY IdleDeletesNothing
<1>1. CASE CreateFolder(h)
    <2>1. /\ pc[h] = "create_folder" /\ Return(h) /\ deleting' = deleting
          /\ \A g \in Handlers : req[h].parent \notin deleting[g]
          /\ \/ req[h].parent \in Rows /\ InsertRow(req[h].node, "folder", req[h].parent, 0)
             \/ UNCHANGED nodeVars
        BY <1>1 DEF CreateFolder, Deleted
    <2>2. CASE req[h].parent \in Rows /\ InsertRow(req[h].node, "folder", req[h].parent, 0)
        <3>1. kind[req[h].parent] = "folder" /\ pc[h] \in NoRowYet
            BY <2>1, <2>2 DEF Shape, RequestShape, Rows, NoRowYet
        <3> QED BY <2>1, <2>2, <3>1, ReturnStep, InsertShape
    <2>3. CASE UNCHANGED nodeVars
        BY <1>0, <2>1, <2>3, ReturnShape DEF nodeVars, treeVars
    <2> QED BY <2>1, <2>2, <2>3
<1>2. CASE MoveCheck(h)
    <2>1. /\ UNCHANGED <<kind, parent_id, deleting>> /\ pc[h] = "check_descendant"
          /\ \/ Goto(h, "move_node") /\ UNCHANGED req
             \/ Return(h)
        BY <1>2 DEF MoveCheck, nodeVars, treeVars
    <2> QED BY <1>0, <2>1, LabelFacts, GotoShape, ReturnShape DEF Moving
<1>3. CASE TrashSubtree(h) \/ RestoreSubtree(h) \/ RestoreConflict(h) \/ RecomputeWrite(h)
    <2>1. /\ Return(h) /\ UNCHANGED <<kind, parent_id, deleting>> /\ pc[h] # "release_quota"
        BY <1>3 DEF TrashSubtree, RestoreSubtree, MarkSubtree, RestoreConflict, RecomputeWrite,
                    nodeVars, treeVars
    <2> QED BY <1>0, <2>1, ReturnShape
<1> QED BY <1>1, <1>2, <1>3, MoveNodeShape

\* So do rollbacks and dropped futures.
LEMMA FailureShape ==
    ASSUME TypeOK, Shape, NEW h \in Handlers, Drop(h) \/ \E g \in Handlers : Deadlock(h, g)
    PROVE  Shape'
<1>1. CASE Drop(h)
    BY <1>1, RollbackShape DEF Drop, nodeVars, treeVars
<1>2. ASSUME NEW g \in Handlers, Deadlock(h, g) PROVE Shape'
    <2>1. /\ pc[h] = "insert_file" /\ UNCHANGED <<kind, parent_id>>
          /\ \/ Goto(h, "unlink_blob") /\ UNCHANGED <<req, deleting>>
             \/ Return(g) /\ deleting' = [deleting EXCEPT ![g] = {}]
        BY <1>2 DEF Deadlock, UploadRollback, nodeVars, treeVars
    <2>2. deleting[h] = {}
        BY <2>1, IdleDeletesNothing
    <2> QED BY <2>1, <2>2, LabelFacts, GotoShape, RollbackShape DEF NoRowYet
<1> QED BY <1>1, <1>2

\* The shape is inductive on top of the types.
LEMMA ShapeNext == TypeOK /\ Shape /\ [Next]_vars => Shape'
<1> SUFFICES ASSUME TypeOK, Shape, [Next]_vars PROVE Shape'
    OBVIOUS
<1>1. ASSUME NEW h \in Handlers, HandlerStep(h) PROVE Shape'
    BY <1>1, UploadStepShape, PurgeStepShape, OtherStepShape DEF HandlerStep
<1>2. CASE UNCHANGED vars
    BY <1>2 DEF vars, nodeVars, treeVars, handlerVars, Shape, RequestShape, Distinct, Parents,
                Deletions, Rows, Closed
<1> QED BY <1>1, <1>2, ArrivalShape, FailureShape DEF Next

\* Referential integrity under every interleaving: the parent of a row is a
\* folder that is there, what an open purge has deleted is a union of whole
\* subtrees, and nothing is committed into it (the key share lock of insert_file
\* against ON DELETE CASCADE).
THEOREM TreeShape == Spec => []Shape
<1>1. TypeOK /\ Shape /\ [Next]_vars => TypeOK' /\ Shape'
    BY TypeNext, ShapeNext
<1> QED BY TypeInit, ShapeInit, <1>1, PTL DEF Spec

(***************************************************************************)
(* THE QUOTA                                                               *)
(***************************************************************************)

\* An upload that holds the owner's row has room: the check of
\* quota_used_for_update stays true until add_used_bytes.
RoomIsKept ==
    \A h \in Handlers : pc[h] \in InTransaction => used_bytes + req[h].amount <= Quota

\* What all arrivals have in common.
LEMMA ArrivalStep ==
    ASSUME TypeOK, NEW h \in Handlers, Arrival(h)
    PROVE  /\ pc[h] = "idle"
           /\ pc'[h] \in {"create_folder", "write_blob", "write_over_quota", "check_descendant",
                         "move_node", "trash", "restore", "select_blobs", "write_used"}
           /\ \A g \in Handlers \ {h} : pc'[g] = pc[g] /\ req'[g] = req[g]
           /\ UNCHANGED <<nodeVars, userVars, fsVars, deleting>>
<1> DEFINE First == {"create_folder", "write_blob", "write_over_quota", "check_descendant",
                     "move_node", "trash", "restore", "select_blobs", "write_used"}
           Goal == /\ pc[h] = "idle" /\ pc'[h] \in First
                   /\ \A g \in Handlers \ {h} : pc'[g] = pc[g] /\ req'[g] = req[g]
                   /\ UNCHANGED <<nodeVars, userVars, fsVars, deleting>>
<1>1. ASSUME NEW op, NEW label \in First, NEW request, Receive(h, op, label, request) PROVE Goal
    <2> HIDE DEF First
    <2> QED BY <1>1 DEF Receive, TypeOK
<1> HIDE DEF Goal
<1>2. ASSUME NEW n \in Nodes, NEW p \in Nodes, CreateReceive(h, n, p) PROVE Goal
    BY <1>1, <1>2 DEF CreateReceive
<1>3. ASSUME NEW n \in Nodes, NEW p \in Nodes, NEW size \in FileSizes, UploadReceive(h, n, p, size)
      PROVE  Goal
    BY <1>1, <1>3 DEF UploadReceive
<1>4. ASSUME NEW n \in Nodes, NEW p \in Nodes, MoveReceive(h, n, p) PROVE Goal
    BY <1>1, <1>4 DEF MoveReceive
<1>5. ASSUME NEW n \in Nodes, TrashReceive(h, n) \/ RestoreReceive(h, n) \/ PurgeNodeReceive(h, n)
      PROVE  Goal
    BY <1>1, <1>5 DEF TrashReceive, RestoreReceive, PurgeNodeReceive
<1>6. ASSUME PurgeTrashReceive(h) \/ RecomputeRead(h) PROVE Goal
    BY <1>1, <1>6 DEF PurgeTrashReceive, RecomputeRead
<1>7. Goal
    BY <1>2, <1>3, <1>4, <1>5, <1>6 DEF Arrival
<1> QED BY <1>7 DEF Goal

\* The steps that are neither part of an upload's transaction nor change used_bytes.
LEMMA QuotaFrame ==
    ASSUME TypeOK, NEW h \in Handlers,
           \/ Arrival(h) \/ Drop(h) \/ CreateFolder(h) \/ MoveCheck(h) \/ MoveNode(h)
           \/ TrashSubtree(h) \/ RestoreSubtree(h) \/ RestoreConflict(h)
           \/ UploadWrite(h) \/ UploadStreamFails(h) \/ UploadUnlink(h) \/ ThumbnailRead(h)
           \/ ThumbnailWrite(h) \/ SetMediaMeta(h)
           \/ PurgeSelect(h) \/ PurgeSum(h) \/ PurgeDelete(h) \/ PurgeUnlink(h)
    PROVE  /\ used_bytes' = used_bytes
           /\ pc'[h] \notin InTransaction
           /\ \A g \in Handlers \ {h} : pc'[g] = pc[g] /\ req'[g] = req[g]
<1>1. CASE Arrival(h)
    BY <1>1, ArrivalStep, LabelFacts DEF userVars
<1>2. CASE Drop(h)
    BY <1>2, ReturnStep, LabelFacts DEF Drop
<1>3. CASE \/ CreateFolder(h) \/ MoveCheck(h) \/ MoveNode(h) \/ TrashSubtree(h)
           \/ RestoreSubtree(h) \/ RestoreConflict(h)
    <2>1. /\ used_bytes' = used_bytes
          /\ \/ Return(h)
             \/ Goto(h, "move_node") /\ UNCHANGED req
        BY <1>3 DEF CreateFolder, MoveCheck, MoveNode, TrashSubtree, RestoreSubtree, MarkSubtree,
                    RestoreConflict, userVars
    <2> QED BY <2>1, ReturnStep, GotoStep, LabelFacts
<1>4. CASE \/ UploadWrite(h) \/ UploadStreamFails(h) \/ UploadUnlink(h) \/ ThumbnailRead(h)
           \/ ThumbnailWrite(h) \/ SetMediaMeta(h)
    <2>1. /\ used_bytes' = used_bytes
          /\ \/ Return(h)
             \/ \E label \in Labels \ InTransaction : Goto(h, label) /\ UNCHANGED req
        BY <1>4, LabelFacts DEF UploadWrite, UploadStreamFails, UploadUnlink, ThumbnailRead,
                                ThumbnailWrite, SetMediaMeta, userVars
    <2> QED BY <2>1, ReturnStep, GotoStep, LabelFacts
<1>5. CASE PurgeSelect(h) \/ PurgeSum(h) \/ PurgeDelete(h)
    <2>1. /\ used_bytes' = used_bytes
          /\ \E label \in Labels \ InTransaction : Goto(h, label)
        BY <1>5, LabelFacts DEF PurgeSelect, PurgeSum, PurgeDelete, userVars
    <2>2. \A g \in Handlers \ {h} : req'[g] = req[g]
        BY <1>5, PurgeSelectReq, PurgeSumReq DEF PurgeDelete
    <2> QED BY <2>1, <2>2, GotoStep
<1>6. CASE PurgeUnlink(h)
    <2>1. used_bytes' = used_bytes /\ pc[h] = "unlink_blobs"
        BY <1>6 DEF PurgeUnlink, userVars
    <2> QED BY <1>6, <2>1, UnlinkReq, ReturnStep, LabelFacts
<1> QED BY <1>1, <1>2, <1>3, <1>4, <1>5, <1>6

\* Between the check and the commit of an upload nobody raises used_bytes.
LEMMA QuotaNext ==
    ASSUME TypeOK, TypeOK', RoomIsKept, [Next]_vars
    PROVE  /\ RoomIsKept'
           /\ used_bytes' > used_bytes =>
                 used_bytes' <= Quota \/ \E h \in Handlers : RecomputeWrite(h)
<1> USE DEF RoomIsKept
<1>0. \A g \in Handlers : rowLock' = g <=> pc'[g] \in InTransaction
    BY DEF TypeOK
<1>00. /\ used_bytes \in Nat /\ \A g \in Handlers : req[g].amount \in Nat
       /\ Quota \in Nat /\ used_bytes' \in Nat
    BY SizesAssumption DEF TypeOK, Request
<1>1. CASE UNCHANGED vars
    BY <1>1, <1>00 DEF vars, userVars, handlerVars
<1>2. ASSUME NEW h \in Handlers, UploadLockUser(h)
      PROVE  RoomIsKept' /\ used_bytes' = used_bytes
    <2>1. /\ used_bytes' = used_bytes /\ req' = req /\ rowLock = NoHandler
          /\ \/ rowLock' = rowLock
             \/ rowLock' = h /\ ~(used_bytes + req[h].amount > Quota)
        BY <1>2 DEF UploadLockUser, RowFree
    <2> QED BY <1>0, <1>00, <2>1, HandlersAssumption
<1>3. ASSUME NEW h \in Handlers, UploadInsert(h)
      PROVE  RoomIsKept' /\ used_bytes' = used_bytes
    <2>1. /\ used_bytes' = used_bytes /\ req' = req /\ pc[h] = "insert_file"
          /\ Goto(h, "commit_upload") \/ Goto(h, "unlink_blob")
        BY <1>3 DEF UploadInsert, UploadRollback
    <2> QED BY <2>1, GotoStep, LabelFacts
<1>4. ASSUME NEW h \in Handlers, UploadCommit(h)
      PROVE  RoomIsKept' /\ used_bytes' <= Quota
    <2>1. rowLock' = NoHandler /\ used_bytes' = used_bytes + req[h].amount /\ pc[h] = "commit_upload"
        BY <1>4 DEF UploadCommit, UnlockRow
    <2> QED BY <1>0, <2>1, LabelFacts, HandlersAssumption
<1>5. ASSUME NEW h \in Handlers, PurgeCommit(h) PROVE RoomIsKept' /\ used_bytes' <= used_bytes
    <2>1. rowLock' = NoHandler /\ used_bytes' = Max({0, used_bytes - req[h].amount})
        BY <1>5 DEF PurgeCommit, RowFree, release_quota
    <2>2. used_bytes' <= used_bytes
        BY <1>00, <2>1, MaxZero
    <2> QED BY <1>0, <2>1, <2>2, HandlersAssumption
<1>6. ASSUME NEW h \in Handlers, RecomputeWrite(h) PROVE RoomIsKept'
    <2>1. rowLock' = NoHandler
        BY <1>6 DEF RecomputeWrite, RowFree
    <2> QED BY <1>0, <2>1, HandlersAssumption
<1>7. ASSUME NEW h \in Handlers, NEW g \in Handlers, Deadlock(h, g)
      PROVE  RoomIsKept' /\ used_bytes' = used_bytes
    <2>1. /\ used_bytes' = used_bytes
          /\ \/ Goto(h, "unlink_blob") /\ UNCHANGED req
             \/ Return(g)
        BY <1>7 DEF Deadlock, UploadRollback
    <2> QED BY <2>1, GotoStep, ReturnStep, LabelFacts
<1>8. ASSUME NEW h \in Handlers,
             \/ Arrival(h) \/ Drop(h) \/ CreateFolder(h) \/ MoveCheck(h) \/ MoveNode(h)
             \/ TrashSubtree(h) \/ RestoreSubtree(h) \/ RestoreConflict(h)
             \/ UploadWrite(h) \/ UploadStreamFails(h) \/ UploadUnlink(h) \/ ThumbnailRead(h)
             \/ ThumbnailWrite(h) \/ SetMediaMeta(h)
             \/ PurgeSelect(h) \/ PurgeSum(h) \/ PurgeDelete(h) \/ PurgeUnlink(h)
      PROVE  RoomIsKept' /\ used_bytes' = used_bytes
    <2>1. /\ used_bytes' = used_bytes
          /\ pc'[h] \notin InTransaction
          /\ \A g \in Handlers \ {h} : pc'[g] = pc[g] /\ req'[g] = req[g]
        BY <1>8, QuotaFrame
    <2> QED BY <2>1
<1>9. CASE Next
    <2>1. PICK h \in Handlers : \/ Arrival(h) \/ HandlerStep(h) \/ Drop(h)
                                \/ \E g \in Handlers : Deadlock(h, g)
        BY <1>9 DEF Next
    <2>2. CASE UploadStep(h)
        BY <1>00, <1>2, <1>3, <1>4, <1>8, <2>2 DEF UploadStep
    <2>3. CASE PurgeStep(h)
        BY <1>00, <1>5, <1>8, <2>3 DEF PurgeStep
    <2>4. CASE Arrival(h) \/ Drop(h) \/ \E g \in Handlers : Deadlock(h, g)
        BY <1>00, <1>7, <1>8, <2>4
    <2>5. CASE HandlerStep(h) /\ ~UploadStep(h) /\ ~PurgeStep(h)
        BY <1>00, <1>6, <1>8, <2>5 DEF HandlerStep
    <2> QED BY <2>1, <2>2, <2>3, <2>4, <2>5
<1> QED BY <1>1, <1>9, <1>00

\* Whatever runs in parallel, the only step that can take used_bytes past the
\* quota is a recomputation, which writes what the files add up to.
THEOREM RaisedByRecomputation ==
    Spec => [][used_bytes' > used_bytes =>
                  used_bytes' <= Quota \/ \E h \in Handlers : RecomputeWrite(h)]_vars
<1>1. Init => RoomIsKept
    BY DEF Init, RoomIsKept, InTransaction
<1>2. TypeOK /\ RoomIsKept /\ [Next]_vars => TypeOK' /\ RoomIsKept'
    BY TypeNext, QuotaNext
<1>3. TypeOK /\ RoomIsKept /\ [Next]_vars =>
         [used_bytes' > used_bytes =>
             used_bytes' <= Quota \/ \E h \in Handlers : RecomputeWrite(h)]_vars
    BY TypeNext, QuotaNext
<1> QED BY TypeInit, <1>1, <1>2, <1>3, PTL DEF Spec

\* Without recomputations no step that raises used_bytes ends above the quota.
THEOREM QuotaHolds ==
    ASSUME "recompute_used" \notin Ops
    PROVE  Spec => UploadsWithinQuota
<1>1. Init => RoomIsKept
    BY DEF Init, RoomIsKept, InTransaction
<1>2. TypeOK /\ Shape /\ RoomIsKept /\ [Next]_vars => TypeOK' /\ Shape' /\ RoomIsKept'
    BY TypeNext, ShapeNext, QuotaNext
<1>3. TypeOK /\ Shape /\ RoomIsKept /\ [Next]_vars =>
         [used_bytes' > used_bytes => used_bytes' <= Quota]_vars
    <2>1. Shape => \A h \in Handlers : ~RecomputeWrite(h)
        BY DEF Shape, RequestShape, RecomputeWrite
    <2> QED BY <2>1, TypeNext, QuotaNext
<1> QED BY TypeInit, ShapeInit, <1>1, <1>2, <1>3, PTL DEF Spec, UploadsWithinQuota

(***************************************************************************)
(* WHAT A STEP MAY CHANGE                                                  *)
(***************************************************************************)

\* A handler changes its own variables only.
LEMMA ActorFrame ==
    ASSUME TypeOK, NEW h \in Handlers, Arrival(h) \/ HandlerStep(h) \/ Drop(h),
           NEW g \in Handlers \ {h}
    PROVE  pc'[g] = pc[g] /\ req'[g] = req[g] /\ deleting'[g] = deleting[g]
<1>1. pc'[g] = pc[g] /\ req'[g] = req[g]
    <2>1. CASE \/ UploadLockUser(h) \/ UploadInsert(h) \/ UploadCommit(h) \/ PurgeCommit(h)
               \/ RecomputeWrite(h)
        <3>1. \/ Return(h)
              \/ \E label \in Labels : Goto(h, label) /\ UNCHANGED req
            BY <2>1, LabelFacts DEF UploadLockUser, UploadInsert, UploadRollback, UploadCommit, AfterCommit,
                                    PurgeCommit, RecomputeWrite
        <3> QED BY <3>1, GotoStep, ReturnStep
    <2>2. CASE ~(\/ UploadLockUser(h) \/ UploadInsert(h) \/ UploadCommit(h) \/ PurgeCommit(h)
                 \/ RecomputeWrite(h))
        BY <2>2, QuotaFrame DEF HandlerStep, UploadStep, PurgeStep
    <2> QED BY <2>1, <2>2
<1>2. \/ deleting' = deleting
      \/ \E D : deleting' = [deleting EXCEPT ![h] = D]
    <2>1. CASE Arrival(h)
        BY <2>1, ArrivalStep
    <2>2. CASE Drop(h)
        BY <2>2 DEF Drop
    <2>3. CASE UploadStep(h)
        BY <2>3 DEF UploadStep, UploadWrite, UploadStreamFails, UploadLockUser, UploadInsert,
                    UploadCommit, UploadUnlink, ThumbnailRead, ThumbnailWrite, SetMediaMeta
    <2>4. CASE PurgeStep(h)
        BY <2>4 DEF PurgeStep, PurgeSelect, PurgeSum, PurgeDelete, PurgeCommit, PurgeUnlink
    <2>5. CASE HandlerStep(h) /\ ~UploadStep(h) /\ ~PurgeStep(h)
        BY <2>5 DEF HandlerStep, CreateFolder, MoveCheck, MoveNode, TrashSubtree, RestoreSubtree,
                    MarkSubtree, RestoreConflict, RecomputeWrite
    <2> QED BY <2>1, <2>2, <2>3, <2>4, <2>5
<1> QED BY <1>1, <1>2 DEF TypeOK

\* The deadlock ends one of the two transactions.
LEMMA DeadlockStep ==
    ASSUME TypeOK, NEW h \in Handlers, NEW g \in Handlers, Deadlock(h, g)
    PROVE  /\ UNCHANGED <<nodeVars, used_bytes, fsVars>>
           /\ \E k \in Handlers :
                /\ pc'[k] \in {"idle", "unlink_blob"}
                /\ pc'[k] = "unlink_blob" => pc[k] = "insert_file" /\ req'[k] = req[k]
                /\ \A i \in Handlers \ {k} : /\ pc'[i] = pc[i] /\ req'[i] = req[i]
                                             /\ deleting'[i] = deleting[i]
<1>1. /\ pc[h] = "insert_file" /\ UNCHANGED <<nodeVars, used_bytes, fsVars>>
      /\ \/ Goto(h, "unlink_blob") /\ UNCHANGED <<req, deleting>>
         \/ Return(g) /\ deleting' = [deleting EXCEPT ![g] = {}]
    BY DEF Deadlock, UploadRollback
<1>2. CASE Goto(h, "unlink_blob") /\ UNCHANGED <<req, deleting>>
    BY <1>1, <1>2, GotoStep, LabelFacts
<1>3. CASE Return(g) /\ deleting' = [deleting EXCEPT ![g] = {}]
    BY <1>1, <1>3, ReturnStep DEF TypeOK
<1> QED BY <1>1, <1>2, <1>3

\* The steps that leave every row as it is, thumbnails and trash marks apart.
LEMMA RowsFrame ==
    ASSUME NEW h \in Handlers,
           \/ Arrival(h) \/ Drop(h)
           \/ HandlerStep(h) /\ ~CreateFolder(h) /\ ~UploadCommit(h) /\ ~MoveNode(h) /\ ~PurgeCommit(h),
           TypeOK
    PROVE  UNCHANGED <<kind, parent_id, size_bytes>>
<1>1. CASE Arrival(h)
    BY <1>1, ArrivalStep DEF nodeVars, treeVars
<1>2. CASE Drop(h)
    BY <1>2 DEF Drop, nodeVars, treeVars
<1>3. CASE UploadStep(h) /\ ~UploadCommit(h)
    BY <1>3 DEF UploadStep, UploadWrite, UploadStreamFails, UploadLockUser, UploadInsert,
                UploadUnlink, ThumbnailRead, ThumbnailWrite, SetMediaMeta, nodeVars, treeVars
<1>4. CASE PurgeStep(h) /\ ~PurgeCommit(h)
    BY <1>4 DEF PurgeStep, PurgeSelect, PurgeSum, PurgeDelete, PurgeUnlink, nodeVars, treeVars
<1>5. CASE HandlerStep(h) /\ ~UploadStep(h) /\ ~PurgeStep(h) /\ ~CreateFolder(h) /\ ~MoveNode(h)
    BY <1>5 DEF HandlerStep, MoveCheck, TrashSubtree, RestoreSubtree, MarkSubtree,
                RestoreConflict, RecomputeWrite, nodeVars, treeVars
<1> QED BY <1>1, <1>2, <1>3, <1>4, <1>5 DEF HandlerStep

\* The life of a number: unused, then a row, then gone for good.
LEMMA KindStep ==
    ASSUME TypeOK, Shape, [Next]_vars, NEW n \in Nodes
    PROVE  \/ kind'[n] = kind[n]
           \/ /\ kind[n] = "unused"
              /\ \E h \in Handlers : /\ n = req[h].node /\ pc[h] \in NoRowYet
                                     /\ \/ CreateFolder(h) /\ kind'[n] = "folder"
                                        \/ UploadCommit(h) /\ kind'[n] = "file"
           \/ kind[n] \in {"folder", "file"} /\ kind'[n] = "gone"
<1>1. CASE UNCHANGED vars
    BY <1>1 DEF vars, nodeVars, treeVars
<1>2. ASSUME NEW h \in Handlers, NEW g \in Handlers, Deadlock(h, g) PROVE kind'[n] = kind[n]
    BY <1>2, DeadlockStep DEF nodeVars, treeVars
<1>3. ASSUME NEW h \in Handlers,
             \/ Arrival(h) \/ Drop(h)
             \/ HandlerStep(h) /\ ~CreateFolder(h) /\ ~UploadCommit(h) /\ ~MoveNode(h) /\ ~PurgeCommit(h)
      PROVE  kind'[n] = kind[n]
    BY <1>3, RowsFrame
<1>4. ASSUME NEW h \in Handlers, MoveNode(h) PROVE kind'[n] = kind[n]
    BY <1>4 DEF MoveNode
<1>5. ASSUME NEW h \in Handlers, PurgeCommit(h)
      PROVE  \/ kind'[n] = kind[n]
             \/ kind[n] \in {"folder", "file"} /\ kind'[n] = "gone"
    BY <1>5, PurgeCommitFacts DEF Rows
<1>6. ASSUME NEW h \in Handlers, CreateFolder(h)
      PROVE  \/ kind'[n] = kind[n]
             \/ /\ kind[n] = "unused" /\ kind'[n] = "folder"
                /\ n = req[h].node /\ pc[h] \in NoRowYet
    <2>1. /\ pc[h] \in NoRowYet
          /\ \/ InsertRow(req[h].node, "folder", req[h].parent, 0)
             \/ UNCHANGED nodeVars
        BY <1>6 DEF CreateFolder, NoRowYet
    <2>2. kind[req[h].node] = "unused"
        BY <2>1 DEF Shape, RequestShape
    <2> QED BY <2>1, <2>2, InsertFacts DEF nodeVars, treeVars
<1>7. ASSUME NEW h \in Handlers, UploadCommit(h)
      PROVE  \/ kind'[n] = kind[n]
             \/ /\ kind[n] = "unused" /\ kind'[n] = "file"
                /\ n = req[h].node /\ pc[h] \in NoRowYet
    <2>1. /\ pc[h] \in NoRowYet
          /\ InsertRow(req[h].node, "file", req[h].parent, req[h].amount)
        BY <1>7 DEF UploadCommit, NoRowYet
    <2>2. kind[req[h].node] = "unused"
        BY <2>1 DEF Shape, RequestShape
    <2> QED BY <2>1, <2>2, InsertFacts
<1> QED BY <1>1, <1>2, <1>3, <1>4, <1>5, <1>6, <1>7 DEF Next

\* What leaves the store belongs to no row: an upload that was refused deletes its
\* own blob, and only a purge deletes others.
LEMMA StoreStep ==
    ASSUME TypeOK, Shape, [Next]_vars, NEW n \in Nodes
    PROVE  /\ blob[n] /\ ~blob'[n] =>
                \E h \in Handlers : \/ UploadUnlink(h) /\ n = req[h].node
                                    \/ PurgeUnlink(h) /\ n \in req[h].blobs
           /\ thumb[n] /\ ~thumb'[n] =>
                \E h \in Handlers : PurgeUnlink(h) /\ n \in req[h].thumbs
<1>1. CASE UNCHANGED vars
    BY <1>1 DEF vars, fsVars
<1>2. ASSUME NEW h \in Handlers, NEW g \in Handlers, Deadlock(h, g) PROVE UNCHANGED fsVars
    BY <1>2, DeadlockStep
<1>3. ASSUME NEW h \in Handlers, UploadUnlink(h)
      PROVE  /\ blob[n] /\ ~blob'[n] => n = req[h].node
             /\ thumb' = thumb
    BY <1>3 DEF UploadUnlink, DeleteBlob, TypeOK
<1>4. ASSUME NEW h \in Handlers, PurgeUnlink(h)
      PROVE  /\ blob[n] /\ ~blob'[n] => n \in req[h].blobs
             /\ thumb[n] /\ ~thumb'[n] => n \in req[h].thumbs
    BY <1>4 DEF PurgeUnlink, DeleteBlob, DeleteThumb, TypeOK, fsVars
<1>5. ASSUME NEW h \in Handlers, UploadWrite(h) \/ UploadStreamFails(h) \/ ThumbnailWrite(h)
      PROVE  (blob[n] => blob'[n]) /\ (thumb[n] => thumb'[n])
    BY <1>5 DEF UploadWrite, UploadStreamFails, ThumbnailWrite, TypeOK
<1>6. ASSUME NEW h \in Handlers,
             \/ Arrival(h) \/ Drop(h)
             \/ /\ HandlerStep(h) /\ ~UploadWrite(h) /\ ~UploadStreamFails(h) /\ ~ThumbnailWrite(h)
                /\ ~UploadUnlink(h) /\ ~PurgeUnlink(h)
      PROVE  UNCHANGED fsVars
    <2>1. CASE Arrival(h) \/ Drop(h)
        BY <2>1, ArrivalStep DEF Drop
    <2>2. CASE UploadStep(h) /\ ~UploadWrite(h) /\ ~UploadStreamFails(h) /\ ~ThumbnailWrite(h)
               /\ ~UploadUnlink(h)
        BY <2>2 DEF UploadStep, UploadLockUser, UploadInsert, UploadCommit, ThumbnailRead, SetMediaMeta
    <2>3. CASE PurgeStep(h) /\ ~PurgeUnlink(h)
        BY <2>3 DEF PurgeStep, PurgeSelect, PurgeSum, PurgeDelete, PurgeCommit
    <2>4. CASE HandlerStep(h) /\ ~UploadStep(h) /\ ~PurgeStep(h)
        BY <2>4 DEF HandlerStep, CreateFolder, MoveCheck, MoveNode, TrashSubtree, RestoreSubtree,
                    MarkSubtree, RestoreConflict, RecomputeWrite
    <2> QED BY <1>6, <2>1, <2>2, <2>3, <2>4 DEF UploadStep, PurgeStep
<1>7. ASSUME NEW h \in Handlers, HandlerStep(h) \/ Arrival(h) \/ Drop(h)
      PROVE  /\ blob[n] /\ ~blob'[n] => \/ UploadUnlink(h) /\ n = req[h].node
                                        \/ PurgeUnlink(h) /\ n \in req[h].blobs
             /\ thumb[n] /\ ~thumb'[n] => PurgeUnlink(h) /\ n \in req[h].thumbs
    <2>1. CASE UploadUnlink(h)
        BY <1>3, <2>1
    <2>2. CASE PurgeUnlink(h)
        BY <1>4, <2>2
    <2>3. CASE UploadWrite(h) \/ UploadStreamFails(h) \/ ThumbnailWrite(h)
        BY <1>5, <2>3
    <2>4. CASE ~(UploadUnlink(h) \/ PurgeUnlink(h) \/ UploadWrite(h) \/ UploadStreamFails(h) \/ ThumbnailWrite(h))
        <3>1. UNCHANGED fsVars
            BY <1>6, <1>7, <2>4
        <3> QED BY <3>1 DEF fsVars
    <2> QED BY <2>1, <2>2, <2>3, <2>4
<1>8. CASE Next
    <2>1. PICK h \in Handlers : \/ Arrival(h) \/ HandlerStep(h) \/ Drop(h)
                                \/ \E g \in Handlers : Deadlock(h, g)
        BY <1>8 DEF Next
    <2>2. CASE \E g \in Handlers : Deadlock(h, g)
        BY <1>2, <2>2 DEF fsVars
    <2>3. CASE Arrival(h) \/ HandlerStep(h) \/ Drop(h)
        BY <1>7, <2>3
    <2> QED BY <2>1, <2>2, <2>3
<1>9. CASE UNCHANGED fsVars
    BY <1>9 DEF fsVars
<1> QED BY <1>1, <1>8, <1>9 DEF vars

\* Four statements change the rows: two INSERTs, an UPDATE of parent_id and the
\* DELETE of a purge.
LEMMA TreeStep ==
    ASSUME TypeOK, Shape, [Next]_vars
    PROVE  \/ UNCHANGED <<kind, parent_id, size_bytes>>
           \/ \E h \in Handlers :
                 \/ /\ CreateFolder(h) /\ pc[h] \in NoRowYet /\ kind[req[h].parent] = "folder"
                    /\ InsertRow(req[h].node, "folder", req[h].parent, 0)
                 \/ /\ UploadCommit(h) /\ pc[h] \in NoRowYet /\ kind[req[h].parent] = "folder"
                    /\ InsertRow(req[h].node, "file", req[h].parent, req[h].amount)
                 \/ MoveNode(h) /\ parent_id' # parent_id
                 \/ PurgeCommit(h)
<1>1. CASE UNCHANGED vars
    BY <1>1 DEF vars, nodeVars, treeVars
<1>2. ASSUME NEW h \in Handlers, NEW g \in Handlers, Deadlock(h, g)
      PROVE  UNCHANGED <<kind, parent_id, size_bytes>>
    BY <1>2 DEF Deadlock, nodeVars, treeVars
<1>3. ASSUME NEW h \in Handlers,
             \/ Arrival(h) \/ Drop(h)
             \/ HandlerStep(h) /\ ~CreateFolder(h) /\ ~UploadCommit(h) /\ ~MoveNode(h) /\ ~PurgeCommit(h)
      PROVE  UNCHANGED <<kind, parent_id, size_bytes>>
    BY <1>3, RowsFrame
<1>4. ASSUME NEW h \in Handlers, CreateFolder(h)
      PROVE  \/ UNCHANGED <<kind, parent_id, size_bytes>>
             \/ /\ pc[h] \in NoRowYet /\ kind[req[h].parent] = "folder"
                /\ InsertRow(req[h].node, "folder", req[h].parent, 0)
    <2>1. /\ pc[h] \in NoRowYet
          /\ \/ UNCHANGED <<kind, parent_id, size_bytes>>
             \/ req[h].parent \in Rows /\ InsertRow(req[h].node, "folder", req[h].parent, 0)
        BY <1>4 DEF CreateFolder, NoRowYet, nodeVars, treeVars
    <2>2. kind[req[h].parent] \in {"folder", "gone"}
        BY <2>1 DEF Shape, RequestShape
    <2> QED BY <2>1, <2>2 DEF Rows
<1>5. ASSUME NEW h \in Handlers, UploadCommit(h)
      PROVE  /\ pc[h] \in NoRowYet /\ kind[req[h].parent] = "folder"
             /\ InsertRow(req[h].node, "file", req[h].parent, req[h].amount)
    BY <1>5 DEF UploadCommit, NoRowYet, Shape, Deletions
<1>6. ASSUME NEW h \in Handlers, MoveNode(h), parent_id' = parent_id
      PROVE  UNCHANGED <<kind, parent_id, size_bytes>>
    BY <1>6 DEF MoveNode
<1> QED BY <1>1, <1>2, <1>3, <1>4, <1>5, <1>6 DEF Next

\* A statement that marks a subtree is the only one that changes trashed_at.
LEMMA TrashStep ==
    ASSUME [Next]_vars, TypeOK
    PROVE  \/ trashed' = trashed
           \/ \E h \in Handlers :
                 \/ /\ TrashSubtree(h)
                    /\ trashed' = [n \in Nodes |-> IF n \in Subtree(req[h].node) THEN TRUE ELSE trashed[n]]
                 \/ /\ RestoreSubtree(h)
                    /\ trashed' = [n \in Nodes |-> IF n \in Subtree(req[h].node) THEN FALSE ELSE trashed[n]]
<1>1. CASE UNCHANGED vars
    BY <1>1 DEF vars, nodeVars, treeVars
<1>2. ASSUME NEW h \in Handlers, NEW g \in Handlers, Deadlock(h, g) PROVE trashed' = trashed
    BY <1>2 DEF Deadlock, nodeVars, treeVars
<1>3. ASSUME NEW h \in Handlers, Arrival(h) PROVE trashed' = trashed
    BY <1>3, ArrivalStep DEF nodeVars, treeVars
<1>4. ASSUME NEW h \in Handlers, Drop(h) PROVE trashed' = trashed
    BY <1>4 DEF Drop, nodeVars, treeVars
<1>5. ASSUME NEW h \in Handlers, UploadStep(h) PROVE trashed' = trashed
    BY <1>5 DEF UploadStep, UploadWrite, UploadStreamFails, UploadLockUser, UploadInsert, UploadCommit,
                UploadUnlink, ThumbnailRead, ThumbnailWrite, SetMediaMeta, InsertRow, nodeVars, treeVars
<1>6. ASSUME NEW h \in Handlers, PurgeStep(h) PROVE trashed' = trashed
    BY <1>6 DEF PurgeStep, PurgeSelect, PurgeSum, PurgeDelete, PurgeCommit, PurgeUnlink, nodeVars, treeVars
<1>7. ASSUME NEW h \in Handlers, \/ CreateFolder(h) \/ MoveCheck(h) \/ MoveNode(h)
                                 \/ RestoreConflict(h) \/ RecomputeWrite(h)
      PROVE  trashed' = trashed
    BY <1>7 DEF CreateFolder, MoveCheck, MoveNode, RestoreConflict, RecomputeWrite, InsertRow,
                nodeVars, treeVars
<1>8. ASSUME NEW h \in Handlers
      PROVE  /\ TrashSubtree(h) => trashed' = [n \in Nodes |->
                   IF n \in Subtree(req[h].node) THEN TRUE ELSE trashed[n]]
             /\ RestoreSubtree(h) => trashed' = [n \in Nodes |->
                   IF n \in Subtree(req[h].node) THEN FALSE ELSE trashed[n]]
    BY DEF TrashSubtree, RestoreSubtree, MarkSubtree
<1> QED BY <1>1, <1>2, <1>3, <1>4, <1>5, <1>6, <1>7, <1>8 DEF Next, HandlerStep

\* Only its DELETE adds to what a purge has deleted.
LEMMA DeletingStep ==
    ASSUME TypeOK, [Next]_vars, NEW h \in Handlers
    PROVE  \/ deleting'[h] \in {deleting[h], {}}
           \/ PurgeDelete(h) /\ deleting'[h] = Doomed(h)
<1>1. CASE UNCHANGED vars
    BY <1>1 DEF vars, handlerVars
<1>2. ASSUME NEW i \in Handlers, NEW g \in Handlers, Deadlock(i, g)
      PROVE  deleting'[h] \in {deleting[h], {}}
    BY <1>2 DEF Deadlock, TypeOK
<1>3. ASSUME NEW g \in Handlers, Arrival(g) \/ HandlerStep(g) \/ Drop(g), g # h
      PROVE  deleting'[h] = deleting[h]
    BY <1>3, ActorFrame
<1>4. CASE Arrival(h)
    BY <1>4, ArrivalStep
<1>5. CASE Drop(h) \/ PurgeCommit(h)
    BY <1>5 DEF Drop, PurgeCommit, TypeOK
<1>6. CASE UploadStep(h)
    BY <1>6 DEF UploadStep, UploadWrite, UploadStreamFails, UploadLockUser, UploadInsert, UploadCommit,
                UploadUnlink, ThumbnailRead, ThumbnailWrite, SetMediaMeta
<1>7. CASE PurgeSelect(h) \/ PurgeSum(h) \/ PurgeUnlink(h)
    BY <1>7 DEF PurgeSelect, PurgeSum, PurgeUnlink
<1>8. CASE PurgeDelete(h)
    BY <1>8, PurgeDeleteFacts
<1>9. CASE HandlerStep(h) /\ ~UploadStep(h) /\ ~PurgeStep(h)
    BY <1>9 DEF HandlerStep, CreateFolder, MoveCheck, MoveNode, TrashSubtree, RestoreSubtree,
                MarkSubtree, RestoreConflict, RecomputeWrite
<1> QED BY <1>1, <1>2, <1>3, <1>4, <1>5, <1>6, <1>7, <1>8, <1>9 DEF Next, HandlerStep, PurgeStep

(***************************************************************************)
(* WHAT A PURGE HAS LISTED                                                 *)
(***************************************************************************)

Serial == \A g, h \in Handlers : g = h

\* Nothing leaves the subtree or the trash that a purge has listed: no node is
\* moved or restored, or no two requests overlap.
ListsStay == Serial \/ {"move", "restore"} \cap Ops = {}

\* What a purge has listed is still among the rows it is about to delete, has
\* been deleted by it, or was deleted by somebody else.
PurgeList(h) ==
    \A n \in req[h].blobs \cup req[h].thumbs :
       /\ pc[h] \in {"sum_freed", "delete_nodes"} => kind[n] = "gone" \/ n \in Listed(h)
       /\ pc[h] = "release_quota" => kind[n] = "gone" \/ n \in deleting[h]
       /\ pc[h] = "unlink_blobs" => kind[n] = "gone"

\* A step that moves and restores nothing only adds to what a purge would list,
\* apart from what is gone.
LEMMA ListedKept ==
    ASSUME TypeOK, Shape, [Next]_vars, \A h \in Handlers : ~MoveNode(h) /\ ~RestoreSubtree(h),
           NEW g \in Handlers, req'[g].node = req[g].node, NEW n \in Listed(g)
    PROVE  n \in Listed(g)' \/ kind'[n] = "gone"
<1> DEFINE r == req[g].node
           Goal == n \in Listed(g)' \/ kind'[n] = "gone"
<1>0. n \in Rows /\ n \in Nodes
    BY SubtreeFacts DEF Listed, Trash, Rows
<1>1. Listed(g)' = IF r = NoNode THEN {m \in Rows' : trashed'[m]} ELSE Below(r, Rows', parent_id')
    BY SubtreeIsBelow DEF Listed, Trash
<1>2. Listed(g) = IF r = NoNode THEN {m \in Rows : trashed[m]} ELSE Below(r, Rows, parent_id)
    BY SubtreeIsBelow DEF Listed, Trash
<1> SUFFICES Goal
    OBVIOUS
<1> HIDE DEF r, Goal
<1>3. ASSUME Rows \subseteq Rows', \A m \in Rows : parent_id'[m] = parent_id[m],
             \A m \in Rows : trashed[m] => trashed'[m]
      PROVE  Goal
    <2>1. Below(r, Rows, parent_id) \subseteq Below(r, Rows', parent_id')
        BY <1>3, BelowGrows
    <2> QED BY <1>0, <1>1, <1>2, <1>3, <2>1 DEF Goal
<1>4. ASSUME NEW h \in Handlers, PurgeCommit(h) PROVE Goal
    <2>1. /\ Closed(deleting[h], Rows, parent_id)
          /\ Rows' = Rows \ deleting[h]
          /\ \A m \in Nodes : kind'[m] = IF m \in deleting[h] THEN "gone" ELSE kind[m]
          /\ parent_id' = parent_id /\ trashed' = trashed
        BY <1>4, PurgeCommitFacts
    <2>2. CASE n \in deleting[h]
        BY <1>0, <2>1, <2>2 DEF Goal
    <2>3. CASE n \notin deleting[h]
        <3>1. n \in Below(r, Rows, parent_id) => n \in Below(r, Rows', parent_id')
            BY <2>1, <2>3, BelowRemove
        <3> QED BY <1>0, <1>1, <1>2, <2>1, <2>3, <3>1 DEF Goal
    <2> QED BY <2>2, <2>3
<1>5. ASSUME NEW h \in Handlers, UploadCommit(h) \/ CreateFolder(h) PROVE Goal
    <2>1. \/ \E k \in {"folder", "file"}, size \in Nat :
               pc[h] \in NoRowYet /\ InsertRow(req[h].node, k, req[h].parent, size)
          \/ UNCHANGED nodeVars
        BY <1>5 DEF UploadCommit, CreateFolder, NoRowYet, TypeOK, Request
    <2>2. CASE UNCHANGED nodeVars
        BY <1>3, <2>2 DEF nodeVars, treeVars, Rows
    <2>3. ASSUME NEW k \in {"folder", "file"}, NEW size \in Nat,
                 pc[h] \in NoRowYet, InsertRow(req[h].node, k, req[h].parent, size)
          PROVE  Goal
        <3>1. /\ req[h].node \notin Rows /\ Rows' = Rows \cup {req[h].node}
              /\ \A m \in Nodes \ {req[h].node} : parent_id'[m] = parent_id[m]
              /\ trashed' = trashed
            BY <2>3, InsertFacts
        <3>2. \A m \in Rows : parent_id'[m] = parent_id[m]
            BY <3>1 DEF Rows
        <3> QED BY <1>3, <3>1, <3>2
    <2> QED BY <2>1, <2>2, <2>3
<1>6. ASSUME NEW h \in Handlers, TrashSubtree(h) PROVE Goal
    <2>1. /\ UNCHANGED <<kind, parent_id>>
          /\ trashed' = [m \in Nodes |-> IF m \in Subtree(req[h].node) THEN TRUE ELSE trashed[m]]
        BY <1>6 DEF TrashSubtree, MarkSubtree
    <2> QED BY <1>3, <2>1 DEF Rows
<1>7. ASSUME UNCHANGED <<kind, parent_id, trashed>> PROVE Goal
    BY <1>3, <1>7 DEF Rows
<1>8. ASSUME NEW h \in Handlers,
             \/ Arrival(h) \/ Drop(h)
             \/ /\ HandlerStep(h) /\ ~CreateFolder(h) /\ ~UploadCommit(h) /\ ~MoveNode(h)
                /\ ~PurgeCommit(h) /\ ~TrashSubtree(h) /\ ~RestoreSubtree(h)
      PROVE  UNCHANGED <<kind, parent_id, trashed>>
    <2>1. UNCHANGED <<kind, parent_id>>
        BY <1>8, RowsFrame
    <2>2. CASE Arrival(h) \/ Drop(h)
        BY <2>2, ArrivalStep DEF Drop, nodeVars, treeVars
    <2>3. CASE UploadStep(h) /\ ~UploadCommit(h)
        BY <2>3 DEF UploadStep, UploadWrite, UploadStreamFails, UploadLockUser, UploadInsert,
                    UploadUnlink, ThumbnailRead, ThumbnailWrite, SetMediaMeta, nodeVars, treeVars
    <2>4. CASE PurgeStep(h) /\ ~PurgeCommit(h)
        BY <2>4 DEF PurgeStep, PurgeSelect, PurgeSum, PurgeDelete, PurgeUnlink, nodeVars, treeVars
    <2>5. CASE MoveCheck(h) \/ RestoreConflict(h) \/ RecomputeWrite(h)
        BY <2>5 DEF MoveCheck, RestoreConflict, RecomputeWrite, nodeVars, treeVars
    <2> QED BY <1>8, <2>1, <2>2, <2>3, <2>4, <2>5 DEF HandlerStep
<1>9. ASSUME NEW h \in Handlers, NEW k \in Handlers, Deadlock(h, k) PROVE Goal
    BY <1>7, <1>9, DeadlockStep DEF nodeVars, treeVars
<1>10. CASE UNCHANGED vars
    BY <1>7, <1>10 DEF vars, nodeVars, treeVars
<1>11. ASSUME NEW h \in Handlers, Arrival(h) \/ Drop(h) \/ HandlerStep(h) PROVE Goal
    <2>1. CASE UploadCommit(h) \/ CreateFolder(h)
        BY <1>5, <2>1
    <2>2. CASE PurgeCommit(h)
        BY <1>4, <2>2
    <2>3. CASE TrashSubtree(h)
        BY <1>6, <2>3
    <2>4. CASE ~(UploadCommit(h) \/ CreateFolder(h) \/ PurgeCommit(h) \/ TrashSubtree(h))
        <3>1. UNCHANGED <<kind, parent_id, trashed>>
            BY <1>8, <1>11, <2>4
        <3> QED BY <1>7, <3>1
    <2> QED BY <2>1, <2>2, <2>3, <2>4
<1>12. CASE Next
    BY <1>9, <1>11, <1>12 DEF Next
<1> QED BY <1>10, <1>12

\* No step makes a purge unlink the files of a row that stays.
LEMMA PurgeListNext ==
    ASSUME TypeOK, Shape, ListsStay, \A h \in Handlers : PurgeList(h), [Next]_vars
    PROVE  \A h \in Handlers : PurgeList(h)'
<1> SUFFICES ASSUME NEW g \in Handlers PROVE PurgeList(g)'
    OBVIOUS
<1>1. /\ PurgeList(g)
      /\ \A n \in Nodes : kind[n] = "gone" => kind'[n] = "gone"
      /\ req[g].blobs \subseteq Nodes /\ req[g].thumbs \subseteq Nodes
    BY KindStep DEF TypeOK, Request
<1> DEFINE Listing == {"sum_freed", "delete_nodes"}
\* Another handler moves.
<1>2. ASSUME pc'[g] = pc[g], req'[g] = req[g],
             \/ deleting'[g] = deleting[g]
             \/ pc[g] # "release_quota",
             pc[g] \in Listing => \A n \in Listed(g) : n \in Listed(g)' \/ kind'[n] = "gone"
      PROVE  PurgeList(g)'
    BY <1>1, <1>2 DEF PurgeList
<1>3. ASSUME pc'[g] \notin Listing \cup {"release_quota", "unlink_blobs"} PROVE PurgeList(g)'
    BY <1>3 DEF PurgeList
<1>4. ASSUME NEW h \in Handlers, MoveNode(h) \/ RestoreSubtree(h) PROVE PurgeList(g)'
    <2>1. "move" \in Ops \/ "restore" \in Ops
        BY <1>4 DEF MoveNode, RestoreSubtree, MarkSubtree, Shape, RequestShape, Moving
    <2>2. g = h
        BY <2>1 DEF ListsStay, Serial
    <2>3. pc'[g] = "idle"
        BY <1>4, <2>2, ReturnStep DEF MoveNode, RestoreSubtree, MarkSubtree
    <2> QED BY <1>3, <2>3
<1>5. CASE UNCHANGED vars
    <2>1. Listed(g)' = Listed(g)
        BY <1>5 DEF vars, handlerVars, nodeVars, treeVars, Listed, Trash, Subtree, Rows
    <2> QED BY <1>2, <1>5, <2>1 DEF vars, handlerVars
<1>6. ASSUME \A h \in Handlers : ~MoveNode(h) /\ ~RestoreSubtree(h), Next PROVE PurgeList(g)'
    <2>0. ASSUME req'[g].node = req[g].node
          PROVE  \A n \in Listed(g) : n \in Listed(g)' \/ kind'[n] = "gone"
        BY <1>6, <2>0, ListedKept
    <2>1. ASSUME NEW h \in Handlers, Arrival(h) \/ HandlerStep(h) \/ Drop(h), h # g
          PROVE  PurgeList(g)'
        BY <1>2, <2>0, <2>1, ActorFrame
    <2>2. ASSUME NEW h \in Handlers, NEW k \in Handlers, Deadlock(h, k) PROVE PurgeList(g)'
        <3>1. PICK i \in Handlers :
                /\ pc'[i] \in {"idle", "unlink_blob"}
                /\ \A j \in Handlers \ {i} : /\ pc'[j] = pc[j] /\ req'[j] = req[j]
                                             /\ deleting'[j] = deleting[j]
            BY <2>2, DeadlockStep
        <3> QED BY <1>2, <1>3, <2>0, <3>1
    <2>3. ASSUME Arrival(g) \/ Drop(g) PROVE PurgeList(g)'
        <3>1. pc'[g] \notin Listing \cup {"release_quota", "unlink_blobs"}
            BY <2>3, ArrivalStep, ReturnStep DEF Drop
        <3> QED BY <1>3, <3>1
    <2>4. ASSUME HandlerStep(g), ~PurgeStep(g) PROVE PurgeList(g)'
        <3>1. \/ Return(g)
              \/ \E label \in UploadLabels \cup {"move_node"} : Goto(g, label)
            BY <2>4 DEF HandlerStep, UploadStep, UploadWrite, UploadStreamFails, UploadLockUser, UploadInsert,
                        UploadRollback, UploadCommit, AfterCommit, UploadUnlink, ThumbnailRead,
                        ThumbnailWrite, SetMediaMeta, CreateFolder, MoveCheck, MoveNode, TrashSubtree,
                        RestoreSubtree, MarkSubtree, RestoreConflict, RecomputeWrite, UploadLabels
        <3>2. UploadLabels \cup {"move_node"} \subseteq Labels
            BY DEF Labels
        <3>3. pc'[g] \in UploadLabels \cup {"move_node", "idle"}
            BY <3>1, <3>2, GotoStep, ReturnStep
        <3> QED BY <1>3, <3>3 DEF UploadLabels
    <2>5. ASSUME PurgeSelect(g) PROVE PurgeList(g)'
        <3>1. pc'[g] = "sum_freed"
            BY <2>5, GotoStep, LabelFacts DEF PurgeSelect
        <3>2. /\ req'[g].node = req[g].node
              /\ req'[g].blobs = Files(Listed(g))
              /\ req'[g].thumbs = {n \in Files(Listed(g)) : has_thumbnail[n]}
            BY <2>5, PurgeSelectReq
        <3>3. req'[g].blobs \cup req'[g].thumbs \subseteq Listed(g)
            BY <3>2 DEF Files
        <3> QED BY <2>0, <3>1, <3>2, <3>3 DEF PurgeList
    <2>6. ASSUME PurgeSum(g) PROVE PurgeList(g)'
        <3>1. /\ req'[g].node = req[g].node /\ pc[g] = "sum_freed" /\ pc'[g] = "delete_nodes"
              /\ req'[g].blobs = req[g].blobs /\ req'[g].thumbs = req[g].thumbs
            BY <2>6, PurgeSumReq, GotoStep, LabelFacts DEF PurgeSum
        <3> QED BY <1>1, <2>0, <3>1 DEF PurgeList
    <2>7. ASSUME PurgeDelete(g) PROVE PurgeList(g)'
        <3>1. /\ pc[g] = "delete_nodes" /\ pc'[g] = "release_quota" /\ req' = req
              /\ deleting'[g] = Doomed(g)
            BY <2>7, PurgeDeleteFacts
        <3>2. Listed(g) \subseteq Doomed(g)
            BY DoomedFacts
        <3> QED BY <1>1, <3>1, <3>2 DEF PurgeList
    <2>8. ASSUME PurgeCommit(g) PROVE PurgeList(g)'
        <3>1. /\ \A n \in Nodes : kind'[n] = IF n \in deleting[g] THEN "gone" ELSE kind[n]
              /\ pc[g] = "release_quota" /\ pc'[g] = "unlink_blobs" /\ req' = req
            BY <2>8, PurgeCommitFacts
        <3> QED BY <1>1, <3>1 DEF PurgeList
    <2>9. ASSUME PurgeUnlink(g) PROVE PurgeList(g)'
        <3>1. pc[g] = "unlink_blobs"
            BY <2>9 DEF PurgeUnlink
        <3>2. CASE Return(g)
            BY <1>3, <3>2, ReturnStep
        <3>3. CASE /\ UNCHANGED pc
                   /\ req'[g].blobs \subseteq req[g].blobs /\ req'[g].thumbs \subseteq req[g].thumbs
            BY <1>1, <3>1, <3>3 DEF PurgeList
        <3> QED BY <2>9, <3>2, <3>3, UnlinkReq
    <2>10. ASSUME PurgeStep(g) PROVE PurgeList(g)'
        BY <2>5, <2>6, <2>7, <2>8, <2>9, <2>10 DEF PurgeStep
    <2>11. PICK h \in Handlers : \/ Arrival(h) \/ HandlerStep(h) \/ Drop(h)
                                 \/ \E k \in Handlers : Deadlock(h, k)
        BY <1>6 DEF Next
    <2> QED BY <2>1, <2>2, <2>3, <2>4, <2>10, <2>11
<1> QED BY <1>4, <1>5, <1>6

\* What a step needs from the lists of the purges: only the files of rows that
\* are gone leave the store, and the blobs of refused uploads.
LEMMA StoreKept ==
    ASSUME TypeOK, Shape, \A h \in Handlers : PurgeList(h), [Next]_vars, NEW n \in Nodes
    PROVE  /\ blob[n] /\ ~blob'[n] =>
                \/ kind[n] = "gone"
                \/ kind[n] = "unused" /\ \E h \in Handlers : UploadUnlink(h) /\ n = req[h].node
           /\ thumb[n] /\ ~thumb'[n] => kind[n] = "gone"
<1>1. ASSUME NEW h \in Handlers, PurgeUnlink(h), n \in req[h].blobs \cup req[h].thumbs
      PROVE  kind[n] = "gone"
    BY <1>1 DEF PurgeUnlink, PurgeList
<1>2. ASSUME NEW h \in Handlers, UploadUnlink(h), n = req[h].node PROVE kind[n] = "unused"
    BY <1>2 DEF UploadUnlink, Shape, RequestShape, NoRowYet
<1> QED BY <1>1, <1>2, StoreStep

(***************************************************************************)
(* FILES AND THUMBNAILS                                                    *)
(***************************************************************************)
\* The labels at which the blob of an upload that has no row yet is complete.
Written == {"lock_user", "insert_file", "commit_upload"}

Blobs ==
    /\ FileHasBlob
    /\ ThumbnailIsThere
    /\ \A n \in Nodes : kind[n] = "unused" => ~has_thumbnail[n]
    /\ \A h \in Handlers : pc[h] \in Written => blob[req[h].node]
    /\ \A h \in Handlers : pc[h] = "set_media_meta" =>
          kind[req[h].node] = "gone" \/ thumb[req[h].node]

\* How a handler gets to these labels.
LEMMA UploadProgress ==
    ASSUME TypeOK, [Next]_vars, NEW h \in Handlers
    PROVE  /\ pc'[h] \in Written =>
                req'[h] = req[h] /\ (UploadWrite(h) \/ pc[h] \in Written)
           /\ pc'[h] = "set_media_meta" =>
                req'[h] = req[h] /\ (ThumbnailWrite(h) \/ pc[h] = "set_media_meta")
<1> DEFINE Goal == /\ pc'[h] \in Written =>
                        req'[h] = req[h] /\ (UploadWrite(h) \/ pc[h] \in Written)
                   /\ pc'[h] = "set_media_meta" =>
                        req'[h] = req[h] /\ (ThumbnailWrite(h) \/ pc[h] = "set_media_meta")
<1> SUFFICES Goal
    OBVIOUS
<1>1. ASSUME pc'[h] = pc[h], req'[h] = req[h] PROVE Goal
    BY <1>1
<1>2. ASSUME pc'[h] \notin Written \cup {"set_media_meta"} PROVE Goal
    BY <1>2
<1>3. ASSUME NEW g \in Handlers, Arrival(g) \/ HandlerStep(g) \/ Drop(g), g # h PROVE Goal
    BY <1>1, <1>3, ActorFrame
<1>4. ASSUME NEW g \in Handlers, NEW k \in Handlers, Deadlock(g, k) PROVE Goal
    <2>1. PICK i \in Handlers : /\ pc'[i] \in {"idle", "unlink_blob"}
                                /\ \A j \in Handlers \ {i} : pc'[j] = pc[j] /\ req'[j] = req[j]
        BY <1>4, DeadlockStep
    <2> QED BY <1>1, <1>2, <2>1 DEF Written
<1>5. ASSUME Arrival(h) PROVE Goal
    BY <1>2, <1>5, ArrivalStep DEF Written
<1>6. ASSUME Return(h) PROVE Goal
    BY <1>2, <1>6, ReturnStep DEF Written
<1>7. ASSUME NEW label \in Labels, Goto(h, label), label \notin Written \cup {"set_media_meta"}
      PROVE  Goal
    BY <1>2, <1>7, GotoStep
<1>8. CASE UploadWrite(h)
    BY <1>8, GotoStep, LabelFacts DEF UploadWrite, Written
<1>9. CASE UploadLockUser(h) \/ UploadInsert(h)
    <2>1. /\ pc[h] \in Written /\ UNCHANGED req
          /\ \E label \in {"unlink_blob", "insert_file", "commit_upload"} : Goto(h, label)
        BY <1>9 DEF UploadLockUser, UploadInsert, UploadRollback, Written
    <2> QED BY <2>1, GotoStep, LabelFacts
<1>10. CASE ThumbnailWrite(h)
    BY <1>10, GotoStep, LabelFacts DEF ThumbnailWrite, Written
<1>11. CASE HandlerStep(h) /\ ~UploadWrite(h) /\ ~UploadLockUser(h) /\ ~UploadInsert(h) /\ ~ThumbnailWrite(h)
    <2> DEFINE Elsewhere == {"unlink_blob", "read_blob", "write_thumb", "move_node", "sum_freed",
                             "delete_nodes", "release_quota", "unlink_blobs"}
    <2>1. CASE UploadStep(h)
        <3>1. Return(h) \/ \E label \in Elsewhere : Goto(h, label)
            BY <1>11, <2>1 DEF UploadStep, UploadStreamFails, UploadCommit, AfterCommit, UploadUnlink,
                               ThumbnailRead, SetMediaMeta
        <3> QED BY <1>6, <1>7, <3>1, LabelFacts DEF Written
    <2>2. CASE PurgeSelect(h) \/ PurgeSum(h) \/ PurgeDelete(h) \/ PurgeCommit(h)
        <3>1. \E label \in Elsewhere : Goto(h, label)
            BY <2>2 DEF PurgeSelect, PurgeSum, PurgeDelete, PurgeCommit
        <3> QED BY <1>7, <3>1, LabelFacts DEF Written
    <2>3. CASE PurgeUnlink(h)
        <3>1. pc[h] = "unlink_blobs" /\ (Return(h) \/ UNCHANGED pc)
            BY <2>3 DEF PurgeUnlink
        <3> QED BY <1>2, <1>6, <3>1 DEF Written
    <2>4. CASE HandlerStep(h) /\ ~UploadStep(h) /\ ~PurgeStep(h)
        <3>1. Return(h) \/ Goto(h, "move_node")
            BY <2>4 DEF HandlerStep, CreateFolder, MoveCheck, MoveNode, TrashSubtree, RestoreSubtree,
                        MarkSubtree, RestoreConflict, RecomputeWrite
        <3> QED BY <1>6, <1>7, <3>1, LabelFacts DEF Written
    <2> QED BY <1>11, <2>1, <2>2, <2>3, <2>4 DEF PurgeStep
<1>12. CASE Drop(h)
    BY <1>6, <1>12 DEF Drop
<1>13. CASE UNCHANGED vars
    BY <1>13 DEF vars, handlerVars
<1> QED BY <1>3, <1>4, <1>5, <1>8, <1>9, <1>10, <1>11, <1>12, <1>13 DEF Next

\* Only set_media_meta marks a row, and no step takes the mark away.
LEMMA ThumbnailMark ==
    ASSUME TypeOK, [Next]_vars, NEW n \in Nodes
    PROVE  \/ has_thumbnail'[n] = has_thumbnail[n]
           \/ \E h \in Handlers : SetMediaMeta(h) /\ n = req[h].node /\ n \in Rows
<1>1. CASE UNCHANGED vars
    BY <1>1 DEF vars, nodeVars
<1>2. ASSUME NEW h \in Handlers, NEW g \in Handlers, Deadlock(h, g) PROVE has_thumbnail' = has_thumbnail
    BY <1>2 DEF Deadlock, nodeVars
<1>3. ASSUME NEW h \in Handlers, Arrival(h) \/ Drop(h) PROVE has_thumbnail' = has_thumbnail
    <2>1. CASE Arrival(h)
        BY <2>1, ArrivalStep DEF nodeVars
    <2>2. CASE Drop(h)
        BY <2>2 DEF Drop, nodeVars
    <2> QED BY <1>3, <2>1, <2>2
<1>4. ASSUME NEW h \in Handlers, HandlerStep(h), ~SetMediaMeta(h) PROVE has_thumbnail' = has_thumbnail
    <2>1. CASE UploadStep(h)
        BY <1>4, <2>1 DEF UploadStep, UploadWrite, UploadStreamFails, UploadLockUser, UploadInsert,
                          UploadCommit, UploadUnlink, ThumbnailRead, ThumbnailWrite, InsertRow, nodeVars
    <2>2. CASE PurgeStep(h)
        BY <2>2 DEF PurgeStep, PurgeSelect, PurgeSum, PurgeDelete, PurgeCommit, PurgeUnlink, nodeVars
    <2>3. CASE ~UploadStep(h) /\ ~PurgeStep(h)
        BY <1>4, <2>3 DEF HandlerStep, CreateFolder, MoveCheck, MoveNode, TrashSubtree, RestoreSubtree,
                          MarkSubtree, RestoreConflict, RecomputeWrite, InsertRow, nodeVars
    <2> QED BY <2>1, <2>2, <2>3
<1>5. ASSUME NEW h \in Handlers, SetMediaMeta(h), n # req[h].node \/ n \notin Rows
      PROVE  has_thumbnail'[n] = has_thumbnail[n]
    <2>1. has_thumbnail' = [has_thumbnail EXCEPT ![req[h].node] = @ \/ req[h].node \in Rows]
        BY <1>5 DEF SetMediaMeta
    <2>2. has_thumbnail[n] \in BOOLEAN /\ has_thumbnail \in [Nodes -> BOOLEAN]
        BY DEF TypeOK
    <2>3. CASE n # req[h].node
        BY <2>1, <2>2, <2>3
    <2>4. CASE n = req[h].node /\ n \notin Rows
        BY <2>1, <2>2, <2>4
    <2> QED BY <1>5, <2>3, <2>4
<1> QED BY <1>1, <1>2, <1>3, <1>4, <1>5 DEF Next

\* The invariant on the files is preserved: a blob is written before its row, a
\* thumbnail before its mark, and both outlive the row.
LEMMA BlobsNext ==
    ASSUME TypeOK, Shape, \A h \in Handlers : PurgeList(h), Blobs, [Next]_vars
    PROVE  Blobs'
<1>1. ASSUME NEW n \in Nodes, kind'[n] = "file" PROVE blob'[n]
    <2>1. CASE kind[n] = "file"
        <3>1. blob[n]
            BY <2>1 DEF Blobs, FileHasBlob, Files, Rows
        <3> QED BY <2>1, <3>1, StoreKept
    <2>2. CASE kind[n] # "file"
        <3>1. PICK h \in Handlers : UploadCommit(h) /\ n = req[h].node
            BY <1>1, <2>2, KindStep
        <3>2. blob[n] /\ blob' = blob
            BY <3>1 DEF UploadCommit, fsVars, Blobs, Written
        <3> QED BY <3>2
    <2> QED BY <2>1, <2>2
<1>2. ASSUME NEW n \in Nodes, kind'[n] = "file", has_thumbnail'[n] PROVE thumb'[n]
    <2>1. CASE has_thumbnail[n]
        <3>1. kind[n] = "file"
            BY <1>2, <2>1, KindStep DEF Blobs
        <3>2. thumb[n]
            BY <2>1, <3>1 DEF Blobs, ThumbnailIsThere, Files, Rows
        <3> QED BY <3>1, <3>2, StoreKept
    <2>2. CASE ~has_thumbnail[n]
        <3>1. PICK h \in Handlers : SetMediaMeta(h) /\ n = req[h].node /\ n \in Rows
            BY <1>2, <2>2, ThumbnailMark
        <3>2. thumb[n] /\ thumb' = thumb
            BY <3>1 DEF SetMediaMeta, fsVars, Blobs, Rows
        <3> QED BY <3>2
    <2> QED BY <2>1, <2>2
<1>3. ASSUME NEW n \in Nodes, kind'[n] = "unused" PROVE ~has_thumbnail'[n]
    <2>1. kind[n] = "unused"
        BY <1>3, KindStep
    <2>2. n \notin Rows /\ ~has_thumbnail[n]
        BY <2>1 DEF Rows, Blobs
    <2> QED BY <2>2, ThumbnailMark
<1>4. ASSUME NEW h \in Handlers, pc'[h] \in Written PROVE blob'[req'[h].node]
    <2>1. req'[h] = req[h]
        BY <1>4, UploadProgress
    <2>2. CASE UploadWrite(h)
        <3>1. req[h].node \in Nodes
            BY <2>2 DEF UploadWrite, Shape, RequestShape, NoRowYet
        <3> QED BY <2>1, <2>2, <3>1 DEF UploadWrite, TypeOK
    <2>3. CASE pc[h] \in Written
        <3>1. req[h].node \in Nodes /\ kind[req[h].node] = "unused" /\ blob[req[h].node]
            BY <2>3 DEF Shape, RequestShape, NoRowYet, Written, Blobs
        <3>2. ASSUME NEW g \in Handlers, UploadUnlink(g), req[h].node = req[g].node PROVE FALSE
            BY <2>3, <3>2 DEF UploadUnlink, Shape, Distinct, NoRowYet, Written
        <3> QED BY <2>1, <3>1, <3>2, StoreKept
    <2> QED BY <1>4, <2>2, <2>3, UploadProgress
<1>5. ASSUME NEW h \in Handlers, pc'[h] = "set_media_meta"
      PROVE  kind'[req'[h].node] = "gone" \/ thumb'[req'[h].node]
    <2>1. req'[h] = req[h]
        BY <1>5, UploadProgress
    <2>2. CASE ThumbnailWrite(h)
        <3>1. req[h].node \in Nodes
            BY <2>2 DEF ThumbnailWrite, Shape, RequestShape, Thumbnailing
        <3> QED BY <2>1, <2>2, <3>1 DEF ThumbnailWrite, TypeOK
    <2>3. CASE pc[h] = "set_media_meta"
        <3>1. req[h].node \in Nodes /\ (kind[req[h].node] = "gone" \/ thumb[req[h].node])
            BY <2>3 DEF Shape, RequestShape, Thumbnailing, Blobs
        <3>2. kind[req[h].node] = "gone" => kind'[req[h].node] = "gone"
            BY <3>1, KindStep
        <3> QED BY <2>1, <3>1, <3>2, StoreKept
    <2> QED BY <1>5, <2>2, <2>3, UploadProgress
<1> QED BY <1>1, <1>2, <1>3, <1>4, <1>5 DEF Blobs, FileHasBlob, ThumbnailIsThere, Files, Rows

\* Both hold in every reachable state.
LEMMA BlobsInvariant ==
    ASSUME ListsStay
    PROVE  Spec => [](Blobs /\ \A h \in Handlers : PurgeList(h))
<1>1. Init => Blobs /\ \A h \in Handlers : PurgeList(h)
    BY DEF Init, Blobs, PurgeList, FileHasBlob, ThumbnailIsThere, Files, Rows, Written, NoRequest
<1>2. /\ TypeOK /\ Shape /\ Blobs /\ \A h \in Handlers : PurgeList(h)
      /\ [Next]_vars
      => (Blobs /\ \A h \in Handlers : PurgeList(h))'
    BY BlobsNext, PurgeListNext
<1> QED BY <1>1, <1>2, Typing, TreeShape, PTL DEF Spec

\* While no node is moved or restored every file can be downloaded, with any
\* number of uploads, purges, recomputations and failures in parallel: the blob is
\* written before the row, and a purge deletes the files of rows that are gone.
\* The same holds with moves and restores when requests do not overlap.
THEOREM FilesAreStored ==
    ASSUME ListsStay
    PROVE  Spec => []FileHasBlob
<1>1. Blobs => FileHasBlob
    BY DEF Blobs
<1> QED BY <1>1, BlobsInvariant, PTL

\* Under the same hypothesis a thumbnail that a row announces is there, a purge
\* in the middle of generate_thumbnail included.
THEOREM ThumbnailsAreStored ==
    ASSUME ListsStay
    PROVE  Spec => []ThumbnailIsThere
<1>1. Blobs => ThumbnailIsThere
    BY DEF Blobs
<1> QED BY <1>1, BlobsInvariant, PTL

(***************************************************************************)
(* THE ROOT                                                                *)
(***************************************************************************)
\* No check of is_descendant_or_self can be out of date: nothing is moved, or no
\* two requests overlap.
MovesAlone == Serial \/ "move" \notin Ops

\* The root is a live folder of its own and every node is below it; a move that
\* has passed the check would keep it so.
RootStands ==
    /\ kind[Root] = "folder" /\ parent_id[Root] = NoNode /\ ~trashed[Root]
    /\ Rooted
    /\ \A h \in Handlers : Root \notin deleting[h]
    /\ \A h \in Handlers : pc[h] = "move_node" => req[h].parent \notin Subtree(req[h].node)

\* Nothing else has the root below it.
LEMMA RootAbove ==
    ASSUME RootStands, NEW n, n # Root
    PROVE  Root \notin Subtree(n)
<1>1. Closed(Rows \ {Root}, Rows, parent_id)
    BY NodesFinite DEF RootStands, Closed, Rows
<1>2. CASE n \in Rows
    BY <1>1, <1>2, SubtreeFacts
<1>3. CASE n \notin Rows
    BY <1>3 DEF Subtree
<1> QED BY <1>2, <1>3

\* Rooted, before and after a step.
LEMMA RootedMeans ==
    /\ Rooted <=> Rows \subseteq Subtree(Root)
    /\ Rooted' <=> \A n \in Rows' : n \in Below(Root, Rows', parent_id')
BY SubtreeIsBelow DEF Rooted

\* The root stays a folder with no parent.
LEMMA RootRowNext ==
    ASSUME TypeOK, Shape, RootStands, [Next]_vars
    PROVE  kind'[Root] = "folder" /\ parent_id'[Root] = NoNode
<1>1. Root \in Nodes /\ kind[Root] = "folder" /\ parent_id[Root] = NoNode
    BY NodesFinite DEF RootStands
<1>2. ASSUME NEW h \in Handlers, pc[h] \in NoRowYet, NEW k \in {"folder", "file"}, NEW size,
             InsertRow(req[h].node, k, req[h].parent, size)
      PROVE  kind'[Root] = "folder" /\ parent_id'[Root] = NoNode
    BY <1>1, <1>2, InsertFacts
<1>3. ASSUME NEW h \in Handlers, PurgeCommit(h)
      PROVE  kind'[Root] = "folder" /\ parent_id'[Root] = NoNode
    BY <1>1, <1>3, PurgeCommitFacts DEF RootStands
<1>4. ASSUME NEW h \in Handlers, MoveNode(h), parent_id' # parent_id
      PROVE  kind'[Root] = "folder" /\ parent_id'[Root] = NoNode
    <2>1. req[h].node \in Rows /\ req[h].parent \in Rows
          /\ \A m \in Nodes \ {req[h].node} : parent_id'[m] = parent_id[m]
        BY <1>4, MoveNodeFacts
    <2>2. req[h].parent \notin Subtree(req[h].node) /\ req[h].parent \in Subtree(Root)
        BY <1>4, <2>1 DEF MoveNode, RootStands, Rooted
    <2>3. kind' = kind
        BY <1>4 DEF MoveNode
    <2> QED BY <1>1, <2>1, <2>2, <2>3
<1> QED BY <1>1, <1>2, <1>3, <1>4, TreeStep

\* INSERT, move and purge keep every node below the root.
LEMMA RootedNext ==
    ASSUME TypeOK, Shape, RootStands, [Next]_vars
    PROVE  Rooted'
<1>1. Rows \subseteq Subtree(Root) /\ Root \in Rows
    BY RootedMeans, NodesFinite DEF RootStands, Rows
<1>2. CASE UNCHANGED <<kind, parent_id>>
    <2>1. Rows' = Rows /\ Subtree(Root)' = Subtree(Root)
        BY <1>2 DEF Rows, Subtree
    <2> QED BY <1>1, <2>1, RootedMeans, SubtreeIsBelow
<1>3. ASSUME NEW h \in Handlers, pc[h] \in NoRowYet, NEW k \in {"folder", "file"}, NEW size,
             kind[req[h].parent] = "folder", InsertRow(req[h].node, k, req[h].parent, size)
      PROVE  Rooted'
    <2> DEFINE n == req[h].node
               p == req[h].parent
    <2>1. /\ n \notin Rows /\ p \in Nodes /\ n # p /\ Rows' = Rows \cup {n} /\ parent_id'[n] = p
          /\ \A m \in Nodes \ {n} : parent_id'[m] = parent_id[m]
        BY <1>3, InsertFacts
    <2>2. Rows \subseteq Below(Root, Rows', parent_id')
        <3>1. Rows \subseteq Rows' /\ \A c \in Rows : parent_id'[c] = parent_id[c]
            BY <2>1 DEF Rows
        <3>2. Below(Root, Rows, parent_id) \subseteq Below(Root, Rows', parent_id')
            BY <3>1, BelowGrows
        <3> QED BY <1>1, <3>2, SubtreeIsBelow
    <2>3. n \in Below(Root, Rows', parent_id')
        <3>1. p \in Rows
            BY <1>3, <2>1 DEF Rows
        <3>2. Closed(Below(Root, Rows', parent_id'), Rows', parent_id')
            BY BelowClosed
        <3> QED BY <2>1, <2>2, <3>1, <3>2 DEF Closed
    <2> QED BY <2>1, <2>2, <2>3, RootedMeans
<1>4. ASSUME NEW h \in Handlers, PurgeCommit(h) PROVE Rooted'
    <2> DEFINE D == deleting[h]
    <2>1. Closed(D, Rows, parent_id) /\ Rows' = Rows \ D /\ parent_id' = parent_id
        BY <1>4, PurgeCommitFacts
    <2>2. ASSUME NEW n \in Rows \ D PROVE n \in Below(Root, Rows \ D, parent_id)
        BY <1>1, <2>1, <2>2, SubtreeIsBelow, BelowRemove
    <2> QED BY <2>1, <2>2, RootedMeans
<1>5. ASSUME NEW h \in Handlers, MoveNode(h), parent_id' # parent_id PROVE Rooted'
    <2> DEFINE n == req[h].node
               p == req[h].parent
    <2>1. /\ n \in Rows /\ p \in Rows /\ parent_id'[n] = p
          /\ \A m \in Nodes \ {n} : parent_id'[m] = parent_id[m]
        BY <1>5, MoveNodeFacts
    <2>2. p \notin Subtree(n)
        BY <1>5 DEF MoveNode, RootStands
    <2>3. Rows = Below(Root, Rows, parent_id)
        BY <1>1, SubtreeIsBelow, SubtreeFacts
    <2>4. \A c \in Rows \ {n} : parent_id'[c] = parent_id[c]
        BY <2>1 DEF Rows
    <2>5. Rows' = Rows
        BY <1>5 DEF MoveNode, Rows
    <2>6. Below(Root, Rows, parent_id') = Rows
        BY <2>1, <2>2, <2>3, <2>4, SubtreeIsBelow, BelowMove
    <2> QED BY <2>5, <2>6, RootedMeans
<1> QED BY <1>2, <1>3, <1>4, <1>5, TreeStep

\* The root is neither trashed nor deleted.
LEMMA RootSparedNext ==
    ASSUME TypeOK, Shape, RootStands, [Next]_vars
    PROVE  ~trashed'[Root] /\ \A h \in Handlers : Root \notin deleting'[h]
<1>1. ~trashed'[Root]
    <2>1. ~trashed[Root] /\ Root \in Nodes
        BY NodesFinite DEF RootStands
    <2>2. ASSUME NEW h \in Handlers, TrashSubtree(h) PROVE Root \notin Subtree(req[h].node)
        BY <2>2, RootAbove DEF TrashSubtree, MarkSubtree, Shape, RequestShape
    <2> QED BY <2>1, <2>2, TrashStep
<1>2. ASSUME NEW h \in Handlers PROVE Root \notin deleting'[h]
    <2>1. ASSUME PurgeDelete(h) PROVE Root \notin Doomed(h)
        <3>1. req[h].node # Root /\ Root \notin Trash
            BY <2>1 DEF PurgeDelete, Shape, RequestShape, PurgeLabels, RootStands, Trash
        <3> QED BY <3>1, RootAbove DEF Doomed
    <2> QED BY <2>1, DeletingStep DEF RootStands
<1> QED BY <1>1, <1>2

\* How a request gets to move_node: a file has nothing below it, and a folder has
\* been checked.
LEMMA MoveProgress ==
    ASSUME TypeOK, Shape, MovesAlone, [Next]_vars, NEW h \in Handlers, pc'[h] = "move_node"
    PROVE  \/ UNCHANGED vars
           \/ "move" \notin Ops
           \/ /\ UNCHANGED <<kind, parent_id>>
              /\ req'[h].parent \notin Subtree(req'[h].node)
<1> DEFINE Goal == \/ UNCHANGED vars
                   \/ "move" \notin Ops
                   \/ /\ UNCHANGED <<kind, parent_id>>
                      /\ req'[h].parent \notin Subtree(req'[h].node)
<1> SUFFICES ASSUME Serial PROVE Goal
    BY DEF MovesAlone
<1>1. CASE UNCHANGED vars
    BY <1>1
<1>2. ASSUME NEW g \in Handlers, NEW k \in Handlers, Deadlock(g, k) PROVE FALSE
    BY <1>2 DEF Deadlock, Serial
<1>3. CASE \E n, p \in Nodes : MoveReceive(h, n, p)
    <2>1. PICK n \in Nodes, p \in Nodes : MoveReceive(h, n, p)
        BY <1>3
    <2> DEFINE r == [NoRequest EXCEPT !.node = n, !.parent = p]
               label == IF kind[n] = "folder" THEN "check_descendant" ELSE "move_node"
    <2>2. r \in Request /\ r.node = n /\ r.parent = p
        BY DEF Request, NoRequest
    <2>3. n \in Rows /\ n # p /\ Receive(h, "move", label, r)
        BY <2>1 DEF MoveReceive
    <2>4. label \in Labels
        BY DEF Labels
    <2> HIDE DEF r
    <2>5. /\ pc'[h] = label /\ req'[h] = r /\ UNCHANGED <<nodeVars, userVars, fsVars, deleting>>
        BY <2>2, <2>3, <2>4, ReceiveStep
    <2>6. kind[n] # "folder"
        BY <2>5
    <2>7. Closed({n}, Rows, parent_id)
        BY <2>6, NodesFinite DEF Closed, Shape, Parents
    <2>8. Subtree(n) \subseteq {n}
        BY <2>7, SubtreeFacts
    <2> QED BY <2>2, <2>3, <2>5, <2>8 DEF nodeVars, treeVars
<1>4. CASE Arrival(h) /\ ~\E n, p \in Nodes : MoveReceive(h, n, p)
    <2> DEFINE Others == {"create_folder", "write_blob", "write_over_quota", "trash", "restore",
                          "select_blobs", "write_used"}
    <2>1. ASSUME NEW op, NEW label \in Others, NEW request, Receive(h, op, label, request) PROVE FALSE
        BY <2>1 DEF Receive, TypeOK
    <2> HIDE DEF Others
    <2>2. "create_folder" \in Others /\ "write_blob" \in Others /\ "write_over_quota" \in Others
          /\ "trash" \in Others /\ "restore" \in Others /\ "select_blobs" \in Others
          /\ "write_used" \in Others
        BY DEF Others
    <2>3. ASSUME NEW n \in Nodes, NEW p \in Nodes, CreateReceive(h, n, p) PROVE FALSE
        BY <2>1, <2>2, <2>3 DEF CreateReceive
    <2>4. ASSUME NEW n \in Nodes, NEW p \in Nodes, NEW size \in FileSizes, UploadReceive(h, n, p, size)
          PROVE  FALSE
        BY <2>1, <2>2, <2>4 DEF UploadReceive
    <2>5. ASSUME NEW n \in Nodes, TrashReceive(h, n) \/ RestoreReceive(h, n) \/ PurgeNodeReceive(h, n)
          PROVE  FALSE
        BY <2>1, <2>2, <2>5 DEF TrashReceive, RestoreReceive, PurgeNodeReceive
    <2>6. ASSUME PurgeTrashReceive(h) \/ RecomputeRead(h) PROVE FALSE
        BY <2>1, <2>2, <2>6 DEF PurgeTrashReceive, RecomputeRead
    <2> QED BY <1>4, <2>3, <2>4, <2>5, <2>6 DEF Arrival
<1>5. CASE MoveCheck(h)
    <2>1. /\ UNCHANGED nodeVars
          /\ \/ Return(h)
             \/ UNCHANGED req /\ req[h].parent \notin Subtree(req[h].node)
        BY <1>5 DEF MoveCheck, is_descendant_or_self
    <2> QED BY <2>1, ReturnStep DEF nodeVars, treeVars
<1>6. ASSUME Drop(h) PROVE FALSE
    BY <1>6, ReturnStep DEF Drop
<1>7. ASSUME UploadStep(h) PROVE FALSE
    <2>1. Return(h) \/ \E label \in UploadLabels : Goto(h, label)
        BY <1>7 DEF UploadStep, UploadWrite, UploadStreamFails, UploadLockUser, UploadInsert,
                    UploadRollback, UploadCommit, AfterCommit, UploadUnlink, ThumbnailRead,
                    ThumbnailWrite, SetMediaMeta, UploadLabels
    <2>2. "move_node" \notin UploadLabels /\ UploadLabels \subseteq Labels
        BY DEF UploadLabels, Labels
    <2> QED BY <2>1, <2>2, GotoStep, ReturnStep
<1>8. ASSUME PurgeStep(h) PROVE FALSE
    <2>1. \/ Return(h)
          \/ pc[h] = "unlink_blobs" /\ UNCHANGED pc
          \/ \E label \in PurgeLabels : Goto(h, label)
        BY <1>8 DEF PurgeStep, PurgeSelect, PurgeSum, PurgeDelete, PurgeCommit, PurgeUnlink, PurgeLabels
    <2>2. "move_node" \notin PurgeLabels /\ PurgeLabels \subseteq Labels
        BY DEF PurgeLabels, Labels
    <2> QED BY <2>1, <2>2, GotoStep, ReturnStep
<1>9. ASSUME \/ CreateFolder(h) \/ MoveNode(h) \/ TrashSubtree(h)
             \/ RestoreSubtree(h) \/ RestoreConflict(h) \/ RecomputeWrite(h)
      PROVE  FALSE
    BY <1>9, ReturnStep DEF CreateFolder, MoveNode, TrashSubtree, RestoreSubtree, MarkSubtree,
                            RestoreConflict, RecomputeWrite
<1> QED
    <2>1. CASE Next
        <3>1. Arrival(h) \/ HandlerStep(h) \/ Drop(h)
            BY <2>1, <1>2 DEF Next, Serial
        <3> QED BY <3>1, <1>3, <1>4, <1>5, <1>6, <1>7, <1>8, <1>9 DEF HandlerStep
    <2> QED BY <1>1, <2>1

\* The invariant on the root is preserved.
LEMMA RootStandsNext ==
    ASSUME TypeOK, TypeOK', Shape, Shape', MovesAlone, RootStands, [Next]_vars
    PROVE  RootStands'
<1>1. ASSUME NEW h \in Handlers, pc'[h] = "move_node"
      PROVE  req'[h].parent \notin Below(req'[h].node, Rows', parent_id')
    <2>1. "move" \in Ops
        BY <1>1 DEF Shape, RequestShape, Moving
    <2>2. CASE UNCHANGED vars
        <3>1. pc[h] = "move_node" /\ req'[h] = req[h] /\ Rows' = Rows /\ parent_id' = parent_id
            BY <1>1, <2>2 DEF vars, handlerVars, nodeVars, treeVars, Rows
        <3>2. req[h].parent \notin Subtree(req[h].node)
            BY <3>1 DEF RootStands
        <3> QED BY <3>1, <3>2, SubtreeIsBelow
    <2>3. CASE UNCHANGED <<kind, parent_id>> /\ req'[h].parent \notin Subtree(req'[h].node)
        <3>1. Rows' = Rows /\ parent_id' = parent_id
            BY <2>3 DEF Rows
        <3> QED BY <2>3, <3>1, SubtreeIsBelow
    <2> QED BY <1>1, <2>1, <2>2, <2>3, MoveProgress
<1> QED BY <1>1, RootRowNext, RootedNext, RootSparedNext, SubtreeIsBelow DEF RootStands

\* It holds in every reachable state.
LEMMA RootStandsInvariant ==
    ASSUME MovesAlone
    PROVE  Spec => []RootStands
<1>1. Init => RootStands
    <2> SUFFICES ASSUME Init PROVE RootStands
        OBVIOUS
    <2>1. Rows = {Root} /\ Root \in Nodes
        BY NodesFinite DEF Init, Rows
    <2>2. Rooted
        BY <2>1, SubtreeFacts DEF Rooted
    <2> QED BY <2>1, <2>2 DEF Init, RootStands
<1>2. TypeOK /\ TypeOK' /\ Shape /\ Shape' /\ RootStands /\ [Next]_vars => RootStands'
    BY RootStandsNext
<1> QED BY <1>1, <1>2, Typing, TreeShape, PTL DEF Spec

\* As long as the check of a move cannot be out of date every node is reached from
\* the root: no sequence of moves, purges and failures makes a folder its own
\* ancestor, trashes the root or deletes it.
THEOREM NodesAreReached ==
    ASSUME MovesAlone
    PROVE  Spec => []Rooted
<1>1. RootStands => Rooted
    BY DEF RootStands
<1> QED BY <1>1, RootStandsInvariant, PTL

(***************************************************************************)
(* ONE REQUEST AT A TIME                                                   *)
(***************************************************************************)
\* The requests that are about to put something into a folder they have resolved.
Putting == {"create_folder", "write_blob", "write_over_quota", "lock_user", "insert_file",
            "commit_upload", "check_descendant", "move_node"}

\* A step is one of the only handler.
LEMMA SerialStep ==
    ASSUME Serial, Next, NEW h \in Handlers
    PROVE  Arrival(h) \/ HandlerStep(h) \/ Drop(h)
<1>1. ASSUME NEW g \in Handlers, NEW k \in Handlers, Deadlock(g, k) PROVE FALSE
    BY <1>1 DEF Deadlock, Serial
<1> QED BY <1>1 DEF Next, Serial

\* Which arrival leads to these labels, and with what in the request.
LEMMA ArrivalEntry ==
    ASSUME TypeOK, NEW h \in Handlers, Arrival(h)
    PROVE  /\ pc'[h] = "write_used" => RecomputeRead(h)
           /\ pc'[h] \in Putting => /\ req'[h].parent \in Nodes
                                    /\ resolve_parent(req'[h].parent)
<1> DEFINE Goal == /\ pc'[h] = "write_used" => RecomputeRead(h)
                   /\ pc'[h] \in Putting => /\ req'[h].parent \in Nodes
                                            /\ resolve_parent(req'[h].parent)
<1>1. ASSUME NEW op, NEW label, NEW request, Receive(h, op, label, request)
      PROVE  pc'[h] = label /\ req'[h] = request
    BY <1>1 DEF Receive, TypeOK
<1>2. ASSUME NEW op, NEW label \in Putting, NEW request, Receive(h, op, label, request),
             request.parent \in Nodes, resolve_parent(request.parent)
      PROVE  Goal
    BY <1>1, <1>2 DEF Putting
<1>3. ASSUME NEW op, NEW label, NEW request, Receive(h, op, label, request),
             label \notin Putting \cup {"write_used"}
      PROVE  Goal
    BY <1>1, <1>3
<1>4. ASSUME RecomputeRead(h) PROVE Goal
    <2>1. pc'[h] = "write_used"
        BY <1>1, <1>4 DEF RecomputeRead
    <2> QED BY <1>4, <2>1 DEF Putting
<1> HIDE DEF Goal
<1>5. \A n, p \in Nodes, a \in Nat, i \in BOOLEAN :
        /\ [NoRequest EXCEPT !.node = n, !.parent = p].parent = p
        /\ [NoRequest EXCEPT !.node = n, !.parent = p, !.amount = a, !.image = i].parent = p
    BY DEF NoRequest
<1>6. ASSUME NEW n \in Nodes, NEW p \in Nodes, CreateReceive(h, n, p) PROVE Goal
    <2> DEFINE r == [NoRequest EXCEPT !.node = n, !.parent = p]
    <2>1. r.parent = p
        BY <1>5
    <2>2. resolve_parent(p) /\ Receive(h, "create_folder", "create_folder", r)
        BY <1>6 DEF CreateReceive
    <2> HIDE DEF r
    <2> QED BY <1>2, <2>1, <2>2 DEF Putting
<1>7. ASSUME NEW n \in Nodes, NEW p \in Nodes, NEW size \in FileSizes, UploadReceive(h, n, p, size)
      PROVE  Goal
    <2>1. PICK op \in {"upload", "upload_image"} :
            Receive(h, op, IF size > remaining THEN "write_over_quota" ELSE "write_blob",
                    [NoRequest EXCEPT !.node = n, !.parent = p, !.amount = size,
                                      !.image = (op = "upload_image")])
        BY <1>7 DEF UploadReceive
    <2> DEFINE r == [NoRequest EXCEPT !.node = n, !.parent = p, !.amount = size,
                                      !.image = (op = "upload_image")]
               label == IF size > remaining THEN "write_over_quota" ELSE "write_blob"
    <2>2. r.parent = p
        BY <1>5, SizesAssumption
    <2>3. label \in Putting
        BY DEF Putting
    <2>4. resolve_parent(p) /\ Receive(h, op, label, r)
        BY <1>7, <2>1 DEF UploadReceive
    <2> HIDE DEF r, label
    <2> QED BY <1>2, <2>2, <2>3, <2>4
<1>8. ASSUME NEW n \in Nodes, NEW p \in Nodes, MoveReceive(h, n, p) PROVE Goal
    <2> DEFINE r == [NoRequest EXCEPT !.node = n, !.parent = p]
               label == IF kind[n] = "folder" THEN "check_descendant" ELSE "move_node"
    <2>1. r.parent = p
        BY <1>5
    <2>2. label \in Putting
        BY DEF Putting
    <2>3. resolve_parent(p) /\ Receive(h, "move", label, r)
        BY <1>8 DEF MoveReceive
    <2> HIDE DEF r, label
    <2> QED BY <1>2, <2>1, <2>2, <2>3
<1>9. ASSUME NEW n \in Nodes, TrashReceive(h, n) \/ RestoreReceive(h, n) \/ PurgeNodeReceive(h, n)
      PROVE  Goal
    <2>1. {"trash", "restore", "select_blobs"} \cap (Putting \cup {"write_used"}) = {}
        BY DEF Putting
    <2> QED BY <1>3, <1>9, <2>1 DEF TrashReceive, RestoreReceive, PurgeNodeReceive
<1>10. ASSUME PurgeTrashReceive(h) PROVE Goal
    BY <1>3, <1>10 DEF PurgeTrashReceive, Putting
<1>11. Goal
    BY <1>4, <1>6, <1>7, <1>8, <1>9, <1>10 DEF Arrival
<1> QED BY <1>11 DEF Goal

\* The step before each of these labels, and the one after release_quota.
LEMMA HandlerEntry ==
    ASSUME TypeOK, NEW h \in Handlers, HandlerStep(h) \/ Drop(h)
    PROVE  /\ pc'[h] = "delete_nodes" => PurgeSum(h)
           /\ pc'[h] = "release_quota" => PurgeDelete(h)
           /\ pc'[h] # "write_used"
           /\ pc[h] = "release_quota" /\ pc'[h] = "unlink_blobs" => PurgeCommit(h)
           /\ pc'[h] \in Putting =>
                 pc[h] \in Putting /\ req'[h] = req[h] /\ UNCHANGED <<kind, parent_id, trashed>>
<1> DEFINE Goal ==
             /\ pc'[h] = "delete_nodes" => PurgeSum(h)
             /\ pc'[h] = "release_quota" => PurgeDelete(h)
             /\ pc'[h] # "write_used"
             /\ pc[h] = "release_quota" /\ pc'[h] = "unlink_blobs" => PurgeCommit(h)
             /\ pc'[h] \in Putting =>
                   pc[h] \in Putting /\ req'[h] = req[h] /\ UNCHANGED <<kind, parent_id, trashed>>
<1> SUFFICES Goal
    OBVIOUS
<1>1. ASSUME Return(h) PROVE Goal
    BY <1>1, ReturnStep DEF Putting
<1>2. ASSUME NEW label \in Labels, Goto(h, label), label \in {"unlink_blob"} \cup Thumbnailing
      PROVE  Goal
    BY <1>2, GotoStep DEF Putting, Thumbnailing
<1>3. ASSUME NEW label \in Labels, Goto(h, label), label \in Putting, pc[h] \in Putting, req' = req,
             UNCHANGED <<kind, parent_id, trashed>>
      PROVE  Goal
    BY <1>3, GotoStep DEF Putting
<1> HIDE DEF Goal
<1>4. CASE UploadWrite(h) \/ UploadLockUser(h) \/ UploadInsert(h)
    <2>1. /\ pc[h] \in Putting /\ req' = req /\ UNCHANGED <<kind, parent_id, trashed>>
          /\ \E label \in {"lock_user", "unlink_blob", "insert_file", "commit_upload"} : Goto(h, label)
        BY <1>4 DEF UploadWrite, UploadLockUser, UploadInsert, UploadRollback, Putting, nodeVars, treeVars
    <2>2. /\ {"lock_user", "unlink_blob", "insert_file", "commit_upload"} \subseteq Labels
          /\ {"lock_user", "insert_file", "commit_upload"} \subseteq Putting
        BY LabelFacts DEF Putting
    <2> QED BY <1>2, <1>3, <2>1, <2>2
<1>5. CASE \/ UploadStreamFails(h) \/ UploadCommit(h) \/ UploadUnlink(h)
           \/ ThumbnailRead(h) \/ ThumbnailWrite(h) \/ SetMediaMeta(h)
    <2>1. Return(h) \/ \E label \in Thumbnailing : Goto(h, label)
        BY <1>5 DEF UploadStreamFails, UploadCommit, AfterCommit, UploadUnlink, ThumbnailRead,
                    ThumbnailWrite, SetMediaMeta, Thumbnailing
    <2>2. Thumbnailing \subseteq Labels
        BY LabelFacts DEF Thumbnailing
    <2> QED BY <1>1, <1>2, <2>1, <2>2
<1>6. CASE MoveCheck(h)
    <2>1. \/ Return(h)
          \/ /\ Goto(h, "move_node") /\ req' = req /\ pc[h] = "check_descendant"
             /\ UNCHANGED <<kind, parent_id, trashed>>
        BY <1>6 DEF MoveCheck, nodeVars, treeVars
    <2>2. {"check_descendant", "move_node"} \subseteq Labels \cap Putting
        BY LabelFacts DEF Putting
    <2> QED BY <1>1, <1>3, <2>1, <2>2
<1>7. CASE \/ CreateFolder(h) \/ MoveNode(h) \/ TrashSubtree(h) \/ RestoreSubtree(h)
           \/ RestoreConflict(h) \/ RecomputeWrite(h) \/ Drop(h)
    BY <1>1, <1>7 DEF CreateFolder, MoveNode, TrashSubtree, RestoreSubtree, MarkSubtree,
                      RestoreConflict, RecomputeWrite, Drop
<1>8. CASE PurgeSelect(h)
    <2>1. pc'[h] = "sum_freed"
        BY <1>8, GotoStep, LabelFacts DEF PurgeSelect
    <2> QED BY <2>1 DEF Goal, Putting
<1>9. CASE PurgeSum(h)
    <2>1. pc'[h] = "delete_nodes"
        BY <1>9, GotoStep, LabelFacts DEF PurgeSum
    <2> QED BY <1>9, <2>1 DEF Goal, Putting
<1>10. CASE PurgeDelete(h)
    <2>1. pc'[h] = "release_quota"
        BY <1>10, GotoStep, LabelFacts DEF PurgeDelete
    <2> QED BY <1>10, <2>1 DEF Goal, Putting
<1>11. CASE PurgeCommit(h)
    <2>1. pc'[h] = "unlink_blobs"
        BY <1>11, GotoStep, LabelFacts DEF PurgeCommit
    <2> QED BY <1>11, <2>1 DEF Goal, Putting
<1>12. CASE PurgeUnlink(h)
    <2>1. pc[h] = "unlink_blobs" /\ (Return(h) \/ UNCHANGED pc)
        BY <1>12 DEF PurgeUnlink
    <2>2. CASE UNCHANGED pc
        BY <2>1, <2>2 DEF Goal, Putting
    <2> QED BY <1>1, <2>1, <2>2
<1> QED BY <1>4, <1>5, <1>6, <1>7, <1>8, <1>9, <1>10, <1>11, <1>12
        DEF HandlerStep, UploadStep, PurgeStep

\* A live node is under live folders; what is being put into a folder finds it
\* live; a purge of the trash has deleted nodes of the trash.
TrashShut ==
    /\ Closed(Trash, Rows, parent_id)
    /\ \A h \in Handlers : pc[h] \in Putting => ~trashed[req[h].parent]
    /\ \A h \in Handlers :
          pc[h] = "release_quota" /\ req[h].node = NoNode => deleting[h] \subseteq Trash

\* INSERT, move, trash and purge leave no live node below a trashed one.
LEMMA TrashClosedNext ==
    ASSUME TypeOK, Shape, Serial, "restore" \notin Ops, TrashShut, [Next]_vars
    PROVE  Closed(Trash', Rows', parent_id')
<1> DEFINE Goal == Closed(Trash', Rows', parent_id')
<1> SUFFICES Goal
    OBVIOUS
<1>1. ASSUME UNCHANGED <<kind, parent_id, trashed>> PROVE Goal
    BY <1>1 DEF TrashShut, Trash, Rows
<1>2. ASSUME NEW h \in Handlers, pc[h] \in NoRowYet, NEW k \in {"folder", "file"}, NEW size,
             kind[req[h].parent] = "folder", ~trashed[req[h].parent],
             InsertRow(req[h].node, k, req[h].parent, size)
      PROVE  Goal
    <2> DEFINE n == req[h].node
               p == req[h].parent
    <2>1. /\ n \in Nodes \ {Root} /\ n \notin Rows /\ p \in Nodes /\ n # p /\ Rows' = Rows \cup {n}
          /\ parent_id'[n] = p /\ \A m \in Nodes \ {n} : parent_id'[m] = parent_id[m]
          /\ trashed' = trashed
        BY <1>2, InsertFacts
    <2>2. ASSUME NEW c \in Rows', parent_id'[c] \in Trash' PROVE c \in Trash'
        <3>1. trashed[parent_id'[c]] /\ parent_id'[c] \in Rows'
            BY <2>1, <2>2 DEF Trash
        <3>2. c \in Rows /\ c \in Nodes \ {n}
            BY <1>2, <2>1, <2>2, <3>1 DEF Rows
        <3>3. parent_id[c] # n
            BY <2>1, <3>2, NodesFinite DEF Shape, Parents, Rows
        <3>4. parent_id[c] \in Trash
            BY <2>1, <3>1, <3>2, <3>3 DEF Trash
        <3> QED BY <2>1, <3>2, <3>4 DEF TrashShut, Closed, Trash
    <2> QED BY <2>2 DEF Closed
<1>3. ASSUME NEW h \in Handlers, MoveNode(h), parent_id' # parent_id PROVE Goal
    <2> DEFINE n == req[h].node
               p == req[h].parent
    <2>1. /\ parent_id'[n] = p /\ \A m \in Nodes \ {n} : parent_id'[m] = parent_id[m]
        BY <1>3, MoveNodeFacts
    <2>2. ~trashed[p] /\ Rows' = Rows /\ Trash' = Trash
        BY <1>3 DEF MoveNode, TrashShut, Putting, Rows, Trash
    <2>3. ASSUME NEW c \in Rows, parent_id'[c] \in Trash PROVE c \in Trash
        <3>1. c # n /\ c \in Nodes
            BY <2>1, <2>2, <2>3 DEF Trash, Rows
        <3> QED BY <2>1, <2>3, <3>1 DEF TrashShut, Closed
    <2> QED BY <2>2, <2>3 DEF Closed
<1>4. ASSUME NEW h \in Handlers, PurgeCommit(h) PROVE Goal
    <2> DEFINE D == deleting[h]
    <2>1. Rows' = Rows \ D /\ parent_id' = parent_id /\ trashed' = trashed
        BY <1>4, PurgeCommitFacts
    <2> QED BY <2>1 DEF TrashShut, Closed, Trash
<1>5. ASSUME NEW h \in Handlers, TrashSubtree(h) PROVE Goal
    <2> DEFINE S == Subtree(req[h].node)
    <2>1. S \subseteq Rows /\ Closed(S, Rows, parent_id)
        BY SubtreeFacts
    <2>2. /\ UNCHANGED <<kind, parent_id>>
          /\ trashed' = [n \in Nodes |-> IF n \in S THEN TRUE ELSE trashed[n]]
        BY <1>5 DEF TrashSubtree, MarkSubtree
    <2>3. Rows' = Rows /\ parent_id' = parent_id
        BY <2>2 DEF Rows
    <2> HIDE DEF S
    <2>4. Trash' = Trash \cup S
        BY <2>1, <2>2, <2>3 DEF Trash, Rows
    <2> QED BY <2>1, <2>3, <2>4 DEF TrashShut, Closed
<1>6. ASSUME NEW h \in Handlers, RestoreSubtree(h) PROVE FALSE
    BY <1>6 DEF RestoreSubtree, MarkSubtree, Shape, RequestShape
<1>7. CASE trashed' = trashed
    <2>1. ASSUME NEW h \in Handlers, CreateFolder(h) \/ UploadCommit(h) PROVE ~trashed[req[h].parent]
        BY <2>1 DEF CreateFolder, UploadCommit, TrashShut, Putting
    <2> QED BY <1>1, <1>2, <1>3, <1>4, <1>7, <2>1, TreeStep
<1> HIDE DEF Goal
<1>8. trashed' = trashed \/ \E h \in Handlers : TrashSubtree(h) \/ RestoreSubtree(h)
    BY TrashStep
<1> QED BY <1>5, <1>6, <1>7, <1>8

\* The rows that a DELETE takes are the rows that the SELECTs before it list.
LEMMA DoomedIsListed ==
    ASSUME Closed(Trash, Rows, parent_id), NEW h
    PROVE  Doomed(h) = Listed(h)
<1>1. CASE req[h].node = NoNode
    <2>1. \A n \in Trash : Subtree(n) \subseteq Trash
        BY SubtreeFacts
    <2>2. Doomed(h) \subseteq Trash
        BY <1>1, <2>1 DEF Doomed
    <2>3. Listed(h) = Trash
        BY <1>1 DEF Listed
    <2> QED BY <2>2, <2>3, DoomedFacts
<1>2. CASE req[h].node # NoNode
    BY <1>2 DEF Doomed, Listed
<1> QED BY <1>1, <1>2

\* The invariant on the trash is preserved.
LEMMA TrashShutNext ==
    ASSUME TypeOK, Shape, RootStands, Serial, "restore" \notin Ops, TrashShut, [Next]_vars
    PROVE  TrashShut'
<1>1. Closed(Trash', Rows', parent_id')
    BY TrashClosedNext
<1>2. ASSUME NEW h \in Handlers, pc'[h] \in Putting PROVE ~trashed'[req'[h].parent]
    <2>1. CASE UNCHANGED vars
        BY <1>2, <2>1 DEF vars, handlerVars, nodeVars, treeVars, TrashShut
    <2>2. CASE Arrival(h)
        <3>1. /\ req'[h].parent \in Nodes /\ resolve_parent(req'[h].parent)
              /\ trashed' = trashed
            BY <1>2, <2>2, ArrivalEntry, ArrivalStep DEF nodeVars, treeVars
        <3> QED BY <3>1 DEF resolve_parent, RootStands
    <2>3. CASE HandlerStep(h) \/ Drop(h)
        <3>1. pc[h] \in Putting /\ req'[h] = req[h] /\ trashed' = trashed
            BY <1>2, <2>3, HandlerEntry
        <3> QED BY <3>1 DEF TrashShut
    <2> QED BY <2>1, <2>2, <2>3, SerialStep
<1>3. ASSUME NEW h \in Handlers, pc'[h] = "release_quota", req'[h].node = NoNode
      PROVE  deleting'[h] \subseteq Trash'
    <2>1. CASE UNCHANGED vars
        BY <1>3, <2>1 DEF vars, handlerVars, nodeVars, treeVars, TrashShut, Trash, Rows
    <2>2. ASSUME Arrival(h) PROVE FALSE
        BY <1>3, <2>2, ArrivalStep
    <2>3. CASE HandlerStep(h) \/ Drop(h)
        <3>1. /\ deleting'[h] = Doomed(h) /\ req' = req /\ kind' = kind /\ trashed' = trashed
            BY <1>3, <2>3, HandlerEntry, PurgeDeleteFacts DEF nodeVars, treeVars
        <3>2. Doomed(h) = Trash
            BY <1>3, <3>1, DoomedIsListed DEF Listed, TrashShut
        <3>3. Trash' = Trash
            BY <3>1 DEF Trash, Rows
        <3> QED BY <3>1, <3>2, <3>3
    <2> QED BY <2>1, <2>2, <2>3, SerialStep
<1> QED BY <1>1, <1>2, <1>3 DEF TrashShut

\* It holds in every reachable state.
LEMMA TrashShutInvariant ==
    ASSUME Serial, "restore" \notin Ops
    PROVE  Spec => []TrashShut
<1>1. Init => TrashShut
    BY NodesFinite DEF Init, TrashShut, Trash, Rows, Closed, Putting
<1>2. TypeOK /\ Shape /\ RootStands /\ TrashShut /\ [Next]_vars => TrashShut'
    BY TrashShutNext
<1>3. MovesAlone
    BY DEF MovesAlone
<1>4. Spec => []RootStands
    BY <1>3, RootStandsInvariant
<1> QED BY <1>1, <1>2, <1>4, Typing, TreeShape, PTL DEF Spec

\* One request at a time and no restores: whatever is in the trash, everything
\* below it is in the trash too. A restore of a node below a trashed folder breaks
\* this, and so do a trash and an upload into it that overlap.
THEOREM TrashIsWhole ==
    ASSUME Serial, "restore" \notin Ops
    PROVE  Spec => []TrashIsClosed
<1>1. TrashShut => TrashIsClosed
    <2> SUFFICES ASSUME TrashShut, NEW n \in Trash, NEW m \in Subtree(n) PROVE trashed[m]
        BY DEF TrashIsClosed
    <2>1. Subtree(n) \subseteq Trash
        BY SubtreeFacts DEF TrashShut
    <2> QED BY <2>1 DEF Trash
<1> QED BY <1>1, TrashShutInvariant, PTL

\* Then ON DELETE CASCADE takes nothing along: emptying the trash deletes trashed
\* nodes and no others.
THEOREM TrashIsPurged ==
    ASSUME Serial, "restore" \notin Ops
    PROVE  Spec => OnlyTrashIsPurged
<1> DEFINE Act == \A h \in Handlers :
             pc[h] = "release_quota" /\ pc'[h] = "unlink_blobs" /\ req[h].node = NoNode
             => \A n \in Rows : kind'[n] = "gone" => trashed[n]
<1>1. TypeOK /\ Shape /\ TrashShut /\ [Next]_vars => [Act]_vars
    <2> SUFFICES ASSUME TypeOK, Shape, TrashShut, Next, NEW h \in Handlers,
                        pc[h] = "release_quota", pc'[h] = "unlink_blobs", req[h].node = NoNode,
                        NEW n \in Rows, kind'[n] = "gone"
                 PROVE  trashed[n]
        OBVIOUS
    <2>1. PurgeCommit(h)
        BY SerialStep, ArrivalStep, HandlerEntry
    <2>2. n \in deleting[h]
        BY <2>1, PurgeCommitFacts DEF Rows
    <2> QED BY <2>2 DEF TrashShut, Trash
<1>2. OnlyTrashIsPurged <=> [][Act]_vars
    BY PTL DEF OnlyTrashIsPurged
<1> HIDE DEF Act
<1> QED BY <1>1, <1>2, TrashShutInvariant, Typing, TreeShape, PTL DEF Spec

(***************************************************************************)
(* THE COUNTER AND THE FILES                                               *)
(***************************************************************************)
FileSet == {n \in Nodes : kind[n] = "file"}

\* used_bytes, and the sums that the statements in flight carry, are what the files
\* add up to.
Counted ==
    /\ used_bytes = Sum(size_bytes, FileSet)
    /\ \A h \in Handlers :
         /\ pc[h] = "delete_nodes" => req[h].amount = Sum(size_bytes, Files(Listed(h)))
         /\ pc[h] = "release_quota" => req[h].amount = Sum(size_bytes, Files(deleting[h]))
         /\ pc[h] = "write_used" => req[h].amount = Sum(size_bytes, FileSet)

\* A file is a row.
LEMMA FilesAreRows == Files(Rows) = FileSet
BY DEF Files, Rows, FileSet

\* Three statements write used_bytes.
LEMMA UsedStep ==
    ASSUME TypeOK, [Next]_vars
    PROVE  \/ used_bytes' = used_bytes
           \/ \E h \in Handlers : UploadCommit(h) \/ PurgeCommit(h) \/ RecomputeWrite(h)
<1>1. CASE UNCHANGED vars
    BY <1>1 DEF vars, userVars
<1>2. ASSUME NEW h \in Handlers, NEW g \in Handlers, Deadlock(h, g) PROVE used_bytes' = used_bytes
    BY <1>2 DEF Deadlock
<1>3. ASSUME NEW h \in Handlers, UploadLockUser(h) \/ UploadInsert(h) PROVE used_bytes' = used_bytes
    BY <1>3 DEF UploadLockUser, UploadInsert
<1>4. ASSUME NEW h \in Handlers, Arrival(h) \/ HandlerStep(h) \/ Drop(h),
             ~UploadLockUser(h), ~UploadInsert(h),
             ~UploadCommit(h), ~PurgeCommit(h), ~RecomputeWrite(h)
      PROVE  used_bytes' = used_bytes
    BY <1>4, QuotaFrame DEF HandlerStep, UploadStep, PurgeStep
<1> QED BY <1>1, <1>2, <1>3, <1>4 DEF Next

\* The sum over a set of nodes is a number of bytes.
LEMMA SizesSum ==
    ASSUME TypeOK, NEW S \in SUBSET Nodes
    PROVE  /\ IsFiniteSet(S) /\ \A n \in S : size_bytes[n] \in Nat
           /\ Sum(size_bytes, S) \in Nat
<1>1. IsFiniteSet(S) /\ \A n \in S : size_bytes[n] \in Nat
    BY NodesFinite DEF TypeOK
<1> QED BY <1>1, SumNat

\* A new row that is not a file, and a move, leave the sum alone.
LEMMA CountKept ==
    ASSUME TypeOK, TypeOK', \A n \in Nodes : kind'[n] = "file" <=> kind[n] = "file",
           \A n \in Nodes : kind[n] = "file" => size_bytes'[n] = size_bytes[n]
    PROVE  Sum(size_bytes', FileSet') = Sum(size_bytes, FileSet)
<1>1. FileSet' = FileSet /\ FileSet \in SUBSET Nodes
    BY DEF FileSet
<1>2. \A n \in FileSet : size_bytes'[n] \in Nat /\ size_bytes'[n] = size_bytes[n]
    BY DEF TypeOK, FileSet
<1>3. IsFiniteSet(FileSet)
    BY <1>1, NodesFinite
<1> QED BY <1>1, <1>2, <1>3, SumSame

\* Each statement that writes used_bytes keeps it the sum of the files.
LEMMA UsedNext ==
    ASSUME TypeOK, TypeOK', Shape, Counted, [Next]_vars
    PROVE  used_bytes' = Sum(size_bytes', FileSet')
<1> DEFINE Goal == used_bytes' = Sum(size_bytes', FileSet')
<1> SUFFICES Goal
    OBVIOUS
<1>0. used_bytes = Sum(size_bytes, FileSet) /\ FileSet \in SUBSET Nodes
    BY DEF Counted, FileSet
<1>1. ASSUME NEW h \in Handlers, UploadCommit(h) PROVE Goal
    <2> DEFINE n == req[h].node
    <2>1. /\ pc[h] \in NoRowYet /\ used_bytes' = used_bytes + req[h].amount
          /\ InsertRow(n, "file", req[h].parent, req[h].amount)
        BY <1>1 DEF UploadCommit, NoRowYet
    <2>2. kind[n] = "unused"
        BY <2>1 DEF Shape, RequestShape
    <2>3. /\ n \in Nodes /\ kind'[n] = "file" /\ size_bytes'[n] = req[h].amount
          /\ \A m \in Nodes \ {n} : kind'[m] = kind[m] /\ size_bytes'[m] = size_bytes[m]
        BY <2>1, InsertFacts
    <2>4. FileSet' = FileSet \cup {n} /\ n \notin FileSet
        BY <2>2, <2>3 DEF FileSet
    <2>5. /\ IsFiniteSet(FileSet') /\ n \in FileSet'
          /\ \A m \in FileSet' : size_bytes'[m] \in Nat
        BY <1>0, <2>3, <2>4, NodesFinite DEF TypeOK
    <2>6. Sum(size_bytes', FileSet') = size_bytes'[n] + Sum(size_bytes', FileSet' \ {n})
        BY <2>5, SumElement
    <2>7. FileSet' \ {n} = FileSet
        BY <2>4
    <2>8. Sum(size_bytes', FileSet) = Sum(size_bytes, FileSet)
        <3>1. \A m \in FileSet : size_bytes'[m] \in Nat /\ size_bytes'[m] = size_bytes[m]
            BY <2>3, <2>4 DEF TypeOK, FileSet
        <3> QED BY <1>0, <3>1, NodesFinite, SumSame
    <2>9. req[h].amount \in Nat /\ used_bytes \in Nat
        BY DEF TypeOK, Request
    <2>10. Sum(size_bytes', FileSet') = size_bytes'[n] + Sum(size_bytes', FileSet)
        BY <2>6, <2>7
    <2>11. Sum(size_bytes', FileSet') = req[h].amount + used_bytes
        BY <1>0, <2>3, <2>8, <2>10
    <2> QED BY <2>1, <2>9, <2>11
<1>2. ASSUME NEW h \in Handlers, PurgeCommit(h) PROVE Goal
    <2> DEFINE D == Files(deleting[h])
    <2>1. /\ \A n \in Nodes : kind'[n] = IF n \in deleting[h] THEN "gone" ELSE kind[n]
          /\ size_bytes' = size_bytes /\ pc[h] = "release_quota" /\ deleting[h] \subseteq Rows
        BY <1>2, PurgeCommitFacts
    <2>2. FileSet' = FileSet \ D /\ D \in SUBSET FileSet
        BY <2>1 DEF FileSet, Files, Rows
    <2>3. req[h].amount = Sum(size_bytes, D) /\ used_bytes' = Max({0, used_bytes - req[h].amount})
        BY <1>2, <2>1 DEF Counted, PurgeCommit, release_quota
    <2> HIDE DEF D
    <2>4. /\ Sum(size_bytes, FileSet) = Sum(size_bytes, FileSet \ D) + Sum(size_bytes, D)
          /\ Sum(size_bytes, D) <= Sum(size_bytes, FileSet)
        BY <1>0, <2>2, SizesSum, SumSubset
    <2>5. Sum(size_bytes, D) \in Nat /\ Sum(size_bytes, FileSet \ D) \in Nat /\ used_bytes \in Nat
        BY <1>0, <2>2, SizesSum DEF TypeOK
    <2>6. used_bytes - req[h].amount \in Int /\ ~(used_bytes - req[h].amount < 0)
        BY <1>0, <2>3, <2>4, <2>5
    <2>7. used_bytes' = used_bytes - req[h].amount
        BY <2>3, <2>6, MaxZero
    <2> QED BY <1>0, <2>1, <2>2, <2>3, <2>4, <2>5, <2>7
<1>3. ASSUME NEW h \in Handlers, RecomputeWrite(h) PROVE Goal
    <2>1. /\ used_bytes' = Sum(size_bytes, FileSet) /\ kind' = kind /\ size_bytes' = size_bytes
        BY <1>3 DEF RecomputeWrite, Counted, nodeVars, treeVars
    <2> QED BY <2>1 DEF FileSet
<1>4. ASSUME used_bytes' = used_bytes, NEW h \in Handlers, CreateFolder(h), pc[h] \in NoRowYet,
             InsertRow(req[h].node, "folder", req[h].parent, 0)
      PROVE  Goal
    <2>1. kind[req[h].node] = "unused"
        BY <1>4 DEF Shape, RequestShape
    <2> QED BY <1>0, <1>4, <2>1, InsertFacts, CountKept
<1>5. ASSUME used_bytes' = used_bytes, UNCHANGED <<kind, size_bytes>> PROVE Goal
    BY <1>0, <1>5 DEF FileSet
<1>6. ASSUME NEW h \in Handlers, MoveNode(h) PROVE UNCHANGED <<kind, size_bytes>>
    BY <1>6 DEF MoveNode
<1> HIDE DEF Goal
<1>7. CASE used_bytes' = used_bytes
    BY <1>1, <1>2, <1>4, <1>5, <1>6, <1>7, TreeStep
<1> QED BY <1>1, <1>2, <1>3, <1>7, UsedStep

\* The sums that a purge and a recomputation carry are up to date when they
\* are used.
LEMMA CountedNext ==
    ASSUME TypeOK, TypeOK', Shape, Serial, TrashShut, Counted, [Next]_vars
    PROVE  Counted'
<1>1. used_bytes' = Sum(size_bytes', FileSet')
    BY UsedNext
<1>2. ASSUME UNCHANGED vars PROVE Counted'
    <2>1. /\ used_bytes' = used_bytes /\ size_bytes' = size_bytes /\ pc' = pc /\ req' = req
          /\ FileSet' = FileSet
        BY <1>2 DEF vars, nodeVars, treeVars, userVars, handlerVars, FileSet
    <2>2. ASSUME NEW h \in Handlers
          PROVE  /\ Files(Listed(h))' = Files(Listed(h))
                 /\ Files(deleting[h])' = Files(deleting[h])
        BY <1>2 DEF vars, nodeVars, treeVars, handlerVars, Files, Listed, Trash, Subtree, Rows
    <2> QED BY <2>1, <2>2 DEF Counted
<1>3. ASSUME NEW h \in Handlers, Next, pc'[h] = "delete_nodes"
      PROVE  req'[h].amount = Sum(size_bytes', Files(Listed(h))')
    <2>1. PurgeSum(h)
        BY <1>3, SerialStep, ArrivalStep, HandlerEntry
    <2>2. /\ req'[h].node = req[h].node /\ req'[h].amount = Bytes(Listed(h))
          /\ UNCHANGED <<kind, parent_id, trashed, size_bytes>>
        BY <2>1, PurgeSumReq DEF PurgeSum, nodeVars, treeVars
    <2>3. Files(Listed(h))' = Files(Listed(h))
        BY <2>2 DEF Files, Listed, Trash, Subtree, Rows
    <2> QED BY <2>2, <2>3, BytesIsSum
<1>4. ASSUME NEW h \in Handlers, Next, pc'[h] = "release_quota"
      PROVE  req'[h].amount = Sum(size_bytes', Files(deleting[h])')
    <2>1. PurgeDelete(h)
        BY <1>4, SerialStep, ArrivalStep, HandlerEntry
    <2>2. /\ pc[h] = "delete_nodes" /\ deleting'[h] = Doomed(h) /\ req' = req
          /\ UNCHANGED <<kind, size_bytes>>
        BY <2>1, PurgeDeleteFacts DEF nodeVars, treeVars
    <2>3. deleting'[h] = Listed(h)
        BY <2>2, DoomedIsListed DEF TrashShut
    <2>4. Files(deleting[h])' = Files(Listed(h))
        BY <2>2, <2>3 DEF Files
    <2> QED BY <2>2, <2>4 DEF Counted
<1>5. ASSUME NEW h \in Handlers, Next, pc'[h] = "write_used"
      PROVE  req'[h].amount = Sum(size_bytes', FileSet')
    <2>1. Arrival(h)
        BY <1>5, SerialStep, HandlerEntry
    <2>2. RecomputeRead(h) /\ UNCHANGED <<kind, size_bytes>>
        BY <1>5, <2>1, ArrivalEntry, ArrivalStep DEF nodeVars, treeVars
    <2> DEFINE r == [NoRequest EXCEPT !.amount = Bytes(Rows)]
    <2>3. r.amount = Bytes(Rows)
        BY DEF NoRequest
    <2>4. req'[h] = r
        BY <2>2 DEF RecomputeRead, Receive, TypeOK
    <2>5. FileSet' = FileSet
        BY <2>2 DEF FileSet
    <2>6. Bytes(Rows) = Sum(size_bytes, FileSet)
        BY BytesIsSum, FilesAreRows
    <2> HIDE DEF r
    <2> QED BY <2>2, <2>3, <2>4, <2>5, <2>6
<1> QED BY <1>1, <1>2, <1>3, <1>4, <1>5 DEF Counted

\* An empty tree uses nothing.
LEMMA CountedInit == Init => Counted
<1> SUFFICES ASSUME Init PROVE Counted
    OBVIOUS
<1>1. FileSet = {}
    BY DEF Init, FileSet
<1>2. Sum(size_bytes, FileSet) = 0
    BY <1>1, SumEmpty
<1> QED BY <1>2 DEF Init, Counted

\* One request at a time and no restores: used_bytes is the sum of the sizes of
\* the files at every moment, crashes and failed statements included, so that a
\* recomputation changes nothing and GREATEST never bites.
THEOREM UsedIsCounted ==
    ASSUME Serial, "restore" \notin Ops
    PROVE  Spec => []UsedIsExact
<1>1. TypeOK /\ TypeOK' /\ Shape /\ TrashShut /\ Counted /\ [Next]_vars => Counted'
    BY CountedNext
<1>2. Counted => UsedIsExact
    BY BytesIsSum, FilesAreRows DEF Counted, UsedIsExact
<1> QED BY CountedInit, <1>1, <1>2, TrashShutInvariant, Typing, TreeShape, PTL DEF Spec

\* Where no purge is asked for, none is under way.
LEMMA NoPurgeNext ==
    ASSUME TypeOK, {"purge_node", "purge_trash"} \cap Ops = {},
           \A h \in Handlers : pc[h] \notin PurgeLabels, [Next]_vars
    PROVE  \A h \in Handlers : pc'[h] \notin PurgeLabels
<1> SUFFICES ASSUME NEW h \in Handlers PROVE pc'[h] \notin PurgeLabels
    OBVIOUS
<1>1. ASSUME pc'[h] = pc[h] PROVE pc'[h] \notin PurgeLabels
    BY <1>1
<1>2. ASSUME NEW g \in Handlers, Arrival(g) \/ HandlerStep(g) \/ Drop(g), g # h
      PROVE  pc'[h] = pc[h]
    BY <1>2, ActorFrame
<1>3. ASSUME NEW g \in Handlers, NEW k \in Handlers, Deadlock(g, k) PROVE FALSE
    BY <1>3 DEF Deadlock, PurgeLabels
<1>4. ASSUME Arrival(h), pc'[h] \in PurgeLabels PROVE FALSE
    <2>1. ASSUME NEW op, NEW label, NEW request, Receive(h, op, label, request)
          PROVE  op \in Ops /\ pc'[h] = label
        BY <2>1 DEF Receive, TypeOK
    <2>2. {"create_folder", "write_over_quota", "write_blob", "check_descendant", "move_node", "trash",
           "restore", "write_used"} \cap PurgeLabels = {}
        BY DEF PurgeLabels
    <2>3. ASSUME NEW n \in Nodes, NEW p \in Nodes, CreateReceive(h, n, p) PROVE FALSE
        BY <1>4, <2>1, <2>2, <2>3 DEF CreateReceive
    <2>4. ASSUME NEW n \in Nodes, NEW p \in Nodes, NEW size \in FileSizes, UploadReceive(h, n, p, size)
          PROVE  FALSE
        BY <1>4, <2>1, <2>2, <2>4 DEF UploadReceive
    <2>5. ASSUME NEW n \in Nodes, NEW p \in Nodes, MoveReceive(h, n, p) PROVE FALSE
        BY <1>4, <2>1, <2>2, <2>5 DEF MoveReceive
    <2>6. ASSUME NEW n \in Nodes, TrashReceive(h, n) \/ RestoreReceive(h, n) PROVE FALSE
        BY <1>4, <2>1, <2>2, <2>6 DEF TrashReceive, RestoreReceive
    <2>7. ASSUME NEW n \in Nodes, PurgeNodeReceive(h, n) PROVE FALSE
        BY <2>1, <2>7 DEF PurgeNodeReceive
    <2>8. ASSUME PurgeTrashReceive(h) PROVE FALSE
        BY <2>1, <2>8 DEF PurgeTrashReceive
    <2>9. ASSUME RecomputeRead(h) PROVE FALSE
        BY <1>4, <2>1, <2>2, <2>9 DEF RecomputeRead
    <2> QED BY <1>4, <2>3, <2>4, <2>5, <2>6, <2>7, <2>8, <2>9 DEF Arrival
<1>5. ASSUME HandlerStep(h) \/ Drop(h) PROVE pc'[h] \notin PurgeLabels
    <2>1. ~PurgeStep(h)
        BY DEF PurgeStep, PurgeSelect, PurgeSum, PurgeDelete, PurgeCommit, PurgeUnlink, PurgeLabels
    <2>2. Return(h) \/ \E label \in UploadLabels \cup {"move_node"} : Goto(h, label)
        BY <1>5, <2>1
           DEF HandlerStep, UploadStep, UploadWrite, UploadStreamFails, UploadLockUser, UploadInsert,
               UploadRollback, UploadCommit, AfterCommit, UploadUnlink, ThumbnailRead, ThumbnailWrite,
               SetMediaMeta, CreateFolder, MoveCheck, MoveNode, TrashSubtree, RestoreSubtree,
               MarkSubtree, RestoreConflict, RecomputeWrite, Drop, UploadLabels
    <2>3. UploadLabels \cup {"move_node"} \subseteq Labels
        BY DEF Labels
    <2>4. pc'[h] \in UploadLabels \cup {"move_node", "idle"}
        BY <2>2, <2>3, GotoStep, ReturnStep
    <2> QED BY <2>4 DEF UploadLabels, PurgeLabels
<1>6. CASE UNCHANGED vars
    BY <1>6 DEF vars, handlerVars
<1> QED BY <1>1, <1>2, <1>3, <1>4, <1>5, <1>6 DEF Next

\* Uploads alone never lose an update of used_bytes, however many of them overlap
\* with each other and with moves, trash and restores: quota_used_for_update and
\* add_used_bytes are under one lock, and the row is inserted in that transaction.
THEOREM UploadsAreCounted ==
    ASSUME {"purge_node", "purge_trash", "recompute_used"} \cap Ops = {}
    PROVE  Spec => []UsedIsExact
<1> DEFINE Still == \A h \in Handlers : pc[h] \notin PurgeLabels
           Sums == used_bytes = Sum(size_bytes, FileSet)
<1>1. Init => Still /\ Sums
    BY CountedInit DEF Init, PurgeLabels, Counted
<1>2. TypeOK /\ TypeOK' /\ Shape /\ Still /\ Sums /\ [Next]_vars => Still' /\ Sums'
    <2> SUFFICES ASSUME TypeOK, TypeOK', Shape, Still, Sums, [Next]_vars PROVE Still' /\ Sums'
        OBVIOUS
    <2>1. Still'
        BY NoPurgeNext
    <2>2. Counted
        BY DEF Counted, Shape, RequestShape, PurgeLabels
    <2>3. Sums'
        BY <2>2, UsedNext
    <2> QED BY <2>1, <2>3
<1>3. Sums => UsedIsExact
    BY BytesIsSum, FilesAreRows DEF UsedIsExact
<1> HIDE DEF Still, Sums
<1> QED BY <1>1, <1>2, <1>3, Typing, TreeShape, PTL DEF Spec
=============================================================================
