------------------------- MODULE UploadSessionProofs -------------------------
(***************************************************************************)
(* Proofs about UploadSession, for every number of sessions and of         *)
(* concurrent requests, every declared size, quota and combination of      *)
(* failures; then, from the section ONE REQUEST AT A TIME on, about a      *)
(* client that waits for each answer before it sends the next request.     *)
(***************************************************************************)
EXTENDS UploadSession, SumLemmas, TLAPS

USE DEF Sessions, NoSession, target

(***************************************************************************)
(* TYPE CORRECTNESS                                                        *)
(***************************************************************************)
\* The locals of a request that has read no row are well typed.
LEMMA UnreadType ==
    ASSUME NEW s \in Sessions \cup {NoSession}, NEW size \in Nat
    PROVE  Unread(s, size) \in Request
BY DEF Unread, Request, SessionStates

\* A missing file is well typed.
LEMMA NoFileType == NoFile \in File
BY DEF NoFile, File

\* An idle handler is well typed.
LEMMA ReturnType ==
    ASSUME HandlerTypes, NEW h \in Handlers, Return(h)
    PROVE  HandlerTypes'
BY UnreadType DEF HandlerTypes, Return, NoRequest, Labels

\* A handler that moves on with the same locals stays well typed.
LEMMA GotoType ==
    ASSUME HandlerTypes, NEW h \in Handlers, pc[h] # "idle",
           NEW label \in Labels, Goto(h, label), UNCHANGED <<req, fd>>
    PROVE  HandlerTypes'
BY DEF HandlerTypes, Goto

\* A request that starts by reading the row of s is well typed.
LEMMA ReceiveType ==
    ASSUME HandlerTypes, SessionTypes, NEW h \in Handlers, NEW s \in Sessions,
           NEW label \in Labels, NEW index \in Nat, NEW size \in Nat,
           Receive(h, s, label, index, size)
    PROVE  HandlerTypes'
<1> DEFINE r == [session |-> s, state |-> state[s], node_id |-> node_id[s],
                 received |-> received_bytes[s], index |-> index, size |-> size,
                 previous |-> 0]
<1>1. r \in Request
    BY DEF SessionTypes, Request
<1>2. req' = [req EXCEPT ![h] = r] /\ r.session = s
    BY DEF Receive
<1> HIDE DEF r
<1> QED
    BY <1>1, <1>2 DEF HandlerTypes, Receive

\* What leaves the variables of a group alone leaves its types alone.
LEMMA UnchangedTypes ==
    /\ SessionTypes /\ UNCHANGED dbVars => SessionTypes'
    /\ OwnerTypes /\ UNCHANGED userVars => OwnerTypes'
    /\ FileTypes /\ UNCHANGED fsVars => FileTypes'
    /\ HandlerTypes /\ UNCHANGED handlerVars => HandlerTypes'
    /\ CollectorTypes /\ UNCHANGED gcVars => CollectorTypes'
BY DEF SessionTypes, OwnerTypes, FileTypes, HandlerTypes, CollectorTypes,
       dbVars, userVars, fsVars, handlerVars, gcVars

\* The initial state is well typed.
LEMMA InitType == Init => TypeOK
<1> SUFFICES ASSUME Init PROVE TypeOK
    OBVIOUS
<1>1. SessionTypes
    BY DEF Init, SessionTypes, SessionStates
<1>2. OwnerTypes /\ FileTypes /\ CollectorTypes
    BY QuotaAssumption DEF Init, OwnerTypes, FileTypes, CollectorTypes, NoFile, File
<1>3. HandlerTypes
    BY UnreadType DEF Init, HandlerTypes, NoRequest, Labels
<1> QED
    BY <1>1, <1>2, <1>3 DEF TypeOK

\* A step of open keeps the types.
LEMMA OpenType ==
    ASSUME TypeOK, NEW h \in Handlers,
           \/ OpenStep(h)
           \/ \E s \in Sessions, declared \in DeclaredSizes : OpenReceive(h, s, declared)
    PROVE  TypeOK'
<1> USE UnchangedTypes DEF TypeOK
<1>1. ASSUME NEW s \in Sessions, NEW declared \in DeclaredSizes, OpenReceive(h, s, declared)
      PROVE  TypeOK'
    <2>1. Unread(s, declared) \in Request /\ Unread(s, declared).session = s
        BY UnreadType, SizesAssumption DEF Unread
    <2>2. HandlerTypes'
        BY <1>1, <2>1 DEF HandlerTypes, OpenReceive, Labels, OpenLabels
    <2> QED
        BY <1>1, <2>2 DEF OpenReceive
<1>2. CASE OpenLockUser(h)
    <2>1. HandlerTypes'
        BY <1>2, GotoType DEF OpenLockUser, Labels, OpenLabels
    <2> QED
        BY <1>2, <2>1 DEF OpenLockUser, LockRow, OwnerTypes
<1>3. CASE OpenSumReserved(h)
    <2>1. HandlerTypes'
        BY <1>3, GotoType, ReturnType DEF OpenSumReserved, OpenRefused, Labels, OpenLabels
    <2> QED
        BY <1>3, <2>1 DEF OpenSumReserved, OpenRefused, UnlockRow, OwnerTypes
<1>4. CASE OpenCreateSession(h)
    <2>1. HandlerTypes'
        BY <1>4, ReturnType DEF OpenCreateSession
    <2>2. req[h].size \in Nat /\ target(h) \in Sessions
        BY <1>4 DEF OpenCreateSession, HandlerTypes, Request
    <2>3. SessionTypes'
        BY <1>4, <2>2 DEF OpenCreateSession, create_tx, SessionTypes, SessionStates
    <2> QED
        BY <1>4, <2>1, <2>3 DEF OpenCreateSession, UnlockRow, OwnerTypes
<1> QED
    BY <1>1, <1>2, <1>3, <1>4 DEF OpenStep

\* The number of chunks and the offsets are natural numbers.
LEMMA ChunkTypes ==
    ASSUME SessionTypes
    PROVE  /\ \A s \in Sessions : chunk_count(s) \in Nat \ {0}
           /\ \A s \in Sessions, index \in Nat : chunk_size(s, index) \in Nat
           /\ \A index \in Nat : chunk_offset(index) \in Nat
BY SizesAssumption
   DEF chunk_count, expected_chunk_count, chunk_offset, chunk_size, SessionTypes

\* The bytes of a chunk, or of a prefix of it, go to a file of the session.
LEMMA WriteType ==
    ASSUME TypeOK, NEW h \in Handlers, NEW n \in Nat, target(h) \in Sessions,
           WriteOpenFile(h, ChunkBytes(h, n))
    PROVE  FileTypes'
<1>1. req[h].index \in Nat
    BY DEF TypeOK, HandlerTypes, Request
<1>2. chunk_offset(req[h].index) \in Nat
    BY <1>1, ChunkTypes DEF TypeOK
<1>3. ChunkBytes(h, n) \subseteq Nat
    BY <1>2 DEF ChunkBytes
<1> HIDE DEF ChunkBytes
<1>4. \A file \in File : Written(file, ChunkBytes(h, n)) \in File
    BY <1>3 DEF Written, File
<1> HIDE DEF Written, File
<1> QED
    BY <1>4 DEF TypeOK, FileTypes, WriteOpenFile

\* A step of put_chunk keeps the types.
LEMMA PutType ==
    ASSUME TypeOK, NEW h \in Handlers,
           \/ PutStep(h)
           \/ \E s \in Sessions, index \in Nat, size \in Nat : PutReceive(h, s, index, size)
    PROVE  TypeOK'
<1> USE UnchangedTypes DEF TypeOK
<1>0. /\ pc[h] # "idle" => target(h) \in Sessions
      /\ req[h].index \in Nat /\ req[h].size \in Nat /\ req[h].previous \in Nat
    BY DEF HandlerTypes, Request
<1>1. ASSUME NEW s \in Sessions, NEW index \in Nat, NEW size \in Nat,
             PutReceive(h, s, index, size)
      PROVE  TypeOK'
    BY <1>1, ReceiveType DEF PutReceive, Labels, PutLabels
<1>2. CASE PutChunkSize(h)
    <2> DEFINE previous == chunk_size(target(h), req[h].index)
    <2>1. previous \in Nat
        BY <1>0, <1>2, ChunkTypes DEF PutChunkSize
    <2> HIDE DEF previous
    <2>2. CASE Goto(h, "open_part") /\ req' = [req EXCEPT ![h].previous = previous] /\ UNCHANGED fd
        <3>1. [req[h] EXCEPT !.previous = previous] \in Request
            BY <2>1 DEF HandlerTypes, Request
        <3>2. [req[h] EXCEPT !.previous = previous].session = target(h)
            BY DEF HandlerTypes, Request
        <3>3. req' = [req EXCEPT ![h] = [req[h] EXCEPT !.previous = previous]]
            BY <2>2
        <3> QED
            BY <1>0, <1>2, <2>2, <3>1, <3>2, <3>3
            DEF PutChunkSize, HandlerTypes, Goto, Labels, PutLabels
    <2>3. CASE Return(h)
        BY <1>2, <2>3, ReturnType DEF PutChunkSize
    <2> QED
        BY <1>2, <2>2, <2>3 DEF PutChunkSize, previous
<1>3. CASE PutOpenPart(h)
    <2>1. HandlerTypes'
        BY <1>0, <1>3 DEF PutOpenPart, Goto, HandlerTypes, Labels, PutLabels
    <2>2. \A file \in File : Written(file, {}) \in File
        BY DEF Written, File
    <2>3. FileTypes'
        BY <1>0, <1>3, <2>2 DEF PutOpenPart, FileTypes
    <2> QED
        BY <1>3, <2>1, <2>3 DEF PutOpenPart
<1>4. CASE PutWritePart(h)
    <2>1. HandlerTypes'
        BY <1>0, <1>4 DEF PutWritePart, Goto, HandlerTypes, Labels, PutLabels
    <2>2. FileTypes'
        BY <1>0, <1>4, WriteType DEF PutWritePart
    <2> QED
        BY <1>4, <2>1, <2>2 DEF PutWritePart
<1>5. CASE PutWriteFails(h)
    <2>1. PICK n \in 0 .. req[h].size - 1 : WriteOpenFile(h, ChunkBytes(h, n))
        BY <1>5 DEF PutWriteFails
    <2>2. FileTypes'
        BY <1>0, <1>5, <2>1, WriteType DEF PutWriteFails
    <2> QED
        BY <1>5, <2>2, ReturnType DEF PutWriteFails
<1>6. CASE PutRecordChunk(h)
    <2>1. HandlerTypes'
        BY <1>6, ReturnType, GotoType DEF PutRecordChunk, Labels, PutLabels
    <2>2. SessionTypes'
        <3> DEFINE s == target(h)
                   rows == [i \in DOMAIN chunks[s] \cup {req[h].index} |->
                              IF i = req[h].index THEN req[h].size ELSE chunks[s][i]]
        <3>1. \A i \in DOMAIN rows : i \in Nat /\ rows[i] \in Nat
            BY <1>0, <1>6 DEF PutRecordChunk, SessionTypes
        <3>2. chunks' = [chunks EXCEPT ![s] = rows] \/ UNCHANGED chunks
            BY <1>6 DEF PutRecordChunk, record_chunk
        <3> HIDE DEF rows
        <3> QED
            BY <1>0, <1>6, <3>1, <3>2 DEF PutRecordChunk, SessionTypes
    <2> QED
        BY <1>6, <2>1, <2>2 DEF PutRecordChunk
<1>7. CASE PutAddReceived(h)
    <2>1. received_delta(h) \in Int
        BY <1>0 DEF received_delta
    <2>2. SessionTypes'
        BY <1>0, <1>7, <2>1 DEF PutAddReceived, SessionTypes
    <2> QED
        BY <1>7, <2>2, ReturnType DEF PutAddReceived
<1> QED
    BY <1>1, <1>2, <1>3, <1>4, <1>5, <1>6, <1>7 DEF PutStep

\* A transition keeps the types, whether or not it matches a row.
LEMMA TransitionType ==
    ASSUME SessionTypes, NEW s \in Sessions, NEW from, NEW to \in SessionStates,
           transition_state(s, from, to),
           UNCHANGED <<declared_size, received_bytes, node_id, expired, chunks>>
    PROVE  SessionTypes'
BY DEF SessionTypes, transition_state

\* A step of complete keeps the types.
LEMMA CompleteType ==
    ASSUME TypeOK, NEW h \in Handlers,
           CompleteStep(h) \/ \E s \in Sessions : CompleteReceive(h, s)
    PROVE  TypeOK'
<1> USE UnchangedTypes DEF TypeOK
<1>0. pc[h] # "idle" => target(h) \in Sessions
    BY DEF HandlerTypes
<1>1. ASSUME NEW s \in Sessions, CompleteReceive(h, s) PROVE TypeOK'
    BY <1>1, ReceiveType DEF CompleteReceive, Labels, CompleteLabels
<1>2. CASE CompleteCountChunks(h)
    BY <1>2, ReturnType, GotoType DEF CompleteCountChunks, Labels, CompleteLabels
<1>3. CASE CompleteClaim(h)
    <2>1. CASE UNCHANGED <<state, req, fd>> /\ Goto(h, "existing_node")
        BY <1>3, <2>1, GotoType
        DEF CompleteClaim, Labels, CompleteLabels, MaterializeLabels, dbVars
    <2>2. CASE /\ transition_state(target(h), "open", "completing")
               /\ Goto(h, "existing_node")
               /\ req' = [req EXCEPT ![h].node_id = node_id[target(h)]]
               /\ UNCHANGED fd
        <3>1. SessionTypes'
            BY <1>0, <1>3, <2>2, TransitionType DEF CompleteClaim, SessionStates
        <3> DEFINE r == [req[h] EXCEPT !.node_id = node_id[target(h)]]
        <3>2. r \in Request /\ r.session = target(h) /\ req' = [req EXCEPT ![h] = r]
            BY <1>0, <1>3, <2>2 DEF CompleteClaim, HandlerTypes, SessionTypes, Request
        <3> HIDE DEF r
        <3>3. HandlerTypes'
            BY <1>0, <1>3, <2>2, <3>2
            DEF CompleteClaim, HandlerTypes, Goto, Labels, CompleteLabels, MaterializeLabels
        <3> QED
            BY <1>3, <3>1, <3>3 DEF CompleteClaim
    <2>3. CASE Return(h) /\ UNCHANGED state
        BY <1>3, <2>3, ReturnType DEF CompleteClaim, dbVars
    <2> QED
        BY <1>3, <2>1, <2>2, <2>3 DEF CompleteClaim
<1>4. CASE CompleteExistingNode(h)
    BY <1>4, GotoType DEF CompleteExistingNode, Labels, CompleteLabels, MaterializeLabels
<1>5. CASE CompleteFinalize(h)
    <2>1. FileTypes'
        BY <1>0, <1>5, NoFileType DEF CompleteFinalize, FileTypes
    <2>2. Renamed(target(h)) \in [Handlers -> {"none", "part", "blob", "unlinked"}]
        BY DEF Renamed, HandlerTypes
    <2>3. HandlerTypes'
        BY <1>0, <1>5, <2>2
        DEF CompleteFinalize, Goto, HandlerTypes, Labels, CompleteLabels, MaterializeLabels
    <2> QED
        BY <1>5, <2>1, <2>3 DEF CompleteFinalize
<1>6. CASE PersistLockUser(h)
    <2>1. HandlerTypes'
        BY <1>6, GotoType DEF PersistLockUser, Labels, CompleteLabels, MaterializeLabels
    <2> QED
        BY <1>6, <2>1 DEF PersistLockUser, LockRow, OwnerTypes
<1>7. CASE PersistCommit(h)
    <2>1. HandlerTypes'
        BY <1>7, GotoType DEF PersistCommit, Labels, CompleteLabels
    <2>2. SessionTypes'
        BY <1>0, <1>7 DEF PersistCommit, set_node_tx, SessionTypes, OwnerTypes
    <2>3. target(h) \in Sessions /\ used_bytes' \in Nat
        BY <1>0, <1>7 DEF PersistCommit, add_used_bytes, SessionTypes, OwnerTypes
    <2>4. nodes' \in [Sessions -> Nat]
        BY <1>7, <2>3 DEF PersistCommit, OwnerTypes
    <2>5. OwnerTypes'
        BY <1>7, <2>3, <2>4 DEF PersistCommit, UnlockRow, OwnerTypes
    <2> QED
        BY <1>7, <2>1, <2>2, <2>5 DEF PersistCommit
<1>8. CASE PersistFails(h)
    <2>1. HandlerTypes'
        BY <1>8, GotoType DEF PersistFails, Labels, CompleteLabels
    <2> QED
        BY <1>8, <2>1 DEF PersistFails, OwnerTypes
<1>9. CASE CompleteMark(h) \/ CompleteReopen(h)
    BY <1>0, <1>9, TransitionType, ReturnType
    DEF CompleteMark, CompleteReopen, CompleteTransition, SessionStates
<1> QED
    BY <1>1, <1>2, <1>3, <1>4, <1>5, <1>6, <1>7, <1>8, <1>9 DEF CompleteStep

\* A step of abort keeps the types.
LEMMA AbortType ==
    ASSUME TypeOK, NEW h \in Handlers, AbortStep(h) \/ \E s \in Sessions : AbortReceive(h, s)
    PROVE  TypeOK'
<1> USE UnchangedTypes DEF TypeOK
<1>0. pc[h] # "idle" => target(h) \in Sessions
    BY DEF HandlerTypes
<1>1. ASSUME NEW s \in Sessions, AbortReceive(h, s) PROVE TypeOK'
    BY <1>1, ReceiveType DEF AbortReceive, Labels, AbortLabels
<1>2. CASE AbortTransition(h)
    BY <1>0, <1>2, TransitionType, GotoType
    DEF AbortTransition, SessionStates, Labels, AbortLabels
<1>3. CASE AbortUnlink(h)
    <2>1. FileTypes'
        BY <1>0, <1>3, NoFileType DEF AbortUnlink, UnlinkPart, FileTypes
    <2>2. HandlerTypes'
        BY <1>3, UnreadType DEF AbortUnlink, Unlinked, HandlerTypes, NoRequest, Labels
    <2> QED
        BY <1>3, <2>1, <2>2 DEF AbortUnlink
<1> QED
    BY <1>1, <1>2, <1>3 DEF AbortStep

\* The live nodes of a session are numbers of nodes that were made.
LEMMA LiveTypes ==
    ASSUME OwnerTypes, NEW s \in Sessions
    PROVE  /\ LiveNodes(s) \subseteq 1 .. nodes[s] /\ LiveNodes(s) \subseteq Nat
           /\ nodes[s] \in Nat
BY DEF LiveNodes, OwnerTypes

\* Max({0, i}) by the order.
LEMMA MaxWithZero ==
    ASSUME NEW i \in Int
    PROVE  Max({0, i}) = IF i >= 0 THEN i ELSE 0
<1>1. \E x \in {0, i} : \A y \in {0, i} : x >= y
    <2>1. CASE i >= 0
        BY <2>1
    <2>2. CASE i < 0
        BY <2>2
    <2> QED
        BY <2>1, <2>2
<1>2. Max({0, i}) \in {0, i} /\ \A y \in {0, i} : Max({0, i}) >= y
    BY <1>1 DEF Max
<1> QED
    BY <1>2

\* What a purge leaves of used_bytes.
LEMMA Release ==
    ASSUME OwnerTypes, NEW freed \in Nat, release_quota(freed)
    PROVE  used_bytes' \in Nat /\ used_bytes' = IF used_bytes > freed THEN used_bytes - freed ELSE 0
<1>1. used_bytes - freed \in Int /\ used_bytes \in Nat
    BY DEF OwnerTypes
<1> QED
    BY <1>1, MaxWithZero DEF release_quota

\* The arrival of a purge keeps the types.
LEMMA PurgeReceiveType ==
    ASSUME TypeOK, NEW h \in Handlers, NEW s \in Sessions, NEW n, PurgeReceive(h, s, n)
    PROVE  TypeOK'
<1> USE DEF TypeOK
<1> DEFINE r == [Unread(s, 0) EXCEPT !.node_id = n]
<1>1. n \in Nat
    BY LiveTypes DEF PurgeReceive
<1>2. r \in Request /\ r.session = s
    BY <1>1, UnreadType DEF Unread, Request
<1>3. req' = [req EXCEPT ![h] = r]
    BY DEF PurgeReceive
<1> HIDE DEF r
<1>4. HandlerTypes'
    BY <1>2, <1>3 DEF PurgeReceive, HandlerTypes, Labels, PurgeLabels
<1> QED
    BY <1>4, UnchangedTypes DEF PurgeReceive

\* A step of a purge keeps the types.
LEMMA PurgeType ==
    ASSUME TypeOK, NEW h \in Handlers, PurgeStep(h) PROVE TypeOK'
<1> USE UnchangedTypes DEF TypeOK
<1>0. /\ pc[h] # "idle" => target(h) \in Sessions
      /\ req[h].node_id \in Nat /\ req[h].size \in Nat
    BY DEF HandlerTypes, Request
<1>1. CASE PurgeSelect(h)
    BY <1>1, ReturnType, GotoType DEF PurgeSelect, Labels, PurgeLabels
<1>2. CASE PurgeSum(h)
    <2> DEFINE freed == IF purged_live(h) THEN declared_size[target(h)] ELSE 0
               r == [req[h] EXCEPT !.size = freed]
    <2>1. freed \in Nat
        BY <1>0, <1>2 DEF PurgeSum, SessionTypes
    <2> HIDE DEF freed
    <2>2. r \in Request /\ r.session = target(h)
        BY <2>1 DEF HandlerTypes, Request
    <2>3. req' = [req EXCEPT ![h] = r]
        BY <1>2 DEF PurgeSum, freed
    <2> HIDE DEF r
    <2>4. HandlerTypes'
        BY <1>0, <1>2, <2>2, <2>3 DEF PurgeSum, Goto, HandlerTypes, Labels, PurgeLabels
    <2> QED
        BY <1>2, <2>4 DEF PurgeSum
<1>3. CASE PurgeCommit(h)
    <2>1. HandlerTypes'
        BY <1>3, GotoType DEF PurgeCommit, Labels, PurgeLabels
    <2>2. used_bytes' \in Nat
        BY <1>0, <1>3, Release DEF PurgeCommit
    <2>3. OwnerTypes'
        BY <1>0, <1>3, <2>2 DEF PurgeCommit, OwnerTypes
    <2> QED
        BY <1>3, <2>1, <2>3 DEF PurgeCommit
<1>4. CASE PurgeUnlink(h)
    <2>1. FileTypes'
        BY <1>0, <1>4, NoFileType DEF PurgeUnlink, FileTypes
    <2>2. HandlerTypes'
        BY <1>4, UnreadType DEF PurgeUnlink, HandlerTypes, NoRequest, Labels
    <2> QED
        BY <1>4, <2>1, <2>2 DEF PurgeUnlink
<1> QED
    BY <1>1, <1>2, <1>3, <1>4 DEF PurgeStep

\* A step of the collector keeps the types.
LEMMA CollectorType == ASSUME TypeOK, GcNext PROVE TypeOK'
<1> USE UnchangedTypes DEF TypeOK
<1>1. CASE GcScan
    BY <1>1 DEF GcScan, find_expired, CollectorTypes
<1>2. CASE GcDelete
    <2>1. PICK s \in gcBatch : gcBatch' = gcBatch \ {s} /\ delete_if_expired(s)
        BY <1>2 DEF GcDelete
    <2>2. CollectorTypes'
        BY <2>1 DEF delete_if_expired, CollectorTypes
    <2>3. SessionTypes'
        <3>1. CASE Reclaimable(s)
            <4>1. chunks' = [chunks EXCEPT ![s] = <<>>] /\ DOMAIN <<>> = {}
                BY <2>1, <3>1 DEF delete_if_expired
            <4>2. /\ DOMAIN chunks' = Sessions
                  /\ \A t \in Sessions : \A i \in DOMAIN chunks'[t] :
                        i \in Nat /\ chunks'[t][i] \in Nat
                BY <4>1 DEF SessionTypes
            <4> QED
                BY <1>2, <2>1, <3>1, <4>2
                DEF GcDelete, delete_if_expired, SessionTypes, SessionStates
        <3>2. CASE ~Reclaimable(s)
            BY <1>2, <2>1, <3>2 DEF GcDelete, delete_if_expired, SessionTypes
        <3> QED
            BY <3>1, <3>2
    <2> QED
        BY <1>2, <2>2, <2>3 DEF GcDelete
<1>3. CASE GcUnlink
    <2>1. FileTypes'
        BY <1>3, NoFileType DEF GcUnlink, UnlinkPart, FileTypes, CollectorTypes
    <2>2. HandlerTypes'
        BY <1>3 DEF GcUnlink, Unlinked, HandlerTypes
    <2> QED
        BY <1>3, <2>1, <2>2 DEF GcUnlink, CollectorTypes
<1> QED
    BY <1>1, <1>2, <1>3 DEF GcNext

\* Every step keeps the types.
LEMMA NextType == TypeOK /\ [Next]_vars => TypeOK'
<1> SUFFICES ASSUME TypeOK, [Next]_vars PROVE TypeOK'
    OBVIOUS
<1> USE UnchangedTypes DEF TypeOK
<1>1. ASSUME NEW h \in Handlers, Arrival(h) PROVE TypeOK'
    <2>1. PICK s \in Sessions :
            \/ \E declared \in DeclaredSizes : OpenReceive(h, s, declared)
            \/ \E index \in 0 .. chunk_count(s) - 1 :
                  \E size \in ChunkSizes(s, index) : PutReceive(h, s, index, size)
            \/ CompleteReceive(h, s)
            \/ AbortReceive(h, s)
            \/ \E n \in LiveNodes(s) : PurgeReceive(h, s, n)
        BY <1>1 DEF Arrival
    <2>2. \A index \in Int : ChunkSizes(s, index) \subseteq Nat
        BY SizesAssumption DEF ChunkSizes
    <2>3. 0 .. chunk_count(s) - 1 \subseteq Nat
        BY ChunkTypes
    <2> QED
        BY <2>1, <2>2, <2>3, OpenType, PutType, CompleteType, AbortType, PurgeReceiveType
<1>2. ASSUME NEW h \in Handlers, HandlerStep(h) PROVE TypeOK'
    BY <1>2, OpenType, PutType, CompleteType, AbortType, PurgeType DEF HandlerStep
<1>3. ASSUME NEW h \in Handlers, Drop(h) PROVE TypeOK'
    BY <1>3, ReturnType DEF Drop, OwnerTypes
<1>4. ASSUME NEW s \in Sessions, Expire(s) PROVE TypeOK'
    BY <1>4 DEF Expire, SessionTypes
<1>5. ASSUME NEW quota \in Quotas, SetQuota(quota) PROVE TypeOK'
    BY <1>5, QuotaAssumption DEF SetQuota, OwnerTypes
<1>6. CASE GcNext
    BY <1>6, CollectorType
<1>7. CASE Crash
    <2>1. HandlerTypes'
        BY <1>7, UnreadType DEF Crash, HandlerTypes, NoRequest, Labels
    <2> QED
        BY <1>7, <2>1 DEF Crash, OwnerTypes, CollectorTypes
<1>8. CASE UNCHANGED vars
    BY <1>8 DEF vars
<1> QED
    BY <1>1, <1>2, <1>3, <1>4, <1>5, <1>6, <1>7, <1>8 DEF Next

\* Every reachable state is well typed.
THEOREM Typing == Spec => []TypeOK
<1> QED
    BY InitType, NextType, PTL DEF Spec

(***************************************************************************)
(* THE OWNER'S ROW                                                         *)
(***************************************************************************)
\* A handler inside a transaction holds the owner's row, so at most one is.
RowHeld == \A h \in Handlers : pc[h] \in InTransaction => rowLock = h

\* Mutual exclusion on the row is preserved: a handler enters a transaction only
\* when the row is free and leaves it whenever it gives the row back.
LEMMA RowHeldNext == TypeOK /\ RowHeld /\ [Next]_vars => RowHeld'
<1> SUFFICES ASSUME TypeOK, RowHeld, [Next]_vars PROVE RowHeld'
    OBVIOUS
<1> USE HandlersAssumption DEF TypeOK, HandlerTypes, RowHeld, InTransaction
<1>1. ASSUME NEW h \in Handlers, Arrival(h) PROVE RowHeld'
    BY <1>1 DEF Arrival, OpenReceive, PutReceive, CompleteReceive, AbortReceive, PurgeReceive,
                Receive, userVars
<1>2. ASSUME NEW h \in Handlers, OpenStep(h) PROVE RowHeld'
    BY <1>2 DEF OpenStep, OpenLockUser, OpenSumReserved, OpenCreateSession, OpenRefused,
                LockRow, RowFree, UnlockRow, Return, Goto
<1>3. ASSUME NEW h \in Handlers, PutStep(h) PROVE RowHeld'
    BY <1>3 DEF PutStep, PutChunkSize, PutOpenPart, PutWritePart, PutWriteFails,
                PutRecordChunk, PutAddReceived, Return, Goto, userVars
<1>4. ASSUME NEW h \in Handlers, CompleteStep(h) PROVE RowHeld'
    BY <1>4 DEF CompleteStep, CompleteCountChunks, CompleteClaim, CompleteExistingNode,
                CompleteFinalize, PersistLockUser, PersistCommit, PersistFails, CompleteMark,
                CompleteReopen, CompleteTransition, LockRow, RowFree, UnlockRow, Return, Goto,
                userVars
<1>5. ASSUME NEW h \in Handlers, AbortStep(h) PROVE RowHeld'
    BY <1>5 DEF AbortStep, AbortTransition, AbortUnlink, Goto, userVars
<1>6. ASSUME NEW h \in Handlers, Drop(h) PROVE RowHeld'
    BY <1>6 DEF Drop, Return
<1>7. CASE \E s \in Sessions : Expire(s)
    BY <1>7 DEF Expire, userVars, handlerVars
<1>8. CASE \E quota \in Quotas : SetQuota(quota)
    BY <1>8 DEF SetQuota, handlerVars
<1>9. CASE GcNext
    BY <1>9 DEF GcNext, GcScan, GcDelete, GcUnlink, userVars, handlerVars
<1>10. CASE Crash
    BY <1>10 DEF Crash
<1>11. ASSUME NEW h \in Handlers, PurgeStep(h) PROVE RowHeld'
    BY <1>11 DEF PurgeStep, PurgeSelect, PurgeSum, PurgeCommit, PurgeUnlink, Return, Goto,
                 userVars
<1>12. CASE UNCHANGED vars
    BY <1>12 DEF vars, userVars, handlerVars
<1> QED
    BY <1>1, <1>2, <1>3, <1>4, <1>5, <1>6, <1>7, <1>8, <1>9, <1>10, <1>11, <1>12
    DEF Next, HandlerStep

(***************************************************************************)
(* THE LIFE OF A ROW                                                       *)
(***************************************************************************)
\* A session that is being opened has no row and no other request.
OpenIsFresh ==
    \A h \in Handlers : pc[h] \in OpenLabels =>
        /\ state[target(h)] = "absent"
        /\ \A g \in Handlers : g # h => target(g) # target(h)

\* The other requests found a row, which may have been deleted since.
RowExisted ==
    \A h \in Handlers : pc[h] \notin OpenLabels \cup {"idle"} => state[target(h)] # "absent"

\* A session of which a node was made has, or had, a row.
RowOfNode == \A s \in Sessions : nodes[s] > 0 => state[s] # "absent"

RowInv == OpenIsFresh /\ RowExisted /\ RowOfNode

\* How a step of h moves the handlers: the others stay, and h is either done or
\* goes on with its session, on its own side of the creation of the row.
Flow(h) ==
    /\ \A g \in Handlers \ {h} : pc'[g] = pc[g] /\ req'[g].session = req[g].session
    /\ \/ pc'[h] = "idle" /\ req'[h].session = NoSession
       \/ /\ req'[h].session = target(h)
          /\ pc[h] # "idle" /\ pc'[h] # "idle"
          /\ pc[h] \in OpenLabels <=> pc'[h] \in OpenLabels

\* Answering, and moving on with the same locals, are flows.
LEMMA ReturnFlow == ASSUME HandlerTypes, NEW h \in Handlers, Return(h) PROVE Flow(h)
BY DEF HandlerTypes, Return, NoRequest, Unread, Flow

\* A handler that goes to another label of its operation keeps to the flow.
LEMMA GotoFlow ==
    ASSUME HandlerTypes, NEW h \in Handlers, NEW label \in Labels \ {"idle"}, Goto(h, label),
           UNCHANGED req, pc[h] # "idle", pc[h] \in OpenLabels <=> label \in OpenLabels
    PROVE  Flow(h)
BY DEF HandlerTypes, Goto, Flow

\* Every step of a request, and its loss, is a flow.
LEMMA StepFlow ==
    ASSUME TypeOK, NEW h \in Handlers, HandlerStep(h) \/ Drop(h) PROVE Flow(h)
<1> USE ReturnFlow, GotoFlow
    DEF TypeOK, Labels, OpenLabels, PutLabels, CompleteLabels, MaterializeLabels, AbortLabels,
        PurgeLabels
<1>1. CASE OpenStep(h)
    BY <1>1 DEF OpenStep, OpenLockUser, OpenSumReserved, OpenCreateSession, OpenRefused
<1>2. CASE PutChunkSize(h)
    <2>1. CASE Return(h)
        BY <2>1
    <2>2. CASE Goto(h, "open_part") /\ \E n : req' = [req EXCEPT ![h].previous = n]
        BY <1>2, <2>2 DEF PutChunkSize, Goto, Flow, HandlerTypes, Request
    <2> QED
        BY <1>2, <2>1, <2>2 DEF PutChunkSize
<1>3. CASE PutStep(h) /\ ~PutChunkSize(h)
    BY <1>3 DEF PutStep, PutOpenPart, PutWritePart, PutWriteFails, PutRecordChunk, PutAddReceived
<1>4. CASE CompleteClaim(h)
    <2>1. CASE Return(h)
        BY <2>1
    <2>2. CASE Goto(h, "existing_node") /\ UNCHANGED req
        BY <1>4, <2>2 DEF CompleteClaim
    <2>3. CASE Goto(h, "existing_node") /\ \E n : req' = [req EXCEPT ![h].node_id = n]
        BY <1>4, <2>3 DEF CompleteClaim, Goto, Flow, HandlerTypes, Request
    <2> QED
        BY <1>4, <2>1, <2>2, <2>3 DEF CompleteClaim
<1>5. CASE CompleteStep(h) /\ ~CompleteClaim(h)
    BY <1>5 DEF CompleteStep, CompleteCountChunks, CompleteExistingNode, CompleteFinalize,
                PersistLockUser, PersistCommit, PersistFails, CompleteMark, CompleteReopen,
                CompleteTransition
<1>6. CASE AbortTransition(h)
    BY <1>6 DEF AbortTransition
<1>7. CASE AbortUnlink(h)
    BY <1>7 DEF AbortUnlink, HandlerTypes, NoRequest, Unread, Flow
<1>8. CASE Drop(h)
    BY <1>8 DEF Drop
<1>9. CASE PurgeSelect(h) \/ PurgeCommit(h)
    BY <1>9 DEF PurgeSelect, PurgeCommit
<1>10. CASE PurgeSum(h)
    BY <1>10 DEF PurgeSum, Goto, Flow, HandlerTypes, Request
<1>11. CASE PurgeUnlink(h)
    BY <1>11 DEF PurgeUnlink, HandlerTypes, NoRequest, Unread, Flow
<1> QED
    BY <1>1, <1>2, <1>3, <1>4, <1>5, <1>6, <1>7, <1>8, <1>9, <1>10, <1>11
    DEF HandlerStep, AbortStep, PurgeStep

\* Only the commit of open makes a row appear, and no row becomes absent again.
LEMMA RowAppears ==
    ASSUME TypeOK, NEW h \in Handlers,
           PutStep(h) \/ CompleteStep(h) \/ AbortStep(h) \/ PurgeStep(h) \/ Drop(h)
    PROVE  \A s \in Sessions : state[s] = "absent" <=> state'[s] = "absent"
BY DEF TypeOK, HandlerTypes, SessionTypes, PutStep, PutChunkSize, PutOpenPart, PutWritePart,
       PutWriteFails, PutRecordChunk, PutAddReceived, CompleteStep, CompleteCountChunks,
       CompleteClaim, CompleteExistingNode, CompleteFinalize, PersistLockUser, PersistCommit,
       PersistFails, CompleteMark, CompleteReopen, CompleteTransition, AbortStep,
       AbortTransition, AbortUnlink, PurgeStep, PurgeSelect, PurgeSum, PurgeCommit, PurgeUnlink,
       Drop, transition_state, Present, dbVars

\* Nodes are made by complete, and only there.
LEMMA NodesGrow ==
    ASSUME TypeOK, NEW h \in Handlers, HandlerStep(h) \/ Drop(h)
    PROVE  \/ UNCHANGED nodes
           \/ /\ PersistCommit(h)
              /\ \A s \in Sessions : s # target(h) => nodes'[s] = nodes[s]
<1>1. CASE PersistCommit(h)
    BY <1>1 DEF PersistCommit, TypeOK, OwnerTypes
<1>2. CASE ~PersistCommit(h)
    BY <1>2
    DEF HandlerStep, OpenStep, OpenLockUser, OpenSumReserved, OpenCreateSession, PutStep,
        PutChunkSize, PutOpenPart, PutWritePart, PutWriteFails, PutRecordChunk,
        PutAddReceived, CompleteStep, CompleteCountChunks, CompleteClaim,
        CompleteExistingNode, CompleteFinalize, PersistLockUser, PersistFails, CompleteMark,
        CompleteReopen, CompleteTransition, AbortStep, AbortTransition, AbortUnlink,
        PurgeStep, PurgeSelect, PurgeSum, PurgeCommit, PurgeUnlink, Drop, userVars
<1> QED
    BY <1>1, <1>2

\* A session number is taken by one open request and never given again.
LEMMA RowInvInit == Init => RowInv
BY DEF Init, RowInv, OpenIsFresh, RowExisted, RowOfNode, OpenLabels

\* Every step keeps the facts about the rows.
LEMMA RowInvNext == TypeOK /\ RowInv /\ [Next]_vars => RowInv'
<1> SUFFICES ASSUME TypeOK, RowInv, [Next]_vars PROVE RowInv'
    OBVIOUS
<1> USE DEF RowInv
<1>0. \A g \in Handlers : pc[g] # "idle" => target(g) \in Sessions
    BY DEF TypeOK, HandlerTypes
<1>1. ASSUME NEW h \in Handlers, NEW s \in Sessions, NEW declared \in DeclaredSizes,
             OpenReceive(h, s, declared)
      PROVE  RowInv'
    <2>1. s \in s .. NumSessions
        BY SessionsAssumption
    <2>2. state[s] = "absent" /\ \A g \in Handlers : target(g) # s
        BY <1>1, <2>1 DEF OpenReceive, Used
    <2>3. /\ \A g \in Handlers \ {h} : pc'[g] = pc[g] /\ req'[g].session = req[g].session
          /\ pc'[h] \in OpenLabels /\ req'[h].session = s
          /\ UNCHANGED <<state, nodes>>
        BY <1>1 DEF OpenReceive, Unread, OpenLabels, dbVars, userVars, TypeOK, HandlerTypes
    <2>4. OpenIsFresh'
        BY <2>2, <2>3 DEF OpenIsFresh
    <2>5. RowExisted' /\ RowOfNode'
        BY <2>3 DEF RowExisted, RowOfNode
    <2> QED
        BY <2>4, <2>5
<1>2. ASSUME NEW h \in Handlers, NEW s \in Sessions, NEW index, NEW size,
             \/ PutReceive(h, s, index, size)
             \/ CompleteReceive(h, s)
             \/ AbortReceive(h, s)
             \/ PurgeReceive(h, s, index)
      PROVE  RowInv'
    <2>1. UNCHANGED <<state, nodes>>
        BY <1>2 DEF PutReceive, CompleteReceive, AbortReceive, PurgeReceive, dbVars, userVars
    <2>2. state[s] # "absent"
        <3>1. CASE PurgeReceive(h, s, index)
            <4>1. index \in 1 .. nodes[s] /\ nodes[s] \in Nat
                BY <3>1, LiveTypes DEF PurgeReceive, TypeOK
            <4> QED
                BY <4>1 DEF RowOfNode
        <3> QED
            BY <1>2, <3>1 DEF PutReceive, CompleteReceive, AbortReceive, active_session, Present
    <2>3. /\ \A g \in Handlers \ {h} : pc'[g] = pc[g] /\ req'[g].session = req[g].session
          /\ pc'[h] \notin OpenLabels /\ req'[h].session = s
        BY <1>2 DEF PutReceive, CompleteReceive, AbortReceive, PurgeReceive, Receive, Unread,
                    OpenLabels, TypeOK, HandlerTypes
    <2>4. OpenIsFresh'
        BY <2>1, <2>2, <2>3 DEF OpenIsFresh
    <2>5. RowExisted' /\ RowOfNode'
        BY <2>1, <2>2, <2>3 DEF RowExisted, RowOfNode
    <2> QED
        BY <2>4, <2>5
<1>3. ASSUME NEW h \in Handlers, OpenCreateSession(h) PROVE RowInv'
    <2>1. Flow(h)
        BY <1>3, StepFlow DEF HandlerStep, OpenStep
    <2>2. /\ pc[h] \in OpenLabels /\ target(h) \in Sessions
          /\ pc'[h] = "idle" /\ state' = [state EXCEPT ![target(h)] = "open"]
          /\ UNCHANGED nodes
        BY <1>0, <1>3 DEF OpenCreateSession, create_tx, Return, OpenLabels, TypeOK, HandlerTypes
    <2>3. \A g \in Handlers \ {h} : target(g) # target(h)
        BY <2>2 DEF OpenIsFresh
    <2>4. \A s \in Sessions : state'[s] = IF s = target(h) THEN "open" ELSE state[s]
        BY <2>2 DEF TypeOK, SessionTypes
    <2>5. OpenIsFresh'
        BY <1>0, <2>1, <2>2, <2>3, <2>4 DEF OpenIsFresh, Flow, OpenLabels
    <2>6. RowExisted'
        BY <1>0, <2>1, <2>2, <2>4 DEF RowExisted, Flow
    <2>7. RowOfNode'
        BY <2>2, <2>4 DEF RowOfNode
    <2> QED
        BY <2>5, <2>6, <2>7
<1>4. ASSUME NEW h \in Handlers,
             HandlerStep(h) \/ Drop(h), ~OpenCreateSession(h)
      PROVE  RowInv'
    <2>1. Flow(h)
        BY <1>4, StepFlow
    <2>2. \A s \in Sessions : state[s] = "absent" <=> state'[s] = "absent"
        BY <1>4, RowAppears
        DEF HandlerStep, OpenStep, OpenLockUser, OpenSumReserved, dbVars
    <2>3. OpenIsFresh'
        BY <1>0, <2>1, <2>2 DEF OpenIsFresh, Flow, OpenLabels
    <2>4. RowExisted'
        BY <1>0, <2>1, <2>2 DEF RowExisted, Flow
    <2>5. PersistCommit(h) => state[target(h)] # "absent"
        BY DEF PersistCommit, RowExisted, OpenLabels
    <2>6. RowOfNode'
        BY <1>4, <2>2, <2>5, NodesGrow DEF RowOfNode
    <2> QED
        BY <2>3, <2>4, <2>6
<1>5. ASSUME UNCHANGED <<pc, req, nodes>>,
             \A s \in Sessions : state[s] = "absent" <=> state'[s] = "absent"
      PROVE  RowInv'
    BY <1>0, <1>5 DEF OpenIsFresh, RowExisted, RowOfNode, OpenLabels
<1>6. CASE \E s \in Sessions : Expire(s)
    BY <1>5, <1>6 DEF Expire, handlerVars, userVars
<1>7. CASE \E quota \in Quotas : SetQuota(quota)
    BY <1>5, <1>7 DEF SetQuota, handlerVars, dbVars
<1>8. CASE GcNext
    <2>1. CASE GcDelete
        <3>1. PICK s \in gcBatch : delete_if_expired(s)
            BY <2>1 DEF GcDelete
        <3>2. \A t \in Sessions : state[t] = "absent" <=> state'[t] = "absent"
            <4>1. \/ state[s] \in {"open", "aborted"} /\ state' = [state EXCEPT ![s] = "deleted"]
                  \/ UNCHANGED state
                BY <3>1 DEF delete_if_expired, Reclaimable
            <4> QED
                BY <4>1 DEF TypeOK, SessionTypes
        <3> QED
            BY <1>5, <2>1, <3>2 DEF GcDelete, handlerVars, userVars
    <2> QED
        BY <1>5, <1>8, <2>1 DEF GcNext, GcScan, GcUnlink, handlerVars, dbVars, userVars
<1>9. CASE Crash
    BY <1>9 DEF Crash, OpenIsFresh, RowExisted, RowOfNode, OpenLabels, dbVars
<1>10. CASE UNCHANGED vars
    BY <1>5, <1>10 DEF vars, handlerVars, dbVars, userVars
<1> QED
    BY <1>1, <1>2, <1>3, <1>4, <1>6, <1>7, <1>8, <1>9, <1>10 DEF Next, Arrival

(***************************************************************************)
(* THE BLOB BEFORE THE NODE                                                *)
(***************************************************************************)
\* A request that is about to insert a node has seen a file at storage_key, which only
\* a purge can have taken since; and delete_blobs comes after the commit of its purge.
BlobInv ==
    /\ OnlyPurgeTakesBlobs
    /\ \A h \in Handlers :
          /\ pc[h] \in {"lock_persist", "persist"} =>
                blob[target(h)].linked \/ purged[target(h)] # {}
          /\ pc[h] = "unlink_blobs" => purged[target(h)] # {}

\* Only complete makes a node, and only a purge takes one.
LEMMA NodesMove ==
    ASSUME TypeOK, [Next]_vars, NEW s \in Sessions
    PROVE  /\ \/ nodes'[s] = nodes[s]
              \/ \E h \in Handlers : PersistCommit(h) /\ target(h) = s
           /\ \/ purged'[s] = purged[s]
              \/ \E h \in Handlers : PurgeCommit(h) /\ target(h) = s
<1>1. ASSUME NEW h \in Handlers, Arrival(h) PROVE UNCHANGED <<nodes, purged>>
    BY <1>1
    DEF Arrival, OpenReceive, PutReceive, CompleteReceive, AbortReceive, PurgeReceive, userVars
<1>2. ASSUME NEW h \in Handlers, HandlerStep(h) \/ Drop(h), ~PersistCommit(h), ~PurgeCommit(h)
      PROVE  UNCHANGED <<nodes, purged>>
    BY <1>2
    DEF HandlerStep, OpenStep, OpenLockUser, OpenSumReserved, OpenCreateSession, PutStep,
        PutChunkSize, PutOpenPart, PutWritePart, PutWriteFails, PutRecordChunk,
        PutAddReceived, CompleteStep, CompleteCountChunks, CompleteClaim,
        CompleteExistingNode, CompleteFinalize, PersistLockUser, PersistFails, CompleteMark,
        CompleteReopen, CompleteTransition, AbortStep, AbortTransition, AbortUnlink,
        PurgeStep, PurgeSelect, PurgeSum, PurgeUnlink, Drop, userVars
<1>3. ASSUME NEW h \in Handlers, PersistCommit(h)
      PROVE  /\ UNCHANGED purged
             /\ target(h) # s => nodes'[s] = nodes[s]
    BY <1>3 DEF PersistCommit, TypeOK, OwnerTypes
<1>4. ASSUME NEW h \in Handlers, PurgeCommit(h)
      PROVE  /\ UNCHANGED nodes
             /\ target(h) # s => purged'[s] = purged[s]
    BY <1>4 DEF PurgeCommit, TypeOK, OwnerTypes
<1>5. ASSUME (\E t \in Sessions : Expire(t)) \/ (\E quota \in Quotas : SetQuota(quota))
             \/ GcNext \/ Crash \/ UNCHANGED vars
      PROVE  UNCHANGED <<nodes, purged>>
    BY <1>5 DEF Expire, SetQuota, GcNext, GcScan, GcDelete, GcUnlink, Crash, vars, userVars
<1> QED
    BY <1>1, <1>2, <1>3, <1>4, <1>5 DEF Next

\* Nothing but delete_blobs removes the file at storage_key.
LEMMA BlobStays ==
    ASSUME TypeOK, [Next]_vars, NEW s \in Sessions, blob[s].linked,
           \A h \in Handlers : PurgeUnlink(h) => target(h) # s
    PROVE  blob'[s].linked
<1> USE DEF TypeOK, FileTypes
<1>1. ASSUME NEW h \in Handlers, Arrival(h) PROVE blob'[s].linked
    BY <1>1
    DEF Arrival, OpenReceive, PutReceive, CompleteReceive, AbortReceive, PurgeReceive, fsVars
<1>2. ASSUME NEW h \in Handlers, PutStep(h) PROVE blob'[s].linked
    <2>1. ASSUME NEW bytes, WriteOpenFile(h, bytes) PROVE blob'[s].linked
        <3>1. \/ UNCHANGED blob
              \/ blob' = [blob EXCEPT ![target(h)] = Written(blob[target(h)], bytes)]
            BY <2>1 DEF WriteOpenFile
        <3>2. Written(blob[target(h)], bytes).linked
            BY DEF Written
        <3> QED
            BY <3>1, <3>2
    <2> QED
        BY <1>2, <2>1
        DEF PutStep, PutChunkSize, PutOpenPart, PutWritePart, PutWriteFails, PutRecordChunk,
            PutAddReceived, fsVars
<1>3. ASSUME NEW h \in Handlers, CompleteStep(h) PROVE blob'[s].linked
    BY <1>3 DEF CompleteStep, CompleteCountChunks, CompleteClaim, CompleteExistingNode,
                CompleteFinalize, PersistLockUser, PersistCommit, PersistFails,
                CompleteMark, CompleteReopen, CompleteTransition, fsVars
<1>4. ASSUME NEW h \in Handlers, PurgeStep(h) PROVE blob'[s].linked
    BY <1>4 DEF PurgeStep, PurgeSelect, PurgeSum, PurgeCommit, PurgeUnlink, fsVars
<1>5. ASSUME NEW h \in Handlers, OpenStep(h) \/ AbortStep(h) \/ Drop(h) PROVE UNCHANGED blob
    BY <1>5 DEF OpenStep, OpenLockUser, OpenSumReserved, OpenCreateSession, AbortStep,
                AbortTransition, AbortUnlink, Drop, fsVars
<1>6. ASSUME (\E t \in Sessions : Expire(t)) \/ (\E quota \in Quotas : SetQuota(quota))
             \/ GcNext \/ Crash \/ UNCHANGED vars
      PROVE  UNCHANGED blob
    BY <1>6 DEF Expire, SetQuota, GcNext, GcScan, GcDelete, GcUnlink, Crash, vars, fsVars
<1> QED
    BY <1>1, <1>2, <1>3, <1>4, <1>5, <1>6 DEF Next, HandlerStep

\* A request comes to persist_node from finalize, which has just seen or made the file,
\* and to delete_blobs from the commit of its purge.
LEMMA BlobSeen ==
    ASSUME TypeOK, [Next]_vars, NEW h \in Handlers,
           pc'[h] \in {"lock_persist", "persist", "unlink_blobs"}
    PROVE  /\ target(h) \in Sessions /\ req'[h].session = target(h)
           /\ pc'[h] \in {"lock_persist", "persist"} =>
                 pc[h] \in {"lock_persist", "persist"} \/ blob'[target(h)].linked
           /\ pc'[h] = "unlink_blobs" =>
                 pc[h] = "unlink_blobs" \/ purged'[target(h)] # {}
<1> USE DEF TypeOK, HandlerTypes
<1>1. ASSUME NEW g \in Handlers, g # h, Arrival(g) \/ HandlerStep(g) \/ Drop(g)
      PROVE  pc'[h] = pc[h] /\ req'[h].session = target(h)
    <2>1. ASSUME Arrival(g) PROVE pc'[h] = pc[h] /\ req'[h] = req[h]
        BY <1>1, <2>1 DEF Arrival, OpenReceive, PutReceive, CompleteReceive, AbortReceive,
                          PurgeReceive, Receive
    <2> QED
        BY <1>1, <2>1, StepFlow DEF Flow
<1>2. ASSUME Arrival(h) PROVE FALSE
    BY <1>2 DEF Arrival, OpenReceive, PutReceive, CompleteReceive, AbortReceive,
                PurgeReceive, Receive
<1>3. ASSUME HandlerStep(h) \/ Drop(h)
      PROVE  pc[h] # "idle" /\ req'[h].session = target(h)
    BY <1>3, StepFlow DEF Flow
<1>4. ASSUME CompleteStep(h), pc[h] # "idle"
      PROVE  /\ pc'[h] \in {"lock_persist", "persist"} =>
                   pc[h] \in {"lock_persist", "persist"} \/ blob'[target(h)].linked
             /\ pc'[h] # "unlink_blobs"
    BY <1>4
    DEF CompleteStep, CompleteCountChunks, CompleteClaim, CompleteExistingNode,
        CompleteFinalize, finalized_before, PersistLockUser, PersistCommit, PersistFails,
        CompleteMark, CompleteReopen, CompleteTransition, Return, Goto, FileTypes
<1>5. ASSUME PurgeStep(h)
      PROVE  pc'[h] \notin {"lock_persist", "persist"} /\ purged'[target(h)] # {}
    BY <1>3, <1>5 DEF HandlerStep, PurgeStep, PurgeSelect, PurgeSum, PurgeCommit, PurgeUnlink,
                      Return, Goto, OwnerTypes
<1>6. ASSUME OpenStep(h) \/ PutStep(h) \/ AbortStep(h) \/ Drop(h) PROVE FALSE
    BY <1>6 DEF OpenStep, OpenLockUser, OpenSumReserved, OpenCreateSession, OpenRefused,
                PutStep, PutChunkSize, PutOpenPart, PutWritePart, PutWriteFails,
                PutRecordChunk, PutAddReceived, AbortStep, AbortTransition, AbortUnlink, Drop,
                Return, Goto
<1>7. ASSUME (\E t \in Sessions : Expire(t)) \/ (\E quota \in Quotas : SetQuota(quota))
             \/ GcNext \/ UNCHANGED vars
      PROVE  UNCHANGED <<pc, req>>
    BY <1>7 DEF Expire, SetQuota, GcNext, GcScan, GcDelete, GcUnlink, vars, handlerVars
<1>8. ~Crash
    BY DEF Crash
<1> QED
    BY <1>1, <1>2, <1>3, <1>4, <1>5, <1>6, <1>7, <1>8 DEF Next, HandlerStep

\* Nothing but delete_blobs removes the file at storage_key, and no purge is undone.
LEMMA BlobInvNext == TypeOK /\ BlobInv /\ [Next]_vars => BlobInv'
<1> SUFFICES ASSUME TypeOK, BlobInv, [Next]_vars PROVE BlobInv'
    OBVIOUS
<1>1. ASSUME NEW s \in Sessions, purged[s] # {} PROVE purged'[s] # {}
    <2>1. ASSUME NEW h \in Handlers, PurgeCommit(h), target(h) = s PROVE purged'[s] # {}
        BY <2>1 DEF PurgeCommit, TypeOK, OwnerTypes
    <2> QED
        BY <1>1, <2>1, NodesMove
<1>2. ASSUME NEW s \in Sessions, blob[s].linked PROVE blob'[s].linked \/ purged'[s] # {}
    <2>1. ASSUME NEW h \in Handlers, PurgeUnlink(h), target(h) = s PROVE purged[s] # {}
        BY <2>1 DEF PurgeUnlink, BlobInv
    <2> QED
        BY <1>1, <1>2, <2>1, BlobStays
<1>3. ASSUME NEW s \in Sessions, nodes'[s] > 0, purged'[s] = {} PROVE blob'[s].linked
    <2>1. ASSUME NEW h \in Handlers, PersistCommit(h), target(h) = s
          PROVE  blob[s].linked \/ purged[s] # {}
        BY <2>1 DEF PersistCommit, BlobInv
    <2> QED
        BY <1>1, <1>2, <1>3, <2>1, NodesMove DEF BlobInv, OnlyPurgeTakesBlobs
<1>4. ASSUME NEW h \in Handlers, pc'[h] \in {"lock_persist", "persist"}
      PROVE  blob'[req'[h].session].linked \/ purged'[req'[h].session] # {}
    BY <1>1, <1>2, <1>4, BlobSeen DEF BlobInv
<1>5. ASSUME NEW h \in Handlers, pc'[h] = "unlink_blobs" PROVE purged'[req'[h].session] # {}
    BY <1>1, <1>5, BlobSeen DEF BlobInv
<1> QED
    BY <1>3, <1>4, <1>5 DEF BlobInv, OnlyPurgeTakesBlobs

(***************************************************************************)
(* THE QUOTA                                                               *)
(***************************************************************************)
\* The quota check of persist_node still holds when the bytes are added.
QuotaChecked ==
    \A h \in Handlers : pc[h] = "persist" =>
        used_bytes + declared_size[target(h)] <= quota_bytes

\* Between the check and the addition the row is held, so neither number moves,
\* and the declared size of a session with a row never does.
LEMMA QuotaCheckedNext ==
    TypeOK /\ RowHeld /\ RowInv /\ QuotaChecked /\ [Next]_vars => QuotaChecked'
<1> SUFFICES ASSUME TypeOK, RowHeld, RowInv, QuotaChecked, [Next]_vars PROVE QuotaChecked'
    OBVIOUS
<1>0. \A g \in Handlers : pc[g] = "persist" =>
        /\ target(g) \in Sessions /\ state[target(g)] # "absent"
        /\ rowLock = g /\ g # NoHandler
        /\ used_bytes + declared_size[target(g)] <= quota_bytes
    BY HandlersAssumption
    DEF TypeOK, HandlerTypes, RowHeld, InTransaction, RowInv, RowExisted, OpenLabels, QuotaChecked
<1>1. ASSUME UNCHANGED <<used_bytes, quota_bytes, declared_size>>,
             \A g \in Handlers : pc'[g] = "persist" =>
                pc[g] = "persist" /\ req'[g].session = target(g)
      PROVE  QuotaChecked'
    BY <1>0, <1>1 DEF QuotaChecked
<1> USE DEF TypeOK, HandlerTypes
<1>2. ASSUME NEW h \in Handlers, Arrival(h) PROVE QuotaChecked'
    BY <1>1, <1>2
    DEF Arrival, OpenReceive, PutReceive, CompleteReceive, AbortReceive, PurgeReceive, Receive,
        Unread, userVars, dbVars
<1>3. ASSUME NEW h \in Handlers, OpenCreateSession(h) PROVE QuotaChecked'
    <2>1. rowLock = h /\ pc[h] = "create_session"
        BY <1>3 DEF OpenCreateSession, RowHeld, InTransaction
    <2>2. \A g \in Handlers : pc[g] # "persist"
        BY <1>0, <2>1
    <2>3. \A g \in Handlers : pc'[g] # "persist"
        BY <1>3, <2>2 DEF OpenCreateSession, Return
    <2> QED
        BY <2>3 DEF QuotaChecked
<1>4. ASSUME NEW h \in Handlers, PersistLockUser(h) PROVE QuotaChecked'
    <2>1. \A g \in Handlers : pc[g] # "persist"
        BY <1>0, <1>4 DEF PersistLockUser, RowFree
    <2>2. /\ used_bytes \in Nat /\ quota_bytes \in Nat
          /\ target(h) \in Sessions /\ declared_size[target(h)] \in Nat
        BY <1>4 DEF PersistLockUser, OwnerTypes, SessionTypes
    <2>3. UNCHANGED <<used_bytes, quota_bytes, declared_size, req>>
        BY <1>4 DEF PersistLockUser, dbVars
    <2>4. pc'[h] = "persist" => used_bytes + declared_size[target(h)] <= quota_bytes
        BY <1>4, <2>2 DEF PersistLockUser, Goto
    <2>5. \A g \in Handlers \ {h} : pc'[g] # "persist"
        BY <1>4, <2>1 DEF PersistLockUser, Goto
    <2> QED
        BY <2>3, <2>4, <2>5 DEF QuotaChecked
<1>5. ASSUME NEW h \in Handlers, PersistCommit(h) PROVE QuotaChecked'
    <2>1. \A g \in Handlers \ {h} : pc[g] # "persist"
        BY <1>0, <1>5 DEF PersistCommit
    <2> QED
        BY <1>5, <2>1 DEF PersistCommit, Goto, QuotaChecked
<1>6. ASSUME NEW h \in Handlers, HandlerStep(h) \/ Drop(h),
             ~OpenCreateSession(h), ~PersistLockUser(h), ~PersistCommit(h), ~PurgeCommit(h)
      PROVE  QuotaChecked'
    <2>1. Flow(h)
        BY <1>6, StepFlow
    <2>2. UNCHANGED <<used_bytes, quota_bytes, declared_size>> /\ pc'[h] # "persist"
        BY <1>6
        DEF HandlerStep, OpenStep, OpenLockUser, OpenSumReserved, OpenRefused, PutStep,
            PutChunkSize, PutOpenPart, PutWritePart, PutWriteFails, PutRecordChunk,
            PutAddReceived, CompleteStep, CompleteCountChunks, CompleteClaim,
            CompleteExistingNode, CompleteFinalize, PersistFails, CompleteMark,
            CompleteReopen, CompleteTransition, AbortStep, AbortTransition, AbortUnlink,
            PurgeStep, PurgeSelect, PurgeSum, PurgeUnlink, Drop, Return, Goto, dbVars, userVars
    <2> QED
        BY <1>1, <2>1, <2>2 DEF Flow
<1>7. CASE \E s \in Sessions : Expire(s)
    BY <1>1, <1>7 DEF Expire, userVars, handlerVars
<1>8. CASE \E quota \in Quotas : SetQuota(quota)
    <2>1. \A g \in Handlers : pc[g] # "persist"
        BY <1>0, <1>8 DEF SetQuota, RowFree
    <2> QED
        BY <1>8, <2>1 DEF SetQuota, QuotaChecked, handlerVars
<1>9. CASE GcNext
    BY <1>1, <1>9 DEF GcNext, GcScan, GcDelete, GcUnlink, userVars, dbVars, handlerVars
<1>10. CASE Crash
    BY <1>10 DEF Crash, QuotaChecked
<1>11. ASSUME NEW h \in Handlers, PurgeCommit(h) PROVE QuotaChecked'
    <2>1. \A g \in Handlers : pc[g] # "persist"
        BY <1>0, <1>11 DEF PurgeCommit, RowFree
    <2> QED
        BY <1>11, <2>1 DEF PurgeCommit, Goto, QuotaChecked
<1>12. CASE UNCHANGED vars
    BY <1>1, <1>12 DEF vars, userVars, dbVars, handlerVars
<1> QED
    BY <1>2, <1>3, <1>4, <1>5, <1>6, <1>7, <1>8, <1>9, <1>10, <1>11, <1>12 DEF Next

\* The initial state satisfies the three invariants about the owner's row.
LEMMA OwnerInit == Init => RowHeld /\ QuotaChecked /\ BlobInv
BY DEF Init, RowHeld, InTransaction, QuotaChecked, BlobInv, OnlyPurgeTakesBlobs

\* What is proved by induction about the owner's row, the rows of the sessions
\* and the blobs.
OwnerInv == TypeOK /\ RowHeld /\ RowInv /\ QuotaChecked /\ BlobInv

\* The facts about the owner's row and the blobs hold in every reachable state.
LEMMA OwnerInvariant == Spec => []OwnerInv
<1>1. Init => OwnerInv
    BY InitType, RowInvInit, OwnerInit DEF OwnerInv
<1>2. OwnerInv /\ [Next]_vars => OwnerInv'
    BY NextType, RowHeldNext, RowInvNext, QuotaCheckedNext, BlobInvNext DEF OwnerInv
<1> QED
    BY <1>1, <1>2, PTL DEF Spec

\* As long as no node of a session was purged, the file its nodes refer to is there:
\* no rename, late chunk, abort or collection ever takes it.
THEOREM BlobSafety == Spec => []OnlyPurgeTakesBlobs
<1>1. OwnerInv => OnlyPurgeTakesBlobs
    BY DEF OwnerInv, BlobInv
<1> QED
    BY <1>1, OwnerInvariant, PTL

\* used_bytes never grows past the quota in force, however many uploads complete
\* at once.
THEOREM QuotaSafety == Spec => QuotaGate
<1>1. OwnerInv /\ [Next]_vars => [used_bytes' > used_bytes => used_bytes' <= quota_bytes']_vars
    <2> SUFFICES ASSUME OwnerInv, Next, used_bytes' > used_bytes
                 PROVE  used_bytes' <= quota_bytes'
        OBVIOUS
    <2>1. used_bytes \in Nat
        BY DEF OwnerInv, TypeOK, OwnerTypes
    <2>2. ASSUME NEW h \in Handlers, PersistCommit(h) PROVE used_bytes' <= quota_bytes'
        BY <2>2 DEF PersistCommit, add_used_bytes, OwnerInv, QuotaChecked
    <2>3. ASSUME UNCHANGED used_bytes PROVE FALSE
        BY <2>1, <2>3
    <2>4. ASSUME NEW h \in Handlers, Arrival(h) PROVE UNCHANGED used_bytes
        BY <2>4 DEF Arrival, OpenReceive, PutReceive, CompleteReceive, AbortReceive,
                    PurgeReceive, userVars
    <2>5. ASSUME NEW h \in Handlers, HandlerStep(h) \/ Drop(h), ~PersistCommit(h),
                 ~PurgeCommit(h)
          PROVE  UNCHANGED used_bytes
        BY <2>5
        DEF HandlerStep, OpenStep, OpenLockUser, OpenSumReserved, OpenCreateSession, PutStep,
            PutChunkSize, PutOpenPart, PutWritePart, PutWriteFails, PutRecordChunk,
            PutAddReceived, CompleteStep, CompleteCountChunks, CompleteClaim,
            CompleteExistingNode, CompleteFinalize, PersistLockUser, PersistFails, CompleteMark,
            CompleteReopen, CompleteTransition, AbortStep, AbortTransition, AbortUnlink,
            PurgeStep, PurgeSelect, PurgeSum, PurgeUnlink, Drop, userVars
    <2>6. ASSUME (\E s \in Sessions : Expire(s)) \/ (\E quota \in Quotas : SetQuota(quota))
                 \/ GcNext \/ Crash
          PROVE  UNCHANGED used_bytes
        BY <2>6 DEF Expire, SetQuota, GcNext, GcScan, GcDelete, GcUnlink, Crash, userVars
    <2>7. ASSUME NEW h \in Handlers, PurgeCommit(h) PROVE FALSE
        <3>1. req[h].size \in Nat
            BY DEF OwnerInv, TypeOK, HandlerTypes, Request
        <3>2. used_bytes' = used_bytes \/ used_bytes' = used_bytes - req[h].size
                                       \/ used_bytes' = 0
            BY <2>7, <3>1, Release DEF PurgeCommit, OwnerInv, TypeOK
        <3> QED
            BY <2>1, <3>1, <3>2
    <2> QED
        BY <2>2, <2>3, <2>4, <2>5, <2>6, <2>7 DEF Next
<1> QED
    BY <1>1, OwnerInvariant, PTL DEF Spec, QuotaGate

(***************************************************************************)
(* THE NODE BEFORE THE COMPLETION                                          *)
(***************************************************************************)
\* The request has set node_id itself, or has read one.
KnowsNode(h) ==
    \/ pc[h] = "mark_completed"
    \/ pc[h] \in {"count_chunks", "claim", "existing_node"} /\ req[h].node_id # 0

\* What such a request knows stays true: node_id is never cleared, unless the
\* row itself goes.
NodeInv ==
    /\ \A h \in Handlers : KnowsNode(h) =>
          node_id[target(h)] # 0 \/ state[target(h)] = "deleted"
    /\ \A s \in Sessions : node_id[s] <= nodes[s]
    /\ CompletedHasNode

\* While rows only move between the other states, node_id and the number of nodes
\* stay and no request learns of a node, nothing can break.
LEMMA NodeInvFrame ==
    ASSUME TypeOK, NodeInv, UNCHANGED <<node_id, nodes>>,
           \A s \in Sessions : state[s] = "deleted" => state'[s] = "deleted",
           \A s \in Sessions : state'[s] = "completed" => state[s] = "completed" \/ node_id[s] # 0,
           \A h \in Handlers : KnowsNode(h)' =>
              \/ KnowsNode(h) /\ req'[h].session = target(h)
              \/ /\ req'[h].session \in Sessions
                 /\ node_id[req'[h].session] # 0
    PROVE  NodeInv'
<1>1. \A h \in Handlers : KnowsNode(h) => target(h) \in Sessions
    BY DEF TypeOK, HandlerTypes, KnowsNode
<1>2. \A h \in Handlers : KnowsNode(h)' =>
          node_id'[req'[h].session] # 0 \/ state'[req'[h].session] = "deleted"
    BY <1>1 DEF NodeInv
<1>3. \A s \in Sessions : node_id'[s] <= nodes'[s]
    BY DEF NodeInv
<1>4. ASSUME NEW s \in Sessions, state'[s] = "completed" PROVE node_id'[s] \in 1 .. nodes'[s]
    <2>1. node_id[s] # 0
        BY <1>4 DEF NodeInv, CompletedHasNode
    <2> QED
        BY <1>3, <2>1 DEF TypeOK, SessionTypes, OwnerTypes
<1> QED
    BY <1>2, <1>3, <1>4 DEF NodeInv, CompletedHasNode

\* A transition of a row leaves "deleted" alone and moves the row to nothing but
\* its destination.
LEMMA TransitionEffect ==
    ASSUME SessionTypes, NEW t \in Sessions, NEW from, NEW to, transition_state(t, from, to)
    PROVE  /\ \A s \in Sessions : state[s] = "deleted" => state'[s] = "deleted"
           /\ \A s \in Sessions : state'[s] # state[s] =>
                 s = t /\ state[s] = from /\ state'[s] = to
BY DEF SessionTypes, transition_state, Present

\* complete knows of a node before it marks the session completed.
LEMMA NodeInvNext == OwnerInv /\ NodeInv /\ [Next]_vars => NodeInv'
<1> SUFFICES ASSUME TypeOK, RowInv, NodeInv, [Next]_vars PROVE NodeInv'
    BY DEF OwnerInv
<1>0. \A g \in Handlers : pc[g] # "idle" => target(g) \in Sessions
    BY DEF TypeOK, HandlerTypes
<1>1. ASSUME NEW h \in Handlers, Arrival(h) PROVE NodeInv'
    <2>1. UNCHANGED <<state, node_id, nodes>>
        BY <1>1 DEF Arrival, OpenReceive, PutReceive, CompleteReceive, AbortReceive,
                    PurgeReceive, dbVars, userVars
    <2>2. \A g \in Handlers \ {h} : pc'[g] = pc[g] /\ req'[g] = req[g]
        BY <1>1 DEF Arrival, OpenReceive, PutReceive, CompleteReceive, AbortReceive,
                    PurgeReceive, Receive, TypeOK, HandlerTypes
    <2>3. KnowsNode(h)' => req'[h].session \in Sessions /\ node_id[req'[h].session] # 0
        BY <1>1 DEF Arrival, OpenReceive, PutReceive, CompleteReceive, AbortReceive,
                    PurgeReceive, Receive, KnowsNode, TypeOK, HandlerTypes
    <2> QED
        BY <2>1, <2>2, <2>3, NodeInvFrame DEF KnowsNode
<1>2. ASSUME NEW h \in Handlers, OpenStep(h) PROVE NodeInv'
    <2>1. Flow(h) /\ pc[h] \in OpenLabels
        BY <1>2, StepFlow
        DEF HandlerStep, OpenStep, OpenLockUser, OpenSumReserved, OpenCreateSession, OpenLabels
    <2>2. UNCHANGED <<node_id, nodes>> /\ pc'[h] # "mark_completed"
          /\ \A s \in Sessions : state'[s] # state[s] => state[s] = "absent" /\ state'[s] = "open"
        BY <1>0, <1>2
        DEF OpenStep, OpenLockUser, OpenSumReserved, OpenCreateSession, create_tx, OpenRefused,
            Return, Goto, RowInv, OpenIsFresh, OpenLabels, TypeOK, HandlerTypes, SessionTypes, dbVars, userVars
    <2>3. \A g \in Handlers : KnowsNode(g)' => KnowsNode(g) /\ req'[g].session = target(g)
        BY <1>2, <2>1, <2>2
        DEF OpenStep, OpenLockUser, OpenSumReserved, OpenCreateSession, OpenRefused, Return, Goto,
            KnowsNode, TypeOK, HandlerTypes
    <2> QED
        BY <2>2, <2>3, NodeInvFrame
<1>3. ASSUME NEW h \in Handlers, PutStep(h) \/ AbortStep(h) \/ PurgeStep(h) \/ Drop(h)
      PROVE  NodeInv'
    <2>1. Flow(h)
        BY <1>3, StepFlow DEF HandlerStep
    <2>2. UNCHANGED <<node_id, nodes>>
        BY <1>3
        DEF PutStep, PutChunkSize, PutOpenPart, PutWritePart, PutWriteFails, PutRecordChunk,
            PutAddReceived, AbortStep, AbortTransition, AbortUnlink, PurgeStep, PurgeSelect,
            PurgeSum, PurgeCommit, PurgeUnlink, Drop, dbVars, userVars
    <2>3. \/ UNCHANGED state
          \/ transition_state(target(h), req[h].state, "aborted") /\ pc[h] # "idle"
        BY <1>3
        DEF PutStep, PutChunkSize, PutOpenPart, PutWritePart, PutWriteFails, PutRecordChunk,
            PutAddReceived, AbortStep, AbortTransition, AbortUnlink, PurgeStep, PurgeSelect,
            PurgeSum, PurgeCommit, PurgeUnlink, Drop, dbVars
    <2>4. ~KnowsNode(h)'
        BY <1>3
        DEF PutStep, PutChunkSize, PutOpenPart, PutWritePart, PutWriteFails, PutRecordChunk,
            PutAddReceived, AbortStep, AbortTransition, AbortUnlink, PurgeStep, PurgeSelect,
            PurgeSum, PurgeCommit, PurgeUnlink, Drop, Return, Goto,
            KnowsNode, TypeOK, HandlerTypes
    <2>5. \A g \in Handlers : KnowsNode(g)' => KnowsNode(g) /\ req'[g].session = target(g)
        <3> SUFFICES ASSUME NEW g \in Handlers, KnowsNode(g)', g # h
                     PROVE  KnowsNode(g) /\ req'[g].session = target(g)
            BY <2>4
        <3>1. req'[g] = req[g]
            BY <1>3
            DEF PutStep, PutChunkSize, PutOpenPart, PutWritePart, PutWriteFails, PutRecordChunk,
                PutAddReceived, AbortStep, AbortTransition, AbortUnlink, PurgeStep, PurgeSelect,
            PurgeSum, PurgeCommit, PurgeUnlink, Drop, Return,
                TypeOK, HandlerTypes
        <3> QED
            BY <2>1, <3>1 DEF Flow, KnowsNode
    <2>6. /\ \A s \in Sessions : state[s] = "deleted" => state'[s] = "deleted"
          /\ \A s \in Sessions : state'[s] = "completed" => state[s] = "completed"
        BY <1>0, <2>3, TransitionEffect DEF TypeOK
    <2> QED
        BY <2>2, <2>5, <2>6, NodeInvFrame
<1>4. ASSUME NEW h \in Handlers, PersistCommit(h) PROVE NodeInv'
    <2> DEFINE s == target(h)
    <2>1. /\ pc[h] = "persist" /\ s \in Sessions /\ nodes[s] \in Nat
          /\ state[s] # "absent"
        BY <1>0, <1>4 DEF PersistCommit, TypeOK, OwnerTypes, RowInv, RowExisted, OpenLabels
    <2>2. /\ nodes' = [nodes EXCEPT ![s] = nodes[s] + 1]
          /\ UNCHANGED <<state, req>>
          /\ \A g \in Handlers \ {h} : pc'[g] = pc[g]
        BY <1>4 DEF PersistCommit, Goto, TypeOK, HandlerTypes
    <2>3. \/ state[s] = "deleted" /\ UNCHANGED node_id
          \/ node_id' = [node_id EXCEPT ![s] = nodes[s] + 1]
        BY <1>4, <2>1 DEF PersistCommit, set_node_tx, Present
    <2>4. /\ state[s] = "deleted" \/ node_id'[s] # 0
          /\ \A t \in Sessions : node_id[t] # 0 => node_id'[t] # 0
          /\ \A t \in Sessions : node_id'[t] <= nodes'[t]
        <3>1. \A t \in Sessions :
                 /\ nodes'[t] = IF t = s THEN nodes[s] + 1 ELSE nodes[t]
                 /\ node_id'[t] = node_id[t] \/ (node_id'[t] = nodes[s] + 1 /\ t = s)
            BY <2>2, <2>3 DEF TypeOK, SessionTypes, OwnerTypes
        <3>2. \A t \in Sessions : /\ node_id[t] \in Nat /\ nodes[t] \in Nat
                                 /\ node_id[t] <= nodes[t]
            BY DEF NodeInv, TypeOK, SessionTypes, OwnerTypes
        <3>3. state[s] = "deleted" \/ node_id'[s] = nodes[s] + 1
            BY <2>1, <2>3 DEF TypeOK, SessionTypes
        <3> QED
            BY <2>1, <3>1, <3>2, <3>3
    <2>5. \A g \in Handlers : KnowsNode(g)' => g = h \/ KnowsNode(g)
        BY <2>2 DEF KnowsNode
    <2>6. \A g \in Handlers : KnowsNode(g) => target(g) \in Sessions
        BY <1>0 DEF KnowsNode
    <2>7. \A g \in Handlers : KnowsNode(g)' =>
              node_id'[req'[g].session] # 0 \/ state'[req'[g].session] = "deleted"
        BY <2>2, <2>4, <2>5, <2>6 DEF NodeInv
    <2>8. CompletedHasNode'
        <3>1. \A t \in Sessions : node_id'[t] \in Nat /\ nodes'[t] \in Nat
            BY NextType DEF TypeOK, SessionTypes, OwnerTypes
        <3>2. \A t \in Sessions : state'[t] = "completed" => node_id[t] \in 1 .. nodes[t]
            BY <2>2 DEF NodeInv, CompletedHasNode
        <3>3. \A t \in Sessions : state'[t] = "completed" => node_id'[t] # 0
            BY <2>4, <3>2
        <3> QED
            BY <2>4, <3>1, <3>3 DEF CompletedHasNode
    <2> QED
        BY <2>4, <2>7, <2>8 DEF NodeInv
<1>5. ASSUME NEW h \in Handlers, CompleteStep(h), ~PersistCommit(h) PROVE NodeInv'
    <2> USE DEF TypeOK, HandlerTypes
    <2>1. Flow(h) /\ UNCHANGED <<node_id, nodes>> /\ target(h) \in Sessions
          /\ \A g \in Handlers \ {h} : req'[g] = req[g]
        BY <1>0, <1>5, StepFlow
        DEF HandlerStep, CompleteStep, CompleteCountChunks, CompleteClaim, CompleteExistingNode,
            CompleteFinalize, PersistLockUser, PersistFails, CompleteMark, CompleteReopen,
            CompleteTransition, Return, dbVars, userVars
    <2>2. ASSUME CompleteMark(h) PROVE node_id[target(h)] # 0 \/ state[target(h)] = "deleted"
        BY <2>2 DEF CompleteMark, CompleteTransition, NodeInv, KnowsNode
    <2>3. \/ UNCHANGED state
          \/ transition_state(target(h), "open", "completing")
          \/ transition_state(target(h), "completing", "open")
          \/ transition_state(target(h), "completing", "completed") /\ CompleteMark(h)
        BY <1>5
        DEF CompleteStep, CompleteCountChunks, CompleteClaim, CompleteExistingNode,
            CompleteFinalize, PersistLockUser, PersistFails, CompleteMark, CompleteReopen,
            CompleteTransition, dbVars
    <2>4. /\ \A s \in Sessions : state[s] = "deleted" => state'[s] = "deleted"
          /\ \A s \in Sessions :
                state'[s] = "completed" => state[s] = "completed" \/ node_id[s] # 0
        BY <2>1, <2>2, <2>3, TransitionEffect
    <2>5. existing_node(h) => req[h].node_id # 0
        BY <2>1, LiveTypes DEF existing_node
    <2>6. KnowsNode(h)' => \/ KnowsNode(h) /\ req'[h].session = target(h)
                           \/ req'[h].session = target(h) /\ node_id[target(h)] # 0
        <3>1. CASE Return(h)
            BY <3>1 DEF Return, KnowsNode
        <3>2. CASE CompleteCountChunks(h) \/ CompleteExistingNode(h)
            BY <2>1, <2>5, <3>1, <3>2
            DEF CompleteCountChunks, CompleteExistingNode, Goto, KnowsNode
        <3>3. CASE CompleteClaim(h) /\ UNCHANGED req
            BY <2>1, <3>1, <3>3 DEF CompleteClaim, Goto, KnowsNode
        <3>4. CASE /\ Goto(h, "existing_node") /\ pc[h] = "claim"
                   /\ req' = [req EXCEPT ![h].node_id = node_id[target(h)]]
            BY <2>1, <3>4 DEF Goto, KnowsNode, Request
        <3>5. CASE CompleteFinalize(h) \/ PersistLockUser(h) \/ PersistFails(h)
            BY <3>5 DEF CompleteFinalize, PersistLockUser, PersistFails, Goto, KnowsNode
        <3>6. CASE CompleteMark(h) \/ CompleteReopen(h)
            BY <3>1, <3>6 DEF CompleteMark, CompleteReopen, CompleteTransition
        <3> QED
            BY <1>5, <3>1, <3>2, <3>3, <3>4, <3>5, <3>6 DEF CompleteStep, CompleteClaim
    <2>7. \A g \in Handlers \ {h} :
              KnowsNode(g)' => KnowsNode(g) /\ req'[g].session = target(g)
        BY <2>1 DEF Flow, KnowsNode
    <2> QED
        BY <2>1, <2>4, <2>6, <2>7, NodeInvFrame
<1>6. CASE (\E s \in Sessions : Expire(s)) \/ (\E quota \in Quotas : SetQuota(quota))
    <2>1. UNCHANGED <<state, node_id, nodes, pc, req>>
        BY <1>6 DEF Expire, SetQuota, dbVars, handlerVars, userVars
    <2> QED
        BY <2>1, NodeInvFrame DEF KnowsNode
<1>7. CASE GcDelete
    <2>1. PICK s \in gcBatch : delete_if_expired(s)
        BY <1>7 DEF GcDelete
    <2>2. UNCHANGED <<pc, req, nodes>> /\ s \in Sessions
        BY <1>7 DEF GcDelete, handlerVars, userVars, TypeOK, CollectorTypes
    <2>3. CASE UNCHANGED <<state, node_id>>
        BY <2>2, <2>3, NodeInvFrame DEF KnowsNode
    <2>4. CASE /\ state' = [state EXCEPT ![s] = "deleted"]
               /\ node_id' = [node_id EXCEPT ![s] = 0]
        <3>1. \A t \in Sessions :
                 \/ state'[t] = "deleted" /\ node_id'[t] = 0
                 \/ state'[t] = state[t] /\ node_id'[t] = node_id[t]
            BY <2>4 DEF TypeOK, SessionTypes
        <3>2. \A g \in Handlers : KnowsNode(g)' => KnowsNode(g) /\ target(g) \in Sessions
            BY <1>0, <2>2 DEF KnowsNode
        <3>3. \A g \in Handlers : KnowsNode(g)' =>
                  node_id'[req'[g].session] # 0 \/ state'[req'[g].session] = "deleted"
            BY <2>2, <3>1, <3>2 DEF NodeInv
        <3>4. \A t \in Sessions : node_id'[t] <= nodes'[t]
            BY <2>2, <3>1 DEF NodeInv, TypeOK, OwnerTypes
        <3>5. CompletedHasNode'
            BY <2>2, <3>1 DEF NodeInv, CompletedHasNode
        <3> QED
            BY <3>3, <3>4, <3>5 DEF NodeInv
    <2> QED
        BY <2>1, <2>3, <2>4 DEF delete_if_expired
<1>8. CASE GcScan \/ GcUnlink
    <2>1. UNCHANGED <<state, node_id, nodes, pc, req>>
        BY <1>8 DEF GcScan, GcUnlink, dbVars, handlerVars, userVars
    <2> QED
        BY <2>1, NodeInvFrame DEF KnowsNode
<1>9. CASE Crash
    BY <1>9, NodeInvFrame DEF Crash, KnowsNode, dbVars
<1>10. CASE UNCHANGED vars
    BY <1>10, NodeInvFrame DEF vars, dbVars, userVars, handlerVars, KnowsNode
<1> QED
    BY <1>1, <1>2, <1>3, <1>4, <1>5, <1>6, <1>7, <1>8, <1>9, <1>10
    DEF Next, HandlerStep, GcNext

\* A completed session always points at a node.
THEOREM CompletionSafety == Spec => []CompletedHasNode
<1>1. Init => NodeInv
    BY DEF Init, NodeInv, KnowsNode, CompletedHasNode
<1>2. NodeInv => CompletedHasNode
    BY DEF NodeInv
<1> QED
    BY <1>1, <1>2, NodeInvNext, OwnerInvariant, PTL DEF Spec

(***************************************************************************)
(* WHAT NO STEP DOES TO A ROW                                              *)
(***************************************************************************)
\* Every way a row changes state: the commit of open, a guarded transition of
\* complete or abort, or the collector.
RowMove(s) ==
    \/ state[s] = "absent" /\ state'[s] = "open"
    \/ state[s] = "open" /\ state'[s] = "completing"
    \/ state[s] = "completing" /\ state'[s] \in {"open", "completed"}
    \/ state[s] \in {"open", "completing", "aborted"} /\ state'[s] = "aborted"
    \/ state[s] \in {"open", "aborted"} /\ state'[s] = "deleted"

\* An abort in flight has read a state other than "completed".
AbortSeen ==
    \A h \in Handlers : pc[h] = "abort_transition" =>
        req[h].state \in {"open", "completing", "aborted"}

RowLifeInv == TypeOK /\ RowInv /\ AbortSeen

\* The state an abort has read is only a local of its handler.
LEMMA AbortSeenNext == TypeOK /\ AbortSeen /\ [Next]_vars => AbortSeen'
<1> SUFFICES ASSUME TypeOK, AbortSeen, [Next]_vars PROVE AbortSeen'
    OBVIOUS
<1> USE DEF TypeOK, HandlerTypes, AbortSeen
<1>1. ASSUME NEW h \in Handlers, Arrival(h) PROVE AbortSeen'
    <2>1. \A g \in Handlers \ {h} : pc'[g] = pc[g] /\ req'[g] = req[g]
        BY <1>1 DEF Arrival, OpenReceive, PutReceive, CompleteReceive, AbortReceive,
                    PurgeReceive, Receive
    <2>2. pc'[h] = "abort_transition" => req'[h].state \in {"open", "completing", "aborted"}
        BY <1>1 DEF Arrival, OpenReceive, PutReceive, CompleteReceive, AbortReceive,
                    PurgeReceive, Receive,
                    SessionTypes, SessionStates, Present
    <2> QED
        BY <2>1, <2>2
<1>2. ASSUME NEW h \in Handlers, HandlerStep(h) \/ Drop(h) PROVE AbortSeen'
    <2>1. pc'[h] # "abort_transition" /\ \A g \in Handlers \ {h} : req'[g] = req[g]
        BY <1>2
        DEF HandlerStep, OpenStep, OpenLockUser, OpenSumReserved, OpenCreateSession,
            OpenRefused, PutStep, PutChunkSize, PutOpenPart, PutWritePart, PutWriteFails,
            PutRecordChunk, PutAddReceived, CompleteStep, CompleteCountChunks, CompleteClaim,
            CompleteExistingNode, CompleteFinalize, PersistLockUser, PersistCommit,
            PersistFails, CompleteMark, CompleteReopen, CompleteTransition, AbortStep,
            AbortTransition, AbortUnlink, PurgeStep, PurgeSelect, PurgeSum, PurgeCommit,
            PurgeUnlink, Drop, Return, Goto
    <2> QED
        BY <1>2, <2>1, StepFlow DEF Flow
<1>3. CASE (\E s \in Sessions : Expire(s)) \/ (\E quota \in Quotas : SetQuota(quota)) \/ GcNext
    BY <1>3 DEF Expire, SetQuota, GcNext, GcScan, GcDelete, GcUnlink, handlerVars
<1>4. CASE Crash
    BY <1>4 DEF Crash
<1>5. CASE UNCHANGED vars
    BY <1>5 DEF vars, handlerVars
<1> QED
    BY <1>1, <1>2, <1>3, <1>4, <1>5 DEF Next

\* No step changes the state of a row in any other way.
LEMMA RowMoves ==
    ASSUME RowLifeInv, Next
    PROVE  \A s \in Sessions : state'[s] # state[s] => RowMove(s)
<1> USE DEF RowLifeInv, TypeOK, SessionTypes
<1>0. \A g \in Handlers : pc[g] # "idle" => target(g) \in Sessions
    BY DEF HandlerTypes
<1>1. ASSUME NEW h \in Handlers, OpenCreateSession(h)
      PROVE  \A s \in Sessions : state'[s] # state[s] => RowMove(s)
    BY <1>0, <1>1 DEF OpenCreateSession, create_tx, RowInv, OpenIsFresh, OpenLabels, RowMove
<1>2. ASSUME NEW h \in Handlers, pc[h] # "idle",
             \/ transition_state(target(h), "open", "completing")
             \/ transition_state(target(h), "completing", "open")
             \/ transition_state(target(h), "completing", "completed")
      PROVE  \A s \in Sessions : state'[s] # state[s] => RowMove(s)
    BY <1>0, <1>2, TransitionEffect DEF RowMove
<1>3. ASSUME NEW h \in Handlers, AbortTransition(h)
      PROVE  \A s \in Sessions : state'[s] # state[s] => RowMove(s)
    <2>1. /\ target(h) \in Sessions
          /\ transition_state(target(h), req[h].state, "aborted")
          /\ req[h].state \in {"open", "completing", "aborted"}
        BY <1>0, <1>3 DEF AbortTransition, AbortSeen
    <2> QED
        BY <2>1, TransitionEffect DEF RowMove
<1>4. CASE GcDelete
    <2>1. PICK s \in gcBatch : delete_if_expired(s)
        BY <1>4 DEF GcDelete
    <2>2. \/ UNCHANGED state
          \/ state[s] \in {"open", "aborted"} /\ state' = [state EXCEPT ![s] = "deleted"]
        BY <2>1 DEF delete_if_expired, Reclaimable
    <2> QED
        BY <2>2 DEF RowMove
<1>5. ASSUME NEW h \in Handlers, HandlerStep(h), ~OpenCreateSession(h), ~AbortTransition(h)
      PROVE  \A s \in Sessions : state'[s] # state[s] => RowMove(s)
    <2>1. \/ UNCHANGED state
          \/ /\ pc[h] # "idle"
             /\ \/ transition_state(target(h), "open", "completing")
                \/ transition_state(target(h), "completing", "open")
                \/ transition_state(target(h), "completing", "completed")
        BY <1>5
        DEF HandlerStep, OpenStep, OpenLockUser, OpenSumReserved, PutStep, PutChunkSize,
            PutOpenPart, PutWritePart, PutWriteFails, PutRecordChunk, PutAddReceived,
            CompleteStep, CompleteCountChunks, CompleteClaim, CompleteExistingNode,
            CompleteFinalize, PersistLockUser, PersistCommit, PersistFails, CompleteMark,
            CompleteReopen, CompleteTransition, AbortStep, AbortUnlink, PurgeStep, PurgeSelect,
            PurgeSum, PurgeCommit, PurgeUnlink, dbVars
    <2> QED
        BY <1>2, <2>1
<1>6. ASSUME \/ \E h \in Handlers : Arrival(h) \/ Drop(h)
             \/ \E s \in Sessions : Expire(s)
             \/ \E quota \in Quotas : SetQuota(quota)
             \/ GcScan \/ GcUnlink \/ Crash
      PROVE  UNCHANGED state
    BY <1>6 DEF Arrival, OpenReceive, PutReceive, CompleteReceive, AbortReceive, PurgeReceive,
                Drop, Expire, SetQuota, GcScan, GcUnlink, Crash, dbVars
<1> QED
    BY <1>1, <1>3, <1>4, <1>5, <1>6 DEF Next, GcNext

\* The file the collector is about to unlink belongs to a deleted row.
CollectorInv == \A s \in Sessions : gcSession = s => state[s] = "deleted"

\* A deleted row does not come back while its file waits to be unlinked.
LEMMA CollectorInvNext == RowLifeInv /\ CollectorInv /\ [Next]_vars => CollectorInv'
<1> SUFFICES ASSUME RowLifeInv, CollectorInv, [Next]_vars PROVE CollectorInv'
    OBVIOUS
<1>1. \A s \in Sessions : state[s] = "deleted" => state'[s] = "deleted"
    <2>1. CASE Next
        BY <2>1, RowMoves DEF RowMove
    <2>2. CASE UNCHANGED vars
        BY <2>2 DEF vars, dbVars
    <2> QED
        BY <2>1, <2>2
<1>2. CASE UNCHANGED gcSession
    BY <1>1, <1>2 DEF CollectorInv
<1>3. CASE GcDelete
    <2>1. PICK s \in gcBatch : delete_if_expired(s) /\ s \in Sessions
        BY <1>3 DEF GcDelete, RowLifeInv, TypeOK, CollectorTypes
    <2>2. \/ UNCHANGED gcSession
          \/ gcSession' = s /\ state' = [state EXCEPT ![s] = "deleted"]
        BY <2>1 DEF delete_if_expired
    <2> QED
        BY <1>2, <2>1, <2>2 DEF CollectorInv, RowLifeInv, TypeOK, SessionTypes
<1>4. CASE GcUnlink \/ Crash
    BY <1>4 DEF GcUnlink, Crash, CollectorInv
<1>5. CASE \E h \in Handlers : Arrival(h) \/ HandlerStep(h) \/ Drop(h)
    <2>1. UNCHANGED gcSession
        BY <1>5
        DEF Arrival, OpenReceive, PutReceive, CompleteReceive, AbortReceive, PurgeReceive,
            HandlerStep, OpenStep, OpenLockUser, OpenSumReserved, OpenCreateSession, PutStep, PutChunkSize,
            PutOpenPart, PutWritePart, PutWriteFails, PutRecordChunk, PutAddReceived,
            CompleteStep, CompleteCountChunks, CompleteClaim, CompleteExistingNode,
            CompleteFinalize, PersistLockUser, PersistCommit, PersistFails, CompleteMark,
            CompleteReopen, CompleteTransition, AbortStep, AbortTransition, AbortUnlink,
            PurgeStep, PurgeSelect, PurgeSum, PurgeCommit, PurgeUnlink, Drop, gcVars
    <2> QED
        BY <1>2, <2>1
<1>6. CASE \/ \E s \in Sessions : Expire(s)
           \/ \E quota \in Quotas : SetQuota(quota)
           \/ GcScan \/ UNCHANGED vars
    BY <1>2, <1>6 DEF Expire, SetQuota, GcScan, gcVars, vars
<1> QED
    BY <1>3, <1>4, <1>5, <1>6 DEF Next, GcNext

\* The facts about the life of a row, and of the one the collector holds, hold in every
\* reachable state.
LEMMA RowLifeInvariant == Spec => [](RowLifeInv /\ CollectorInv)
<1>1. Init => RowLifeInv /\ CollectorInv
    BY InitType, RowInvInit DEF Init, AbortSeen, RowLifeInv, CollectorInv
<1>2. RowLifeInv /\ CollectorInv /\ [Next]_vars => RowLifeInv' /\ CollectorInv'
    BY NextType, RowInvNext, AbortSeenNext, CollectorInvNext DEF RowLifeInv
<1> QED
    BY <1>1, <1>2, PTL DEF Spec

\* "completed" and "deleted" are never left, "aborted" only for "deleted".
THEOREM TerminalSafety == Spec => TerminalStatesAreFinal
<1>1. RowLifeInv /\ [Next]_vars =>
        [\A s \in Sessions :
            /\ state[s] \in {"completed", "deleted"} => state'[s] = state[s]
            /\ state[s] = "aborted" => state'[s] \in {"aborted", "deleted"}]_vars
    BY RowMoves DEF RowMove
<1> QED
    BY <1>1, RowLifeInvariant, PTL DEF Spec, TerminalStatesAreFinal

\* The collector never deletes the row of a claimed or completed session, and the
\* file it goes on to unlink belongs to a row it has just deleted.
THEOREM CollectorSafety == Spec => CollectorSparesClaimed
<1>1. RowLifeInv /\ [Next]_vars /\ CollectorInv' =>
        [\A s \in Sessions :
            /\ state[s] \in {"completing", "completed"} => state'[s] # "deleted"
            /\ gcSession' = s => state'[s] = "deleted"]_vars
    BY RowMoves DEF RowMove, CollectorInv
<1> QED
    BY <1>1, RowLifeInvariant, PTL DEF Spec, CollectorSparesClaimed


(***************************************************************************)
(* ONE REQUEST AT A TIME                                                   *)
(***************************************************************************)
\* A client that waits for every answer before it sends the next request.
Serial == \A g, h \in Handlers : g = h

\* Where the session of a request stands while the request is in flight.  Only the
\* collector moves it meanwhile, and it moves it to "deleted".
CourseOf(h) ==
    LET s == target(h)
        r == req[h]
    IN /\ pc[h] \in PutLabels => state[s] \in {"open", "deleted"}
       /\ pc[h] \in {"count_chunks", "claim"} =>
             \/ r.state = "open" /\ state[s] \in {"open", "deleted"}
             \/ r.state = "completing" /\ state[s] = "completing" /\ r.node_id = node_id[s]
       /\ pc[h] \in MaterializeLabels \cup {"mark_completed", "reopen"} =>
             state[s] = "completing"
       /\ pc[h] = "existing_node" => r.node_id = node_id[s]
       /\ pc[h] \in {"finalize", "lock_persist", "persist", "unlink_blobs"} => LiveNodes(s) = {}
       /\ pc[h] = "abort_transition" => state[s] \in {r.state, "deleted"}
       /\ pc[h] = "abort_unlink" => state[s] \in {"aborted", "deleted"}
       /\ pc[h] \in {"select_blobs", "sum_freed", "delete_nodes"} => r.node_id \in LiveNodes(s)
       /\ pc[h] = "delete_nodes" => r.size = declared_size[s]

\* Of the nodes of a session none but the last is live, and node_id is its number as
\* long as the row is there.
RowCourse(s) ==
    /\ purged[s] \subseteq 1 .. nodes[s]
    /\ \A n \in LiveNodes(s) : n = nodes[s]
    /\ state[s] # "deleted" => node_id[s] = nodes[s]

Course == (\A h \in Handlers : CourseOf(h)) /\ (\A s \in Sessions : RowCourse(s))

CourseInv == RowLifeInv /\ Course

\* An idle request is on no course.
LEMMA IdleCourse == \A h \in Handlers : pc[h] = "idle" => CourseOf(h)
BY DEF CourseOf, PutLabels, MaterializeLabels

\* A row that keeps its nodes keeps to its course.
LEMMA RowFrame ==
    ASSUME NEW s \in Sessions, RowCourse(s), node_id'[s] = node_id[s], nodes'[s] = nodes[s],
           purged'[s] = purged[s], state[s] = "deleted" => state'[s] = "deleted"
    PROVE  RowCourse(s)'
BY DEF RowCourse, LiveNodes

\* A request that arrives has just read the row, or the node.
LEMMA ArrivalCourse ==
    ASSUME CourseInv, NEW h \in Handlers, Arrival(h) PROVE CourseOf(h)'
<1> USE DEF TypeOK, HandlerTypes, CourseInv, RowLifeInv
<1>1. PICK s \in Sessions :
        \/ \E declared \in DeclaredSizes : OpenReceive(h, s, declared)
        \/ \E index \in 0 .. chunk_count(s) - 1 :
              \E size \in ChunkSizes(s, index) : PutReceive(h, s, index, size)
        \/ CompleteReceive(h, s)
        \/ AbortReceive(h, s)
        \/ \E n \in LiveNodes(s) : PurgeReceive(h, s, n)
    BY DEF Arrival
<1>2. UNCHANGED <<dbVars, nodes, purged>>
    BY <1>1 DEF OpenReceive, PutReceive, CompleteReceive, AbortReceive, PurgeReceive, userVars
<1>3. CASE \E declared \in DeclaredSizes : OpenReceive(h, s, declared)
    BY <1>3 DEF OpenReceive, CourseOf, PutLabels, MaterializeLabels
<1>4. CASE \E index, size : PutReceive(h, s, index, size)
    BY <1>2, <1>4
    DEF PutReceive, Receive, active_session, CourseOf, PutLabels, MaterializeLabels, dbVars
<1>5. CASE CompleteReceive(h, s)
    BY <1>2, <1>5 DEF CompleteReceive, Receive, CourseOf, PutLabels, MaterializeLabels, dbVars
<1>6. CASE AbortReceive(h, s)
    BY <1>2, <1>6 DEF AbortReceive, Receive, CourseOf, PutLabels, MaterializeLabels, dbVars
<1>7. ASSUME NEW n \in LiveNodes(s), PurgeReceive(h, s, n) PROVE CourseOf(h)'
    <2> DEFINE r == [Unread(s, 0) EXCEPT !.node_id = n]
    <2>1. r.session = s /\ r.node_id = n
        BY DEF Unread
    <2>2. req'[h] = r /\ pc'[h] = "select_blobs" /\ LiveNodes(s)' = LiveNodes(s)
        BY <1>2, <1>7 DEF PurgeReceive, LiveNodes
    <2> HIDE DEF r
    <2> QED
        BY <2>1, <2>2 DEF CourseOf, PutLabels, MaterializeLabels
<1> QED
    BY <1>1, <1>3, <1>4, <1>5, <1>6, <1>7

\* A request that goes on in the same operation, while no row and no node moves, is on
\* the course of its next label.
LEMMA GotoCourse ==
    ASSUME CourseInv, NEW h \in Handlers, CourseOf(h), UNCHANGED <<state, declared_size, node_id>>,
           UNCHANGED <<nodes, purged>>, pc[h] # "idle", req'[h] = req[h],
           \/ pc[h] \in PutLabels /\ pc'[h] \in PutLabels
           \/ pc[h] = "count_chunks" /\ pc'[h] = "claim"
           \/ pc[h] \in MaterializeLabels /\ pc'[h] \in {"mark_completed", "reopen"}
           \/ /\ pc[h] \in {"finalize", "lock_persist", "persist"}
              /\ pc'[h] \in {"finalize", "lock_persist", "persist"}
           \/ pc[h] = "select_blobs" /\ pc'[h] = "sum_freed"
    PROVE  CourseOf(h)'
<1>1. target(h) \in Sessions
    BY DEF CourseInv, RowLifeInv, TypeOK, HandlerTypes
<1>2. LiveNodes(target(h))' = LiveNodes(target(h))
    BY DEF LiveNodes
<1> QED
    BY <1>1, <1>2 DEF CourseOf, PutLabels, MaterializeLabels

\* A step of complete stays on its course, and leaves the row on its own.
LEMMA CompleteCourse ==
    ASSUME CourseInv, NEW h \in Handlers, CompleteStep(h), pc'[h] # "idle"
    PROVE  CourseOf(h)' /\ \A s \in Sessions : RowCourse(s)'
<1> USE DEF TypeOK, HandlerTypes, CourseInv, RowLifeInv, Course
<1> DEFINE s == target(h)
<1>0. /\ pc[h] # "idle" /\ s \in Sessions /\ CourseOf(h) /\ RowCourse(s) /\ UNCHANGED purged
    BY DEF CompleteStep, CompleteCountChunks, CompleteClaim, CompleteExistingNode,
           CompleteFinalize, PersistLockUser, PersistCommit, PersistFails, CompleteMark,
           CompleteReopen, CompleteTransition, userVars
<1>1. CASE CompleteCountChunks(h) \/ CompleteFinalize(h) \/ PersistLockUser(h) \/ PersistFails(h)
    <2>1. UNCHANGED <<state, declared_size, node_id, nodes>>
        BY <1>1 DEF CompleteCountChunks, CompleteFinalize, PersistLockUser, PersistFails,
                    dbVars, userVars
    <2>2. /\ req'[h] = req[h]
          /\ \/ pc[h] = "count_chunks" /\ pc'[h] = "claim"
             \/ pc[h] \in MaterializeLabels /\ pc'[h] = "reopen"
             \/ /\ pc[h] \in {"finalize", "lock_persist", "persist"}
                /\ pc'[h] \in {"finalize", "lock_persist", "persist"}
        BY <1>1 DEF CompleteCountChunks, CompleteFinalize, PersistLockUser, PersistFails,
                    Goto, Return, MaterializeLabels
    <2> QED
        BY <1>0, <2>1, <2>2, GotoCourse, RowFrame
<1>2. CASE CompleteExistingNode(h)
    <2>1. UNCHANGED <<state, declared_size, node_id, nodes, req>> /\ pc[h] = "existing_node"
        BY <1>2 DEF CompleteExistingNode, dbVars, userVars
    <2>2. /\ req[h].node_id = node_id[s] /\ state[s] = "completing" /\ node_id[s] = nodes[s]
        BY <1>0, <2>1 DEF CourseOf, RowCourse, MaterializeLabels
    <2>3. \/ pc'[h] \in {"mark_completed", "reopen"}
          \/ pc'[h] = "finalize" /\ ~existing_node(h)
        BY <1>2 DEF CompleteExistingNode, Goto
    <2>4. CASE pc'[h] \in {"mark_completed", "reopen"}
        BY <1>0, <2>1, <2>4, GotoCourse, RowFrame DEF MaterializeLabels
    <2>5. CASE pc'[h] = "finalize" /\ ~existing_node(h)
        <3>1. LiveNodes(s) = {}
            BY <1>0, <2>2, <2>5 DEF existing_node, RowCourse
        <3>2. LiveNodes(s)' = {}
            BY <1>0, <2>1, <3>1 DEF LiveNodes
        <3>3. CourseOf(h)'
            BY <2>1, <2>2, <2>5, <3>2 DEF CourseOf, PutLabels, MaterializeLabels
        <3> QED
            BY <1>0, <2>1, <3>3, RowFrame
    <2> QED
        BY <2>3, <2>4, <2>5
<1>3. CASE CompleteClaim(h)
    <2>1. pc[h] = "claim" /\ UNCHANGED <<node_id, nodes>>
        BY <1>3 DEF CompleteClaim, userVars
    <2>2. CASE /\ req[h].state = "completing"
               /\ Goto(h, "existing_node") /\ UNCHANGED <<state, req>>
        BY <1>0, <2>1, <2>2, RowFrame DEF Goto, CourseOf, PutLabels, MaterializeLabels
    <2>3. CASE /\ transitions(s, "open") /\ transition_state(s, "open", "completing")
               /\ Goto(h, "existing_node")
               /\ req' = [req EXCEPT ![h].node_id = node_id[s]]
        <3>1. \A t \in Sessions : state'[t] = IF t = s THEN "completing" ELSE state[t]
            BY <1>0, <2>1, <2>3 DEF transitions, transition_state, SessionTypes
        <3>2. /\ pc'[h] = "existing_node" /\ req'[h].session = s
              /\ req'[h].node_id = node_id[s] /\ state[s] = "open"
            BY <2>3 DEF Goto, Request, transitions
        <3>3. CourseOf(h)'
            BY <1>0, <2>1, <3>1, <3>2 DEF CourseOf, PutLabels, MaterializeLabels
        <3> QED
            BY <1>0, <2>1, <3>1, <3>2, <3>3, RowFrame
    <2> QED
        BY <1>3, <2>2, <2>3 DEF CompleteClaim, Return
<1>4. CASE PersistCommit(h)
    <2>1. /\ pc[h] = "persist" /\ state[s] = "completing" /\ LiveNodes(s) = {}
          /\ nodes[s] \in Nat
        BY <1>0, <1>4 DEF PersistCommit, CourseOf, MaterializeLabels, OwnerTypes
    <2>2. /\ UNCHANGED <<state, req>> /\ pc'[h] = "mark_completed"
          /\ \A t \in Sessions :
                /\ nodes'[t] = IF t = s THEN nodes[s] + 1 ELSE nodes[t]
                /\ node_id'[t] = IF t = s THEN nodes[s] + 1 ELSE node_id[t]
        BY <1>0, <1>4, <2>1
        DEF PersistCommit, Goto, set_node_tx, Present, SessionTypes, OwnerTypes
    <2>3. CourseOf(h)'
        BY <2>1, <2>2 DEF CourseOf, PutLabels, MaterializeLabels
    <2>4. /\ purged'[s] \subseteq 1 .. nodes'[s]
          /\ \A n \in LiveNodes(s)' : n = nodes'[s]
        BY <1>0, <2>1, <2>2 DEF RowCourse, LiveNodes
    <2>5. \A t \in Sessions : t = s => RowCourse(t)'
        BY <2>2, <2>4 DEF RowCourse
    <2>6. \A t \in Sessions : t # s => RowCourse(t)'
        BY <1>0, <2>2, RowFrame
    <2> QED
        BY <2>3, <2>5, <2>6
<1> QED
    BY <1>1, <1>2, <1>3, <1>4
    DEF CompleteStep, CompleteMark, CompleteReopen, CompleteTransition, Return

\* A purge goes through the node it has read.
LEMMA PurgeCourse ==
    ASSUME CourseInv, NEW h \in Handlers, PurgeStep(h), pc'[h] # "idle"
    PROVE  CourseOf(h)' /\ \A s \in Sessions : RowCourse(s)'
<1> USE DEF TypeOK, HandlerTypes, CourseInv, RowLifeInv, Course
<1> DEFINE s == target(h)
<1>0. /\ pc[h] # "idle" /\ s \in Sessions /\ CourseOf(h) /\ RowCourse(s)
      /\ UNCHANGED <<state, declared_size, node_id, nodes>>
    BY DEF PurgeStep, PurgeSelect, PurgeSum, PurgeCommit, PurgeUnlink, dbVars, userVars
<1>1. CASE PurgeSelect(h)
    <2>1. /\ pc[h] = "select_blobs" /\ pc'[h] = "sum_freed" /\ req'[h] = req[h]
          /\ UNCHANGED purged
        BY <1>1 DEF PurgeSelect, Goto, Return, userVars
    <2> QED
        BY <1>0, <2>1, GotoCourse, RowFrame
<1>2. CASE PurgeSum(h)
    <2>1. req[h].node_id \in LiveNodes(s)
        BY <1>0, <1>2 DEF PurgeSum, CourseOf
    <2>2. /\ pc'[h] = "delete_nodes" /\ UNCHANGED purged
          /\ req' = [req EXCEPT ![h].size = declared_size[s]]
        BY <1>2, <2>1 DEF PurgeSum, purged_live, Goto, userVars
    <2>3. req'[h].session = s /\ req'[h].node_id = req[h].node_id
          /\ req'[h].size = declared_size[s] /\ LiveNodes(s)' = LiveNodes(s)
        BY <1>0, <2>2 DEF Request, LiveNodes
    <2>4. CourseOf(h)'
        BY <1>0, <2>1, <2>2, <2>3 DEF CourseOf, PutLabels, MaterializeLabels
    <2> QED
        BY <1>0, <2>2, <2>4, RowFrame
<1>3. CASE PurgeCommit(h)
    <2>1. req[h].node_id \in LiveNodes(s)
        BY <1>0, <1>3 DEF PurgeCommit, CourseOf
    <2>2. /\ pc'[h] = "unlink_blobs" /\ req'[h] = req[h]
          /\ \A t \in Sessions :
                purged'[t] = IF t = s THEN purged[s] \cup {req[h].node_id} ELSE purged[t]
        BY <1>0, <1>3 DEF PurgeCommit, Goto, OwnerTypes
    <2>3. LiveNodes(s)' = {}
        BY <1>0, <2>1, <2>2 DEF RowCourse, LiveNodes
    <2>4. CourseOf(h)'
        BY <2>2, <2>3 DEF CourseOf, PutLabels, MaterializeLabels
    <2>5. \A t \in Sessions : t = s => RowCourse(t)'
        BY <1>0, <2>1, <2>2, <2>3 DEF RowCourse, LiveNodes
    <2>6. \A t \in Sessions : t # s => RowCourse(t)'
        BY <1>0, <2>2, RowFrame
    <2> QED
        BY <2>4, <2>5, <2>6
<1> QED
    BY <1>1, <1>2, <1>3 DEF PurgeStep, PurgeUnlink

\* A request in flight stays on its course, and keeps the row of its session on its own.
LEMMA StepCourse ==
    ASSUME CourseInv, NEW h \in Handlers, HandlerStep(h) \/ Drop(h)
    PROVE  CourseOf(h)' /\ \A s \in Sessions : RowCourse(s)'
<1> USE DEF TypeOK, HandlerTypes, CourseInv, RowLifeInv, Course
<1> DEFINE s == target(h)
<1>0. /\ pc[h] # "idle" => s \in Sessions
      /\ CourseOf(h) /\ s \in Sessions => RowCourse(s)
    OBVIOUS
<1>1. ASSUME pc'[h] = "idle", UNCHANGED <<node_id, nodes, purged>>,
             \A t \in Sessions : state[t] = "deleted" => state'[t] = "deleted"
      PROVE  CourseOf(h)' /\ \A t \in Sessions : RowCourse(t)'
    BY <1>1, RowFrame DEF CourseOf, PutLabels, MaterializeLabels
<1>2. CASE OpenStep(h)
    <2>1. UNCHANGED <<node_id, nodes, purged>>
        BY <1>2 DEF OpenStep, OpenLockUser, OpenSumReserved, OpenCreateSession, OpenRefused,
                    dbVars, userVars
    <2>2. \A t \in Sessions : state[t] = "deleted" => state'[t] = "deleted"
        BY <1>0, <1>2
        DEF OpenStep, OpenLockUser, OpenSumReserved, OpenCreateSession, create_tx, RowInv,
            OpenIsFresh, OpenLabels, SessionTypes, dbVars
    <2>3. pc'[h] \in {"sum_reserved", "create_session", "idle"}
        BY <1>2 DEF OpenStep, OpenLockUser, OpenSumReserved, OpenCreateSession, OpenRefused,
                    Return, Goto
    <2> QED
        BY <2>1, <2>2, <2>3, RowFrame DEF CourseOf, PutLabels, MaterializeLabels
<1>3. CASE PutStep(h)
    <2>1. UNCHANGED <<state, declared_size, node_id, nodes, purged>>
        BY <1>3
        DEF PutStep, PutChunkSize, PutOpenPart, PutWritePart, PutWriteFails, PutRecordChunk,
            PutAddReceived, dbVars, userVars
    <2>2. pc[h] \in PutLabels /\ pc'[h] \in PutLabels \cup {"idle"}
        BY <1>3
        DEF PutStep, PutChunkSize, PutOpenPart, PutWritePart, PutWriteFails, PutRecordChunk,
            PutAddReceived, Return, Goto, PutLabels
    <2>3. pc'[h] # "idle" => req'[h].session = s
        BY <1>3, StepFlow DEF HandlerStep, Flow
    <2>4. CourseOf(h)'
        BY <1>0, <2>1, <2>2, <2>3 DEF CourseOf, PutLabels, MaterializeLabels
    <2> QED
        BY <2>1, <2>4, RowFrame
<1>4. CASE CompleteStep(h) /\ pc'[h] = "idle"
    <2>1. UNCHANGED <<node_id, nodes, purged>>
        BY <1>4 DEF CompleteStep, CompleteCountChunks, CompleteClaim, CompleteExistingNode,
                    CompleteFinalize, PersistLockUser, PersistCommit, PersistFails,
                    CompleteMark, CompleteReopen, CompleteTransition, Goto, dbVars, userVars
    <2>2. \/ UNCHANGED state
          \/ \E from, to : s \in Sessions /\ transition_state(s, from, to)
        BY <1>0, <1>4
        DEF CompleteStep, CompleteCountChunks, CompleteClaim, CompleteExistingNode,
            CompleteFinalize, PersistLockUser, PersistCommit, PersistFails,
            CompleteMark, CompleteReopen, CompleteTransition, dbVars
    <2> QED
        BY <1>1, <1>4, <2>1, <2>2, TransitionEffect
<1>5. CASE AbortTransition(h)
    <2>1. /\ pc[h] = "abort_transition" /\ pc'[h] = "abort_unlink"
          /\ UNCHANGED <<req, node_id, nodes, purged>>
          /\ transition_state(s, req[h].state, "aborted")
          /\ req[h].state \in {"open", "completing", "aborted"}
        BY <1>5 DEF AbortTransition, Goto, AbortSeen, userVars
    <2>2. state[s] \in {req[h].state, "deleted"}
        BY <1>0, <2>1 DEF CourseOf
    <2>3. /\ state'[s] \in {"aborted", "deleted"}
          /\ \A t \in Sessions : state[t] = "deleted" => state'[t] = "deleted"
        BY <1>0, <2>1, <2>2 DEF transition_state, Present, SessionTypes
    <2>4. CourseOf(h)'
        BY <2>1, <2>3 DEF CourseOf, PutLabels, MaterializeLabels
    <2> QED
        BY <2>1, <2>3, <2>4, RowFrame
<1>6. CASE AbortUnlink(h) \/ Drop(h) \/ (PurgeStep(h) /\ pc'[h] = "idle")
    BY <1>1, <1>6 DEF AbortUnlink, PurgeStep, PurgeSelect, PurgeSum, PurgeCommit, PurgeUnlink,
                      Drop, Return, Goto, dbVars, userVars
<1> QED
    BY <1>2, <1>3, <1>4, <1>5, <1>6, CompleteCourse, PurgeCourse DEF HandlerStep, AbortStep

\* What goes on beside the requests leaves their course alone: the collector takes
\* open and aborted sessions only.
LEMMA BesideCourse ==
    ASSUME CourseInv, UNCHANGED <<pc, req, nodes, purged, declared_size>>,
           \A s \in Sessions :
              \/ state'[s] = state[s] /\ node_id'[s] = node_id[s]
              \/ state[s] \in {"open", "aborted"} /\ state'[s] = "deleted"
    PROVE  Course'
<1> USE DEF TypeOK, HandlerTypes, CourseInv, RowLifeInv, Course
<1>0. \A s \in Sessions : LiveNodes(s)' = LiveNodes(s)
    BY DEF LiveNodes
<1>1. ASSUME NEW h \in Handlers PROVE CourseOf(h)'
    <2>1. CASE pc[h] = "idle"
        BY <2>1 DEF CourseOf, PutLabels, MaterializeLabels
    <2>2. CASE pc[h] # "idle"
        BY <1>0, <2>2 DEF CourseOf, PutLabels, MaterializeLabels, AbortSeen
    <2> QED
        BY <2>1, <2>2
<1>2. \A s \in Sessions : RowCourse(s)'
    BY <1>0 DEF RowCourse
<1> QED
    BY <1>1, <1>2

\* One request at a time, whatever fails, keeps every session on its course.
LEMMA CourseNext ==
    ASSUME Serial PROVE CourseInv /\ [Next]_vars => Course'
<1> SUFFICES ASSUME CourseInv, [Next]_vars PROVE Course'
    OBVIOUS
<1>1. ASSUME NEW h \in Handlers, Arrival(h) PROVE Course'
    <2>1. UNCHANGED <<state, node_id, nodes, purged>>
        BY <1>1 DEF Arrival, OpenReceive, PutReceive, CompleteReceive, AbortReceive,
                    PurgeReceive, dbVars, userVars
    <2>2. \A s \in Sessions : RowCourse(s)'
        BY <2>1, RowFrame DEF CourseInv, Course
    <2> QED
        BY <1>1, <2>2, ArrivalCourse DEF Serial, Course
<1>2. ASSUME NEW h \in Handlers, HandlerStep(h) \/ Drop(h) PROVE Course'
    BY <1>2, StepCourse DEF Serial, Course
<1>3. CASE (\E s \in Sessions : Expire(s)) \/ (\E quota \in Quotas : SetQuota(quota))
           \/ GcScan \/ GcUnlink \/ UNCHANGED vars
    <2>1. UNCHANGED <<pc, req, nodes, purged, declared_size, state, node_id>>
        BY <1>3 DEF Expire, SetQuota, GcScan, GcUnlink, vars, dbVars, userVars, handlerVars
    <2> QED
        BY <2>1, BesideCourse
<1>4. CASE GcDelete
    <2>1. PICK s \in gcBatch : delete_if_expired(s)
        BY <1>4 DEF GcDelete
    <2>2. UNCHANGED <<pc, req, nodes, purged, declared_size>>
        BY <1>4 DEF GcDelete, userVars, handlerVars
    <2>3. \A t \in Sessions :
              \/ state'[t] = state[t] /\ node_id'[t] = node_id[t]
              \/ state[t] \in {"open", "aborted"} /\ state'[t] = "deleted"
        BY <2>1 DEF delete_if_expired, Reclaimable, CourseInv, RowLifeInv, TypeOK, SessionTypes
    <2> QED
        BY <2>2, <2>3, BesideCourse
<1>5. CASE Crash
    <2>1. UNCHANGED <<state, node_id, nodes, purged>> /\ \A h \in Handlers : pc'[h] = "idle"
        BY <1>5 DEF Crash, dbVars
    <2>2. \A s \in Sessions : RowCourse(s)'
        BY <2>1, RowFrame DEF CourseInv, Course
    <2>3. \A h \in Handlers : CourseOf(h)'
        BY <2>1 DEF CourseOf, PutLabels, MaterializeLabels
    <2> QED
        BY <2>2, <2>3 DEF Course
<1> QED
    BY <1>1, <1>2, <1>3, <1>4, <1>5 DEF Next, GcNext

\* With one request at a time, sessions and requests keep to their course.
LEMMA CourseInvariant == ASSUME Serial PROVE Spec => []CourseInv
<1>1. Init => CourseInv
    BY InitType, RowInvInit
    DEF Init, AbortSeen, RowLifeInv, CourseInv, Course, CourseOf, RowCourse, LiveNodes,
        PutLabels, MaterializeLabels
<1>2. CourseInv /\ [Next]_vars => CourseInv'
    BY NextType, RowInvNext, AbortSeenNext, CourseNext DEF CourseInv, RowLifeInv
<1> QED
    BY <1>1, <1>2, PTL DEF Spec

\* However often a client that waits for its answers retries complete, whatever fails in
\* between and whatever it purges, a session never has two nodes at once.
THEOREM OneNode == ASSUME Serial PROVE Spec => []OneNodeAtATime
<1>1. CourseInv => OneNodeAtATime
    BY DEF CourseInv, Course, RowCourse, OneNodeAtATime
<1> QED
    BY <1>1, CourseInvariant, PTL

\* The file at storage_key is there for every node, and for a node about to be made.
Linked ==
    /\ NodeHasBlob
    /\ \A h \in Handlers : pc[h] \in {"lock_persist", "persist"} => blob[target(h)].linked

\* A purge unlinks the file when no node is left, and nobody makes one meanwhile.
LEMMA LinkedNext ==
    ASSUME Serial PROVE CourseInv /\ Linked /\ [Next]_vars => Linked'
<1> SUFFICES ASSUME CourseInv, Linked, [Next]_vars PROVE Linked'
    OBVIOUS
<1> USE DEF CourseInv, RowLifeInv
<1>1. ASSUME NEW h \in Handlers, PurgeUnlink(h)
      PROVE  /\ pc'[h] = "idle"
             /\ \A s \in Sessions : s = target(h) => LiveNodes(s)' = {}
    <2>1. pc[h] = "unlink_blobs" /\ pc'[h] = "idle" /\ UNCHANGED <<nodes, purged>>
        BY <1>1 DEF PurgeUnlink, TypeOK, HandlerTypes, userVars
    <2> QED
        BY <2>1 DEF Course, CourseOf, LiveNodes
<1>2. ASSUME NEW s \in Sessions, LiveNodes(s)' # {} PROVE blob[s].linked
    <2>1. ASSUME NEW h \in Handlers, PersistCommit(h), target(h) = s PROVE blob[s].linked
        BY <2>1 DEF PersistCommit, Linked
    <2>2. ASSUME NEW h \in Handlers, PurgeCommit(h), target(h) = s
          PROVE  LiveNodes(s)' \subseteq LiveNodes(s)
        BY <2>2 DEF PurgeCommit, LiveNodes, TypeOK, OwnerTypes
    <2>3. nodes'[s] = nodes[s] /\ purged'[s] = purged[s] => LiveNodes(s)' = LiveNodes(s)
        BY DEF LiveNodes
    <2>4. ASSUME NEW h \in Handlers, PurgeCommit(h) PROVE UNCHANGED nodes
        BY <2>4 DEF PurgeCommit
    <2> QED
        BY <1>2, <2>1, <2>2, <2>3, NodesMove DEF Linked, NodeHasBlob
<1>3. ASSUME NEW s \in Sessions, LiveNodes(s)' # {} PROVE blob'[s].linked
    BY <1>1, <1>2, <1>3, BlobStays
<1>4. ASSUME NEW h \in Handlers, pc'[h] \in {"lock_persist", "persist"}
      PROVE  blob'[req'[h].session].linked
    <2>1. \A g \in Handlers : ~PurgeUnlink(g)
        BY <1>1, <1>4 DEF Serial
    <2> QED
        BY <1>4, <2>1, BlobSeen, BlobStays DEF Linked
<1> QED
    BY <1>3, <1>4 DEF Linked, NodeHasBlob

\* For a client that waits for its answers no node is ever without its file, whatever
\* fails, and whatever it purges and completes again.
THEOREM NodesHaveBlobs == ASSUME Serial PROVE Spec => []NodeHasBlob
<1>1. Init => Linked
    BY DEF Init, Linked, NodeHasBlob, LiveNodes
<1>2. Linked => NodeHasBlob
    BY DEF Linked
<1> QED
    BY <1>1, <1>2, LinkedNext, CourseInvariant, PTL DEF Spec

(***************************************************************************)
(* RESERVATIONS                                                            *)
(***************************************************************************)
\* The sessions that are charged for their node, and those that hold what they reserved.
Charged == {s \in Sessions : LiveNodes(s) # {}}
Held == {s \in Sessions : state[s] \in {"open", "completing"} /\ LiveNodes(s) = {}}

\* used_bytes is what the live nodes add up to; it fits beside what is held, and so does
\* the session about to be created.
Room ==
    /\ used_bytes = Sum(declared_size, Charged)
    /\ used_bytes + Sum(declared_size, Held) <= quota_bytes
    /\ \A h \in Handlers : pc[h] = "create_session" =>
          req[h].size + used_bytes + Sum(declared_size, Held) <= quota_bytes

\* Sums over sessions are sums over finite sets of natural numbers.
LEMMA SessionSums ==
    ASSUME TypeOK, NEW S \in SUBSET Sessions
    PROVE  /\ IsFiniteSet(S) /\ \A s \in S : declared_size[s] \in Nat
           /\ Sum(declared_size, S) \in Nat
<1>1. IsFiniteSet(S)
    <2>1. IsFiniteSet(1 .. NumSessions)
        BY FS_Interval, SessionsAssumption
    <2> QED
        BY <2>1, FS_Subset
<1>2. \A s \in S : declared_size[s] \in Nat
    BY DEF TypeOK, SessionTypes
<1> QED
    BY <1>1, <1>2, SumNat

\* Sessions that stop to hold their reservation leave room.
LEMMA RoomFrame ==
    ASSUME TypeOK, Room, Held' \subseteq Held, Charged' = Charged,
           UNCHANGED <<used_bytes, quota_bytes, declared_size>>,
           \A h \in Handlers : pc'[h] = "create_session" =>
              \/ pc[h] = "create_session" /\ req'[h] = req[h]
              \/ req'[h].size + used_bytes + Sum(declared_size, Held) <= quota_bytes,
           \A h \in Handlers : pc'[h] = "create_session" => req'[h].size \in Nat
    PROVE  Room'
<1>1. Held \subseteq Sessions /\ used_bytes \in Nat /\ quota_bytes \in Nat
    BY DEF Held, TypeOK, OwnerTypes
<1>2. /\ Sum(declared_size, Held) \in Nat /\ Sum(declared_size, Held') \in Nat
      /\ Sum(declared_size, Held') <= Sum(declared_size, Held)
    BY <1>1, SessionSums, SumSubset
<1>3. /\ Sum(declared_size, Held)' = Sum(declared_size, Held')
      /\ Sum(declared_size, Charged)' = Sum(declared_size, Charged)
    BY DEF Sum, SumsUp, Pick
<1> QED
    BY <1>1, <1>2, <1>3 DEF Room

\* What remains of the quota is a number.
LEMMA RemainingType == TypeOK => remaining \in Int
<1> SUFFICES ASSUME TypeOK PROVE remaining \in Int
    OBVIOUS
<1>1. sum_reserved_active \in Nat
    BY MapThenSum, SessionSums DEF sum_reserved_active
<1> QED
    BY <1>1, MaxWithZero DEF remaining, TypeOK, OwnerTypes

\* The check of open: what it lets through fits beside everything that is held.
LEMMA OpenLeavesRoom ==
    ASSUME TypeOK, Room, NEW size \in Nat, size <= remaining
    PROVE  size + used_bytes + Sum(declared_size, Held) <= quota_bytes
<1> DEFINE Active == {s \in Sessions : state[s] \in {"open", "completing"}}
           A == Sum(declared_size, Active)
<1>1. Active \subseteq Sessions /\ Held \subseteq Active
    BY DEF Held
<1>2. sum_reserved_active = A
    BY MapThenSum DEF sum_reserved_active
<1> HIDE DEF Active
<1>3. A \in Nat /\ Sum(declared_size, Held) \in Nat /\ Sum(declared_size, Held) <= A
    <2>1. Held \subseteq Sessions
        BY <1>1
    <2> QED
        BY <1>1, <2>1, SessionSums, SumSubset
<1>4. used_bytes \in Nat /\ quota_bytes \in Nat
    BY DEF TypeOK, OwnerTypes
<1> HIDE DEF A
<1>5. remaining = IF quota_bytes - used_bytes - A >= 0 THEN quota_bytes - used_bytes - A ELSE 0
    BY <1>2, <1>3, <1>4, MaxWithZero DEF remaining
<1> QED
    BY <1>3, <1>4, <1>5 DEF Room

\* A session that is created holds what it asked for.
LEMMA CreateTakesRoom ==
    ASSUME Serial, CourseInv, Room, NEW h \in Handlers, OpenCreateSession(h)
    PROVE  Room'
<1> USE DEF CourseInv, RowLifeInv, TypeOK
<1> DEFINE s == target(h)
           n == req[h].size
<1>1. /\ s \in Sessions /\ state[s] = "absent" /\ n \in Nat
      /\ n + used_bytes + Sum(declared_size, Held) <= quota_bytes
    BY DEF OpenCreateSession, HandlerTypes, Request, RowInv, OpenIsFresh, OpenLabels, Room
<1>2. /\ declared_size' = [declared_size EXCEPT ![s] = n]
      /\ state' = [state EXCEPT ![s] = "open"]
      /\ UNCHANGED <<used_bytes, quota_bytes, nodes, purged>>
    BY DEF OpenCreateSession, create_tx
<1>3. \A g \in Handlers : pc'[g] # "create_session"
    BY DEF OpenCreateSession, Serial, Return, HandlerTypes
<1>4. LiveNodes(s) = {} /\ \A t \in Sessions : LiveNodes(t)' = LiveNodes(t)
    BY <1>1, <1>2, LiveTypes DEF RowInv, RowOfNode, LiveNodes
<1>5. /\ Held' = Held \cup {s} /\ s \notin Held /\ Held \subseteq Sessions
      /\ Charged' = Charged /\ s \notin Charged /\ Charged \subseteq Sessions
    BY <1>1, <1>2, <1>4 DEF Held, Charged, SessionTypes
<1>6. /\ IsFiniteSet(Held) /\ IsFiniteSet(Held \cup {s}) /\ IsFiniteSet(Charged)
      /\ \A t \in Held \cup Charged : declared_size[t] \in Nat
      /\ Sum(declared_size, Held) \in Nat
    BY <1>1, <1>5, SessionSums
<1> HIDE DEF Held, Charged, n, s
<1>7. \A t \in Held \cup {s} \cup Charged :
         declared_size'[t] = IF t = s THEN n ELSE declared_size[t]
    BY <1>1, <1>2, <1>5 DEF SessionTypes
<1>8. Sum(declared_size', Held) = Sum(declared_size, Held)
    BY <1>5, <1>6, <1>7, SumSame
<1>9. Sum(declared_size', Charged) = Sum(declared_size, Charged)
    BY <1>5, <1>6, <1>7, SumSame
<1>10. Sum(declared_size', Held \cup {s}) = n + Sum(declared_size', Held)
    <2>1. (Held \cup {s}) \ {s} = Held
        BY <1>5
    <2>2. \A t \in Held \cup {s} : declared_size'[t] \in Nat
        BY <1>1, <1>6, <1>7
    <2> QED
        BY <1>6, <1>7, <2>1, <2>2, SumElement
<1>11. /\ Sum(declared_size, Held)' = Sum(declared_size', Held \cup {s})
       /\ Sum(declared_size, Charged)' = Sum(declared_size', Charged)
    <2>1. /\ Sum(declared_size, Held)' = Sum(declared_size', Held')
          /\ Sum(declared_size, Charged)' = Sum(declared_size', Charged')
        BY DEF Sum, SumsUp, Pick
    <2> QED
        BY <1>5, <2>1
<1>12. used_bytes \in Nat /\ quota_bytes \in Nat
    BY DEF OwnerTypes
<1> QED
    BY <1>1, <1>2, <1>3, <1>6, <1>8, <1>9, <1>10, <1>11, <1>12 DEF Room

\* The sums of the next state, where the declared sizes stay.
LEMMA RoomPrimed ==
    ASSUME UNCHANGED declared_size
    PROVE  /\ Sum(declared_size, Held)' = Sum(declared_size, Held')
           /\ Sum(declared_size, Charged)' = Sum(declared_size, Charged')
BY DEF Sum, SumsUp, Pick

\* A session with its declared size, or without it.
LEMMA TakeOne ==
    ASSUME TypeOK, NEW S \in SUBSET Sessions, NEW s \in S
    PROVE  /\ Sum(declared_size, S) = declared_size[s] + Sum(declared_size, S \ {s})
           /\ Sum(declared_size, S \ {s}) \in Nat /\ declared_size[s] \in Nat
<1>1. S \ {s} \in SUBSET Sessions
    OBVIOUS
<1> QED
    BY <1>1, SessionSums, SumElement

\* A node takes the room that its session held.
LEMMA CommitTakesRoom ==
    ASSUME Serial, CourseInv, Room, NEW h \in Handlers, PersistCommit(h)
    PROVE  Room'
<1> USE DEF CourseInv, RowLifeInv, TypeOK
<1>0. PICK s \in Sessions : s = target(h)
    BY DEF PersistCommit, HandlerTypes
<1>1. /\ s \in Sessions /\ pc[h] = "persist" /\ state[s] = "completing"
      /\ LiveNodes(s) = {} /\ nodes[s] \in Nat /\ purged[s] \subseteq 1 .. nodes[s]
    BY <1>0 DEF PersistCommit, HandlerTypes, OwnerTypes, Course, CourseOf, RowCourse,
                MaterializeLabels
<1>2. /\ used_bytes' = used_bytes + declared_size[s]
      /\ \A t \in Sessions : nodes'[t] = IF t = s THEN nodes[s] + 1 ELSE nodes[t]
      /\ UNCHANGED <<state, quota_bytes, declared_size, purged>>
    BY <1>0, <1>1 DEF PersistCommit, add_used_bytes, OwnerTypes
<1>3. \A g \in Handlers : pc'[g] # "create_session"
    BY DEF PersistCommit, Serial, Goto, HandlerTypes
<1>4. /\ LiveNodes(s)' # {}
      /\ \A t \in Sessions : t # s => LiveNodes(t)' = LiveNodes(t)
    <2>1. nodes[s] + 1 \in LiveNodes(s)'
        BY <1>1, <1>2 DEF LiveNodes
    <2> QED
        BY <1>2, <2>1 DEF LiveNodes
<1>5. /\ Held' = Held \ {s} /\ s \in Held /\ Held \subseteq Sessions
      /\ Charged = Charged' \ {s} /\ s \in Charged' /\ Charged' \subseteq Sessions
    BY <1>1, <1>2, <1>4 DEF Held, Charged
<1> HIDE DEF Held, Charged
<1>6. /\ Sum(declared_size, Held) = declared_size[s] + Sum(declared_size, Held')
      /\ Sum(declared_size, Charged') = declared_size[s] + Sum(declared_size, Charged)
      /\ Sum(declared_size, Held') \in Nat /\ Sum(declared_size, Charged) \in Nat
      /\ declared_size[s] \in Nat
    BY <1>5, TakeOne
<1>7. used_bytes \in Nat /\ quota_bytes \in Nat
    BY DEF OwnerTypes
<1> QED
    BY <1>2, <1>3, <1>6, <1>7, RoomPrimed DEF Room

\* A purge releases what its node was charged for, which its session may hold again.
LEMMA PurgeMakesRoom ==
    ASSUME Serial, CourseInv, Room, NEW h \in Handlers, PurgeCommit(h)
    PROVE  Room'
<1> USE DEF CourseInv, RowLifeInv, TypeOK
<1>0. PICK s \in Sessions : s = target(h)
    BY DEF PurgeCommit, HandlerTypes
<1>1. /\ s \in Sessions /\ req[h].node_id \in LiveNodes(s)
      /\ req[h].size = declared_size[s] /\ declared_size[s] \in Nat
      /\ \A n \in LiveNodes(s) : n = nodes[s]
    BY <1>0 DEF PurgeCommit, HandlerTypes, SessionTypes, Course, CourseOf, RowCourse
<1>2. /\ release_quota(declared_size[s])
      /\ \A t \in Sessions :
            purged'[t] = IF t = s THEN purged[s] \cup {req[h].node_id} ELSE purged[t]
      /\ UNCHANGED <<state, quota_bytes, declared_size, nodes>>
    BY <1>0, <1>1 DEF PurgeCommit, OwnerTypes, dbVars
<1>3. \A g \in Handlers : pc'[g] # "create_session"
    BY DEF PurgeCommit, Serial, Goto, HandlerTypes
<1>4. LiveNodes(s)' = {} /\ \A t \in Sessions : t # s => LiveNodes(t)' = LiveNodes(t)
    BY <1>1, <1>2 DEF LiveNodes
<1>5. /\ Held = Held' \ {s} /\ Held' \subseteq Sessions
      /\ Charged' = Charged \ {s} /\ s \in Charged /\ Charged \subseteq Sessions
    BY <1>1, <1>2, <1>4 DEF Held, Charged
<1>6. used_bytes \in Nat /\ quota_bytes \in Nat
    BY DEF OwnerTypes
<1>7. used_bytes' = IF used_bytes > declared_size[s] THEN used_bytes - declared_size[s] ELSE 0
    BY <1>1, <1>2, Release
<1> HIDE DEF Held, Charged
<1>8. /\ Sum(declared_size, Charged) = declared_size[s] + Sum(declared_size, Charged')
      /\ Sum(declared_size, Charged') \in Nat
    BY <1>5, TakeOne
<1>9. /\ Sum(declared_size, Held) \in Nat /\ Sum(declared_size, Held') \in Nat
      /\ Sum(declared_size, Held') <= declared_size[s] + Sum(declared_size, Held)
    <2>1. CASE s \in Held'
        BY <1>1, <1>5, <2>1, TakeOne
    <2>2. CASE s \notin Held'
        <3>1. Held' = Held
            BY <1>5, <2>2
        <3>2. Sum(declared_size, Held) \in Nat
            BY <1>5, <3>1, SessionSums
        <3> QED
            BY <1>1, <3>1, <3>2
    <2> QED
        BY <2>1, <2>2
<1> QED
    BY <1>1, <1>2, <1>3, <1>6, <1>7, <1>8, <1>9, RoomPrimed DEF Room

\* Nothing but the commit of open and a purge makes a session hold its reservation.
LEMMA HeldShrinks ==
    ASSUME CourseInv, Next, UNCHANGED <<nodes, purged>>,
           \A s \in Sessions : state[s] = "absent" => state'[s] = "absent"
    PROVE  Held' \subseteq Held /\ Charged' = Charged
<1>1. \A s \in Sessions : state'[s] # state[s] => RowMove(s)
    BY RowMoves DEF CourseInv
<1>2. \A s \in Sessions : LiveNodes(s)' = LiveNodes(s)
    BY DEF LiveNodes
<1> QED
    BY <1>1, <1>2 DEF RowMove, Held, Charged

\* While the quota stays, every step leaves room.
LEMMA RoomNext ==
    ASSUME Serial, Quotas = {} PROVE CourseInv /\ Room /\ [Next]_vars => Room'
<1> SUFFICES ASSUME CourseInv, Room, [Next]_vars PROVE Room'
    OBVIOUS
<1> USE DEF CourseInv, RowLifeInv
<1>0. \A h \in Handlers : req[h].size \in Nat /\ req'[h].size \in Nat
    BY NextType DEF TypeOK, HandlerTypes, Request
<1>1. ASSUME UNCHANGED <<state, nodes, purged>> PROVE Held' = Held /\ Charged' = Charged
    BY <1>1 DEF Held, Charged, LiveNodes
<1>2. ASSUME NEW h \in Handlers, Arrival(h) PROVE Room'
    <2>1. UNCHANGED <<state, nodes, purged, used_bytes, quota_bytes, declared_size>>
        BY <1>2 DEF Arrival, OpenReceive, PutReceive, CompleteReceive, AbortReceive,
                    PurgeReceive, dbVars, userVars
    <2>2. \A g \in Handlers : pc'[g] # "create_session"
        BY <1>2 DEF Arrival, OpenReceive, PutReceive, CompleteReceive, AbortReceive,
                    PurgeReceive, Receive, Serial, TypeOK, HandlerTypes
    <2> QED
        BY <1>1, <2>1, <2>2, RoomFrame
<1>3. ASSUME NEW h \in Handlers, OpenSumReserved(h) PROVE Room'
    <2>1. UNCHANGED <<state, nodes, purged, used_bytes, quota_bytes, declared_size>>
        BY <1>3 DEF OpenSumReserved, dbVars
    <2>2. \/ pc'[h] = "idle"
          \/ req[h].size <= remaining /\ UNCHANGED req
        <3>1. CASE req[h].size > remaining
            BY <1>3, <3>1 DEF OpenSumReserved, OpenRefused, Return, TypeOK, HandlerTypes
        <3>2. CASE ~(req[h].size > remaining)
            <4>1. remaining \in Int
                BY RemainingType
            <4> QED
                BY <1>0, <1>3, <3>2, <4>1 DEF OpenSumReserved
        <3> QED
            BY <3>1, <3>2
    <2>3. \A g \in Handlers : pc'[g] = "create_session" =>
              req'[g].size + used_bytes + Sum(declared_size, Held) <= quota_bytes
        BY <1>0, <2>2, OpenLeavesRoom DEF Serial
    <2> QED
        BY <1>0, <1>1, <2>1, <2>3, RoomFrame
<1>4. ASSUME NEW h \in Handlers, HandlerStep(h) \/ Drop(h), ~OpenSumReserved(h),
             ~OpenCreateSession(h), ~PersistCommit(h), ~PurgeCommit(h)
      PROVE  Room'
    <2>1. /\ UNCHANGED <<nodes, purged, used_bytes, quota_bytes, declared_size>>
          /\ pc'[h] # "create_session"
        BY <1>4
        DEF HandlerStep, OpenStep, OpenLockUser, PutStep, PutChunkSize, PutOpenPart,
            PutWritePart, PutWriteFails, PutRecordChunk, PutAddReceived, CompleteStep,
            CompleteCountChunks, CompleteClaim, CompleteExistingNode, CompleteFinalize,
            PersistLockUser, PersistFails, CompleteMark, CompleteReopen, CompleteTransition,
            AbortStep, AbortTransition, AbortUnlink, PurgeStep, PurgeSelect, PurgeSum,
            PurgeUnlink, Drop, Return, Goto, dbVars, userVars, TypeOK, HandlerTypes
    <2>2. \A s \in Sessions : state[s] = "absent" => state'[s] = "absent"
        BY <1>4, RowAppears DEF HandlerStep, OpenStep, OpenLockUser, dbVars
    <2>3. Held' \subseteq Held /\ Charged' = Charged
        BY <1>4, <2>1, <2>2, HeldShrinks DEF Next
    <2> QED
        BY <2>1, <2>3, RoomFrame DEF Serial
<1>5. CASE (\E s \in Sessions : Expire(s)) \/ GcScan \/ GcUnlink \/ UNCHANGED vars
    <2>1. /\ UNCHANGED <<state, nodes, purged, used_bytes, quota_bytes, declared_size>>
          /\ UNCHANGED <<pc, req>>
        BY <1>5 DEF Expire, GcScan, GcUnlink, vars, dbVars, userVars, handlerVars
    <2> QED
        BY <1>0, <1>1, <2>1, RoomFrame
<1>6. CASE GcDelete
    <2>1. PICK s \in gcBatch : delete_if_expired(s)
        BY <1>6 DEF GcDelete
    <2>2. UNCHANGED <<nodes, purged, used_bytes, quota_bytes, declared_size, pc, req>>
        BY <1>6 DEF GcDelete, userVars, handlerVars
    <2>3. \A t \in Sessions : state[t] = "absent" => state'[t] = "absent"
        BY <2>1 DEF delete_if_expired, Reclaimable, TypeOK, SessionTypes
    <2>4. Held' \subseteq Held /\ Charged' = Charged
        BY <1>6, <2>2, <2>3, HeldShrinks DEF Next, GcNext
    <2> QED
        BY <1>0, <2>2, <2>4, RoomFrame
<1>7. CASE Crash
    <2>1. /\ UNCHANGED <<state, nodes, purged, used_bytes, quota_bytes, declared_size>>
          /\ \A g \in Handlers : pc'[g] # "create_session"
        BY <1>7 DEF Crash, dbVars
    <2> QED
        BY <1>1, <2>1, RoomFrame
<1>8. ~ \E quota \in Quotas : SetQuota(quota)
    OBVIOUS
<1> QED
    BY <1>2, <1>3, <1>4, <1>5, <1>6, <1>7, <1>8, CreateTakesRoom, CommitTakesRoom,
       PurgeMakesRoom
    DEF Next, GcNext

\* With one request at a time and a fixed quota, what was reserved fits in every reachable
\* state.
LEMMA RoomInvariant == ASSUME Serial, Quotas = {} PROVE Spec => []Room
<1>1. Init => Room
    <2> SUFFICES ASSUME Init PROVE Room
        OBVIOUS
    <2>1. Held = {} /\ Charged = {} /\ used_bytes = 0 /\ quota_bytes \in Nat
        BY QuotaAssumption DEF Init, Held, Charged, LiveNodes
    <2>2. \A h \in Handlers : pc[h] # "create_session"
        BY DEF Init
    <2> QED
        BY <2>1, <2>2, SumEmpty DEF Room
<1> QED
    BY <1>1, RoomNext, CourseInvariant, PTL DEF Spec

\* While the quota stays, what open reserved is there for persist_node to use, for a
\* client that waits for its answers, whatever fails and whatever it purges.
THEOREM Reservations ==
    ASSUME Serial, Quotas = {} PROVE Spec => []ReservationsHold
<1>1. Room => ReservationsHold
    BY MapThenSum DEF Room, ReservationsHold, Held
<1> QED
    BY <1>1, RoomInvariant, PTL

(***************************************************************************)
(* RECEIVED BYTES                                                          *)
(***************************************************************************)
\* Chunk i of s is one of the file, and n is a size that the client sends for it.
Fits(s, i, n) == i \in 0 .. chunk_count(s) - 1 /\ n \in ChunkSizes(s, i)

\* The recorded chunks are chunks of the file, and received_bytes counts no more.
ChunkRows(s) ==
    /\ \A i \in DOMAIN chunks[s] : Fits(s, i, chunks[s][i])
    /\ state[s] = "absent" => DOMAIN chunks[s] = {}
    /\ received_bytes[s] <= Sum(chunks[s], DOMAIN chunks[s])

\* What a chunk in flight knows of its row, and what it is about to add to
\* received_bytes, for as long as the session is there.
PutCourse(h) ==
    LET s == target(h)
        r == req[h]
    IN /\ pc[h] \in PutLabels => Fits(s, r.index, r.size)
       /\ pc[h] \in {"open_part", "write_part", "record_chunk"} /\ state[s] = "open" =>
             r.previous = chunk_size(s, r.index)
       /\ pc[h] = "add_received" /\ state[s] = "open" =>
             received_bytes[s] + r.size - r.previous <= Sum(chunks[s], DOMAIN chunks[s])

Backing == (\A h \in Handlers : PutCourse(h)) /\ (\A s \in Sessions : ChunkRows(s))

\* A chunk that is sent again has the size it had.
LEMMA OneSize ==
    ASSUME WellSized, NEW s, NEW i, NEW m, NEW n, Fits(s, i, m), Fits(s, i, n)
    PROVE  m = n
BY DEF Fits, ChunkSizes

\* The recorded chunks of a session are finitely many natural numbers.
LEMMA ChunkSums ==
    ASSUME TypeOK, NEW s \in Sessions, ChunkRows(s)
    PROVE  /\ IsFiniteSet(DOMAIN chunks[s])
           /\ \A i \in DOMAIN chunks[s] : chunks[s][i] \in Nat
           /\ Sum(chunks[s], DOMAIN chunks[s]) \in Nat
<1>1. chunk_count(s) - 1 \in Int
    BY ChunkTypes DEF TypeOK
<1>2. IsFiniteSet(0 .. chunk_count(s) - 1)
    BY <1>1, FS_Interval
<1>3. DOMAIN chunks[s] \subseteq 0 .. chunk_count(s) - 1
    BY DEF ChunkRows, Fits
<1>4. IsFiniteSet(DOMAIN chunks[s])
    BY <1>2, <1>3, FS_Subset
<1>5. \A i \in DOMAIN chunks[s] : chunks[s][i] \in Nat
    BY DEF TypeOK, SessionTypes
<1> QED
    BY <1>4, <1>5, SumNat

\* What fits depends on the declared size only, and a sum on what is recorded.
LEMMA ChunksPrimed ==
    ASSUME NEW s \in Sessions, declared_size'[s] = declared_size[s]
    PROVE  /\ \A i, n : Fits(s, i, n)' <=> Fits(s, i, n)
           /\ Sum(chunks[s], DOMAIN chunks[s])' = Sum(chunks'[s], DOMAIN chunks'[s])
BY DEF Fits, ChunkSizes, chunk_count, Sum, SumsUp, Pick

\* A session whose rows stay keeps what was counted.
LEMMA RowsFrame ==
    ASSUME NEW s \in Sessions, ChunkRows(s), chunks'[s] = chunks[s],
           received_bytes'[s] = received_bytes[s],
           \/ /\ declared_size'[s] = declared_size[s]
              /\ state'[s] = "absent" => state[s] = "absent"
           \/ state[s] = "absent" /\ state'[s] # "absent"
    PROVE  ChunkRows(s)'
<1>1. Sum(chunks[s], DOMAIN chunks[s])' = Sum(chunks'[s], DOMAIN chunks'[s])
    BY DEF Sum, SumsUp, Pick
<1>2. \A i \in DOMAIN chunks[s] : Fits(s, i, chunks[s][i])'
    BY ChunksPrimed DEF ChunkRows
<1> QED
    BY <1>1, <1>2 DEF ChunkRows

\* A request that is not a chunk.
LEMMA NoChunk == \A h \in Handlers : pc[h] \notin PutLabels => PutCourse(h)
BY DEF PutCourse, PutLabels

\* A chunk in flight beside which nothing happens, or whose session goes.
LEMMA StillChunk ==
    ASSUME CourseInv, NEW h \in Handlers, PutCourse(h), UNCHANGED <<declared_size, pc, req>>,
           \A s \in Sessions :
              \/ /\ state'[s] = state[s] /\ chunks'[s] = chunks[s]
                 /\ received_bytes'[s] = received_bytes[s]
              \/ state'[s] = "deleted"
    PROVE  PutCourse(h)'
<1>1. CASE pc[h] \in PutLabels
    <2>1. PICK s \in Sessions : s = target(h)
        BY <1>1 DEF CourseInv, RowLifeInv, TypeOK, HandlerTypes, PutLabels
    <2>2. /\ \A i, n : Fits(s, i, n)' <=> Fits(s, i, n)
          /\ Sum(chunks[s], DOMAIN chunks[s])' = Sum(chunks'[s], DOMAIN chunks'[s])
        BY ChunksPrimed
    <2> QED
        BY <1>1, <2>1, <2>2 DEF PutCourse, chunk_size
<1>2. CASE pc[h] \notin PutLabels
    BY <1>2 DEF PutCourse, PutLabels
<1> QED
    BY <1>1, <1>2

\* Recording a chunk: the sum grows by what is new, which is not negative because a
\* chunk is sent again with the size it had.
LEMMA RecordBacks ==
    ASSUME Serial, WellSized, CourseInv, Backing, NEW h \in Handlers, PutRecordChunk(h)
    PROVE  Backing'
<1> USE DEF CourseInv, RowLifeInv, TypeOK
<1>0. PICK s \in Sessions, i \in Nat, n \in Nat, p \in Nat :
        s = target(h) /\ i = req[h].index /\ n = req[h].size /\ p = req[h].previous
    BY DEF PutRecordChunk, HandlerTypes, Request
<1>1. /\ pc[h] = "record_chunk" /\ state[s] \in {"open", "deleted"} /\ Fits(s, i, n)
      /\ \A t \in Sessions : ChunkRows(t) /\ received_bytes[t] \in Int
      /\ UNCHANGED <<state, declared_size, received_bytes>>
    BY <1>0 DEF PutRecordChunk, Course, CourseOf, Backing, PutCourse, PutLabels, SessionTypes
<1>2. CASE state[s] = "deleted"
    <2>1. Return(h) /\ UNCHANGED chunks
        BY <1>0, <1>2 DEF PutRecordChunk, Present
    <2>2. \A t \in Sessions : ChunkRows(t)'
        BY <1>1, <2>1, RowsFrame
    <2>3. PutCourse(h)'
        BY <2>1 DEF Return, PutCourse, PutLabels, HandlerTypes
    <2> QED
        BY <2>2, <2>3 DEF Backing, Serial
<1>3. CASE state[s] = "open"
    <2> DEFINE D == DOMAIN chunks[s]
               rows == [j \in D \cup {i} |-> IF j = i THEN n ELSE chunks[s][j]]
               total == Sum(rows, D \cup {i})
    <2>1. /\ chunks' = [chunks EXCEPT ![s] = rows]
          /\ Goto(h, "add_received") /\ UNCHANGED req
        BY <1>0, <1>3 DEF PutRecordChunk, Present, record_chunk
    <2>2. /\ chunks'[s] = rows /\ DOMAIN rows = D \cup {i} /\ rows[i] = n
          /\ \A j \in D \ {i} : rows[j] = chunks[s][j]
          /\ \A t \in Sessions : t # s => chunks'[t] = chunks[t]
        BY <1>0, <2>1 DEF SessionTypes
    <2>3. p = IF i \in D THEN chunks[s][i] ELSE 0
        BY <1>0, <1>1, <1>3 DEF Backing, PutCourse, chunk_size
    <2>4. i \in D => p = n
        <3> SUFFICES ASSUME i \in D PROVE p = n
            OBVIOUS
        <3>1. Fits(s, i, chunks[s][i])
            BY <1>1 DEF ChunkRows
        <3> QED
            BY <1>1, <2>3, <3>1, OneSize
    <2> HIDE DEF rows
    <2>5. /\ IsFiniteSet(D) /\ \A j \in D : chunks[s][j] \in Nat
          /\ Sum(chunks[s], D) \in Nat /\ received_bytes[s] <= Sum(chunks[s], D)
        BY <1>1, ChunkSums DEF ChunkRows
    <2>6. total + p = Sum(chunks[s], D) + n
        BY <2>2, <2>3, <2>5, SumUpdate
    <2>7. \A j \in D \cup {i} : Fits(s, j, rows[j])
        BY <1>1, <2>2 DEF ChunkRows
    <2>8. Sum(chunks[s], DOMAIN chunks[s])' = total
        BY <2>2 DEF Sum, SumsUp, Pick
    <2> HIDE DEF D
    <2>9. total \in Int /\ p <= n
        <3>1. p = 0 \/ p = n
            BY <2>3, <2>4
        <3>2. \A j \in D \cup {i} : rows[j] \in Nat
            BY <2>2, <2>5
        <3>3. IsFiniteSet(D \cup {i})
            BY <2>5, FS_AddElement
        <3>4. total \in Nat
            BY <3>2, <3>3, SumNat
        <3> QED
            BY <3>1, <3>4
    <2> HIDE DEF total
    <2>10. received_bytes[s] <= total /\ received_bytes[s] + n - p <= total
        BY <1>1, <2>5, <2>6, <2>9
    <2>11. \A j, m : Fits(s, j, m)' <=> Fits(s, j, m)
        BY <1>1, ChunksPrimed
    <2>12. ChunkRows(s)'
        BY <1>1, <1>3, <2>2, <2>7, <2>8, <2>10, <2>11 DEF ChunkRows
    <2>13. \A t \in Sessions : t # s => ChunkRows(t)'
        BY <1>1, <2>2, RowsFrame
    <2>14. PutCourse(h)'
        <3>1. pc'[h] = "add_received" /\ req'[h] = req[h]
            BY <2>1 DEF Goto, HandlerTypes
        <3> QED
            BY <1>0, <1>1, <2>8, <2>10, <2>11, <3>1 DEF PutCourse
    <2> QED
        BY <2>12, <2>13, <2>14 DEF Backing, Serial
<1> QED
    BY <1>1, <1>2, <1>3

\* The steps of a chunk around the one that records it.
LEMMA PutBacks ==
    ASSUME Serial, CourseInv, Backing, NEW h \in Handlers, PutStep(h), ~PutRecordChunk(h)
    PROVE  Backing'
<1> USE DEF CourseInv, RowLifeInv, TypeOK
<1>0. PICK s \in Sessions, i \in Nat, n \in Nat, p \in Nat :
        s = target(h) /\ i = req[h].index /\ n = req[h].size /\ p = req[h].previous
    BY DEF PutStep, PutChunkSize, PutOpenPart, PutWritePart, PutWriteFails, PutAddReceived,
           HandlerTypes, Request
<1>1. /\ pc[h] \in PutLabels /\ state[s] \in {"open", "deleted"} /\ Fits(s, i, n)
      /\ \A t \in Sessions : ChunkRows(t)
      /\ UNCHANGED <<state, declared_size, chunks>>
    BY <1>0
    DEF PutStep, PutChunkSize, PutOpenPart, PutWritePart, PutWriteFails, PutAddReceived,
                Course, CourseOf, Backing, PutCourse, PutLabels, dbVars
<1>2. ASSUME UNCHANGED received_bytes PROVE \A t \in Sessions : ChunkRows(t)'
    BY <1>1, <1>2, RowsFrame
<1>3. ASSUME Return(h) PROVE PutCourse(h)'
    BY <1>3 DEF Return, PutCourse, PutLabels, HandlerTypes
<1>4. \A j, m : Fits(s, j, m)' <=> Fits(s, j, m)
    BY <1>1, ChunksPrimed
<1>5. CASE PutChunkSize(h)
    <2>1. CASE Return(h)
        BY <1>2, <1>3, <1>5, <2>1 DEF PutChunkSize, dbVars, Backing, Serial
    <2>2. CASE /\ Goto(h, "open_part")
               /\ req' = [req EXCEPT ![h].previous = chunk_size(s, i)]
        <3>1. /\ pc'[h] = "open_part" /\ req'[h].session = s /\ req'[h].index = i
              /\ req'[h].size = n /\ req'[h].previous = chunk_size(s, i)
            BY <1>0, <2>2 DEF Goto, HandlerTypes, Request
        <3>2. chunk_size(s, i)' = chunk_size(s, i)
            BY <1>1 DEF chunk_size
        <3>3. PutCourse(h)'
            BY <1>1, <1>4, <3>1, <3>2 DEF PutCourse
        <3> QED
            BY <1>2, <1>5, <3>3 DEF PutChunkSize, dbVars, Backing, Serial
    <2> QED
        BY <1>0, <1>5, <2>1, <2>2 DEF PutChunkSize
<1>6. CASE PutOpenPart(h) \/ PutWritePart(h)
    <2>1. /\ pc[h] \in {"open_part", "write_part"} /\ pc'[h] \in {"write_part", "record_chunk"}
          /\ req'[h] = req[h] /\ UNCHANGED received_bytes
        BY <1>6 DEF PutOpenPart, PutWritePart, Goto, HandlerTypes, dbVars
    <2>2. chunk_size(s, i)' = chunk_size(s, i)
        BY <1>1 DEF chunk_size
    <2>3. PutCourse(h)
        BY DEF Backing
    <2>4. PutCourse(h)'
        BY <1>0, <1>1, <1>4, <2>1, <2>2, <2>3 DEF PutCourse
    <2> QED
        BY <1>2, <2>1, <2>4 DEF Backing, Serial
<1>7. CASE PutWriteFails(h)
    BY <1>2, <1>3, <1>7 DEF PutWriteFails, dbVars, Backing, Serial
<1>8. CASE PutAddReceived(h)
    <2>1. Return(h)
        BY <1>8 DEF PutAddReceived
    <2>2. CASE state[s] = "deleted"
        BY <1>0, <1>2, <1>3, <1>8, <2>1, <2>2 DEF PutAddReceived, Present, Backing, Serial
    <2>3. CASE state[s] = "open"
        <3>1. received_bytes' = [received_bytes EXCEPT ![s] = received_bytes[s] + (n - p)]
            BY <1>0, <1>8, <2>3 DEF PutAddReceived, Present, received_delta
        <3>2. received_bytes[s] + n - p <= Sum(chunks[s], DOMAIN chunks[s])
            BY <1>0, <1>8, <2>3 DEF PutAddReceived, Backing, PutCourse
        <3>3. /\ received_bytes'[s] = received_bytes[s] + n - p
              /\ \A t \in Sessions : t # s => received_bytes'[t] = received_bytes[t]
            BY <3>1 DEF SessionTypes
        <3>4. Sum(chunks[s], DOMAIN chunks[s])' = Sum(chunks[s], DOMAIN chunks[s])
            BY <1>1 DEF Sum, SumsUp, Pick
        <3>5. ChunkRows(s)'
            BY <1>1, <1>4, <3>2, <3>3, <3>4 DEF ChunkRows
        <3>6. \A t \in Sessions : t # s => ChunkRows(t)'
            BY <1>1, <3>3, RowsFrame
        <3> QED
            BY <1>3, <2>1, <3>5, <3>6 DEF Backing, Serial
    <2> QED
        BY <1>1, <2>2, <2>3
<1> QED
    BY <1>5, <1>6, <1>7, <1>8 DEF PutStep

\* The arrival of a request: a chunk that the client sends fits.
LEMMA ArrivalBacks ==
    ASSUME Serial, CourseInv, Backing, NEW h \in Handlers, Arrival(h) PROVE Backing'
<1> USE DEF CourseInv, RowLifeInv, TypeOK
<1>1. PICK s \in Sessions :
        \/ \E declared \in DeclaredSizes : OpenReceive(h, s, declared)
        \/ \E index \in 0 .. chunk_count(s) - 1 :
              \E size \in ChunkSizes(s, index) : PutReceive(h, s, index, size)
        \/ CompleteReceive(h, s)
        \/ AbortReceive(h, s)
        \/ \E n \in LiveNodes(s) : PurgeReceive(h, s, n)
    BY DEF Arrival
<1>2. UNCHANGED <<state, declared_size, received_bytes, chunks>>
    BY <1>1 DEF OpenReceive, PutReceive, CompleteReceive, AbortReceive, PurgeReceive, dbVars
<1>3. \A t \in Sessions : ChunkRows(t)'
    BY <1>2, RowsFrame DEF Backing
<1>4. CASE pc'[h] \notin PutLabels
    BY <1>3, <1>4 DEF PutCourse, PutLabels, Backing, Serial
<1>5. CASE \E index \in 0 .. chunk_count(s) - 1 :
              \E size \in ChunkSizes(s, index) : PutReceive(h, s, index, size)
    <2>0. PICK i \in 0 .. chunk_count(s) - 1 :
              \E n \in ChunkSizes(s, i) : PutReceive(h, s, i, n)
        BY <1>5
    <2>1. PICK n \in ChunkSizes(s, i) : PutReceive(h, s, i, n)
        BY <2>0
    <2>2. /\ pc'[h] = "chunk_size" /\ req'[h].session = s /\ req'[h].index = i
          /\ req'[h].size = n
        BY <2>1 DEF PutReceive, Receive, HandlerTypes
    <2>3. Fits(s, i, n)'
        BY <1>2, ChunksPrimed DEF Fits
    <2>4. PutCourse(h)'
        BY <2>2, <2>3 DEF PutCourse
    <2> QED
        BY <1>3, <2>4 DEF Backing, Serial
<1>6. CASE OpenReceive(h, s, req'[h].size) \/ CompleteReceive(h, s) \/ AbortReceive(h, s)
    BY <1>4, <1>6
    DEF OpenReceive, CompleteReceive, AbortReceive, Receive, HandlerTypes, PutLabels
<1>7. ASSUME NEW declared, OpenReceive(h, s, declared) PROVE Backing'
    BY <1>4, <1>7 DEF OpenReceive, HandlerTypes, PutLabels
<1>8. ASSUME NEW n, PurgeReceive(h, s, n) PROVE Backing'
    BY <1>4, <1>8 DEF PurgeReceive, HandlerTypes, PutLabels
<1> QED
    BY <1>1, <1>5, <1>6, <1>7, <1>8

\* Every step counts no byte that no recorded chunk accounts for.
LEMMA BackingNext ==
    ASSUME Serial, WellSized PROVE CourseInv /\ Backing /\ [Next]_vars => Backing'
<1> SUFFICES ASSUME CourseInv, Backing, [Next]_vars PROVE Backing'
    OBVIOUS
<1> USE DEF CourseInv, RowLifeInv, TypeOK
<1>1. ASSUME NEW h \in Handlers, PutStep(h) PROVE Backing'
    BY <1>1, RecordBacks, PutBacks
<1>2. ASSUME NEW h \in Handlers, OpenCreateSession(h) PROVE Backing'
    <2>1. /\ target(h) \in Sessions /\ state[target(h)] = "absent"
          /\ state' = [state EXCEPT ![target(h)] = "open"]
          /\ \A t \in Sessions : t # target(h) => declared_size'[t] = declared_size[t]
          /\ UNCHANGED <<received_bytes, chunks>>
        BY <1>2
        DEF OpenCreateSession, create_tx, HandlerTypes, SessionTypes, RowInv, OpenIsFresh,
            OpenLabels
    <2>2. \A t \in Sessions : \/ declared_size'[t] = declared_size[t] /\ state'[t] = state[t]
                              \/ state[t] = "absent" /\ state'[t] = "open"
        BY <2>1 DEF SessionTypes
    <2>3. \A t \in Sessions : ChunkRows(t)'
        BY <2>1, <2>2, RowsFrame DEF Backing
    <2>4. pc'[h] \notin PutLabels
        BY <1>2 DEF OpenCreateSession, Return, HandlerTypes, PutLabels
    <2> QED
        BY <2>3, <2>4 DEF PutCourse, PutLabels, Backing, Serial
<1>3. ASSUME NEW h \in Handlers, HandlerStep(h) \/ Drop(h), ~PutStep(h), ~OpenCreateSession(h)
      PROVE  Backing'
    <2>1. UNCHANGED <<declared_size, received_bytes, chunks>> /\ pc'[h] \notin PutLabels
        BY <1>3
        DEF HandlerStep, OpenStep, OpenLockUser, OpenSumReserved, OpenRefused, CompleteStep,
            CompleteCountChunks, CompleteClaim, CompleteExistingNode, CompleteFinalize,
            PersistLockUser, PersistCommit, PersistFails, CompleteMark, CompleteReopen,
            CompleteTransition, AbortStep, AbortTransition, AbortUnlink, PurgeStep,
            PurgeSelect, PurgeSum, PurgeCommit, PurgeUnlink, Drop, Return, Goto, dbVars,
            HandlerTypes, PutLabels
    <2>2. \A s \in Sessions : state'[s] = "absent" => state[s] = "absent"
        BY <1>3, RowAppears DEF HandlerStep, OpenStep, OpenLockUser, OpenSumReserved, dbVars
    <2>3. \A t \in Sessions : ChunkRows(t)'
        BY <2>1, <2>2, RowsFrame DEF Backing
    <2> QED
        BY <2>1, <2>3 DEF PutCourse, PutLabels, Backing, Serial
<1>4. CASE (\E s \in Sessions : Expire(s)) \/ (\E quota \in Quotas : SetQuota(quota))
           \/ GcScan \/ GcUnlink \/ UNCHANGED vars
    <2>1. UNCHANGED <<state, declared_size, received_bytes, chunks, pc, req>>
        BY <1>4 DEF Expire, SetQuota, GcScan, GcUnlink, vars, dbVars, handlerVars
    <2>2. \A t \in Sessions : ChunkRows(t)'
        BY <2>1, RowsFrame DEF Backing
    <2>3. \A h \in Handlers : PutCourse(h)'
        BY <2>1, StillChunk DEF Backing
    <2> QED
        BY <2>2, <2>3 DEF Backing
<1>5. CASE GcDelete
    <2>1. PICK s \in gcBatch : delete_if_expired(s)
        BY <1>5 DEF GcDelete
    <2>2. s \in Sessions /\ UNCHANGED <<declared_size, pc, req>>
        BY <1>5 DEF GcDelete, handlerVars, CollectorTypes
    <2>3. \A t \in Sessions :
              \/ /\ state'[t] = state[t] /\ chunks'[t] = chunks[t]
                 /\ received_bytes'[t] = received_bytes[t]
              \/ state'[t] = "deleted" /\ chunks'[t] = <<>> /\ received_bytes'[t] = 0
        BY <2>1, <2>2 DEF delete_if_expired, SessionTypes
    <2>4. ASSUME NEW t \in Sessions PROVE ChunkRows(t)'
        <3>1. CASE state'[t] = "deleted" /\ chunks'[t] = <<>> /\ received_bytes'[t] = 0
            <4>1. Sum(chunks[t], DOMAIN chunks[t])' = Sum(chunks'[t], DOMAIN chunks'[t])
                BY DEF Sum, SumsUp, Pick
            <4>2. DOMAIN chunks'[t] = {}
                BY <3>1
            <4> QED
                BY <3>1, <4>1, <4>2, SumEmpty DEF ChunkRows
        <3> QED
            BY <2>2, <2>3, <3>1, RowsFrame DEF Backing
    <2>5. \A h \in Handlers : PutCourse(h)'
        BY <2>2, <2>3, StillChunk DEF Backing
    <2> QED
        BY <2>4, <2>5 DEF Backing
<1>6. CASE Crash
    <2>1. UNCHANGED <<state, declared_size, received_bytes, chunks>>
        BY <1>6 DEF Crash, dbVars
    <2>2. \A t \in Sessions : ChunkRows(t)'
        BY <2>1, RowsFrame DEF Backing
    <2> QED
        BY <1>6, <2>2 DEF Crash, PutCourse, PutLabels, Backing
<1> QED
    BY <1>1, <1>2, <1>3, <1>4, <1>5, <1>6, ArrivalBacks DEF Next, HandlerStep, GcNext

\* What an invariant and the courses of the requests say together.
BackingInv == CourseInv /\ Backing

\* With one request at a time and chunks of a fixed size, received_bytes is backed in every
\* reachable state.
LEMMA BackingInvariant == ASSUME Serial, WellSized PROVE Spec => []BackingInv
<1>1. Init => Backing
    <2> SUFFICES ASSUME Init PROVE Backing
        OBVIOUS
    <2>1. \A s \in Sessions : DOMAIN chunks[s] = {} /\ received_bytes[s] = 0
        BY DEF Init
    <2> QED
        BY <2>1, SumEmpty DEF Init, Backing, PutCourse, PutLabels, ChunkRows
<1> QED
    BY <1>1, BackingNext, CourseInvariant, PTL DEF Spec, BackingInv

\* received_bytes never counts a byte that no recorded chunk accounts for, as long as
\* a client that waits for its answers sends a chunk again with the size it had.
THEOREM Received == ASSUME Serial, WellSized PROVE Spec => []ReceivedIsBacked
<1>1. BackingInv => ReceivedIsBacked
    BY MapThenSum DEF BackingInv, Backing, ChunkRows, ReceivedIsBacked
<1> QED
    BY <1>1, BackingInvariant, PTL

(***************************************************************************)
(* THE BYTES OF A BLOB                                                     *)
(***************************************************************************)
\* The offsets of n bytes of chunk i.
Span(i, n) == chunk_offset(i) .. chunk_offset(i) + n - 1

\* Min({m, n}) by the order.
LEMMA MinOfTwo ==
    ASSUME NEW m \in Int, NEW n \in Int
    PROVE  Min({m, n}) = IF m <= n THEN m ELSE n
<1>1. \E x \in {m, n} : \A y \in {m, n} : x <= y
    <2>1. CASE m <= n
        BY <2>1
    <2>2. CASE n < m
        BY <2>2
    <2> QED
        BY <2>1, <2>2
<1>2. Min({m, n}) \in {m, n} /\ \A y \in {m, n} : Min({m, n}) <= y
    BY <1>1 DEF Min
<1> QED
    BY <1>2

\* The size of a chunk: a full one, or what is left.
LEMMA FitSize ==
    ASSUME WellSized, TypeOK, NEW s \in Sessions, NEW i, NEW n, Fits(s, i, n)
    PROVE  /\ i \in Nat /\ n \in Nat \ {0} /\ chunk_offset(i) \in Nat
           /\ n = IF ChunkSize <= declared_size[s] - chunk_offset(i)
                  THEN ChunkSize ELSE declared_size[s] - chunk_offset(i)
<1>1. i \in Nat
    BY ChunkTypes DEF Fits, TypeOK
<1>2. chunk_offset(i) \in Nat /\ declared_size[s] \in Nat /\ ChunkSize \in Nat
    BY <1>1, ChunkTypes, SizesAssumption DEF TypeOK, SessionTypes
<1>3. n \in Nat \ {0} /\ n = Min({ChunkSize, declared_size[s] - chunk_offset(i)})
    BY <1>2 DEF Fits, ChunkSizes
<1> QED
    BY <1>1, <1>2, <1>3, MinOfTwo

\* A chunk, or a prefix of one, is within the file.
LEMMA SpanFits ==
    ASSUME WellSized, TypeOK, NEW s \in Sessions, NEW i, NEW n, Fits(s, i, n), NEW m \in 0 .. n
    PROVE  Span(i, m) \subseteq Content(s)
<1>1. /\ n \in Nat /\ chunk_offset(i) \in Nat /\ declared_size[s] \in Nat
      /\ n <= declared_size[s] - chunk_offset(i)
    BY FitSize, SizesAssumption DEF TypeOK, SessionTypes
<1> QED
    BY <1>1 DEF Span, Content

\* Division by the chunk size.
LEMMA Quotient ==
    ASSUME NEW b \in Nat
    PROVE  LET q == b \div ChunkSize
           IN  q \in Nat /\ q * ChunkSize <= b /\ b < q * ChunkSize + ChunkSize
BY SizesAssumption

\* Multiples of the chunk size compare as their factors do.
LEMMA Cancel ==
    ASSUME NEW i \in Int, NEW q \in Int, i * ChunkSize < q * ChunkSize
    PROVE  i < q
BY SizesAssumption

\* Every byte of the file is in one of its chunks.
LEMMA ChunksCover ==
    ASSUME WellSized, TypeOK, NEW s \in Sessions, NEW b \in Content(s)
    PROVE  \E i \in 0 .. chunk_count(s) - 1 : \A n : Fits(s, i, n) => b \in Span(i, n)
<1> DEFINE d == declared_size[s]
           i == b \div ChunkSize
           q == (d + ChunkSize - 1) \div ChunkSize
<1>1. /\ d \in Nat /\ b \in Nat /\ b < d /\ ChunkSize \in Nat \ {0}
      /\ d + ChunkSize - 1 \in Nat
    BY SizesAssumption DEF TypeOK, SessionTypes, Content
<1>2. i \in Nat /\ i * ChunkSize <= b /\ b < i * ChunkSize + ChunkSize
    BY <1>1, Quotient
<1>3. q \in Nat /\ d + ChunkSize - 1 < q * ChunkSize + ChunkSize
    BY <1>1, Quotient
<1>4. chunk_count(s) = IF q > 1 THEN q ELSE 1
    BY DEF chunk_count, expected_chunk_count
<1> HIDE DEF i, q
<1>5. i * ChunkSize < q * ChunkSize
    <2>1. i * ChunkSize \in Nat /\ q * ChunkSize \in Nat
        BY <1>1, <1>2, <1>3
    <2> QED
        BY <1>1, <1>2, <1>3, <2>1
<1>6. i < q
    BY <1>2, <1>3, <1>5, Cancel
<1>7. i \in 0 .. chunk_count(s) - 1
    BY <1>2, <1>3, <1>4, <1>6
<1>8. ASSUME NEW n, Fits(s, i, n) PROVE b \in Span(i, n)
    <2>1. /\ n \in Nat /\ chunk_offset(i) \in Nat
          /\ n = IF ChunkSize <= d - chunk_offset(i) THEN ChunkSize ELSE d - chunk_offset(i)
        BY <1>8, FitSize
    <2>2. chunk_offset(i) <= b /\ b < chunk_offset(i) + ChunkSize
        BY <1>2 DEF chunk_offset
    <2> QED
        BY <1>1, <2>1, <2>2 DEF Span
<1> QED
    BY <1>7, <1>8

\* Where the bytes of a session are, while it is open and when it is claimed, until it
\* has made a node; from then on nothing is known of what is sent again after a purge.
RowBytes(s) ==
    /\ state[s] = "absent" => part[s] = NoFile
    /\ state[s] = "open" /\ nodes[s] = 0 =>
          /\ part[s].bytes \subseteq Content(s)
          /\ \A i \in DOMAIN chunks[s] :
                part[s].linked /\ Span(i, chunks[s][i]) \subseteq part[s].bytes
    /\ state[s] = "completing" /\ nodes[s] = 0 =>
          \/ part[s].linked /\ part[s].bytes = Content(s)
          \/ ~part[s].linked /\ blob[s].linked /\ blob[s].bytes = Content(s)
    /\ nodes[s] > 0 /\ purged[s] = {} => blob[s].bytes = Content(s)

\* What a request in flight knows of the files.  The error branch of complete is taken
\* only for a session that has made a node.
StepBytes(h) ==
    LET s == target(h)
        r == req[h]
    IN /\ fd[h] # "none" => pc[h] = "write_part" /\ fd[h] \in {"part", "unlinked"}
       /\ pc[h] = "write_part" /\ state[s] = "open" => fd[h] = "part" /\ part[s].linked
       /\ pc[h] = "record_chunk" /\ state[s] = "open" =>
             part[s].linked /\ Span(r.index, r.size) \subseteq part[s].bytes
       /\ pc[h] = "claim" /\ state[s] = "open" => count_chunks(s) = chunk_count(s)
       /\ pc[h] \in {"lock_persist", "persist"} /\ nodes[s] = 0 => blob[s].bytes = Content(s)
       /\ pc[h] = "reopen" => nodes[s] > 0

Bytes == (\A h \in Handlers : StepBytes(h)) /\ (\A s \in Sessions : RowBytes(s))

BytesInv == BackingInv /\ Room /\ CollectorInv /\ BlobInv /\ Bytes

\* A session whose files, rows and node stay keeps its bytes; what is over needs none.
LEMMA BytesFrame ==
    ASSUME NEW s \in Sessions, RowBytes(s), blob'[s] = blob[s], nodes'[s] = nodes[s],
           purged[s] \subseteq purged'[s], declared_size'[s] = declared_size[s],
           \/ state'[s] = state[s] /\ part'[s] = part[s] /\ chunks'[s] = chunks[s]
           \/ state'[s] \in {"completed", "aborted", "deleted"}
    PROVE  RowBytes(s)'
BY DEF RowBytes, Content

\* Nothing else is said of a session that has made a node.
LEMMA BytesOfNode ==
    ASSUME NEW s \in Sessions, state'[s] # "absent", nodes'[s] > 0, nodes'[s] \in Nat,
           \/ purged'[s] # {}
           \/ /\ RowBytes(s) /\ nodes[s] > 0 /\ purged'[s] = purged[s]
              /\ blob'[s] = blob[s] /\ declared_size'[s] = declared_size[s]
    PROVE  RowBytes(s)'
BY DEF RowBytes, Content

\* A file with all the chunks is the whole file.
LEMMA AllChunksAreWhole ==
    ASSUME WellSized, TypeOK, NEW s \in Sessions, ChunkRows(s), RowBytes(s), state[s] = "open",
           nodes[s] = 0, count_chunks(s) = chunk_count(s)
    PROVE  part[s].linked /\ part[s].bytes = Content(s)
<1> DEFINE D == DOMAIN chunks[s]
           I == 0 .. chunk_count(s) - 1
<1>1. chunk_count(s) \in Nat \ {0}
    BY ChunkTypes DEF TypeOK
<1>2. IsFiniteSet(I) /\ Cardinality(I) = chunk_count(s)
    <2>1. \A c \in Nat \ {0} : IsFiniteSet(0 .. c - 1) /\ Cardinality(0 .. c - 1) = c
        BY FS_Interval
    <2> QED
        BY <1>1, <2>1
<1>3. D \subseteq I /\ Cardinality(D) = chunk_count(s)
    BY DEF ChunkRows, Fits, count_chunks
<1>4. D = I
    BY <1>2, <1>3, FS_Subset
<1>5. 0 \in D
    BY <1>1, <1>4
<1>6. \A b \in Content(s) : b \in part[s].bytes
    <2> SUFFICES ASSUME NEW b \in Content(s) PROVE b \in part[s].bytes
        OBVIOUS
    <2>1. PICK i \in I : \A n : Fits(s, i, n) => b \in Span(i, n)
        BY ChunksCover
    <2>2. Fits(s, i, chunks[s][i]) /\ Span(i, chunks[s][i]) \subseteq part[s].bytes
        BY <1>4 DEF ChunkRows, RowBytes
    <2> QED
        BY <2>1, <2>2
<1> QED
    BY <1>5, <1>6 DEF RowBytes

\* A request that arrives touches no file.
LEMMA ArrivalBytes ==
    ASSUME Serial, BytesInv, NEW h \in Handlers, Arrival(h) PROVE Bytes'
<1> USE DEF BytesInv, BackingInv, CourseInv, RowLifeInv, TypeOK
<1>1. UNCHANGED <<state, part, blob, chunks, nodes, purged, declared_size, fd>>
    BY DEF Arrival, OpenReceive, PutReceive, CompleteReceive, AbortReceive, PurgeReceive,
           Receive, dbVars, userVars, fsVars
<1>2. /\ pc[h] = "idle"
      /\ pc'[h] \in {"lock_user", "chunk_size", "count_chunks", "abort_transition",
                     "select_blobs"}
    BY
    DEF Arrival, OpenReceive, PutReceive, CompleteReceive, AbortReceive, PurgeReceive, Receive,
        HandlerTypes
<1>3. fd[h] = "none"
    BY <1>2 DEF Bytes, StepBytes
<1>4. StepBytes(h)'
    BY <1>1, <1>2, <1>3 DEF StepBytes
<1>5. \A s \in Sessions : RowBytes(s)'
    BY <1>1, BytesFrame DEF Bytes
<1> QED
    BY <1>4, <1>5 DEF Bytes, Serial

\* open makes a row for a session without files.
LEMMA OpenBytes ==
    ASSUME Serial, BytesInv, NEW h \in Handlers, OpenStep(h) PROVE Bytes'
<1> USE DEF BytesInv, BackingInv, CourseInv, RowLifeInv, TypeOK
<1>1. UNCHANGED <<part, blob, chunks, nodes, purged>>
    BY DEF OpenStep, OpenLockUser, OpenSumReserved, OpenCreateSession, dbVars, fsVars
<1>2. /\ pc[h] \in OpenLabels /\ pc'[h] \in OpenLabels \cup {"idle"}
      /\ fd'[h] = fd[h] \/ fd'[h] = "none"
    BY DEF OpenStep, OpenLockUser, OpenSumReserved, OpenRefused, OpenCreateSession, OpenLabels,
           Return, Goto, HandlerTypes
<1>3. fd[h] = "none"
    BY <1>2 DEF Bytes, StepBytes, OpenLabels
<1>4. StepBytes(h)'
    BY <1>2, <1>3 DEF StepBytes, OpenLabels
<1>5. CASE UNCHANGED <<state, declared_size>>
    <2>1. \A s \in Sessions : RowBytes(s)'
        BY <1>1, <1>5, BytesFrame DEF Bytes
    <2> QED
        BY <1>4, <2>1 DEF Bytes, Serial
<1>6. CASE OpenCreateSession(h)
    <2>1. PICK s \in Sessions : s = target(h)
        BY <1>6 DEF OpenCreateSession, HandlerTypes
    <2>2. /\ state[s] = "absent" /\ part[s] = NoFile /\ DOMAIN chunks[s] = {} /\ nodes[s] = 0
        BY <1>6, <2>1 DEF OpenCreateSession, RowInv, OpenIsFresh, RowOfNode, OpenLabels,
                          Bytes, RowBytes, Backing, ChunkRows, OwnerTypes
    <2>3. /\ state'[s] = "open"
          /\ \A t \in Sessions : t # s =>
                state'[t] = state[t] /\ declared_size'[t] = declared_size[t]
        BY <1>6, <2>1 DEF OpenCreateSession, create_tx, SessionTypes
    <2>4. RowBytes(s)'
        BY <1>1, <2>2, <2>3 DEF RowBytes, NoFile
    <2>5. \A t \in Sessions : t # s => RowBytes(t)'
        BY <1>1, <2>3, BytesFrame DEF Bytes
    <2> QED
        BY <1>4, <2>4, <2>5 DEF Bytes, Serial
<1> QED
    BY <1>5, <1>6 DEF OpenStep, OpenLockUser, OpenSumReserved, dbVars

\* A chunk is written within the file, and is in the file before it is recorded.
LEMMA PutBytes ==
    ASSUME Serial, WellSized, BytesInv, NEW h \in Handlers, PutStep(h) PROVE Bytes'
<1> USE DEF BytesInv, BackingInv, CourseInv, RowLifeInv, TypeOK
<1>0. PICK s \in Sessions, i \in Nat, n \in Nat :
        s = target(h) /\ i = req[h].index /\ n = req[h].size
    BY DEF PutStep, PutChunkSize, PutOpenPart, PutWritePart, PutWriteFails, PutRecordChunk,
           PutAddReceived, HandlerTypes, Request
<1>1. /\ pc[h] \in PutLabels /\ state[s] \in {"open", "deleted"} /\ Fits(s, i, n)
      /\ \A t \in Sessions : RowBytes(t)
      /\ UNCHANGED <<state, declared_size, nodes, purged>> /\ nodes[s] \in Nat
    BY <1>0
    DEF PutStep, PutChunkSize, PutOpenPart, PutWritePart, PutWriteFails, PutRecordChunk,
                PutAddReceived, Course, CourseOf, Backing, PutCourse, PutLabels, Bytes,
                OwnerTypes, dbVars, userVars
<1>2. fd[h] # "none" => pc[h] = "write_part" /\ fd[h] \in {"part", "unlinked"}
    BY DEF Bytes, StepBytes
<1>3. ASSUME Return(h) PROVE StepBytes(h)'
    BY <1>3 DEF Return, StepBytes, HandlerTypes
<1>4. CASE /\ UNCHANGED <<part, blob, chunks>>
           /\ Return(h) \/ PutChunkSize(h) \/ PutAddReceived(h)
    <2>1. StepBytes(h)'
        <3>1. CASE Return(h)
            BY <1>3, <3>1
        <3>2. CASE PutChunkSize(h) /\ Goto(h, "open_part") /\ UNCHANGED fd
            <4>1. pc'[h] = "open_part" /\ fd'[h] = "none"
                BY <1>2, <3>2 DEF PutChunkSize, Goto, HandlerTypes
            <4> QED
                BY <4>1 DEF StepBytes
        <3> QED
            BY <1>4, <3>1, <3>2 DEF PutChunkSize, PutAddReceived
    <2>2. \A t \in Sessions : RowBytes(t)'
        BY <1>1, <1>4, BytesFrame
    <2> QED
        BY <2>1, <2>2 DEF Bytes, Serial
<1>5. CASE PutOpenPart(h)
    <2>1. /\ part' = [part EXCEPT ![s] = Written(part[s], {})]
          /\ UNCHANGED <<blob, chunks, req>>
          /\ pc'[h] = "write_part" /\ fd'[h] = "part"
        BY <1>0, <1>5 DEF PutOpenPart, Goto, HandlerTypes, dbVars
    <2>2. /\ part'[s].linked /\ part'[s].bytes = part[s].bytes
          /\ \A t \in Sessions : t # s => part'[t] = part[t]
        BY <2>1 DEF FileTypes, File, Written
    <2>3. RowBytes(s)'
        BY <1>1, <2>1, <2>2 DEF RowBytes, Content
    <2>4. \A t \in Sessions : t # s => RowBytes(t)'
        BY <1>1, <2>1, <2>2, BytesFrame
    <2>5. StepBytes(h)'
        BY <1>0, <2>1, <2>2 DEF StepBytes
    <2> QED
        BY <2>3, <2>4, <2>5 DEF Bytes, Serial
<1>6. ASSUME NEW m \in 0 .. n, pc[h] = "write_part", WriteOpenFile(h, Span(i, m)),
             UNCHANGED chunks
      PROVE  /\ \A t \in Sessions : RowBytes(t)'
             /\ state[s] = "open" => part'[s].linked /\ Span(i, m) \subseteq part'[s].bytes
    <2>1. UNCHANGED blob
        BY <1>2, <1>6 DEF WriteOpenFile
    <2>2. \A t \in Sessions : t # s => part'[t] = part[t]
        BY <1>0, <1>6 DEF WriteOpenFile
    <2>3. \A t \in Sessions : t # s => RowBytes(t)'
        BY <1>1, <1>6, <2>1, <2>2, BytesFrame
    <2>4. CASE state[s] = "deleted"
        <3>1. RowBytes(s)'
            BY <1>1, <2>1, <2>4, BytesFrame
        <3> QED
            BY <2>3, <2>4, <3>1
    <2>5. CASE state[s] = "open"
        <3>1. fd[h] = "part" /\ part[s].linked
            BY <1>0, <1>6, <2>5 DEF Bytes, StepBytes
        <3>2. part'[s].linked /\ part'[s].bytes = part[s].bytes \cup Span(i, m)
            BY <1>0, <1>6, <3>1 DEF WriteOpenFile, Written, FileTypes
        <3>3. Span(i, m) \subseteq Content(s)
            BY <1>1, <1>6, SpanFits
        <3>4. CASE nodes[s] > 0
            BY <1>1, <2>1, <2>3, <2>5, <3>2, <3>4, BytesOfNode
        <3>5. CASE nodes[s] = 0
            <4> HIDE DEF Span
            <4>1. UNCHANGED <<blob, nodes, state, declared_size, chunks>>
                BY <1>1, <1>6, <2>1
            <4>2. part'[s].bytes \subseteq Content(s)
                BY <1>1, <2>5, <3>2, <3>3, <3>5 DEF RowBytes
            <4>3. \A j \in DOMAIN chunks[s] : Span(j, chunks[s][j]) \subseteq part'[s].bytes
                BY <1>1, <2>5, <3>2, <3>5 DEF RowBytes
            <4>4. \A j, k : Span(j, k)' = Span(j, k)
                BY DEF Span, chunk_offset
            <4>5. Content(s)' = Content(s)
                BY <1>1 DEF Content
            <4>6. RowBytes(s)'
                BY <1>1, <2>5, <3>2, <3>5, <4>1, <4>2, <4>3, <4>4, <4>5 DEF RowBytes
            <4> QED
                BY <2>3, <3>2, <4>6
        <3> QED
            BY <1>1, <3>4, <3>5
    <2> QED
        BY <1>1, <2>4, <2>5
<1>7. CASE PutWritePart(h)
    <2>1. /\ WriteOpenFile(h, Span(i, n)) /\ UNCHANGED <<chunks, req>>
          /\ pc[h] = "write_part" /\ pc'[h] = "record_chunk" /\ fd'[h] = "none"
        BY <1>0, <1>7 DEF PutWritePart, ChunkBytes, Span, Goto, HandlerTypes, dbVars
    <2>2. n \in 0 .. n
        OBVIOUS
    <2>3. /\ \A t \in Sessions : RowBytes(t)'
          /\ state[s] = "open" => part'[s].linked /\ Span(i, n) \subseteq part'[s].bytes
        BY <1>6, <2>1, <2>2
    <2>4. Span(i, n)' = Span(i, n)
        BY DEF Span, chunk_offset
    <2>5. StepBytes(h)'
        BY <1>0, <1>1, <2>1, <2>3, <2>4 DEF StepBytes
    <2> QED
        BY <2>3, <2>5 DEF Bytes, Serial
<1>8. CASE PutWriteFails(h)
    <2>1. PICK m \in 0 .. n - 1 : WriteOpenFile(h, Span(i, m))
        BY <1>0, <1>8 DEF PutWriteFails, ChunkBytes, Span
    <2>2. m \in 0 .. n /\ pc[h] = "write_part" /\ UNCHANGED chunks /\ Return(h)
        BY <1>8 DEF PutWriteFails, dbVars
    <2>3. \A t \in Sessions : RowBytes(t)'
        BY <1>6, <2>1, <2>2
    <2> QED
        BY <1>3, <2>2, <2>3 DEF Bytes, Serial
<1>9. CASE PutRecordChunk(h)
    <2>1. UNCHANGED <<part, blob>> /\ pc[h] = "record_chunk"
        BY <1>9 DEF PutRecordChunk, fsVars
    <2>2. CASE state[s] = "deleted"
        BY <1>0, <1>4, <1>9, <2>1, <2>2 DEF PutRecordChunk, Present
    <2>3. CASE state[s] = "open"
        <3>1. /\ record_chunk(s, i, n) /\ Goto(h, "add_received") /\ UNCHANGED <<req, fd>>
            BY <1>0, <1>9, <2>3 DEF PutRecordChunk, Present
        <3>2. /\ DOMAIN chunks'[s] = DOMAIN chunks[s] \cup {i} /\ chunks'[s][i] = n
              /\ \A j \in DOMAIN chunks[s] : j # i => chunks'[s][j] = chunks[s][j]
              /\ \A t \in Sessions : t # s => chunks'[t] = chunks[t]
            BY <3>1 DEF record_chunk, SessionTypes
        <3>3. part[s].linked /\ Span(i, n) \subseteq part[s].bytes
            BY <1>0, <2>1, <2>3 DEF Bytes, StepBytes
        <3>4. nodes[s] = 0 =>
                 \A j \in DOMAIN chunks'[s] : Span(j, chunks'[s][j]) \subseteq part[s].bytes
            BY <1>1, <2>3, <3>2, <3>3 DEF RowBytes
        <3>5. RowBytes(s)'
            <4>1. \A j, k : Span(j, k)' = Span(j, k)
                BY DEF Span, chunk_offset
            <4>2. Content(s)' = Content(s)
                BY <1>1 DEF Content
            <4> QED
                BY <1>1, <2>1, <2>3, <3>3, <3>4, <4>1, <4>2 DEF RowBytes
        <3>6. \A t \in Sessions : t # s => RowBytes(t)'
            BY <1>1, <2>1, <3>2, BytesFrame
        <3>7. StepBytes(h)'
            BY <1>2, <2>1, <3>1 DEF Goto, StepBytes, HandlerTypes
        <3> QED
            BY <3>5, <3>6, <3>7 DEF Bytes, Serial
    <2> QED
        BY <1>1, <2>2, <2>3
<1>10. CASE PutChunkSize(h) \/ PutAddReceived(h)
    BY <1>4, <1>10 DEF PutChunkSize, PutAddReceived, dbVars, fsVars
<1> QED
    BY <1>5, <1>7, <1>8, <1>9, <1>10 DEF PutStep

\* persist_node finds the room that its session holds.
LEMMA PersistFits ==
    ASSUME CourseInv, Room, NEW s \in Sessions, s \in Held
    PROVE  used_bytes + declared_size[s] <= quota_bytes
<1> USE DEF CourseInv, RowLifeInv
<1> DEFINE rest == Sum(declared_size, Held \ {s})
<1>1. Held \subseteq Sessions /\ Held \ {s} \subseteq Sessions
    BY DEF Held
<1>2. /\ IsFiniteSet(Held) /\ \A t \in Held : declared_size[t] \in Nat
      /\ rest \in Nat
    BY <1>1, SessionSums
<1>3. Sum(declared_size, Held) = declared_size[s] + rest
    BY <1>2, SumElement
<1>4. used_bytes \in Nat /\ quota_bytes \in Nat /\ declared_size[s] \in Nat
    BY DEF TypeOK, OwnerTypes, SessionTypes
<1> HIDE DEF rest
<1> QED
    BY <1>2, <1>3, <1>4 DEF Room

\* complete claims a whole file, and finds it at tmp_key or at storage_key.
LEMMA CompleteBytes ==
    ASSUME Serial, WellSized, Faults \cap {"persist", "rename"} = {}, BytesInv,
           NEW h \in Handlers, CompleteStep(h)
    PROVE  Bytes'
<1> USE DEF BytesInv, BackingInv, CourseInv, RowLifeInv, TypeOK
<1>0. PICK s \in Sessions : s = target(h)
    BY DEF CompleteStep, CompleteCountChunks, CompleteClaim, CompleteExistingNode,
           CompleteFinalize, PersistLockUser, PersistCommit, PersistFails, CompleteMark,
           CompleteReopen, CompleteTransition, HandlerTypes
<1>1. /\ fd[h] = "none" /\ StepBytes(h) /\ CourseOf(h) /\ RowCourse(s)
      /\ pc[h] \in CompleteLabels
      /\ \A t \in Sessions : RowBytes(t)
      /\ UNCHANGED <<declared_size, chunks, purged>> /\ nodes[s] \in Nat
    BY DEF CompleteStep, CompleteCountChunks, CompleteClaim, CompleteExistingNode,
           CompleteFinalize, PersistLockUser, PersistCommit, PersistFails, CompleteMark,
           CompleteReopen, CompleteTransition, CompleteLabels, MaterializeLabels, Bytes,
           StepBytes, Course, OwnerTypes, dbVars, userVars
<1>2. ASSUME fd'[h] = "none",
             pc'[h] \in {"idle", "existing_node", "finalize", "mark_completed"}
      PROVE  StepBytes(h)'
    BY <1>2 DEF StepBytes
<1>3. Content(s)' = Content(s) /\ chunk_count(s)' = chunk_count(s)
      /\ count_chunks(s)' = count_chunks(s)
    BY <1>1 DEF Content, chunk_count, count_chunks
<1>4. ASSUME UNCHANGED <<state, part, blob, nodes>> PROVE \A t \in Sessions : RowBytes(t)'
    BY <1>1, <1>4, BytesFrame
<1>5. CASE CompleteCountChunks(h)
    <2>1. \A t \in Sessions : RowBytes(t)'
        BY <1>4, <1>5 DEF CompleteCountChunks, dbVars, userVars, fsVars
    <2>2. CASE Return(h)
        BY <1>2, <2>1, <2>2 DEF Return, Bytes, Serial, HandlerTypes
    <2>3. CASE /\ count_chunks(s) = chunk_count(s) /\ Goto(h, "claim") /\ UNCHANGED <<req, fd>>
        <3>1. pc'[h] = "claim" /\ fd'[h] = "none" /\ req'[h].session = s
            BY <1>0, <1>1, <2>3 DEF Goto, HandlerTypes
        <3>2. StepBytes(h)'
            BY <1>3, <2>3, <3>1 DEF StepBytes
        <3> QED
            BY <2>1, <3>2 DEF Bytes, Serial
    <2> QED
        BY <1>0, <1>5, <2>2, <2>3 DEF CompleteCountChunks
<1>6. CASE CompleteClaim(h)
    <2>1. /\ pc[h] = "claim" /\ UNCHANGED <<part, blob, nodes>>
          /\ StepBytes(h)'
        BY <1>1, <1>2, <1>6 DEF CompleteClaim, Return, Goto, userVars, fsVars, HandlerTypes
    <2>2. CASE UNCHANGED state
        BY <1>4, <2>1, <2>2 DEF Bytes, Serial
    <2>3. CASE state[s] = "open" /\ transition_state(s, "open", "completing")
        <3>1. nodes[s] = 0 => part[s].linked /\ part[s].bytes = Content(s)
            BY <1>0, <1>1, <2>1, <2>3, AllChunksAreWhole DEF StepBytes, Backing
        <3>2. /\ state'[s] = "completing"
              /\ \A t \in Sessions : t # s => state'[t] = state[t]
            BY <2>3 DEF transition_state, Present, SessionTypes
        <3>3. RowBytes(s)'
            BY <1>1, <1>3, <2>1, <3>1, <3>2 DEF RowBytes
        <3>4. \A t \in Sessions : t # s => RowBytes(t)'
            BY <1>1, <2>1, <3>2, BytesFrame
        <3> QED
            BY <2>1, <3>3, <3>4 DEF Bytes, Serial
    <2> QED
        BY <1>0, <1>6, <2>2, <2>3 DEF CompleteClaim, transitions
<1>7. CASE CompleteExistingNode(h)
    <2>1. /\ pc[h] = "existing_node" /\ state[s] = "completing"
          /\ UNCHANGED <<state, part, blob, nodes, req>> /\ fd'[h] = "none"
          /\ req[h].node_id = nodes[s]
        BY <1>0, <1>1, <1>7 DEF CompleteExistingNode, CourseOf, RowCourse, MaterializeLabels,
                                dbVars, userVars, fsVars
    <2>2. \/ pc'[h] \in {"mark_completed", "finalize"}
          \/ pc'[h] = "reopen" /\ req[h].node_id # 0
        BY <1>7 DEF CompleteExistingNode, Goto, HandlerTypes
    <2>3. StepBytes(h)'
        BY <1>0, <1>1, <2>1, <2>2 DEF StepBytes
    <2> QED
        BY <1>4, <2>1, <2>3 DEF Bytes, Serial
<1>8. CASE CompleteFinalize(h)
    <2>1. /\ pc[h] = "finalize" /\ state[s] = "completing" /\ LiveNodes(s) = {}
          /\ UNCHANGED <<state, nodes, req>>
        BY <1>0, <1>1, <1>8 DEF CompleteFinalize, CourseOf, MaterializeLabels, dbVars, userVars
    <2>2. /\ \A t \in Sessions : t # s => part'[t] = part[t] /\ blob'[t] = blob[t]
          /\ pc'[h] \in {"lock_persist", "reopen"} /\ fd'[h] = "none"
        <3>1. pc'[h] \in {"lock_persist", "reopen"}
            BY <1>8 DEF CompleteFinalize, Goto, HandlerTypes
        <3>2. fd' = fd \/ fd' = Renamed(s)
            BY <1>0, <1>8 DEF CompleteFinalize
        <3>3. fd'[h] = "none"
            BY <1>1, <3>2 DEF Renamed
        <3> QED
            BY <1>0, <1>8, <3>1, <3>3 DEF CompleteFinalize, FileTypes
    <2>3. \A t \in Sessions : t # s => RowBytes(t)'
        BY <1>1, <2>1, <2>2, BytesFrame
    <2>4. CASE nodes[s] > 0
        <3>1. purged[s] # {}
            BY <1>1, <2>1, <2>4 DEF LiveNodes
        <3>2. RowBytes(s)'
            BY <1>1, <2>1, <2>4, <3>1, BytesOfNode
        <3>3. StepBytes(h)'
            BY <1>0, <2>1, <2>2, <2>4 DEF StepBytes
        <3> QED
            BY <2>3, <3>2, <3>3 DEF Bytes, Serial
    <2>5. CASE nodes[s] = 0
        <3>1. \/ part[s].linked /\ part[s].bytes = Content(s)
              \/ ~part[s].linked /\ blob[s].linked /\ blob[s].bytes = Content(s)
            BY <1>1, <2>1, <2>5 DEF RowBytes
        <3>2. /\ pc'[h] = "lock_persist"
              /\ ~part'[s].linked /\ blob'[s].linked /\ blob'[s].bytes = Content(s)
            <4>1. CASE part[s].linked
                <5>1. /\ part' = [part EXCEPT ![s] = NoFile]
                      /\ blob' = [blob EXCEPT ![s] = part[s]] /\ Goto(h, "lock_persist")
                    BY <1>0, <1>8, <4>1 DEF CompleteFinalize
                <5> QED
                    BY <3>1, <4>1, <5>1 DEF Goto, HandlerTypes, FileTypes, NoFile
            <4>2. CASE ~part[s].linked
                BY <1>0, <1>8, <3>1, <4>2
                DEF CompleteFinalize, finalized_before, Goto, HandlerTypes
            <4> QED
                BY <4>1, <4>2
        <3>3. RowBytes(s)'
            BY <1>3, <2>1, <3>2 DEF RowBytes
        <3>4. StepBytes(h)'
            BY <1>0, <1>3, <2>1, <2>2, <3>2 DEF StepBytes
        <3> QED
            BY <2>3, <3>3, <3>4 DEF Bytes, Serial
    <2> QED
        BY <1>1, <2>4, <2>5
<1>9. CASE PersistLockUser(h)
    <2>1. pc[h] = "lock_persist" /\ s \in Held
        BY <1>0, <1>1, <1>9 DEF PersistLockUser, CourseOf, MaterializeLabels, Held
    <2>2. used_bytes + declared_size[s] <= quota_bytes
        BY <2>1, PersistFits
    <2>3. used_bytes \in Nat /\ declared_size[s] \in Nat /\ quota_bytes \in Nat
        BY DEF OwnerTypes, SessionTypes
    <2>4. pc'[h] = "persist" /\ UNCHANGED <<state, part, blob, nodes, req, fd>>
        BY <1>0, <1>9, <2>2, <2>3 DEF PersistLockUser, Goto, HandlerTypes, dbVars, fsVars
    <2>5. StepBytes(h)'
        BY <1>0, <1>1, <1>3, <2>1, <2>4 DEF StepBytes
    <2> QED
        BY <1>4, <2>4, <2>5 DEF Bytes, Serial
<1>10. CASE PersistCommit(h)
    <2>1. /\ pc[h] = "persist" /\ state[s] = "completing" /\ LiveNodes(s) = {}
          /\ UNCHANGED <<state, part, blob>> /\ nodes'[s] = nodes[s] + 1
          /\ \A t \in Sessions : t # s => nodes'[t] = nodes[t]
        BY <1>0, <1>1, <1>10 DEF PersistCommit, CourseOf, MaterializeLabels, fsVars,
                                 OwnerTypes
    <2>2. RowBytes(s)'
        <3>1. CASE nodes[s] = 0
            <4>1. blob[s].bytes = Content(s)
                BY <1>0, <1>1, <2>1, <3>1 DEF StepBytes
            <4> QED
                BY <1>1, <1>3, <2>1, <3>1, <4>1 DEF RowBytes
        <3>2. CASE nodes[s] > 0
            <4>1. purged[s] # {}
                BY <1>1, <2>1, <3>2 DEF LiveNodes
            <4> QED
                BY <1>1, <2>1, <4>1, BytesOfNode
        <3> QED
            BY <1>1, <3>1, <3>2
    <2>3. \A t \in Sessions : t # s => RowBytes(t)'
        BY <1>1, <2>1, BytesFrame
    <2>4. StepBytes(h)'
        BY <1>1, <1>2, <1>10 DEF PersistCommit, Goto, HandlerTypes
    <2> QED
        BY <2>2, <2>3, <2>4 DEF Bytes, Serial
<1>11. CASE CompleteMark(h)
    <2>1. /\ transition_state(s, "completing", "completed")
          /\ UNCHANGED <<part, blob, nodes>> /\ Return(h)
        BY <1>0, <1>11 DEF CompleteMark, CompleteTransition, userVars, fsVars
    <2>2. \A t \in Sessions : state'[t] = state[t] \/ state'[t] = "completed"
        BY <2>1, TransitionEffect
    <2>3. \A t \in Sessions : RowBytes(t)'
        BY <1>1, <2>1, <2>2, BytesFrame
    <2>4. StepBytes(h)'
        BY <1>2, <2>1 DEF Return, HandlerTypes
    <2> QED
        BY <2>3, <2>4 DEF Bytes, Serial
<1>12. CASE CompleteReopen(h)
    <2>1. /\ transition_state(s, "completing", "open") /\ nodes[s] > 0
          /\ UNCHANGED <<part, blob, nodes>> /\ Return(h)
        BY <1>0, <1>1, <1>12
        DEF CompleteReopen, CompleteTransition, StepBytes, userVars, fsVars
    <2>2. \A t \in Sessions : IF t = s THEN state'[t] \in {state[t], "open"}
                                      ELSE state'[t] = state[t]
        BY <2>1 DEF transition_state, SessionTypes
    <2>3. state[s] # "absent"
        BY <2>1 DEF RowInv, RowOfNode
    <2>4. RowBytes(s)'
        BY <1>1, <2>1, <2>2, <2>3, BytesOfNode
    <2>5. \A t \in Sessions : t # s => RowBytes(t)'
        BY <1>1, <2>1, <2>2, BytesFrame
    <2>6. StepBytes(h)'
        BY <1>2, <2>1 DEF Return, HandlerTypes
    <2> QED
        BY <2>4, <2>5, <2>6 DEF Bytes, Serial
<1>13. ~PersistFails(h)
    BY DEF PersistFails
<1> QED
    BY <1>5, <1>6, <1>7, <1>8, <1>9, <1>10, <1>11, <1>12, <1>13 DEF CompleteStep

\* A purge is over the bytes of its node: it has deleted the row by the time it unlinks.
LEMMA PurgeBytes ==
    ASSUME Serial, BytesInv, NEW h \in Handlers, PurgeStep(h) PROVE Bytes'
<1> USE DEF BytesInv, BackingInv, CourseInv, RowLifeInv, TypeOK
<1>0. PICK s \in Sessions : s = target(h)
    BY DEF PurgeStep, PurgeSelect, PurgeSum, PurgeCommit, PurgeUnlink, HandlerTypes
<1>1. /\ pc[h] \in PurgeLabels /\ fd[h] = "none" /\ \A t \in Sessions : RowBytes(t)
      /\ UNCHANGED <<state, declared_size, chunks, part, nodes>>
    BY DEF PurgeStep, PurgeSelect, PurgeSum, PurgeCommit, PurgeUnlink, PurgeLabels, Bytes,
           StepBytes, dbVars, userVars, fsVars
<1>2. StepBytes(h)'
    <2>1. pc'[h] \in PurgeLabels \cup {"idle"}
        BY DEF PurgeStep, PurgeSelect, PurgeSum, PurgeCommit, PurgeUnlink, PurgeLabels,
               Return, Goto, HandlerTypes
    <2>2. fd'[h] = "none"
        BY <1>1 DEF PurgeStep, PurgeSelect, PurgeSum, PurgeCommit, PurgeUnlink, Return,
                    HandlerTypes
    <2> QED
        BY <2>1, <2>2 DEF StepBytes, PurgeLabels
<1>3. CASE UNCHANGED blob
    <2>1. \A t \in Sessions : purged[t] \subseteq purged'[t]
        BY DEF PurgeStep, PurgeSelect, PurgeSum, PurgeCommit, PurgeUnlink, OwnerTypes,
               userVars
    <2>2. \A t \in Sessions : RowBytes(t)'
        BY <1>1, <1>3, <2>1, BytesFrame
    <2> QED
        BY <1>2, <2>2 DEF Bytes, Serial
<1>4. CASE PurgeUnlink(h)
    <2>1. /\ purged[s] # {} /\ UNCHANGED purged
          /\ \A t \in Sessions : t # s => blob'[t] = blob[t]
        BY <1>0, <1>4 DEF PurgeUnlink, BlobInv, FileTypes, userVars
    <2>2. nodes[s] > 0 /\ nodes[s] \in Nat
        BY <2>1 DEF Course, RowCourse, OwnerTypes
    <2>3. state[s] # "absent"
        BY <2>2 DEF RowInv, RowOfNode
    <2>4. RowBytes(s)'
        BY <1>1, <2>1, <2>2, <2>3, BytesOfNode
    <2>5. \A t \in Sessions : t # s => RowBytes(t)'
        BY <1>1, <2>1, BytesFrame
    <2> QED
        BY <1>2, <2>4, <2>5 DEF Bytes, Serial
<1> QED
    BY <1>3, <1>4 DEF PurgeStep, PurgeSelect, PurgeSum, PurgeCommit, fsVars

\* An abort, and the loss of a request, leave the files of live sessions alone.
LEMMA AbortBytes ==
    ASSUME Serial, BytesInv, NEW h \in Handlers, AbortStep(h) \/ Drop(h) PROVE Bytes'
<1> USE DEF BytesInv, BackingInv, CourseInv, RowLifeInv, TypeOK
<1>0. PICK s \in Sessions : s = target(h)
    BY DEF AbortStep, AbortTransition, AbortUnlink, Drop, HandlerTypes
<1>1. /\ CourseOf(h) /\ StepBytes(h) /\ \A t \in Sessions : RowBytes(t)
      /\ UNCHANGED <<declared_size, chunks, blob, nodes, purged>>
    BY
    DEF AbortStep, AbortTransition, AbortUnlink, Drop, Bytes, Course, dbVars, userVars, fsVars
<1>2. CASE AbortTransition(h)
    <2>1. /\ transition_state(s, req[h].state, "aborted") /\ UNCHANGED part
          /\ pc[h] = "abort_transition" /\ pc'[h] = "abort_unlink" /\ UNCHANGED fd
        BY <1>0, <1>2 DEF AbortTransition, Goto, HandlerTypes, fsVars
    <2>2. \A t \in Sessions : state'[t] = state[t] \/ state'[t] = "aborted"
        BY <2>1, TransitionEffect
    <2>3. \A t \in Sessions : RowBytes(t)'
        BY <1>1, <2>1, <2>2, BytesFrame
    <2>4. StepBytes(h)'
        BY <1>1, <2>1 DEF StepBytes
    <2> QED
        BY <2>3, <2>4 DEF Bytes, Serial
<1>3. CASE AbortUnlink(h)
    <2>1. /\ state[s] \in {"aborted", "deleted"} /\ UNCHANGED state
          /\ \A t \in Sessions : t # s => part'[t] = part[t]
          /\ pc[h] = "abort_unlink" /\ pc'[h] = "idle"
        BY <1>0, <1>1, <1>3
        DEF AbortUnlink, UnlinkPart, CourseOf, HandlerTypes, FileTypes, dbVars
    <2>2. fd[h] = "none" /\ (fd' = Unlinked(s) \/ UNCHANGED fd)
        BY <1>0, <1>1, <1>3, <2>1 DEF AbortUnlink, StepBytes
    <2>3. fd'[h] = "none"
        BY <2>2 DEF Unlinked
    <2>4. \A t \in Sessions : RowBytes(t)'
        BY <1>1, <2>1, BytesFrame
    <2>5. StepBytes(h)'
        BY <2>1, <2>3 DEF StepBytes
    <2> QED
        BY <2>4, <2>5 DEF Bytes, Serial
<1>4. CASE Drop(h)
    <2>1. /\ UNCHANGED <<state, part>> /\ pc'[h] = "idle" /\ fd'[h] = "none"
        BY <1>4 DEF Drop, Return, HandlerTypes, dbVars, fsVars
    <2>2. \A t \in Sessions : RowBytes(t)'
        BY <1>1, <2>1, BytesFrame
    <2>3. StepBytes(h)'
        BY <2>1 DEF StepBytes
    <2> QED
        BY <2>2, <2>3 DEF Bytes, Serial
<1> QED
    BY <1>2, <1>3, <1>4 DEF AbortStep

\* Every step keeps the bytes of every session whole.
LEMMA BytesNext ==
    ASSUME Serial, WellSized, Faults \cap {"persist", "rename"} = {}
    PROVE  BytesInv /\ [Next]_vars => Bytes'
<1> SUFFICES ASSUME BytesInv, [Next]_vars PROVE Bytes'
    OBVIOUS
<1> USE DEF BytesInv, BackingInv, CourseInv, RowLifeInv, TypeOK
<1>1. ASSUME UNCHANGED <<pc, req, declared_size, nodes>>,
             \A h \in Handlers : fd'[h] = fd[h] \/ (pc[h] = "write_part" /\ fd'[h] = "unlinked"
                                                    /\ state'[target(h)] = "deleted"),
             \A s \in Sessions :
                \/ /\ state'[s] = state[s] /\ part'[s] = part[s] /\ blob'[s] = blob[s]
                   /\ chunks'[s] = chunks[s]
                \/ blob'[s] = blob[s] /\ state[s] \in {"open", "aborted", "deleted"}
                   /\ state'[s] = "deleted"
      PROVE  \A h \in Handlers : StepBytes(h)'
    <2> SUFFICES ASSUME NEW h \in Handlers PROVE StepBytes(h)'
        OBVIOUS
    <2>1. StepBytes(h) /\ CourseOf(h)
        BY DEF Bytes, Course
    <2>2. CASE pc[h] = "idle"
        BY <1>1, <2>1, <2>2 DEF StepBytes
    <2>3. CASE pc[h] # "idle"
        <3>1. PICK s \in Sessions : s = target(h)
            BY <2>3 DEF HandlerTypes
        <3>2. /\ Content(s)' = Content(s) /\ chunk_count(s)' = chunk_count(s)
              /\ chunks'[s] = chunks[s] => count_chunks(s)' = count_chunks(s)
              /\ \A i, n : Span(i, n)' = Span(i, n)
            BY <1>1 DEF Content, chunk_count, count_chunks, Span, chunk_offset
        <3> QED
            BY <1>1, <2>1, <3>1, <3>2 DEF StepBytes
    <2> QED
        BY <2>2, <2>3
<1>2. CASE (\E s \in Sessions : Expire(s)) \/ (\E quota \in Quotas : SetQuota(quota))
           \/ GcScan \/ UNCHANGED vars
    <2>1. UNCHANGED <<state, declared_size, chunks, part, blob, nodes, purged, pc, req, fd>>
        BY <1>2 DEF Expire, SetQuota, GcScan, vars, dbVars, userVars, fsVars, handlerVars
    <2>2. \A s \in Sessions : RowBytes(s)'
        BY <2>1, BytesFrame DEF Bytes
    <2>3. \A h \in Handlers : StepBytes(h)'
        BY <1>1, <2>1
    <2> QED
        BY <2>2, <2>3 DEF Bytes
<1>3. CASE GcDelete
    <2>1. PICK s \in gcBatch : delete_if_expired(s)
        BY <1>3 DEF GcDelete
    <2>2. UNCHANGED <<declared_size, part, blob, nodes, purged, pc, req, fd>>
        BY <1>3 DEF GcDelete, userVars, fsVars, handlerVars
    <2>3. \A t \in Sessions :
              \/ state'[t] = state[t] /\ chunks'[t] = chunks[t]
              \/ state[t] \in {"open", "aborted"} /\ state'[t] = "deleted"
        BY <2>1 DEF delete_if_expired, Reclaimable, SessionTypes
    <2>4. \A t \in Sessions : RowBytes(t)'
        BY <2>2, <2>3, BytesFrame DEF Bytes
    <2>5. \A h \in Handlers : StepBytes(h)'
        BY <1>1, <2>2, <2>3
    <2> QED
        BY <2>4, <2>5 DEF Bytes
<1>4. CASE GcUnlink
    <2>1. PICK s \in Sessions : s = gcSession
        BY <1>4 DEF GcUnlink, CollectorTypes
    <2>2. state[s] = "deleted"
        BY <2>1 DEF CollectorInv
    <2>3. /\ UNCHANGED <<state, declared_size, chunks, blob, nodes, purged, pc, req>>
          /\ \A t \in Sessions : t # s => part'[t] = part[t]
          /\ fd' = Unlinked(s) \/ UNCHANGED fd
        BY <1>4, <2>1 DEF GcUnlink, UnlinkPart, FileTypes, dbVars, userVars
    <2>4. \A t \in Sessions : RowBytes(t)'
        BY <2>2, <2>3, BytesFrame DEF Bytes
    <2>5. \A h \in Handlers : fd[h] = "part" => pc[h] = "write_part"
        BY DEF Bytes, StepBytes
    <2>6. \A h \in Handlers : \/ fd'[h] = fd[h]
                              \/ pc[h] = "write_part" /\ fd'[h] = "unlinked" /\ target(h) = s
        BY <2>3, <2>5 DEF Unlinked
    <2>7. \A h \in Handlers : StepBytes(h)'
        BY <1>1, <2>2, <2>3, <2>6
    <2> QED
        BY <2>4, <2>7 DEF Bytes
<1>5. CASE Crash
    <2>1. /\ UNCHANGED <<state, declared_size, chunks, part, blob, nodes, purged>>
          /\ \A h \in Handlers : pc'[h] = "idle" /\ fd'[h] = "none"
        BY <1>5 DEF Crash, dbVars, fsVars
    <2>2. \A s \in Sessions : RowBytes(s)'
        BY <2>1, BytesFrame DEF Bytes
    <2> QED
        BY <2>1, <2>2 DEF StepBytes, Bytes
<1>6. ASSUME NEW h \in Handlers, HandlerStep(h) \/ Drop(h) PROVE Bytes'
    BY <1>6, OpenBytes, PutBytes, CompleteBytes, AbortBytes, PurgeBytes DEF HandlerStep
<1> QED
    BY <1>2, <1>3, <1>4, <1>5, <1>6, ArrivalBytes DEF Next, GcNext

\* The blob behind a node holds exactly the bytes declared as long as no node of its
\* session was purged, for a client that waits for its answers and cuts the file as the
\* tests do, while the quota stays and neither persist_node nor the rename fails: then no
\* session is opened again after its file was finalized.
THEOREM WholeBlobs ==
    ASSUME Serial, WellSized, Quotas = {}, Faults \cap {"persist", "rename"} = {}
    PROVE  Spec => []FirstBlobIsWhole
<1>1. Init => Bytes
    BY DEF Init, Bytes, StepBytes, RowBytes, NoFile
<1>2. BackingInv /\ Room /\ CollectorInv /\ BlobInv /\ Bytes /\ [Next]_vars => Bytes'
    BY BytesNext DEF BytesInv
<1>3. Bytes => FirstBlobIsWhole
    BY DEF Bytes, RowBytes, FirstBlobIsWhole
<1>4. OwnerInv => BlobInv
    BY DEF OwnerInv
<1> QED
    BY <1>1, <1>2, <1>3, <1>4, BackingInvariant, RoomInvariant, RowLifeInvariant,
       OwnerInvariant, PTL DEF Spec
=============================================================================
