--------------------------- MODULE UploadRefinement ---------------------------
(***************************************************************************)
(* UploadSession implements UploadLifecycle, for every number of sessions  *)
(* and concurrent requests and every combination of failures: initial      *)
(* states map to initial states, every step to a step or a stutter.        *)
(***************************************************************************)
EXTENDS UploadSessionProofs

USE DEF Sessions, NoSession, target

\* What a purge in flight has seen: a node that was made, and what it is charged.
PurgeInv ==
    \A h \in Handlers :
        /\ pc[h] \in PurgeLabels => req[h].node_id \in 1 .. nodes[target(h)]
        /\ pc[h] = "delete_nodes" => req[h].size \in {0, declared_size[target(h)]}

\* What the steps are mapped under: the invariants of UploadSessionProofs, and PurgeInv.
MapInv == OwnerInv /\ NodeInv /\ RowLifeInv /\ PurgeInv

\* A request is in a purge because it was and something else moved, because it has just
\* arrived with a node it saw, or by a step of its own.
LEMMA PurgeFlow ==
    ASSUME TypeOK, [Next]_vars, NEW h \in Handlers, pc'[h] \in PurgeLabels
    PROVE  \/ pc'[h] = pc[h] /\ req'[h] = req[h]
           \/ /\ req'[h].session \in Sessions
              /\ req'[h].node_id \in LiveNodes(req'[h].session)
              /\ UNCHANGED <<nodes, declared_size>> /\ pc'[h] = "select_blobs"
           \/ /\ pc[h] \in PurgeLabels /\ req'[h].node_id = req[h].node_id
              /\ req'[h].session = target(h) /\ UNCHANGED <<nodes, declared_size>>
              /\ pc'[h] = "delete_nodes" => req'[h].size \in {0, declared_size[target(h)]}
<1> USE DEF TypeOK, HandlerTypes
<1>1. ASSUME NEW g \in Handlers, g # h, Arrival(g) \/ HandlerStep(g) \/ Drop(g)
      PROVE  pc'[h] = pc[h] /\ req'[h] = req[h]
    BY <1>1
    DEF Arrival, OpenReceive, PutReceive, CompleteReceive, AbortReceive, PurgeReceive, Receive,
        HandlerStep, OpenStep, OpenLockUser, OpenSumReserved, OpenRefused, OpenCreateSession,
        PutStep, PutChunkSize, PutOpenPart, PutWritePart, PutWriteFails, PutRecordChunk,
        PutAddReceived, CompleteStep, CompleteCountChunks, CompleteClaim,
        CompleteExistingNode, CompleteFinalize, PersistLockUser, PersistCommit, PersistFails,
        CompleteMark, CompleteReopen, CompleteTransition, AbortStep, AbortTransition,
        AbortUnlink, PurgeStep, PurgeSelect, PurgeSum, PurgeCommit, PurgeUnlink, Drop, Return,
        Goto
<1>2. ASSUME Arrival(h)
      PROVE  /\ req'[h].session \in Sessions
             /\ req'[h].node_id \in LiveNodes(req'[h].session)
             /\ UNCHANGED <<nodes, declared_size>> /\ pc'[h] = "select_blobs"
    <2>0. PICK s \in Sessions : \E n \in LiveNodes(s) : PurgeReceive(h, s, n)
        BY <1>2 DEF Arrival, OpenReceive, PutReceive, CompleteReceive, AbortReceive, Receive,
                    PurgeLabels
    <2>1. PICK n \in LiveNodes(s) : PurgeReceive(h, s, n)
        BY <2>0
    <2>2. req'[h].session = s /\ req'[h].node_id = n
        BY <2>1 DEF PurgeReceive, Unread
    <2> QED
        BY <2>1, <2>2 DEF PurgeReceive, dbVars, userVars
<1>3. ASSUME PurgeStep(h)
      PROVE  /\ pc[h] \in PurgeLabels /\ req'[h].node_id = req[h].node_id
             /\ req'[h].session = target(h) /\ UNCHANGED <<nodes, declared_size>>
             /\ pc'[h] = "delete_nodes" => req'[h].size \in {0, declared_size[target(h)]}
    BY <1>3 DEF PurgeStep, PurgeSelect, PurgeSum, PurgeCommit, PurgeUnlink, PurgeLabels,
                Return, Goto, Request, dbVars, userVars
<1>4. ~(OpenStep(h) \/ PutStep(h) \/ CompleteStep(h) \/ AbortStep(h) \/ Drop(h))
    BY DEF OpenStep, OpenLockUser, OpenSumReserved, OpenRefused, OpenCreateSession,
           PutStep, PutChunkSize, PutOpenPart, PutWritePart, PutWriteFails, PutRecordChunk,
           PutAddReceived, CompleteStep, CompleteCountChunks, CompleteClaim,
           CompleteExistingNode, CompleteFinalize, PersistLockUser, PersistCommit,
           PersistFails, CompleteMark, CompleteReopen, CompleteTransition, AbortStep,
           AbortTransition, AbortUnlink, Drop, Return, Goto, PurgeLabels
<1>5. ASSUME (\E s \in Sessions : Expire(s)) \/ (\E quota \in Quotas : SetQuota(quota))
             \/ GcNext \/ UNCHANGED vars
      PROVE  UNCHANGED <<pc, req>>
    BY <1>5 DEF Expire, SetQuota, GcNext, GcScan, GcDelete, GcUnlink, vars, handlerVars
<1>6. ~Crash
    BY DEF Crash, PurgeLabels
<1> QED
    BY <1>1, <1>2, <1>3, <1>4, <1>5, <1>6 DEF Next, HandlerStep

\* The declared size of a session that has, or had, a row does not change.
LEMMA SizeStays ==
    ASSUME TypeOK, RowInv, [Next]_vars, NEW s \in Sessions, state[s] # "absent"
    PROVE  declared_size'[s] = declared_size[s]
<1>1. ASSUME NEW h \in Handlers, Arrival(h) \/ HandlerStep(h) \/ Drop(h)
      PROVE  declared_size'[s] = declared_size[s]
    <2>1. CASE OpenCreateSession(h)
        BY <2>1 DEF OpenCreateSession, create_tx, RowInv, OpenIsFresh, OpenLabels, TypeOK,
                    SessionTypes
    <2>2. CASE ~OpenCreateSession(h)
        BY <1>1, <2>2
        DEF Arrival, OpenReceive, PutReceive, CompleteReceive, AbortReceive, PurgeReceive,
            HandlerStep, OpenStep, OpenLockUser, OpenSumReserved, PutStep, PutChunkSize,
            PutOpenPart, PutWritePart, PutWriteFails, PutRecordChunk, PutAddReceived,
            CompleteStep, CompleteCountChunks, CompleteClaim, CompleteExistingNode,
            CompleteFinalize, PersistLockUser, PersistCommit, PersistFails, CompleteMark,
            CompleteReopen, CompleteTransition, AbortStep, AbortTransition, AbortUnlink,
            PurgeStep, PurgeSelect, PurgeSum, PurgeCommit, PurgeUnlink, Drop, dbVars
    <2> QED
        BY <2>1, <2>2
<1> QED
    BY <1>1 DEF Next, Expire, SetQuota, GcNext, GcScan, GcDelete, GcUnlink, Crash, vars, dbVars

\* The nodes that were made are there for good, if only among those that were purged.
LEMMA PurgeInvNext ==
    TypeOK /\ RowInv /\ PurgeInv /\ [Next]_vars => PurgeInv'
<1> SUFFICES ASSUME TypeOK, RowInv, PurgeInv, [Next]_vars, NEW h \in Handlers,
                    pc'[h] \in PurgeLabels
             PROVE  /\ req'[h].node_id \in 1 .. nodes'[req'[h].session]
                    /\ pc'[h] = "delete_nodes" =>
                          req'[h].size \in {0, declared_size'[req'[h].session]}
    BY DEF PurgeInv, PurgeLabels
<1> USE DEF TypeOK, HandlerTypes
<1>1. CASE pc'[h] = pc[h] /\ req'[h] = req[h]
    <2>1. PICK s \in Sessions : s = target(h)
        BY <1>1 DEF PurgeLabels
    <2>2. req[h].node_id \in 1 .. nodes[s] /\ nodes[s] \in Nat
        BY <1>1, <2>1 DEF PurgeInv, OwnerTypes
    <2>3. declared_size'[s] = declared_size[s]
        BY <2>2, SizeStays DEF RowInv, RowOfNode
    <2>4. nodes'[s] \in Nat /\ nodes[s] <= nodes'[s]
        <3>1. nodes'[s] = nodes[s] \/ \E g \in Handlers : PersistCommit(g) /\ target(g) = s
            BY NodesMove
        <3>2. ASSUME NEW g \in Handlers, PersistCommit(g), target(g) = s
              PROVE  nodes'[s] = nodes[s] + 1
            BY <3>2 DEF PersistCommit, OwnerTypes
        <3> QED
            BY <2>2, <3>1, <3>2
    <2> QED
        BY <1>1, <2>1, <2>2, <2>3, <2>4 DEF PurgeInv
<1>2. CASE /\ req'[h].session \in Sessions
           /\ req'[h].node_id \in LiveNodes(req'[h].session)
           /\ UNCHANGED <<nodes, declared_size>> /\ pc'[h] = "select_blobs"
    BY <1>2 DEF LiveNodes
<1>3. CASE /\ pc[h] \in PurgeLabels /\ req'[h].node_id = req[h].node_id
           /\ req'[h].session = target(h) /\ UNCHANGED <<nodes, declared_size>>
           /\ pc'[h] = "delete_nodes" => req'[h].size \in {0, declared_size[target(h)]}
    BY <1>3 DEF PurgeInv
<1> QED
    BY <1>1, <1>2, <1>3, PurgeFlow

\* The initial states agree.
LEMMA InitMaps == Init => Lifecycle!Init
BY QuotaAssumption DEF Init, Lifecycle!Init, NoFile

\* What changes none of the mapped variables is a stutter.
LEMMA Stutters ==
    ASSUME UNCHANGED <<state, declared_size, expired, nodes, purged, used_bytes,
                       quota_bytes>>,
           \A s \in Sessions : blob'[s].linked = blob[s].linked
    PROVE  UNCHANGED Lifecycle!vars
BY DEF Lifecycle!vars

\* A change of one row's state and of nothing else that is mapped.
LEMMA BecomeMaps ==
    ASSUME NEW s \in Sessions, NEW from, NEW to, state[s] \in from,
           state' = [state EXCEPT ![s] = to],
           UNCHANGED <<declared_size, expired, nodes, purged, used_bytes, quota_bytes, blob>>
    PROVE  Lifecycle!Become(s, from, to) /\ UNCHANGED declared_size
BY DEF Lifecycle!Become

\* The file of one session appears at its final place, or was there already.
LEMMA StoreMaps ==
    ASSUME NEW s \in Sessions, state[s] # "absent",
           UNCHANGED <<state, declared_size, expired, nodes, purged, used_bytes, quota_bytes>>,
           \A t \in Sessions \ {s} : blob'[t].linked = blob[t].linked,
           blob'[s].linked
    PROVE  Lifecycle!Store(s)
BY DEF Lifecycle!Store

\* The commit of open.
LEMMA OpenMaps ==
    ASSUME MapInv, NEW h \in Handlers, OpenCreateSession(h)
    PROVE  Lifecycle!Open(target(h))
<1> USE DEF MapInv, OwnerInv, RowInv, OpenIsFresh, OpenLabels, TypeOK, HandlerTypes, SessionTypes
<1>1. target(h) \in Sessions /\ state[target(h)] = "absent" /\ req[h].size \in Nat
    BY DEF OpenCreateSession, Request
<1>2. Lifecycle!Become(target(h), {"absent"}, "open")
    BY <1>1 DEF OpenCreateSession, create_tx, Lifecycle!Become, fsVars
<1>3. /\ declared_size' \in [Sessions -> Nat]
      /\ \A t \in Sessions \ {target(h)} : declared_size'[t] = declared_size[t]
    BY <1>1 DEF OpenCreateSession, create_tx
<1> QED
    BY <1>2, <1>3 DEF Lifecycle!Open

\* A guarded transition of a request in flight: the row moves, or nothing does.
LEMMA TransitionMaps ==
    ASSUME NEW s \in Sessions, NEW from, NEW to, transition_state(s, from, to),
           UNCHANGED <<declared_size, expired, nodes, purged, used_bytes, quota_bytes, blob>>
    PROVE  \/ Lifecycle!Become(s, {from}, to) /\ UNCHANGED declared_size
           \/ UNCHANGED Lifecycle!vars
<1>1. CASE Present(s) /\ state[s] = from
    BY <1>1 DEF transition_state, Lifecycle!Become
<1>2. CASE ~(Present(s) /\ state[s] = from)
    BY <1>2, Stutters DEF transition_state
<1> QED
    BY <1>1, <1>2

\* A request that completes an upload.
LEMMA CompleteMaps ==
    ASSUME MapInv, NEW h \in Handlers, CompleteStep(h)
    PROVE  \/ Lifecycle!Next \/ UNCHANGED Lifecycle!vars
<1>0. PICK s \in Sessions : s = target(h) /\ state[s] # "absent"
    BY DEF MapInv, OwnerInv, RowInv, RowExisted, OpenLabels, TypeOK, HandlerTypes, CompleteStep,
           CompleteCountChunks, CompleteClaim, CompleteExistingNode, CompleteFinalize,
           PersistLockUser, PersistCommit, PersistFails, CompleteMark, CompleteReopen,
           CompleteTransition
<1>1. CASE CompleteCountChunks(h) \/ CompleteExistingNode(h)
    BY <1>1, Stutters DEF CompleteCountChunks, CompleteExistingNode, dbVars, userVars, fsVars
<1>2. CASE CompleteClaim(h)
    <2>1. transition_state(s, "open", "completing") \/ UNCHANGED state
        BY <1>0, <1>2 DEF CompleteClaim
    <2>2. UNCHANGED <<declared_size, expired, nodes, purged, used_bytes, quota_bytes, blob>>
        BY <1>2 DEF CompleteClaim, userVars, fsVars
    <2>3. Lifecycle!Claim(s) \/ UNCHANGED Lifecycle!vars
        BY <1>0, <2>1, <2>2, TransitionMaps, Stutters DEF Lifecycle!Claim
    <2> QED
        BY <1>0, <2>3 DEF Lifecycle!Next
<1>3. CASE CompleteFinalize(h)
    <2>1. UNCHANGED <<state, declared_size, expired, nodes, purged, used_bytes, quota_bytes>>
        BY <1>3 DEF CompleteFinalize, dbVars, userVars
    <2>2. CASE UNCHANGED blob
        BY <2>1, <2>2, Stutters
    <2>3. CASE part[s].linked /\ blob' = [blob EXCEPT ![s] = part[s]]
        <3>1. Lifecycle!Store(s)
            BY <1>0, <2>1, <2>3, StoreMaps DEF MapInv, OwnerInv, TypeOK, FileTypes
        <3> QED
            BY <1>0, <3>1 DEF Lifecycle!Next
    <2> QED
        BY <1>0, <1>3, <2>2, <2>3 DEF CompleteFinalize
<1>4. CASE PersistLockUser(h) \/ PersistFails(h)
    BY <1>4, Stutters DEF PersistLockUser, PersistFails, dbVars, fsVars
<1>5. CASE PersistCommit(h)
    <2>1. (blob[s].linked \/ purged[s] # {}) /\ used_bytes + declared_size[s] <= quota_bytes
        BY <1>0, <1>5 DEF PersistCommit, MapInv, OwnerInv, BlobInv, QuotaChecked
    <2>2. Lifecycle!Materialize(s)
        BY <1>0, <1>5, <2>1 DEF PersistCommit, add_used_bytes, Lifecycle!Materialize, fsVars
    <2> QED
        BY <1>0, <2>2 DEF Lifecycle!Next
<1>6. CASE CompleteMark(h)
    <2>1. nodes[s] > 0 \/ state[s] = "deleted"
        BY <1>0, <1>6 DEF CompleteMark, CompleteTransition, MapInv, NodeInv, KnowsNode, OwnerInv,
                          TypeOK, SessionTypes, OwnerTypes
    <2>2. \/ Lifecycle!Become(s, {"completing"}, "completed") /\ UNCHANGED declared_size
          \/ UNCHANGED Lifecycle!vars
        BY <1>0, <1>6, TransitionMaps DEF CompleteMark, CompleteTransition, userVars, fsVars
    <2>3. Lifecycle!Finish(s) \/ UNCHANGED Lifecycle!vars
        BY <2>1, <2>2 DEF Lifecycle!Finish, Lifecycle!Become
    <2> QED
        BY <1>0, <2>3 DEF Lifecycle!Next
<1>7. CASE CompleteReopen(h)
    <2>1. Lifecycle!GiveBack(s) \/ UNCHANGED Lifecycle!vars
        BY <1>0, <1>7, TransitionMaps
        DEF CompleteReopen, CompleteTransition, userVars, fsVars, Lifecycle!GiveBack
    <2> QED
        BY <1>0, <2>1 DEF Lifecycle!Next
<1> QED
    BY <1>1, <1>2, <1>3, <1>4, <1>5, <1>6, <1>7 DEF CompleteStep

\* A request that sends a chunk: its bytes may end up in the finished file.
LEMMA PutMaps ==
    ASSUME MapInv, NEW h \in Handlers, PutStep(h)
    PROVE  \/ Lifecycle!Next \/ UNCHANGED Lifecycle!vars
<1>0. PICK s \in Sessions : s = target(h) /\ state[s] # "absent"
    BY DEF MapInv, OwnerInv, RowInv, RowExisted, OpenLabels, TypeOK, HandlerTypes, PutStep,
           PutChunkSize, PutOpenPart, PutWritePart, PutWriteFails, PutRecordChunk, PutAddReceived
<1>1. UNCHANGED <<state, declared_size, expired, nodes, purged, used_bytes, quota_bytes>>
    BY DEF PutStep, PutChunkSize, PutOpenPart, PutWritePart, PutWriteFails, PutRecordChunk,
           PutAddReceived, dbVars, userVars
<1>2. CASE UNCHANGED blob
    BY <1>1, <1>2, Stutters
<1>3. ASSUME NEW bytes, WriteOpenFile(h, bytes)
      PROVE  \/ Lifecycle!Next \/ UNCHANGED Lifecycle!vars
    <2>1. UNCHANGED blob \/ blob' = [blob EXCEPT ![s] = Written(blob[s], bytes)]
        BY <1>0, <1>3 DEF WriteOpenFile
    <2>2. ASSUME blob' = [blob EXCEPT ![s] = Written(blob[s], bytes)] PROVE Lifecycle!Store(s)
        <3>1. Written(blob[s], bytes).linked
            BY DEF Written
        <3> QED
            BY <1>0, <1>1, <2>2, <3>1, StoreMaps DEF MapInv, OwnerInv, TypeOK, FileTypes
    <2> QED
        BY <1>0, <1>2, <2>1, <2>2 DEF Lifecycle!Next
<1> QED
    BY <1>2, <1>3 DEF PutStep, PutChunkSize, PutOpenPart, PutWritePart, PutWriteFails,
                      PutRecordChunk, PutAddReceived, fsVars

\* A request that cancels an upload acts on the state it has read.
LEMMA AbortMaps ==
    ASSUME MapInv, NEW h \in Handlers, AbortStep(h)
    PROVE  \/ Lifecycle!Next \/ UNCHANGED Lifecycle!vars
<1>1. CASE AbortTransition(h)
    <2> DEFINE s == target(h)
    <2>1. s \in Sessions /\ req[h].state \in {"open", "completing", "aborted"}
        BY <1>1 DEF AbortTransition, MapInv, RowLifeInv, AbortSeen, TypeOK, HandlerTypes
    <2>2. \/ Lifecycle!Become(s, {req[h].state}, "aborted") /\ UNCHANGED declared_size
          \/ UNCHANGED Lifecycle!vars
        BY <1>1, <2>1, TransitionMaps DEF AbortTransition, userVars, fsVars
    <2>3. CASE req[h].state \in {"open", "completing"}
        BY <2>1, <2>2, <2>3 DEF Lifecycle!Next, Lifecycle!Cancel, Lifecycle!Become
    <2>4. CASE req[h].state = "aborted"
        <3>1. UNCHANGED state
            BY <1>1, <2>1, <2>4
            DEF AbortTransition, transition_state, MapInv, OwnerInv, TypeOK, SessionTypes
        <3> QED
            BY <1>1, <3>1, Stutters DEF AbortTransition, userVars, fsVars
    <2> QED
        BY <2>1, <2>3, <2>4
<1>2. CASE AbortUnlink(h)
    BY <1>2, Stutters DEF AbortUnlink, dbVars, userVars
<1> QED
    BY <1>1, <1>2 DEF AbortStep

\* A purge: its commit, and later the file of a session that was purged.
LEMMA PurgeMaps ==
    ASSUME MapInv, NEW h \in Handlers, PurgeStep(h)
    PROVE  \/ Lifecycle!Next \/ UNCHANGED Lifecycle!vars
<1> USE DEF MapInv, OwnerInv, TypeOK
<1>0. PICK s \in Sessions : s = target(h)
    BY DEF PurgeStep, PurgeSelect, PurgeSum, PurgeCommit, PurgeUnlink, HandlerTypes
<1>1. CASE PurgeSelect(h) \/ PurgeSum(h)
    BY <1>1, Stutters DEF PurgeSelect, PurgeSum, dbVars, userVars, fsVars
<1>2. CASE PurgeCommit(h)
    <2>1. PICK n \in 1 .. nodes[s], freed \in {0, declared_size[s]} :
              n = req[h].node_id /\ freed = req[h].size
        BY <1>0, <1>2 DEF PurgeCommit, PurgeInv, PurgeLabels
    <2>2. freed \in Nat
        BY DEF SessionTypes
    <2>3. used_bytes' = IF used_bytes > freed THEN used_bytes - freed ELSE 0
        BY <1>2, <2>1, <2>2, Release DEF PurgeCommit
    <2>4. purged' = [purged EXCEPT ![s] = @ \cup {n}]
        BY <1>0, <1>2, <2>1 DEF PurgeCommit
    <2>5. Lifecycle!Purge(s)
        BY <1>2, <2>3, <2>4 DEF PurgeCommit, Lifecycle!Purge, dbVars, fsVars
    <2> QED
        BY <2>5 DEF Lifecycle!Next
<1>3. CASE PurgeUnlink(h)
    <2>1. /\ purged[s] # {}
          /\ UNCHANGED <<state, declared_size, expired, nodes, purged, used_bytes, quota_bytes>>
        BY <1>0, <1>3 DEF PurgeUnlink, BlobInv, dbVars, userVars
    <2>2. CASE UNCHANGED blob
        BY <2>1, <2>2, Stutters
    <2>3. CASE blob' = [blob EXCEPT ![s] = NoFile]
        <3>1. {t \in Sessions : blob'[t].linked} = {t \in Sessions : blob[t].linked} \ {s}
            BY <2>3 DEF FileTypes, NoFile
        <3>2. Lifecycle!Erase(s)
            BY <2>1, <3>1 DEF Lifecycle!Erase
        <3> QED
            BY <3>2 DEF Lifecycle!Next
    <2> QED
        BY <1>0, <1>3, <2>2, <2>3 DEF PurgeUnlink
<1> QED
    BY <1>1, <1>2, <1>3 DEF PurgeStep

\* The collector takes a row that is due and unclaimed.
LEMMA CollectorMaps ==
    ASSUME MapInv, GcNext
    PROVE  \/ Lifecycle!Next \/ UNCHANGED Lifecycle!vars
<1>1. CASE GcScan \/ GcUnlink
    BY <1>1, Stutters DEF GcScan, GcUnlink, dbVars, userVars, fsVars
<1>2. CASE GcDelete
    <2>1. PICK s \in gcBatch : delete_if_expired(s) /\ s \in Sessions
        BY <1>2 DEF GcDelete, MapInv, OwnerInv, TypeOK, CollectorTypes
    <2>2. UNCHANGED <<declared_size, expired, nodes, purged, used_bytes, quota_bytes, blob>>
        BY <1>2 DEF GcDelete, userVars, fsVars
    <2>3. CASE Reclaimable(s)
        <3>1. Lifecycle!Become(s, {"open", "aborted"}, "deleted") /\ UNCHANGED declared_size
            BY <2>1, <2>2, <2>3, BecomeMaps DEF delete_if_expired, Reclaimable
        <3>2. Lifecycle!Reclaim(s)
            BY <2>1, <2>3, <3>1 DEF Lifecycle!Reclaim, Reclaimable
        <3> QED
            BY <2>1, <3>2 DEF Lifecycle!Next
    <2>4. CASE ~Reclaimable(s)
        BY <2>1, <2>2, <2>4, Stutters DEF delete_if_expired
    <2> QED
        BY <2>3, <2>4
<1> QED
    BY <1>1, <1>2 DEF GcNext

\* Every step is a step of the abstract specification, or none.
LEMMA NextMaps == MapInv /\ [Next]_vars => [Lifecycle!Next]_(Lifecycle!vars)
<1> SUFFICES ASSUME MapInv, [Next]_vars
             PROVE  Lifecycle!Next \/ UNCHANGED Lifecycle!vars
    OBVIOUS
<1>1. ASSUME NEW h \in Handlers, Arrival(h) \/ Drop(h) PROVE UNCHANGED Lifecycle!vars
    BY <1>1, Stutters DEF Arrival, OpenReceive, PutReceive, CompleteReceive, AbortReceive,
                          PurgeReceive, Drop, dbVars, userVars, fsVars
<1>2. ASSUME NEW h \in Handlers, OpenStep(h)
      PROVE  Lifecycle!Next \/ UNCHANGED Lifecycle!vars
    <2>1. CASE OpenLockUser(h) \/ OpenSumReserved(h)
        BY <2>1, Stutters DEF OpenLockUser, OpenSumReserved, dbVars, fsVars
    <2>2. CASE OpenCreateSession(h)
        <3>1. target(h) \in Sessions
            BY <2>2 DEF OpenCreateSession, MapInv, OwnerInv, TypeOK, HandlerTypes
        <3> QED
            BY <2>2, <3>1, OpenMaps DEF Lifecycle!Next
    <2> QED
        BY <1>2, <2>1, <2>2 DEF OpenStep
<1>3. CASE \E s \in Sessions : Expire(s)
    <2>1. PICK s \in Sessions : Expire(s)
        BY <1>3
    <2>2. {t \in Sessions : expired[t]}' = {t \in Sessions : expired[t]} \cup {s}
        BY <2>1 DEF Expire, MapInv, OwnerInv, TypeOK, SessionTypes
    <2>3. Lifecycle!Fall(s)
        BY <2>1, <2>2 DEF Expire, Lifecycle!Fall, userVars, fsVars
    <2> QED
        BY <2>1, <2>3 DEF Lifecycle!Next
<1>4. CASE \E quota \in Quotas : SetQuota(quota)
    BY <1>4, QuotaAssumption DEF SetQuota, Lifecycle!Next, Lifecycle!SetQuota, dbVars, fsVars
<1>5. CASE Crash \/ UNCHANGED vars
    BY <1>5, Stutters DEF Crash, vars, dbVars, userVars, fsVars
<1> QED
    BY <1>1, <1>2, <1>3, <1>4, <1>5, PutMaps, CompleteMaps, AbortMaps, PurgeMaps,
       CollectorMaps
    DEF Next, HandlerStep

\* The handlers, the collector and the failures implement the abstract life of a
\* session.
THEOREM LifecycleRefinement == Spec => ImplementsLifecycle
<1>1. Spec => []NodeInv
    <2>1. Init => NodeInv
        BY DEF Init, NodeInv, KnowsNode, CompletedHasNode
    <2> QED
        BY <2>1, NodeInvNext, OwnerInvariant, PTL DEF Spec
<1>2. Spec => []PurgeInv
    <2>1. Init => PurgeInv
        BY DEF Init, PurgeInv, PurgeLabels
    <2>2. OwnerInv /\ PurgeInv /\ [Next]_vars => PurgeInv'
        BY PurgeInvNext DEF OwnerInv
    <2> QED
        BY <2>1, <2>2, OwnerInvariant, PTL DEF Spec
<1>3. Spec => []MapInv
    BY <1>1, <1>2, OwnerInvariant, RowLifeInvariant, PTL DEF MapInv
<1> QED
    BY <1>3, InitMaps, NextMaps, PTL DEF Spec, ImplementsLifecycle, Lifecycle!Spec
=============================================================================
