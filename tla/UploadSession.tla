---------------------------- MODULE UploadSession ----------------------------
(***************************************************************************)
(* The resumable upload protocol of CH-Api-Drive for one owner:            *)
(* handlers/upload.rs over repository/upload_sessions.rs, the owner's row  *)
(* of drive_users, services/storage.rs, and the garbage collector          *)
(* jobs/upload_gc.rs.                                                      *)
(*                                                                         *)
(* A request handler is an async function.  It is cut into one action per  *)
(* awaited database statement or file system call, because other handlers, *)
(* the collector and the clock run in between.  A single SQL statement is  *)
(* atomic; a transaction publishes at its commit; SELECT ... FOR UPDATE on *)
(* the owner's row is rowLock.                                             *)
(*                                                                         *)
(* Of the node table only the file nodes made from a session are here, all *)
(* of which share the session's storage_key, and of the operations on it   *)
(* the purge of one such node, which takes the file at that key.           *)
(***************************************************************************)
EXTENDS Integers, FiniteSets, FiniteSetsExt

CONSTANTS
    NumSessions,     \* bound: how many sessions are ever opened
    Handlers,        \* request slots; one slot is a client that waits for each answer
    NoHandler,       \* nobody
    ChunkSize,       \* chunk_size of every session
    DeclaredSizes,   \* the declared_size values a client may open with
    WellSized,       \* TRUE: clients cut the file into full chunks and a last remainder
    Quotas,          \* the values an administrator may give quota_bytes
    InitQuota,       \* quota_bytes at the start
    BatchSize,       \* GcConfig::batch_size
    MaxDrift,        \* bound: no chunk is sent once received_bytes is below -MaxDrift
    MaxNodes,        \* bound: no node of a session is purged once it has made more
    Faults           \* which failures happen, a subset of FaultKinds

FaultKinds == {"drop", "crash", "lookup", "persist", "rename", "write", "unlink"}

ASSUME SessionsAssumption == NumSessions \in Nat \ {0}
ASSUME HandlersAssumption == NoHandler \notin Handlers
ASSUME SizesAssumption == /\ ChunkSize \in Nat \ {0}
                          /\ DeclaredSizes \subseteq Nat
                          /\ WellSized \in BOOLEAN
ASSUME QuotaAssumption == /\ Quotas \subseteq Nat \ {0}
                          /\ InitQuota \in Nat
ASSUME BoundsAssumption == /\ BatchSize \in Nat \ {0}
                           /\ MaxDrift \in Nat
                           /\ MaxNodes \in Nat
                           /\ Faults \subseteq FaultKinds

\* Sessions are numbered in the order of their expires_at: the time to live is
\* one constant, so that is the order in which their open requests arrived.
Sessions == 1 .. NumSessions
NoSession == 0

(***************************************************************************)
(* STATE                                                                   *)
(***************************************************************************)
VARIABLES
    \* upload_sessions and upload_chunks
    state,           \* [Sessions -> SessionStates]
    declared_size,   \* [Sessions -> Nat], also reserved_bytes: open sets both to one
                     \* value and nothing changes either, so handlers that hold a copy
                     \* of a deleted row still find it here
    received_bytes,  \* [Sessions -> Int], a counter moved by deltas
    node_id,         \* [Sessions -> Nat], the last node made from the session, 0 for NULL
    expired,         \* [Sessions -> BOOLEAN], expires_at is in the past
    chunks,          \* [Sessions -> [Nat -> Nat]], size_bytes by chunk_index, 0 for no row
    \* drive_users and nodes
    quota_bytes,
    used_bytes,
    rowLock,         \* the handler whose transaction holds the owner's row
    nodes,           \* [Sessions -> Nat], file nodes ever made from the session:
                     \* their ids are 1 to nodes[s]
    purged,          \* [Sessions -> SUBSET Nat], those of them that were deleted
    \* the storage volume
    part,            \* [Sessions -> File], the file at tmp_key
    blob,            \* [Sessions -> File], the file at storage_key
    \* the handlers in flight
    pc,              \* [Handlers -> Labels], the next await of the handler
    req,             \* [Handlers -> Request], its local variables
    fd,              \* [Handlers -> ...], where the file write_at has open is now linked
    \* the collector
    gcBatch,         \* ids listed by find_expired and not looked at yet
    gcSession        \* the session whose row is gone and whose file is not, or NoSession

dbVars == <<state, declared_size, received_bytes, node_id, expired, chunks>>
userVars == <<quota_bytes, used_bytes, rowLock, nodes, purged>>
fsVars == <<part, blob>>
handlerVars == <<pc, req, fd>>
gcVars == <<gcBatch, gcSession>>
vars == <<dbVars, userVars, fsVars, handlerVars, gcVars>>

\* "absent": not inserted yet.  "deleted": reclaimed by the collector.
SessionStates == {"absent", "open", "completing", "completed", "aborted", "deleted"}
Present(s) == state[s] \notin {"absent", "deleted"}

\* The rows of nodes that share the storage_key of s.
LiveNodes(s) == (1 .. nodes[s]) \ purged[s]

OpenLabels == {"lock_user", "sum_reserved", "create_session"}
PutLabels == {"chunk_size", "open_part", "write_part", "record_chunk", "add_received"}
MaterializeLabels == {"existing_node", "finalize", "lock_persist", "persist"}
CompleteLabels == MaterializeLabels \cup
                  {"count_chunks", "claim", "mark_completed", "reopen"}
AbortLabels == {"abort_transition", "abort_unlink"}
PurgeLabels == {"select_blobs", "sum_freed", "delete_nodes", "unlink_blobs"}
Labels == {"idle"} \cup OpenLabels \cup PutLabels \cup CompleteLabels \cup AbortLabels
          \cup PurgeLabels

\* The labels at which the handler's transaction holds the owner's row.
InTransaction == {"sum_reserved", "create_session", "persist"}

Request == [session: Sessions \cup {NoSession},
            state: SessionStates,    \* state of the session as read from the database
            node_id: Nat,            \* its node_id, or the node to be purged
            received: Int,           \* its received_bytes
            index: Nat,              \* chunk_index
            size: Nat,               \* declared_size of open, incoming of put_chunk,
                                     \* freed of purge_node
            previous: Nat]           \* size already recorded for the chunk

\* The locals of a request that has not read a session row.
Unread(s, size) == [session |-> s, state |-> "absent", node_id |-> 0, received |-> 0,
                    index |-> 0, size |-> size, previous |-> 0]
NoRequest == Unread(NoSession, 0)

\* A file is the set of byte offsets written through the protocol; the rest of
\* a longer file is a hole.
File == [linked: BOOLEAN, bytes: SUBSET Nat]
NoFile == [linked |-> FALSE, bytes |-> {}]
Written(file, bytes) == [linked |-> TRUE, bytes |-> file.bytes \cup bytes]

target(h) == req[h].session

(***************************************************************************)
(* CHUNK ARITHMETIC                                                        *)
(***************************************************************************)
expected_chunk_count(declared) ==
    LET count == (declared + ChunkSize - 1) \div ChunkSize
    IN IF count > 1 THEN count ELSE 1

chunk_count(s) == expected_chunk_count(declared_size[s])

chunk_offset(index) == index * ChunkSize

\* The sizes a client may send for a chunk.  The handler refuses an empty body
\* and one longer than chunk_size before it changes anything.
ChunkSizes(s, index) ==
    {n \in 1 .. ChunkSize :
        WellSized => n = Min({ChunkSize, declared_size[s] - chunk_offset(index)})}

\* The bytes of the file that the client declared.
Content(s) == 0 .. declared_size[s] - 1

(***************************************************************************)
(* QUERIES AND STATEMENTS                                                  *)
(***************************************************************************)
chunk_size(s, index) == IF index \in DOMAIN chunks[s] THEN chunks[s][index] ELSE 0

count_chunks(s) == Cardinality(DOMAIN chunks[s])

\* Mutant: a claimed session no longer counts.
sum_reserved_open_only ==
    MapThenSumSet(LAMBDA s : declared_size[s], {s \in Sessions : state[s] = "open"})

sum_reserved_active ==
    MapThenSumSet(LAMBDA s : declared_size[s],
                  {s \in Sessions : state[s] \in {"open", "completing"}})

\* Mutant: the guard on the state the row is left from is forgotten.
transition_state_unguarded(s, from, to) ==
    state' = IF Present(s) THEN [state EXCEPT ![s] = to] ELSE state

\* UPDATE ... SET state = to WHERE state = from.  No matching row is not an error.
transition_state(s, from, to) ==
    state' = IF Present(s) /\ state[s] = from THEN [state EXCEPT ![s] = to] ELSE state

transitions(s, from) == Present(s) /\ state[s] = from

record_chunk(s, index, size) ==
    chunks' = [chunks EXCEPT ![s] =
                 [i \in DOMAIN chunks[s] \cup {index} |->
                    IF i = index THEN size ELSE chunks[s][i]]]

\* The condition shared by find_expired and delete_if_expired.
Reclaimable(s) == state[s] \in {"open", "aborted"} /\ expired[s]

\* Mutant: aborted sessions are not listed.
find_expired_open ==
    LET S == {s \in Sessions : Reclaimable(s) /\ state[s] = "open"}
    IN {s \in S : Cardinality({t \in S : t < s}) < BatchSize}

\* find_expired: ORDER BY expires_at LIMIT BatchSize
find_expired ==
    LET S == {s \in Sessions : Reclaimable(s)}
    IN {s \in S : Cardinality({t \in S : t < s}) < BatchSize}

(***************************************************************************)
(* CONTROL OF A HANDLER                                                    *)
(***************************************************************************)
Goto(h, label) == pc' = [pc EXCEPT ![h] = label]

\* The handler answers, or its future is dropped: its locals are gone and the
\* file it has open is closed.
Return(h) == /\ pc' = [pc EXCEPT ![h] = "idle"]
             /\ req' = [req EXCEPT ![h] = NoRequest]
             /\ fd' = [fd EXCEPT ![h] = "none"]

\* A request whose first statement reads the session row.
Receive(h, s, label, index, size) ==
    /\ pc' = [pc EXCEPT ![h] = label]
    /\ req' = [req EXCEPT ![h] = [session |-> s, state |-> state[s],
                                  node_id |-> node_id[s],
                                  received |-> received_bytes[s],
                                  index |-> index, size |-> size, previous |-> 0]]
    /\ UNCHANGED fd

\* Mutant: a plain SELECT, without FOR UPDATE.
RowFree_unlocked == TRUE

\* A statement that locks or updates the owner's row waits for this.
RowFree == rowLock = NoHandler
LockRow(h) == RowFree /\ rowLock' = h
UnlockRow == rowLock' = NoHandler

Init ==
    /\ state = [s \in Sessions |-> "absent"]
    /\ declared_size = [s \in Sessions |-> 0]
    /\ received_bytes = [s \in Sessions |-> 0]
    /\ node_id = [s \in Sessions |-> 0]
    /\ expired = [s \in Sessions |-> FALSE]
    /\ chunks = [s \in Sessions |-> <<>>]
    /\ quota_bytes = InitQuota
    /\ used_bytes = 0
    /\ rowLock = NoHandler
    /\ nodes = [s \in Sessions |-> 0]
    /\ purged = [s \in Sessions |-> {}]
    /\ part = [s \in Sessions |-> NoFile]
    /\ blob = [s \in Sessions |-> NoFile]
    /\ pc = [h \in Handlers |-> "idle"]
    /\ req = [h \in Handlers |-> NoRequest]
    /\ fd = [h \in Handlers |-> "none"]
    /\ gcBatch = {}
    /\ gcSession = NoSession

(***************************************************************************)
(* POST /uploads                                                           *)
(***************************************************************************)
Used(s) == state[s] # "absent" \/ \E h \in Handlers : target(h) = s

\* Validation has passed and expires_at is computed: the request takes the next
\* session number.
OpenReceive(h, s, declared) ==
    /\ pc[h] = "idle"
    /\ \A t \in s .. NumSessions : ~Used(t)
    /\ \A t \in {s - 1} \cap Sessions : Used(t)
    /\ pc' = [pc EXCEPT ![h] = "lock_user"]
    /\ req' = [req EXCEPT ![h] = Unread(s, declared)]
    /\ UNCHANGED <<dbVars, userVars, fsVars, fd, gcVars>>

\* quota_used_for_update.  Both numbers are stable from here on: every writer of
\* the row waits for the lock.
OpenLockUser(h) ==
    /\ pc[h] = "lock_user"
    /\ LockRow(h)
    /\ Goto(h, "sum_reserved")
    /\ UNCHANGED <<dbVars, quota_bytes, used_bytes, nodes, purged, fsVars, req, fd, gcVars>>

remaining == Max({0, quota_bytes - used_bytes - sum_reserved_active})

\* 413 after a rollback
OpenRefused(h) == Return(h) /\ UnlockRow

OpenSumReserved(h) ==
    /\ pc[h] = "sum_reserved"
    /\ IF req[h].size > remaining
       THEN OpenRefused(h)
       ELSE Goto(h, "create_session") /\ UNCHANGED <<rowLock, req, fd>>
    /\ UNCHANGED <<dbVars, quota_bytes, used_bytes, nodes, purged, fsVars, gcVars>>

\* Mutant: create on a connection of the pool.  Its row refers to the owner's, so it
\* waits for the lock, which the request itself holds.
create_on_pool(h) ==
    /\ RowFree
    /\ state' = [state EXCEPT ![target(h)] = "open"]
    /\ declared_size' = [declared_size EXCEPT ![target(h)] = req[h].size]

create_tx(h) ==
    /\ state' = [state EXCEPT ![target(h)] = "open"]
    /\ declared_size' = [declared_size EXCEPT ![target(h)] = req[h].size]

\* create_tx and commit
OpenCreateSession(h) ==
    /\ pc[h] = "create_session"
    /\ create_tx(h)
    /\ UnlockRow
    /\ Return(h)
    /\ UNCHANGED <<received_bytes, node_id, expired, chunks, quota_bytes, used_bytes, nodes,
                   purged, fsVars, gcVars>>

(***************************************************************************)
(* PUT /uploads/{id}/chunks/{index}                                        *)
(***************************************************************************)
\* Mutant: a claimed session still accepts chunks.
active_session_or_claimed(s) == state[s] \in {"open", "completing"} /\ ~expired[s]

active_session(s) == state[s] = "open" /\ ~expired[s]

\* active_session and the checks on the index and the size of the body
PutReceive(h, s, index, size) ==
    /\ pc[h] = "idle"
    /\ active_session(s)
    /\ index \in 0 .. chunk_count(s) - 1
    /\ size \in ChunkSizes(s, index)
    /\ received_bytes[s] >= -MaxDrift
    /\ Receive(h, s, "chunk_size", index, size)
    /\ UNCHANGED <<dbVars, userVars, fsVars, gcVars>>

\* The size recorded for this chunk, against the received_bytes read before it.
PutChunkSize(h) ==
    LET s == target(h)
        previous == chunk_size(s, req[h].index)
        projected == req[h].received - previous + req[h].size
    IN /\ pc[h] = "chunk_size"
       /\ IF projected > declared_size[s]
          THEN Return(h)
          ELSE /\ Goto(h, "open_part")
               /\ req' = [req EXCEPT ![h].previous = previous]
               /\ UNCHANGED fd
       /\ UNCHANGED <<dbVars, userVars, fsVars, gcVars>>

\* write_at: open the file at tmp_key, creating it when there is none
PutOpenPart(h) ==
    /\ pc[h] = "open_part"
    /\ part' = [part EXCEPT ![target(h)] = Written(@, {})]
    /\ fd' = [fd EXCEPT ![h] = "part"]
    /\ Goto(h, "write_part")
    /\ UNCHANGED <<dbVars, userVars, blob, req, gcVars>>

\* The bytes go to the open file, under whatever name it has by now.
WriteOpenFile(h, bytes) ==
    LET s == target(h)
    IN /\ part' = IF fd[h] = "part" THEN [part EXCEPT ![s] = Written(@, bytes)] ELSE part
       /\ blob' = IF fd[h] = "blob" THEN [blob EXCEPT ![s] = Written(@, bytes)] ELSE blob

ChunkBytes(h, n) ==
    LET offset == chunk_offset(req[h].index) IN offset .. offset + n - 1

\* write_at: seek, write_all, flush, sync_data, and the file is closed
PutWritePart(h) ==
    /\ pc[h] = "write_part"
    /\ WriteOpenFile(h, ChunkBytes(h, req[h].size))
    /\ Goto(h, "record_chunk")
    /\ fd' = [fd EXCEPT ![h] = "none"]
    /\ UNCHANGED <<dbVars, userVars, req, gcVars>>

\* write_all fails, or the future is dropped, after a proper prefix
PutWriteFails(h) ==
    /\ "write" \in Faults
    /\ pc[h] = "write_part"
    /\ \E n \in 0 .. req[h].size - 1 : WriteOpenFile(h, ChunkBytes(h, n))
    /\ Return(h)
    /\ UNCHANGED <<dbVars, userVars, gcVars>>

\* The chunk row refers to the session row: without it the insert fails.
PutRecordChunk(h) ==
    /\ pc[h] = "record_chunk"
    /\ IF Present(target(h))
       THEN /\ record_chunk(target(h), req[h].index, req[h].size)
            /\ Goto(h, "add_received")
            /\ UNCHANGED <<req, fd>>
       ELSE Return(h) /\ UNCHANGED chunks
    /\ UNCHANGED <<state, declared_size, received_bytes, node_id, expired, userVars, fsVars,
                   gcVars>>

\* Mutant: a chunk sent again is counted again.
received_delta_no_previous(h) == req[h].size

received_delta(h) == req[h].size - req[h].previous

PutAddReceived(h) ==
    LET s == target(h)
    IN /\ pc[h] = "add_received"
       /\ received_bytes' = IF Present(s)
                            THEN [received_bytes EXCEPT ![s] = @ + received_delta(h)]
                            ELSE received_bytes
       /\ Return(h)
       /\ UNCHANGED <<state, declared_size, node_id, expired, chunks, userVars, fsVars, gcVars>>

(***************************************************************************)
(* POST /uploads/{id}/complete                                             *)
(***************************************************************************)
\* completable_session and the comparison of received_bytes
CompleteReceive(h, s) ==
    /\ pc[h] = "idle"
    /\ \/ state[s] = "open" /\ ~expired[s]
       \/ state[s] = "completing"
    /\ received_bytes[s] = declared_size[s]
    /\ Receive(h, s, "count_chunks", 0, 0)
    /\ UNCHANGED <<dbVars, userVars, fsVars, gcVars>>

CompleteCountChunks(h) ==
    /\ pc[h] = "count_chunks"
    /\ IF count_chunks(target(h)) = chunk_count(target(h))
       THEN Goto(h, "claim") /\ UNCHANGED <<req, fd>>
       ELSE Return(h)
    /\ UNCHANGED <<dbVars, userVars, fsVars, gcVars>>

\* claim_for_completion.  A session read as completing is not claimed again and
\* keeps the node_id it was read with; a claimed one comes back as it is now.
CompleteClaim(h) ==
    LET s == target(h)
    IN /\ pc[h] = "claim"
       /\ \/ /\ req[h].state = "completing"
             /\ Goto(h, "existing_node")
             /\ UNCHANGED <<state, req, fd>>
          \/ /\ req[h].state = "open" /\ transitions(s, "open")
             /\ transition_state(s, "open", "completing")
             /\ Goto(h, "existing_node")
             /\ req' = [req EXCEPT ![h].node_id = node_id[s]]
             /\ UNCHANGED fd
          \/ /\ req[h].state = "open" /\ ~transitions(s, "open")
             /\ Return(h)
             /\ UNCHANGED state
       /\ UNCHANGED <<declared_size, received_bytes, node_id, expired, chunks, userVars,
                      fsVars, gcVars>>

\* Mutant: the node of an earlier attempt is not looked for.
existing_node_never(h) == FALSE

\* nodes::get finds the node the request knows of, if it knows one.  The column
\* node_id is no foreign key: the node may have been purged since.
existing_node(h) == req[h].node_id \in LiveNodes(target(h))

\* The query is covered by the error branch of complete.
CompleteExistingNode(h) ==
    /\ pc[h] = "existing_node"
    /\ \/ Goto(h, IF existing_node(h) THEN "mark_completed" ELSE "finalize")
       \/ "lookup" \in Faults /\ req[h].node_id # 0 /\ Goto(h, "reopen")
    /\ UNCHANGED <<dbVars, userVars, fsVars, req, fd, gcVars>>

\* Files opened under tmp_key of s stay open across the rename, now under storage_key;
\* a file that was at storage_key loses its name.
Renamed(s) ==
    [h \in Handlers |->
        IF target(h) # s THEN fd[h]
        ELSE CASE fd[h] = "part" -> "blob"
               [] fd[h] = "blob" -> "unlinked"
               [] OTHER -> fd[h]]

\* Mutant: a missing temporary file is always taken for a finished rename.
finalized_before_always(s) == TRUE

finalized_before(s) == blob[s].linked

\* Storage::finalize.  No file at tmp_key is a success when storage_key exists.
CompleteFinalize(h) ==
    LET s == target(h)
    IN /\ pc[h] = "finalize"
       /\ \/ /\ part[s].linked
             /\ part' = [part EXCEPT ![s] = NoFile]
             /\ blob' = [blob EXCEPT ![s] = part[s]]
             /\ fd' = Renamed(s)
             /\ Goto(h, "lock_persist")
          \/ /\ ~part[s].linked
             /\ Goto(h, IF finalized_before(s) THEN "lock_persist" ELSE "reopen")
             /\ UNCHANGED <<part, blob, fd>>
          \/ /\ "rename" \in Faults
             /\ Goto(h, "reopen")
             /\ UNCHANGED <<part, blob, fd>>
       /\ UNCHANGED <<dbVars, userVars, req, gcVars>>

\* persist_node up to the quota check: free_name, begin, quota_used_for_update
PersistLockUser(h) ==
    /\ pc[h] = "lock_persist"
    /\ RowFree
    /\ IF used_bytes + declared_size[target(h)] > quota_bytes
       THEN Goto(h, "reopen") /\ UNCHANGED rowLock
       ELSE Goto(h, "persist") /\ LockRow(h)
    /\ UNCHANGED <<dbVars, quota_bytes, used_bytes, nodes, purged, fsVars, req, fd, gcVars>>

\* Mutant: the sign is wrong.
add_used_bytes_negated(s) == used_bytes' = used_bytes - declared_size[s]

\* Mutant: the node is inserted and nothing is charged for it.
add_used_bytes_forgotten(s) == UNCHANGED used_bytes

add_used_bytes(s) == used_bytes' = used_bytes + declared_size[s]

\* Mutant: the node is not linked to the session.
set_node_tx_missing(s, node) == UNCHANGED node_id

set_node_tx(s, node) ==
    node_id' = IF Present(s) THEN [node_id EXCEPT ![s] = node] ELSE node_id

\* insert_file, add_used_bytes, set_node_tx and commit.  set_node_tx matches no
\* row when the session is gone, which nobody looks at.
PersistCommit(h) ==
    LET s == target(h)
    IN /\ pc[h] = "persist"
       /\ nodes' = [nodes EXCEPT ![s] = @ + 1]
       /\ add_used_bytes(s)
       /\ set_node_tx(s, nodes[s] + 1)
       /\ UnlockRow
       /\ Goto(h, "mark_completed")
       /\ UNCHANGED <<state, declared_size, received_bytes, expired, chunks, quota_bytes,
                      purged, fsVars, req, fd, gcVars>>

\* A statement of persist_node fails (no free name, a name taken meanwhile, the
\* database): the transaction is rolled back and complete takes its error branch.
PersistFails(h) ==
    /\ "persist" \in Faults
    /\ pc[h] \in {"lock_persist", "persist"}
    /\ rowLock' = IF pc[h] = "persist" THEN NoHandler ELSE rowLock
    /\ Goto(h, "reopen")
    /\ UNCHANGED <<dbVars, quota_bytes, used_bytes, nodes, purged, fsVars, req, fd, gcVars>>

\* The last transition of either branch of complete; that it may match no row
\* is ignored.
CompleteTransition(h, label, to) ==
    /\ pc[h] = label
    /\ transition_state(target(h), "completing", to)
    /\ Return(h)
    /\ UNCHANGED <<declared_size, received_bytes, node_id, expired, chunks, userVars, fsVars,
                   gcVars>>

CompleteMark(h) == CompleteTransition(h, "mark_completed", "completed")

\* Mutant: the error branch answers without giving the claim back.
CompleteReopen_forgotten(h) == CompleteTransition(h, "reopen", "completing")

CompleteReopen(h) == CompleteTransition(h, "reopen", "open")

(***************************************************************************)
(* DELETE /uploads/{id}                                                    *)
(***************************************************************************)
AbortReceive(h, s) ==
    /\ pc[h] = "idle"
    /\ Present(s)
    /\ state[s] # "completed"
    /\ Receive(h, s, "abort_transition", 0, 0)
    /\ UNCHANGED <<dbVars, userVars, fsVars, gcVars>>

\* The transition starts from the state that was read; whether it matched is ignored.
AbortTransition(h) ==
    /\ pc[h] = "abort_transition"
    /\ transition_state(target(h), req[h].state, "aborted")
    /\ Goto(h, "abort_unlink")
    /\ UNCHANGED <<declared_size, received_bytes, node_id, expired, chunks, userVars, fsVars,
                   req, fd, gcVars>>

\* Storage::delete of tmp_key: a missing file is not an error.
UnlinkPart(s) == part' = [part EXCEPT ![s] = NoFile]

Unlinked(s) ==
    [h \in Handlers |-> IF target(h) = s /\ fd[h] = "part" THEN "unlinked" ELSE fd[h]]

AbortUnlink(h) ==
    LET s == target(h)
    IN /\ pc[h] = "abort_unlink"
       /\ \/ UnlinkPart(s) /\ fd' = Unlinked(s)
          \/ "unlink" \in Faults /\ UNCHANGED <<part, fd>>
       /\ pc' = [pc EXCEPT ![h] = "idle"]
       /\ req' = [req EXCEPT ![h] = NoRequest]
       /\ UNCHANGED <<dbVars, userVars, blob, gcVars>>

(***************************************************************************)
(* DELETE /files/{id}/purge                                                *)
(***************************************************************************)
\* The handler has seen the node n of session s.
PurgeReceive(h, s, n) ==
    /\ pc[h] = "idle"
    /\ n \in LiveNodes(s)
    /\ nodes[s] <= MaxNodes
    /\ pc' = [pc EXCEPT ![h] = "select_blobs"]
    /\ req' = [req EXCEPT ![h] = [Unread(s, 0) EXCEPT !.node_id = n]]
    /\ UNCHANGED <<dbVars, userVars, fsVars, fd, gcVars>>

purged_live(h) == req[h].node_id \in LiveNodes(target(h))

\* purge_node lists the storage_key.  A node that is gone by now does not come back:
\* the rest of its purge frees, deletes and unlinks nothing.
PurgeSelect(h) ==
    /\ pc[h] = "select_blobs"
    /\ IF purged_live(h) THEN Goto(h, "sum_freed") /\ UNCHANGED <<req, fd>> ELSE Return(h)
    /\ UNCHANGED <<dbVars, userVars, fsVars, gcVars>>

\* The second statement of the transaction sees a purge that committed meanwhile.
PurgeSum(h) ==
    /\ pc[h] = "sum_freed"
    /\ req' = [req EXCEPT ![h].size = IF purged_live(h) THEN declared_size[target(h)] ELSE 0]
    /\ Goto(h, "delete_nodes")
    /\ UNCHANGED <<dbVars, userVars, fsVars, fd, gcVars>>

release_quota(freed) == used_bytes' = Max({0, used_bytes - freed})

\* DELETE, release_quota and commit.  The DELETE may find nothing: what was summed is
\* released all the same.
PurgeCommit(h) ==
    /\ pc[h] = "delete_nodes"
    /\ RowFree
    /\ purged' = [purged EXCEPT ![target(h)] = @ \cup {req[h].node_id}]
    /\ release_quota(req[h].size)
    /\ Goto(h, "unlink_blobs")
    /\ UNCHANGED <<dbVars, quota_bytes, rowLock, nodes, fsVars, req, fd, gcVars>>

\* delete_blobs, after the commit: a failure is ignored.
PurgeUnlink(h) ==
    LET s == target(h)
    IN /\ pc[h] = "unlink_blobs"
       /\ \/ /\ blob' = [blob EXCEPT ![s] = NoFile]
             /\ fd' = [g \in Handlers |->
                          IF target(g) = s /\ fd[g] = "blob" THEN "unlinked" ELSE fd[g]]
          \/ "unlink" \in Faults /\ UNCHANGED <<blob, fd>>
       /\ pc' = [pc EXCEPT ![h] = "idle"]
       /\ req' = [req EXCEPT ![h] = NoRequest]
       /\ UNCHANGED <<dbVars, userVars, part, gcVars>>

(***************************************************************************)
(* THE CLOCK AND THE ADMINISTRATOR                                         *)
(***************************************************************************)
Expire(s) ==
    /\ Present(s) /\ ~expired[s]
    /\ \A t \in 1 .. s - 1 : Present(t) => expired[t]
    /\ expired' = [expired EXCEPT ![s] = TRUE]
    /\ UNCHANGED <<state, declared_size, received_bytes, node_id, chunks, userVars, fsVars,
                   handlerVars, gcVars>>

\* PATCH of a user's quota: one UPDATE, which waits for the row like the others.
SetQuota(quota) ==
    /\ RowFree
    /\ quota_bytes' = quota
    /\ UNCHANGED <<dbVars, used_bytes, rowLock, nodes, purged, fsVars, handlerVars, gcVars>>

(***************************************************************************)
(* THE COLLECTOR                                                           *)
(***************************************************************************)
\* A tick of spawn_gc: run_once lists a batch.
GcScan ==
    /\ gcBatch = {} /\ gcSession = NoSession
    /\ gcBatch' = find_expired
    /\ UNCHANGED <<dbVars, userVars, fsVars, handlerVars, gcSession>>

\* Mutant: the row is deleted because it was listed.
delete_if_expired_unguarded(s) ==
    /\ state' = [state EXCEPT ![s] = "deleted"]
    /\ received_bytes' = [received_bytes EXCEPT ![s] = 0]
    /\ node_id' = [node_id EXCEPT ![s] = 0]
    /\ chunks' = [chunks EXCEPT ![s] = <<>>]
    /\ gcSession' = s

\* delete_if_expired repeats the condition; upload_chunks follow by cascade.
delete_if_expired(s) ==
    IF Reclaimable(s)
    THEN /\ state' = [state EXCEPT ![s] = "deleted"]
         /\ received_bytes' = [received_bytes EXCEPT ![s] = 0]
         /\ node_id' = [node_id EXCEPT ![s] = 0]
         /\ chunks' = [chunks EXCEPT ![s] = <<>>]
         /\ gcSession' = s
    ELSE UNCHANGED <<state, received_bytes, node_id, chunks, gcSession>>

GcDelete ==
    /\ gcSession = NoSession
    /\ \E s \in gcBatch :
        /\ \A t \in gcBatch : s <= t
        /\ gcBatch' = gcBatch \ {s}
        /\ delete_if_expired(s)
    /\ UNCHANGED <<declared_size, expired, userVars, fsVars, handlerVars>>

\* A failure to unlink is logged and forgotten.
GcUnlink ==
    /\ gcSession # NoSession
    /\ \/ UnlinkPart(gcSession) /\ fd' = Unlinked(gcSession)
       \/ "unlink" \in Faults /\ UNCHANGED <<part, fd>>
    /\ gcSession' = NoSession
    /\ UNCHANGED <<dbVars, userVars, blob, pc, req, gcBatch>>

GcNext == GcScan \/ GcDelete \/ GcUnlink

(***************************************************************************)
(* FAILURES                                                                *)
(***************************************************************************)
\* The client disconnects and the future is dropped at an await, or a statement
\* that is not covered by an error branch fails.  An open transaction rolls back.
Drop(h) ==
    /\ "drop" \in Faults
    /\ pc[h] # "idle"
    /\ rowLock' = IF rowLock = h THEN NoHandler ELSE rowLock
    /\ Return(h)
    /\ UNCHANGED <<dbVars, quota_bytes, used_bytes, nodes, purged, fsVars, gcVars>>

\* The process dies and restarts: only the database and the volume survive.
Crash ==
    /\ "crash" \in Faults
    /\ rowLock' = NoHandler
    /\ pc' = [h \in Handlers |-> "idle"]
    /\ req' = [h \in Handlers |-> NoRequest]
    /\ fd' = [h \in Handlers |-> "none"]
    /\ gcBatch' = {}
    /\ gcSession' = NoSession
    /\ UNCHANGED <<dbVars, quota_bytes, used_bytes, nodes, purged, fsVars>>

(***************************************************************************)
(* SPECIFICATION                                                           *)
(***************************************************************************)
OpenStep(h) == OpenLockUser(h) \/ OpenSumReserved(h) \/ OpenCreateSession(h)

PutStep(h) == \/ PutChunkSize(h) \/ PutOpenPart(h) \/ PutWritePart(h) \/ PutWriteFails(h)
              \/ PutRecordChunk(h) \/ PutAddReceived(h)

CompleteStep(h) ==
    \/ CompleteCountChunks(h) \/ CompleteClaim(h) \/ CompleteExistingNode(h)
    \/ CompleteFinalize(h) \/ PersistLockUser(h) \/ PersistCommit(h) \/ PersistFails(h)
    \/ CompleteMark(h) \/ CompleteReopen(h)

AbortStep(h) == AbortTransition(h) \/ AbortUnlink(h)

PurgeStep(h) == PurgeSelect(h) \/ PurgeSum(h) \/ PurgeCommit(h) \/ PurgeUnlink(h)

\* A request in flight takes its next step.
HandlerStep(h) ==
    OpenStep(h) \/ PutStep(h) \/ CompleteStep(h) \/ AbortStep(h) \/ PurgeStep(h)

\* A request arrives.
Arrival(h) ==
    \E s \in Sessions :
        \/ \E declared \in DeclaredSizes : OpenReceive(h, s, declared)
        \/ \E index \in 0 .. chunk_count(s) - 1 :
               \E size \in ChunkSizes(s, index) : PutReceive(h, s, index, size)
        \/ CompleteReceive(h, s)
        \/ AbortReceive(h, s)
        \/ \E n \in LiveNodes(s) : PurgeReceive(h, s, n)

Next ==
    \/ \E h \in Handlers : Arrival(h) \/ HandlerStep(h) \/ Drop(h)
    \/ \E s \in Sessions : Expire(s)
    \/ \E quota \in Quotas : SetQuota(quota)
    \/ GcNext
    \/ Crash

Spec == Init /\ [][Next]_vars

\* The runtime keeps polling a request in flight, and PostgreSQL grants the row
\* in the order of the requests for it, so nobody waits for it forever.
HandlerFairness == \A h \in Handlers : SF_vars(HandlerStep(h))

\* spawn_gc ticks forever and run_once goes through its batch.
GcFairness == WF_vars(GcNext)

FairSpec == Spec /\ HandlerFairness /\ GcFairness

\* The collector alone is sure to go on: a request may stall wherever it is.
GcSpec == Spec /\ GcFairness

(***************************************************************************)
(* PROPERTIES                                                              *)
(***************************************************************************)
SessionTypes ==
    /\ state \in [Sessions -> SessionStates]
    /\ declared_size \in [Sessions -> Nat]
    /\ received_bytes \in [Sessions -> Int]
    /\ node_id \in [Sessions -> Nat]
    /\ expired \in [Sessions -> BOOLEAN]
    /\ DOMAIN chunks = Sessions
    /\ \A s \in Sessions : \A i \in DOMAIN chunks[s] : i \in Nat /\ chunks[s][i] \in Nat

OwnerTypes ==
    /\ quota_bytes \in Nat
    /\ used_bytes \in Nat
    /\ rowLock \in Handlers \cup {NoHandler}
    /\ nodes \in [Sessions -> Nat]
    /\ purged \in [Sessions -> SUBSET Nat]

FileTypes == part \in [Sessions -> File] /\ blob \in [Sessions -> File]

HandlerTypes ==
    /\ pc \in [Handlers -> Labels]
    /\ req \in [Handlers -> Request]
    /\ \A h \in Handlers : pc[h] # "idle" => target(h) \in Sessions
    /\ fd \in [Handlers -> {"none", "part", "blob", "unlinked"}]

CollectorTypes == gcBatch \subseteq Sessions /\ gcSession \in Sessions \cup {NoSession}

\* Type invariant.  A request in flight names a session; used_bytes and the
\* recorded sizes never go negative (received_bytes may).
TypeOK == SessionTypes /\ OwnerTypes /\ FileTypes /\ HandlerTypes /\ CollectorTypes

\* A session that answers "completed" always points at a node that was made of it:
\* complete marks it only after the commit that sets node_id, even when several
\* requests complete, fail, reopen and abort the same session at once.
CompletedHasNode ==
    \A s \in Sessions : state[s] = "completed" => node_id[s] \in 1 .. nodes[s]

\* Of everything that touches a finished file only a purge takes it away: as long
\* as no node of the session was purged its storage_key has a file, whatever
\* overlapping completes, late chunks, aborts and the collector rename and unlink.
\* materialize renames before it inserts, and a second finalize succeeds only if
\* the blob exists.
OnlyPurgeTakesBlobs ==
    \A s \in Sessions : nodes[s] > 0 /\ purged[s] = {} => blob[s].linked

\* No node refers to a storage_key without a file, purges included: complete
\* after complete, the node is gone before its file is, and a session whose node
\* was purged makes another only once finalize has found a file for it.  This
\* takes a client that waits for its answers: a purge that has deleted the row
\* unlinks the key of the node that a retried complete makes meanwhile.
NodeHasBlob == \A s \in Sessions : LiveNodes(s) # {} => blob[s].linked

\* used_bytes never grows past the quota in force: the check and the addition of
\* persist_node are under one FOR UPDATE lock, which set_quota waits for too.
QuotaGate == [][used_bytes' > used_bytes => used_bytes' <= quota_bytes']_vars

\* "completed" and "deleted" are never left, and an aborted session is never
\* opened, claimed or completed again, whatever stale requests are in flight:
\* the guard WHERE state = from of transition_state.
TerminalStatesAreFinal ==
    [][\A s \in Sessions :
         /\ state[s] \in {"completed", "deleted"} => state'[s] = state[s]
         /\ state[s] = "aborted" => state'[s] \in {"aborted", "deleted"}]_vars

\* The collector works on a list that may be stale: it never deletes the row of
\* a session claimed since, and it never unlinks the file of a session that
\* still has its row (delete_if_expired; the row goes before the file).
CollectorSparesClaimed ==
    [][\A s \in Sessions :
         /\ state[s] \in {"completing", "completed"} => state'[s] # "deleted"
         /\ gcSession' = s => state'[s] = "deleted"]_vars

\* The sessions, as the outside sees them: everything else is how it is done.
Lifecycle == INSTANCE UploadLifecycle WITH
                life <- state,
                size <- declared_size,
                due <- {s \in Sessions : expired[s]},
                stored <- {s \in Sessions : blob[s].linked},
                made <- nodes,
                purged <- purged,
                used <- used_bytes,
                quota <- quota_bytes

\* Requests that overlap, repeat, fail half-way or come back late change a session
\* only in the ways UploadLifecycle lists, each in one step: a node and its charge
\* appear together, of bytes that are stored unless a purge took them, and within
\* the quota; a session is done only when it has made a node; the bytes go only
\* after a purge; an end is an end.  How many nodes a session makes is not
\* promised: two completes that overlap make two.
ImplementsLifecycle == Lifecycle!Spec

\* What open promises: the space of every session that has no node and may still
\* be materialised fits beside what is used, through lost answers, retries and
\* purges, so persist_node never refuses it for want of room that another session
\* took.  Direct uploads, which do take it, are not in this module.
ReservationsHold ==
    used_bytes + MapThenSumSet(LAMBDA s : declared_size[s],
                               {s \in Sessions : /\ state[s] \in {"open", "completing"}
                                                 /\ LiveNodes(s) = {}})
        <= quota_bytes

\* received_bytes never counts a byte that no recorded chunk accounts for, so
\* complete is never misled into taking a partial file for a whole one by it.
ReceivedIsBacked ==
    \A s \in Sessions :
        received_bytes[s] <= MapThenSumSet(LAMBDA i : chunks[s][i], DOMAIN chunks[s])

\* The blob behind a node holds exactly the bytes declared, each written by some
\* chunk: no hole, and nothing past the end.
BlobIsWhole == \A s \in Sessions : LiveNodes(s) # {} => blob[s].bytes = Content(s)

\* The same as long as no node of the session was purged: the file that complete
\* renames first is whole, and no retry puts another in its place.
FirstBlobIsWhole ==
    \A s \in Sessions : nodes[s] > 0 /\ purged[s] = {} => blob[s].bytes = Content(s)

\* However often complete is retried, a session never has two nodes at once, which
\* would share one file and be counted twice in used_bytes.  (Once its node is
\* purged, a retry makes another.)
OneNodeAtATime ==
    \A s \in Sessions : \A m, n \in LiveNodes(s) : m = n

\* No session that expired open or aborted waits for the collector for ever: it
\* gets to every one, whatever the size of its batches, unless a request claims the
\* session first.
ExpiredIsReclaimed ==
    \A s \in Sessions : []<>~Reclaimable(s)

\* Without lost requests, a claim is always resolved: the request that claimed
\* the session marks it completed or opens it again.
ClaimIsResolved ==
    \A s \in Sessions : state[s] = "completing" ~> state[s] # "completing"

\* Every request that is not dropped gets its answer: no transaction that holds
\* the owner's row waits for anything but its own statements, and the row is
\* given back on each way out of it.
RequestsAreAnswered == \A h \in Handlers : pc[h] # "idle" ~> pc[h] = "idle"

=============================================================================
