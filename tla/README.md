# A TLA+ verification of CH-Api-Drive

CH-Api-Drive is the file service of a personal cloud: one Rust process (axum,
sqlx, tokio), one PostgreSQL database, one storage volume. This directory models
its stateful core in TLA+, checks it with TLC and proves its safety properties with TLAPS.

    tlc -config upload_concurrent.cfg MCUploadSession     # any run below
    tlapm UploadSessionProofs.tla                          # or any module with proofs

## 1. Inventory

| Part | State | Operations | What is hard |
|---|---|---|---|
| resumable upload, `handlers/upload.rs` + `repository/upload_sessions.rs` | tables `upload_sessions`, `upload_chunks`; files at `tmp_key`, `storage_key` | open, put_chunk, status, complete, abort | every await is a gap in which other requests, the collector and the clock run; retries of complete; lost connections |
| collector, `jobs/upload_gc.rs` | the batch it works through | find_expired, delete_if_expired, delete the file | a stale batch, a crash between row and file |
| file handlers, `handlers/files.rs` + `repository/nodes.rs` | table `nodes`, blobs, thumbnails | list, create_folder, upload, patch, trash, restore, purge, download | check-then-act on the tree and on names; purges of several statements; cascade; lock order; a download beside a purge |
| owner's row, `repository/drive_users.rs` | `quota_bytes`, `used_bytes`, the row lock | ensure_user, quota_used_for_update, add_used_bytes, set_quota, recompute_used | the same counter changed by uploads, purges and the administrator; first requests in parallel |
| database pool, `db.rs` | ten connections | acquire with a timeout | requests that hold one and wait |
| storage volume, `services/storage.rs` | files | write_at, create_writer, finalize, delete | no atomicity with the database |
| event publisher, `services/event_publisher_mqtt.rs` | bounded channel, the connection to the broker | publish_file_uploaded, the loop that polls the client | events dropped when the channel is full, repeated or lost when the connection breaks |
| authentication, configuration, routes, media, health | none that changes | | not modelled |

The parts interact through the database and the volume only. A handler is an
async function that awaits one SQL statement or one file operation after the
other; nothing but a PostgreSQL transaction ties two of them together. Two
transactions matter to everybody: the one that takes the owner's row `FOR
UPDATE` (open, persist_node, direct upload) and the one of a purge, which deletes
nodes first and updates the owner's row last.

What makes each part correct:

- a resumable upload: the blob of a node is the file the client declared; one
  session gives one node; final states are final; what was reserved can be
  stored; nothing stays claimed or on disk without an owner;
- the collector: it reaches every expired session and takes nothing that was
  claimed since;
- the tree: it stays a tree under the root; the trash is closed downwards; a
  purge deletes what it was asked to delete, and exactly its blobs;
- names: a live name is unique in its folder; an upload gets the first name that is
  free; a request is refused only for a cause, and an answer says what was done;
- the owner's row: `used_bytes` is what the files add up to, uploads keep it within
  the quota, and there is one row and one root for each user;
- a download: exactly the bytes that were asked for, of a file of the length that its
  row says, whatever happens to the node meanwhile;
- the event: only for a file that is there, once, and never in the way of an upload;
- the pool: nobody holds a connection while waiting for a second one or for a client.

## 2. Modules and plan

| Module | Content | Proofs |
|---|---|---|
| `UploadLifecycle` | abstract: the life of a session | |
| `UploadSession` | resumable upload, collector, owner's row, files of a session, purge of its nodes; implements `UploadLifecycle` | `UploadSessionProofs`, `UploadRefinement` |
| `DriveTree` | folders, direct upload with its thumbnail, move, trash, restore, purge, recompute | `DriveTreeProofs`, `SumLemmas` |
| `NodeNames` | names, free_name, rename, the unique index | `NodeNamesProofs` |
| `OwnerAccount` | ensure_user, the quota under all its takers, the pool | `OwnerAccountProofs` |
| `EventBus` | the event after the commit of an upload, up to the broker | `EventBusProofs` |
| `ByteRange` | `parse_range` beside what a range asks for | `FileContentProofs` |
| `FileContent` | the bytes of a file: upload stream, download, purge; extends `ByteRange` | `FileContentProofs` |

The modules share the program's lines where two of them need the same statement:
the commit of a direct upload is a node in `DriveTree`, bytes of the account in
`OwnerAccount`, a name in `NodeNames`, a file in `FileContent` and the cause of an
event in `EventBus`. Each of these modules is one question about the same handler,
and takes for granted what the others show.

`SumLemmas` is about the sums of the community module `FiniteSetsExt` and serves the
proofs of `DriveTree` (bytes of files) and of `UploadSession` (bytes of sessions and of
chunks).

Every safety property that a passing run checks is a theorem as well (section 5). Left
to do: the guarantees that are proved for one request at a time, under weaker
hypotheses. What has to be excluded is known from the sequences at the end of section 4
(two completes of one session, two chunks of one index, two purges of one node, a purge
beside a complete); that any other overlap is harmless is neither checked nor proved.

## 3. The modules

### UploadSession

One owner, up to `NumSessions` sessions, a set of request slots (`Handlers`).
A slot is a client that waits for its answer before it sends the next request, so
one slot is a client that uploads serially and two slots are two clients, or
one that uploads chunks in parallel.

- `state`, `declared_size`, `received_bytes`, `node_id`, `expired`, `chunks` are the
  rows of `upload_sessions` and `upload_chunks`. `reserved_bytes` always equals
  `declared_size` and has no variable; `expires_at` is reduced to "in the past",
  and sessions are numbered in the order in which they expire.
- `quota_bytes`, `used_bytes`, `rowLock` are the owner's row; `nodes` counts the
  file nodes ever made from a session, `purged` are those of them that were deleted. All
  nodes of a session have its `storage_key`.
- `part` and `blob` are the files at `tmp_key` and `storage_key`: whether there is one,
  and which byte offsets were written through the protocol. `fd` is the file that
  `write_at` has open, which follows the file when it is renamed or unlinked.
- `pc` and `req` are the program counter and the local variables of each handler.
  A label names the next await.
- `gcBatch` and `gcSession` are the position of the collector in `run_once`.

Each action is one await with the code up to the next one. Two consecutive steps of
the code are one action only if the second reads nothing that others change. A
transaction appears at its commit: `PersistCommit` is `insert_file`, `add_used_bytes`,
`set_node_tx` and `commit`, under the row lock taken by `PersistLockUser`.

A purge of a node of the session (`DELETE /files/{id}/purge`) lists the key, sums, deletes
and releases, and unlinks the file behind its commit (`PurgeSelect` to `PurgeUnlink`).
`node_id` is no foreign key and stays: `existing_node` looks the node up, and when it is
gone complete goes on to `finalize` and makes another one.

Failures are chosen with `Faults`: `drop` (the connection closes and axum drops the
future, or a statement without error branch fails), `crash` (the process restarts),
`persist` (a statement of `persist_node` fails, a taken name included), `lookup` (the query of
`existing_node` fails, and complete opens the session again), `rename`, `write` (a prefix is
written), `unlink`.

`Lifecycle` is the refinement mapping: the column `state`, the declared size, the nodes made
and purged and `used_bytes` map to themselves, a session is stored when it has a file at
`storage_key`. `ImplementsLifecycle` says that whatever overlaps, repeats or comes back late
changes a session only in the ways that `UploadLifecycle` lists, each in one step. It is not
serializability, and the abstract specification is as weak as the code is: a session may be
materialised twice, a stale request may store or materialise a session that was given back, two
purges of one node may both release its bytes, and once a node was purged the bytes may be
gone when the next one is made. What it does promise: a node and its charge appear together and
within the quota; without a purge they are made of stored bytes, which stay; a session is
done only when a node was made of it; ends are final.

Left out: the parent folder of a session (a purge of the parent deletes the
session by cascade) and purges of more than one node (`DriveTree` has the purge of a subtree
and of the trash), names, `status`, the copy of `finalize` across devices (both keys are
in one directory), the loss of unsynced data when the machine itself dies.

### DriveTree

One owner, the root and up to `NumNodes` nodes. `kind`, `parent_id`, `trashed`,
`size_bytes`, `has_thumbnail` are the rows of `nodes`; `blob` and `thumb` say whether the
file of a node and its thumbnail are on the volume; `deleting` holds the rows an open purge has deleted. `Ops` selects which
requests arrive, so that a run can say which combination is safe and which is not.

- A statement is atomic, and waits for the rows it needs: a foreign key to a
  deleted row waits for the purge (`Deleted`), the DELETE waits for an uncommitted
  file in the folder (`KeyShared`), whoever needs the owner's row waits for `rowLock`
  (the INSERT of a folder too: its foreign key takes the row `FOR KEY SHARE`).
- `Subtree` is the result of the `WITH RECURSIVE` queries, as a least fixed point; on
  a cycle they never end, and the handler stays where it is.
- `Deadlock` is PostgreSQL breaking the cycle of an upload and a purge.
- `RecomputeRead` / `RecomputeWrite` are one UPDATE: its subquery keeps the view
  of the start of the statement when the UPDATE has to wait.

Failures are chosen with `Faults`: `drop` (as above; an open transaction rolls back),
`conflict` (a name is taken), `stream` (the body of an upload breaks off), `unlink` (a
deletion fails).

Names are in `NodeNames`: here a name that is taken is the fault `conflict`. `quota_bytes` is constant here (`SetQuota` is in
`UploadSession`). After its commit the upload of an image goes on to read its blob,
to write the thumbnail and to mark the row (`ThumbnailRead`, `ThumbnailWrite`,
`SetMediaMeta`), while its node may already be trashed or purged. The event that is
published last is left to `EventBus`.

### NodeNames

The root, one folder in it, a few items that come and go. A name is a sequence of
numbers, so that what `free_name` makes of a name ("a (2).txt") can itself be asked for.
`candidate` is the n-th name that `free_name` tries, `UniqueNames` the partial unique index on live nodes; every INSERT and UPDATE is
refused when the index would be violated, as a whole, and `Answer`/`Update` are the mapping of
the database error to 409 and 500. `MoveNode` and `Rename` are two statements without
a transaction, as in `patch_node`, and `Invalid` stands for every name that `validate_name`
refuses, which it does behind the move: the answer is 400 and the node has been moved. (Other
requests with such a name are refused before they do anything.) `Probe` is one query of `free_name`. `disturbed` and `was` are history for the
properties.

### OwnerAccount

The row of a user from its first request on, and the connections. A statement on the
pool needs a free connection for one step; a transaction, and a statement that waits for
a row, keeps one (`conn`). `ensure_user` is cut at each await, and the `INSERT ... ON CONFLICT DO
NOTHING` waits for another transaction that has inserted the same user (`inserting`). `open`
and the direct upload decide on the same row with different checks; `set_quota` needs no
account. A file is its size here and a session the bytes it reserves.

### EventBus

An upload from its commit to its answer; the channel between the handlers and the
task that polls the client; the connection; the broker. `channel` is bounded by
`Capacity` (`CLIENT_CHANNEL_CAPACITY`), `pending` is what the client kept of a broken
connection, `inflight` what is not acknowledged. The client library and the broker are
external: whether a client forgets its pending events when it connects again is left
open, and both are explored.

### ByteRange and FileContent

`ByteRange` has `parse_range` on what it finds in the header: numbers, missing fields,
and texts that are no numbers. `Asked` is the reference, the set of bytes that a
header asks for. `FileContent` has one file from its stream to its purge. The byte at
offset i is i, so the content of a file is its length; `buffered` is the chunk that the
writer has taken and whose failure it reports with the next call; a download reads the
row (`GetNode`), the length (`Metadata`) and the file (`OpenAndStream`) in three steps.

### MC modules

The MC modules add symmetry (request slots, readers, items), used in the
runs without liveness, the sets of range fields and names, and for `upload_concurrent` and
`node_names` a `View` that leaves out the locals no later step reads, as in a session row that a
request has made use of. `OwnerAccount` and `EventBus` are run
as they are.

## 4. Runs

Passing:

| Run | Question | Bounds |
|---|---|---|
| `upload_concurrent` | what holds under every interleaving and every failure: types, a completed session has had its node, nothing but a purge takes the blob of a node, the quota is never overrun, final states, the collector spares what is claimed; the steps are those of `UploadLifecycle` | 2 requests, 1 session of 2 chunks, quota 1 or 2, `MaxNodes` 1: enough for a claim, a refusal, a retry, a purge and a stale request to meet |
| `upload_serial` | what holds for a client that sends one request at a time, purges and completes again after lost answers: what was reserved is not given to another session, received bytes, a node has its blob, two nodes are never there at once, the blob is whole until a purge; and the collector reaches every expired session | 1 request, 2 sessions of sizes 1 and 3 with chunks of 2 (a last short chunk), which compete for a quota of 3 and for a batch of 1; lost answers, failing writes and unlinks; `MaxNodes` 1: a purge and the second node |
| `upload_liveness` | claims are resolved, requests are answered | 2 requests, 1 session, refusals (quota 1 against size 2), failing persists and lookups, a purge |
| `tree_serial` | the tree stays rooted, `used_bytes` is the sum of the files, nothing is live under the trash, a purge deletes only trash | 1 request, 3 nodes, every operation but restore, every fault |
| `tree_purges` | types, a file has its blob and its thumbnail, no upload passes the quota | 2 requests, 2 nodes (two files, or a folder and its file), uploads against trash and purges, sizes 1 and 2, quota 2 |
| `tree_liveness` | requests are answered, the deadlock included | 2 requests, 2 nodes, quota 1, restore and recompute included |
| `node_names` | an upload is named or refused for a cause, a patch does what it answers, the index | 2 requests, 2 items and a folder, 2 names of which one is what `free_name` makes of the other, 2 names tried, and a name that is refused; every operation |
| `owner_account` | one account with one root, the `expect` of `ensure_user`, what open and upload have checked still holds at their commit, requests answered | 3 requests of a user without an account on 2 connections, quota 1 (2 by the administrator), uploads of 1 |
| `event_bus` | an event only for a file, once per connection, never in the way of an upload, sent as soon as the broker can be reached | 3 uploads (one an image) on a channel of 2, one broken connection, any number of restarts |
| `file_content` | a file has the length of its row, a download is exact, a live file is found | 2 downloads with any range around a file of up to 3 bytes, chunks of 1 and 2, one upload, trash, restore, purge |

Two request slots are enough for every race of this code between two requests:
each handler changes the shared state a few statements after the one it read, and a
third request can only do to the first what the second can. Three nodes are a
folder, a folder or file in it, and one more beside or below it: a move of a
subtree, a trash of a subtree and a cycle of two folders all fit. Two nodes are a
folder and a file in it, or two files that compete for the quota, which is what an
upload and a purge can share. A channel of two fills with two uploads and refuses the third; two
connections and three requests make one wait. Three bytes have a first, a last
and a middle one, so that a range can begin and end at, before and behind each. Two names tried are the
first, and one more until `free_name` gives up. All bounds:
`NumSessions`, `NumNodes`, `MaxDrift` (no chunk is sent once `received_bytes` has drifted
below it), `MaxNodes` (no node of a session is purged once more than that many were made), `MaxBreaks`, `MaxTries`, `PoolSize`, `Capacity`, `Remaining`, and the sets of sizes, quotas, names,
items and range fields.

The larger state spaces: `node_names` 1.4 million distinct states, `upload_concurrent` 1.3 million
(both up to symmetry and their `View`), `upload_serial` 714,401, `owner_account` 207,511,
`upload_liveness` 85,177, `file_content` 65,521, `event_bus` 22,402.

What the passing runs exclude, and why:

- `upload_serial` has one request slot, and neither the faults `rename` and
  `persist` nor changes of the quota: each of them lets a session be opened again
  after its file was finalized and before it has a node, the subject of
  `upload_resend_after_refusal`, and an administrator may lower the quota below what is
  reserved. Direct uploads, which take reserved space, are in `OwnerAccount`. Crashes and failed
  lookups of the node are in `upload_concurrent`; the theorems of section 5 have them beside one
  request at a time (a process that crashes again and again would also keep the collector from
  its work). All runs have `WellSized`, that is clients that cut a file the way the
  tests do.
- `FirstBlobIsWhole` speaks of sessions none of whose nodes was purged. After a purge the
  chunks are still recorded and the bytes are gone (the first of the sequences below).
- `tree_serial` has no restore, the subject of `tree_restored_child`, and one slot,
  because of the races listed below.
- `tree_purges` has neither moves nor restores, because of the file that is restored
  during a purge (below).
- `node_names` has its properties say "when no other request changes a row
  meanwhile" where the code has no transaction: a patch that loses a race answers 200
  for a move that another patch has undone.
- `file_content` has no failure of the last write: `flush` waits for it and its result is
  ignored, so the row may say more bytes than the file has (`FileIsWhole` with the
  fault `last_write`).
- `owner_account` has neither purges, which only give space back, nor the charge of a
  completed session (`QuotaGate` of `UploadSession`). It makes no claim that a reservation
  outlives a direct upload or a lower quota: the code gives that space away, and
  complete is refused later.

Disagreements between the code and what its tests or messages say, each a run
that TLC refutes in a few steps:

| Run | What happens |
|---|---|
| `upload_resend_after_refusal` | a chunk sent again after a refused complete replaces the whole blob |
| `tree_restored_child` | emptying the trash deletes a restored file |

The models show more sequences of the same kinds, which have no run of their own.
They are why a property is checked with one slot only, or not claimed:

- the answer of a complete is lost and its node is purged; the retry finds neither node nor file,
  fails and opens the session again with its chunks recorded; after one chunk is sent again the next
  complete makes a node of that chunk alone (`BlobIsWhole` in `upload_serial`);
- two completes of one session insert two nodes for one blob and count it twice: the
  second reads the session as completing and passes without a claim
  (`OneNodeAtATime` with two slots; `UploadLifecycle` allows it). When one of the two nodes
  is purged the other has lost its file (`NodeHasBlob` with two slots);
- a complete that is sent again while the node it made is being purged finds the node gone and the
  file still there, and makes a second node, whose file the purge then unlinks (`NodeHasBlob`
  with two slots);
- an abort that read the session before it was claimed deletes the file of the claimed
  session all the same;
- two folders are moved into each other and leave the tree as a cycle (`Rooted` with two
  slots);
- a file restored while the trash is emptied keeps its row and loses its blob
  (`FileHasBlob` with restore among the operations);
- one chunk sent twice at once counts twice in `received_bytes` (`ReceivedIsBacked`
  with two slots); short chunks that add up to the declared size leave a hole
  (`BlobIsWhole` with `WellSized = FALSE`);
- an abandoned session that was finalized and never persisted leaves its blob; a chunk
  in flight recreates the file the collector has deleted; a broken stream leaves
  the blob of a direct upload; a file uploaded during a purge of its folder leaves its
  blob, and a purge during the upload of an image its thumbnail;
- a purge sent twice releases the bytes twice, and a recomputation that waits for an
  upload overwrites what it added (`UsedIsExact` with two slots);
- a folder is made inside a folder that is being trashed (`TrashIsClosed` with two
  slots), and a resumable upload is completed into a folder that went to the trash since it
  was opened;
- a folder of the trash that holds two files of one name, one of them trashed first, cannot be
  restored as a whole: the index refuses the UPDATE (`RestoreSubtree` answers 409);
- when `free_name` gives up, the streamed file stays on the volume; when the answer of a commit that took place
  is lost, the blob of an existing node is deleted;
- an image upload that is dropped while its thumbnail is made publishes no event, nor
  does any resumable upload.

### Fairness

`HandlerFairness` is strong fairness of each request in flight: tokio polls every
task that is ready, and PostgreSQL queues the waiters of a row, so a statement
that can run again and again does run. `GcFairness` is weak: the ticker never stops and
the collector waits for no lock another part holds for ever. In `DriveTree` the
deadlock detector is weakly fair. `OwnerAccount` has strong fairness of every request
too, since the pool and PostgreSQL serve their waiters in order; the end of a
client's stream and the timeout of the pool are not fair, so that requests are
answered without either. `EventBus` has weak fairness of an upload only; `EventsGoOut`
carries its assumption about the broker in its own premise (`BusFairness`: a connection is made when it can be made
again and again, and the loop is polled). Nothing is assumed about clients: no request has to
arrive. `ClaimIsResolved` is checked without `drop`, since the code does not
recover a claim whose request is lost; `ExpiredIsReclaimed` is checked with it, and under `GcSpec`,
that is with `GcFairness` alone: the collector waits for no request.

## 5. Proofs

Every theorem holds for all values of the constants under the named assumptions of its
module (sizes and quotas are naturals, nobody is not somebody, a pool and a channel
have room for one, users exist).

| Module | Theorem | Property |
|---|---|---|
| `UploadSessionProofs` | `Typing` | `TypeOK` |
| | `BlobSafety` | `OnlyPurgeTakesBlobs` |
| | `QuotaSafety` | `QuotaGate` |
| | `CompletionSafety` | `CompletedHasNode` |
| | `TerminalSafety` | `TerminalStatesAreFinal` |
| | `CollectorSafety` | `CollectorSparesClaimed` |
| | `OneNode` | `OneNodeAtATime`; one request at a time |
| | `NodesHaveBlobs` | `NodeHasBlob`; one request at a time |
| | `Reservations` | `ReservationsHold`; one request at a time, a fixed quota |
| | `Received` | `ReceivedIsBacked`; one request at a time, `WellSized` |
| | `WholeBlobs` | `FirstBlobIsWhole`; one request at a time, a fixed quota, `WellSized`, neither `persist` nor `rename` fails |
| `UploadRefinement` | `LifecycleRefinement` | `ImplementsLifecycle` |
| `OwnerAccountProofs` | `Typing` | `TypeOK` |
| | `RootSafety` | `OneRootPerUser` |
| | `AccountSafety` | `UserIsThere` |
| | `QuotaSafety` | `QuotaIsKept` |
| `EventBusProofs` | `Typing` | `TypeOK`; proved only, no run lists it |
| | `EventSafety` | `EventMeansFile` |
| | `OnceSafety` | `OneEventPerUpload` |
| `FileContentProofs` | `RangesAreExact` | `parse_range` against `Asked`, for every header and length |
| | `Typing` | `TypeOK` |
| | `FileSafety` | `FileIsWhole` |
| | `AnswerSafety` | `AnswerIsExact` |
| | `LiveSafety` | `LiveFileIsFound` |
| `DriveTreeProofs` | `Typing` | `TypeOK` |
| | `TreeShape` | `Shape`: foreign keys, requests and purges in flight |
| | `RaisedByRecomputation` | no step but a recomputation takes `used_bytes` past the quota |
| | `QuotaHolds` | `UploadsWithinQuota`; no recomputation |
| | `FilesAreStored` | `FileHasBlob`; one request at a time, or no move and no restore |
| | `ThumbnailsAreStored` | `ThumbnailIsThere`; as above |
| | `NodesAreReached` | `Rooted`; one request at a time, or no move |
| | `TrashIsWhole` | `TrashIsClosed`; one request at a time, no restore |
| | `TrashIsPurged` | `OnlyTrashIsPurged`; as above |
| | `UsedIsCounted` | `UsedIsExact`; as above |
| | `UploadsAreCounted` | `UsedIsExact`; no purge and no recomputation, any number of requests |
| `NodeNamesProofs` | `Typing` | `TypeOK`, the unique index included |
| | `UploadsAreNamed` | `UploadIsNamed` |
| | `PatchesAreReported` | `PatchIsReported` |

Where the table names a hypothesis, the property is not claimed without it: section 4 lists
the sequences that break it, the argument below names the others. "One request at a time" is `Serial`, at most one
request slot; any number of sessions, nodes, steps, lost connections and failed
statements go with it, and so do the collector and restarts of the process.

*UploadSession.* *Typing* is inductive but for one point: `used_bytes` only stays a
natural because sizes are. *Blobs*: only `PurgeUnlink` removes a file at `storage_key`, behind
a commit that has purged a node of the session, so it is enough that a handler behind
`finalize` has a blob or its session a purged node (`BlobInv`). *Quota*: between the check and the
addition the handler holds the row (`RowHeld`), so what it checked is still true when it
adds (`QuotaChecked`); together with the blob facts this is `OwnerInv`.
*Completion*: a handler about to mark a session completed knows a node that was made of it
(`KnowsNode`), and `node_id` of a row that is not deleted is never reset (`NodeInv`), not by a
purge either.
*Final states* need that an abort never carries the state "completed" or an unborn
session (`AbortSeen`), and that an open in flight concerns a session without a row
(`OpenIsFresh`). *The collector* needs that the session whose file it is about to unlink is
deleted (`CollectorInv`), and that deleted is final.

*The refinement* maps every step under these invariants (`MapInv`) and one about purges in
flight, which know a node that was made and release its size or nothing (`PurgeInv`): `OpenMaps`,
`CompleteMaps`, `PutMaps`, `AbortMaps`, `PurgeMaps` and `CollectorMaps` each show which abstract step
an action is, or that it is a stutter. The invariants are needed twice: a commit is an
abstract materialisation only because its check still holds, and a session is marked completed only
when it has a node.

*OwnerAccount.* The resources are part of `TypeOK`: the connections that are held are
those of the requests at a label of a transaction, and a row is locked by exactly the
request at a label that decides. On top of that (`IInv`) an insertion that is open is
of a user without an account, a request behind `ensure_user` has its account, and
a request between check and commit knows what it checked (`Sound`). The last is
stable because the row lock keeps everybody else from `used_bytes` and `quota_bytes`,
and sums of reserved bytes grow under the same lock only.

*EventBus.* Events on their way are of committed uploads (`EventInv`); that needs no
more. *Once*: an upload that is not answered has no event anywhere, an event is in one of
the three sequences and there once, and what the broker has yet to receive it has
received at most once per broken connection (`OnceInv`).

*FileContent.* Under the assumption `"last_write" \notin Faults`: what is counted is
what is written and what the writer still holds, nobody deletes the blob of a node before
its purge has committed, and what a download has read of a live file stays true of the
file, if it is there (`IInv`). With `RangesAreExact` this gives the answers.

*UploadSession, one request at a time.* Layers, each of which needs the ones before
and the life of the rows (`RowLifeInv`); the run `upload_serial` is
their small instance.

- `Course`: while a request is in flight only the collector moves its session, and only to
  "deleted" (`CourseOf`); of the nodes of a session none but the last is live, and `node_id` is
  its number until the row goes (`RowCourse`). *OneNode* is part of it: a complete that gets past
  `existing_node` has found every node of its session purged.
- `Linked`: a live node, and a node about to be made, has its file. A purge unlinks it when no node
  is left (`CourseOf` at `unlink_blobs`) and nobody makes one meanwhile. This is *NodesHaveBlobs*.
- `Room`: `used_bytes` is what the live nodes add up to (`Charged`); it fits in the quota beside
  the declared sizes of the sessions that wait for their node (`Held`), and so does the session
  whose row is about to be inserted. A materialisation moves a size from one term to the other,
  a purge moves it back as long as the session can still be completed. The quota must stay:
  the administrator may lower it below what is reserved.
- `Backing`: the recorded chunks fit the file, and `received_bytes` is at most their sum
  (`ChunkRows`); a put between `record_chunk` and `add_received` is about to add no more than
  the difference it has made (`PutCourse`). `WellSized` is needed because a chunk that is sent again
  shorter takes the sum below `received_bytes` until the difference is subtracted.
- `Bytes`: the recorded chunks are in the temporary file, which never reaches past the
  declared size (`RowBytes`). When as many chunks are recorded as complete counts, every
  offset of the file lies in one of them (`AllChunksAreWhole`, `ChunksCover`); from there on the
  whole file is at `tmp_key` or, behind `finalize`, at `storage_key` (`StepBytes`). Until a
  session has made a node the branch that opens it again is never taken: the quota does not
  refuse (`PersistFits`, from `Room`) and the hypothesis excludes the other causes. Later it may
  be (a failing lookup, a retry after a purge), but then the node that is there keeps
  `finalize` from being reached, or the node was purged and nothing is claimed.

*Sums.* `MapThenSumSet` is defined by recursion over a set, and an induction over sets is not
available. `SumLemmas` argues with a smallest counterexample instead: if the equation of
a sum failed for a finite set it would fail for one of least cardinality, and a smaller
set gives the contradiction. From the equation follow the lemmas that the proofs cite: a sum
without an element, with a new one, after one weight has changed, of equal weights, of smaller
ones.

*DriveTree.* `TypeOK` has the lock discipline of the owner's row in it. Beside it, `Shape` is
inductive with any number of requests and every operation. It has the foreign key (`Parents`: the
parent of a row is a folder that has a row), the identifiers of new rows (`Distinct`) and the open
purges (`Deletions`: what a purge has deleted and not yet committed is a union of whole
subtrees that no other purge and no uncommitted upload touches). On `Shape` rest

- `RoomIsKept`: between its check and its commit an upload holds the owner's row. A recomputation
  makes no check and may find more bytes than the quota allows, so *QuotaHolds* excludes it and
  *RaisedByRecomputation* says that nothing else can;
- `PurgeList`: no row enters or leaves the subtree or the trash that a purge has listed, unless a
  move or a restore does it; then `Blobs`: the blobs it unlinks behind its commit have no row;
- `RootStands`: every node is below the root, and a move that has passed its check puts the node
  outside of its own subtree. With two requests at once the check is out of date when another
  move comes in between;
- `TrashShut`: a live node is under live folders, what is being put into a folder finds it live, and
  a purge of the trash has deleted nodes of the trash. A restore of a child breaks the first;
- `Counted`: `used_bytes` is the sum of the sizes of the files, and so are the amounts that purges and
  recomputations in flight carry, each over its own nodes. It needs `TrashShut`: a live
  node below the trash goes by cascade, and its bytes are not given back. For uploads
  without purges and recomputations the row lock is enough.

*NodeNames.* `TypeOK` (with the index) and `Shape` (the item an INSERT is to make is unused and
nobody else's) are inductive together, action by action, as what stays (`Frame`, `Kept`, `Owned`).
On top of them `Undisturbed` says of a request during which no other has changed a row that the names it
found taken are taken, the name it chose is free, and the node it patches is as it was read.

Only model-checked: liveness (`ClaimIsResolved`, `ExpiredIsReclaimed`, `RequestsAreAnswered` in three
modules, `UploadsAreAnswered`, `EventsGoOut`), which needs fairness and ENABLED and is out of
reach of the prover.

## 6. Not modelled

Authentication, configuration and startup, routing, health and the answers that only
read (lists, searches, the storage summary, the list of users, the download of a
thumbnail) keep no state of their own. Media decoding is pure. Of a node, its width and height
are left out: they are written with the thumbnail mark and nothing decides on them. The
key validation of the storage and the copy of `finalize` across devices, which its two keys
in one directory never reach, are left out, and so are the texts of events and errors.
