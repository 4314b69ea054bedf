----------------------------- MODULE FileContent -----------------------------
(***************************************************************************)
(* The content of one file of CH-Api-Drive from its direct upload to its   *)
(* downloads and its purge (handlers/files.rs over services/storage.rs).   *)
(*                                                                         *)
(* DriveTree only knows that there is a file at a storage_key.  Here are   *)
(* the loop that writes the stream, whose writer hands a chunk to another  *)
(* thread and reports its failure with the next call, and the handler of a *)
(* download, which reads the row, the length and the file in three steps   *)
(* while the node is trashed, restored or purged.                          *)
(*                                                                         *)
(* The byte at offset i of the file is i, so a content is its length.      *)
(***************************************************************************)
EXTENDS ByteRange

CONSTANTS
    Readers,      \* downloads in flight
    Fields,       \* the values of the fields of a range header
    ChunkSizes,   \* how many bytes the stream brings at a time
    Remaining,    \* the space that ensure_user found for the upload
    Faults        \* which writes fail, a subset of FaultKinds

FaultKinds == {"write", "last_write"}

ASSUME FieldsAssumption == Fields \subseteq Field
ASSUME UploadAssumption == ChunkSizes \subseteq Nat \ {0} /\ Remaining \in Nat
ASSUME FaultsAssumption == Faults \subseteq FaultKinds

\* A request without a range header, which is malformed too; the headers sent.
NoHeader == [unit |-> FALSE, hyphen |-> FALSE, first |-> Missing, last |-> Missing]
Headers == {NoHeader} \cup
           [unit: {TRUE}, hyphen: {TRUE}, first: Fields, last: Fields]

VARIABLES
    up,         \* UploadLabels, the next await of the upload
    size,       \* bytes of the stream so far
    buffered,   \* bytes handed to the writer whose fate is not known
    row,        \* the node in the database
    size_bytes, \* its size
    blob,       \* length of the file at storage_key, or NoFile
    purge,      \* "idle", or "unlink" between its commit and delete_blobs
    pc,         \* [Readers -> ReadLabels]
    req,        \* [Readers -> ...], header, total and range of a download
    answer      \* [Readers -> Answer], how the last download was answered

uploadVars == <<up, size, buffered>>
readVars == <<pc, req, answer>>
vars == <<uploadVars, row, size_bytes, blob, purge, readVars>>

UploadLabels == {"idle", "stream", "flush", "flush_over_quota", "insert", "unlink", "end"}
ReadLabels == {"idle", "metadata", "open"}
NoFile == -1

NoRequest == [header |-> NoHeader, total |-> 0, range |-> Ignored]
\* length is Content-Length, body the bytes that follow.
NoAnswer == [status |-> 0, length |-> 0, body |-> {}]
Answer == [status: {0, 200, 206, 404, 416}, length: Nat, body: SUBSET (0 .. Remaining)]

Init ==
    /\ up = "idle" /\ size = 0 /\ buffered = 0
    /\ row = "none" /\ size_bytes = 0
    /\ blob = NoFile
    /\ purge = "idle"
    /\ pc = [r \in Readers |-> "idle"]
    /\ req = [r \in Readers |-> NoRequest]
    /\ answer = [r \in Readers |-> NoAnswer]

(***************************************************************************)
(* THE UPLOAD                                                              *)
(***************************************************************************)
CreateWriter ==
    /\ up = "idle"
    /\ up' = "stream"
    /\ blob' = 0
    /\ UNCHANGED <<size, buffered, row, size_bytes, purge, readVars>>

\* One turn of the loop.  write_all waits for the chunk before and has its result.
WriteChunk ==
    /\ up = "stream"
    /\ \E n \in ChunkSizes :
          /\ size' = size + n
          /\ \/ /\ size' > Remaining
                /\ up' = "flush_over_quota"
                /\ UNCHANGED <<buffered, blob>>
             \/ /\ size' <= Remaining
                /\ blob' = blob + buffered
                /\ buffered' = n
                /\ UNCHANGED up
             \/ /\ size' <= Remaining /\ buffered > 0 /\ "write" \in Faults
                /\ up' = "end"
                /\ UNCHANGED <<buffered, blob>>
    /\ UNCHANGED <<row, size_bytes, purge, readVars>>

\* The stream breaks off, and the file stays; or it is at its end.
StreamEnds ==
    /\ up = "stream"
    /\ up' \in {"flush", "end"}
    /\ UNCHANGED <<size, buffered, row, size_bytes, blob, purge, readVars>>

\* Mutant: the writer is dropped without flush.
Flush_forgotten ==
    /\ up \in {"flush", "flush_over_quota"}
    /\ up' = IF up = "flush" THEN "insert" ELSE "unlink"
    /\ buffered' = 0
    /\ UNCHANGED <<size, row, size_bytes, blob, purge, readVars>>

\* flush waits for the last chunk; its result is ignored.
Flush ==
    /\ up \in {"flush", "flush_over_quota"}
    /\ up' = IF up = "flush" THEN "insert" ELSE "unlink"
    /\ \/ blob' = blob + buffered
       \/ "last_write" \in Faults /\ UNCHANGED blob
    /\ buffered' = 0
    /\ UNCHANGED <<size, row, size_bytes, purge, readVars>>

\* The transaction; it may refuse, for the quota or a name.
InsertFile ==
    /\ up = "insert"
    /\ \/ row' = "live" /\ size_bytes' = size /\ up' = "end"
       \/ up' = "unlink" /\ UNCHANGED <<row, size_bytes>>
    /\ UNCHANGED <<size, buffered, blob, purge, readVars>>

\* Its failure is ignored.
UnlinkUpload ==
    /\ up = "unlink"
    /\ up' = "end"
    /\ blob' \in {NoFile, blob}
    /\ UNCHANGED <<size, buffered, row, size_bytes, purge, readVars>>

(***************************************************************************)
(* TRASH, RESTORE AND PURGE                                                *)
(***************************************************************************)
TrashOrRestore ==
    /\ row \in {"live", "trashed"}
    /\ row' = IF row = "live" THEN "trashed" ELSE "live"
    /\ UNCHANGED <<uploadVars, size_bytes, blob, purge, readVars>>

\* Mutant: the blob is deleted before the transaction commits.
PurgeCommit_unlinks_first ==
    \/ /\ row \in {"live", "trashed"} /\ purge = "idle"
       /\ blob' = NoFile /\ purge' = "unlink"
       /\ UNCHANGED <<uploadVars, row, size_bytes, readVars>>
    \/ /\ row \in {"live", "trashed"} /\ purge = "unlink"
       /\ row' = "gone"
       /\ UNCHANGED <<uploadVars, size_bytes, blob, purge, readVars>>

\* purge_node or purge_trash commits,
PurgeCommit ==
    /\ row \in {"live", "trashed"}
    /\ row' = "gone"
    /\ purge' = "unlink"
    /\ UNCHANGED <<uploadVars, size_bytes, blob, readVars>>

\* and delete_blobs follows; a failure is ignored.
PurgeUnlink ==
    /\ row = "gone" /\ purge = "unlink"
    /\ purge' = "idle"
    /\ blob' \in {NoFile, blob}
    /\ UNCHANGED <<uploadVars, row, size_bytes, readVars>>

(***************************************************************************)
(* GET /files/{id}/content                                                 *)
(***************************************************************************)
Reply(r, status, length, body) ==
    /\ answer' = [answer EXCEPT ![r] = [status |-> status, length |-> length, body |-> body]]
    /\ pc' = [pc EXCEPT ![r] = "idle"]
    /\ req' = [req EXCEPT ![r] = NoRequest]

\* The node is read.
GetNode(r, header) ==
    /\ pc[r] = "idle"
    /\ IF row = "live"
       THEN /\ pc' = [pc EXCEPT ![r] = "metadata"]
            /\ req' = [req EXCEPT ![r].header = header]
            /\ answer' = [answer EXCEPT ![r] = NoAnswer]
       ELSE Reply(r, 404, 0, {})
    /\ UNCHANGED <<uploadVars, row, size_bytes, blob, purge>>

\* The length of the file decides on the range.
Metadata(r) ==
    /\ pc[r] = "metadata"
    /\ IF blob = NoFile THEN Reply(r, 404, 0, {})
       ELSE LET range == parse_range(req[r].header, blob)
            IN IF range.kind = "unsatisfiable" THEN Reply(r, 416, 0, {})
               ELSE /\ pc' = [pc EXCEPT ![r] = "open"]
                    /\ req' = [req EXCEPT ![r].total = blob, ![r].range = range]
                    /\ UNCHANGED answer
    /\ UNCHANGED <<uploadVars, row, size_bytes, blob, purge>>

\* Mutant: the length of the part without its last byte.
part_length_off_by_one(range) == range.end - range.start

part_length(range) == range.end - range.start + 1

\* open, seek, take, and the stream.  Whoever has the file open reads it to its
\* end, also when it is unlinked meanwhile.
OpenAndStream(r) ==
    LET range == req[r].range
    IN /\ pc[r] = "open"
       /\ IF blob = NoFile THEN Reply(r, 404, 0, {})
          ELSE IF range.kind = "satisfiable"
          THEN Reply(r, 206, part_length(range),
                     {i \in 0 .. blob - 1 :
                         range.start <= i /\ i < range.start + part_length(range)})
          ELSE Reply(r, 200, req[r].total, 0 .. blob - 1)
       /\ UNCHANGED <<uploadVars, row, size_bytes, blob, purge>>

(***************************************************************************)
(* SPECIFICATION                                                           *)
(***************************************************************************)
UploadStep == CreateWriter \/ WriteChunk \/ StreamEnds \/ Flush \/ InsertFile \/ UnlinkUpload

Next ==
    \/ UploadStep
    \/ TrashOrRestore \/ PurgeCommit \/ PurgeUnlink
    \/ \E r \in Readers : \/ \E header \in Headers : GetNode(r, header)
                          \/ Metadata(r) \/ OpenAndStream(r)

Spec == Init /\ [][Next]_vars

(***************************************************************************)
(* PROPERTIES                                                              *)
(***************************************************************************)
\* Type invariant.
TypeOK ==
    /\ up \in UploadLabels
    /\ size \in Nat /\ buffered \in Nat /\ size_bytes \in Nat
    /\ row \in {"none", "live", "trashed", "gone"}
    /\ blob \in Nat \cup {NoFile}
    /\ purge \in {"idle", "unlink"}
    /\ pc \in [Readers -> ReadLabels]
    /\ req \in [Readers -> [header: Header, total: Nat, range: Outcome]]
    /\ answer \in [Readers -> Answer]

\* The file of a node has the length that the node says: every chunk that was counted is written, or the
\* upload ends in an error before it inserts the node.  This needs that the last
\* write succeeds, since flush hides its failure.
FileIsWhole == row \in {"live", "trashed"} => blob \in {size_bytes, NoFile}

\* A download is answered as its range asks, and Content-Length is what follows:
\* parse_range, the length of a part, and the order of metadata and open.
AnswerIsExact ==
    [][\A r \in Readers :
         LET h == req[r].header
             a == answer'[r]
         IN pc[r] # "idle" /\ pc'[r] = "idle" =>
               /\ a.status \in {200, 206} =>
                     a.body = IF Malformed(h) THEN 0 .. size_bytes - 1 ELSE Asked(h, size_bytes)
               /\ a.status \in {200, 206} =>
                     \E i \in 0 .. size_bytes : a.body = i .. i + a.length - 1
               /\ a.status = 206 => a.length > 0
               /\ a.status = 416 => size_bytes = 0 \/ Asked(h, size_bytes) = {}]_vars

\* A file that is live is found, whatever happens to it during the download: only a
\* purge that has committed deletes the blob.
LiveFileIsFound ==
    [][\A r \in Readers :
         pc[r] # "idle" /\ answer'[r].status = 404 /\ pc'[r] = "idle" => row = "gone"]_vars

=============================================================================
