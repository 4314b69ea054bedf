-------------------------- MODULE FileContentProofs --------------------------
(***************************************************************************)
(* Proofs about FileContent: what parse_range answers for every header and *)
(* every length, and the safety properties of uploads and downloads for    *)
(* any number of readers, any chunks and any space.                        *)
(***************************************************************************)
EXTENDS FileContent, TLAPS

(***************************************************************************)
(* PARSE_RANGE                                                             *)
(***************************************************************************)
\* A range that is satisfiable is what the header asks for.
LEMMA SatisfiableIsAsked ==
    ASSUME NEW h \in Header, NEW total \in Nat,
           parse_range(h, total).kind = "satisfiable"
    PROVE  LET r == parse_range(h, total)
           IN /\ r \in Outcome /\ r.start <= r.end /\ r.end < total
              /\ ~Malformed(h) /\ h.unit /\ h.hyphen
              /\ r.start .. r.end = Asked(h, total)
<1> DEFINE start == range_start(h, total)
           end == range_end(h, total)
<1>1. /\ h.first \in Int /\ h.last \in Int
      /\ h.first \in Nat \/ h.first = -1 \/ h.first = -2
      /\ h.last \in Nat \/ h.last = -1 \/ h.last = -2
  BY DEF Header, Field, Missing, Garbage
<1>2. /\ h.unit /\ h.hyphen /\ total # 0 /\ ~Malformed(h)
      /\ ~(h.first = Missing /\ h.last = 0)
      /\ start < total /\ start <= end
      /\ parse_range(h, total) = Satisfiable(start, end)
  <2>1. /\ Ignored.kind # "satisfiable" /\ Unsatisfiable.kind # "satisfiable"
    BY DEF Ignored, Unsatisfiable
  <2>2. /\ h.unit /\ h.hyphen /\ total # 0 /\ ~Malformed(h)
        /\ ~(h.first = Missing /\ h.last = 0)
        /\ ~(start >= total \/ start > end)
        /\ parse_range(h, total) = Satisfiable(start, end)
    BY <2>1, Zenon DEF parse_range
  <2>3. start \in Int /\ end \in Int
    BY <1>1 DEF range_start, range_end, Smaller
  <2> QED BY <2>2, <2>3
<1>3. /\ h.first \in Nat \/ h.first = -1
      /\ h.last \in Nat \/ h.last = -1
      /\ h.first # -1 \/ h.last # -1
  BY <1>1, <1>2 DEF Malformed, Missing, Garbage
<1>4. start \in Nat /\ end \in Nat /\ end < total
  BY <1>1, <1>2, <1>3 DEF range_start, range_end, Smaller, Missing
<1>5. parse_range(h, total) \in Outcome
  BY <1>2, <1>4 DEF Satisfiable, Outcome
<1>6. start .. end = Asked(h, total)
  <2>1. CASE h.first = -1
    <3>1. h.last \in Nat \ {0}
      BY <1>1, <1>2, <1>3, <2>1 DEF Missing
    <3>2. start = total - Smaller(h.last, total) /\ end = total - 1
      BY <2>1 DEF range_start, range_end, Missing
    <3>3. Asked(h, total) = {i \in 0 .. total - 1 : i >= total - h.last}
      BY <2>1 DEF Asked, Missing
    <3> QED BY <3>1, <3>2, <3>3 DEF Smaller
  <2>2. CASE h.first # -1 /\ h.last = -1
    <3>1. start = h.first /\ end = total - 1
      BY <2>2 DEF range_start, range_end, Missing
    <3>2. Asked(h, total) = {i \in 0 .. total - 1 : h.first <= i}
      BY <2>2 DEF Asked, Missing
    <3> QED BY <1>3, <2>2, <3>1, <3>2
  <2>3. CASE h.first # -1 /\ h.last # -1
    <3>1. start = h.first /\ end = Smaller(h.last, total - 1)
      BY <2>3 DEF range_start, range_end, Missing
    <3>2. Asked(h, total) = {i \in 0 .. total - 1 : h.first <= i /\ i <= h.last}
      BY <2>3 DEF Asked, Missing
    <3> QED BY <1>3, <2>3, <3>1, <3>2 DEF Smaller
  <2> QED BY <2>1, <2>2, <2>3
<1> QED BY <1>2, <1>4, <1>5, <1>6 DEF Satisfiable

\* Nothing of the file is asked for by a range that is unsatisfiable.
LEMMA UnsatisfiableIsEmpty ==
    ASSUME NEW h \in Header, NEW total \in Nat,
           parse_range(h, total).kind = "unsatisfiable"
    PROVE  /\ parse_range(h, total) = Unsatisfiable
           /\ h.unit /\ h.hyphen
           /\ total = 0 \/ (~Malformed(h) /\ Asked(h, total) = {})
<1> DEFINE start == range_start(h, total)
           end == range_end(h, total)
<1>1. /\ h.first \in Int /\ h.last \in Int
      /\ h.first \in Nat \/ h.first = -1 \/ h.first = -2
      /\ h.last \in Nat \/ h.last = -1 \/ h.last = -2
  BY DEF Header, Field, Missing, Garbage
<1>2. /\ Ignored.kind # "unsatisfiable"
      /\ \A a, b : Satisfiable(a, b).kind # "unsatisfiable"
  BY DEF Ignored, Satisfiable
<1>3. /\ h.unit /\ h.hyphen
      /\ parse_range(h, total) = Unsatisfiable
      /\ total = 0 \/ ~Malformed(h)
      /\ \/ total = 0
         \/ h.first = Missing /\ h.last = 0
         \/ start >= total \/ start > end
  BY <1>2, Zenon DEF parse_range
<1>4. ASSUME total # 0 PROVE Asked(h, total) = {}
  <2>1. /\ h.first \in Nat \/ h.first = -1
        /\ h.last \in Nat \/ h.last = -1
        /\ h.first # -1 \/ h.last # -1
    BY <1>1, <1>3, <1>4 DEF Malformed, Missing, Garbage
  <2>2. CASE h.first = -1
    <3>1. Asked(h, total) = {i \in 0 .. total - 1 : i >= total - h.last}
      BY <2>2 DEF Asked, Missing
    <3>2. h.last = 0
      <4>1. start = total - Smaller(h.last, total) /\ end = total - 1
        BY <2>2 DEF range_start, range_end, Missing
      <4> QED BY <1>3, <1>4, <2>1, <2>2, <4>1 DEF Smaller, Missing
    <3> QED BY <3>1, <3>2
  <2>3. CASE h.first # -1 /\ h.last = -1
    <3>1. start = h.first /\ end = total - 1
      BY <2>3 DEF range_start, range_end, Missing
    <3>2. Asked(h, total) = {i \in 0 .. total - 1 : h.first <= i}
      BY <2>3 DEF Asked, Missing
    <3> QED BY <1>3, <1>4, <2>1, <2>3, <3>1, <3>2 DEF Missing
  <2>4. CASE h.first # -1 /\ h.last # -1
    <3>1. start = h.first /\ end = Smaller(h.last, total - 1)
      BY <2>4 DEF range_start, range_end, Missing
    <3>2. Asked(h, total) = {i \in 0 .. total - 1 : h.first <= i /\ i <= h.last}
      BY <2>4 DEF Asked, Missing
    <3> QED BY <1>3, <1>4, <2>1, <2>4, <3>1, <3>2 DEF Smaller, Missing
  <2> QED BY <2>2, <2>3, <2>4
<1> QED BY <1>3, <1>4

\* parse_range (handlers/files.rs) agrees with the reference for every header and
\* every length, and its arithmetic stays between 0 and the length.
THEOREM RangesAreExact ==
    \A h \in Header, total \in Nat : RangeIsExact(h, total)
<1> SUFFICES ASSUME NEW h \in Header, NEW total \in Nat PROVE RangeIsExact(h, total)
  OBVIOUS
<1> DEFINE r == parse_range(h, total)
<1>1. r = Ignored \/ r = Unsatisfiable \/ r = Satisfiable(range_start(h, total), range_end(h, total))
  BY Zenon DEF parse_range
<1>2. CASE r = Ignored
  <2>1. ~h.unit \/ ~h.hyphen \/ Malformed(h)
    <3>1. /\ Unsatisfiable # Ignored
          /\ \A a, b : Satisfiable(a, b) # Ignored
      BY DEF Unsatisfiable, Ignored, Satisfiable
    <3> QED BY <1>2, <3>1, Zenon DEF parse_range
  <2> QED BY <1>2, <2>1 DEF RangeIsExact, Ignored, Outcome
<1>3. CASE r = Unsatisfiable
  <2>1. r.kind = "unsatisfiable"
    BY <1>3 DEF Unsatisfiable
  <2> QED BY <1>3, <2>1, UnsatisfiableIsEmpty DEF RangeIsExact, Unsatisfiable, Outcome
<1>4. CASE r = Satisfiable(range_start(h, total), range_end(h, total))
  <2>1. r.kind = "satisfiable"
    BY <1>4 DEF Satisfiable
  <2> QED BY <2>1, SatisfiableIsAsked DEF RangeIsExact
<1> QED BY <1>1, <1>2, <1>3, <1>4

(***************************************************************************)
(* THE INDUCTIVE INVARIANT                                                 *)
(***************************************************************************)
\* The bytes of the stream are in the file or with the writer until the node is
\* inserted, which happens when all of them are in the file.
Written ==
    /\ up = "idle" => size = 0 /\ buffered = 0
    /\ up \in {"stream", "flush"} => blob \in Nat /\ blob + buffered = size
    /\ up = "flush_over_quota" => blob \in Nat
    /\ up = "insert" => blob = size
    /\ up \in {"idle", "stream", "flush", "insert"} => size <= Remaining

\* A node comes with the end of its upload, and its file goes after its purge.
Stored ==
    /\ row # "none" => up = "end"
    /\ row # "none" => blob \in {size_bytes, NoFile} /\ size_bytes <= Remaining
    /\ row \in {"live", "trashed"} => blob # NoFile
    /\ purge = "unlink" => row = "gone"

\* A download has decided on the length that the file still has.
Reading == \A r \in Readers :
    /\ req[r].header \in Headers
    /\ pc[r] # "idle" => row # "none"
    /\ pc[r] = "open" => /\ req[r].total = size_bytes
                         /\ req[r].range = parse_range(req[r].header, size_bytes)
                         /\ req[r].range.kind # "unsatisfiable"

IInv == TypeOK /\ Written /\ Stored /\ Reading

LEMMA HeadersAreHeaders == Headers \subseteq Header /\ \A h \in Headers :
                              (h.unit /\ h.hyphen) \/ Malformed(h)
<1> SUFFICES ASSUME NEW h \in Headers
             PROVE  h \in Header /\ ((h.unit /\ h.hyphen) \/ Malformed(h))
  OBVIOUS
<1>1. CASE h = NoHeader
  BY <1>1 DEF NoHeader, Header, Field, Malformed
<1>2. CASE h \in [unit: {TRUE}, hyphen: {TRUE}, first: Fields, last: Fields]
  <2>1. Fields \subseteq Field
    BY FieldsAssumption
  <2> QED BY <1>2, <2>1 DEF Header
<1> QED BY <1>1, <1>2 DEF Headers

LEMMA InitInv == Init => IInv
<1> SUFFICES ASSUME Init PROVE IInv
  OBVIOUS
<1>1. NoHeader \in Headers /\ NoHeader \in Header
  BY HeadersAreHeaders DEF Headers
<1>2. NoRequest \in [header: Header, total: Nat, range: Outcome]
  BY <1>1 DEF NoRequest, Ignored, Outcome
<1>3. NoAnswer \in Answer
  BY DEF NoAnswer, Answer
<1>4. TypeOK
  BY <1>2, <1>3 DEF Init, TypeOK, UploadLabels, ReadLabels, NoFile
<1>5. Written /\ Stored
  BY UploadAssumption DEF Init, Written, Stored
<1>6. Reading
  BY <1>1 DEF Init, Reading, NoRequest
<1> QED BY <1>4, <1>5, <1>6 DEF IInv

\* A step of the upload leaves the downloads alone, and there is no node yet.
LEMMA UploadInv == ASSUME IInv, UploadStep, "last_write" \notin Faults PROVE IInv'
<1> USE DEF IInv
<1>1. CASE CreateWriter
  <2>1. TypeOK'
    BY <1>1 DEF CreateWriter, TypeOK, readVars, UploadLabels
  <2>2. Written' /\ Stored'
    BY <1>1 DEF CreateWriter, TypeOK, Written, Stored
  <2>3. Reading'
    BY <1>1 DEF CreateWriter, Reading, readVars
  <2> QED BY <2>1, <2>2, <2>3
<1>2. CASE WriteChunk
  <2> USE UploadAssumption
  <2>1. TypeOK'
    BY <1>2 DEF WriteChunk, TypeOK, Written, readVars, UploadLabels
  <2>2. Written' /\ Stored'
    BY <1>2 DEF WriteChunk, TypeOK, Written, Stored
  <2>3. Reading'
    BY <1>2 DEF WriteChunk, Reading, readVars
  <2> QED BY <2>1, <2>2, <2>3
<1>3. CASE StreamEnds
  <2>1. TypeOK'
    BY <1>3 DEF StreamEnds, TypeOK, readVars, UploadLabels
  <2>2. Written' /\ Stored'
    BY <1>3 DEF StreamEnds, TypeOK, Written, Stored
  <2>3. Reading'
    BY <1>3 DEF StreamEnds, Reading, readVars
  <2> QED BY <2>1, <2>2, <2>3
<1>4. CASE Flush
  <2>1. TypeOK'
    BY <1>4 DEF Flush, TypeOK, Written, readVars, UploadLabels
  <2>2. Written' /\ Stored'
    BY <1>4 DEF Flush, TypeOK, Written, Stored
  <2>3. Reading'
    BY <1>4 DEF Flush, Reading, readVars
  <2> QED BY <2>1, <2>2, <2>3
<1>5. CASE InsertFile
  <2>1. TypeOK'
    BY <1>5 DEF InsertFile, TypeOK, readVars, UploadLabels
  <2>2. Written' /\ Stored'
    BY <1>5 DEF InsertFile, TypeOK, Written, Stored, NoFile
  <2>3. Reading'
    BY <1>5 DEF InsertFile, Reading, Stored, readVars
  <2> QED BY <2>1, <2>2, <2>3
<1>6. CASE UnlinkUpload
  <2>1. TypeOK'
    BY <1>6 DEF UnlinkUpload, TypeOK, readVars, UploadLabels
  <2>2. Written' /\ Stored'
    BY <1>6 DEF UnlinkUpload, TypeOK, Written, Stored
  <2>3. Reading'
    BY <1>6 DEF UnlinkUpload, Reading, Stored, readVars
  <2> QED BY <2>1, <2>2, <2>3
<1> QED BY <1>1, <1>2, <1>3, <1>4, <1>5, <1>6 DEF UploadStep

\* Trash, restore and purge neither change the length of a node nor, before the
\* node is gone, its file.
LEMMA TreeInv ==
    ASSUME IInv, TrashOrRestore \/ PurgeCommit \/ PurgeUnlink PROVE IInv'
<1> USE DEF IInv
<1>1. CASE TrashOrRestore
  <2>1. TypeOK'
    BY <1>1 DEF TrashOrRestore, TypeOK, uploadVars, readVars
  <2>2. Written' /\ Stored'
    BY <1>1 DEF TrashOrRestore, TypeOK, Written, Stored, uploadVars
  <2>3. Reading'
    BY <1>1 DEF TrashOrRestore, Reading, readVars
  <2> QED BY <2>1, <2>2, <2>3
<1>2. CASE PurgeCommit
  <2>1. TypeOK'
    BY <1>2 DEF PurgeCommit, TypeOK, uploadVars, readVars
  <2>2. Written' /\ Stored'
    BY <1>2 DEF PurgeCommit, TypeOK, Written, Stored, uploadVars
  <2>3. Reading'
    BY <1>2 DEF PurgeCommit, Reading, readVars
  <2> QED BY <2>1, <2>2, <2>3
<1>3. CASE PurgeUnlink
  <2>1. TypeOK'
    BY <1>3 DEF PurgeUnlink, TypeOK, uploadVars, readVars
  <2>2. Written' /\ Stored'
    BY <1>3 DEF PurgeUnlink, TypeOK, Written, Stored, uploadVars
  <2>3. Reading'
    BY <1>3 DEF PurgeUnlink, Reading, readVars
  <2> QED BY <2>1, <2>2, <2>3
<1> QED BY <1>1, <1>2, <1>3

\* The end of a download.
LEMMA ReplyInv ==
    ASSUME IInv, NEW r \in Readers, NEW status \in {200, 206, 404, 416}, NEW length \in Nat,
           NEW body \in SUBSET (0 .. Remaining), Reply(r, status, length, body),
           UNCHANGED <<uploadVars, row, size_bytes, blob, purge>>
    PROVE  IInv'
<1>1. NoHeader \in Headers /\ NoHeader \in Header
  BY HeadersAreHeaders DEF Headers
<1>2. NoRequest \in [header: Header, total: Nat, range: Outcome]
  BY <1>1 DEF NoRequest, Ignored, Outcome
<1>3. [status |-> status, length |-> length, body |-> body] \in Answer
  BY DEF Answer
<1>4. TypeOK'
  BY <1>2, <1>3 DEF IInv, TypeOK, Reply, uploadVars, ReadLabels
<1>5. Written' /\ Stored'
  BY DEF IInv, Written, Stored, uploadVars
<1>6. Reading'
  BY <1>1 DEF IInv, TypeOK, Reading, Reply, NoRequest
<1> QED BY <1>4, <1>5, <1>6 DEF IInv

LEMMA PartOfFile ==
    ASSUME NEW start \in Nat, NEW end \in Nat, NEW total \in Nat, end < total
    PROVE  {i \in 0 .. total - 1 : start <= i /\ i < start + (end - start + 1)} = start .. end
OBVIOUS

\* What a download that is at "open" will send.
LEMMA OpenAnswer ==
    ASSUME IInv, NEW r \in Readers, pc[r] = "open", blob # NoFile
    PROVE  LET range == req[r].range
               h == req[r].header
               part == {i \in 0 .. blob - 1 :
                           range.start <= i /\ i < range.start + part_length(range)}
           IN /\ blob = size_bytes /\ blob \in Nat /\ blob <= Remaining
              /\ req[r].total = blob
              /\ range.kind = "satisfiable" =>
                    /\ ~Malformed(h)
                    /\ range.start \in Nat /\ range.end \in Nat
                    /\ range.start <= range.end /\ range.end < blob
                    /\ part_length(range) \in Nat \ {0}
                    /\ part = Asked(h, blob)
                    /\ part = range.start .. range.start + part_length(range) - 1
              /\ range.kind # "satisfiable" => Malformed(h)
<1> DEFINE range == req[r].range
           h == req[r].header
           part == {i \in 0 .. blob - 1 :
                       range.start <= i /\ i < range.start + part_length(range)}
<1>1. /\ blob = size_bytes /\ blob \in Nat /\ blob <= Remaining /\ req[r].total = blob
      /\ range = parse_range(h, blob) /\ range.kind # "unsatisfiable"
  BY DEF IInv, TypeOK, Stored, Reading
<1>2. h \in Headers /\ h \in Header /\ ((h.unit /\ h.hyphen) \/ Malformed(h))
  BY HeadersAreHeaders DEF IInv, Reading
<1>3. ASSUME range.kind = "satisfiable"
      PROVE  /\ ~Malformed(h)
             /\ range.start \in Nat /\ range.end \in Nat
             /\ range.start <= range.end /\ range.end < blob
             /\ part_length(range) \in Nat \ {0}
             /\ part = Asked(h, blob)
             /\ part = range.start .. range.start + part_length(range) - 1
  <2>1. /\ range \in Outcome /\ range.start <= range.end /\ range.end < blob
        /\ ~Malformed(h) /\ range.start .. range.end = Asked(h, blob)
    BY <1>1, <1>2, <1>3, SatisfiableIsAsked
  <2>2. range.start \in Nat /\ range.end \in Nat
    BY <2>1 DEF Outcome
  <2>3. part_length(range) = range.end - range.start + 1
    BY DEF part_length
  <2>4. part = range.start .. range.end
    <3>1. {i \in 0 .. blob - 1 :
              range.start <= i /\ i < range.start + (range.end - range.start + 1)}
          = range.start .. range.end
      <4> HIDE DEF range
      <4> QED BY <1>1, <2>1, <2>2, PartOfFile
    <3> QED BY <2>3, <3>1
  <2>5. range.start + part_length(range) - 1 = range.end
    BY <2>2, <2>3
  <2>6. part_length(range) \in Nat \ {0}
    <3>1. range.end - range.start + 1 \in Nat \ {0}
      <4> HIDE DEF range
      <4> QED BY <2>1, <2>2
    <3> QED BY <2>3, <3>1
  <2>7. part = Asked(h, blob)
    <3> HIDE DEF range, part
    <3> QED BY <2>1, <2>4
  <2>8. part = range.start .. range.start + part_length(range) - 1
    <3> HIDE DEF range, part
    <3> QED BY <2>4, <2>5
  <2> HIDE DEF range, part
  <2> QED BY <2>1, <2>2, <2>6, <2>7, <2>8
<1>4. ASSUME range.kind # "satisfiable" PROVE Malformed(h)
  <2>1. RangeIsExact(h, blob)
    BY <1>1, <1>2, RangesAreExact
  <2>2. range.kind = "ignored"
    BY <1>1, <1>4, <2>1 DEF RangeIsExact, Outcome
  <2> QED BY <1>1, <1>2, <2>1, <2>2 DEF RangeIsExact
<1> QED BY <1>1, <1>3, <1>4

\* A step of a download.
LEMMA ReadInv ==
    ASSUME IInv, NEW r \in Readers,
           (\E header \in Headers : GetNode(r, header)) \/ Metadata(r) \/ OpenAndStream(r)
    PROVE  IInv'
<1>1. CASE \E header \in Headers : GetNode(r, header)
  <2>1. PICK header \in Headers : GetNode(r, header)
    BY <1>1
  <2>2. CASE row # "live"
    <3>1. /\ Reply(r, 404, 0, {})
          /\ UNCHANGED <<uploadVars, row, size_bytes, blob, purge>>
      BY <2>1, <2>2 DEF GetNode
    <3> QED BY <3>1, ReplyInv
  <2>3. CASE row = "live"
    <3>1. /\ pc' = [pc EXCEPT ![r] = "metadata"]
          /\ req' = [req EXCEPT ![r].header = header]
          /\ answer' = [answer EXCEPT ![r] = NoAnswer]
          /\ UNCHANGED <<uploadVars, row, size_bytes, blob, purge>>
      BY <2>1, <2>3 DEF GetNode
    <3>2. header \in Header /\ NoAnswer \in Answer
      BY HeadersAreHeaders DEF NoAnswer, Answer
    <3>3. TypeOK'
      BY <3>1, <3>2 DEF IInv, TypeOK, uploadVars, ReadLabels
    <3>4. Written' /\ Stored'
      BY <3>1 DEF IInv, Written, Stored, uploadVars
    <3>5. Reading'
      BY <2>3, <3>1 DEF IInv, TypeOK, Reading
    <3> QED BY <3>3, <3>4, <3>5 DEF IInv
  <2> QED BY <2>2, <2>3
<1>2. CASE Metadata(r)
  <2> DEFINE range == parse_range(req[r].header, blob)
  <2>1. CASE blob = NoFile \/ range.kind = "unsatisfiable"
    <3>1. /\ Reply(r, 404, 0, {}) \/ Reply(r, 416, 0, {})
          /\ UNCHANGED <<uploadVars, row, size_bytes, blob, purge>>
      BY <1>2, <2>1 DEF Metadata
    <3> QED BY <3>1, ReplyInv
  <2>2. CASE blob # NoFile /\ range.kind # "unsatisfiable"
    <3>1. /\ pc[r] = "metadata"
          /\ pc' = [pc EXCEPT ![r] = "open"]
          /\ req' = [req EXCEPT ![r].total = blob, ![r].range = range]
          /\ UNCHANGED answer
          /\ UNCHANGED <<uploadVars, row, size_bytes, blob, purge>>
      BY <1>2, <2>2 DEF Metadata
    <3>2. row # "none" /\ blob = size_bytes /\ blob \in Nat /\ req[r].header \in Header
      BY <2>2, <3>1, HeadersAreHeaders DEF IInv, TypeOK, Stored, Reading
    <3>3. range \in Outcome
      BY <3>2, RangesAreExact DEF RangeIsExact
    <3>4. TypeOK'
      BY <3>1, <3>2, <3>3 DEF IInv, TypeOK, uploadVars, ReadLabels
    <3>5. Written' /\ Stored'
      BY <3>1 DEF IInv, Written, Stored, uploadVars
    <3>6. Reading'
      BY <2>2, <3>1, <3>2 DEF IInv, TypeOK, Reading
    <3> QED BY <3>4, <3>5, <3>6 DEF IInv
  <2> QED BY <2>1, <2>2
<1>3. CASE OpenAndStream(r)
  <2> DEFINE range == req[r].range
             part == {i \in 0 .. blob - 1 :
                         range.start <= i /\ i < range.start + part_length(range)}
  <2>1. /\ pc[r] = "open"
        /\ UNCHANGED <<uploadVars, row, size_bytes, blob, purge>>
    BY <1>3 DEF OpenAndStream
  <2>2. CASE blob = NoFile
    BY <1>3, <2>1, <2>2, ReplyInv DEF OpenAndStream
  <2>3. CASE blob # NoFile /\ range.kind = "satisfiable"
    <3>1. part_length(range) \in Nat /\ blob \in Nat /\ blob <= Remaining
      BY <2>1, <2>3, OpenAnswer
    <3>2. part \in SUBSET (0 .. Remaining)
      BY <3>1, UploadAssumption
    <3>3. Reply(r, 206, part_length(range), part)
      BY <1>3, <2>3 DEF OpenAndStream
    <3> QED BY <2>1, <3>1, <3>2, <3>3, ReplyInv
  <2>4. CASE blob # NoFile /\ range.kind # "satisfiable"
    <3>1. req[r].total \in Nat /\ blob \in Nat /\ blob <= Remaining
      BY <2>1, <2>4, OpenAnswer
    <3>2. 0 .. blob - 1 \in SUBSET (0 .. Remaining)
      BY <3>1, UploadAssumption
    <3>3. Reply(r, 200, req[r].total, 0 .. blob - 1)
      BY <1>3, <2>4 DEF OpenAndStream
    <3> QED BY <2>1, <3>1, <3>2, <3>3, ReplyInv
  <2> QED BY <2>2, <2>3, <2>4
<1> QED BY <1>1, <1>2, <1>3

LEMMA StutterInv == ASSUME IInv, UNCHANGED vars PROVE IInv'
BY DEF IInv, TypeOK, Written, Stored, Reading, vars, uploadVars, readVars

LEMMA StepInv == ASSUME IInv, [Next]_vars, "last_write" \notin Faults PROVE IInv'
<1>1. CASE UploadStep
  BY <1>1, UploadInv
<1>2. CASE TrashOrRestore \/ PurgeCommit \/ PurgeUnlink
  BY <1>2, TreeInv
<1>3. CASE \E r \in Readers : \/ \E header \in Headers : GetNode(r, header)
                              \/ Metadata(r) \/ OpenAndStream(r)
  BY <1>3, ReadInv
<1>4. CASE UNCHANGED vars
  BY <1>4, StutterInv
<1> QED BY <1>1, <1>2, <1>3, <1>4 DEF Next

LEMMA Invariance == ASSUME "last_write" \notin Faults PROVE Spec => []IInv
<1>1. IInv /\ [Next]_vars => IInv'
  BY StepInv
<1> QED BY <1>1, InitInv, PTL DEF Spec

(***************************************************************************)
(* THE THEOREMS                                                            *)
(***************************************************************************)
\* The types hold, for any readers, chunks and space.
THEOREM Typing == ASSUME "last_write" \notin Faults PROVE Spec => []TypeOK
<1>1. IInv => TypeOK
  BY DEF IInv
<1> QED BY <1>1, Invariance, PTL

\* An uploaded file is as long as its node says, unless a last write fails.
THEOREM FileSafety == ASSUME "last_write" \notin Faults PROVE Spec => []FileIsWhole
<1>1. IInv => FileIsWhole
  BY DEF IInv, Stored, FileIsWhole
<1> QED BY <1>1, Invariance, PTL

\* Every download is answered as its range asks, with the length it announces.
THEOREM AnswerSafety == ASSUME "last_write" \notin Faults PROVE Spec => AnswerIsExact
<1> DEFINE Exact(r) ==
             LET h == req[r].header
                 a == answer'[r]
             IN /\ a.status \in {200, 206} =>
                      a.body = IF Malformed(h) THEN 0 .. size_bytes - 1 ELSE Asked(h, size_bytes)
                /\ a.status \in {200, 206} =>
                      \E i \in 0 .. size_bytes : a.body = i .. i + a.length - 1
                /\ a.status = 206 => a.length > 0
                /\ a.status = 416 => size_bytes = 0 \/ Asked(h, size_bytes) = {}
<1>1. ASSUME IInv, [Next]_vars, NEW r \in Readers, pc[r] # "idle", pc'[r] = "idle"
      PROVE  Exact(r)
  <2> USE DEF IInv
  <2>1. pc' # pc
    BY <1>1
  <2>2. PICK q \in Readers : \/ \E header \in Headers : GetNode(q, header)
                             \/ Metadata(q) \/ OpenAndStream(q)
    BY <1>1, <2>1 DEF Next, UploadStep, CreateWriter, WriteChunk, StreamEnds, Flush, InsertFile,
                      UnlinkUpload, TrashOrRestore, PurgeCommit, PurgeUnlink, readVars, vars
  <2>3. q = r
    BY <1>1, <2>2 DEF GetNode, Metadata, OpenAndStream, Reply, TypeOK
  <2>4. ~\E header \in Headers : GetNode(q, header)
    BY <1>1, <2>3 DEF GetNode
  <2>5. ASSUME NEW status, NEW length, NEW body, Reply(r, status, length, body)
        PROVE  answer'[r].status = status /\ answer'[r].length = length /\ answer'[r].body = body
    BY <1>1, <2>5 DEF Reply, TypeOK
  <2>6. CASE Metadata(r)
    <3> DEFINE range == parse_range(req[r].header, blob)
    <3>1. /\ pc[r] = "metadata"
          /\ \/ blob = NoFile /\ Reply(r, 404, 0, {})
             \/ blob # NoFile /\ range.kind = "unsatisfiable" /\ Reply(r, 416, 0, {})
      BY <1>1, <2>6 DEF Metadata, TypeOK
    <3>2. CASE blob = NoFile /\ Reply(r, 404, 0, {})
      BY <2>5, <3>2
    <3>3. CASE blob # NoFile /\ range.kind = "unsatisfiable" /\ Reply(r, 416, 0, {})
      <4>1. blob = size_bytes /\ blob \in Nat /\ req[r].header \in Header
        BY <1>1, <3>1, <3>3, HeadersAreHeaders DEF TypeOK, Stored, Reading
      <4>2. size_bytes = 0 \/ Asked(req[r].header, size_bytes) = {}
        BY <3>3, <4>1, UnsatisfiableIsEmpty
      <4> QED BY <2>5, <3>3, <4>2
    <3> QED BY <3>1, <3>2, <3>3
  <2>7. CASE OpenAndStream(r)
    <3> DEFINE range == req[r].range
               part == {i \in 0 .. blob - 1 :
                           range.start <= i /\ i < range.start + part_length(range)}
    <3>1. pc[r] = "open"
      BY <2>7 DEF OpenAndStream
    <3>2. CASE blob = NoFile
      <4>1. Reply(r, 404, 0, {})
        BY <2>7, <3>2 DEF OpenAndStream
      <4> QED BY <2>5, <4>1
    <3>3. CASE blob # NoFile /\ range.kind = "satisfiable"
      <4>1. Reply(r, 206, part_length(range), part)
        BY <2>7, <3>3 DEF OpenAndStream
      <4>2. /\ blob = size_bytes /\ ~Malformed(req[r].header)
            /\ range.start \in Nat /\ range.start < blob /\ blob \in Nat
            /\ part_length(range) \in Nat \ {0}
            /\ part = Asked(req[r].header, blob)
            /\ part = range.start .. range.start + part_length(range) - 1
        <5>1. /\ range.end \in Nat /\ range.start \in Nat
              /\ range.start <= range.end /\ range.end < blob /\ blob \in Nat
          BY <1>1, <3>1, <3>3, OpenAnswer
        <5>2. range.start < blob
          BY <5>1
        <5> QED BY <1>1, <3>1, <3>3, <5>1, <5>2, OpenAnswer
      <4>3. /\ answer'[r].status = 206 /\ answer'[r].length = part_length(range)
            /\ answer'[r].body = part
        BY <2>5, <4>1
      <4>4. range.start \in 0 .. size_bytes
        BY <4>2
      <4> QED BY <4>2, <4>3, <4>4
    <3>4. CASE blob # NoFile /\ range.kind # "satisfiable"
      <4>1. Reply(r, 200, req[r].total, 0 .. blob - 1)
        BY <2>7, <3>4 DEF OpenAndStream
      <4>2. /\ blob = size_bytes /\ blob \in Nat /\ req[r].total = blob
            /\ Malformed(req[r].header)
        BY <1>1, <3>1, <3>4, OpenAnswer
      <4>3. /\ answer'[r].status = 200 /\ answer'[r].length = blob
            /\ answer'[r].body = 0 .. blob - 1
        BY <2>5, <4>1, <4>2
      <4>4. 0 \in 0 .. size_bytes /\ 0 .. blob - 1 = 0 .. 0 + blob - 1
        BY <4>2
      <4> QED BY <4>2, <4>3, <4>4
    <3> QED BY <3>2, <3>3, <3>4
  <2> QED BY <2>2, <2>3, <2>4, <2>6, <2>7
<1>2. IInv /\ [Next]_vars =>
        [\A r \in Readers : pc[r] # "idle" /\ pc'[r] = "idle" => Exact(r)]_vars
  BY <1>1
<1> QED BY <1>2, Invariance, PTL DEF Spec, AnswerIsExact

\* A live file is found by every download that is under way.
THEOREM LiveSafety == ASSUME "last_write" \notin Faults PROVE Spec => LiveFileIsFound
<1>1. ASSUME IInv, [Next]_vars, NEW r \in Readers,
             pc[r] # "idle", answer'[r].status = 404, pc'[r] = "idle"
      PROVE  row = "gone"
  <2> USE DEF IInv
  <2>1. PICK q \in Readers : \/ \E header \in Headers : GetNode(q, header)
                             \/ Metadata(q) \/ OpenAndStream(q)
    <3>1. pc' # pc
      BY <1>1
    <3> QED BY <1>1, <3>1 DEF Next, UploadStep, CreateWriter, WriteChunk, StreamEnds, Flush,
              InsertFile, UnlinkUpload, TrashOrRestore, PurgeCommit, PurgeUnlink, readVars, vars
  <2>2. q = r
    BY <1>1, <2>1 DEF GetNode, Metadata, OpenAndStream, Reply, TypeOK
  <2>3. Metadata(r) \/ OpenAndStream(r)
    BY <1>1, <2>1, <2>2 DEF GetNode
  <2>4. blob = NoFile
    BY <1>1, <2>3 DEF Metadata, OpenAndStream, Reply, TypeOK
  <2>5. row # "none" /\ row \notin {"live", "trashed"}
    BY <1>1, <2>4 DEF Reading, Stored
  <2> QED BY <1>1, <2>5 DEF TypeOK
<1>2. IInv /\ [Next]_vars =>
        [\A r \in Readers :
           pc[r] # "idle" /\ answer'[r].status = 404 /\ pc'[r] = "idle" => row = "gone"]_vars
  BY <1>1
<1> QED BY <1>2, Invariance, PTL DEF Spec, LiveFileIsFound

=============================================================================
