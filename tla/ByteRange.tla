------------------------------ MODULE ByteRange ------------------------------
(***************************************************************************)
(* The byte ranges of a download: parse_range of handlers/files.rs and,    *)
(* beside it, what a range asks for.                                       *)
(*                                                                         *)
(* A header "bytes=first-last" is a record of what parse_range finds in    *)
(* it.  A field is a number, Missing, or Garbage, a text that is no u64.   *)
(***************************************************************************)
EXTENDS Integers

Missing == -1
Garbage == -2
Field == Nat \cup {Missing, Garbage}

Header == [unit: BOOLEAN,     \* it starts with "bytes="
           hyphen: BOOLEAN,   \* and there is a "-" behind that
           first: Field,
           last: Field]

Outcome == [kind: {"satisfiable", "unsatisfiable", "ignored"}, start: Nat, end: Nat]
Ignored == [kind |-> "ignored", start |-> 0, end |-> 0]
Unsatisfiable == [kind |-> "unsatisfiable", start |-> 0, end |-> 0]
Satisfiable(start, end) == [kind |-> "satisfiable", start |-> start, end |-> end]

Smaller(a, b) == IF a <= b THEN a ELSE b

Malformed(h) == \/ h.first = Garbage \/ h.last = Garbage
                \/ h.first = Missing /\ h.last = Missing

\* Mutant: a suffix longer than the file is not brought down to its length.
range_start_unclamped(h, total) == IF h.first = Missing THEN total - h.last ELSE h.first

\* The two bounds of a header that is not malformed.
range_start(h, total) == IF h.first = Missing THEN total - Smaller(h.last, total) ELSE h.first

range_end(h, total) ==
    IF h.first = Missing \/ h.last = Missing THEN total - 1 ELSE Smaller(h.last, total - 1)

parse_range(h, total) ==
    IF ~h.unit \/ ~h.hyphen THEN Ignored
    ELSE IF total = 0 THEN Unsatisfiable
    ELSE IF Malformed(h) THEN Ignored
    ELSE IF h.first = Missing /\ h.last = 0 THEN Unsatisfiable
    ELSE LET start == range_start(h, total)
             end == range_end(h, total)
         IN IF start >= total \/ start > end THEN Unsatisfiable ELSE Satisfiable(start, end)

(***************************************************************************)
(* THE REFERENCE                                                           *)
(***************************************************************************)
\* The bytes of a file of total bytes that a well-formed header asks for.
Asked(h, total) ==
    {i \in 0 .. total - 1 :
        IF h.first = Missing THEN i >= total - h.last
        ELSE h.first <= i /\ (h.last = Missing \/ i <= h.last)}

\* A satisfiable range is exactly what is asked for, at least one byte and none
\* behind the file; unsatisfiable means that nothing of the file is asked for, and
\* only a header that makes no sense is ignored.  An empty file has no range at all.
RangeIsExact(h, total) ==
    LET r == parse_range(h, total)
    IN /\ r \in Outcome
       /\ r.kind = "satisfiable" =>
             /\ r.start <= r.end /\ r.end < total
             /\ ~Malformed(h) /\ r.start .. r.end = Asked(h, total)
       /\ r.kind = "unsatisfiable" =>
             h.unit /\ h.hyphen /\ (total = 0 \/ (~Malformed(h) /\ Asked(h, total) = {}))
       /\ r.kind = "ignored" => ~h.unit \/ ~h.hyphen \/ Malformed(h)

=============================================================================
