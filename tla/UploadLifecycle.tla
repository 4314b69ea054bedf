--------------------------- MODULE UploadLifecycle ---------------------------
(***************************************************************************)
(* What the resumable upload of CH-Api-Drive promises, without requests,   *)
(* awaits, chunks or locks: the life of a session from its row to its      *)
(* file, and to the purge of its nodes.  UploadSession is shown to         *)
(* implement it.                                                           *)
(*                                                                         *)
(* It promises less than one request after the other would do.  A file may *)
(* be materialised more than once for one session (two requests that       *)
(* complete it at the same time do that, and so does a retry after a       *)
(* purge), a stale request may store or materialise a session that was     *)
(* given back or cancelled since, two purges of one node may both release  *)
(* its bytes, and once a purge is under way a node may be made of bytes    *)
(* that are going or gone.  What is promised all the same: a node and its  *)
(* charge are one step, within the quota; until a purge they are made of   *)
(* stored bytes, and those stay; a session is reported done only when a    *)
(* node was made of it; and an end is an end.                              *)
(***************************************************************************)
EXTENDS Naturals

CONSTANTS
    Sessions

VARIABLES
    life,       \* [Sessions -> Lives]
    size,       \* [Sessions -> Nat], what was declared when the session was opened
    due,        \* sessions whose time to live is over
    stored,     \* sessions whose bytes are at their final place
    made,       \* [Sessions -> Nat], how many nodes were ever made of a session
    purged,     \* [Sessions -> SUBSET Nat], which of them were deleted
    used,       \* bytes charged to the owner
    quota       \* bytes the owner may use

vars == <<life, size, due, stored, made, purged, used, quota>>

\* The names of the states are those of the column upload_sessions.state;
\* "absent" and "deleted" are before the first and after the last of them.
Lives == {"absent", "open", "completing", "completed", "aborted", "deleted"}

Init ==
    /\ life = [s \in Sessions |-> "absent"]
    /\ size = [s \in Sessions |-> 0]
    /\ due = {}
    /\ stored = {}
    /\ made = [s \in Sessions |-> 0]
    /\ purged = [s \in Sessions |-> {}]
    /\ used = 0
    /\ quota \in Nat

Become(s, from, to) ==
    /\ life[s] \in from
    /\ life' = [life EXCEPT ![s] = to]
    /\ UNCHANGED <<due, stored, made, purged, used, quota>>

Open(s) == /\ Become(s, {"absent"}, "open")
           /\ size' \in [Sessions -> Nat]
           /\ \A t \in Sessions \ {s} : size'[t] = size[t]

Claim(s)    == Become(s, {"open"}, "completing") /\ UNCHANGED size
GiveBack(s) == Become(s, {"completing"}, "open") /\ UNCHANGED size
Cancel(s)   == Become(s, {"open", "completing"}, "aborted") /\ UNCHANGED size

\* Only a session of which a node was made is done.
Finish(s) == made[s] > 0 /\ Become(s, {"completing"}, "completed") /\ UNCHANGED size

\* The collector takes a session that is due and that nobody has claimed.
Reclaim(s) == s \in due /\ Become(s, {"open", "aborted"}, "deleted") /\ UNCHANGED size

Fall(s) ==
    /\ due' = due \cup {s}
    /\ UNCHANGED <<life, size, stored, made, purged, used, quota>>

\* Bytes reach their final place.
Store(s) ==
    /\ life[s] # "absent"
    /\ stored' = stored \cup {s}
    /\ UNCHANGED <<life, size, due, made, purged, used, quota>>

\* The node and its charge are one step, within the quota of that moment.  Without a
\* purge the bytes are there.
Materialize(s) ==
    /\ s \in stored \/ purged[s] # {}
    /\ used + size[s] <= quota
    /\ made' = [made EXCEPT ![s] = @ + 1]
    /\ used' = used + size[s]
    /\ UNCHANGED <<life, size, due, stored, purged, quota>>

\* A node goes and its bytes are released, in one step.  A purge that comes second
\* finds no node, and may release them again.
Purge(s) ==
    /\ \E n \in 1 .. made[s] : purged' = [purged EXCEPT ![s] = @ \cup {n}]
    /\ \E freed \in {0, size[s]} : used' = IF used > freed THEN used - freed ELSE 0
    /\ UNCHANGED <<life, size, due, stored, made, quota>>

\* The bytes go after the node, and never without a purge.
Erase(s) ==
    /\ purged[s] # {}
    /\ stored' = stored \ {s}
    /\ UNCHANGED <<life, size, due, made, purged, used, quota>>

\* The administrator may set any quota, below what is used too.
SetQuota ==
    /\ quota' \in Nat
    /\ UNCHANGED <<life, size, due, stored, made, purged, used>>

Next ==
    \/ \E s \in Sessions :
         \/ Open(s) \/ Claim(s) \/ GiveBack(s) \/ Cancel(s) \/ Finish(s)
         \/ Reclaim(s) \/ Fall(s) \/ Store(s) \/ Materialize(s)
         \/ Purge(s) \/ Erase(s)
    \/ SetQuota

Spec == Init /\ [][Next]_vars
=============================================================================
