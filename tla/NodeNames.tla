------------------------------- MODULE NodeNames -------------------------------
(***************************************************************************)
(* The names of the nodes of one owner of CH-Api-Drive: free_name,         *)
(* create_folder, insert_file, rename and move_node of repository/nodes.rs *)
(* under the unique index nodes_unique_name, and the handlers that call    *)
(* them in handlers/files.rs.                                              *)
(*                                                                         *)
(* DriveTree takes a name that is in use for a fault.  Here a name is a    *)
(* sequence of numbers: <<>> stands for a text of the client, <<2>> for    *)
(* that text with " (2)" before the extension, <<2, 1>> for what free_name *)
(* makes of that.  Clients may ask for any of them.                        *)
(*                                                                         *)
(* A transaction that inserts or updates a row makes every other one that  *)
(* wants the same name wait for its end, so a statement and its commit are *)
(* one step.  Quota, blob deletion that fails and the moves of folders are *)
(* in DriveTree.                                                           *)
(***************************************************************************)
EXTENDS Naturals, Sequences

CONSTANTS
    Root,        \* the root folder
    Dir,         \* a folder in it
    Items,       \* the nodes that come and go: files, or empty folders
    Handlers,    \* request slots
    Names,       \* the names that clients ask for
    Keep,        \* in the place of a field that a patch leaves out
    Invalid,     \* a name that validate_name refuses
    MaxTries,    \* how many numbers free_name tries; 9,999 in the code
    Ops          \* which requests arrive, a subset of Operations

Operations == {"create_folder", "upload", "patch", "trash", "restore", "purge"}

ASSUME NodesAssumption == Root # Dir /\ Root \notin Items /\ Dir \notin Items
ASSUME NamesAssumption == Names \subseteq Seq(Nat) /\ <<>> \in Names
ASSUME KeepAssumption == Keep \notin Names \cup {Root, Dir}
ASSUME InvalidAssumption == Invalid \notin Names \cup {Keep}
ASSUME TriesAssumption == MaxTries \in Nat
ASSUME ScopeAssumption == Ops \subseteq Operations

Folders == {Root, Dir}
Nodes == Items \cup {Dir}

VARIABLES
    rows,       \* [Nodes -> Row]
    blob,       \* [Items -> BOOLEAN], there is a file at the storage_key
    pc,         \* [Handlers -> Labels], the next await
    req,        \* [Handlers -> Request], the local variables
    answered,   \* the status, when the last step has answered a request; else 0
    disturbed   \* history: the requests in flight while another one changed a row

vars == <<rows, blob, pc, req, answered, disturbed>>

UploadLabels == {"stream", "probe", "insert_file", "unlink"}
PatchLabels == {"move", "rename"}
Labels == {"idle", "insert_folder", "trash", "restore"} \cup UploadLabels \cup PatchLabels

\* "none": no such row yet.  "gone": deleted.
Unused == [state |-> "none", parent |-> Root, name |-> <<>>]
NoRequest == [node |-> Dir, parent |-> Keep, name |-> Keep, tries |-> 0, error |-> 0,
              was |-> Keep]
Request == [node: Nodes, parent: Folders \cup {Keep}, name: Names \cup {Keep, Invalid},
            tries: 0 .. MaxTries,   \* names that free_name has found taken
            error: {0, 409, 500},   \* of the insert, while the blob is deleted
            was: Seq(Nat) \cup {Keep}] \* history: the name when a patch arrived

(***************************************************************************)
(* QUERIES AND STATEMENTS                                                  *)
(***************************************************************************)
IsRow(n) == rows[n].state \in {"live", "trashed"}

\* Mutant: rows of the trash count.
name_exists_in_trash_too(p, name) ==
    \E n \in Nodes : IsRow(n) /\ rows[n].parent = p /\ rows[n].name = name

name_exists(p, name) ==
    \E n \in Nodes : rows[n].state = "live" /\ rows[n].parent = p /\ rows[n].name = name

FolderIsThere(p) == p = Root \/ IsRow(Dir)
resolve_parent(p) == p = Root \/ rows[Dir].state = "live"

Subtree(n) == {n} \cup {c \in Items : n = Dir /\ rows[c].parent = Dir}

\* nodes_unique_name: no two live rows of one folder with one name.
UniqueNames(table) ==
    \A m, n \in Nodes : /\ m # n
                        /\ table[m].state = "live" /\ table[n].state = "live"
                        /\ table[m].parent = table[n].parent
                        => table[m].name # table[n].name

\* The n-th name that free_name tries.
candidate(desired, n) == IF n = 0 THEN desired ELSE Append(desired, n)

\* A node that no request has been given yet: ids are fresh.
Fresh(n) == rows[n] = Unused /\ ~blob[n] /\ \A h \in Handlers : req[h].node # n

(***************************************************************************)
(* CONTROL                                                                 *)
(***************************************************************************)
Goto(h, label) == pc' = [pc EXCEPT ![h] = label] /\ answered' = 0

Answer(h, status) ==
    /\ pc' = [pc EXCEPT ![h] = "idle"]
    /\ req' = [req EXCEPT ![h] = NoRequest]
    /\ answered' = status

Receive(h, op, label, request) ==
    /\ op \in Ops
    /\ pc[h] = "idle"
    /\ Goto(h, label)
    /\ req' = [req EXCEPT ![h] = request]
    /\ UNCHANGED <<rows, blob>>

\* Mutant: nodes_unique_name is not there.
Update_unindexed(h, table, possible, status) ==
    IF ~possible THEN Answer(h, 500) /\ UNCHANGED rows ELSE Answer(h, status) /\ rows' = table

\* A statement that makes the table into another one: the index may refuse it,
\* and it fails when its rows are not there.
Update(h, table, possible, status) ==
    IF ~possible THEN Answer(h, 500) /\ UNCHANGED rows
    ELSE IF ~UniqueNames(table) THEN Answer(h, 409) /\ UNCHANGED rows
    ELSE Answer(h, status) /\ rows' = table

(***************************************************************************)
(* POST /folders                                                           *)
(***************************************************************************)
CreateReceive(h, n, p, name) ==
    /\ Fresh(n) /\ resolve_parent(p)
    /\ Receive(h, "create_folder", "insert_folder",
               [NoRequest EXCEPT !.node = n, !.parent = p, !.name = name])

Inserted(n, p, name) == [rows EXCEPT ![n] = [state |-> "live", parent |-> p, name |-> name]]

CreateFolder(h) ==
    LET r == req[h]
    IN /\ pc[h] = "insert_folder"
       /\ Update(h, Inserted(r.node, r.parent, r.name), FolderIsThere(r.parent), 201)
       /\ UNCHANGED blob

(***************************************************************************)
(* POST /files                                                             *)
(***************************************************************************)
UploadReceive(h, n, p, name) ==
    /\ Fresh(n) /\ resolve_parent(p)
    /\ Receive(h, "upload", "stream",
               [NoRequest EXCEPT !.node = n, !.parent = p, !.name = name])

\* The client sends the file, for as long as it likes.
StreamEnds(h) ==
    /\ pc[h] = "stream"
    /\ blob' = [blob EXCEPT ![req[h].node] = TRUE]
    /\ Goto(h, "probe")
    /\ UNCHANGED <<rows, req>>

\* free_name, one query for a name.  When all are taken the handler returns at once.
Probe(h) ==
    LET r == req[h]
    IN /\ pc[h] = "probe"
       /\ IF ~name_exists(r.parent, candidate(r.name, r.tries))
          THEN Goto(h, "insert_file") /\ UNCHANGED req
          ELSE IF r.tries = MaxTries THEN Answer(h, 409)
          ELSE Goto(h, "probe") /\ req' = [req EXCEPT ![h].tries = @ + 1]
       /\ UNCHANGED <<rows, blob>>

\* insert_file under the name that was free; any failure deletes the blob.
InsertFile(h) ==
    LET r == req[h]
        table == Inserted(r.node, r.parent, candidate(r.name, r.tries))
    IN /\ pc[h] = "insert_file"
       /\ IF FolderIsThere(r.parent) /\ UniqueNames(table)
          THEN Answer(h, 201) /\ rows' = table
          ELSE /\ Goto(h, "unlink")
               /\ req' = [req EXCEPT ![h].error = IF FolderIsThere(r.parent) THEN 409 ELSE 500]
               /\ UNCHANGED rows
       /\ UNCHANGED blob

UnlinkBlob(h) ==
    /\ pc[h] = "unlink"
    /\ blob' = [blob EXCEPT ![req[h].node] = FALSE]
    /\ Answer(h, req[h].error)
    /\ UNCHANGED rows

(***************************************************************************)
(* PATCH /nodes/{id}                                                       *)
(***************************************************************************)
\* The node is read, and the new parent.  An invalid name without a move is refused
\* before anything is done.
PatchReceive(h, n, p, name) ==
    /\ IsRow(n)
    /\ p # Keep => resolve_parent(p) /\ n # Dir
    /\ name = Invalid => p # Keep
    /\ Receive(h, "patch", IF p # Keep THEN "move" ELSE "rename",
               [NoRequest EXCEPT !.node = n, !.parent = p, !.name = name,
                                 !.was = rows[n].name])

\* Mutant: what does not move is renamed, but a move forgets the name.
MoveNode_ends(h) ==
    LET r == req[h]
    IN /\ pc[h] = "move"
       /\ Update(h, [rows EXCEPT ![r.node].parent = r.parent],
                 IsRow(r.node) /\ FolderIsThere(r.parent), 200)
       /\ UNCHANGED blob

\* The first UPDATE, under the name that the node has.  Only behind it validate_name
\* looks at the new name: its refusal leaves the move as it is.
MoveNode(h) ==
    LET r == req[h]
        table == [rows EXCEPT ![r.node].parent = r.parent]
        possible == IsRow(r.node) /\ FolderIsThere(r.parent)
    IN /\ pc[h] = "move"
       /\ IF possible /\ UniqueNames(table) /\ r.name \in Names
          THEN Goto(h, "rename") /\ rows' = table /\ UNCHANGED req
          ELSE Update(h, table, possible, IF r.name = Invalid THEN 400 ELSE 200)
       /\ UNCHANGED blob

\* The second one.  A refusal leaves the first as it is.
Rename(h) ==
    LET r == req[h]
    IN /\ pc[h] = "rename"
       /\ IF r.name = Keep THEN Answer(h, 200) /\ UNCHANGED rows
          ELSE Update(h, [rows EXCEPT ![r.node].name = r.name], IsRow(r.node), 200)
       /\ UNCHANGED blob

(***************************************************************************)
(* TRASH, RESTORE AND PURGE                                                *)
(***************************************************************************)
MarkReceive(h, op, n) ==
    /\ IsRow(n)
    /\ Receive(h, op, op, [NoRequest EXCEPT !.node = n])

\* One UPDATE of all rows of the subtree, which the index may refuse as a whole.
Marked(n, from, to) ==
    [m \in Nodes |-> IF m \in Subtree(n) /\ rows[m].state = from
                     THEN [rows[m] EXCEPT !.state = to] ELSE rows[m]]

TrashSubtree(h) ==
    /\ pc[h] = "trash"
    /\ Update(h, Marked(req[h].node, "live", "trashed"), TRUE, 204)
    /\ UNCHANGED blob

\* The node is read again for the answer.
RestoreSubtree(h) ==
    /\ pc[h] = "restore"
    /\ Update(h, Marked(req[h].node, "trashed", "live"), TRUE,
              IF IsRow(req[h].node) THEN 200 ELSE 404)
    /\ UNCHANGED blob

\* purge_node, or purge_trash, with its cascade and its blobs in one step.
Purge(h, S) ==
    LET doomed == UNION {Subtree(n) : n \in S}
    IN /\ "purge" \in Ops /\ pc[h] = "idle"
       /\ rows' = [n \in Nodes |-> IF n \in doomed /\ IsRow(n)
                                   THEN [Unused EXCEPT !.state = "gone"] ELSE rows[n]]
       /\ blob' = [n \in Items |-> blob[n] /\ ~(n \in doomed /\ IsRow(n))]
       /\ answered' = 204
       /\ UNCHANGED <<pc, req>>

PurgeRequest(h) ==
    \/ \E n \in Nodes : IsRow(n) /\ Purge(h, {n})
    \/ Purge(h, {n \in Nodes : rows[n].state = "trashed"})

(***************************************************************************)
(* SPECIFICATION                                                           *)
(***************************************************************************)
Init ==
    /\ rows = [n \in Nodes |-> IF n = Dir THEN [Unused EXCEPT !.state = "live"] ELSE Unused]
    /\ blob = [n \in Items |-> FALSE]
    /\ pc = [h \in Handlers |-> "idle"]
    /\ req = [h \in Handlers |-> NoRequest]
    /\ answered = 0
    /\ disturbed = {}

Arrival(h) ==
    \/ \E n \in Items, p \in Folders, name \in Names :
          CreateReceive(h, n, p, name) \/ UploadReceive(h, n, p, name)
    \/ \E n \in Nodes :
          \/ \E p \in Folders \cup {Keep}, name \in Names \cup {Keep, Invalid} :
                PatchReceive(h, n, p, name)
          \/ \E op \in {"trash", "restore"} : MarkReceive(h, op, n)

HandlerStep(h) ==
    \/ CreateFolder(h)
    \/ Probe(h) \/ InsertFile(h) \/ UnlinkBlob(h)
    \/ MoveNode(h) \/ Rename(h)
    \/ TrashSubtree(h) \/ RestoreSubtree(h)

Step(h) == Arrival(h) \/ HandlerStep(h) \/ StreamEnds(h) \/ PurgeRequest(h)

\* The history variable beside a step of h.
Disturb(h) ==
    LET others == {g \in Handlers \ {h} : pc[g] # "idle"}
    IN disturbed' = (IF rows' = rows THEN disturbed ELSE disturbed \cup others)
                    \ (IF pc'[h] = "idle" THEN {h} ELSE {})

Next == \E h \in Handlers : Step(h) /\ Disturb(h)

Spec == Init /\ [][Next]_vars

(***************************************************************************)
(* PROPERTIES                                                              *)
(***************************************************************************)
\* Type invariant, with the index.
TypeOK ==
    /\ rows \in [Nodes -> [state: {"none", "live", "trashed", "gone"},
                          parent: Folders, name: Seq(Nat)]]
    /\ UniqueNames(rows)
    /\ blob \in [Items -> BOOLEAN]
    /\ pc \in [Handlers -> Labels]
    /\ req \in [Handlers -> Request]
    /\ answered \in {0, 200, 201, 204, 400, 404, 409, 500}
    /\ disturbed \subseteq {h \in Handlers : pc[h] # "idle"}

\* An upload gets a name: the first free one of those that free_name tries, when no
\* other request changes a row meanwhile.  It is refused only when one did, or when
\* all the names are in use.  Once the file is streamed whole, nothing but that
\* search leaves it behind without a node.
UploadIsNamed ==
    [][\A h \in Handlers :
         LET r == req[h]
             taken(n) == \E m \in Nodes : /\ rows[m].state = "live" /\ rows[m].parent = r.parent
                                         /\ rows[m].name = candidate(r.name, n)
         IN pc[h] \in UploadLabels /\ pc'[h] = "idle" =>
               /\ answered' = 201 =>
                     /\ rows'[r.node].state = "live" /\ blob'[r.node]
                     /\ \E n \in 0 .. MaxTries :
                           /\ rows'[r.node].name = candidate(r.name, n)
                           /\ h \notin disturbed => \A m \in 0 .. n - 1 : taken(m)
               /\ answered' # 201 =>
                     /\ rows'[r.node] = Unused
                     /\ h \in disturbed \/ \A n \in 0 .. MaxTries : taken(n)
                     /\ blob'[r.node] => taken(MaxTries)]_vars

\* What a patch answers is what it did, when no other request changes a row
\* meanwhile: 200 is both the move and the new name; 400 is the move and the old name,
\* since the new one is looked at behind the move; and 409 has left the name as it was,
\* with a live node of the wanted name where the patch was refused.
PatchIsReported ==
    [][\A h \in Handlers :
         LET r == req[h]
             is == rows'[r.node]
             folder == IF r.parent = Keep THEN rows[r.node].parent ELSE r.parent
         IN pc[h] \in PatchLabels /\ pc'[h] = "idle" /\ h \notin disturbed =>
               /\ answered' = 200 =>
                     is.parent = folder /\ is.name = IF r.name = Keep THEN r.was ELSE r.name
               /\ answered' = 400 => is.parent = folder /\ is.name = r.was
               /\ answered' = 409 =>
                     /\ is.name = r.was
                     /\ \E n \in Nodes \ {r.node} :
                           /\ rows[n].state = "live" /\ rows[n].parent = folder
                           /\ rows[n].name \in {r.was, r.name}]_vars

=============================================================================
