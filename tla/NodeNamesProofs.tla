--------------------------- MODULE NodeNamesProofs ---------------------------
(***************************************************************************)
(* Proofs about NodeNames, for any number of nodes and of handlers, all    *)
(* names, any number of tries of free_name and every set of requests.      *)
(*                                                                         *)
(* TypeOK and Shape are inductive together.  On top of them Alone says     *)
(* what a request in flight may rely on as long as no other one has        *)
(* changed a row: the names that free_name has found taken are taken, the  *)
(* one that it chose is free, and the node of a patch is as it was read.   *)
(* The history variable disturbed makes that an invariant.                 *)
(***************************************************************************)
EXTENDS NodeNames, TLAPS

Row == [state: {"none", "live", "trashed", "gone"}, parent: Folders, name: Seq(Nat)]
Statuses == {0, 200, 201, 204, 400, 404, 409, 500}

(***************************************************************************)
(* CONTROL                                                                 *)
(***************************************************************************)
\* A step to another label.
LEMMA GotoStep ==
    ASSUME TypeOK, NEW h \in Handlers, NEW label \in Labels, Goto(h, label)
    PROVE  /\ pc' \in [Handlers -> Labels] /\ pc'[h] = label /\ answered' = 0
           /\ \A g \in Handlers \ {h} : pc'[g] = pc[g]
BY DEF TypeOK, Goto

\* An empty request is well typed.
LEMMA NoRequestType == NoRequest \in Request
BY TriesAssumption DEF NoRequest, Request, Nodes, Folders

\* A request that is answered.
LEMMA AnswerStep ==
    ASSUME TypeOK, NEW h \in Handlers, NEW status, Answer(h, status)
    PROVE  /\ pc' \in [Handlers -> Labels] /\ req' \in [Handlers -> Request]
           /\ pc'[h] = "idle" /\ req'[h] = NoRequest /\ answered' = status
           /\ \A g \in Handlers \ {h} : pc'[g] = pc[g] /\ req'[g] = req[g]
BY NoRequestType DEF TypeOK, Answer, Labels

\* A request that arrives.
LEMMA ReceiveStep ==
    ASSUME TypeOK, NEW h \in Handlers, NEW op, NEW label \in Labels, NEW request \in Request,
           Receive(h, op, label, request)
    PROVE  /\ pc' \in [Handlers -> Labels] /\ req' \in [Handlers -> Request] /\ answered' = 0
           /\ pc[h] = "idle" /\ pc'[h] = label /\ req'[h] = request
           /\ \A g \in Handlers \ {h} : pc'[g] = pc[g] /\ req'[g] = req[g]
           /\ rows' = rows /\ blob' = blob
BY DEF TypeOK, Receive, Goto

\* A statement either answers without a change, or makes the table that it was to
\* make, and the index holds on it.
LEMMA UpdateStep ==
    ASSUME TypeOK, NEW h \in Handlers, NEW table, NEW possible \in BOOLEAN, NEW status,
           Update(h, table, possible, status)
    PROVE  /\ Answer(h, answered')
           /\ \/ answered' = 500 /\ rows' = rows
              \/ answered' = 409 /\ rows' = rows /\ possible /\ ~UniqueNames(table)
              \/ answered' = status /\ rows' = table /\ possible /\ UniqueNames(table)
           /\ UniqueNames(rows')
<1>1. CASE ~possible
    BY <1>1 DEF Update, Answer, TypeOK
<1>2. CASE possible /\ ~UniqueNames(table)
    BY <1>2 DEF Update, Answer, TypeOK
<1>3. CASE possible /\ UniqueNames(table)
    BY <1>3 DEF Update, Answer
<1> QED BY <1>1, <1>2, <1>3

(***************************************************************************)
(* ROWS                                                                    *)
(***************************************************************************)
\* The values of the columns.
LEMMA RowTypes ==
    /\ Unused \in Row
    /\ \A p \in Folders, name \in Seq(Nat) : [state |-> "live", parent |-> p, name |-> name] \in Row
    /\ \A r \in Row : /\ \A p \in Folders : [r EXCEPT !.parent = p] \in Row
                      /\ \A name \in Seq(Nat) : [r EXCEPT !.name = name] \in Row
                      /\ \A s \in {"live", "trashed", "gone"} : [r EXCEPT !.state = s] \in Row
<1>1. <<>> \in Seq(Nat) /\ Root \in Folders
    BY DEF Folders
<1> QED BY <1>1 DEF Row, Unused

\* Every name that is tried is a text.
LEMMA CandidateType ==
    ASSUME NEW desired \in Names, NEW n \in Nat
    PROVE  candidate(desired, n) \in Seq(Nat)
BY NamesAssumption DEF candidate

\* The tables that the statements make are tables.
LEMMA TableTypes ==
    ASSUME TypeOK
    PROVE  /\ rows \in [Nodes -> Row]
           /\ \A n \in Nodes, p \in Folders, name \in Seq(Nat) :
                 Inserted(n, p, name) \in [Nodes -> Row]
           /\ \A n, from, to : to \in {"live", "trashed"} => Marked(n, from, to) \in [Nodes -> Row]
<1>1. rows \in [Nodes -> Row]
    BY DEF TypeOK, Row
<1>2. ASSUME NEW n \in Nodes, NEW p \in Folders, NEW name \in Seq(Nat)
      PROVE  Inserted(n, p, name) \in [Nodes -> Row]
    BY <1>1, RowTypes DEF Inserted
<1>3. ASSUME NEW n, NEW from, NEW to \in {"live", "trashed"} PROVE Marked(n, from, to) \in [Nodes -> Row]
    <2>1. \A m \in Nodes : rows[m] \in Row /\ [rows[m] EXCEPT !.state = to] \in Row
        BY <1>1, RowTypes
    <2> QED BY <2>1 DEF Marked
<1> QED BY <1>1, <1>2, <1>3

(***************************************************************************)
(* THE SHAPE OF THE REQUESTS                                               *)
(***************************************************************************)
\* The requests whose row is not there yet.
Inserting == {"insert_folder"} \cup UploadLabels

RequestShape(h) ==
    /\ pc[h] \in Inserting => /\ req[h].node \in Items /\ rows[req[h].node] = Unused
                              /\ req[h].parent \in Folders /\ req[h].name \in Names
    /\ pc[h] \in {"probe", "insert_file", "unlink"} => blob[req[h].node]
    /\ pc[h] = "stream" => req[h].tries = 0
    /\ pc[h] = "move" => req[h].parent \in Folders
    /\ pc[h] = "rename" => req[h].name # Invalid
    /\ pc[h] = "unlink" => req[h].error \in {409, 500}

\* Two requests never make the same node.
Distinct ==
    \A g, h \in Handlers :
       g # h /\ pc[g] \in Inserting /\ pc[h] \in Inserting => req[g].node # req[h].node

Shape == (\A h \in Handlers : RequestShape(h)) /\ Distinct

\* The locals, one field after the other.
LEMMA NodeField ==
    ASSUME NEW r \in Request, NEW n \in Nodes PROVE [r EXCEPT !.node = n] \in Request
BY DEF Request

LEMMA ParentField ==
    ASSUME NEW r \in Request, NEW p \in Folders \cup {Keep} PROVE [r EXCEPT !.parent = p] \in Request
BY DEF Request

LEMMA NameField ==
    ASSUME NEW r \in Request, NEW name \in Names \cup {Keep, Invalid} PROVE [r EXCEPT !.name = name] \in Request
BY DEF Request

LEMMA WasField ==
    ASSUME NEW r \in Request, NEW was \in Seq(Nat) PROVE [r EXCEPT !.was = was] \in Request
BY DEF Request

\* The locals that an arrival makes.
LEMMA RequestTypes ==
    ASSUME NEW n \in Nodes, NEW p \in Folders \cup {Keep}, NEW name \in Names \cup {Keep, Invalid},
           NEW was \in Seq(Nat)
    PROVE  /\ [NoRequest EXCEPT !.node = n, !.parent = p, !.name = name] \in Request
           /\ [NoRequest EXCEPT !.node = n, !.parent = p, !.name = name, !.was = was] \in Request
<1> DEFINE r1 == [NoRequest EXCEPT !.node = n]
           r2 == [r1 EXCEPT !.parent = p]
           r3 == [r2 EXCEPT !.name = name]
           r4 == [r3 EXCEPT !.was = was]
<1>1. /\ [NoRequest EXCEPT !.node = n, !.parent = p, !.name = name] = r3
      /\ [NoRequest EXCEPT !.node = n, !.parent = p, !.name = name, !.was = was] = r4
    BY DEF NoRequest
<1>2. r1 \in Request
    BY NoRequestType, NodeField
<1> HIDE DEF r1
<1>3. r2 \in Request
    BY <1>2, ParentField
<1> HIDE DEF r2
<1>4. r3 \in Request
    BY <1>3, NameField
<1> HIDE DEF r3
<1>5. r4 \in Request
    BY <1>4, WasField
<1> QED BY <1>1, <1>4, <1>5

\* What the locals hold when an INSERT is on its way.
LEMMA InsertingFields ==
    ASSUME TypeOK, Shape, NEW h \in Handlers, pc[h] \in Inserting
    PROVE  /\ req[h].node \in Items /\ req[h].node \in Nodes /\ rows[req[h].node] = Unused
           /\ req[h].parent \in Folders /\ req[h].name \in Names
           /\ req[h].tries \in 0 .. MaxTries
           /\ candidate(req[h].name, req[h].tries) \in Seq(Nat) /\ req[h].name \in Seq(Nat)
<1>1. /\ req[h].node \in Items /\ rows[req[h].node] = Unused
      /\ req[h].parent \in Folders /\ req[h].name \in Names
    BY DEF Shape, RequestShape
<1>2. req[h].tries \in 0 .. MaxTries
    BY DEF TypeOK, Request
<1>3. req[h].tries \in Nat /\ req[h].name \in Seq(Nat)
    BY <1>1, <1>2, NamesAssumption, TriesAssumption
<1> QED BY <1>1, <1>2, <1>3, CandidateType DEF Nodes

\* An arrival changes nothing but pc, req and answered.
LEMMA ArrivalStep ==
    ASSUME TypeOK, NEW h \in Handlers, Arrival(h)
    PROVE  /\ pc[h] = "idle" /\ rows' = rows /\ blob' = blob /\ answered' = 0
           /\ pc' \in [Handlers -> Labels] /\ req' \in [Handlers -> Request]
           /\ \A g \in Handlers \ {h} : pc'[g] = pc[g] /\ req'[g] = req[g]
           /\ \/ \E n \in Items, p \in Folders, name \in Names :
                    /\ Fresh(n) /\ resolve_parent(p) /\ pc'[h] \in {"insert_folder", "stream"}
                    /\ req'[h].node = n /\ req'[h].parent = p /\ req'[h].name = name
                    /\ req'[h].tries = 0
              \/ \E n \in Nodes, p \in Folders \cup {Keep} :
                    /\ IsRow(n) /\ pc'[h] = IF p # Keep THEN "move" ELSE "rename"
                    /\ req'[h].node = n /\ req'[h].parent = p /\ req'[h].was = rows[n].name
                    /\ req'[h].name = Invalid => p # Keep
              \/ pc'[h] \in {"trash", "restore"}
<1> DEFINE Making(n, p, name) ==
             /\ Fresh(n) /\ resolve_parent(p) /\ pc'[h] \in {"insert_folder", "stream"}
             /\ req'[h].node = n /\ req'[h].parent = p /\ req'[h].name = name
             /\ req'[h].tries = 0
           Patching(n, p) ==
             /\ IsRow(n) /\ pc'[h] = IF p # Keep THEN "move" ELSE "rename"
             /\ req'[h].node = n /\ req'[h].parent = p /\ req'[h].was = rows[n].name
             /\ req'[h].name = Invalid => p # Keep
           Others == /\ pc[h] = "idle" /\ rows' = rows /\ blob' = blob /\ answered' = 0
                     /\ pc' \in [Handlers -> Labels] /\ req' \in [Handlers -> Request]
                     /\ \A g \in Handlers \ {h} : pc'[g] = pc[g] /\ req'[g] = req[g]
<1>1. ASSUME NEW op, NEW label \in Labels, NEW request \in Request, Receive(h, op, label, request)
      PROVE  Others /\ pc'[h] = label /\ req'[h] = request
    BY <1>1, ReceiveStep
<1> HIDE DEF Others
<1>2. ASSUME NEW n \in Items, NEW p \in Folders, NEW name \in Names,
             CreateReceive(h, n, p, name) \/ UploadReceive(h, n, p, name)
      PROVE  Others /\ Making(n, p, name)
    <2> DEFINE r == [NoRequest EXCEPT !.node = n, !.parent = p, !.name = name]
    <2>1. r \in Request
        <3>1. /\ n \in Nodes /\ p \in Folders \cup {Keep} /\ name \in Names \cup {Keep, Invalid}
              /\ <<>> \in Seq(Nat)
            BY DEF Nodes
        <3> QED BY <3>1, RequestTypes
    <2>2. r.node = n /\ r.parent = p /\ r.name = name /\ r.tries = 0
        BY DEF NoRequest
    <2>3. /\ Fresh(n) /\ resolve_parent(p)
          /\ Receive(h, "create_folder", "insert_folder", r) \/ Receive(h, "upload", "stream", r)
        BY <1>2 DEF CreateReceive, UploadReceive
    <2>4. {"insert_folder", "stream"} \subseteq Labels
        BY DEF Labels, UploadLabels
    <2> HIDE DEF r
    <2> QED BY <1>1, <2>1, <2>2, <2>3, <2>4
<1>3. ASSUME NEW n \in Nodes, NEW p \in Folders \cup {Keep}, NEW name \in Names \cup {Keep, Invalid},
             PatchReceive(h, n, p, name)
      PROVE  Others /\ Patching(n, p)
    <2> DEFINE was == rows[n].name
               r == [NoRequest EXCEPT !.node = n, !.parent = p, !.name = name, !.was = was]
               label == IF p # Keep THEN "move" ELSE "rename"
    <2>1. was \in Seq(Nat)
        BY TableTypes DEF Row
    <2>2. IsRow(n) /\ Receive(h, "patch", label, r) /\ (name = Invalid => p # Keep)
        BY <1>3 DEF PatchReceive
    <2> HIDE DEF was
    <2>3. r \in Request
        BY <2>1, RequestTypes
    <2>4. r.node = n /\ r.parent = p /\ r.name = name /\ r.was = was
        BY DEF NoRequest
    <2> HIDE DEF r
    <2>5. label \in Labels
        BY DEF Labels, PatchLabels
    <2> HIDE DEF label
    <2>6. Others /\ pc'[h] = label /\ req'[h] = r
        BY <1>1, <2>2, <2>3, <2>5
    <2> QED BY <2>2, <2>4, <2>6 DEF label, was
<1>4. ASSUME NEW n \in Nodes, NEW op \in {"trash", "restore"}, MarkReceive(h, op, n)
      PROVE  Others /\ pc'[h] \in {"trash", "restore"}
    <2> DEFINE r == [NoRequest EXCEPT !.node = n]
    <2>1. r \in Request
        BY NoRequestType, NodeField
    <2>2. Receive(h, op, op, r) /\ op \in Labels
        BY <1>4 DEF MarkReceive, Labels
    <2> HIDE DEF r
    <2> QED BY <1>1, <2>1, <2>2
<1> HIDE DEF Making, Patching
<1>5. /\ Others
      /\ \/ \E n \in Items, p \in Folders, name \in Names : Making(n, p, name)
         \/ \E n \in Nodes, p \in Folders \cup {Keep} : Patching(n, p)
         \/ pc'[h] \in {"trash", "restore"}
    BY <1>2, <1>3, <1>4 DEF Arrival
<1> QED BY <1>5 DEF Others, Making, Patching

(***************************************************************************)
(* WHAT A STEP MAY CHANGE                                                  *)
(***************************************************************************)
\* The types, and the locals of the other requests.
Frame(h) ==
    /\ rows' \in [Nodes -> Row] /\ UniqueNames(rows')
    /\ blob' \in [Items -> BOOLEAN]
    /\ pc' \in [Handlers -> Labels] /\ req' \in [Handlers -> Request]
    /\ answered' \in Statuses
    /\ \A g \in Handlers \ {h} : pc'[g] = pc[g] /\ req'[g] = req[g]

\* A node that is not made by h, and that is not there yet, stays so, with its file.
Kept(h) ==
    \A n \in Items :
       rows[n] = Unused /\ ~(pc[h] \in Inserting /\ req[h].node = n)
          => rows'[n] = Unused /\ blob'[n] = blob[n]

\* The locals of h have their shape, and a node that it makes is its own or fresh.
Owned(h) ==
    /\ RequestShape(h)'
    /\ pc'[h] \in Inserting => \/ pc[h] \in Inserting /\ req'[h].node = req[h].node
                               \/ Fresh(req'[h].node)

\* A request that has been answered makes nothing.
LEMMA IdleOwned ==
    ASSUME NEW h \in Handlers, pc'[h] \in {"idle", "trash", "restore", "rename"},
           pc'[h] = "rename" => req'[h].name # Invalid
    PROVE  Owned(h)
BY DEF Owned, RequestShape, Inserting, UploadLabels

LEMMA ArrivalFrame ==
    ASSUME TypeOK, NEW h \in Handlers, Arrival(h)
    PROVE  Frame(h) /\ Kept(h) /\ Owned(h)
<1>1. /\ pc[h] = "idle" /\ rows' = rows /\ blob' = blob /\ answered' = 0
      /\ pc' \in [Handlers -> Labels] /\ req' \in [Handlers -> Request]
      /\ \A g \in Handlers \ {h} : pc'[g] = pc[g] /\ req'[g] = req[g]
    BY ArrivalStep
<1>2. Frame(h)
    BY <1>1, TableTypes DEF Frame, Statuses, TypeOK
<1>3. Kept(h)
    BY <1>1 DEF Kept
<1>4. ASSUME NEW n \in Items, NEW p \in Folders, NEW name \in Names,
             Fresh(n), pc'[h] \in {"insert_folder", "stream"},
             req'[h].node = n, req'[h].parent = p, req'[h].name = name, req'[h].tries = 0
      PROVE  Owned(h)
    BY <1>1, <1>4 DEF Owned, RequestShape, Fresh
<1>5. ASSUME NEW p \in Folders \cup {Keep}, pc'[h] = IF p # Keep THEN "move" ELSE "rename",
             req'[h].parent = p, req'[h].name = Invalid => p # Keep
      PROVE  Owned(h)
    BY <1>5 DEF Owned, RequestShape, Inserting, UploadLabels
<1>6. Owned(h)
    BY <1>4, <1>5, ArrivalStep, IdleOwned
<1> QED BY <1>2, <1>3, <1>6

\* A statement that leaves the rows alone that are not there yet.
LEMMA UpdateFrame ==
    ASSUME TypeOK, NEW h \in Handlers, NEW table \in [Nodes -> Row], NEW possible \in BOOLEAN,
           NEW status \in Statuses, Update(h, table, possible, status), blob' = blob,
           possible => \A n \in Items :
              rows[n] = Unused /\ ~(pc[h] \in Inserting /\ req[h].node = n) => table[n] = Unused
    PROVE  Frame(h) /\ Kept(h) /\ Owned(h)
<1>1. /\ Answer(h, answered')
      /\ \/ answered' = 500 /\ rows' = rows
         \/ answered' = 409 /\ rows' = rows /\ possible /\ ~UniqueNames(table)
         \/ answered' = status /\ rows' = table /\ possible /\ UniqueNames(table)
      /\ UniqueNames(rows')
    BY UpdateStep, Zenon
<1>2. /\ pc' \in [Handlers -> Labels] /\ req' \in [Handlers -> Request] /\ pc'[h] = "idle"
      /\ \A g \in Handlers \ {h} : pc'[g] = pc[g] /\ req'[g] = req[g]
    BY <1>1, AnswerStep
<1>3. rows' \in [Nodes -> Row] /\ answered' \in Statuses
    BY <1>1, TableTypes DEF Statuses
<1>4. Frame(h)
    BY <1>1, <1>2, <1>3 DEF Frame, TypeOK
<1>5. Kept(h)
    BY <1>1 DEF Kept
<1> QED BY <1>2, <1>4, <1>5, IdleOwned

LEMMA CreateFolderFrame ==
    ASSUME TypeOK, Shape, NEW h \in Handlers, CreateFolder(h)
    PROVE  Frame(h) /\ Kept(h) /\ Owned(h)
<1> DEFINE node == req[h].node
           parent == req[h].parent
           name == req[h].name
           table == Inserted(node, parent, name)
           possible == FolderIsThere(parent)
<1>1. pc[h] = "insert_folder" /\ Update(h, table, possible, 201) /\ blob' = blob
    BY DEF CreateFolder
<1>2. node \in Items /\ node \in Nodes /\ parent \in Folders /\ name \in Seq(Nat)
    BY <1>1, InsertingFields DEF Inserting
<1> HIDE DEF parent, name
<1>3. table \in [Nodes -> Row]
    BY <1>2, TableTypes
<1>4. \A n \in Items : rows[n] = Unused /\ n # node => table[n] = Unused
    BY <1>2, TableTypes DEF Inserted, Nodes
<1>5. possible \in BOOLEAN /\ 201 \in Statuses
    BY DEF FolderIsThere, Statuses
<1> HIDE DEF table, possible
<1>6. pc[h] \in Inserting
    BY <1>1 DEF Inserting
<1> QED BY <1>1, <1>3, <1>4, <1>5, <1>6, UpdateFrame

LEMMA StreamFrame ==
    ASSUME TypeOK, Shape, NEW h \in Handlers, StreamEnds(h)
    PROVE  Frame(h) /\ Kept(h) /\ Owned(h)
<1>1. /\ pc[h] = "stream" /\ blob' = [blob EXCEPT ![req[h].node] = TRUE] /\ Goto(h, "probe")
      /\ rows' = rows /\ req' = req
    BY DEF StreamEnds
<1>2. /\ pc' \in [Handlers -> Labels] /\ pc'[h] = "probe" /\ answered' = 0
      /\ \A g \in Handlers \ {h} : pc'[g] = pc[g]
    BY <1>1, GotoStep DEF Labels, UploadLabels
<1>3. pc[h] \in Inserting /\ RequestShape(h) /\ req[h].node \in Items
    BY <1>1 DEF Inserting, UploadLabels, Shape, RequestShape
<1>4. Frame(h)
    BY <1>1, <1>2, TableTypes DEF Frame, Statuses, TypeOK
<1>5. Kept(h)
    <2>1. \A n \in Items : n # req[h].node => blob'[n] = blob[n]
        BY <1>1 DEF TypeOK
    <2> QED BY <1>1, <1>3, <2>1 DEF Kept
<1>6. blob'[req'[h].node]
    BY <1>1, <1>3 DEF TypeOK
<1>7. Owned(h)
    BY <1>1, <1>2, <1>3, <1>6 DEF Owned, RequestShape
<1> QED BY <1>4, <1>5, <1>7

LEMMA ProbeFrame ==
    ASSUME TypeOK, Shape, NEW h \in Handlers, Probe(h)
    PROVE  Frame(h) /\ Kept(h) /\ Owned(h)
<1>1. pc[h] = "probe" /\ rows' = rows /\ blob' = blob
    BY DEF Probe
<1>2. /\ pc[h] \in Inserting /\ RequestShape(h) /\ blob[req[h].node]
      /\ req[h].tries \in 0 .. MaxTries /\ req \in [Handlers -> Request]
    BY <1>1 DEF Inserting, UploadLabels, Shape, RequestShape, TypeOK, Request
<1>3. Kept(h)
    BY <1>1 DEF Kept
<1> DEFINE Passed == /\ pc' \in [Handlers -> Labels] /\ req' \in [Handlers -> Request]
                     /\ answered' \in Statuses
                     /\ \A g \in Handlers \ {h} : pc'[g] = pc[g] /\ req'[g] = req[g]
<1>4. ASSUME Goto(h, "insert_file") /\ req' = req
      PROVE  Passed /\ Owned(h)
    <2>1. Passed /\ pc'[h] = "insert_file"
        BY <1>4, GotoStep DEF Labels, UploadLabels, TypeOK, Statuses
    <2> QED BY <1>1, <1>2, <1>4, <2>1 DEF Owned, RequestShape
<1>5. ASSUME req[h].tries = MaxTries /\ Answer(h, 409)
      PROVE  Passed /\ Owned(h)
    <2>1. Passed /\ pc'[h] = "idle"
        BY <1>5, AnswerStep DEF Statuses
    <2> QED BY <2>1, IdleOwned
<1>6. ASSUME req[h].tries # MaxTries /\ Goto(h, "probe") /\ req' = [req EXCEPT ![h].tries = @ + 1]
      PROVE  Passed /\ Owned(h)
    <2>1. req[h].tries + 1 \in 0 .. MaxTries
        BY <1>2, <1>6, TriesAssumption
    <2>2. req[h] \in Request
        BY <1>2
    <2>3. [req[h] EXCEPT !.tries = @ + 1] \in Request
        BY <2>1, <2>2 DEF Request
    <2>4. /\ req' \in [Handlers -> Request] /\ \A g \in Handlers \ {h} : req'[g] = req[g]
          /\ req'[h].node = req[h].node /\ req'[h].parent = req[h].parent
          /\ req'[h].name = req[h].name
        BY <1>2, <1>6, <2>2, <2>3 DEF Request
    <2>5. Passed /\ pc'[h] = "probe"
        BY <1>6, <2>4, GotoStep DEF Labels, UploadLabels, Statuses
    <2>6. Owned(h)
        BY <1>1, <1>2, <2>4, <2>5 DEF Owned, RequestShape
    <2> QED BY <2>5, <2>6
<1>7. Passed /\ Owned(h)
    BY <1>4, <1>5, <1>6 DEF Probe
<1>8. Frame(h)
    BY <1>1, <1>7, TableTypes DEF Frame, TypeOK
<1> QED BY <1>3, <1>7, <1>8

LEMMA InsertFileFrame ==
    ASSUME TypeOK, Shape, NEW h \in Handlers, InsertFile(h)
    PROVE  Frame(h) /\ Kept(h) /\ Owned(h)
<1> DEFINE node == req[h].node
           parent == req[h].parent
           name == candidate(req[h].name, req[h].tries)
           table == Inserted(node, parent, name)
<1>1. pc[h] = "insert_file" /\ blob' = blob
    BY DEF InsertFile
<1>2. pc[h] \in Inserting /\ RequestShape(h) /\ blob[node]
    BY <1>1 DEF Inserting, UploadLabels, Shape, RequestShape
<1>3. node \in Items /\ node \in Nodes /\ parent \in Folders /\ name \in Seq(Nat)
    BY <1>2, InsertingFields
<1>4. \/ Answer(h, 201) /\ rows' = table /\ UniqueNames(table)
      \/ /\ Goto(h, "unlink") /\ rows' = rows
         /\ \E code \in {409, 500} : req' = [req EXCEPT ![h].error = code]
    BY DEF InsertFile
<1>5. ASSUME Answer(h, 201), rows' = table, UniqueNames(table)
      PROVE  Frame(h) /\ Kept(h) /\ Owned(h)
    <2> HIDE DEF name, parent
    <2>1. table \in [Nodes -> Row]
        BY <1>3, TableTypes
    <2>2. \A n \in Items : n # node => table[n] = rows[n]
        BY <1>3, TableTypes DEF Inserted, Nodes
    <2>3. /\ pc' \in [Handlers -> Labels] /\ req' \in [Handlers -> Request]
          /\ pc'[h] = "idle" /\ answered' = 201
          /\ \A g \in Handlers \ {h} : pc'[g] = pc[g] /\ req'[g] = req[g]
        BY <1>5, AnswerStep
    <2> HIDE DEF table
    <2>4. Kept(h)
        BY <1>1, <1>2, <1>5, <2>2 DEF Kept
    <2>5. Frame(h)
        BY <1>1, <1>5, <2>1, <2>3 DEF Frame, Statuses, TypeOK
    <2> QED BY <2>3, <2>4, <2>5, IdleOwned
<1>6. ASSUME Goto(h, "unlink"), rows' = rows, NEW code \in {409, 500},
             req' = [req EXCEPT ![h].error = code]
      PROVE  Frame(h) /\ Kept(h) /\ Owned(h)
    <2>1. req \in [Handlers -> Request] /\ req[h] \in Request
        BY DEF TypeOK
    <2>2. [req[h] EXCEPT !.error = code] \in Request
        <3> DEFINE r == req[h]
        <3>1. r \in Request /\ code \in {0, 409, 500}
            BY <1>6, <2>1
        <3> HIDE DEF r
        <3>2. [r EXCEPT !.error = code] \in Request
            BY <3>1 DEF Request
        <3> QED BY <3>2 DEF r
    <2>3. /\ req' \in [Handlers -> Request] /\ \A g \in Handlers \ {h} : req'[g] = req[g]
          /\ req'[h] = [req[h] EXCEPT !.error = code]
        BY <1>6, <2>1, <2>2
    <2>4. /\ req'[h].node = req[h].node /\ req'[h].parent = req[h].parent
          /\ req'[h].name = req[h].name /\ req'[h].error = code
        BY <2>1, <2>3 DEF Request
    <2>5. /\ pc' \in [Handlers -> Labels] /\ pc'[h] = "unlink" /\ answered' = 0
          /\ \A g \in Handlers \ {h} : pc'[g] = pc[g]
        BY <1>6, GotoStep DEF Labels, UploadLabels
    <2>6. Owned(h)
        BY <1>1, <1>2, <1>6, <2>5, <2>4 DEF Owned, RequestShape
    <2>7. Frame(h)
        BY <1>1, <1>6, <2>3, <2>5, TableTypes DEF Frame, Statuses, TypeOK
    <2>8. Kept(h)
        BY <1>1, <1>6 DEF Kept
    <2> QED BY <2>6, <2>7, <2>8
<1> QED BY <1>4, <1>5, <1>6

LEMMA UnlinkFrame ==
    ASSUME TypeOK, Shape, NEW h \in Handlers, UnlinkBlob(h)
    PROVE  Frame(h) /\ Kept(h) /\ Owned(h)
<1>1. /\ pc[h] = "unlink" /\ blob' = [blob EXCEPT ![req[h].node] = FALSE]
      /\ Answer(h, req[h].error) /\ rows' = rows
    BY DEF UnlinkBlob
<1>2. pc[h] \in Inserting /\ req[h].error \in {409, 500}
    BY <1>1 DEF Inserting, UploadLabels, Shape, RequestShape
<1>3. /\ pc' \in [Handlers -> Labels] /\ req' \in [Handlers -> Request]
      /\ pc'[h] = "idle" /\ answered' = req[h].error
      /\ \A g \in Handlers \ {h} : pc'[g] = pc[g] /\ req'[g] = req[g]
    BY <1>1, AnswerStep
<1>4. Frame(h)
    BY <1>1, <1>2, <1>3, TableTypes DEF Frame, Statuses, TypeOK
<1>5. \A n \in Items : n # req[h].node => blob'[n] = blob[n]
    BY <1>1 DEF TypeOK
<1>6. Kept(h)
    BY <1>1, <1>2, <1>5 DEF Kept
<1> QED BY <1>3, <1>4, <1>6, IdleOwned

\* A row that is there is not one that is still to come.
LEMMA UnusedIsNoRow ==
    \A n \in Nodes : rows[n] = Unused => ~IsRow(n) /\ rows[n].state = "none"
BY DEF Unused, IsRow

LEMMA MoveNodeFrame ==
    ASSUME TypeOK, Shape, NEW h \in Handlers, MoveNode(h)
    PROVE  Frame(h) /\ Kept(h) /\ Owned(h)
<1> DEFINE node == req[h].node
           parent == req[h].parent
           table == [rows EXCEPT ![node].parent = parent]
           possible == IsRow(node) /\ FolderIsThere(parent)
<1>1. pc[h] = "move" /\ blob' = blob
    BY DEF MoveNode
<1>2. node \in Nodes /\ parent \in Folders
    BY <1>1 DEF TypeOK, Request, Shape, RequestShape
<1>3. \/ /\ Goto(h, "rename") /\ rows' = table /\ req' = req
         /\ possible /\ UniqueNames(table) /\ req[h].name # Invalid
      \/ \E status \in {200, 400} : Update(h, table, possible, status)
    BY InvalidAssumption DEF MoveNode
<1> HIDE DEF parent, node
<1>4. table \in [Nodes -> Row]
    <2>1. rows \in [Nodes -> Row] /\ [rows[node] EXCEPT !.parent = parent] \in Row
        BY <1>2, TableTypes, RowTypes
    <2> QED BY <1>2, <2>1
<1>5. possible => \A n \in Items : rows[n] = Unused => table[n] = Unused
    BY <1>2, UnusedIsNoRow, TableTypes DEF Nodes
<1>6. possible \in BOOLEAN /\ {200, 400} \subseteq Statuses
    BY DEF FolderIsThere, IsRow, Statuses
<1> HIDE DEF table, possible
<1>7. ASSUME Goto(h, "rename"), rows' = table, req' = req, possible, UniqueNames(table),
             req[h].name # Invalid
      PROVE  Frame(h) /\ Kept(h) /\ Owned(h)
    <2>1. /\ pc' \in [Handlers -> Labels] /\ pc'[h] = "rename" /\ answered' = 0
          /\ \A g \in Handlers \ {h} : pc'[g] = pc[g]
        BY <1>7, GotoStep DEF Labels, PatchLabels
    <2>2. Frame(h)
        BY <1>1, <1>4, <1>7, <2>1 DEF Frame, Statuses, TypeOK
    <2>3. Kept(h)
        BY <1>1, <1>5, <1>7 DEF Kept
    <2> QED BY <1>7, <2>1, <2>2, <2>3, IdleOwned
<1>8. ASSUME NEW status \in {200, 400}, Update(h, table, possible, status)
      PROVE  Frame(h) /\ Kept(h) /\ Owned(h)
    BY <1>1, <1>4, <1>5, <1>6, <1>8, UpdateFrame
<1> QED BY <1>3, <1>7, <1>8

LEMMA RenameFrame ==
    ASSUME TypeOK, Shape, NEW h \in Handlers, Rename(h)
    PROVE  Frame(h) /\ Kept(h) /\ Owned(h)
<1> DEFINE node == req[h].node
           name == req[h].name
           table == [rows EXCEPT ![node].name = name]
           possible == IsRow(node)
<1>1. /\ pc[h] = "rename" /\ blob' = blob
      /\ \/ name = Keep /\ Answer(h, 200) /\ rows' = rows
         \/ name # Keep /\ Update(h, table, possible, 200)
    BY DEF Rename
<1>2. node \in Nodes /\ name \in Names \cup {Keep}
    BY <1>1 DEF TypeOK, Request, Shape, RequestShape
<1>3. ASSUME Answer(h, 200), rows' = rows PROVE Frame(h) /\ Kept(h) /\ Owned(h)
    <2>1. /\ pc' \in [Handlers -> Labels] /\ req' \in [Handlers -> Request]
          /\ pc'[h] = "idle" /\ answered' = 200
          /\ \A g \in Handlers \ {h} : pc'[g] = pc[g] /\ req'[g] = req[g]
        BY <1>3, AnswerStep
    <2>2. Frame(h)
        BY <1>1, <1>3, <2>1, TableTypes DEF Frame, Statuses, TypeOK
    <2>3. Kept(h)
        BY <1>1, <1>3 DEF Kept
    <2> QED BY <2>1, <2>2, <2>3, IdleOwned
<1>4. ASSUME name # Keep, Update(h, table, possible, 200) PROVE Frame(h) /\ Kept(h) /\ Owned(h)
    <2>1. name \in Seq(Nat)
        BY <1>2, <1>4, NamesAssumption
    <2> HIDE DEF name, node
    <2>2. table \in [Nodes -> Row]
        <3>1. rows \in [Nodes -> Row] /\ [rows[node] EXCEPT !.name = name] \in Row
            BY <1>2, <2>1, TableTypes, RowTypes
        <3> QED BY <1>2, <3>1
    <2>3. possible => \A n \in Items : rows[n] = Unused => table[n] = Unused
        BY <1>2, UnusedIsNoRow, TableTypes DEF Nodes
    <2>4. possible \in BOOLEAN /\ 200 \in Statuses
        BY DEF IsRow, Statuses
    <2> HIDE DEF table, possible
    <2> QED BY <1>1, <1>4, <2>2, <2>3, <2>4, UpdateFrame
<1> QED BY <1>1, <1>3, <1>4

\* A row that is marked has been there.
LEMMA MarkedUnused ==
    ASSUME NEW n, NEW from \in {"live", "trashed"}, NEW to
    PROVE  \A m \in Items : rows[m] = Unused => Marked(n, from, to)[m] = Unused
BY UnusedIsNoRow DEF Marked, Nodes

LEMMA MarkFrame ==
    ASSUME TypeOK, NEW h \in Handlers, TrashSubtree(h) \/ RestoreSubtree(h)
    PROVE  Frame(h) /\ Kept(h) /\ Owned(h)
<1>1. PICK from \in {"live", "trashed"}, to \in {"live", "trashed"}, status \in {200, 204, 404} :
         Update(h, Marked(req[h].node, from, to), TRUE, status)
    BY DEF TrashSubtree, RestoreSubtree
<1> DEFINE table == Marked(req[h].node, from, to)
           possible == TRUE
<1>2. table \in [Nodes -> Row] /\ possible \in BOOLEAN
    BY TableTypes
<1>3. blob' = blob
    BY DEF TrashSubtree, RestoreSubtree
<1>4. status \in Statuses
    BY DEF Statuses
<1>5. \A m \in Items : rows[m] = Unused => table[m] = Unused
    BY MarkedUnused
<1>6. Update(h, table, possible, status)
    BY <1>1
<1> HIDE DEF table, possible
<1> QED BY <1>2, <1>3, <1>4, <1>5, <1>6, UpdateFrame

LEMMA PurgeFrame ==
    ASSUME TypeOK, NEW h \in Handlers, PurgeRequest(h)
    PROVE  Frame(h) /\ Kept(h) /\ Owned(h)
<1>1. PICK S : Purge(h, S)
    BY DEF PurgeRequest
<1> DEFINE doomed == UNION {Subtree(n) : n \in S}
           Gone == [Unused EXCEPT !.state = "gone"]
<1>2. /\ rows' = [n \in Nodes |-> IF n \in doomed /\ IsRow(n) THEN Gone ELSE rows[n]]
      /\ blob' = [n \in Items |-> blob[n] /\ ~(n \in doomed /\ IsRow(n))]
      /\ pc[h] = "idle" /\ pc' = pc /\ req' = req /\ answered' = 204
    BY <1>1 DEF Purge
<1> HIDE DEF doomed
<1>3. Gone \in Row /\ Gone.state = "gone"
    BY RowTypes DEF Unused
<1> HIDE DEF Gone
<1>4. rows' \in [Nodes -> Row]
    BY <1>2, <1>3, TableTypes
<1>5. \A n \in Nodes : rows'[n].state = "live" => rows'[n] = rows[n]
    BY <1>2, <1>3
<1>6. UniqueNames(rows')
    BY <1>5 DEF UniqueNames, TypeOK
<1>7. Frame(h)
    BY <1>2, <1>4, <1>6 DEF Frame, Statuses, TypeOK
<1>8. Kept(h)
    <2> SUFFICES ASSUME NEW n \in Items, rows[n] = Unused
                 PROVE  rows'[n] = Unused /\ blob'[n] = blob[n]
        BY DEF Kept
    <2>1. n \in Nodes /\ ~IsRow(n) /\ blob[n] \in BOOLEAN
        BY UnusedIsNoRow DEF Nodes, TypeOK
    <2> QED BY <1>2, <2>1
<1> QED BY <1>2, <1>7, <1>8, IdleOwned

\* Every step.
LEMMA StepFrame ==
    ASSUME TypeOK, Shape, NEW h \in Handlers, Step(h)
    PROVE  Frame(h) /\ Kept(h) /\ Owned(h)
BY ArrivalFrame, CreateFolderFrame, StreamFrame, ProbeFrame, InsertFileFrame, UnlinkFrame,
   MoveNodeFrame, RenameFrame, MarkFrame, PurgeFrame DEF Step, HandlerStep

(***************************************************************************)
(* TYPES AND SHAPE ARE INDUCTIVE                                           *)
(***************************************************************************)
LEMMA TypeNext ==
    ASSUME TypeOK, Shape, NEW h \in Handlers, Step(h), Disturb(h)
    PROVE  TypeOK'
<1>1. Frame(h)
    BY StepFrame
<1>2. rows' \in [Nodes -> [state: {"none", "live", "trashed", "gone"},
                           parent: Folders, name: Seq(Nat)]]
    BY <1>1 DEF Frame, Row
<1>3. disturbed' \subseteq {g \in Handlers : pc'[g] # "idle"}
    BY <1>1 DEF Frame, Disturb, TypeOK
<1> QED BY <1>1, <1>2, <1>3 DEF Frame, Statuses, TypeOK, UniqueNames

LEMMA ShapeNext ==
    ASSUME TypeOK, Shape, NEW h \in Handlers, Step(h)
    PROVE  Shape'
<1>1. Frame(h) /\ Kept(h) /\ Owned(h)
    BY StepFrame
<1>2. ASSUME NEW g \in Handlers, g # h PROVE RequestShape(g)'
    <2>1. pc'[g] = pc[g] /\ req'[g] = req[g] /\ RequestShape(g)
        BY <1>1, <1>2 DEF Frame, Shape
    <2>2. CASE pc[g] \notin Inserting
        BY <2>1, <2>2 DEF RequestShape, Inserting, UploadLabels
    <2>3. CASE pc[g] \in Inserting
        <3>1. /\ req[g].node \in Items /\ rows[req[g].node] = Unused
              /\ ~(pc[h] \in Inserting /\ req[h].node = req[g].node)
            BY <1>2, <2>1, <2>3 DEF RequestShape, Shape, Distinct
        <3>2. rows'[req[g].node] = Unused /\ blob'[req[g].node] = blob[req[g].node]
            BY <1>1, <3>1 DEF Kept
        <3> QED BY <2>1, <3>1, <3>2 DEF RequestShape
    <2> QED BY <2>2, <2>3
<1>3. \A g \in Handlers : RequestShape(g)'
    BY <1>1, <1>2 DEF Owned
<1>4. ASSUME NEW g \in Handlers, g # h, pc'[g] \in Inserting, pc'[h] \in Inserting
      PROVE  req'[g].node # req'[h].node
    <2>1. pc'[g] = pc[g] /\ req'[g] = req[g]
        BY <1>1, <1>4 DEF Frame
    <2>2. CASE pc[h] \in Inserting /\ req'[h].node = req[h].node
        BY <1>4, <2>1, <2>2 DEF Shape, Distinct
    <2>3. CASE Fresh(req'[h].node)
        BY <2>1, <2>3 DEF Fresh
    <2> QED BY <1>1, <1>4, <2>2, <2>3 DEF Owned
<1>5. ASSUME NEW f \in Handlers, NEW g \in Handlers, f # g, pc'[f] \in Inserting, pc'[g] \in Inserting
      PROVE  req'[f].node # req'[g].node
    <2>1. CASE f = h
        BY <1>4, <1>5, <2>1
    <2>2. CASE g = h
        BY <1>4, <1>5, <2>2
    <2>3. CASE f # h /\ g # h
        BY <1>1, <1>5, <2>3 DEF Frame, Shape, Distinct
    <2> QED BY <2>1, <2>2, <2>3
<1>6. Distinct'
    BY <1>5 DEF Distinct
<1> QED BY <1>3, <1>6 DEF Shape

LEMMA Start == Init => TypeOK /\ Shape
<1> SUFFICES ASSUME Init PROVE TypeOK /\ Shape
    OBVIOUS
<1>1. Unused \in Row /\ [Unused EXCEPT !.state = "live"] \in Row
    BY RowTypes
<1>2. rows \in [Nodes -> Row]
    BY <1>1 DEF Init
<1>3. \A n \in Nodes : n # Dir => rows[n].state = "none"
    BY DEF Init, Unused
<1>4. UniqueNames(rows)
    BY <1>3 DEF UniqueNames
<1>5. blob \in [Items -> BOOLEAN] /\ answered = 0 /\ disturbed = {}
    BY DEF Init
<1>6. /\ pc \in [Handlers -> Labels] /\ req \in [Handlers -> Request]
      /\ \A h \in Handlers : pc[h] = "idle"
    BY NoRequestType DEF Init, Labels
<1>7. TypeOK
    BY <1>2, <1>4, <1>5, <1>6 DEF TypeOK, Row
<1>8. Shape
    BY <1>6 DEF Shape, RequestShape, Distinct, Inserting, UploadLabels
<1> QED BY <1>7, <1>8

\* A stutter keeps everything.
LEMMA Stutter == UNCHANGED vars => rows' = rows /\ blob' = blob /\ pc' = pc /\ req' = req
                                    /\ answered' = answered /\ disturbed' = disturbed
BY DEF vars

LEMMA Reached == Spec => [](TypeOK /\ Shape)
<1>1. TypeOK /\ Shape /\ [Next]_vars => (TypeOK /\ Shape)'
    <2> SUFFICES ASSUME TypeOK, Shape, [Next]_vars PROVE TypeOK' /\ Shape'
        OBVIOUS
    <2>1. ASSUME NEW h \in Handlers, Step(h), Disturb(h) PROVE TypeOK' /\ Shape'
        BY <2>1, TypeNext, ShapeNext
    <2>2. CASE UNCHANGED vars
        BY <2>2, Stutter DEF TypeOK, UniqueNames, Shape, RequestShape, Distinct
    <2> QED BY <2>1, <2>2 DEF Next
<1> QED BY Start, <1>1, PTL DEF Spec

\* The values that the columns, the locals and the answers may have, and the index:
\* two live rows of one folder never have one name, whatever the requests do.
THEOREM Typing == Spec => []TypeOK
BY Reached, PTL

(***************************************************************************)
(* REQUESTS THAT NOTHING DISTURBS                                          *)
(***************************************************************************)
\* What h may rely on, as long as no other request has changed a row.
Alone(h) ==
    /\ pc[h] \in UploadLabels =>
          /\ pc[h] # "unlink" /\ FolderIsThere(req[h].parent)
          /\ \A n \in 0 .. req[h].tries - 1 : name_exists(req[h].parent, candidate(req[h].name, n))
          /\ pc[h] = "insert_file" =>
                ~name_exists(req[h].parent, candidate(req[h].name, req[h].tries))
    /\ pc[h] \in PatchLabels =>
          /\ IsRow(req[h].node) /\ rows[req[h].node].name = req[h].was
          /\ pc[h] = "rename" /\ req[h].parent # Keep => rows[req[h].node].parent = req[h].parent

Undisturbed == \A h \in Handlers : h \notin disturbed => Alone(h)

\* A name that no live row of the folder has can be inserted.
LEMMA FreeNameFits ==
    ASSUME TypeOK, NEW n \in Nodes, NEW p \in Folders, NEW name,
           ~name_exists(p, name)
    PROVE  UniqueNames(Inserted(n, p, name))
<1>1. \A m \in Nodes : m # n => Inserted(n, p, name)[m] = rows[m]
    BY TableTypes DEF Inserted
<1>2. Inserted(n, p, name)[n] = [state |-> "live", parent |-> p, name |-> name]
    BY TableTypes DEF Inserted
<1> DEFINE table == Inserted(n, p, name)
<1> HIDE DEF table
<1>3. SUFFICES ASSUME NEW k \in Nodes, NEW m \in Nodes, k # m, table[k].state = "live",
                      table[m].state = "live", table[k].parent = table[m].parent,
                      table[k].name = table[m].name
               PROVE  FALSE
    BY DEF UniqueNames, table
<1>4. \A m1 \in Nodes : ~(rows[m1].state = "live" /\ rows[m1].parent = p /\ rows[m1].name = name)
    BY DEF name_exists
<1>5. CASE k # n /\ m # n
    BY <1>1, <1>3, <1>5 DEF TypeOK, UniqueNames, table
<1>6. CASE k = n
    BY <1>1, <1>2, <1>3, <1>4, <1>6 DEF table
<1>7. CASE m = n
    BY <1>1, <1>2, <1>3, <1>4, <1>7 DEF table
<1> QED BY <1>5, <1>6, <1>7

\* Only one row differs: what the index refuses is a live row that is in the way.
LEMMA RowInTheWay ==
    ASSUME TypeOK, NEW n \in Nodes, NEW table \in [Nodes -> Row], ~UniqueNames(table),
           \A m \in Nodes : m # n => table[m] = rows[m]
    PROVE  \E m \in Nodes \ {n} : /\ rows[m].state = "live"
                                  /\ rows[m].parent = table[n].parent
                                  /\ rows[m].name = table[n].name
<1>1. PICK k \in Nodes, m \in Nodes :
         /\ k # m /\ table[k].state = "live" /\ table[m].state = "live"
         /\ table[k].parent = table[m].parent /\ table[k].name = table[m].name
    BY DEF UniqueNames
<1>2. k = n \/ m = n
    BY <1>1 DEF TypeOK, UniqueNames
<1> QED BY <1>1, <1>2

\* A step of another request that changes a row disturbs.
LEMMA OthersDisturb ==
    ASSUME TypeOK, NEW h \in Handlers, Frame(h), Disturb(h),
           NEW g \in Handlers, g # h, g \notin disturbed', pc[g] # "idle"
    PROVE  rows' = rows /\ g \notin disturbed
<1> DEFINE others == {f \in Handlers \ {h} : pc[f] # "idle"}
           done == IF pc'[h] = "idle" THEN {h} ELSE {}
<1>1. disturbed' = (IF rows' = rows THEN disturbed ELSE disturbed \cup others) \ done
    BY DEF Disturb
<1>2. g \in others /\ g \notin done
    OBVIOUS
<1> HIDE DEF others, done
<1> QED BY <1>1, <1>2

LEMMA OthersAlone ==
    ASSUME TypeOK, Shape, Undisturbed, NEW h \in Handlers, Step(h), Disturb(h),
           NEW g \in Handlers, g # h, g \notin disturbed'
    PROVE  Alone(g)'
<1>1. Frame(h) /\ pc'[g] = pc[g] /\ req'[g] = req[g]
    BY StepFrame DEF Frame
<1>2. CASE pc[g] = "idle"
    BY <1>1, <1>2 DEF Alone, UploadLabels, PatchLabels
<1>3. CASE pc[g] # "idle"
    <2>1. rows' = rows /\ Alone(g)
        BY <1>1, <1>3, OthersDisturb DEF Undisturbed
    <2> QED BY <1>1, <2>1 DEF Alone, FolderIsThere, IsRow, name_exists
<1> QED BY <1>2, <1>3

\* A folder that new nodes may be put into is there.
LEMMA ResolvedIsThere == \A p \in Folders : resolve_parent(p) => FolderIsThere(p)
BY DEF Folders, resolve_parent, FolderIsThere, IsRow

LEMMA ArrivalAlone ==
    ASSUME TypeOK, NEW h \in Handlers, Arrival(h)
    PROVE  Alone(h)'
<1>1. rows' = rows
    BY ArrivalStep
<1>2. ASSUME NEW n \in Items, NEW p \in Folders,
             resolve_parent(p), pc'[h] \in {"insert_folder", "stream"},
             req'[h].parent = p, req'[h].tries = 0
      PROVE  Alone(h)'
    <2>1. FolderIsThere(p) /\ 0 .. 0 - 1 = {}
        BY <1>2, ResolvedIsThere
    <2> QED BY <1>1, <1>2, <2>1
            DEF Alone, UploadLabels, PatchLabels, FolderIsThere, IsRow
<1>3. ASSUME NEW n \in Nodes, NEW p \in Folders \cup {Keep},
             IsRow(n), pc'[h] = IF p # Keep THEN "move" ELSE "rename",
             req'[h].node = n, req'[h].parent = p, req'[h].was = rows[n].name
      PROVE  Alone(h)'
    BY <1>1, <1>3 DEF Alone, UploadLabels, PatchLabels, IsRow
<1>4. CASE pc'[h] \in {"trash", "restore"}
    BY <1>4 DEF Alone, UploadLabels, PatchLabels
<1> QED BY <1>2, <1>3, <1>4, ArrivalStep

\* A request that has been answered relies on nothing.
LEMMA IdleAlone ==
    ASSUME NEW h \in Handlers, pc'[h] = "idle"
    PROVE  Alone(h)'
BY DEF Alone, UploadLabels, PatchLabels

LEMMA ProbeAlone ==
    ASSUME TypeOK, Shape, NEW h \in Handlers, Alone(h), Probe(h)
    PROVE  Alone(h)'
<1>1. /\ pc[h] = "probe" /\ rows' = rows /\ FolderIsThere(req[h].parent)
      /\ \A n \in 0 .. req[h].tries - 1 : name_exists(req[h].parent, candidate(req[h].name, n))
    BY DEF Probe, Alone, UploadLabels
<1>2. req \in [Handlers -> Request] /\ req[h].tries \in Nat
    BY TriesAssumption DEF TypeOK, Request
<1>3. ASSUME ~name_exists(req[h].parent, candidate(req[h].name, req[h].tries)),
             Goto(h, "insert_file"), req' = req
      PROVE  Alone(h)'
    <2>1. pc'[h] = "insert_file"
        BY <1>3, GotoStep DEF Labels, UploadLabels
    <2> QED BY <1>1, <1>3, <2>1
            DEF Alone, UploadLabels, PatchLabels, FolderIsThere, IsRow, name_exists
<1>4. ASSUME name_exists(req[h].parent, candidate(req[h].name, req[h].tries)),
             Goto(h, "probe"), req' = [req EXCEPT ![h].tries = @ + 1]
      PROVE  Alone(h)'
    <2>1. pc'[h] = "probe"
        BY <1>4, GotoStep DEF Labels, UploadLabels
    <2>2. /\ req'[h].parent = req[h].parent /\ req'[h].name = req[h].name
          /\ req'[h].tries = req[h].tries + 1
        BY <1>2, <1>4 DEF Request
    <2> DEFINE taken(n) == name_exists(req[h].parent, candidate(req[h].name, n))
    <2>3. (\A n \in 0 .. req[h].tries - 1 : taken(n)) /\ taken(req[h].tries)
        BY <1>1, <1>4
    <2> HIDE DEF taken
    <2>4. \A n \in 0 .. req'[h].tries - 1 : taken(n)
        BY <1>2, <2>2, <2>3
    <2>5. \A n \in 0 .. req'[h].tries - 1 :
             name_exists(req[h].parent, candidate(req[h].name, n))'
        BY <1>1, <2>2, <2>4 DEF name_exists, taken
    <2> QED BY <1>1, <2>1, <2>2, <2>5
            DEF Alone, UploadLabels, PatchLabels, FolderIsThere, IsRow
<1>5. ASSUME Answer(h, 409) PROVE Alone(h)'
    BY <1>5, AnswerStep, IdleAlone
<1> QED BY <1>3, <1>4, <1>5 DEF Probe

\* The name that is free, and the folder that is there, do not fail.
LEMMA InsertFileAlone ==
    ASSUME TypeOK, Shape, NEW h \in Handlers, Alone(h), InsertFile(h)
    PROVE  Alone(h)'
<1>1. /\ pc[h] = "insert_file" /\ FolderIsThere(req[h].parent)
      /\ ~name_exists(req[h].parent, candidate(req[h].name, req[h].tries))
    BY DEF InsertFile, Alone, UploadLabels
<1>2. pc[h] \in Inserting
    BY <1>1 DEF Inserting, UploadLabels
<1>3. UniqueNames(Inserted(req[h].node, req[h].parent, candidate(req[h].name, req[h].tries)))
    BY <1>1, <1>2, InsertingFields, FreeNameFits
<1>4. Answer(h, 201)
    BY <1>1, <1>3 DEF InsertFile
<1> QED BY <1>4, AnswerStep, IdleAlone

LEMMA MoveNodeAlone ==
    ASSUME TypeOK, Shape, NEW h \in Handlers, Alone(h), MoveNode(h)
    PROVE  Alone(h)'
<1> DEFINE node == req[h].node
           parent == req[h].parent
           table == [rows EXCEPT ![node].parent = parent]
           possible == IsRow(node) /\ FolderIsThere(parent)
<1>1. /\ pc[h] = "move" /\ IsRow(node) /\ rows[node].name = req[h].was
      /\ node \in Nodes
    BY DEF MoveNode, Alone, PatchLabels, TypeOK, Request
<1>2. \/ Goto(h, "rename") /\ rows' = table /\ req' = req
      \/ \E status : Update(h, table, possible, status)
    BY DEF MoveNode
<1>3. ASSUME Goto(h, "rename"), rows' = table, req' = req PROVE Alone(h)'
    <2>1. pc'[h] = "rename"
        BY <1>3, GotoStep DEF Labels, PatchLabels
    <2>2. /\ rows'[node].parent = parent /\ rows'[node].name = rows[node].name
          /\ rows'[node].state = rows[node].state
        BY <1>1, <1>3, TableTypes DEF Row
    <2> QED BY <1>1, <1>3, <2>1, <2>2 DEF Alone, UploadLabels, PatchLabels, IsRow
<1>4. ASSUME NEW status, Update(h, table, possible, status) PROVE Alone(h)'
    <2>1. pc'[h] = "idle"
        BY <1>4, AnswerStep DEF Update
    <2> QED BY <2>1, IdleAlone
<1> QED BY <1>2, <1>3, <1>4

\* A step of the request itself.
LEMMA OwnAlone ==
    ASSUME TypeOK, Shape, NEW h \in Handlers, Undisturbed, Step(h), Disturb(h), h \notin disturbed'
    PROVE  Alone(h)'
<1>1. CASE pc'[h] = "idle"
    BY <1>1, IdleAlone
<1>2. CASE pc'[h] # "idle"
    <2>1. h \notin disturbed /\ Alone(h)
        BY <1>2 DEF Disturb, Undisturbed
    <2>2. CASE Arrival(h)
        BY <2>2, ArrivalAlone
    <2>3. CASE StreamEnds(h)
        <3>1. pc[h] = "stream" /\ pc'[h] = "probe" /\ rows' = rows /\ req' = req
            BY <2>3, GotoStep DEF StreamEnds, Labels, UploadLabels
        <3> QED BY <2>1, <3>1
                DEF Alone, UploadLabels, PatchLabels, FolderIsThere, IsRow, name_exists
    <2>4. CASE Probe(h)
        BY <2>1, <2>4, ProbeAlone
    <2>5. CASE InsertFile(h)
        BY <2>1, <2>5, InsertFileAlone
    <2>6. CASE MoveNode(h)
        BY <2>1, <2>6, MoveNodeAlone
    <2>7. CASE CreateFolder(h) \/ UnlinkBlob(h) \/ Rename(h) \/ TrashSubtree(h) \/ RestoreSubtree(h)
        <3>1. \E status : Answer(h, status)
            BY <2>7 DEF CreateFolder, UnlinkBlob, Rename, TrashSubtree, RestoreSubtree, Update
        <3> QED BY <1>2, <3>1, AnswerStep
    <2>8. CASE PurgeRequest(h)
        BY <1>2, <2>8 DEF PurgeRequest, Purge
    <2> QED BY <2>2, <2>3, <2>4, <2>5, <2>6, <2>7, <2>8 DEF Step, HandlerStep
<1> QED BY <1>1, <1>2

LEMMA Relied == Spec => []Undisturbed
<1>1. Init => Undisturbed
    BY DEF Init, Undisturbed, Alone, UploadLabels, PatchLabels
<1>2. TypeOK /\ Shape /\ Undisturbed /\ [Next]_vars => Undisturbed'
    <2> SUFFICES ASSUME TypeOK, Shape, Undisturbed, [Next]_vars PROVE Undisturbed'
        OBVIOUS
    <2>1. ASSUME NEW h \in Handlers, Step(h), Disturb(h) PROVE Undisturbed'
        BY <2>1, OwnAlone, OthersAlone DEF Undisturbed
    <2>2. CASE UNCHANGED vars
        BY <2>2, Stutter DEF Undisturbed, Alone, FolderIsThere, IsRow, name_exists
    <2> QED BY <2>1, <2>2 DEF Next
<1> QED BY <1>1, <1>2, Reached, PTL DEF Spec

(***************************************************************************)
(* WHAT THE CLIENT IS TOLD                                                 *)
(***************************************************************************)
\* A request is answered by a step of its own.
LEMMA OwnAnswer ==
    ASSUME TypeOK, Shape, NEW h \in Handlers, Step(h),
           NEW g \in Handlers, pc[g] # "idle", pc'[g] = "idle"
    PROVE  g = h
BY StepFrame DEF Frame

\* The last steps of an upload.
LEMMA UploadEnds ==
    ASSUME TypeOK, Shape, NEW h \in Handlers, Step(h), pc[h] \in UploadLabels, pc'[h] = "idle"
    PROVE  \/ /\ Probe(h) /\ req[h].tries = MaxTries /\ Answer(h, 409)
              /\ name_exists(req[h].parent, candidate(req[h].name, req[h].tries))
           \/ InsertFile(h) /\ Answer(h, 201)
           \/ UnlinkBlob(h)
<1>1. ~Arrival(h) /\ ~PurgeRequest(h)
    BY ArrivalStep DEF PurgeRequest, Purge, UploadLabels
<1>2. ~StreamEnds(h)
    BY GotoStep DEF StreamEnds, Labels, UploadLabels
<1>3. ~CreateFolder(h) /\ ~MoveNode(h) /\ ~Rename(h) /\ ~TrashSubtree(h) /\ ~RestoreSubtree(h)
    BY DEF CreateFolder, MoveNode, Rename, TrashSubtree, RestoreSubtree, UploadLabels
<1>4. ASSUME Probe(h) PROVE /\ req[h].tries = MaxTries /\ Answer(h, 409)
                            /\ name_exists(req[h].parent, candidate(req[h].name, req[h].tries))
    BY <1>4, GotoStep DEF Probe, Labels, UploadLabels
<1>5. ASSUME InsertFile(h) PROVE Answer(h, 201)
    BY <1>5, GotoStep DEF InsertFile, Labels, UploadLabels
<1> QED BY <1>1, <1>2, <1>3, <1>4, <1>5 DEF Step, HandlerStep

\* An upload gets the first free name of those that free_name tries, when no other
\* request changes a row meanwhile; it is refused only when one did, or when every
\* name is in use, and only then its file stays without a node.
THEOREM UploadsAreNamed == Spec => UploadIsNamed
<1> DEFINE taken(g, n) == \E m \in Nodes : /\ rows[m].state = "live" /\ rows[m].parent = req[g].parent
                                           /\ rows[m].name = candidate(req[g].name, n)
           Named(g) ==
               /\ answered' = 201 =>
                     /\ rows'[req[g].node].state = "live" /\ blob'[req[g].node]
                     /\ \E n \in 0 .. MaxTries :
                           /\ rows'[req[g].node].name = candidate(req[g].name, n)
                           /\ g \notin disturbed => \A m \in 0 .. n - 1 : taken(g, m)
               /\ answered' # 201 =>
                     /\ rows'[req[g].node] = Unused
                     /\ g \in disturbed \/ \A n \in 0 .. MaxTries : taken(g, n)
                     /\ blob'[req[g].node] => taken(g, MaxTries)
<1>1. ASSUME TypeOK, Shape, Undisturbed, NEW h \in Handlers, Step(h),
             pc[h] \in UploadLabels, pc'[h] = "idle"
      PROVE  Named(h)
    <2>1. /\ pc[h] \in Inserting /\ RequestShape(h) /\ req[h].node \in Items /\ req[h].node \in Nodes
          /\ rows[req[h].node] = Unused /\ req[h].tries \in 0 .. MaxTries
        BY <1>1, InsertingFields DEF Inserting, Shape
    <2>2. h \notin disturbed => /\ pc[h] # "unlink"
                                /\ \A n \in 0 .. req[h].tries - 1 : taken(h, n)
        BY <1>1 DEF Undisturbed, Alone, name_exists
    <2>3. ASSUME Probe(h), req[h].tries = MaxTries, Answer(h, 409), taken(h, req[h].tries)
          PROVE  Named(h)
        <3>1. answered' = 409 /\ rows' = rows
            BY <1>1, <2>3, AnswerStep DEF Probe
        <3> HIDE DEF taken
        <3>2. h \notin disturbed => \A n \in 0 .. MaxTries : taken(h, n)
            BY <2>1, <2>2, <2>3, TriesAssumption
        <3> QED BY <2>1, <2>3, <3>1, <3>2
    <2>4. ASSUME InsertFile(h), Answer(h, 201) PROVE Named(h)
        <3>1. /\ answered' = 201 /\ blob' = blob /\ pc[h] = "insert_file" /\ pc'[h] = "idle"
            BY <1>1, <2>4, AnswerStep DEF InsertFile
        <3>2. rows' = Inserted(req[h].node, req[h].parent, candidate(req[h].name, req[h].tries))
            BY <1>1, <2>4, <3>1, GotoStep DEF InsertFile, Labels, UploadLabels
        <3>3. /\ rows'[req[h].node].state = "live"
              /\ rows'[req[h].node].name = candidate(req[h].name, req[h].tries)
            BY <1>1, <2>1, <3>2, TableTypes DEF Inserted
        <3>4. blob'[req[h].node]
            BY <2>1, <3>1 DEF RequestShape
        <3> HIDE DEF taken
        <3> QED BY <2>1, <2>2, <3>1, <3>3, <3>4
    <2>5. ASSUME UnlinkBlob(h) PROVE Named(h)
        <3>1. /\ pc[h] = "unlink" /\ rows' = rows /\ answered' = req[h].error
              /\ blob' = [blob EXCEPT ![req[h].node] = FALSE]
            BY <1>1, <2>5, AnswerStep DEF UnlinkBlob
        <3>2. req[h].error \in {409, 500} /\ ~blob'[req[h].node]
            BY <1>1, <2>1, <3>1 DEF RequestShape, TypeOK
        <3>3. answered' # 201 /\ h \in disturbed
            BY <2>2, <3>1, <3>2
        <3> HIDE DEF taken
        <3> QED BY <2>1, <3>1, <3>2, <3>3
    <2> HIDE DEF Named
    <2> QED BY <1>1, <2>3, <2>4, <2>5, UploadEnds DEF name_exists
<1> DEFINE Act == \A h \in Handlers :
             LET r == req[h]
                 used(n) == \E m \in Nodes : /\ rows[m].state = "live" /\ rows[m].parent = r.parent
                                            /\ rows[m].name = candidate(r.name, n)
             IN pc[h] \in UploadLabels /\ pc'[h] = "idle" =>
                   /\ answered' = 201 =>
                         /\ rows'[r.node].state = "live" /\ blob'[r.node]
                         /\ \E n \in 0 .. MaxTries :
                               /\ rows'[r.node].name = candidate(r.name, n)
                               /\ h \notin disturbed => \A m \in 0 .. n - 1 : used(m)
                   /\ answered' # 201 =>
                         /\ rows'[r.node] = Unused
                         /\ h \in disturbed \/ \A n \in 0 .. MaxTries : used(n)
                         /\ blob'[r.node] => used(MaxTries)
<1>2. ASSUME TypeOK, Shape, Undisturbed, [Next]_vars PROVE [Act]_vars
    <2> HIDE DEF Act, Named
    <2>1. CASE UNCHANGED vars
        BY <2>1
    <2>2. ASSUME NEW h \in Handlers, Step(h) PROVE Act
        <3>1. ASSUME NEW g \in Handlers, pc[g] \in UploadLabels, pc'[g] = "idle" PROVE Named(g)
            <4>1. g = h
                BY <1>2, <2>2, <3>1, OwnAnswer DEF UploadLabels
            <4> QED BY <1>1, <1>2, <2>2, <3>1, <4>1
        <3> QED BY <3>1 DEF Act, Named
    <2> QED BY <1>2, <2>1, <2>2 DEF Next
<1>3. UploadIsNamed <=> [][Act]_vars
    BY PTL DEF UploadIsNamed
<1> HIDE DEF Act
<1> QED BY <1>2, <1>3, Reached, Relied, PTL DEF Spec

\* What the answer to a PATCH says of h.
Told(h, folder) ==
    /\ answered' = 200 =>
          /\ rows'[req[h].node].parent = folder
          /\ rows'[req[h].node].name = IF req[h].name = Keep THEN req[h].was ELSE req[h].name
    /\ answered' = 400 =>
          /\ rows'[req[h].node].parent = folder
          /\ rows'[req[h].node].name = req[h].was
    /\ answered' = 409 =>
          /\ rows'[req[h].node].name = req[h].was
          /\ \E n \in Nodes \ {req[h].node} :
                /\ rows[n].state = "live" /\ rows[n].parent = folder
                /\ rows[n].name \in {req[h].was, req[h].name}

\* The UPDATE of a row, as the node of a patch is as it was read.
LEMMA PatchUpdate ==
    ASSUME TypeOK, NEW h \in Handlers, IsRow(req[h].node), rows[req[h].node].name = req[h].was,
           NEW table \in [Nodes -> Row], NEW possible \in BOOLEAN,
           NEW status \in {200, 400}, Update(h, table, possible, status),
           \A m \in Nodes : m # req[h].node => table[m] = rows[m],
           table[req[h].node].name \in {req[h].was, req[h].name},
           UniqueNames(table) =>
              table[req[h].node].name = IF status = 400 \/ req[h].name = Keep
                                        THEN req[h].was ELSE req[h].name
    PROVE  Told(h, table[req[h].node].parent)
<1> DEFINE node == req[h].node
<1>1. /\ Answer(h, answered')
      /\ \/ answered' = 500 /\ rows' = rows
         \/ answered' = 409 /\ rows' = rows /\ possible /\ ~UniqueNames(table)
         \/ answered' = status /\ rows' = table /\ possible /\ UniqueNames(table)
      /\ UniqueNames(rows')
    BY UpdateStep
<1>2. node \in Nodes
    BY DEF TypeOK, Request
<1>3. CASE answered' = 500
    BY <1>3 DEF Told
<1>4. CASE answered' = 409 /\ rows' = rows /\ ~UniqueNames(table)
    <2>1. \E m \in Nodes \ {node} : /\ rows[m].state = "live"
                                    /\ rows[m].parent = table[node].parent
                                    /\ rows[m].name = table[node].name
        BY <1>2, <1>4, RowInTheWay
    <2> QED BY <1>4, <2>1 DEF Told
<1>5. CASE answered' = status /\ rows' = table /\ UniqueNames(table)
    BY <1>2, <1>5 DEF Told
<1> QED BY <1>1, <1>3, <1>4, <1>5

\* 200 is both the move and the new name, 400 the move and the old name, and 409 has left
\* the name as it was, with a live node of the wanted name in the way, when no other
\* request changes a row.
THEOREM PatchesAreReported == Spec => PatchIsReported
<1> DEFINE folder(g) == IF req[g].parent = Keep THEN rows[req[g].node].parent ELSE req[g].parent
<1>1. ASSUME TypeOK, Shape, Undisturbed, NEW h \in Handlers, Step(h),
             pc[h] \in PatchLabels, pc'[h] = "idle", h \notin disturbed
      PROVE  Told(h, folder(h))
    <2> DEFINE node == req[h].node
               parent == req[h].parent
               name == req[h].name
    <2>1. /\ IsRow(node) /\ rows[node].name = req[h].was /\ node \in Nodes
          /\ pc[h] = "rename" /\ parent # Keep => rows[node].parent = parent
        BY <1>1 DEF Undisturbed, Alone, TypeOK, Request
    <2>2. MoveNode(h) \/ Rename(h)
        <3>1. ~Arrival(h) /\ ~PurgeRequest(h)
            BY <1>1, ArrivalStep DEF PurgeRequest, Purge, PatchLabels
        <3> QED BY <1>1, <3>1 DEF Step, HandlerStep, CreateFolder, StreamEnds, Probe, InsertFile,
                    UnlinkBlob, TrashSubtree, RestoreSubtree, PatchLabels
    <2>3. CASE MoveNode(h)
        <3> DEFINE table == [rows EXCEPT ![node].parent = parent]
                   possible == IsRow(node) /\ FolderIsThere(parent)
                   status == IF name = Invalid THEN 400 ELSE 200
        <3>1. parent \in Folders /\ parent # Keep
            BY <1>1, <2>3, KeepAssumption DEF MoveNode, Shape, RequestShape, Folders
        <3>2. /\ possible /\ UniqueNames(table) => name \notin Names
              /\ Update(h, table, possible, status)
            BY <1>1, <2>3, GotoStep DEF MoveNode, Labels, PatchLabels
        <3>3. /\ \A m \in Nodes : m # node => table[m] = rows[m]
              /\ table[node].parent = parent /\ table[node].name = rows[node].name
            BY <1>1, <2>1, TableTypes DEF Row
        <3>4. table \in [Nodes -> Row] /\ possible \in BOOLEAN
            <4>1. rows \in [Nodes -> Row] /\ [rows[node] EXCEPT !.parent = parent] \in Row
                BY <1>1, <2>1, <3>1, TableTypes, RowTypes
            <4> QED BY <2>1, <4>1 DEF IsRow, FolderIsThere
        <3>5. CASE ~possible
            <4>1. answered' = 500
                BY <3>2, <3>5 DEF Update, Answer
            <4> QED BY <4>1 DEF Told
        <3>6. CASE possible
            <4> HIDE DEF table
            <4>0. status \in {200, 400}
                OBVIOUS
            <4>1. UniqueNames(table) => status = 400 \/ name = Keep
                <5>1. name \in Names \cup {Keep, Invalid}
                    BY <1>1 DEF TypeOK, Request
                <5>2. UniqueNames(table) => name \notin Names
                    BY <3>2, <3>6
                <5> QED BY <5>1, <5>2
            <4> HIDE DEF possible
            <4>2. Told(h, table[node].parent)
                BY <1>1, <2>1, <3>2, <3>3, <3>4, <4>0, <4>1, PatchUpdate
            <4> QED BY <3>1, <3>3, <4>2
        <3> QED BY <3>5, <3>6
    <2>4. CASE Rename(h)
        <3> DEFINE table == [rows EXCEPT ![node].name = name]
                   possible == IsRow(node)
        <3>1. rows[node].parent = folder(h) /\ name \in Names \cup {Keep}
            BY <1>1, <2>1, <2>4 DEF Rename, TypeOK, Request, Shape, RequestShape
        <3>2. CASE name = Keep
            <4>1. Answer(h, 200) /\ rows' = rows
                BY <2>4, <3>2 DEF Rename
            <4>2. answered' = 200
                BY <4>1 DEF Answer
            <4> QED BY <2>1, <3>1, <3>2, <4>1, <4>2 DEF Told
        <3>3. CASE name # Keep
            <4>1. Update(h, table, possible, 200)
                BY <2>4, <3>3 DEF Rename
            <4>2. name \in Seq(Nat)
                BY <3>1, <3>3, NamesAssumption
            <4>3. table \in [Nodes -> Row] /\ possible \in BOOLEAN
                <5>1. rows \in [Nodes -> Row] /\ [rows[node] EXCEPT !.name = name] \in Row
                    BY <1>1, <2>1, <4>2, TableTypes, RowTypes
                <5> QED BY <2>1, <5>1 DEF IsRow
            <4>4. /\ \A m \in Nodes : m # node => table[m] = rows[m]
                  /\ table[node].parent = rows[node].parent /\ table[node].name = name
                BY <1>1, <2>1, TableTypes DEF Row
            <4> HIDE DEF table, possible
            <4>5. Told(h, table[node].parent)
                BY <1>1, <2>1, <3>3, <4>1, <4>3, <4>4, PatchUpdate
            <4> QED BY <3>1, <4>4, <4>5
        <3> QED BY <3>2, <3>3
    <2> QED BY <2>2, <2>3, <2>4
<1> DEFINE Act == \A h \in Handlers :
             LET r == req[h]
                 is == rows'[r.node]
                 into == IF r.parent = Keep THEN rows[r.node].parent ELSE r.parent
             IN pc[h] \in PatchLabels /\ pc'[h] = "idle" /\ h \notin disturbed =>
                   /\ answered' = 200 =>
                         is.parent = into /\ is.name = IF r.name = Keep THEN r.was ELSE r.name
                   /\ answered' = 400 => is.parent = into /\ is.name = r.was
                   /\ answered' = 409 =>
                         /\ is.name = r.was
                         /\ \E n \in Nodes \ {r.node} :
                               /\ rows[n].state = "live" /\ rows[n].parent = into
                               /\ rows[n].name \in {r.was, r.name}
<1>2. ASSUME TypeOK, Shape, Undisturbed, [Next]_vars PROVE [Act]_vars
    <2> HIDE DEF Act
    <2>1. CASE UNCHANGED vars
        BY <2>1
    <2>2. ASSUME NEW h \in Handlers, Step(h) PROVE Act
        <3>1. ASSUME NEW g \in Handlers, pc[g] \in PatchLabels, pc'[g] = "idle", g \notin disturbed
              PROVE  Told(g, folder(g))
            <4>1. g = h
                BY <1>2, <2>2, <3>1, OwnAnswer DEF PatchLabels
            <4> QED BY <1>1, <1>2, <2>2, <3>1, <4>1
        <3> QED BY <3>1 DEF Act, Told
    <2> QED BY <1>2, <2>1, <2>2 DEF Next
<1>3. PatchIsReported <=> [][Act]_vars
    BY PTL DEF PatchIsReported
<1> HIDE DEF Act
<1> QED BY <1>2, <1>3, Reached, Relied, PTL DEF Spec
=============================================================================
