--------------------------- MODULE MCUploadSession ---------------------------
(***************************************************************************)
(* Instances of UploadSession for TLC.  The handlers are interchangeable   *)
(* model values; sessions are numbered and are not.                        *)
(***************************************************************************)
EXTENDS UploadSession, TLC

Symmetry == Permutations(Handlers)

\* No step and no property reads what a request remembers of its session once it has
\* made use of it: two states that differ in nothing else have the same steps.
View ==
    LET claiming == {"count_chunks", "claim"}
        remembered == [h \in Handlers |->
            [req[h] EXCEPT
                !.received = IF pc[h] = "chunk_size" THEN @ ELSE 0,
                !.state = IF pc[h] \in claiming \cup {"abort_transition"} THEN @ ELSE "absent",
                !.node_id = IF pc[h] \in claiming \cup {"existing_node"} \cup PurgeLabels THEN @ ELSE 0]]
    IN <<dbVars, userVars, fsVars, pc, remembered, fd, gcVars>>
=============================================================================
