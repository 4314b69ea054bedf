----------------------------- MODULE MCNodeNames -----------------------------
(***************************************************************************)
(* Instance of NodeNames for TLC.                                          *)
(***************************************************************************)
EXTENDS NodeNames, TLC

\* A text, and that text with " (1)": what a client wants and what free_name makes.
TwoNames == {<<>>, <<1>>}

Symmetry == Permutations(Items) \cup Permutations(Handlers)

\* No step and no property reads the answer before the last, nor what a request remembers of its
\* node once it was disturbed, nor whether one other than an upload or a patch was: two
\* states that differ in nothing else have the same steps.
View ==
    LET reporting == {h \in Handlers : pc[h] \in UploadLabels \cup PatchLabels}
        told == [h \in Handlers |-> IF h \in disturbed THEN [req[h] EXCEPT !.was = Keep] ELSE req[h]]
    IN <<rows, blob, pc, told, disturbed \cap reporting>>
=============================================================================
