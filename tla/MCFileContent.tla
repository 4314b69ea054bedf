---------------------------- MODULE MCFileContent ----------------------------
(***************************************************************************)
(* Instance of FileContent for TLC.                                        *)
(***************************************************************************)
EXTENDS FileContent, TLC

\* Numbers on both sides of every length, and what is not a number.
RangeFields == {Missing, Garbage} \cup 0 .. Remaining + 1

Symmetry == Permutations(Readers)
=============================================================================
