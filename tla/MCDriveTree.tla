----------------------------- MODULE MCDriveTree -----------------------------
(***************************************************************************)
(* Instances of DriveTree for TLC.  The handlers are interchangeable; nodes *)
(* are numbered in the order in which they are made.                       *)
(***************************************************************************)
EXTENDS DriveTree, TLC

Symmetry == Permutations(Handlers)
=============================================================================
