-------------------------- MODULE MCTestFolderLib --------------------------
(* One worker: liveness rules out symmetry, and what several workers may do to
   the invariants is proved in TestFolderLibProofs. *)
EXTENDS TestFolderLib
============================================================================
