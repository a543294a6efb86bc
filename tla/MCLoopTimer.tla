---------------------------- MODULE MCLoopTimer ----------------------------
(* Two workers and the main thread: three writers of one pointer.  Four elements
   are enough for every thread to find a fresh one. *)
EXTENDS LoopTimer
============================================================================
