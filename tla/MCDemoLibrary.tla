--------------------------- MODULE MCDemoLibrary ---------------------------
(* All ten components; of those whose requests may fail, one has a timer that
   only its startup arms, one a timer that clients may arm as well, and one
   has none. *)
EXTENDS DemoLibrary
=============================================================================
