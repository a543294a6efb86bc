------------------------- MODULE MCAuthentication -------------------------
(* One session: no action reads or writes two of them. *)
EXTENDS Authentication
===========================================================================
