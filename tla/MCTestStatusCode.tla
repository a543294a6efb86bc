-------------------------- MODULE MCTestStatusCode --------------------------
(* A node of its own, or two nodes that share one data value. *)
EXTENDS TestStatusCode
=============================================================================
