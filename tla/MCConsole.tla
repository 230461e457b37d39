----------------------------- MODULE MCConsole ------------------------------
(* Console on a small instance: two readers and a ring of three. *)
EXTENDS Console
=============================================================================
