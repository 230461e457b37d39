------------------------------- MODULE MCLog --------------------------------
(* Log with a disk of zeroes, as mkfs first makes it. *)
EXTENDS Log

Zeroes == [k \in Blk |-> 0]
=============================================================================
