------------------------------ MODULE MCMemory ------------------------------
(* Memory with a program of two segments, of which the second ends below   *)
(* the first, and a brk that is larger than what one table maps.           *)
EXTENDS Memory

Seg(start, file, end) == [start |-> start, file |-> file, end |-> end]
MCBrk == {7, -1, -8}

MCImage == {<<Seg(0, 1, 2), Seg(0, 1, 1)>>}
=============================================================================
