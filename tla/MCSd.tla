-------------------------------- MODULE MCSd --------------------------------
(* Sd with two values for what a block or a buffer holds. *)
EXTENDS Sd

MCVal == {0, 1}
=============================================================================
