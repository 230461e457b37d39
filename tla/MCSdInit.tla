------------------------------ MODULE MCSdInit ------------------------------
(* SdInit with the retries of the code and each kind of card. *)
EXTENDS SdInit
=============================================================================
