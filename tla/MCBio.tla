------------------------------- MODULE MCBio --------------------------------
(* Bio with interchangeable processes, buffers, blocks and contents. *)
EXTENDS Bio, TLC

BioSymmetry ==
    Permutations(Proc) \cup Permutations(Buf) \cup Permutations(Blk) \cup Permutations(Val)
=============================================================================
