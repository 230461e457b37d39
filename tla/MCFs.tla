-------------------------------- MODULE MCFs --------------------------------
(* Fs on a small disk: the root holds the program "f", and the paths lead  *)
(* to it, to a new name, and into and out of a new directory.              *)
EXTENDS Fs

MCPrograms == <<[name |-> "f", size |-> 2]>>

Abs(elems) == [abs |-> TRUE, elems |-> elems]
Rel(elems) == [abs |-> FALSE, elems |-> elems]

MCPath == {Abs(<<>>), Rel(<<"f">>), Rel(<<"..", "a">>), Rel(<<"a", "f">>)}

FsSymmetry == Permutations(Proc \ {Initproc}) \cup Permutations(File)
=============================================================================
