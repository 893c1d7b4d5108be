---------------------------- MODULE MCCheckpoints ---------------------------
(* Instances of Checkpoints for TLC. *)
EXTENDS Checkpoints

\* No constant names a particular id, datum or caller.
Symmetry == Permutations(ID) \cup Permutations(Data) \cup Permutations(Caller)
============================================================================
