---------------------------- MODULE MCAuthority ----------------------------
(* Instances of Authority and Checkpoints for TLC. *)
EXTENDS Authority, TLC

\* No constant names a particular id, datum or caller.
Symmetry == Permutations(ID) \cup Permutations(Data) \cup Permutations(Caller)
============================================================================
