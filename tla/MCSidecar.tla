----------------------------- MODULE MCSidecar -----------------------------
(* Instances of Sidecar for TLC. *)
EXTENDS Sidecar, TLC

\* Ids and bodies are interchangeable; no constant names one of them.
Symmetry == Permutations(ID) \cup Permutations(Body)
============================================================================
