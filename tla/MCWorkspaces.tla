----------------------------- MODULE MCWorkspaces ---------------------------
\* Instances of Workspaces for TLC.
EXTENDS Workspaces, TLC

CONSTANTS other, inner     \* two paths, inner in the directory other

MCBelow == {<<inner, other>>}
MCApart == {}

Symmetry == Permutations(Handler) \cup Permutations(Body)
              \cup Permutations(Blob)
============================================================================
