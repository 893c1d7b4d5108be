------------------------------ MODULE MCTasks -------------------------------
EXTENDS Tasks, TLC

\* Handlers, and ids of one sort, are interchangeable.
Symmetry ==
    Permutations(Handler) \cup Permutations(NamedID) \cup Permutations(RandomID)

=============================================================================
