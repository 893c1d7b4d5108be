------------------------------ MODULE MCActors ------------------------------
EXTENDS Actors, TLC

\* The keys of queries, and the queries, are interchangeable: no action tells two of them apart.
Symmetry == Permutations(QueryKey) \cup Permutations(Query)

=============================================================================
