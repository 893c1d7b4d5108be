SPECIFICATION Spec
CONSTANTS
    QueryKey = {k1}
    ServerKey = {s1}
    Query = {q1, q2}
    Message = {"work", "panic", "text panic"}
    MaxActive = 2
    MaxDepth = 2
    MaxBudget = 1
    MaxActivations = 3
SYMMETRY Symmetry
INVARIANTS Consistent ActiveBound LineageUnique
PROPERTIES EndsOnce
