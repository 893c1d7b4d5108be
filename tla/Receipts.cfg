SPECIFICATION Spec
CONSTANTS
    ReceiptID = {r1, r2, r3, r4}
    Form = {"map", "struct"}
    Faults = {"error", "kill"}
SYMMETRY Symmetry
INVARIANTS ChainSound GivenKept
