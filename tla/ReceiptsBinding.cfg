SPECIFICATION Spec
CONSTANTS
    ReceiptID = {r1, r2}
    Form = {"map", "struct"}
    Faults = {}
SYMMETRY Symmetry
INVARIANT Verifies
