SPECIFICATION Spec
CONSTANTS
    Operators = {o1, o2}
    Assets = {a1, a2}
    Receipt = Receipt
SYMMETRY Symmetry
INVARIANTS
    PublicIsWhole
    RecordTruthful
