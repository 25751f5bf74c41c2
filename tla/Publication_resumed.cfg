SPECIFICATION Spec
CONSTANTS
    Operators = {o1}
    Assets = {a1, a2}
    Receipt = Receipt
PROPERTIES
    BlockedByMismatchOnly
