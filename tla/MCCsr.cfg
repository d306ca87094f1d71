CONSTANTS
    Pcs <- AllPcs
    Succ <- Plus4
    ResetPc = {}
    Ops <- Programs
    Faults = {"misaligned"}
SPECIFICATION Spec
INVARIANT CsrTypeOK
PROPERTY Architectural
