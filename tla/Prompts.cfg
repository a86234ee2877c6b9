SPECIFICATION Spec
CONSTANTS
    Calls = {c1, c2, c3}
    Tags = {access, math}
    Old = old
    None = none
    First <- MCFirst
SYMMETRY Symmetry
INVARIANTS
    TypeOK
    OneActiveByRelease
    EditsStand
PROPERTIES
    NoTagGoesDark
CHECK_DEADLOCK FALSE
