SPECIFICATION Spec
CONSTANTS
    Dirs = {d1, d2}
    Keys = d1
    Writers = {w1, w2}
    Signers = {s1}
INVARIANTS OneAccountPerDir
PROPERTIES KeysSurvive SignedAsRequired
SYMMETRY WriterSymmetry
\* Every command ends.
CHECK_DEADLOCK FALSE
