SPECIFICATION Spec
CONSTANTS
    a = a
    b = b
    c = c
    Workers = {w1, w2}
    Docs = {d1}
    Texts <- ThreeTexts
    Shards = {s1}
    Callers <- UnderTheLock
    MaxOrdinal = 2
    MaxEvents = 2
SYMMETRY Symmetry
INVARIANTS
    RevisionsWhole
CHECK_DEADLOCK FALSE
