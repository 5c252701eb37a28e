SPECIFICATION Spec
CONSTANTS
    a = a
    b = b
    c = c
    Workers = {w1, w2}
    Docs = {d1, d2}
    Texts <- ThreeTexts
    Shards = {s1}
    Callers <- Anyone
    MaxOrdinal = 2
    MaxEvents = 3
SYMMETRY Symmetry
INVARIANTS
    TypeOK
    HalfOnlyIfRepeated
    AuditChain
    CurrentIsNewest
PROPERTIES
    HistoryKept
CHECK_DEADLOCK FALSE
