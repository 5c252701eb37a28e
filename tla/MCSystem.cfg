SPECIFICATION MCSpec
CONSTANTS
    Commands = {c1, c2}
    Sessions = {s1}
    Workers = {w1, w2}
    Keys = {k1}
    Hashes = {h1, h2}
    NoId = NoId
    NoSession = NoSession
    NoCapsule = NoCapsule
    NoWorker = NoWorker
    NoTail = NoTail
    NoRow = NoRow
    FaultPoints <- AllFaults
    TornWrites = TRUE
    Stalls <- AnyStall
SYMMETRY Symmetry
INVARIANTS
    RepliesAgree
PROPERTIES
    ImplementsGateway
    CompleteIsFinal
CHECK_DEADLOCK FALSE
