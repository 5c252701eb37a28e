SPECIFICATION Spec
CONSTANTS
    Commands = {c1, c2}
    Sessions = {s1}
    Workers = {w1}
    NoId = NoId
    NoSession = NoSession
    NoCapsule = NoCapsule
    NoWorker = NoWorker
    NoTail = NoTail
    FaultPoints <- AllFaults
    TornWrites = FALSE
INVARIANT TurnsFaithful
