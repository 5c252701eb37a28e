SPECIFICATION Spec
CONSTANTS
    Commands = {c1}
    Sessions = {s1}
    Workers = {w1}
    NoId = NoId
    NoSession = NoSession
    NoCapsule = NoCapsule
    NoWorker = NoWorker
    NoTail = NoTail
    FaultPoints <- PreCommitFaults
    TornWrites = TRUE
INVARIANT RebootCanRead
