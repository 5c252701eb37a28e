SPECIFICATION MCSpec
CONSTANTS
    Commands = {c1, c2}
    Sessions = {s1}
    Workers = {w1, w2}
    Keys = {k1}
    Hashes = {h1}
    NoId = NoId
    NoSession = NoSession
    NoCapsule = NoCapsule
    NoWorker = NoWorker
    NoTail = NoTail
    NoRow = NoRow
    FaultPoints <- LateFaults
    TornWrites = FALSE
    Stalls <- NoStalls
INVARIANT OneTransactionPerKey
