SPECIFICATION FairSpec
CONSTANTS
    Commands = {c1, c2}
    Sessions = {s1, s2}
    Workers = {w1, w2}
    NoId = NoId
    NoSession = NoSession
    NoCapsule = NoCapsule
    NoWorker = NoWorker
    NoTail = NoTail
    FaultPoints <- PreCommitFaults
    TornWrites = TRUE
INVARIANTS
    IInv
    CommitChain
    CommitClosesAlone
    AnsweredTruthfully
    AnsweredMeansClosed
    TurnsFaithful
    LiveStateMatches
PROPERTIES
    AuthorityAdvances
    ImplementsLedger
    DispatchAnswered
    LockReleased
