SPECIFICATION Spec
CONSTANTS
    Workers = {w1, w2}
    Signatures = {g1, g2}
    CommitmentKeys = {1, 2}
    KeyLists <- MCKeyLists
    Capacity = 2
    MicroWindow = 2
    MesoWindow = 1
    Reinforcement = 2
    MaxTurn = 7
SYMMETRY Symmetry
INVARIANTS
    TypeOK
    RestartKeepsMemories
    TurnsRemembered
    PatternsOnce
    MesoSlides
PROPERTIES
    LinksBeforeForgotten
