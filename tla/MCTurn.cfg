CONSTANTS
    Plugins <- AllPlugins
    TaskClasses <- MCTaskClasses
    Files <- MCFiles
    MaxDown = 2
SPECIFICATION Spec
INVARIANTS TypeOK FailClosed RecordedTurnIsWhole RejectionsTruthful PlanIsTheTurn DependenciesFirst CycleIsReal
