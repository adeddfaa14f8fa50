\* Every region of three sets of instructions, whole and cut by both limits.
CONSTANTS
    Instructions <- AllInstructions
    Programs <- AllPrograms
    Limits <- TwoLimits
SPECIFICATION FairSpec
INVARIANTS
    TypeOK
    SweepClosed
    EdgesMatchFlow
    ReachableExact
    DominatorsExact
    ImmediateDominatorTree
    LoopHeadersLoop
    LabelsMatchTargets
PROPERTIES
    Termination
CHECK_DEADLOCK FALSE
