CONSTANTS
    Name = {1, 2, 3}
    Worlds <- MCWorlds
    MaxRefs = 2
    MaxEdges = 3
    MaxHidden = 1
    MaxOs = 1
    Modes = {"run", "tolerant", "diff", "get", "explain", "masked"}
SPECIFICATION FairSpec
INVARIANTS
    TypeOK
    OutcomeExact
    CacheExact
    CycleReal
    ReadNarrowly
    ChildConsistent
    AllOrNothing
    NeverClobbered
    AgreesWithRun
PROPERTY Terminates
CHECK_DEADLOCK FALSE
