CONSTANTS
    Name = {1, 2}
    Worlds <- MCWorlds
    MaxRefs = 1
    MaxEdges = 1
    MaxHidden = 1
    MaxOs = 0
    Modes = {"masked"}
SPECIFICATION Spec
INVARIANT StatusMeaningful
CHECK_DEADLOCK FALSE
