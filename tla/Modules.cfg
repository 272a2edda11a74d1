CONSTANTS
    m1 = m1
    m2 = m2
    o1 = o1
    o2 = o2
    Mods <- TwoMods
    Options <- TwoOptions
    Faults = {"cp", "cut", "stop"}
    MaxFaults = 2
SPECIFICATION Spec
INVARIANTS TypeOK AllAskedForIn MenuIsClosed
PROPERTY KeepsRegistry
SYMMETRY Renamed
