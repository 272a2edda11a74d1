CONSTANTS
    good = good
    bad = bad
    Patches <- TwoPatches
    BadPatches <- OneBad
    Confs <- FourConfs
    Arch = "x86_64"
    SkipPrompts = FALSE
    Faults <- OutsideTheBuild
    MaxFaults = 2
SPECIFICATION Spec
INVARIANT NoFaultNoFailure
PROPERTY HandsOver
