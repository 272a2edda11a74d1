CONSTANTS
    good = good
    bad = bad
    Patches <- TwoPatches
    BadPatches <- OneBad
    Confs <- FourConfs
    Arch = "arm64"
    SkipPrompts = FALSE
    Faults <- FaultKinds
    MaxFaults = 3
SPECIFICATION UserSpec
INVARIANTS TypeOK SoleBuilder BuiltKernelIsComplete AllGoodPatchesIn CleanTreeAtMake
PROPERTIES TreeIsKept OnlyWaitHangs Recovery
