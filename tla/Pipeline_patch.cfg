CONSTANTS
    good = good
    bad = bad
    Patches <- TwoPatches
    BadPatches <- OneBad
    Confs <- OneMode
    Arch = "x86_64"
    SkipPrompts = TRUE
    Faults <- FaultKinds
    MaxFaults = 0
SPECIFICATION Spec
INVARIANT FailingPatchStops
