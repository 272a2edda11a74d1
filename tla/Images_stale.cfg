CONSTANTS
    s1 = s1
    s2 = s2
    Scripts <- TwoScripts
    Forced = {}
    MaxKeys = 1
    Faults = {"stop"}
    MaxFaults = 1
SPECIFICATION Spec
INVARIANT ScriptIsCurrent
