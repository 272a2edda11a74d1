CONSTANTS
    s1 = s1
    s2 = s2
    Scripts <- TwoScripts
    Forced = {"debuggee"}
    MaxKeys = 2
    Faults = {"build", "stop", "keyloss", "edit"}
    MaxFaults = 2
SPECIFICATION UserSpec
INVARIANTS TypeOK ScriptFollowsEdits AllCanRun BuildsWhatItReports
PROPERTY LogInRepaired
