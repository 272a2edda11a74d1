CONSTANTS
    Faults = {"sigint", "sigkill", "kill", "build", "die", "extract", "update"}
    MaxFaults = 2
SPECIFICATION FairSpec
INVARIANTS TypeOK BootsWhole NoFaultBootsWhole KillIsComplete AttachesToOwn
PROPERTIES EveryRunEnds KillClears
