--------------------------- MODULE MCKernelPipeline ---------------------------
(***************************************************************************)
(* Instances of KernelPipeline for TLC: two patches, one of which does not *)
(* apply, what user.ini may say, and the sets of faults to choose from.    *)
(***************************************************************************)
EXTENDS KernelPipelineInv

CONSTANTS good, bad

TwoPatches == {good, bad}
OneBad == {bad}

Generic == [mode |-> "generic", dotted |-> FALSE, args |-> TRUE]
ReadyMade == [mode |-> "config", dotted |-> FALSE, args |-> TRUE]
WithSuffix == [ReadyMade EXCEPT !.dotted = TRUE]   \* my.config
NoExtras == [ReadyMade EXCEPT !.args = FALSE]      \* extra_args as shipped

OneMode == {Generic}
FourConfs == {Generic, ReadyMade, WithSuffix, NoExtras}

\* Faults that cannot stop a build between two of its files.
OutsideTheBuild == {"net", "disk", "purge", "docker"}
===============================================================================
