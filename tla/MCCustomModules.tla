---------------------------- MODULE MCCustomModules ----------------------------
(***************************************************************************)
(* An instance of CustomModules for TLC: two modules, whose Kconfig may    *)
(* declare either of two options.  Neither modules nor options are told    *)
(* apart by anything but their names, and what is checked is about steps   *)
(* and states only, so that one of each symmetric four is enough.          *)
(***************************************************************************)
EXTENDS CustomModules

CONSTANTS m1, m2, o1, o2

TwoMods == {m1, m2}
TwoOptions == {o1, o2}

Renamed == Permutations(TwoMods) \cup Permutations(TwoOptions)
================================================================================
