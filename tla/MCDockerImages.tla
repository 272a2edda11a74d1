---------------------------- MODULE MCDockerImages ----------------------------
(***************************************************************************)
(* Instances of DockerImages for TLC: two contents of gdb_script, between  *)
(* which the user can go back and forth, and two key pairs.                *)
(***************************************************************************)
EXTENDS DockerImages

CONSTANTS s1, s2

TwoScripts == {s1, s2}
===============================================================================
