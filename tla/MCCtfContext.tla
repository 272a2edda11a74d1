----------------------------- MODULE MCCtfContext -----------------------------
(***************************************************************************)
(* An instance of CtfContext for TLC: two challenges with a vmlinux to be  *)
(* found and one without.                                                  *)
(***************************************************************************)
EXTENDS CtfContext

CONSTANTS k1, k2, k3

ThreeKernels == {k1, k2, k3}
TwoKernels == {k1, k2}
===============================================================================
