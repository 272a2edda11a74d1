---------------------------- MODULE KernelHandover ----------------------------
(***************************************************************************)
(* What stages 1 to 3 of start_kgdb.py promise to the stages behind them:  *)
(* while a session works on the kernel tree the kernel may be usable or    *)
(* not, but once stage 3 has returned there is a kernel that the debuggee  *)
(* can boot and the debugger can read symbols from, and it stays so until  *)
(* the session is over.                                                    *)
(***************************************************************************)
VARIABLES
    phase,   \* "off", "working" or "ready"
    usable   \* the boot image and vmlinux are both in the tree

avars == <<phase, usable>>

AInit == phase = "off" /\ usable \in BOOLEAN

Begin == phase = "off" /\ phase' = "working" /\ UNCHANGED usable

\* Builds, cleans and unpacking change the tree, never under a ready session.
Work == usable' \in BOOLEAN /\ (phase = "ready" => usable') /\ UNCHANGED phase

HandOver == phase = "working" /\ usable /\ phase' = "ready" /\ UNCHANGED usable

End == phase # "off" /\ phase' = "off" /\ UNCHANGED usable

ANext == Begin \/ Work \/ HandOver \/ End

ASpec == AInit /\ [][ANext]_avars
===============================================================================
