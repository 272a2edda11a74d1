---------------------------- MODULE CustomModulesInv ----------------------------
(***************************************************************************)
(* What is true between any two steps of CustomModules and makes its       *)
(* safety properties inductive.                                            *)
(***************************************************************************)
EXTENDS CustomModules

\* What is done with is in both files; a module has its line in the Makefile
\* before Kconfig is read.
DoneIsIn ==
    /\ pc # "idle" => asked \ todo \subseteq Registered
    /\ pc = "kconfig" => \E o \in Options : <<o, cur>> \in makefile
    /\ pc = "build" => todo = {}

\* The file is the menu around the modules.
Menu ==
    ~cut => /\ Len(kconfig) >= 2
            /\ kconfig[1] = "menu" /\ kconfig[Len(kconfig)] = "endmenu"
            /\ \A i \in 2 .. Len(kconfig) - 1 : kconfig[i] \in Mods

\* No module has two lines with their newlines.
OnceIn(ls, lastCounts) ==
    \A m \in Mods : \A i, j \in LinesOf(ls, lastCounts, m) : i = j
Once == OnceIn(kconfig, lastline = "whole")

\* A module that is done with has its line under the option it has now; the
\* one that is being added, in the copy or already in the Makefile.
Entered(m) == \E o \in Options : <<o, m>> \in makefile /\ source[m] \in {o, "missing"}
UnderItsOption ==
    /\ pc # "idle" => \A m \in asked \ todo : m \in lost \/ Entered(m)
    /\ pc \in {"read", "makefile"} => cur \in lost \/ source[cur] \in {copied[cur], "missing"}
    /\ pc = "kconfig" => cur \in lost \/ Entered(cur)

IInv == TypeOK /\ DoneIsIn /\ Menu /\ Once /\ UnderItsOption
=================================================================================
