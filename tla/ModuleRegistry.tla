----------------------------- MODULE ModuleRegistry -----------------------------
(***************************************************************************)
(* What KernelBuilder promises of the user's modules (examples/c_kmod): a  *)
(* kernel is built only when every module asked for is part of its tree.   *)
(* A module gets there because it was asked for, and stays until the tree  *)
(* is unpacked anew or a write of its Kconfig is cut off.                  *)
(***************************************************************************)
CONSTANT Mods

VARIABLES
    asked,      \* modules of the current session
    registered, \* modules the kernel's build would find
    building,
    intact      \* no write of this tree was cut off

vars == <<asked, registered, building, intact>>

Init == asked = {} /\ registered = {} /\ building = FALSE /\ intact = TRUE

Ask ==
    /\ ~building
    /\ asked' \in SUBSET Mods
    /\ UNCHANGED <<registered, building, intact>>

Register(m) ==
    /\ ~building /\ m \in asked
    /\ registered' = registered \cup {m}
    /\ UNCHANGED <<asked, building, intact>>

\* A write that is cut off may have brought one in and lost others.
Cut ==
    /\ ~building
    /\ intact' = FALSE
    /\ registered' \in SUBSET (registered \cup asked)
    /\ UNCHANGED <<asked, building>>

Unpack ==
    /\ ~building
    /\ registered' = {} /\ intact' = TRUE
    /\ UNCHANGED <<asked, building>>

Build ==
    /\ ~building /\ asked \subseteq registered
    /\ building' = TRUE
    /\ UNCHANGED <<asked, registered, intact>>

End ==
    /\ building
    /\ building' = FALSE
    /\ UNCHANGED <<asked, registered, intact>>

Next == Ask \/ (\E m \in Mods : Register(m)) \/ Cut \/ Unpack \/ Build \/ End

Spec == Init /\ [][Next]_vars
=================================================================================
