----------------------------- MODULE CustomModules -----------------------------
(***************************************************************************)
(* KernelBuilder._add_modules: before the container starts, the user's     *)
(* modules are copied into drivers/misc of the tree and entered in its     *)
(* Makefile and Kconfig.                                                   *)
(*                                                                         *)
(* The tree is kept from session to session, while the modules change      *)
(* between them; and a session may end between any two of these steps.  A  *)
(* module's files are modelled by the option its Kconfig declares, which   *)
(* is all the code reads of them.                                          *)
(***************************************************************************)
EXTENDS Naturals, SequencesExt

CONSTANTS
    Mods,      \* directories custom_modules may hold
    Options,   \* options a module's Kconfig may declare
    Faults,    \* what may go wrong in this run
    MaxFaults  \* how often, in total

ModuleFaults ==
    { "cp"   \* `cp -fr` copies nothing
    , "cut"  \* Kconfig's new contents are not all written: disk full, or killed
    , "stop" \* the process ends
    }

\* What there is to read of a module: an option, or a Kconfig that declares
\* none, or no Kconfig.
Contents == Options \cup {"nothing", "missing"}

ASSUME ModulesAssumption ==
    /\ {"menu", "endmenu"} \cap Mods = {}
    /\ {"nothing", "missing"} \cap Options = {}
    /\ Faults \subseteq ModuleFaults
    /\ MaxFaults \in Nat

VARIABLES
    source,   \* the user's modules
    asked,    \* modules of this session: what custom_modules holds
    todo,     \* those of them that are still to be added
    cur,      \* the one that is being added
    pc,
    copied,   \* the modules in drivers/misc
    makefile, \* lines `obj-$(option) += module/` added to drivers/misc/Makefile
    kconfig,  \* drivers/misc/Kconfig; a module stands for the line that sources it
    lastline, \* what there is of its last line
    faults,
    lost,     \* ghost: modules of this session cp did not copy
    cut       \* ghost: a write of this tree's Kconfig was cut off

user == <<source, asked>>
kfile == <<kconfig, lastline, cut>>
tree == <<copied, makefile, kfile>>
vars == <<user, todo, cur, pc, tree, faults, lost>>

PristineKconfig == <<"menu", "endmenu">>

\* All of a line, all but its newline, or less.
Remains == {"whole", "open", "half"}

Values ==
    /\ source \in [Mods -> Contents]
    /\ asked \subseteq Mods /\ todo \subseteq asked /\ lost \subseteq asked
    /\ cur \in Mods
    /\ pc \in {"idle", "next", "read", "makefile", "kconfig", "build"}
    /\ copied \in [Mods -> Contents]
    /\ makefile \subseteq Options \X Mods
    /\ kconfig \in Seq(Mods \cup {"menu", "endmenu"})
    /\ lastline \in Remains /\ (kconfig = <<>> => lastline = "whole")
    /\ faults \in 0 .. MaxFaults
    /\ pc \in {"read", "makefile", "kconfig"} => cur \in todo
    /\ pc \in {"makefile", "kconfig"} => copied[cur] \in Options

TypeOK == Values /\ cut \in BOOLEAN

Init ==
    /\ source \in [Mods -> Contents]
    /\ asked = {} /\ todo = {} /\ cur \in Mods /\ lost = {}
    /\ pc = "idle"
    /\ copied = [m \in Mods |-> "missing"]
    /\ makefile = {}
    /\ kconfig = PristineKconfig /\ lastline = "whole"
    /\ cut = FALSE
    /\ faults = 0

-------------------------------------------------------------------------------
\* Helpers.

Fault(kind) == kind \in Faults /\ faults < MaxFaults /\ faults' = faults + 1

Exit == pc' = "idle" /\ UNCHANGED todo

\* insert(len(contents) - 1, line)
BugInserted(ls, m) == ls \o <<m>>
Inserted(ls, m) == IF ls = <<>> THEN <<m>> ELSE InsertAt(ls, Len(ls), m)

\* Where a line is, the last one only if it will do as it is.
LinesOf(ls, lastCounts, m) ==
    { i \in DOMAIN ls : ls[i] = m /\ (i = Len(ls) => lastCounts) }

-------------------------------------------------------------------------------
\* The session.

\* The kernel is to be built, in the tree the last session left.
Begin ==
    /\ pc = "idle"
    /\ asked' \in SUBSET Mods
    /\ todo' = asked' /\ lost' = {}
    /\ pc' = "next"
    /\ UNCHANGED <<source, cur, tree, faults>>

\* _add_multiple_mods, in the order of iterdir, or _add_single_mod.  A file
\* that is not in the module stays if it was in the copy.
Copy(m) ==
    /\ pc = "next" /\ m \in todo
    /\ cur' = m
    /\ pc' = "read"
    /\ \/ /\ copied' = IF source[m] = "missing" THEN copied
                       ELSE [copied EXCEPT ![m] = source[m]]
          /\ UNCHANGED <<lost, faults>>
       \/ Fault("cp") /\ lost' = lost \cup {m} /\ UNCHANGED copied
    /\ UNCHANGED <<user, todo, makefile, kfile>>

BugReadOption ==   \* a module without an option is added all the same
    /\ pc = "read"
    /\ pc' = "makefile"
    /\ UNCHANGED <<user, todo, cur, tree, faults, lost>>
\* Without a Kconfig it exits with -1, without an option with -2.
ReadOption ==
    /\ pc = "read"
    /\ IF copied[cur] \in Options THEN pc' = "makefile" /\ UNCHANGED todo ELSE Exit
    /\ UNCHANGED <<user, cur, tree, faults, lost>>

BugAddToMakefile ==   \* a module that has a line is not looked at again
    /\ pc = "makefile"
    /\ makefile' = IF \E o \in Options : <<o, cur>> \in makefile THEN makefile
                   ELSE makefile \cup {<<copied[cur], cur>>}
    /\ pc' = "kconfig"
    /\ UNCHANGED <<user, todo, cur, copied, kfile, faults, lost>>
AddToMakefile ==
    /\ pc = "makefile"
    /\ makefile' = makefile \cup {<<copied[cur], cur>>}
    /\ pc' = "kconfig"
    /\ UNCHANGED <<user, todo, cur, copied, kfile, faults, lost>>

\* The line with its newline is what is looked for.
BugSourced == FALSE
Sourced == LinesOf(kconfig, lastline = "whole", cur) # {}
AddToKconfig ==
    /\ pc = "kconfig"
    /\ kconfig' = IF Sourced THEN kconfig ELSE Inserted(kconfig, cur)
    /\ todo' = todo \ {cur}
    /\ pc' = "next"
    /\ UNCHANGED <<user, cur, copied, makefile, lastline, cut, faults, lost>>

\* write_text truncates the file first; what gets into it ends anywhere.
CutWrite ==
    /\ pc = "kconfig" /\ ~Sourced
    /\ Fault("cut")
    /\ \E n \in 0 .. Len(kconfig) + 1, rest \in Remains :
          /\ n = 0 => rest = "whole"
          /\ n = Len(kconfig) + 1 => rest = "half" \/ (rest = "open" /\ lastline # "half")
          /\ kconfig' = SubSeq(Inserted(kconfig, cur), 1, n)
          /\ lastline' = rest
    /\ cut' = TRUE
    /\ Exit
    /\ UNCHANGED <<user, cur, copied, makefile, lost>>

\* Container and build begin.
BugAdded == TRUE   \* the last module's failure is passed over
Added == todo = {}
Build ==
    /\ pc = "next" /\ Added
    /\ pc' = "build"
    /\ UNCHANGED <<user, todo, cur, tree, faults, lost>>

End ==
    /\ pc = "build"
    /\ Exit
    /\ UNCHANGED <<user, cur, tree, faults, lost>>

-------------------------------------------------------------------------------
\* From outside.

Stop ==
    /\ pc \notin {"idle", "build"}
    /\ Fault("stop")
    /\ Exit
    /\ UNCHANGED <<user, cur, tree, lost>>

\* The user works on a module.
Edit(m) ==
    /\ pc = "idle"
    /\ \E c \in Contents \ {source[m]} : source' = [source EXCEPT ![m] = c]
    /\ UNCHANGED <<asked, todo, cur, pc, tree, faults, lost>>

\* The tree is unpacked anew.
Unpack ==
    /\ pc = "idle"
    /\ copied' = [m \in Mods |-> "missing"]
    /\ makefile' = {}
    /\ kconfig' = PristineKconfig /\ lastline' = "whole"
    /\ cut' = FALSE
    /\ UNCHANGED <<user, todo, cur, pc, faults, lost>>

Next ==
    \/ Begin \/ ReadOption \/ AddToMakefile \/ AddToKconfig \/ CutWrite \/ Build \/ End
    \/ \E m \in Mods : Copy(m) \/ Edit(m)
    \/ Stop \/ Unpack

Spec == Init /\ [][Next]_vars

-------------------------------------------------------------------------------
\* Properties.

\* Lines Kconfig reads as m's: it does not miss a newline.
Sources(m) == LinesOf(kconfig, lastline # "half", m)

\* Whatever an interrupted session left half entered, and whatever was renamed
\* since: when the build begins, every module asked for is entered under the
\* option it has now (kernel_builder.py:142-169), and its Kconfig is read once.
\* Only one whose line is the last of a file that was cut off just before the
\* newline is not found there, entered again, and read twice (158).
AllAskedForIn ==
    pc = "build" => \A m \in asked :
        /\ Sources(m) # {}
        /\ Cardinality(Sources(m)) = 1 \/ (Last(kconfig) = m /\ lastline = "open")
        /\ m \notin lost => \E o \in Options : <<o, m>> \in makefile /\ source[m] \in {o, "missing"}

\* Over any number of sessions the modules stay inside the menu they were
\* entered in, unless a write of the file was cut off: nothing mends it then
\* (kernel_builder.py:156-160).
MenuIsClosed ==
    ~cut => kconfig[1] = "menu" /\ kconfig[Len(kconfig)] = "endmenu"
            /\ \A i \in 2 .. Len(kconfig) - 1 : kconfig[i] \in Mods

\* The promise.  A module is part of the tree when both files have it.
Registered == { m \in Mods : Sources(m) # {} /\ \E o \in Options : <<o, m>> \in makefile }
Registry == INSTANCE ModuleRegistry
    WITH registered <- Registered, building <- (pc = "build"), intact <- ~cut
KeepsRegistry == Registry!Spec
===============================================================================
