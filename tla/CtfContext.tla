------------------------------- MODULE CtfContext -------------------------------
(***************************************************************************)
(* A run with --ctf: the challenge's kernel is copied to a directory of    *)
(* the session's own, QEMU boots the copy, and GDB needs the vmlinux that  *)
(* is inside it.  extract-vmlinux.sh gets it out and writes it to ctf_dir, *)
(* where it stays.  A vmlinux that is there is not extracted again; where  *)
(* none can be found GDB is started all the same.                          *)
(*                                                                         *)
(* The user works with the challenge's files while a session runs, and     *)
(* goes on to other challenges.  Sessions come one after the other, each   *)
(* with a debuggee of its own (see Session).                               *)
(***************************************************************************)
EXTENDS Naturals

CONSTANTS
    Kernels,     \* kernel images of challenges
    Compressed   \* those with a vmlinux to be found

Absent == "absent"

ASSUME CtfAssumption == Compressed \subseteq Kernels /\ Absent \notin Kernels

VARIABLES
    file,     \* the image --ctf names
    copy,     \* the one in /tmp/like_<uuid> of this session
    vmlinux,  \* the file in ctf_dir: whose it is, and how much of it
    pc,
    booted,   \* the kernel that runs
    loaded,   \* the vmlinux GDB was started with
    own       \* ghost, the session's own extraction: not done, complete or failed

vars == <<file, copy, vmlinux, pc, booted, loaded, own>>

NoVmlinux == [of |-> Absent, size |-> "none"]
Vmlinuxes == [of : Compressed, size : {"empty", "part", "whole"}] \cup {NoVmlinux}
NotStarted == [of |-> Absent, size |-> "unstarted"]   \* no GDB yet

TypeOK ==
    /\ {file, copy, booted} \subseteq Kernels \cup {Absent}
    /\ vmlinux \in Vmlinuxes
    /\ loaded \in Vmlinuxes \cup {NotStarted}
    /\ pc \in {"idle", "copy", "boot", "check", "extract", "write", "gdb"}
    /\ own \in {"none", "complete", "failed"}
    /\ pc = "write" => vmlinux.of = copy
    /\ pc \in {"check", "extract", "write", "gdb"} => booted = copy /\ copy # Absent

Init ==
    /\ file \in Kernels
    /\ copy = Absent /\ booted = Absent
    /\ vmlinux = NoVmlinux /\ loaded = NotStarted
    /\ pc = "idle" /\ own = "none"

-------------------------------------------------------------------------------
\* A session.

Goto(step) == pc' = step

\* set_ctf_ctx looks whether the image exists; else it exits with -1.
Begin ==
    /\ pc = "idle" /\ file # Absent
    /\ Goto("copy")
    /\ copy' = Absent /\ booted' = Absent
    /\ loaded' = NotStarted /\ own' = "none"
    /\ UNCHANGED <<file, vmlinux>>

\* _setup_ctf_args; an image that is gone by now is an exception.
Copy ==
    /\ pc = "copy"
    /\ copy' = file
    /\ Goto(IF file = Absent THEN "idle" ELSE "boot")
    /\ UNCHANGED <<file, vmlinux, booted, loaded, own>>

\* stage5: QEMU has the copy under /io; or it does not come up, as from an image
\* with nothing in it.
BugBoot ==   \* the image --ctf names, no copy
    /\ pc = "boot"
    /\ booted' = file /\ Goto("check")
    /\ UNCHANGED <<file, copy, vmlinux, loaded, own>>
Boot ==
    /\ pc = "boot"
    /\ \/ booted' = copy /\ Goto("check")
       \/ Goto("idle") /\ UNCHANGED booted
    /\ UNCHANGED <<file, copy, vmlinux, loaded, own>>

\* _set_ctf_ctx: `file` knows an ELF file by its first bytes.
BugIsElf == vmlinux.size # "none"   \* exists() only
IsElf == vmlinux.size \in {"part", "whole"}
SetCtfCtx ==
    /\ pc = "check"
    /\ Goto(IF IsElf THEN "gdb" ELSE "extract")
    /\ UNCHANGED <<file, copy, vmlinux, booted, loaded, own>>

\* What extract-vmlinux.sh is given.
BugSource == file   \* the image --ctf names
Source == copy

\* The output is only opened when there is something to write.  Where no vmlinux
\* is found the script ends with a message, so its status is 0 and GDB comes next.
Extract ==
    /\ pc = "extract"
    /\ IF Source \in Compressed
         THEN vmlinux' = [of |-> Source, size |-> "empty"] /\ Goto("write")
         ELSE Goto("gdb") /\ UNCHANGED vmlinux
    /\ UNCHANGED <<file, copy, booted, loaded, own>>

\* `cat` fills it.
WritePart ==
    /\ pc = "write" /\ vmlinux.size = "empty"
    /\ vmlinux' = [vmlinux EXCEPT !.size = "part"]
    /\ UNCHANGED <<file, copy, pc, booted, loaded, own>>

WriteRest ==
    /\ pc = "write" /\ vmlinux.size = "part"
    /\ vmlinux' = [vmlinux EXCEPT !.size = "whole"]
    /\ own' = "complete"
    /\ Goto("gdb")
    /\ UNCHANGED <<file, copy, booted, loaded>>

\* No space is left: the script exits with 0 even so.
WriteFails ==
    /\ pc = "write"
    /\ own' = "failed"
    /\ Goto("gdb")
    /\ UNCHANGED <<file, copy, vmlinux, booted, loaded>>

\* Debugger.run: the debugger's container finds it under /io.
Debug ==
    /\ pc = "gdb"
    /\ loaded' = vmlinux
    /\ Goto("idle")
    /\ UNCHANGED <<file, copy, vmlinux, booted, own>>

\* CTRL+C, which the script gets as well.
Interrupt ==
    /\ pc # "idle"
    /\ Goto("idle")
    /\ UNCHANGED <<file, copy, vmlinux, booted, loaded, own>>

-------------------------------------------------------------------------------
\* The user.

Replace ==
    /\ file' \in (Kernels \cup {Absent}) \ {file}
    /\ UNCHANGED <<copy, vmlinux, pc, booted, loaded, own>>

RemoveVmlinux ==
    /\ pc = "idle" /\ vmlinux # NoVmlinux
    /\ vmlinux' = NoVmlinux
    /\ UNCHANGED <<file, copy, pc, booted, loaded, own>>

Next ==
    \/ Begin \/ Copy \/ Boot \/ SetCtfCtx \/ Extract \/ WritePart \/ WriteRest
    \/ WriteFails \/ Debug \/ Interrupt \/ Replace \/ RemoveVmlinux

Spec == Init /\ [][Next]_vars

-------------------------------------------------------------------------------
\* Properties.

\* What a session extracts is the vmlinux of the kernel that runs, and all of
\* it, whatever happens to the challenge's files meanwhile
\* (start_kgdb.py:180-199, debugger.py:38-58).
OwnSymbolsMatch ==
    own = "complete" /\ loaded # NotStarted => loaded = [of |-> booted, size |-> "whole"]

\* GDB is left without symbols only by a kernel with no vmlinux to be found or by
\* a full disk, never by what an interrupted session left behind: an empty file is
\* no ELF file and is written again (debugger.py:39-64, extract-vmlinux.sh:13-19).
SymbolsIfAny ==
    loaded.size \in {"none", "empty"} => booted \notin Compressed \/ own = "failed"

\* README.md:138-139 "If you want to try a CTF challenge where you were given a
\* (compressed) Linux Image and a root filesystem": GDB gets the vmlinux of that
\* image.  In the code one that is there is used, whose ever it is.
SymbolsMatch == loaded.size \in {"part", "whole"} => loaded.of = booted
================================================================================
