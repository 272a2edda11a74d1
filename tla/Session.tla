-------------------------------- MODULE Session --------------------------------
(***************************************************************************)
(* Stages 4 to 6 of a session and its end: the root file system is built   *)
(* in one container, QEMU runs in a second (the debuggee), GDB in a third  *)
(* (the debugger), and kill_session, for -k and for CTRL+C, stops them.    *)
(*                                                                         *)
(* The process has only the first under its hands.  The other two are      *)
(* commands typed into tmux panes, which the panes' shells execute in      *)
(* their own time; the process then asks the daemon for a container by     *)
(* name.  Containers, typed commands and the file system image outlive the *)
(* process: what a session finds may be an earlier one's ("old").  Images  *)
(* are taken to be there (see DockerImages), and so is a kernel            *)
(* (KernelPipeline).                                                       *)
(***************************************************************************)
EXTENDS Naturals

CONSTANTS
    Faults,    \* what may go wrong in this run
    MaxFaults  \* how often, in total

SessionFaults ==
    { "sigint"  \* CTRL+C
    , "sigkill" \* the process ends without running its handlers
    , "kill"    \* -k in another terminal, beside the session
    , "build"   \* rootfs.sh fails, or its container stops
    , "die"     \* QEMU ends while the session is starting
    , "extract" \* a CTF run's copy of the image, or ctf_dir, is gone by stage 6
    , "update"  \* -u 4 while the debuggee runs
    }

ASSUME SessionAssumption ==
    /\ Faults \subseteq SessionFaults
    /\ MaxFaults \in Nat

VARIABLES
    pc,      \* where the process is; "idle" when there is none
    ctf,     \* --ctf: the image is the challenge's
    fs,      \* the file system image in io/
    mnt,     \* io/rootfs: absent, being filled by one builder, full or not
    box,     \* step of rootfs.sh in this session's builder and in an old one
    typed,   \* `docker run` commands for the debuggee no shell has executed
    vm,      \* the container named like_debuggee
    booted,  \* the image it started on, if this session's command started it
    tagged,  \* its image has (still) the tag like_debuggee
    found,   \* the container the process looked up
    typedG,  \* the same as typed, for the debugger
    gdb,     \* a debugger's container is attached to vm
    kill,    \* where kill_session is
    listed,  \* containers it has still to stop
    faults,
    alone,   \* ghost: the session builds a file system, and nothing disturbed it
    clear    \* ghost: the last kill_session was not interfered with ("killed"), and
             \* the one session since then is still the last ("fresh")

files == <<fs, mnt>>
debuggee == <<typed, vm, booted, tagged>>
debugger == <<typedG, gdb>>
killing == <<kill, listed>>
vars == <<pc, ctf, files, box, debuggee, found, debugger, killing, faults, alone, clear>>

Who == {"own", "old"}
BuildSteps == {"debootstrap", "dd", "mkfs", "copy"}

Values ==
    /\ pc \in {"idle", "fs", "logs", "infer", "lookup", "health", "debugger", "killed"}
    /\ fs \in {"absent", "zero", "hollow", "full"}
    /\ mnt \in {"absent", "partial", "full"} \cup Who
    /\ box \in [Who -> BuildSteps \cup {"none"}]
    /\ typed \subseteq Who /\ typedG \subseteq Who
    /\ vm \in {"none", "starting", "up"}
    /\ booted \in {"none", "ctf", "absent", "zero", "hollow", "full"}
    /\ found \in {"none", "it", "gone"}
    /\ kill \in {"no", "list", "stop", "panes"}
    /\ listed \subseteq {"own", "old", "gdb", "vm", "gone"}
    /\ faults \in 0 .. MaxFaults
    /\ clear \in {"no", "killed", "fresh"}

Flags == ctf \in BOOLEAN /\ tagged \in BOOLEAN /\ gdb \in BOOLEAN /\ alone \in BOOLEAN

\* GDB, in the debuggee's PID namespace, goes with it.
Attached == vm = "none" => ~gdb /\ booted = "none" /\ tagged

TypeOK == Values /\ Flags /\ Attached

Init ==
    /\ pc = "idle" /\ ctf = FALSE
    /\ fs = "absent" /\ mnt = "absent"
    /\ box = [w \in Who |-> "none"]
    /\ typed = {} /\ vm = "none" /\ booted = "none" /\ tagged = TRUE
    /\ found = "none"
    /\ typedG = {} /\ gdb = FALSE
    /\ kill = "no" /\ listed = {}
    /\ faults = 0
    /\ alone = FALSE /\ clear = "no"

-------------------------------------------------------------------------------
\* Helpers.

Fault(kind) == kind \in Faults /\ faults < MaxFaults /\ faults' = faults + 1

\* What was looked up is forgotten with the process.
Exit ==
    /\ pc' = "idle"
    /\ found' = "none"

\* A container ends.  A kill_session that has listed it will stop one that is
\* gone; a session that has looked it up will not find it again.
Ended(cs) ==
    listed' = IF listed \cap cs = {} THEN listed ELSE (listed \ cs) \cup {"gone"}

BugVmGone ==   \* GDB in a PID namespace of its own
    /\ vm' = "none" /\ booted' = "none" /\ tagged' = TRUE
    /\ found' = IF found = "it" THEN "gone" ELSE found
    /\ UNCHANGED <<typed, typedG, gdb>>
\* With the debuggee go the processes in its PID namespace, GDB among them.
VmGone ==
    /\ vm' = "none" /\ booted' = "none" /\ tagged' = TRUE
    /\ gdb' = FALSE
    /\ found' = IF found = "it" THEN "gone" ELSE found
    /\ UNCHANGED <<typed, typedG>>

-------------------------------------------------------------------------------
\* The process.

Age(ws) == IF ws = {} THEN {} ELSE {"old"}

\* What tells a partial run from a whole one is decided where it ends.  One
\* abandoned builder at a time is enough to disturb.
Begin ==
    /\ pc = "idle" /\ kill = "no"
    /\ "none" \in {box["own"], box["old"]}
    /\ ctf' \in BOOLEAN
    /\ pc' = IF ctf' THEN "infer" ELSE "fs"
    /\ box' = [w \in Who |-> IF w = "own" THEN "none"
                            ELSE IF box["own"] # "none" THEN box["own"] ELSE box["old"]]
    /\ mnt' = IF mnt = "own" THEN "old" ELSE mnt
    /\ booted' = "none"
    /\ typed' = Age(typed) /\ typedG' = Age(typedG)
    /\ alone' = FALSE
    /\ clear' = IF clear = "killed" THEN "fresh" ELSE "no"
    /\ UNCHANGED <<fs, vm, tagged, found, gdb, killing, faults>>

\* RootFSBuilder.run: an image that exists is re-used if the user says so, or
\* rebuilt; -p 4 always rebuilds.  force_rebuild and -y fix the answer.
Reuse ==
    /\ pc = "fs" /\ fs # "absent"
    /\ pc' = "infer"
    /\ UNCHANGED <<ctf, files, box, debuggee, found, debugger, killing, faults, alone, clear>>

\* The first thing its script does is to empty io/rootfs.
StartBuilder ==
    /\ pc = "fs"
    /\ pc' = "logs"
    /\ box' = [box EXCEPT !["own"] = "debootstrap"]
    /\ mnt' = "own"
    /\ alone' = (box["old"] = "none")
    /\ UNCHANGED <<ctf, fs, debuggee, found, debugger, killing, faults, clear>>

\* The log ends with the container, however that ended.
BugLogs == TRUE   \* without follow=True
Logs == box["own"] = "none"
LogsEnd ==
    /\ pc = "logs" /\ Logs
    /\ \/ pc' = "infer" /\ UNCHANGED found
       \/ Exit                               \* -p 4
    /\ UNCHANGED <<ctf, files, box, debuggee, debugger, killing, faults, alone, clear>>

\* infer_qemu_fs_mount asks `file` for the type: it knows nothing of a file
\* that is missing or all zero, and cannot see that one was not filled.
Infer ==
    /\ pc = "infer"
    /\ IF ctf \/ fs \in {"hollow", "full"}
         THEN /\ typed' = typed \cup {"own"}
              /\ pc' = "lookup"
              /\ UNCHANGED found
         ELSE Exit /\ UNCHANGED typed
    /\ UNCHANGED <<ctf, files, box, vm, booted, tagged, debugger, killing, faults, alone, clear>>

\* One second later, whoever has the name; without one, NotFound is raised.
Lookup ==
    /\ pc = "lookup"
    /\ IF vm = "none" THEN Exit ELSE pc' = "health" /\ found' = "it"
    /\ UNCHANGED <<ctf, files, box, debuggee, debugger, killing, faults, alone, clear>>

\* The container is run with --rm: inspecting it after its end raises.
BugVanished == FALSE
Vanished == found = "gone"
Health ==
    /\ pc = "health"
    /\ \/ Vanished /\ Exit
       \/ found = "it" /\ vm = "up" /\ pc' = "debugger" /\ UNCHANGED found
       \/ found = "it" /\ vm = "up" /\ Exit  \* -p 5
    /\ UNCHANGED <<ctf, files, box, debuggee, debugger, killing, faults, alone, clear>>

\* The process ends when it has typed the debugger's command.
Debugger ==
    /\ pc = "debugger"
    /\ Exit
    /\ \/ typedG' = typedG \cup {"own"} /\ UNCHANGED faults
       \/ ctf /\ Fault("extract") /\ UNCHANGED typedG
    /\ UNCHANGED <<ctf, files, box, debuggee, gdb, killing, alone, clear>>

Process == Reuse \/ StartBuilder \/ LogsEnd \/ Infer \/ Lookup \/ Health \/ Debugger

-------------------------------------------------------------------------------
\* rootfs.sh, under `set -e`.  Two builders share io/rootfs and the image.

Other(w) == IF w = "own" THEN "old" ELSE "own"
After(s) == CASE s = "debootstrap" -> "dd" [] s = "dd" -> "mkfs"
              [] s = "mkfs" -> "copy" [] s = "copy" -> "none"

BuildStep(w) ==
    LET s == box[w] IN
    /\ s # "none"
    /\ box' = [box EXCEPT ![w] = After(s)]
    /\ CASE s = "debootstrap" -> mnt' \in IF mnt = w THEN {"full"} ELSE {"partial", "full"}
         [] s = "copy"        -> mnt' = "absent"
         [] OTHER             -> UNCHANGED mnt
    \* dd keeps what is before the block it writes
    /\ CASE s = "dd"   -> fs' = IF fs = "absent" THEN "zero" ELSE fs
         [] s = "mkfs" -> fs' = "hollow"
         [] s = "copy" -> fs' \in IF mnt # "full" THEN {"hollow"}
                                  ELSE IF box[Other(w)] = "none" THEN {"full"}
                                  ELSE {"hollow", "full"}
         [] OTHER      -> UNCHANGED fs
    /\ IF s = "copy" THEN Ended({w}) ELSE UNCHANGED listed
    /\ UNCHANGED <<pc, ctf, debuggee, found, debugger, kill, faults, alone, clear>>

BoxGone(w) ==
    /\ box' = [box EXCEPT ![w] = "none"]
    /\ mnt' = IF mnt = w THEN "partial" ELSE mnt
    /\ alone' = (alone /\ w # "own")

BuildFails(w) ==
    /\ box[w] # "none"
    /\ Fault("build")
    /\ BoxGone(w)
    /\ Ended({w})
    /\ UNCHANGED <<pc, ctf, fs, debuggee, found, debugger, kill, clear>>

-------------------------------------------------------------------------------
\* The panes' shells and what they start.

\* The name is taken while a debuggee runs.
ShellRunsDebuggee(w) ==
    /\ w \in typed
    /\ typed' = typed \ {w}
    /\ IF vm = "none"
         THEN /\ vm' = "starting"
              /\ booted' = IF w = "old" THEN "none" ELSE IF ctf THEN "ctf" ELSE fs
         ELSE UNCHANGED <<vm, booted>>
    /\ clear' = IF kill = "no" THEN clear ELSE "no"
    /\ UNCHANGED <<pc, ctf, files, box, tagged, found, debugger, killing, faults, alone>>

VmUp ==
    /\ vm = "starting"
    /\ vm' = "up"
    /\ UNCHANGED <<pc, ctf, files, box, typed, booted, tagged, found, debugger,
                   killing, faults, alone, clear>>

\* QEMU ends: the user quits it, or it cannot start.
VmDies ==
    /\ vm # "none"
    /\ IF pc = "idle" THEN UNCHANGED faults ELSE Fault("die")
    /\ VmGone
    /\ Ended(IF gdb THEN {"vm", "gdb"} ELSE {"vm"})
    /\ UNCHANGED <<pc, ctf, files, box, kill, alone, clear>>

\* --pid=container:like_debuggee
ShellRunsDebugger(w) ==
    /\ w \in typedG
    /\ typedG' = typedG \ {w}
    /\ gdb' = (gdb \/ vm # "none")
    /\ clear' = IF kill = "no" THEN clear ELSE "no"
    /\ UNCHANGED <<pc, ctf, files, box, debuggee, found, killing, faults, alone>>

-------------------------------------------------------------------------------
\* kill_session.

Running == { w \in Who : box[w] # "none" }
           \cup (IF vm # "none" THEN {"vm"} ELSE {}) \cup (IF gdb THEN {"gdb"} ELSE {})

Quiet == Running = {} /\ typed = {} /\ typedG = {}

\* CTRL+C: the handler runs in the process, which exits at its end; or -k.
\* Whoever waits for the debuggee may lose patience any number of times.
SigInt ==
    /\ pc \notin {"idle", "killed"} /\ kill = "no"
    /\ IF pc = "health" THEN UNCHANGED faults ELSE Fault("sigint")
    /\ pc' = "killed" /\ kill' = "list"
    /\ UNCHANGED <<ctf, files, box, debuggee, found, debugger, listed, alone, clear>>

KillSession ==
    /\ kill = "no"
    /\ IF pc = "idle" THEN UNCHANGED faults ELSE Fault("kill")
    /\ kill' = "list"
    /\ UNCHANGED <<pc, ctf, files, box, debuggee, found, debugger, listed, alone, clear>>

\* An image that was rebuilt meanwhile has no tag with "like_" any more.
BugLike(c) == c \in Who   \* only what a session holds on to
Like(c) == c = "vm" => tagged

List ==
    /\ kill = "list"
    /\ listed' = { c \in Running : Like(c) }
    /\ kill' = "stop"
    /\ clear' = IF pc \in {"idle", "killed"} /\ tagged THEN "killed" ELSE "no"
    /\ UNCHANGED <<pc, ctf, files, box, debuggee, found, debugger, faults, alone>>

\* The daemon lists the newest first, so GDB before its QEMU.
StopListed(c) ==
    /\ kill = "stop" /\ c \in listed \ {"gone"}
    /\ c = "vm" => "gdb" \notin listed
    /\ CASE c = "vm"  -> VmGone /\ UNCHANGED <<ctf, files, box, alone>>
         [] c = "gdb" -> gdb' = FALSE /\ UNCHANGED <<debuggee, found, typedG, files, box, alone>>
         [] OTHER     -> BoxGone(c) /\ UNCHANGED <<debuggee, found, debugger, fs>>
    /\ listed' = listed \ {c}
    /\ UNCHANGED <<pc, ctf, kill, faults, clear>>

\* stop() of a container that is gone raises, which ends the loop.
StopRaises ==
    /\ kill = "stop" /\ "gone" \in listed
    /\ listed' = {} /\ kill' = "panes"
    /\ clear' = "no"
    /\ UNCHANGED <<pc, ctf, files, box, debuggee, found, debugger, faults, alone>>

Stopped ==
    /\ kill = "stop" /\ listed = {}
    /\ kill' = "panes"
    /\ UNCHANGED <<pc, ctf, files, box, debuggee, found, debugger, listed, faults, alone, clear>>

\* finally: with the panes go their shells and what these had still to do.
BugKillPanes == UNCHANGED <<typed, typedG>>
KillPanes == typed' = {} /\ typedG' = {}
KillEnds ==
    /\ kill = "panes"
    /\ kill' = "no"
    /\ KillPanes
    /\ IF pc = "killed" THEN Exit ELSE UNCHANGED <<pc, found>>
    /\ UNCHANGED <<ctf, files, box, vm, booted, tagged, gdb, listed, faults,
                   alone, clear>>

Kill == List \/ (\E c \in Who \cup {"vm", "gdb"} : StopListed(c)) \/ StopRaises \/ Stopped \/ KillEnds

-------------------------------------------------------------------------------
\* From outside.

SigKill ==
    /\ pc \notin {"idle", "killed"}
    /\ Fault("sigkill")
    /\ Exit
    /\ UNCHANGED <<ctf, files, box, debuggee, debugger, killing, alone, clear>>

\* -u 4, in another terminal, builds without a cache.
Update ==
    /\ vm # "none" /\ tagged
    /\ Fault("update")
    /\ tagged' = FALSE
    /\ clear' = "no"
    /\ UNCHANGED <<pc, ctf, files, box, typed, vm, booted, found, debugger, killing, alone>>

Containers ==
    \/ VmUp
    \/ \E w \in Who : BuildStep(w) \/ ShellRunsDebuggee(w) \/ ShellRunsDebugger(w)

Outside ==
    \/ SigInt \/ SigKill \/ KillSession \/ Update \/ VmDies
    \/ \E w \in Who : BuildFails(w)

Next == Begin \/ Process \/ Kill \/ Containers \/ Outside

Spec == Init /\ [][Next]_vars

\* Process, kill_session, shells and containers get on with their work.
FairSpec ==
    /\ Spec
    /\ WF_vars(Process) /\ WF_vars(Kill)
    /\ WF_vars(VmUp)
    /\ \A w \in Who : WF_vars(BuildStep(w)) /\ WF_vars(ShellRunsDebuggee(w))
                      /\ WF_vars(ShellRunsDebugger(w))

-------------------------------------------------------------------------------
\* Properties.

\* A session that has a file system built, with no builder beside its own and
\* none cut short, boots that one whole, whatever earlier sessions left in io/
\* (rootfs_builder.py:23-43, debuggee.py:33-45, rootfs.sh:129-192).
BootsWhole ==
    alone /\ booted # "none" => booted = "full"

\* That what is re-used is whole is for the user to know: the prompt asks about
\* any file (rootfs_builder.py:46-70).  But the image is hollow only where a
\* builder was disturbed: until something goes wrong no session boots one that
\* is not whole, built or re-used, in any order of whole and partial sessions,
\* kills between them and systems left running.
NoFaultBootsWhole == faults = 0 => booted \in {"none", "ctf", "full"}

\* After a kill_session nothing is left that runs or will run, unless a session
\* went on beside it, a shell started something during it, a container ended on
\* its own under the loop or had lost its tag (start_kgdb.py:47-61).
KillIsComplete == clear = "killed" /\ kill = "no" => Quiet

\* The session that is started next debugs its own system and no earlier one's,
\* though the debuggee is found by a name that never changes, a second after a
\* shell was asked to start it (debuggee.py:68-79, debugger.py:60-64).
AttachesToOwn == clear = "fresh" /\ vm # "none" => booted # "none"

\* No order of sessions, deaths and kills makes the process wait for ever: its
\* containers are removed when they end (debuggee.py:68-79, docker_runner.py:
\* 138-145, rootfs_builder.py:31-40), unlike the kernel builder's.
EveryRunEnds == pc # "idle" ~> pc = "idle"

\* A user who starts nothing new and keeps killing gets rid of everything, even
\* where a stop() raises and ends the loop, or a shell was faster; except of a
\* debuggee that has lost its tag (start_kgdb.py:47-61), for which "Completely
\* shutdown current session" (start_kgdb.py:127) is not true.
KillClears ==
    <>[](pc = "idle") /\ []<>(kill = "panes")
        => <>[](Quiet \/ (vm # "none" /\ ~tagged))
================================================================================
