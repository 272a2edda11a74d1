---------------------------- MODULE KernelPipeline ----------------------------
(***************************************************************************)
(* Stages 1 to 3 of a LIKE-DBG session (start_kgdb.py): download the       *)
(* kernel archive, unpack it, build it in the like_kbuilder container, and *)
(* hand the tree to the debuggee.                                          *)
(*                                                                         *)
(* Archive and tree live on the host's disk and outlive the session, which *)
(* may end between any two steps: by an exception, by CTRL+C (whose        *)
(* handler stops the containers), or by SIGKILL, which leaves the builder  *)
(* container running.  The next session only sees what is on the disk, and *)
(* user.ini, which the user may have changed.                              *)
(*                                                                         *)
(* One step of the model is one call with an effect on disk, container or  *)
(* control; `make all` is split where it leaves a file a later session     *)
(* looks for.                                                              *)
(***************************************************************************)
EXTENDS Naturals

CONSTANTS
    Patches,       \* files in patch_dir
    BadPatches,    \* those of them that do not apply to this kernel
    Confs,         \* what the user has in [kernel_builder] from session to session
    Arch,          \* [general] arch
    SkipPrompts,   \* --yes
    Faults,        \* what may go wrong in this run
    MaxFaults      \* how often, in total

FaultKinds ==
    { "net"     \* a request for the archive fails or is cut off
    , "disk"    \* extraction runs out of space
    , "purge"   \* rmtree cannot remove the directory
    , "docker"  \* the container cannot be created
    , "make"    \* a command in the container exits non-zero
    , "die"     \* the container stops under the session (`-k` elsewhere)
    , "sigint"  \* CTRL+C
    , "sigkill" \* the process is killed without running its handlers
    }

\* What the steps below tell apart of a user.ini.
KernelConfs ==
    [mode   : {"generic", "syzkaller", "custom", "config"},
     dotted : BOOLEAN,   \* the name of the user's kernel config has a suffix
     args   : BOOLEAN]   \* there are arguments for scripts/config

ASSUME PipelineAssumption ==
    /\ BadPatches \subseteq Patches
    /\ Confs \subseteq KernelConfs
    /\ Arch \in {"x86_64", "arm64"}
    /\ SkipPrompts \in BOOLEAN
    /\ Faults \subseteq FaultKinds
    /\ MaxFaults \in Nat

VARIABLES
    pc,       \* where the session is; "idle" when there is none
    goal,     \* last stage the user asked for (-p 1, 2, 3) or 6
    conf,     \* what user.ini says
    archive,  \* .kernels/linux-<choice>.tar.gz
    stray,    \* <cwd>/<ex_name>, where the archive is extracted first
    tree,     \* kernel_root/<ex_name>_<arch>
    status,   \* "status" the unpacker returned
    dirty,    \* "assume_dirty" it returned
    todo,     \* patch files _apply_patches has still to try
    own,      \* this session's builder container
    orphan,   \* a builder container no session owns, by what it executes
    code,     \* exit code of the last session
    faults    \* number of faults so far

request == <<goal, conf>>
disk == <<archive, stray, tree>>
boxes == <<own, orphan>>
result == <<status, dirty>>
vars == <<pc, request, disk, result, todo, boxes, code, faults>>

MakeStages == {"make", "link", "image", "mods"}

BuilderSteps ==
    {"wait", "clean", "mrproper", "patch", "defconfig", "copy", "config",
     "post", "stop"} \cup MakeStages

Steps ==
    {"idle", "present", "fetch", "inspect", "purge", "open", "extract",
     "move", "reuse", "stage3", "start", "ready"} \cup BuilderSteps

Tree == [src     : {"absent", "empty", "nested", "unpacked"},
         patched : SUBSET Patches,
         config  : {"none", "base", "final"},
         objs    : BOOLEAN,   \* compiled objects
         vmlinux : BOOLEAN,   \* symbols for the debugger, and the re-use mark
         zimage  : BOOLEAN,   \* the boot image `make all` writes
         image   : BOOLEAN]   \* arch/<arch>/boot/Image, which QEMU loads

NoTree == [src |-> "absent", patched |-> {}, config |-> "none", objs |-> FALSE,
           vmlinux |-> FALSE, zimage |-> FALSE, image |-> FALSE]

TypeOK ==
    /\ pc \in Steps
    /\ goal \in {1, 2, 3, 6}
    /\ conf \in Confs
    /\ archive \in {"absent", "partial", "complete"}
    /\ stray \in {"absent", "partial", "full"}
    /\ tree \in Tree
    /\ status \in {"none", "unpack", "reuse", "error"}
    /\ dirty \in BOOLEAN
    /\ todo \subseteq Patches
    /\ own \in {"none", "running", "exited"}
    /\ orphan \in {"none", "idle"} \cup MakeStages
    /\ code \in {"none", "0", "1", "-1", "-2", "killed"}
    /\ faults \in 0 .. MaxFaults

Init ==
    /\ pc = "idle"
    /\ goal = 6
    /\ conf \in Confs
    /\ archive = "absent"
    /\ stray = "absent"
    /\ \E s \in {"absent", "empty"} : tree = [NoTree EXCEPT !.src = s]
    /\ status = "none"
    /\ dirty = FALSE
    /\ todo = {}
    /\ own = "none"
    /\ orphan = "none"
    /\ code = "none"
    /\ faults = 0

-------------------------------------------------------------------------------
\* Helpers.

Fault(kind) == kind \in Faults /\ faults < MaxFaults /\ faults' = faults + 1

\* The process ends.  Inside run_container the `finally` clause stops the
\* container on the way out; elsewhere the session owns none.
Exit(c) == pc' = "idle" /\ code' = c /\ own' = "none"

Goto(step) == pc' = step /\ UNCHANGED <<code, own>>

\* Stage n has returned: a partial run is over (its result is not looked
\* at), any other goes on to `next`.
StageDone(n, next) == IF goal = n THEN Exit("0") ELSE Goto(next)

-------------------------------------------------------------------------------
\* The session and stage 1: KernelDownloader.

Begin ==
    /\ pc = "idle"
    /\ goal' \in {1, 2, 3, 6}
    /\ conf' \in Confs
    /\ Goto("present")
    /\ status' = "none" /\ dirty' = FALSE /\ todo' = {}
    /\ UNCHANGED <<disk, orphan, faults>>

IsPresent ==
    /\ pc = "present"
    /\ archive # "absent"
    /\ StageDone(1, "inspect")
    /\ UNCHANGED <<request, disk, result, todo, orphan, faults>>

\* urlretrieve opens the final file name as soon as the server answers.
StartDownload ==
    /\ pc = "present"
    /\ archive = "absent"
    /\ archive' = "partial"
    /\ Goto("fetch")
    /\ UNCHANGED <<request, stray, tree, result, todo, orphan, faults>>

FinishDownload ==
    /\ pc = "fetch"
    /\ archive' = "complete"
    /\ StageDone(1, "inspect")
    /\ UNCHANGED <<request, stray, tree, result, todo, orphan, faults>>

\* No answer, or a connection cut off half-way: the exception ends the
\* session and what was written so far stays.
DownloadFails ==
    /\ pc \in {"present", "fetch"}
    /\ pc = "present" => archive = "absent"
    /\ Fault("net")
    /\ Exit("1")
    /\ UNCHANGED <<request, disk, result, todo, orphan>>

-------------------------------------------------------------------------------
\* Stage 2: KernelUnpacker.

\* What the unpacker does next, by what it finds at kernel_root.
BugUnpacking ==   \* an unfinished build is unpacked afresh
    CASE tree.src = "absent" -> "open"
      [] tree.vmlinux        -> "reuse"
      [] OTHER               -> "purge"
Unpacking ==
    CASE tree.src = "absent" -> "open"
      [] tree.src = "empty"  -> "purge"
      [] tree.vmlinux        -> "reuse"
      [] OTHER               -> "stage3"

\* "status" for the return code of _unpack_targz, and for the user's answer.
BugUnpacked(ret) == IF ret = 0 THEN "unpack" ELSE "failed"
Unpacked(ret) == IF ret = 0 THEN "unpack" ELSE "error"
BugAnswer(yes) == "reuse"
Answer(yes) == IF yes THEN "reuse" ELSE "unpack"

Inspect ==
    /\ pc = "inspect"
    /\ Goto(Unpacking)
    /\ IF tree.src \in {"nested", "unpacked"} /\ ~tree.vmlinux
         THEN status' = "unpack" /\ dirty' = TRUE
         ELSE UNCHANGED result
    /\ UNCHANGED <<request, disk, todo, orphan, faults>>

\* rmtree(ignore_errors=True): when it fails the empty directory stays.
Purge ==
    /\ pc = "purge"
    /\ \/ tree' = NoTree /\ UNCHANGED faults
       \/ Fault("purge") /\ UNCHANGED tree
    /\ Goto("open")
    /\ UNCHANGED <<request, archive, stray, result, todo, orphan>>

OpenArchive ==
    /\ pc = "open"
    /\ archive = "complete"
    /\ stray' = "partial"
    /\ Goto("extract")
    /\ UNCHANGED <<request, archive, tree, result, todo, orphan, faults>>

\* A cut-off archive raises a TarError, which is caught, or an EOFError from
\* the decompressor, which is not.
BugOpenTruncated ==   \* tries again with the same file
    /\ pc = "open"
    /\ archive # "complete"
    /\ Goto("present")
    /\ UNCHANGED <<request, disk, result, todo, orphan, faults>>
OpenTruncated ==
    /\ pc = "open"
    /\ archive # "complete"
    /\ \/ /\ status' = Unpacked(1) /\ dirty' = FALSE
          /\ Goto("stage3")
       \/ Exit("1") /\ UNCHANGED result
    /\ UNCHANGED <<request, disk, todo, orphan, faults>>

Extract ==
    /\ pc = "extract"
    /\ stray' = "full"
    /\ Goto("move")
    /\ UNCHANGED <<request, archive, tree, result, todo, orphan, faults>>

ExtractFails ==
    /\ pc = "extract"
    /\ Fault("disk")
    /\ Exit("1")
    /\ UNCHANGED <<request, disk, result, todo, orphan>>

\* shutil.move renames onto a free name, and moves below an existing one.
Move ==
    /\ pc = "move"
    /\ stray' = "absent"
    /\ tree' = [NoTree EXCEPT !.src = IF tree.src = "absent" THEN "unpacked"
                                                             ELSE "nested"]
    /\ status' = Unpacked(0) /\ dirty' = FALSE
    /\ Goto("stage3")
    /\ UNCHANGED <<request, archive, todo, orphan, faults>>

AnswerReuse(yes) ==
    /\ pc = "reuse"
    /\ SkipPrompts => yes
    /\ status' = Answer(yes)
    /\ dirty' = ~yes
    /\ Goto("stage3")
    /\ UNCHANGED <<request, disk, todo, orphan, faults>>

-------------------------------------------------------------------------------
\* Stage 3: the dispatch on the unpacker's answer, and KernelBuilder.

Stage3 ==
    /\ pc = "stage3"
    /\ \/ goal = 2 /\ Exit("0")
       \/ goal # 2 /\ status = "unpack" /\ Goto("start")
       \/ goal # 2 /\ status = "error" /\ Exit("-1")
       \/ goal # 2 /\ status \notin {"unpack", "error"} /\ Goto("ready")
    /\ UNCHANGED <<request, disk, result, todo, orphan, faults>>

\* The container maps its SSH port to a fixed port of the host: while another
\* builder runs, the daemon refuses to start a second one.
BugPortFree == TRUE   \* every builder gets a port of its own
PortFree == orphan = "none"

StartContainer ==
    /\ pc = "start"
    /\ PortFree
    /\ own' = "running"
    /\ pc' = "wait"
    /\ UNCHANGED <<request, disk, result, todo, orphan, code, faults>>

StartFails ==
    /\ pc = "start"
    /\ IF PortFree THEN Fault("docker") ELSE UNCHANGED faults
    /\ Exit("-2")
    /\ UNCHANGED <<request, disk, result, todo, orphan>>

\* The order of the commands that prepare the build.
ToConfigure == IF conf.mode = "config" THEN "copy" ELSE "mrproper"
BugFirstCommand ==   \* only modes that are cleaned anyway are cleaned first
    IF dirty /\ conf.mode # "config" THEN "clean" ELSE ToConfigure
FirstCommand == IF dirty THEN "clean" ELSE ToConfigure

\* wait_for_container loops until the container is healthy; one that has
\* exited never is.
WaitForContainer ==
    /\ pc = "wait"
    /\ own = "running"
    /\ todo' = Patches
    /\ Goto(FirstCommand)
    /\ UNCHANGED <<request, disk, result, orphan, faults>>

\* A command over SSH works when the container runs and what it needs is where
\* the builder expects it: the sources below kernel_root; for `cp`, the file
\* that was mounted under its full name under its stem; for `ln -s`, a free
\* name.  scripts/config without an argument prints its usage and fails.
\* Otherwise fabric raises.
Works(step) ==
    /\ own = "running"
    /\ IF step = "copy" THEN ~conf.dotted ELSE tree.src = "unpacked"
    /\ step = "config" => conf.args
    /\ step = "post" => ~tree.image

RunSsh(step) == pc = step /\ Works(step)

Cleaned(t) == [t EXCEPT !.objs = FALSE, !.vmlinux = FALSE,
                        !.zimage = FALSE, !.image = FALSE]

MakeClean ==
    /\ RunSsh("clean")
    /\ tree' = Cleaned(tree)
    /\ Goto(ToConfigure)
    /\ UNCHANGED <<request, archive, stray, result, todo, orphan, faults>>

BuildMrproper ==
    /\ RunSsh("mrproper")
    /\ tree' = [Cleaned(tree) EXCEPT !.config = "none"]
    /\ Goto("patch")
    /\ UNCHANGED <<request, archive, stray, result, todo, orphan, faults>>

\* patch(1) fails on a patch that does not apply and on one that is already
\* in; either way the loop goes on with the next file.
BugApplyPatch(p) ==   \* the loop is left at the first failure
    /\ RunSsh("patch")
    /\ p \in todo
    /\ todo' = IF p \in BadPatches THEN {} ELSE todo \ {p}
    /\ tree' = [tree EXCEPT !.patched = @ \cup ({p} \ BadPatches)]
    /\ UNCHANGED <<pc, request, archive, stray, result, boxes, code, faults>>
ApplyPatch(p) ==
    /\ RunSsh("patch")
    /\ p \in todo
    /\ todo' = todo \ {p}
    /\ tree' = [tree EXCEPT !.patched = @ \cup ({p} \ BadPatches)]
    /\ UNCHANGED <<pc, request, archive, stray, result, boxes, code, faults>>

PatchesDone ==
    /\ pc = "patch"
    /\ todo = {}
    /\ Goto("defconfig")
    /\ UNCHANGED <<request, disk, result, todo, orphan, faults>>

BuildArch ==
    /\ RunSsh("defconfig")
    /\ tree' = [tree EXCEPT !.config = "base"]
    /\ Goto("config")
    /\ UNCHANGED <<request, archive, stray, result, todo, orphan, faults>>

CopyConfig ==
    /\ RunSsh("copy")
    /\ tree' = [tree EXCEPT !.config = "base"]
    /\ Goto("config")
    /\ UNCHANGED <<request, archive, stray, result, todo, orphan, faults>>

ConfigureKernel ==
    /\ RunSsh("config")
    /\ tree' = [tree EXCEPT !.config = "final"]
    /\ Goto("make")
    /\ UNCHANGED <<request, archive, stray, result, todo, orphan, faults>>

\* What the stages of `make all` and `make modules` leave in the tree.
Built(stage, t) ==
    [t EXCEPT !.objs    = TRUE,
              !.vmlinux = @ \/ stage = "link",
              !.zimage  = @ \/ stage = "image",
              !.image   = @ \/ (stage = "image" /\ Arch = "arm64")]

BugAfter(stage, last) ==   \* `make vmlinux` for `make all`
    CASE stage = "make" -> "link"
      [] stage = "link" -> "mods"
      [] OTHER          -> last
After(stage, last) ==
    CASE stage = "make"  -> "link"
      [] stage = "link"  -> "image"
      [] stage = "image" -> "mods"
      [] OTHER           -> last

Make(stage) ==
    /\ RunSsh(stage)
    /\ tree' = Built(stage, tree)
    /\ Goto(After(stage, "post"))
    /\ UNCHANGED <<request, archive, stray, result, todo, orphan, faults>>

\* On x86_64 the builder links Image to bzImage; arm64 needs no command.
PostBuild ==
    /\ \/ /\ Arch = "x86_64"
          /\ RunSsh("post")
          /\ tree' = [tree EXCEPT !.image = TRUE]
       \/ /\ Arch # "x86_64"
          /\ pc = "post"
          /\ UNCHANGED tree
    /\ Goto("stop")
    /\ UNCHANGED <<request, archive, stray, result, todo, orphan, faults>>

CleanupContainer ==
    /\ pc = "stop"
    /\ own' = "none"
    /\ pc' = "ready"
    /\ UNCHANGED <<request, disk, result, todo, orphan, code, faults>>

\* Steps at which a command is given to the container.
Commanding ==
    /\ pc \in BuilderSteps \ {"wait", "stop"}
    /\ pc = "patch" => todo # {}
    /\ pc = "post" => Arch = "x86_64"

\* A command cannot be run, or exits non-zero; patch(1) alone may do that.
\* The link to bzImage is made outside the `try`.
CommandFails ==
    /\ Commanding
    /\ \/ ~Works(pc) /\ UNCHANGED faults
       \/ pc # "patch" /\ Fault("make")
    /\ Exit(IF pc = "post" THEN "1" ELSE "-2")
    /\ UNCHANGED <<request, disk, result, todo, orphan>>

\* Stage 3 has returned a kernel: `-p 3` exits, otherwise the debugging
\* session runs until the user ends it.
Finish ==
    /\ pc = "ready"
    /\ Exit("0")
    /\ UNCHANGED <<request, disk, result, todo, orphan, faults>>

-------------------------------------------------------------------------------
\* What happens to a session from outside.

\* kill_session stops every running like_ container it finds, or none when
\* talking to the daemon fails; exit(0) then unwinds through `finally`.
Interrupted ==
    /\ orphan' \in {orphan, "none"}
    /\ Exit("0")
    /\ UNCHANGED <<request, disk, result, todo>>

SigInt == pc # "idle" /\ Fault("sigint") /\ Interrupted

\* The user's only way out of a wait that will not end.
HungWait == pc = "wait" /\ own = "exited"
GiveUp == HungWait /\ Interrupted /\ UNCHANGED faults

SigKill ==
    /\ pc # "idle"
    /\ Fault("sigkill")
    /\ orphan' = IF own # "running" THEN orphan
                 ELSE IF pc \in MakeStages THEN pc ELSE "idle"
    /\ Exit("killed")
    /\ UNCHANGED <<request, disk, result, todo>>

ContainerDies ==
    /\ own = "running"
    /\ Fault("die")
    /\ own' = "exited"
    /\ UNCHANGED <<pc, request, disk, result, todo, orphan, code>>

\* The command an abandoned container was given goes on without its session,
\* until it is done or loses its output.
OrphanMakes ==
    /\ orphan \in MakeStages
    /\ \/ /\ tree' = Built(orphan, tree)
          /\ orphan' = After(orphan, "idle")
       \/ orphan' = "idle" /\ UNCHANGED tree
    /\ UNCHANGED <<pc, request, archive, stray, result, todo, own, code, faults>>

\* `start_kgdb.py -k`, used to get rid of an abandoned container.
KillSession ==
    /\ orphan # "none"
    /\ orphan' = "none"
    /\ UNCHANGED <<pc, request, disk, result, todo, own, code, faults>>

-------------------------------------------------------------------------------
Stage1Step == IsPresent \/ StartDownload \/ FinishDownload

Stage2Step ==
    \/ Inspect \/ Purge \/ OpenArchive \/ OpenTruncated \/ Extract \/ Move
    \/ \E yes \in BOOLEAN : AnswerReuse(yes)

Stage3Step ==
    \/ Stage3 \/ StartContainer \/ WaitForContainer \/ MakeClean
    \/ BuildMrproper \/ (\E p \in Patches : ApplyPatch(p)) \/ PatchesDone
    \/ BuildArch \/ CopyConfig \/ ConfigureKernel
    \/ (\E stage \in MakeStages : Make(stage)) \/ PostBuild \/ CleanupContainer
    \/ Finish

Failure == DownloadFails \/ ExtractFails \/ StartFails \/ CommandFails

Outside == SigInt \/ GiveUp \/ SigKill \/ ContainerDies \/ OrphanMakes \/ KillSession

SessionStep == Stage1Step \/ Stage2Step \/ Stage3Step \/ Failure

Next == Begin \/ SessionStep \/ Outside

Spec == Init /\ [][Next]_vars

\* The process runs on: nothing in it waits for anything but the container
\* and the user, who answers a prompt.
FairSpec == Spec /\ WF_vars(SessionStep)

\* A configuration that gets past `cp` and scripts/config.
Buildable(c) == c.args /\ (c.mode = "config" => ~c.dotted)

\* A user who wants a kernel: comes back with a full run and a configuration
\* that can be built, interrupts a wait that hangs, kills abandoned containers
\* and at times declines to re-use.
UserSpec ==
    /\ FairSpec
    /\ SF_vars(Begin /\ goal' = 6 /\ Buildable(conf'))
    /\ SF_vars(AnswerReuse(FALSE) /\ goal = 6 /\ Buildable(conf))
    /\ WF_vars(GiveUp)
    /\ WF_vars(KillSession)
-------------------------------------------------------------------------------
\* Properties.

\* While a session has a builder container no other builder is at work on the
\* tree: the fixed host port keeps a second one from starting
\* (kernel_builder.py:197-203), however an earlier session was killed.
SoleBuilder == own # "none" => orphan = "none"

\* `make all` never starts on the products of an earlier build, so what it
\* links belongs to the configuration just written: an unpacker that hands
\* over a used tree says so (assume_dirty), and the builder cleans it
\* (kernel_unpacker.py:76-86, kernel_builder.py:208-212).
CleanTreeAtMake ==
    pc = "make" => ~tree.objs /\ ~tree.vmlinux /\ ~tree.zimage /\ ~tree.image

\* A session that has built its kernel and gone on has all of it: symbols for
\* the debugger, the boot image under the name the debuggee boots, and no
\* container left that could still change them (kernel_builder.py:171-187,
\* debuggee.py:25).
BuiltKernelIsComplete ==
    pc = "ready" /\ status = "unpack"
        => tree.vmlinux /\ tree.zimage /\ tree.image /\ own = "none"

\* What is compiled has every patch that applies, whatever earlier sessions
\* left half-patched and whatever other patch fails (kernel_builder.py:56-66).
AllGoodPatchesIn ==
    pc \in MakeStages /\ conf.mode # "config" => tree.patched = Patches \ BadPatches

\* configs/user.ini:25-26, "Apply all patches during build.  If one patch fails
\* system stops": nothing is compiled without all of them.  In the code the loop
\* goes on, and nobody looks at what it returns (kernel_builder.py:64-66, 212).
FailingPatchStops ==
    pc \in MakeStages /\ conf.mode # "config" => tree.patched = Patches

\* An unpacked tree may hold the user's work: no session ever unpacks over it,
\* removes it or takes a patch out (kernel_unpacker.py:88-97).
TreeIsKept ==
    [][tree.src = "unpacked"
        => tree'.src = "unpacked" /\ tree.patched \subseteq tree'.patched]_vars

\* With nothing going wrong outside, a session only fails with a configuration
\* that cannot be built: a ready-made kernel config whose name has a suffix, or
\* no argument for scripts/config, which is what mode config comes to with the
\* other values as shipped (kernel_builder.py:84, 218).  Whatever sessions went
\* before, those that failed for this reason included, each leaves the disk in a
\* state the next one can work with.
NoFaultNoFailure == faults = 0 /\ pc = "idle" /\ Buildable(conf) => code \in {"none", "0"}

\* A session gets to its kernel or ends; only a builder container that has
\* exited can keep it waiting, and that one for ever
\* (docker_runner.py:138-145 has no timeout).
OnlyWaitHangs == pc # "idle" ~> (pc \in {"idle", "ready"} \/ HungWait)

Usable == tree.vmlinux /\ tree.zimage /\ tree.image

\* Two things on the disk no session repairs: a cut-off archive and a tree
\* unpacked one level too deep.  Unless one is left behind, a user who keeps
\* trying gets a usable kernel, again and again.
Stuck == archive = "partial" \/ tree.src = "nested"
Recovery == <>[]Stuck \/ []<>(pc = "ready" /\ Usable)

\* start_kgdb.py:102, "Kernel already built": the stages behind stage 3 are
\* only reached with a kernel that was built to the end.
ReadyIsUsable == pc = "ready" => Usable

\* The promise of KernelHandover.
Handover == INSTANCE KernelHandover WITH
    phase <- CASE pc = "idle" -> "off" [] pc = "ready" -> "ready" [] OTHER -> "working",
    usable <- Usable
HandsOver == Handover!ASpec
===============================================================================
