--------------------------- MODULE KernelPipelineInv ---------------------------
(***************************************************************************)
(* What is true between any two steps of the pipeline and makes its safety *)
(* properties inductive.                                                   *)
(***************************************************************************)
EXTENDS KernelPipeline

Clean(t) == ~t.objs /\ ~t.vmlinux /\ ~t.zimage /\ ~t.image

GoodPatches == Patches \ BadPatches

\* A session owns a container exactly at the steps that talk to one, and then
\* no abandoned one is left.
Boxes ==
    /\ (own # "none") <=> (pc \in BuilderSteps)
    /\ own # "none" => orphan = "none"

\* The unpacker only writes where no tree is, and only a tree with sources is
\* ever compiled, by a session or by a container that lost its own.
Places ==
    /\ pc \in {"purge", "open", "extract", "move"} => tree.src \in {"absent", "empty"}
    /\ pc \in MakeStages => tree.src = "unpacked"
    /\ orphan \in MakeStages => tree.src = "unpacked"

\* A tree that is not called dirty has just been unpacked, and nobody builds in it.
Fresh ==
    /\ pc \in {"start"} \cup BuilderSteps => status = "unpack"
    /\ pc \in {"stage3", "start", "wait"} /\ status = "unpack" /\ ~dirty
        => Clean(tree) /\ orphan \notin MakeStages

\* Old products are gone before the configuration is written.
Products ==
    /\ pc \in {"copy", "patch", "defconfig", "config", "make"} => Clean(tree)
    /\ pc \in {"image", "mods", "post", "stop"} => tree.vmlinux
    /\ pc \in {"mods", "post", "stop"} => tree.zimage
    /\ pc = "stop" \/ (pc \in {"mods", "post"} /\ Arch = "arm64") => tree.image

\* Where the patch loop stands.
Patching ==
    /\ tree.patched \subseteq GoodPatches
    /\ pc \in {"clean", "mrproper"} => todo = Patches
    /\ pc = "copy" => conf.mode = "config"
    /\ pc \in {"mrproper", "patch", "defconfig"} => conf.mode # "config"
    /\ pc = "patch" => GoodPatches \subseteq tree.patched \cup todo
    /\ pc \in {"defconfig", "config"} \cup MakeStages /\ conf.mode # "config"
        => tree.patched = GoodPatches

IInv ==
    /\ TypeOK
    /\ Boxes
    /\ Places
    /\ Fresh
    /\ Products
    /\ Patching
    /\ BuiltKernelIsComplete

-------------------------------------------------------------------------------
\* Faults that stop a build between two of the files it writes.
Interrupts == {"make", "die", "sigint", "sigkill"}

\* Without them no build is ever left half done.
Uninterrupted ==
    /\ orphan = "none"
    /\ own # "exited"
    /\ pc \notin {"image", "mods", "post", "stop"} => (tree.vmlinux => Usable)
    /\ pc = "link" => ~tree.vmlinux
    /\ pc = "ready" => Usable
    /\ pc = "reuse" => tree.vmlinux
    /\ pc = "stage3" /\ status = "reuse" => Usable
    /\ pc = "stage3" => status # "none"
    /\ pc \in MakeStages \cup {"post"} /\ Arch = "x86_64" => ~tree.image
    /\ pc \in {"post"} => tree.src = "unpacked"

-------------------------------------------------------------------------------
\* Until something goes wrong every step finds what it needs: a whole archive,
\* a free place to unpack to, sources below kernel_root, a container that runs.
\* A session whose configuration cannot be built leaves that behind as well.
Supplied ==
    /\ pc = "idle" /\ Buildable(conf) => code \in {"none", "0"}
    /\ orphan = "none" /\ own # "exited"
    /\ archive = "partial" => pc = "fetch"
    /\ archive = "complete" \/ pc \in {"idle", "present", "fetch"}
    /\ tree.src # "nested" /\ status # "error"
    /\ tree.src \in {"absent", "empty"} => ~tree.vmlinux
    /\ pc = "purge" => tree.src = "empty"
    /\ pc \in {"open", "extract", "move"} => tree.src = "absent"
    /\ pc = "stage3" /\ status = "unpack" => tree.src = "unpacked"
    /\ pc \in {"reuse", "start"} \cup BuilderSteps => tree.src = "unpacked"
    /\ pc \in MakeStages \cup {"post"} /\ Arch = "x86_64" => ~tree.image

Undisturbed == faults = 0 => Supplied
===============================================================================
