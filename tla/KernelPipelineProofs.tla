------------------------- MODULE KernelPipelineProofs -------------------------
(***************************************************************************)
(* Proofs about KernelPipeline for every set of patches, every mode, every *)
(* architecture and every choice of faults.                                *)
(***************************************************************************)
EXTENDS KernelPipelineInv, TLAPS

-------------------------------------------------------------------------------
\* Types.

\* Every value a step writes to the tree is a tree.
LEMMA TreeSteps ==
    ASSUME NEW t \in Tree
    PROVE  /\ \A s \in {"absent", "empty", "nested", "unpacked"} :
                 [NoTree EXCEPT !.src = s] \in Tree
           /\ NoTree \in Tree
           /\ Cleaned(t) \in Tree
           /\ [Cleaned(t) EXCEPT !.config = "none"] \in Tree
           /\ \A p \in Patches : [t EXCEPT !.patched = @ \cup ({p} \ BadPatches)] \in Tree
           /\ \A c \in {"none", "base", "final"} : [t EXCEPT !.config = c] \in Tree
           /\ [t EXCEPT !.image = TRUE] \in Tree
<1> USE DEF Tree, NoTree, Cleaned
<1>1. \A s \in {"absent", "empty", "nested", "unpacked"} : [NoTree EXCEPT !.src = s] \in Tree
    OBVIOUS
<1>2. NoTree \in Tree /\ Cleaned(t) \in Tree
    OBVIOUS
<1>3. [Cleaned(t) EXCEPT !.config = "none"] \in Tree
    OBVIOUS
<1>4. \A p \in Patches : [t EXCEPT !.patched = @ \cup ({p} \ BadPatches)] \in Tree
    OBVIOUS
<1>5. /\ \A c \in {"none", "base", "final"} : [t EXCEPT !.config = c] \in Tree
      /\ [t EXCEPT !.image = TRUE] \in Tree
    OBVIOUS
<1> QED
    BY <1>1, <1>2, <1>3, <1>4, <1>5

\* So is what a stage of `make` leaves.
LEMMA BuiltTree ==
    ASSUME NEW t \in Tree, NEW stage
    PROVE  Built(stage, t) \in Tree
<1>1. /\ (t.vmlinux \/ stage = "link") \in BOOLEAN
      /\ (t.zimage \/ stage = "image") \in BOOLEAN
      /\ (t.image \/ (stage = "image" /\ Arch = "arm64")) \in BOOLEAN
    OBVIOUS
<1>2. \A a, b, c \in BOOLEAN :
        [t EXCEPT !.objs = TRUE, !.vmlinux = a, !.zimage = b, !.image = c] \in Tree
    BY DEF Tree
<1> QED
    BY <1>1, <1>2 DEF Built

\* The initial states have the right types.
LEMMA InitType == Init => TypeOK
<1> SUFFICES ASSUME Init PROVE TypeOK
    OBVIOUS
<1>1. tree \in Tree
    BY DEF Init, Tree, NoTree
<1>2. faults \in 0 .. MaxFaults
    BY PipelineAssumption DEF Init
<1> QED
    BY <1>1, <1>2 DEF Init, TypeOK, Steps, BuilderSteps, MakeStages

\* Every step keeps every variable in its type.
LEMMA NextType == TypeOK /\ [Next]_vars => TypeOK'
<1> SUFFICES ASSUME TypeOK, [Next]_vars PROVE TypeOK'
    OBVIOUS
<1>a. /\ \A s \in {"absent", "empty", "nested", "unpacked"} :
             [NoTree EXCEPT !.src = s] \in Tree
      /\ NoTree \in Tree
      /\ Cleaned(tree) \in Tree
      /\ [Cleaned(tree) EXCEPT !.config = "none"] \in Tree
      /\ \A p \in Patches : [tree EXCEPT !.patched = @ \cup ({p} \ BadPatches)] \in Tree
      /\ \A c \in {"none", "base", "final"} : [tree EXCEPT !.config = c] \in Tree
      /\ [tree EXCEPT !.image = TRUE] \in Tree
    BY TreeSteps DEF TypeOK
<1>b. \A stage : Built(stage, tree) \in Tree
    BY BuiltTree DEF TypeOK
<1>c. Unpacking \in {"open", "purge", "reuse", "stage3"}
    BY DEF Unpacking
<1>d. /\ FirstCommand \in {"clean", "copy", "mrproper"}
      /\ \A stage \in MakeStages : After(stage, "post") \in MakeStages \cup {"post"}
      /\ \A stage \in MakeStages : After(stage, "idle") \in MakeStages \cup {"idle"}
    BY DEF FirstCommand, ToConfigure, After, MakeStages
<1> USE PipelineAssumption
    DEF TypeOK, Steps, BuilderSteps, MakeStages, Goto, Exit, StageDone, Fault,
        request, disk, boxes, result
<1>1. CASE Begin
    BY <1>1 DEF Begin
<1>2. CASE Stage1Step
    BY <1>2 DEF Stage1Step, IsPresent, StartDownload, FinishDownload
<1>3. CASE Stage2Step
  <2>1. CASE Inspect
    <3>1. status' \in {"none", "unpack", "reuse", "error"} /\ dirty' \in BOOLEAN
        BY <2>1 DEF Inspect
    <3>2. pc' \in Steps
        BY <2>1, <1>c DEF Inspect
    <3> QED
        BY <2>1, <3>1, <3>2 DEF Inspect
  <2>2. CASE Purge
    BY <2>2, <1>a DEF Purge
  <2>3. CASE OpenArchive \/ OpenTruncated \/ Extract
    BY <2>3 DEF OpenArchive, OpenTruncated, Extract, Unpacked
  <2>4. CASE Move
    BY <2>4, <1>a DEF Move, Unpacked
  <2>5. ASSUME NEW yes \in BOOLEAN, AnswerReuse(yes) PROVE TypeOK'
    BY <2>5 DEF AnswerReuse, Answer
  <2> QED
    BY <1>3, <2>1, <2>2, <2>3, <2>4, <2>5 DEF Stage2Step
<1>4. CASE Stage3Step
  <2>1. CASE Stage3
    BY <2>1 DEF Stage3
  <2>2. CASE StartContainer \/ WaitForContainer
    BY <2>2, <1>d DEF StartContainer, WaitForContainer
  <2>3. CASE MakeClean \/ BuildMrproper
    BY <2>3, <1>a DEF MakeClean, BuildMrproper, ToConfigure
  <2>4. ASSUME NEW p \in Patches, ApplyPatch(p) PROVE TypeOK'
    BY <2>4, <1>a DEF ApplyPatch
  <2>5. CASE PatchesDone
    BY <2>5 DEF PatchesDone
  <2>6. CASE BuildArch \/ CopyConfig \/ ConfigureKernel
    BY <2>6, <1>a DEF BuildArch, CopyConfig, ConfigureKernel
  <2>7. ASSUME NEW stage \in MakeStages, Make(stage) PROVE TypeOK'
    BY <2>7, <1>b, <1>d DEF Make
  <2>8. CASE PostBuild
    <3>1. tree' \in Tree
        BY <2>8, <1>a DEF PostBuild
    <3> QED
        BY <2>8, <3>1 DEF PostBuild
  <2>9. CASE CleanupContainer \/ Finish
    BY <2>9 DEF CleanupContainer, Finish
  <2> QED
    BY <1>4, <2>1, <2>2, <2>3, <2>4, <2>5, <2>6, <2>7, <2>8, <2>9 DEF Stage3Step
<1>5. CASE Failure
    BY <1>5 DEF Failure, DownloadFails, ExtractFails, StartFails, CommandFails
<1>6. CASE SigInt \/ GiveUp \/ SigKill \/ ContainerDies \/ KillSession
    BY <1>6 DEF SigInt, GiveUp, Interrupted, SigKill, ContainerDies, KillSession
<1>7. CASE OrphanMakes
    BY <1>7, <1>b, <1>d DEF OrphanMakes
<1>8. CASE UNCHANGED vars
    BY <1>8 DEF vars
<1> QED
    BY <1>1, <1>2, <1>3, <1>4, <1>5, <1>6, <1>7, <1>8 DEF Next, SessionStep, Outside

-------------------------------------------------------------------------------
\* The parts of the inductive invariant, one by one.

\* The initial states satisfy the inductive invariant.
LEMMA InitIInv == Init => IInv
<1> SUFFICES ASSUME Init PROVE IInv
    OBVIOUS
<1>1. Boxes /\ Places /\ Fresh /\ BuiltKernelIsComplete
    BY DEF Init, Boxes, Places, Fresh, BuiltKernelIsComplete, BuilderSteps, MakeStages
<1>2. Products /\ Patching
    BY DEF Init, NoTree, Products, Patching, GoodPatches, MakeStages
<1> QED
    BY InitType, <1>1, <1>2 DEF IInv

\* What the steps that write the tree do to its fields.
LEMMA TreeFields ==
    ASSUME NEW t \in Tree
    PROVE  /\ \A s : LET u == [NoTree EXCEPT !.src = s] IN
                 u.src = s /\ u.patched = {} /\ Clean(u)
           /\ NoTree.src = "absent" /\ NoTree.patched = {} /\ Clean(NoTree)
           /\ Cleaned(t).src = t.src /\ Cleaned(t).patched = t.patched /\ Clean(Cleaned(t))
           /\ LET u == [Cleaned(t) EXCEPT !.config = "none"] IN
                 u.src = t.src /\ u.patched = t.patched /\ Clean(u)
           /\ \A p : LET u == [t EXCEPT !.patched = @ \cup ({p} \ BadPatches)] IN
                 /\ u.src = t.src /\ u.patched = t.patched \cup ({p} \ BadPatches)
                 /\ Clean(t) => Clean(u)
           /\ \A c : LET u == [t EXCEPT !.config = c] IN
                 u.src = t.src /\ u.patched = t.patched /\ (Clean(t) => Clean(u))
           /\ LET u == [t EXCEPT !.image = TRUE] IN
                 /\ u.src = t.src /\ u.patched = t.patched /\ u.image
                 /\ u.vmlinux = t.vmlinux /\ u.zimage = t.zimage
           /\ \A stage : LET u == Built(stage, t) IN
                 /\ u.src = t.src /\ u.patched = t.patched
                 /\ t.vmlinux \/ stage = "link" => u.vmlinux
                 /\ t.zimage \/ stage = "image" => u.zimage
                 /\ t.image \/ (stage = "image" /\ Arch = "arm64") => u.image
<1> USE DEF Tree, NoTree, Cleaned, Clean
<1>1. \A s : LET u == [NoTree EXCEPT !.src = s] IN
                 u.src = s /\ u.patched = {} /\ Clean(u)
    OBVIOUS
<1>2. NoTree.src = "absent" /\ NoTree.patched = {} /\ Clean(NoTree)
    OBVIOUS
<1>3. Cleaned(t).src = t.src /\ Cleaned(t).patched = t.patched /\ Clean(Cleaned(t))
    OBVIOUS
<1>4. LET u == [Cleaned(t) EXCEPT !.config = "none"] IN
                 u.src = t.src /\ u.patched = t.patched /\ Clean(u)
    OBVIOUS
<1>5. \A p : LET u == [t EXCEPT !.patched = @ \cup ({p} \ BadPatches)] IN
                 /\ u.src = t.src /\ u.patched = t.patched \cup ({p} \ BadPatches)
                 /\ Clean(t) => Clean(u)
    OBVIOUS
<1>6. \A c : LET u == [t EXCEPT !.config = c] IN
                 u.src = t.src /\ u.patched = t.patched /\ (Clean(t) => Clean(u))
    OBVIOUS
<1>7. LET u == [t EXCEPT !.image = TRUE] IN
                 /\ u.src = t.src /\ u.patched = t.patched /\ u.image
                 /\ u.vmlinux = t.vmlinux /\ u.zimage = t.zimage
    OBVIOUS
<1>8. \A stage : LET u == Built(stage, t) IN
                 /\ u.src = t.src /\ u.patched = t.patched
                 /\ t.vmlinux \/ stage = "link" => u.vmlinux
                 /\ t.zimage \/ stage = "image" => u.zimage
                 /\ t.image \/ (stage = "image" /\ Arch = "arm64") => u.image
    BY DEF Built
<1> QED
    BY <1>1, <1>2, <1>3, <1>4, <1>5, <1>6, <1>7, <1>8

\* A container is owned exactly while a step needs one, by one session.
LEMMA NextBoxes == TypeOK /\ Boxes /\ [Next]_vars => Boxes'
<1> SUFFICES ASSUME TypeOK, Boxes, [Next]_vars PROVE Boxes'
    OBVIOUS
<1> USE DEF TypeOK, Boxes, Steps, BuilderSteps, MakeStages, Goto, Exit, StageDone, request, disk, boxes, result
<1>1. CASE Begin \/ Stage1Step
    BY <1>1 DEF Begin, Stage1Step, IsPresent, StartDownload, FinishDownload
<1>2. CASE Stage2Step
    BY <1>2 DEF Stage2Step, Inspect, Unpacking, Purge, OpenArchive, OpenTruncated,
                Extract, Move, AnswerReuse
<1>3. CASE Stage3 \/ StartContainer \/ WaitForContainer
    BY <1>3 DEF Stage3, StartContainer, PortFree, WaitForContainer, FirstCommand, ToConfigure
<1>4. CASE MakeClean \/ BuildMrproper \/ (\E p \in Patches : ApplyPatch(p)) \/ PatchesDone
           \/ BuildArch \/ CopyConfig \/ ConfigureKernel
    BY <1>4 DEF MakeClean, BuildMrproper, ApplyPatch, PatchesDone, BuildArch, CopyConfig,
                ConfigureKernel, ToConfigure, RunSsh
<1>5. CASE (\E stage \in MakeStages : Make(stage)) \/ PostBuild \/ CleanupContainer \/ Finish
    BY <1>5 DEF Make, After, RunSsh, PostBuild, CleanupContainer, Finish
<1>6. CASE Failure
    BY <1>6 DEF Failure, DownloadFails, ExtractFails, StartFails, CommandFails, Commanding
<1>7. CASE Outside
    BY <1>7 DEF Outside, SigInt, GiveUp, Interrupted, SigKill, ContainerDies, OrphanMakes, KillSession
<1>8. CASE UNCHANGED vars
    BY <1>8 DEF vars
<1> QED
    BY <1>1, <1>2, <1>3, <1>4, <1>5, <1>6, <1>7, <1>8 DEF Next, SessionStep, Stage3Step

\* The unpacker writes where no tree is; compilers work where one is.
LEMMA NextPlaces == TypeOK /\ Boxes /\ Places /\ [Next]_vars => Places'
<1> SUFFICES ASSUME TypeOK, Boxes, Places, [Next]_vars PROVE Places'
    OBVIOUS
<1>a. /\ \A s : [NoTree EXCEPT !.src = s].src = s
      /\ Cleaned(tree).src = tree.src
      /\ [Cleaned(tree) EXCEPT !.config = "none"].src = tree.src
      /\ \A p : [tree EXCEPT !.patched = @ \cup ({p} \ BadPatches)].src = tree.src
      /\ [tree EXCEPT !.config = "base"].src = tree.src
      /\ [tree EXCEPT !.config = "final"].src = tree.src
      /\ [tree EXCEPT !.image = TRUE].src = tree.src
      /\ \A stage : Built(stage, tree).src = tree.src
    BY TreeFields DEF TypeOK
<1>b. NoTree.src = "absent"
    BY DEF NoTree
<1> USE DEF TypeOK, Places, Steps, BuilderSteps, MakeStages, Goto, Exit, StageDone, request, disk, boxes, result
<1>1. CASE Begin \/ Stage1Step
    BY <1>1 DEF Begin, Stage1Step, IsPresent, StartDownload, FinishDownload
<1>2. CASE Inspect
    BY <1>2 DEF Inspect, Unpacking
<1>3. CASE Purge
    BY <1>3, <1>b DEF Purge
<1>4. CASE OpenArchive \/ OpenTruncated \/ Extract \/ Move \/ \E yes \in BOOLEAN : AnswerReuse(yes)
    BY <1>4, <1>a DEF OpenArchive, OpenTruncated, Extract, Move, AnswerReuse
<1>5. CASE Stage3 \/ StartContainer \/ WaitForContainer
    BY <1>5 DEF Stage3, StartContainer, WaitForContainer, FirstCommand, ToConfigure
<1>6. CASE MakeClean \/ BuildMrproper \/ (\E p \in Patches : ApplyPatch(p)) \/ PatchesDone
           \/ BuildArch \/ CopyConfig \/ ConfigureKernel
  <2>1. CASE MakeClean \/ BuildMrproper
    BY <2>1, <1>a DEF MakeClean, BuildMrproper, ToConfigure, RunSsh, Works
  <2>2. ASSUME NEW p \in Patches, ApplyPatch(p) PROVE Places'
    <3>1. tree'.src = tree.src /\ UNCHANGED <<pc, orphan>>
        BY <2>2, <1>a DEF ApplyPatch
    <3> QED
        BY <2>2, <3>1 DEF ApplyPatch, RunSsh
  <2>6. CASE PatchesDone
    BY <2>6 DEF PatchesDone
  <2>3. CASE BuildArch
    BY <2>3, <1>a DEF BuildArch, RunSsh
  <2>4. CASE CopyConfig
    BY <2>4, <1>a DEF CopyConfig, RunSsh
  <2>5. CASE ConfigureKernel
    BY <2>5, <1>a DEF ConfigureKernel, RunSsh, Works
  <2> QED
    BY <1>6, <2>1, <2>2, <2>3, <2>4, <2>5, <2>6
<1>7. CASE (\E stage \in MakeStages : Make(stage)) \/ PostBuild \/ CleanupContainer \/ Finish
  <2>1. ASSUME NEW stage \in MakeStages, Make(stage) PROVE Places'
    BY <2>1, <1>a DEF Make, After, RunSsh, Works
  <2>2. CASE PostBuild
    BY <2>2, <1>a DEF PostBuild
  <2>3. CASE CleanupContainer \/ Finish
    BY <2>3 DEF CleanupContainer, Finish
  <2> QED
    BY <1>7, <2>1, <2>2, <2>3
<1>8. CASE Failure
    BY <1>8 DEF Failure, DownloadFails, ExtractFails, StartFails, CommandFails
<1>9. CASE Outside
    BY <1>9, <1>a DEF Outside, SigInt, GiveUp, Interrupted, SigKill, ContainerDies, OrphanMakes,
                  After, KillSession
<1>10. CASE UNCHANGED vars
    BY <1>10 DEF vars
<1> QED
    BY <1>1, <1>2, <1>3, <1>4, <1>5, <1>6, <1>7, <1>8, <1>9, <1>10
    DEF Next, SessionStep, Stage2Step, Stage3Step

\* A tree handed over as not dirty has no products of an earlier build.
LEMMA NextFresh == TypeOK /\ Boxes /\ Places /\ Fresh /\ [Next]_vars => Fresh'
<1> SUFFICES ASSUME TypeOK, Boxes, Places, Fresh, [Next]_vars PROVE Fresh'
    OBVIOUS
<1>a. \A s : Clean([NoTree EXCEPT !.src = s])
    BY TreeFields DEF TypeOK
<1>b. tree.src \in {"absent", "empty", "nested", "unpacked"}
    BY DEF TypeOK, Tree
<1> USE DEF TypeOK, Boxes, Fresh, Steps, BuilderSteps, MakeStages, Goto, Exit, StageDone, request, disk, boxes, result
<1>1. CASE Begin \/ Stage1Step
    BY <1>1 DEF Begin, Stage1Step, IsPresent, StartDownload, FinishDownload
<1>2. CASE Inspect
    BY <1>2, <1>b DEF Inspect, Unpacking
<1>3. CASE Purge
    BY <1>3 DEF Purge
<1>4. CASE OpenArchive \/ OpenTruncated \/ Extract \/ \E yes \in BOOLEAN : AnswerReuse(yes)
  <2>1. CASE OpenArchive \/ OpenTruncated \/ Extract
    BY <2>1 DEF OpenArchive, OpenTruncated, Unpacked, Extract
  <2>2. ASSUME NEW yes \in BOOLEAN, AnswerReuse(yes) PROVE Fresh'
    BY <2>2 DEF AnswerReuse, Answer
  <2> QED
    BY <1>4, <2>1, <2>2
<1>5. CASE Move
    BY <1>5, <1>a DEF Move, Places
<1>6. CASE Stage3 \/ StartContainer \/ WaitForContainer
    BY <1>6 DEF Stage3, StartContainer, WaitForContainer, FirstCommand, ToConfigure
<1>7. CASE MakeClean \/ BuildMrproper \/ (\E p \in Patches : ApplyPatch(p)) \/ PatchesDone
           \/ BuildArch \/ CopyConfig \/ ConfigureKernel
    BY <1>7 DEF MakeClean, BuildMrproper, ApplyPatch, PatchesDone, BuildArch, CopyConfig,
                ConfigureKernel, ToConfigure, RunSsh
<1>8. CASE (\E stage \in MakeStages : Make(stage)) \/ PostBuild \/ CleanupContainer \/ Finish
    BY <1>8 DEF Make, After, RunSsh, PostBuild, CleanupContainer, Finish
<1>9. CASE Failure
    BY <1>9 DEF Failure, DownloadFails, ExtractFails, StartFails, CommandFails
<1>10. CASE Outside
    BY <1>10 DEF Outside, SigInt, GiveUp, Interrupted, SigKill, ContainerDies, OrphanMakes,
                 After, KillSession
<1>11. CASE UNCHANGED vars
    BY <1>11 DEF vars
<1> QED
    BY <1>1, <1>2, <1>3, <1>4, <1>5, <1>6, <1>7, <1>8, <1>9, <1>10, <1>11
    DEF Next, SessionStep, Stage2Step, Stage3Step

\* Products are gone before the configuration, and there after their stage.
LEMMA NextProducts == TypeOK /\ Boxes /\ Fresh /\ Products /\ [Next]_vars => Products'
<1> SUFFICES ASSUME TypeOK, Boxes, Fresh, Products, [Next]_vars PROVE Products'
    OBVIOUS
<1>a. Clean(Cleaned(tree)) /\ Clean([Cleaned(tree) EXCEPT !.config = "none"])
    BY TreeFields DEF TypeOK
<1>b. Clean(tree) =>
        /\ \A p : Clean([tree EXCEPT !.patched = @ \cup ({p} \ BadPatches)])
        /\ Clean([tree EXCEPT !.config = "base"])
        /\ Clean([tree EXCEPT !.config = "final"])
    BY TreeFields DEF TypeOK
<1>c. LET u == [tree EXCEPT !.image = TRUE]
      IN  u.image /\ u.vmlinux = tree.vmlinux /\ u.zimage = tree.zimage
    BY TreeFields DEF TypeOK
<1>d. \A stage : LET u == Built(stage, tree) IN
        /\ tree.vmlinux \/ stage = "link" => u.vmlinux
        /\ tree.zimage \/ stage = "image" => u.zimage
        /\ tree.image \/ (stage = "image" /\ Arch = "arm64") => u.image
    BY TreeFields DEF TypeOK
<1> USE DEF TypeOK, Boxes, Products, Steps, BuilderSteps, MakeStages, Goto, Exit, StageDone,
        request, disk, boxes, result
<1>1. CASE Begin \/ Stage1Step
    BY <1>1 DEF Begin, Stage1Step, IsPresent, StartDownload, FinishDownload
<1>2. CASE Stage2Step
    BY <1>2 DEF Stage2Step, Inspect, Unpacking, Purge, OpenArchive, OpenTruncated, Extract,
                Move, AnswerReuse
<1>3. CASE Stage3 \/ StartContainer
    BY <1>3 DEF Stage3, StartContainer
<1>4. CASE WaitForContainer
    BY <1>4 DEF WaitForContainer, FirstCommand, ToConfigure, Fresh
<1>5. CASE MakeClean \/ BuildMrproper
    BY <1>5, <1>a DEF MakeClean, BuildMrproper, ToConfigure, RunSsh
<1>6. CASE (\E p \in Patches : ApplyPatch(p)) \/ PatchesDone
    BY <1>6, <1>b DEF ApplyPatch, PatchesDone, RunSsh
<1>7. CASE BuildArch \/ CopyConfig \/ ConfigureKernel
  <2>1. Clean(tree') /\ pc' \in {"config", "make"}
    BY <1>7, <1>b DEF BuildArch, CopyConfig, ConfigureKernel, RunSsh
  <2> QED
    BY <2>1
<1>8. ASSUME NEW stage \in MakeStages, Make(stage) PROVE Products'
    BY <1>8, <1>d DEF Make, After, RunSsh
<1>9. CASE PostBuild
    BY <1>9, <1>c, PipelineAssumption DEF PostBuild, RunSsh
<1>10. CASE CleanupContainer \/ Finish
    BY <1>10 DEF CleanupContainer, Finish
<1>11. CASE Failure
    BY <1>11 DEF Failure, DownloadFails, ExtractFails, StartFails, CommandFails
<1>12. CASE SigInt \/ GiveUp \/ SigKill \/ ContainerDies \/ KillSession
    BY <1>12 DEF SigInt, GiveUp, Interrupted, SigKill, ContainerDies, KillSession
<1>13. CASE OrphanMakes
    BY <1>13 DEF OrphanMakes
<1>14. CASE UNCHANGED vars
    BY <1>14 DEF vars
<1> QED
    BY <1>1, <1>2, <1>3, <1>4, <1>5, <1>6, <1>7, <1>8, <1>9, <1>10, <1>11, <1>12, <1>13, <1>14
    DEF Next, SessionStep, Stage3Step, Outside

\* A session that has built and gone on keeps what it built.
LEMMA NextComplete ==
    TypeOK /\ Boxes /\ Products /\ BuiltKernelIsComplete /\ [Next]_vars => BuiltKernelIsComplete'
<1> SUFFICES ASSUME TypeOK, Boxes, Products, BuiltKernelIsComplete, [Next]_vars
             PROVE  BuiltKernelIsComplete'
    OBVIOUS
<1>a. \A stage : LET u == Built(stage, tree) IN
        /\ tree.vmlinux => u.vmlinux
        /\ tree.zimage => u.zimage
        /\ tree.image => u.image
    BY TreeFields DEF TypeOK
<1> USE DEF TypeOK, BuiltKernelIsComplete, Steps, BuilderSteps, MakeStages, Goto, Exit, StageDone,
        request, disk, boxes, result
<1>1. CASE Begin \/ Stage1Step
    BY <1>1 DEF Begin, Stage1Step, IsPresent, StartDownload, FinishDownload
<1>2. CASE Stage2Step
    BY <1>2 DEF Stage2Step, Inspect, Unpacking, Purge, OpenArchive, OpenTruncated, Extract,
                Move, AnswerReuse
<1>3. CASE Stage3 \/ StartContainer \/ WaitForContainer
    BY <1>3 DEF Stage3, StartContainer, WaitForContainer, FirstCommand, ToConfigure
<1>4. CASE MakeClean \/ BuildMrproper \/ (\E p \in Patches : ApplyPatch(p)) \/ PatchesDone
           \/ BuildArch \/ CopyConfig \/ ConfigureKernel
    BY <1>4 DEF MakeClean, BuildMrproper, ApplyPatch, PatchesDone, BuildArch, CopyConfig,
                ConfigureKernel, ToConfigure, RunSsh
<1>5. CASE (\E stage \in MakeStages : Make(stage)) \/ PostBuild \/ Finish
    BY <1>5 DEF Make, After, PostBuild, Finish
<1>6. CASE CleanupContainer
    BY <1>6 DEF CleanupContainer, Products
<1>7. CASE Failure
    BY <1>7 DEF Failure, DownloadFails, ExtractFails, StartFails, CommandFails
<1>8. CASE SigInt \/ GiveUp \/ SigKill \/ ContainerDies \/ KillSession
    BY <1>8 DEF SigInt, GiveUp, Interrupted, SigKill, ContainerDies, KillSession
<1>9. CASE OrphanMakes
    BY <1>9, <1>a DEF OrphanMakes
<1>10. CASE UNCHANGED vars
    BY <1>10 DEF vars
<1> QED
    BY <1>1, <1>2, <1>3, <1>4, <1>5, <1>6, <1>7, <1>8, <1>9, <1>10
    DEF Next, SessionStep, Stage3Step, Outside

\* The patch loop leaves no applicable patch out.
LEMMA NextPatching == TypeOK /\ Boxes /\ Patching /\ [Next]_vars => Patching'
<1> SUFFICES ASSUME TypeOK, Boxes, Patching, [Next]_vars PROVE Patching'
    OBVIOUS
<1>a. /\ \A s : [NoTree EXCEPT !.src = s].patched = {}
      /\ NoTree.patched = {}
      /\ Cleaned(tree).patched = tree.patched
      /\ [Cleaned(tree) EXCEPT !.config = "none"].patched = tree.patched
      /\ [tree EXCEPT !.config = "base"].patched = tree.patched
      /\ [tree EXCEPT !.config = "final"].patched = tree.patched
      /\ [tree EXCEPT !.image = TRUE].patched = tree.patched
      /\ \A stage : Built(stage, tree).patched = tree.patched
    BY TreeFields DEF TypeOK
<1>b. \A p : [tree EXCEPT !.patched = @ \cup ({p} \ BadPatches)].patched
                = tree.patched \cup ({p} \ BadPatches)
    BY TreeFields DEF TypeOK
<1> USE DEF TypeOK, Boxes, Patching, GoodPatches, Steps, BuilderSteps, MakeStages, Goto, Exit,
        StageDone, request, disk, boxes, result
<1>1. CASE Begin \/ Stage1Step
    BY <1>1 DEF Begin, Stage1Step, IsPresent, StartDownload, FinishDownload
<1>2. CASE Inspect
    BY <1>2 DEF Inspect, Unpacking
<1>3. CASE Purge \/ Move
    BY <1>3, <1>a DEF Purge, Move
<1>4. CASE OpenArchive \/ OpenTruncated \/ Extract \/ \E yes \in BOOLEAN : AnswerReuse(yes)
    BY <1>4 DEF OpenArchive, OpenTruncated, Extract, AnswerReuse
<1>5. CASE Stage3 \/ StartContainer
    BY <1>5 DEF Stage3, StartContainer
<1>6. CASE WaitForContainer
    BY <1>6 DEF WaitForContainer, FirstCommand, ToConfigure
<1>7. CASE MakeClean
    BY <1>7, <1>a DEF MakeClean, ToConfigure, RunSsh
<1>8. CASE BuildMrproper
    BY <1>8, <1>a DEF BuildMrproper, RunSsh
<1>9. ASSUME NEW p \in Patches, ApplyPatch(p) PROVE Patching'
    BY <1>9, <1>b DEF ApplyPatch, RunSsh
<1>10. CASE PatchesDone
    BY <1>10 DEF PatchesDone
<1>11. CASE BuildArch
    BY <1>11, <1>a DEF BuildArch, RunSsh
<1>12. CASE CopyConfig
    BY <1>12, <1>a DEF CopyConfig, RunSsh
<1>13. CASE ConfigureKernel
    BY <1>13, <1>a DEF ConfigureKernel, RunSsh
<1>14. ASSUME NEW stage \in MakeStages, Make(stage) PROVE Patching'
    BY <1>14, <1>a DEF Make, After, RunSsh
<1>15. CASE PostBuild
    BY <1>15, <1>a DEF PostBuild
<1>16. CASE CleanupContainer \/ Finish
    BY <1>16 DEF CleanupContainer, Finish
<1>17. CASE Failure
    BY <1>17 DEF Failure, DownloadFails, ExtractFails, StartFails, CommandFails
<1>18. CASE SigInt \/ GiveUp \/ SigKill \/ ContainerDies \/ KillSession
    BY <1>18 DEF SigInt, GiveUp, Interrupted, SigKill, ContainerDies, KillSession
<1>19. CASE OrphanMakes
  <2>1. tree'.patched = tree.patched /\ UNCHANGED <<pc, todo>> /\ pc \notin BuilderSteps
    BY <1>19, <1>a DEF OrphanMakes
  <2> QED
    BY <2>1
<1>20. CASE UNCHANGED vars
    BY <1>20 DEF vars
<1> QED
    BY <1>1, <1>2, <1>3, <1>4, <1>5, <1>6, <1>7, <1>8, <1>9, <1>10, <1>11, <1>12, <1>13, <1>14,
       <1>15, <1>16, <1>17, <1>18, <1>19, <1>20
    DEF Next, SessionStep, Stage2Step, Stage3Step, Outside

-------------------------------------------------------------------------------
\* Theorems.

\* Every step preserves the inductive invariant.
LEMMA NextIInv == IInv /\ [Next]_vars => IInv'
<1> SUFFICES ASSUME IInv, [Next]_vars PROVE IInv'
    OBVIOUS
<1>1. TypeOK'
    BY NextType DEF IInv
<1>2. Boxes' /\ Places' /\ Fresh'
    BY NextBoxes, NextPlaces, NextFresh DEF IInv
<1>3. Products' /\ BuiltKernelIsComplete'
    BY NextProducts, NextComplete DEF IInv
<1>4. Patching'
    BY NextPatching DEF IInv
<1> QED
    BY <1>1, <1>2, <1>3, <1>4 DEF IInv

\* The inductive invariant holds in every state of every run.
THEOREM Invariance == Spec => []IInv
    BY InitIInv, NextIInv, PTL DEF Spec

\* Every variable keeps to its type, whatever fails (KernelPipeline!TypeOK).
THEOREM TypeCorrect == Spec => []TypeOK
<1>1. IInv => TypeOK
    BY DEF IInv
<1> QED
    BY Invariance, <1>1, PTL

\* No session builds beside an abandoned container (kernel_builder.py:197-203).
THEOREM OneBuilder == Spec => []SoleBuilder
<1>1. IInv => SoleBuilder
    BY DEF IInv, Boxes, SoleBuilder
<1> QED
    BY Invariance, <1>1, PTL

\* `make all` starts on a clean tree in every mode, however the sessions
\* before were cut short (kernel_unpacker.py:76-86, kernel_builder.py:208-222).
THEOREM CleanMake == Spec => []CleanTreeAtMake
<1>1. IInv => CleanTreeAtMake
    BY DEF IInv, Products, Clean, CleanTreeAtMake
<1> QED
    BY Invariance, <1>1, PTL

\* What a session builds and goes on with is complete (kernel_builder.py:171-187).
THEOREM CompleteBuild == Spec => []BuiltKernelIsComplete
<1>1. IInv => BuiltKernelIsComplete
    BY DEF IInv
<1> QED
    BY Invariance, <1>1, PTL

\* Every compiled tree has all the patches that apply (kernel_builder.py:56-66).
THEOREM PatchedBuild == Spec => []AllGoodPatchesIn
<1>1. IInv => AllGoodPatchesIn
    BY DEF IInv, Patching, GoodPatches, AllGoodPatchesIn
<1> QED
    BY Invariance, <1>1, PTL

\* No step of any session, failure or user removes an unpacked tree or a patch
\* from it (kernel_unpacker.py:88-97).
THEOREM KeptTree == Spec => TreeIsKept
<1>1. ASSUME IInv, [Next]_vars, tree.src = "unpacked"
      PROVE  tree'.src = "unpacked" /\ tree.patched \subseteq tree'.patched
  <2>a. TypeOK /\ Places
      BY <1>1 DEF IInv
  <2>b. /\ Cleaned(tree).src = tree.src /\ Cleaned(tree).patched = tree.patched
        /\ LET u == [Cleaned(tree) EXCEPT !.config = "none"] IN
             u.src = tree.src /\ u.patched = tree.patched
        /\ \A p : LET u == [tree EXCEPT !.patched = @ \cup ({p} \ BadPatches)] IN
             u.src = tree.src /\ u.patched = tree.patched \cup ({p} \ BadPatches)
        /\ \A c : LET u == [tree EXCEPT !.config = c] IN
             u.src = tree.src /\ u.patched = tree.patched
        /\ LET u == [tree EXCEPT !.image = TRUE] IN
             u.src = tree.src /\ u.patched = tree.patched
        /\ \A stage : LET u == Built(stage, tree) IN
             u.src = tree.src /\ u.patched = tree.patched
      BY <2>a, TreeFields DEF TypeOK
  <2>1. CASE UNCHANGED tree
      BY <1>1, <2>1
  <2>2. CASE Purge \/ Move
      BY <1>1, <2>2, <2>a DEF Purge, Move, Places
  <2>3. CASE MakeClean \/ BuildMrproper
      BY <1>1, <2>3, <2>b DEF MakeClean, BuildMrproper
  <2>4. ASSUME NEW p \in Patches, ApplyPatch(p)
        PROVE  tree'.src = "unpacked" /\ tree.patched \subseteq tree'.patched
      BY <1>1, <2>4, <2>b DEF ApplyPatch
  <2>5. CASE BuildArch \/ CopyConfig
      BY <1>1, <2>5, <2>b DEF BuildArch, CopyConfig
  <2>6. CASE ConfigureKernel
      BY <1>1, <2>6, <2>b DEF ConfigureKernel
  <2>7. ASSUME NEW stage \in MakeStages, Make(stage)
        PROVE  tree'.src = "unpacked" /\ tree.patched \subseteq tree'.patched
      BY <1>1, <2>7, <2>b DEF Make
  <2>8. CASE PostBuild
      BY <1>1, <2>8, <2>b DEF PostBuild
  <2>9. CASE OrphanMakes
      BY <1>1, <2>9, <2>b DEF OrphanMakes
  <2>10. CASE Begin \/ Stage1Step \/ Failure \/ SigInt \/ GiveUp \/ SigKill \/ ContainerDies \/ KillSession
    <3>1. UNCHANGED tree
        BY <2>10 DEF Begin, Stage1Step, IsPresent, StartDownload, FinishDownload, Failure,
           DownloadFails, ExtractFails, StartFails, CommandFails, SigInt, GiveUp, Interrupted,
           SigKill, ContainerDies, KillSession, disk
    <3> QED
        BY <3>1, <2>1
  <2>11. CASE Inspect \/ OpenArchive \/ OpenTruncated \/ Extract \/ \E yes \in BOOLEAN : AnswerReuse(yes)
    <3>1. UNCHANGED tree
        BY <2>11 DEF Inspect, OpenArchive, OpenTruncated, Extract, AnswerReuse, disk
    <3> QED
        BY <3>1, <2>1
  <2>12. CASE Stage3 \/ StartContainer \/ WaitForContainer \/ PatchesDone \/ CleanupContainer \/ Finish
    <3>1. UNCHANGED tree
        BY <2>12 DEF Stage3, StartContainer, WaitForContainer, PatchesDone, CleanupContainer,
           Finish, disk
    <3> QED
        BY <3>1, <2>1
  <2>13. CASE UNCHANGED vars
      BY <2>13, <2>1 DEF vars, disk
  <2> QED
      BY <1>1, <2>2, <2>3, <2>4, <2>5, <2>6, <2>7, <2>8, <2>9, <2>10, <2>11, <2>12, <2>13
      DEF Next, SessionStep, Stage2Step, Stage3Step, Outside
<1> QED
    BY Invariance, <1>1, PTL DEF Spec, TreeIsKept

-------------------------------------------------------------------------------
\* The hand-over to the later stages.

\* With no fault that stops a build half-way, no half-built kernel is ever
\* taken for a finished one.
LEMMA NextUninterrupted ==
    ASSUME Faults \cap Interrupts = {}, IInv, Uninterrupted, [Next]_vars
    PROVE  Uninterrupted'
<1>a. TypeOK /\ Boxes /\ Places /\ Fresh /\ Products
    BY DEF IInv
<1>b. ~Fault("make") /\ ~Fault("die") /\ ~Fault("sigint") /\ ~Fault("sigkill")
    BY DEF Fault, Interrupts
<1>c. pc \in MakeStages \cup {"post"} => ~CommandFails
  <2>1. pc \in MakeStages => Works(pc)
      BY <1>a DEF TypeOK, Boxes, Places, BuilderSteps, MakeStages, Works, Uninterrupted
  <2>2. pc = "post" /\ Arch = "x86_64" => Works(pc)
      BY <1>a DEF TypeOK, Boxes, BuilderSteps, MakeStages, Works, Uninterrupted
  <2> QED
      BY <1>b, <2>1, <2>2 DEF CommandFails, Commanding
<1>d. ~Outside
    BY <1>a, <1>b DEF Outside, SigInt, GiveUp, HungWait, SigKill, ContainerDies, OrphanMakes,
          KillSession, Uninterrupted, MakeStages
<1>e. /\ \A stage : LET u == Built(stage, tree) IN
            /\ u.src = tree.src
            /\ stage = "make" => u.vmlinux = tree.vmlinux
            /\ Arch = "x86_64" => u.image = tree.image
      /\ LET u == [tree EXCEPT !.image = TRUE] IN u.src = tree.src
    BY <1>a DEF TypeOK, Tree, Built
<1>f. /\ \A s : Clean([NoTree EXCEPT !.src = s])
      /\ Clean(NoTree)
      /\ Clean(Cleaned(tree))
      /\ Clean([Cleaned(tree) EXCEPT !.config = "none"])
      /\ Clean(tree) =>
            /\ \A p : Clean([tree EXCEPT !.patched = @ \cup ({p} \ BadPatches)])
            /\ Clean([tree EXCEPT !.config = "base"])
            /\ Clean([tree EXCEPT !.config = "final"])
    BY <1>a, TreeFields DEF TypeOK
<1> USE DEF Uninterrupted, Goto, Exit, StageDone, request, disk, boxes, result, MakeStages
<1>1. CASE Begin \/ Stage1Step
    BY <1>1 DEF Begin, Stage1Step, IsPresent, StartDownload, FinishDownload, Usable
<1>2. CASE Inspect
    BY <1>2, <1>a DEF Inspect, Unpacking, Usable, TypeOK, Tree
<1>3. CASE Purge \/ Move
  <2>1. Clean(tree') \/ UNCHANGED tree
      BY <1>3, <1>f DEF Purge, Move
  <2>2. /\ \/ pc = "purge" /\ pc' = "open"
           \/ pc = "move" /\ pc' = "stage3" /\ status' = Unpacked(0)
        /\ UNCHANGED <<orphan, own>>
      BY <1>3 DEF Purge, Move
  <2> QED
      BY <2>1, <2>2 DEF Usable, Clean, Unpacked
<1>4. CASE OpenArchive \/ OpenTruncated \/ Extract
    BY <1>4 DEF OpenArchive, OpenTruncated, Unpacked, Extract, Usable
<1>5. ASSUME NEW yes \in BOOLEAN, AnswerReuse(yes) PROVE Uninterrupted'
    BY <1>5 DEF AnswerReuse, Answer, Usable
<1>6. CASE Stage3
    BY <1>6, <1>a DEF Stage3, Usable, TypeOK
<1>7. CASE StartContainer \/ WaitForContainer
    BY <1>7 DEF StartContainer, WaitForContainer, FirstCommand, ToConfigure, Usable
<1>8. CASE MakeClean \/ BuildMrproper
  <2>1. Clean(tree') /\ pc' \in {"copy", "mrproper", "patch"} /\ UNCHANGED <<orphan, own>>
      BY <1>8, <1>f DEF MakeClean, BuildMrproper, ToConfigure
  <2> QED
      BY <2>1 DEF Clean, Usable
<1>9. CASE (\E p \in Patches : ApplyPatch(p)) \/ PatchesDone \/ BuildArch \/ CopyConfig \/ ConfigureKernel
  <2>1. /\ Clean(tree') /\ pc' \in {"patch", "defconfig", "config", "make"}
        /\ UNCHANGED <<orphan, own>>
    <3>1. CASE (\E p \in Patches : ApplyPatch(p)) \/ PatchesDone
        BY <1>a, <3>1, <1>f DEF ApplyPatch, PatchesDone, RunSsh, Products
    <3>2. CASE BuildArch \/ CopyConfig \/ ConfigureKernel
        BY <1>a, <3>2, <1>f DEF BuildArch, CopyConfig, ConfigureKernel, RunSsh, Products
    <3> QED
        BY <1>9, <3>1, <3>2
  <2> QED
      BY <2>1 DEF Clean, Usable
<1>10. ASSUME NEW stage \in MakeStages, Make(stage) PROVE Uninterrupted'
  <2>1. stage = "make" => ~tree.vmlinux /\ ~tree.image
      BY <1>10, <1>a DEF Make, RunSsh, Products, Clean
  <2> QED
      BY <1>10, <2>1, <1>a, <1>e DEF Make, After, RunSsh, Works, Usable
<1>11. CASE PostBuild
    BY <1>11 DEF PostBuild, Usable
<1>12. CASE CleanupContainer
    BY <1>12, <1>a DEF CleanupContainer, Products, Usable
<1>13. CASE Finish
    BY <1>13 DEF Finish, Usable
<1>14. CASE Failure
    BY <1>14, <1>a, <1>c DEF Failure, DownloadFails, ExtractFails, StartFails, CommandFails,
          Commanding, BuilderSteps, Usable
<1>15. CASE UNCHANGED vars
    BY <1>15 DEF vars, Usable
<1> QED
    BY <1>1, <1>2, <1>3, <1>4, <1>5, <1>6, <1>7, <1>8, <1>9, <1>10, <1>11, <1>12, <1>13, <1>14,
       <1>15, <1>d
    DEF Next, SessionStep, Stage2Step, Stage3Step

\* A step of the session that starts or ends the debugging leaves the tree alone.
LEMMA SessionSteps ==
    ASSUME TypeOK, SessionStep
    PROVE  /\ pc # "idle"
           /\ pc' \in {"idle", "ready"} => UNCHANGED tree
           /\ pc = "ready" => pc' = "idle"
<1> USE DEF Goto, Exit, StageDone, request, disk, boxes
<1>1. CASE Stage1Step
    BY <1>1 DEF Stage1Step, IsPresent, StartDownload, FinishDownload
<1>2. CASE Stage2Step
    BY <1>2 DEF Stage2Step, Inspect, Purge, OpenArchive, OpenTruncated, Extract, Move, AnswerReuse
<1>3. CASE Stage3 \/ StartContainer \/ WaitForContainer \/ PatchesDone \/ CleanupContainer \/ Finish
    BY <1>3 DEF Stage3, StartContainer, WaitForContainer, PatchesDone, CleanupContainer, Finish
<1>4. CASE MakeClean \/ BuildMrproper \/ (\E p \in Patches : ApplyPatch(p))
           \/ BuildArch \/ CopyConfig \/ ConfigureKernel
    BY <1>4 DEF MakeClean, BuildMrproper, ApplyPatch, BuildArch, CopyConfig, ConfigureKernel,
          ToConfigure, RunSsh
<1>5. CASE (\E stage \in MakeStages : Make(stage)) \/ PostBuild
    BY <1>5 DEF Make, MakeStages, After, PostBuild, RunSsh
<1>6. CASE Failure
    BY <1>6 DEF Failure, DownloadFails, ExtractFails, StartFails, CommandFails, Commanding,
          BuilderSteps, MakeStages
<1> QED
    BY <1>1, <1>2, <1>3, <1>4, <1>5, <1>6 DEF SessionStep, Stage3Step

\* The pipeline keeps the promise of KernelHandover: what stage 3 hands over is
\* usable and stays so until the session is over (start_kgdb.py:95-103), as
\* long as no fault can stop a build between two of its files.
THEOREM KeepsPromise ==
    ASSUME Faults \cap Interrupts = {}
    PROVE  Spec => HandsOver
<1> DEFINE H == IInv /\ Uninterrupted
<1>1. Init => Handover!AInit /\ H
  <2> SUFFICES ASSUME Init PROVE Handover!AInit /\ Uninterrupted
      BY InitIInv
  <2>1. ~tree.vmlinux /\ ~tree.image
      BY DEF Init, NoTree
  <2> QED
      BY <2>1 DEF Init, Handover!AInit, Uninterrupted, Usable, MakeStages
<1>2. H /\ [Next]_vars => H'
    BY NextIInv, NextUninterrupted
<1>3. H /\ H' /\ [Next]_vars => [Handover!ANext]_(Handover!avars)
  <2> SUFFICES ASSUME H, H', [Next]_vars PROVE [Handover!ANext]_(Handover!avars)
      OBVIOUS
  <2>a. Usable' \in BOOLEAN /\ (pc' = "ready" => Usable')
      BY DEF Usable, Uninterrupted, IInv, TypeOK, Tree
  <2>1. CASE Begin
      BY <2>1 DEF Begin, Goto, disk, Usable, Handover!ANext, Handover!Begin
  <2>2. CASE SessionStep
    <3>1. /\ pc # "idle"
          /\ pc' \in {"idle", "ready"} => UNCHANGED tree
          /\ pc = "ready" => pc' = "idle"
        BY <2>2, SessionSteps DEF IInv
    <3>2. CASE pc' = "idle"
        BY <3>1, <3>2 DEF Handover!ANext, Handover!End, Usable
    <3>3. CASE pc' = "ready"
        BY <2>a, <3>1, <3>3 DEF Handover!ANext, Handover!HandOver, Usable
    <3>4. CASE pc' \notin {"idle", "ready"}
        BY <2>a, <3>1, <3>4 DEF Handover!ANext, Handover!Work
    <3> QED
        BY <3>2, <3>3, <3>4
  <2>3. CASE Outside
    <3>1. ~Fault("die") /\ ~Fault("sigint") /\ ~Fault("sigkill")
        BY DEF Fault, Interrupts
    <3> QED
        BY <2>3, <3>1 DEF Outside, SigInt, GiveUp, HungWait, SigKill, ContainerDies, OrphanMakes,
              KillSession, Uninterrupted, MakeStages
  <2>4. CASE UNCHANGED vars
      BY <2>4 DEF vars, disk, Usable, Handover!avars
  <2> QED
      BY <2>1, <2>2, <2>3, <2>4 DEF Next
<1> QED
    BY <1>1, <1>2, <1>3, PTL DEF Spec, HandsOver, Handover!ASpec

-------------------------------------------------------------------------------
\* Sessions that nothing goes wrong in.

\* Which steps need a fault, and what there is no fault without.
LEMMA NoFault ==
    ASSUME TypeOK, [Next]_vars, faults' = 0
    PROVE  faults = 0 /\ \A kind : ~Fault(kind)
<1>1. faults \in Nat
    BY PipelineAssumption DEF TypeOK
<1>2. \A kind : ~Fault(kind)
    BY <1>1 DEF Fault
<1>3. UNCHANGED faults
  <2>1. CASE Begin \/ Stage1Step \/ UNCHANGED vars
    BY <2>1 DEF Begin, Stage1Step, IsPresent, StartDownload, FinishDownload, vars
  <2>2. CASE Stage2Step
    BY <1>2, <2>2 DEF Stage2Step, Inspect, Purge, OpenArchive, OpenTruncated, Extract, Move,
          AnswerReuse
  <2>3. CASE Stage3Step
    BY <2>3 DEF Stage3Step, Stage3, StartContainer, WaitForContainer, MakeClean, BuildMrproper,
          ApplyPatch, PatchesDone, BuildArch, CopyConfig, ConfigureKernel, Make, PostBuild,
          CleanupContainer, Finish
  <2>4. CASE Failure
    BY <1>2, <2>4 DEF Failure, DownloadFails, ExtractFails, StartFails, CommandFails
  <2>5. CASE Outside
    BY <1>2, <2>5 DEF Outside, SigInt, GiveUp, SigKill, ContainerDies, OrphanMakes, KillSession
  <2> QED
    BY <2>1, <2>2, <2>3, <2>4, <2>5 DEF Next, SessionStep
<1> QED
    BY <1>2, <1>3

\* As long as nothing goes wrong no step of a session fails, and each leaves the
\* next one what it needs (kernel_builder.py:207-238, kernel_unpacker.py:62-97).
LEMMA NextUndisturbed ==
    ASSUME IInv, Undisturbed, [Next]_vars
    PROVE  Undisturbed'
<1> SUFFICES ASSUME faults' = 0 PROVE Supplied'
    BY DEF Undisturbed
<1>a. TypeOK /\ Boxes /\ Places /\ Fresh /\ Products /\ Patching
    BY DEF IInv
<1>b. faults = 0 /\ \A kind : ~Fault(kind)
    BY <1>a, NoFault
<1>c. Supplied
    BY <1>b DEF Undisturbed
<1>d. /\ ~DownloadFails /\ ~ExtractFails /\ ~StartFails
      /\ CommandFails => pc \in {"copy", "config"} /\ ~Buildable(conf)
  <2>1. ~DownloadFails /\ ~ExtractFails /\ ~StartFails
    BY <1>b, <1>c DEF Supplied, DownloadFails, ExtractFails, StartFails, PortFree
  <2>2. Commanding /\ ~Works(pc) => pc \in {"copy", "config"} /\ ~Buildable(conf)
    BY <1>a, <1>c DEF Supplied, Commanding, Works, Buildable, TypeOK, Boxes, Patching,
          BuilderSteps, MakeStages
  <2> QED
    BY <1>b, <2>1, <2>2 DEF CommandFails
<1>e. ~Outside
    BY <1>a, <1>b, <1>c DEF Supplied, Outside, SigInt, GiveUp, HungWait, SigKill, ContainerDies,
          OrphanMakes, KillSession, MakeStages
<1>f. /\ \A stage : LET u == Built(stage, tree) IN
            u.src = tree.src /\ (Arch = "x86_64" => u.image = tree.image)
      /\ LET u == [tree EXCEPT !.image = TRUE] IN u.src = tree.src
      /\ \A p : LET u == [tree EXCEPT !.patched = @ \cup ({p} \ BadPatches)] IN u.src = tree.src
      /\ LET u == [tree EXCEPT !.config = "base"] IN u.src = tree.src
      /\ LET u == [tree EXCEPT !.config = "final"] IN u.src = tree.src /\ u.image = tree.image
      /\ LET u == Cleaned(tree) IN u.src = tree.src
      /\ LET u == [Cleaned(tree) EXCEPT !.config = "none"] IN u.src = tree.src
    BY <1>a DEF TypeOK, Tree, Built, Cleaned
<1>g. NoTree.src = "absent" /\ ~NoTree.vmlinux /\ \A s : [NoTree EXCEPT !.src = s].src = s
    BY DEF NoTree
<1> USE <1>c DEF Supplied, Goto, Exit, StageDone, request, disk, boxes, result, MakeStages, BuilderSteps
<1>1. CASE Begin
    BY <1>1, <1>a DEF Begin
<1>17. CASE Stage1Step
    BY <1>17, <1>a DEF Stage1Step, IsPresent, StartDownload, FinishDownload, TypeOK
<1>2. CASE Inspect
  <2>1. tree.src \in {"absent", "empty", "unpacked"} /\ tree.vmlinux \in BOOLEAN
    BY <1>a DEF TypeOK, Tree
  <2>2. pc' = Unpacking /\ UNCHANGED <<code, own, orphan, archive, tree>>
    BY <1>2 DEF Inspect
  <2>3. \/ pc' = "open" /\ tree.src = "absent"
        \/ pc' = "purge" /\ tree.src = "empty"
        \/ pc' \in {"reuse", "stage3"} /\ tree.src = "unpacked"
    <3>1. CASE tree.src \in {"absent", "empty"} /\ ~tree.vmlinux
        BY <2>2, <3>1 DEF Unpacking
    <3>2. CASE tree.src = "unpacked" /\ tree.vmlinux
        BY <2>2, <3>2 DEF Unpacking
    <3>3. CASE tree.src = "unpacked" /\ ~tree.vmlinux
        BY <2>2, <3>3 DEF Unpacking
    <3> QED
        BY <2>1, <3>1, <3>2, <3>3
  <2>4. status' # "error" /\ archive = "complete"
    BY <1>2 DEF Inspect
  <2> QED
    BY <2>2, <2>3, <2>4
<1>3. CASE Purge
    BY <1>3, <1>b, <1>g DEF Purge
<1>4. CASE OpenArchive \/ OpenTruncated \/ Extract
    BY <1>4 DEF OpenArchive, OpenTruncated, Extract
<1>5. CASE Move
    BY <1>5, <1>g DEF Move, Unpacked
<1>6. ASSUME NEW yes \in BOOLEAN, AnswerReuse(yes) PROVE Supplied'
    BY <1>6 DEF AnswerReuse, Answer
<1>7. CASE Stage3
    BY <1>7 DEF Stage3
<1>8. CASE StartContainer \/ WaitForContainer
    BY <1>8 DEF StartContainer, WaitForContainer, FirstCommand, ToConfigure
<1>9. CASE MakeClean \/ BuildMrproper
    BY <1>9, <1>f DEF MakeClean, BuildMrproper, ToConfigure, RunSsh
<1>10. CASE (\E p \in Patches : ApplyPatch(p)) \/ PatchesDone
    BY <1>10, <1>f DEF ApplyPatch, PatchesDone, RunSsh
<1>11. CASE BuildArch \/ CopyConfig
    BY <1>11, <1>f DEF BuildArch, CopyConfig, RunSsh
<1>12. CASE ConfigureKernel
  <2>1. ~tree.image
    BY <1>12, <1>a DEF ConfigureKernel, RunSsh, Products, Clean
  <2> QED
    BY <1>12, <2>1, <1>f DEF ConfigureKernel, RunSsh
<1>13. ASSUME NEW stage \in MakeStages, Make(stage) PROVE Supplied'
    BY <1>13, <1>f DEF Make, After, RunSsh
<1>14. CASE PostBuild
    BY <1>14, <1>f DEF PostBuild, RunSsh
<1>15. CASE CleanupContainer \/ Finish
    BY <1>15 DEF CleanupContainer, Finish
<1>16. CASE UNCHANGED vars
    BY <1>16 DEF vars
<1>18. CASE CommandFails
    BY <1>18, <1>d DEF CommandFails
<1> QED
    BY <1>1, <1>2, <1>3, <1>4, <1>5, <1>6, <1>7, <1>8, <1>9, <1>10, <1>11, <1>12, <1>13, <1>14,
       <1>15, <1>16, <1>17, <1>18, <1>d, <1>e
    DEF Next, SessionStep, Stage2Step, Stage3Step, Failure

\* Until something goes wrong outside a session only fails with a configuration
\* that cannot be built, in any order of partial and full runs, re-uses, refusals
\* to re-use and such failures, whatever the user changes in user.ini between them
\* (start_kgdb.py:85-103, kernel_builder.py:82-101, 207-221).
THEOREM NoSessionFails == Spec => []NoFaultNoFailure
<1>1. Init => IInv /\ Undisturbed
  <2> SUFFICES ASSUME Init PROVE Undisturbed
    BY InitIInv
  <2>1. tree.src \in {"absent", "empty"} /\ ~tree.vmlinux
    BY DEF Init, NoTree
  <2> QED
    BY <2>1 DEF Init, Undisturbed, Supplied, BuilderSteps, MakeStages
<1>2. IInv /\ Undisturbed /\ [Next]_vars => IInv' /\ Undisturbed'
    BY NextIInv, NextUndisturbed
<1>3. Undisturbed => NoFaultNoFailure
    BY DEF Undisturbed, Supplied, NoFaultNoFailure
<1> QED
    BY <1>1, <1>2, <1>3, PTL DEF Spec
===============================================================================
