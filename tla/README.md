# Verification of LIKE-DBG

LIKE-DBG (`start_kgdb.py`) downloads a Linux kernel, builds it in a container,
makes a root file system and starts QEMU and GDB on it in panes of a tmux
session. This directory holds TLA+ models of it, the TLC runs that check them,
and theorems about them that TLAPS checks. Paths below are relative to the
repository, modules to this directory.

    tlc -config Pipeline_safety.cfg MCKernelPipeline    # one run
    tlapm SessionProofs.tla                             # one module's proofs

`PROJECT.json` lists components, runs, mutants (changes to one definition that a
run must detect), the source lines of every definition, hazards and theorems.

## 1. The system

The program is one process that calls its components in a fixed order, and a
tmux session, a docker daemon, a container over SSH and the disk around it.
Little runs in parallel *inside* it. What makes it hard is that almost all its
state outlives it: archive, kernel tree, images, keys, `.gdb_hist`, file system
image, containers, panes and the commands typed into them are left by one run,
finished or not, and are looked at by the next.

| component | state it keeps | operations | what makes it correct |
|---|---|---|---|
| `start_kgdb.py` | the stage asked for, exit code | stage1-6, partial runs, `-u`, `-k`, CTRL+C | a later stage only sees what an earlier one finished; CTRL+C and `-k` leave no container behind; exit codes and messages tell the truth; commands are typed where they belong |
| `KernelDownloader` | `.kernels/linux-<choice>.tar.gz` | choice of the version, is_present, download | what is present is complete, and what the user named |
| `KernelUnpacker` | `kernel_root/<name>_<arch>`; the directory the archive is extracted to | run: fresh, dirty, no unpack; re-use prompt | never unpacks over a tree; tells a used tree from a fresh one; offers finished kernels only |
| `KernelBuilder` | its container; the tree's patches, configuration, modules, products | prepare, configure, make, post-build, clean-up; `_add_modules`; `_extra_args` | starts on a clean tree, with all patches and modules, alone; leaves all products; stops its container |
| `DockerRunner` | images by tag, the base image, `.ssh` key pair | guarantee_ssh, build, check_existing, run, wait, init_ssh | finds or builds an image that works with the keys at hand |
| `RootFSBuilder` | the file system image in `io/` | run, rootfs.sh | what it builds is whole when QEMU gets it |
| `Debuggee`, `Debugger` | their containers, started by the shell of a pane; `.gdb_hist`; the challenge's `vmlinux` | run | the debugger is attached to the session's own debuggee, with the current gdb_script and the right symbols |
| `misc` | configuration merged from three ini files | cfg_setter, is_reuse, tmux | the user's values win |
| `ctf/misc`, `io/scripts`, dockerfiles | - | tools, scripts in containers | see 7 |

How they interact: stages call components (return values `kroot`, `status`,
`assume_dirty`); components and containers share the repository directory,
mounted read-write; the builder gives commands over SSH; debuggee and debugger
get theirs typed into a pane, whose shell executes them in its own time, and the
debuggee's container is then asked for by name; the debugger joins the
debuggee's PID namespace and ends with it. A second process can run beside the
first (`-k`, `-u`, or a second session) and shares with it the tree, the fixed
host port of the builder (`ssh_fwd_port`), container names, image tags and the
tmux window.

The hard behaviours are: a session that ends between any two steps, by an
exception, CTRL+C or SIGKILL; a container that survives its session and goes on
compiling or filling a file system; one that dies under its session; waiting
without a timeout; results nobody looks at (image builds, patches, `rmtree`,
`cp`, scripts in containers); things checked by presence alone (archive,
`vmlinux`, images, keys, hash file); and things found by a name or a position
that may have come to mean something else (container name, image tag, pane
number). `PROJECT.json` lists them as hazards, each at its line.

## 2. Modules

| module | what it is | extends |
|---|---|---|
| `KernelHandover` | abstract: what stages 1-3 promise the later ones | - |
| `KernelPipeline`, `-Inv`, `-Proofs` | stages 1-3, over any number of sessions; implements `KernelHandover` | - |
| `DockerImages`, `-Inv`, `-Proofs` | keys, images and the gdb_script, over any number of processes of any mode | - |
| `Session`, `-Inv`, `-Proofs` | stages 4-6 and `kill_session`: the containers of a session and what earlier ones left | - |
| `ModuleRegistry` | abstract: a kernel is built only with every module asked for | - |
| `CustomModules`, `-Inv`, `-Proofs` | `_add_modules` over Makefile and Kconfig; implements `ModuleRegistry` | - |
| `Panes`, `-Inv`, `-Proofs` | the tmux calls of a session and the panes they act on | - |
| `CtfContext`, `-Proofs` | the files of a CTF run | - |
| `Configuration`, `-Inv`, `-Proofs` | `cfg_setter`, the choice of the version, `_extra_args` | - |

An `-Inv` module extends the model and holds the inductive invariant, a `-Proofs`
module extends that one and TLAPS. `MC...` modules extend a model with the
values TLC is given for its CONSTANTS (`Session` needs none).

The components meet on the disk, and the models meet where one stage ends: what
`KernelPipeline` leaves at `ready` is what `Session` begins with, and
`DockerImages` says when the images that both take for granted are there. They
are not composed into one specification, since no state of one is changed by
the steps of another.

### KernelPipeline

| variable | in the code |
|---|---|
| `pc`, `goal`, `code` | where the process is, `--partial`, its exit code |
| `conf` | what the steps tell apart of `configs/user.ini`: the mode, whether the name of a ready-made kernel config has a suffix, whether there is an argument for `scripts/config` |
| `archive` | the file `is_present` looks for: absent, partial, complete |
| `stray` | `<cwd>/<ex_name>`, where `t.extract` writes before `shutil.move` |
| `tree` | `kernel_root`: are there sources (and at the right depth), which patches are in, `.config`, objects, `vmlinux`, `bzImage`, `Image` |
| `status`, `dirty` | the unpacker's `status` and `assume_dirty` |
| `todo` | patch files the loop has still to try |
| `own`, `orphan` | the session's builder container; one whose session was killed, and what it is executing |
| `faults` | number of faults so far |

An action is one call with an effect on disk, container or control:
`StartDownload`/`FinishDownload` (`urlretrieve` creates the final name first),
`Inspect`, `Purge`, `OpenArchive`, `Extract`, `Move` (the unpacker),
`AnswerReuse` (the prompt), `Stage3` (the dispatch), `StartContainer`,
`WaitForContainer`, then one action per command over SSH, and
`CleanupContainer`. The user may change `user.ini` between sessions (`Begin`); two
things in it make a command fail (`Works`): a config whose name has a suffix, which is
mounted under its full name and looked for under its stem (kernel_builder.py:218),
and no argument for `scripts/config`, which is run all the same (84). `Make` has one step per file of `make all` a later session
could look for, since a build can be interrupted between them. `CommandFails`,
`StartFails`, `DownloadFails` and `ExtractFails` are the error paths, with the
exit code of each; `Exit` includes the `finally` that stops the container.
From outside come `SigInt` (its handler stops the containers it finds, or none),
`SigKill` (no handler: the container stays, as `orphan`), `ContainerDies`,
`OrphanMakes`, `KillSession` (`-k` in another terminal) and `GiveUp` (CTRL+C in
a wait that will not end).

What is external, and taken from how those programs behave: `make clean` and
`make mrproper` remove all products; `make all` writes `vmlinux` before the boot
image; `mv` within the repository is a rename; `rmtree(ignore_errors=True)` of an
empty directory either removes it or not; a docker host port can be mapped once;
extracting a truncated archive raises a TarError or an EOFError.

Two simplifications: there is one archive and one tree, since a session that
chooses another version works on other paths throughout; and one container can
be orphaned at a time, since the host port keeps a second from starting.

### DockerImages

| variable | in the code |
|---|---|
| `private`, `public` | which key pair the two files in `.ssh` are of (0: no file) |
| `base`, `image` | the public key in `like_dbg_base` and in each runner's image (0: no image) |
| `script`, `baked`, `hist` | gdb_script now, in the debugger's image, and as hashed in `.gdb_hist` |
| `mode`, `queue`, `pc` | session, ctf, partial or update; the runners it has still to construct; where `DockerRunner.run` is with the first |
| `forced`, `failed`, `code` | `force_rebuild` of that runner; a build failed; exit code |

`Construct` is a runner's constructor (only `KernelBuilder`'s calls
`guarantee_ssh`, whose `ssh-keygen` is two steps, `WritePrivate` and
`WritePublic`), `HandleGdbChange` the hash, `CheckExisting`, `BuildBase`,
`BuildImage` and `RunContainer` are `DockerRunner.run` and what the subclasses do
with the image. A build fails for want of what the dockerfile names in `FROM` or
`COPY`, or by a fault, and as in the code nobody looks at the result. The user
edits the script between processes at will, and as a fault while one is at
work; and loses the keys between them. Hashes are modelled as the content they
are of.

### Session

| variable | in the code |
|---|---|
| `pc`, `ctf` | where the process is in stages 4-6; `--ctf` |
| `fs`, `mnt` | the file system image in `io/` (absent, zeroed by `dd`, an empty file system, full) and its work directory `io/rootfs`, by whose contents |
| `box` | the step `rootfs.sh` is at in this session's builder and in one an earlier session left |
| `typed`, `typedG` | `docker run` commands typed into a pane that no shell has executed yet, by this session or an earlier one |
| `vm`, `booted`, `tagged` | the container named `like_debuggee`; what it was started on; whether its image still has its tag |
| `found` | the container `Debuggee.run_container` looked up |
| `gdb` | a debugger's container is attached |
| `kill`, `listed` | where `kill_session` is, and what it has still to stop |

The process's actions are `Reuse`, `StartBuilder`, `LogsEnd`, `Infer`, `Lookup`,
`Health` and `Debugger`; `BuildStep` is `rootfs.sh`, `ShellRunsDebuggee` and
`ShellRunsDebugger` are the panes' shells. `kill_session` is `List`, one
`StopListed` per container, `StopRaises` (a container that has gone meanwhile ends
the loop) and `KillEnds` (the `finally` that kills the panes); it runs inside the
process after CTRL+C and beside it with `-k`. Session after session, what was
"own" becomes "old" (`Begin`). Names are modelled by what they do: a second
debuggee is not started while one has the name, and the lookup finds whichever
has it.

### CustomModules and ModuleRegistry

The user's modules (`source`), the copies in the tree (`copied`), the lines
added to `drivers/misc/Makefile` (`makefile`, a set since lines are only looked
for) and `drivers/misc/Kconfig` (`kconfig`, a sequence since the line goes
before the last one). `Copy`, `ReadOption`, `AddToMakefile` and `AddToKconfig` are
the four steps per module, between any two of which the session may end (`Stop`);
`CutWrite` is a `write_text` that does not get to its end: what is left ends after any
line or inside one, `lastline` says which. A line without its newline is one to
Kconfig (`Sources`) but not to `ins not in contents` (`Sourced`); half a line is one
to neither. Whatever is broken stays the last line, as entries go before it.
Appending to the Makefile is one short write and is not cut. Modules are edited,
renamed and dropped between sessions and the tree is kept, or unpacked anew.
`ModuleRegistry` is the promise: `Build` only when all that is asked for is
registered, nothing registered that was not asked for, and nothing lost but by
`Unpack` or `Cut`.

### Panes

`window` is the sequence of panes in the order of their numbers, `active` the
active one, `home` the pane the session was started in. `Script` is the sequence of
a whole session's tmux calls, `mine` and `sent` record which pane was opened for a
command and which it was typed into. Every call is an action of its own, since
each is a `tmux` process of its own, and the user may open,
close and select panes, start `-k` anywhere and stop the session between any two.
The ghost `calm` is lost when one of these comes between two calls that belong
together, or when there is no room for a pane: these are what the code cannot
survive, and `TypedWhereMeant` says that nothing else is needed.

### CtfContext

`file` is the image `--ctf` names, `copy` the session's own, `vmlinux` the file in
`ctf_dir`, with whose it is and how much of it was written; `booted` and `loaded`
are what QEMU and GDB have. The user replaces and removes the challenge's image
at any moment. `own` is a ghost: this session has extracted the file to its end, or
failed to. `extract-vmlinux.sh` ends with status 0 even when it finds nothing or the
disk is full, so that GDB is started then too (`Extract`, `WriteFails`), with what lies
there or without symbols.

### Configuration

Each of the ini files is a function from the keys it holds to values; `cfg` is
the ConfigParser they are read into, `obj` the attributes set so far, `ignore` the
flag `ignore_empty`, which is not reset between files. `Choose` is
`_set_commit`/`_set_choice`, `ExtraArg` one turn of `_extra_args`. That the code
searches arguments as text is modelled by two relations on option names, `Part` and
`Start`, over `Symbols`; a name is part of itself. `BaseArgs`, `UserExtras` and
`CustomExtras` are what modes and files ask of `scripts/config`, sequences of pairs of
any length. `Over` is one file laid on top of what was read before.

## 3. Runs

A cfg gives the CONSTANTS their values, some of them by name from the `MC...` module.

| run | question | distinct states |
|---|---|---|
| `pipeline_safety` | types, one builder, complete builds on clean trees, patches, the tree is kept; what can keep a session, or a user who tries again, from a kernel? All faults, up to three, and four configurations | 40702 |
| `pipeline_config` | does any order of partial and full sessions, with configurations that can be built and others, fail with one that can before something goes wrong outside; do stages 1-3 implement `KernelHandover` (no interruptions)? | 7168 |
| `images` | is the debugger's script the current one, does every runner find its image, is "Success!" true, does a user who updates get to log in again? | 287048 |
| `session` | is what boots whole, is what is killed gone, is what is debugged one's own, does every run end? | 341197 |
| `modules` | is every module asked for in the kernel that is built, and stays the menu closed? | 1026700 (up to symmetry) |
| `config` | are the user's version and options the ones that are used? | 242949 |
| `panes` | is each command typed into its pane, and are other panes left alone? | 67155 |
| `ctf` | are symbols a session extracts those of the kernel that runs, and are there any? | 732 |

Several of the results are worth reading with their exceptions.

- `OnlyWaitHangs`: a session gets on unless it waits for a container that has
  exited, and then it waits for ever. `EveryRunEnds` is the contrast: stages 4-6
  cannot hang that way, since their containers are run with `--rm` and inspecting
  one that is gone raises.
- `Recovery`: a user who keeps trying gets a usable kernel again and again,
  *unless* the disk is in one of two states for good, a cut-off archive or a
  tree one level too deep. The first is against README.md:124, where the session
  "starts the debugger and debuggee eventually": `urlretrieve` writes to the final
  name and `is_present` only looks for that, so after one cut-off download every
  later session fails at unpacking. `LogInRepaired` likewise excepts a private key whose
  public half is missing (`guarantee_ssh` looks for the private key only).
- `ScriptFollowsEdits` holds without faults, and an edit while a session is at work
  counts as one: the hash is taken before the prompt and the build, and the
  build copies the file as it is then. Edited in between and changed back, the
  script has the hash that was written, and no later session sees a change.
- `BuildsWhatItReports` holds once there is a base image. On a fresh host `-u 1`
  builds nothing and reports "Success!" (start_kgdb.py:236): the base image is
  built first, and needs the public key that only the builder's constructor
  makes. For the same reason `--ctf` and `-p 4` find no image on a fresh host
  (README.md:138-139), which is why `AllCanRun` asks for a key pair.
- `KillIsComplete` has the exceptions the code has, each of which is an action:
  a session that goes on beside `-k`, a shell that starts something after the
  list was made, a container that ends under the loop, an image that lost its
  tag. `KillClears` says that all but the last are repaired by killing again; a
  debuggee whose image was rebuilt (`-u 4`) is never stopped, although `-k` is
  documented as "Completely shutdown current session" (start_kgdb.py:127).
- `NoFaultBootsWhole` is about re-use: the prompt asks about any file that is there, and
  after a builder was cut off between `mkfs` and the copy it offers a hollow image,
  which boots. Nothing in the code tells it from a whole one; the property says
  that without a fault there never is one to offer.
- `NoFaultNoFailure` is about configurations that can be built. Mode config with the
  other values as shipped cannot: with gcc and an empty `extra_args` there is no
  argument, `./scripts/config` prints its usage, and the session ends with -2. Nor can
  a ready-made config whose name has a suffix (against user.ini:36, "It will be
  copied"). The property says that such sessions leave nothing behind that would
  make a later one fail.
- `AllAskedForIn` excepts one case by name: a module whose `source` line was the end of
  a file that was cut off just before the newline is entered again, and Kconfig
  reads it twice.
- `SymbolsIfAny`: an empty `vmlinux` of an interrupted session is no ELF file and is
  extracted again, so it does not keep GDB from its symbols. A cut-off one does pass
  for a `vmlinux`, which is part of what `ctf_symbols` shows.
- `LayersWin` takes a custom file's bare name into account, as the code does: one named
  like another ini file turns on `ignore_empty` before that one is read, so that keys
  that are empty there, `mmp`, `tag` and `commit` of `configs/user.ini` as shipped, have no
  say; those the custom file leaves out are then never set, and reading them raises.
  It claims nothing of `-c` beside `-p 1`: `stage1` is called without arguments there
  (start_kgdb.py:205) and downloads what user.ini names, although the usage
  (start_kgdb.py:117) and README.md:144-145 offer `-c` without exception.
  `CustomVersionWins` says that a custom `commit` loses to a `tag` of user.ini, and is not
  about `-p 1` either.
- `ExtraArgsDecide` excepts names that are parts of each other, which the code
  confuses, and options a mode gives a value.
- `TypedWhereMeant` holds while the session is `calm`, see `Panes` above, and so does
  `LeavesOthers`: no call adds or closes a pane that is not the session's own,
  moves the first one, or changes which of two others comes first.

The other runs end in a counterexample: the code does what a comment, a message
or the documentation says it does not.

| run | what is said | what happens |
|---|---|---|
| `pipeline_patch` | user.ini:25-26 "If one patch fails system stops" | "Continuing anyway!" (kernel_builder.py:64): the kernel is built without it |
| `pipeline_reuse` | start_kgdb.py:102 "Kernel already built" | a tree with `vmlinux` and no boot image is re-used |
| `images_stale` | debugger.py:75 "Detected changes ... Rebuilding debugger!" | interrupted in between, the next run sees no change and keeps the old image |
| `ctf_symbols` | README.md:138 a CTF challenge needs `--ctf` only | the second challenge is debugged with the first one's `vmlinux` |

`AllGoodPatchesIn` states what holds of patches instead: the others still get in. The
divergences without a run of their own are in the list above, at `Recovery`,
`NoFaultNoFailure` and `LayersWin`.

### Bounds

`MaxFaults` counts what goes wrong in a whole behaviour, over any number of
sessions, which no run bounds. Three in `pipeline_safety` and two elsewhere
suffice for the pairs that matter: a session killed in mid-build and a fault in
the one that follows, beside what the first left.

- `KernelPipeline`: two patches, one of which applies, tell every state of the
  loop apart. Four configurations are what the steps tell apart: the build with
  mrproper, the one without, and one for each command that can fail.
- `DockerImages`: two scripts allow a change and its undoing, which is what a
  hash can miss. Two key pairs allow one loss; `MaxKeys` bounds how often keys are
  made, and so how often they are lost, since `ssh-keygen` itself does not stop.
- `Session`: one builder of an earlier session, since the next one has to start
  while it is alive and already disturbs with it; any number of debuggees one
  after the other. What a user does at will is free of `MaxFaults`: QEMU ends
  when no session is at work, CTRL+C in the wait for the debuggee, `-k` between
  sessions.
- `CustomModules`: two modules and two options allow a module to be renamed, to
  share another's option and to be entered before, after and between; two faults, to
  be cut off twice. Modules and options are only compared, so symmetry is sound.
- `Configuration`: the values of a key are told apart by the file they come from;
  `system.ini` sets none of these keys, as in the repository. `extra_args` has one pair in
  user.ini and up to two in a custom file, over names that are equal, a start, an
  inner part, or no part of each other.
- `Panes`: five panes leave room for two more than a session opens, in which it
  can be started anywhere; when they are full the case without room happens. Panes
  are only compared, so symmetry is sound. How often the user interferes is unbounded.
- `CtfContext`: two kernels with a vmlinux, to be mistaken for each other, and one without.

### Fairness

`KernelPipeline`'s `FairSpec` makes the session's own steps weakly fair: it is a
single thread that blocks only in `wait_for_container` and in prompts, and a
prompt gets an answer. Nothing that goes wrong is fair, nor are the orphan's
steps. `UserSpec` adds a user: who starts full sessions with a configuration that can be
built again and again and sometimes
declines to re-use (strong fairness, since these can be disabled in between by
partial sessions), interrupts a hung wait and kills abandoned containers (weak).
That is an assumption about a person, not about the code, and `Recovery` and
`LogInRepaired` say what the code does for such a person. In
`DockerImages` the user comes back with sessions that build and with `-u 1`.

`Session`'s `FairSpec` is weak fairness of the process, of `kill_session`, of the
debuggee's coming up, of each builder's steps and of each pane's shell: all of
them programs that run on without waiting for each other. The user is not fair
there; `KillClears` asks in its premise for one who kills again and again.

Deadlock is checked in every run but `config`: no state is a dead end, since the
user can always begin again. `Configuration` is a computation that ends, and its
cfg says `CHECK_DEADLOCK FALSE`.

## 4. Proofs

The theorems hold for every value of the constants that satisfies the module's
one assumption (`PipelineAssumption`, `ImagesAssumption`, ...): any sets of patches,
scripts, modules, options, panes and kernels, any choice of faults and any
number of them. They state every safety invariant and every action property that
a passing run checks, and the two refinements.

| module | theorem | statement |
|---|---|---|
| `KernelPipelineProofs` | `Invariance`, `TypeCorrect` | `Spec => []IInv`, `[]TypeOK` |
| | `OneBuilder` | `Spec => []SoleBuilder` |
| | `CleanMake` | `Spec => []CleanTreeAtMake` |
| | `CompleteBuild` | `Spec => []BuiltKernelIsComplete` |
| | `PatchedBuild` | `Spec => []AllGoodPatchesIn` |
| | `KeptTree` | `Spec => TreeIsKept` |
| | `NoSessionFails` | `Spec => []NoFaultNoFailure` |
| | `KeepsPromise` | `Faults \cap Interrupts = {}` implies `Spec => HandsOver` |
| `DockerImagesProofs` | `ImagesInvariance`, `ImagesTypes` | `Spec => []IInv`, `[]TypeOK` |
| | `CurrentScript` | `Spec => []ScriptFollowsEdits` |
| | `ImagesAvailable` | `Spec => []AllCanRun` |
| | `TrueSuccess` | `Spec => []BuildsWhatItReports` |
| `SessionProofs` | `SessionInvariance`, `SessionTypes` | `Spec => []IInv`, `[]TypeOK` |
| | `CompleteKill` | `Spec => []KillIsComplete` |
| | `OwnDebuggee` | `Spec => []AttachesToOwn` |
| | `WholeSystem` | `Spec => []BootsWhole` |
| | `WholeUntilFault` | `Spec => []NoFaultBootsWhole` |
| `CustomModulesProofs` | `ModulesInvariance`, `ModulesTypes` | `Spec => []IInv`, `[]TypeOK` |
| | `ClosedMenu` | `Spec => []MenuIsClosed` |
| | `EveryModuleIn` | `Spec => []AllAskedForIn` |
| | `RegistryIsKept` | `Spec => KeepsRegistry` |
| `PanesProofs` | `PanesInvariance`, `PanesTypes` | `Spec => []IInv`, `[]TypeOK` |
| | `TypedRight` | `Spec => []TypedWhereMeant` |
| | `OthersStay` | `Spec => LeavesOthers` |
| `CtfContextProofs` | `CtfInvariance`, `CtfTypes` | `Spec => []IInv`, `[]TypeOK` |
| | `OwnSymbols` | `Spec => []OwnSymbolsMatch` |
| | `SymbolsFound` | `Spec => []SymbolsIfAny` |
| `ConfigurationProofs` | `ConfigurationInvariance`, `ConfigurationTypes` | `Spec => []IInv`, `[]TypeOK` |
| | `LayersHold` | `Spec => []LayersWin` |
| | `CustomVersion` | `Spec => []CustomVersionWins` |
| | `ExtrasDecide` | `Spec => []ExtraArgsDecide` |

None of the properties is inductive. In each module `IInv` adds what holds
between the steps, and there is one lemma per conjunct of it (`NextBoxes`,
`NextPlaces`, ...), with one step per action that can disturb it.

**KernelPipeline.** `Boxes`: a session owns a container exactly at the builder's
steps, and no orphan exists then; the port check at `StartContainer` gives it,
`SigKill`, which makes an orphan, takes the session's own away. `Places`: where
the unpacker writes there is no tree, and what is compiled has sources; with it
`Move` cannot disturb `TreeIsKept`. `Fresh`: a tree handed over as not dirty was just
unpacked and nobody builds in it; an orphan only makes in a tree with sources,
so while it lives, the unpacker finds a used tree and says so. `Products`: from
the first cleaning command on, the products are gone, and from `link` on each is
there once its step has been done. `Patching`: in the loop every good patch is
in or still to do. `KeepsPromise` is step simulation: under `Uninterrupted` (no
half-done build, which holds when no fault can stop a build between two files)
each step maps to a step of `KernelHandover` or to a stutter. The assumption is
needed: `pipeline_reuse` is the counterexample without it. `CleanMake` needs no such
assumption.
`NoSessionFails` rests on `Supplied`: at each step what that step needs is there
(the archive, and whole, from the end of the download on; the tree with its sources
while the builder works; nothing lying where the archive is extracted). It holds
as long as `faults` is 0, and is what the error paths ask for, so that none of them is
enabled but by a configuration that cannot be built; and it holds of what such a
session leaves.

**DockerImages.** `Places`: which runner can be where (only the builder makes
keys, only the debugger hashes). `Based`: an image has a base below it. `Planned`:
the runner that makes the keys and the base image that may be needed comes
first; only `-u 1` has the builder after the base image. And as long as there was no
fault: `Hashed` (the hash is the script's from when it is written until the debugger
runs, and the image's unless that is about to be rebuilt), `OnePair` (there is one
key pair, and no image is of another), `Available` (once there is a pair no
build of a runner fails for want of its base) and `Failing` (after a build that
failed there is no base image, and nobody left in the plan of this process makes
it: what `TrueSuccess` needs, by `Planned`).

**Session.** `Killing` follows `kill_session`: while the list is worked off,
whatever still runs is on it. `Fresh`: the first session after it finds no
command typed by an earlier one, and whatever has the name is its own. `Undisturbed`:
the one builder owns the work directory, fills it before it makes the image,
and has a full image when it ends. `NotYet`: nothing is typed or booted before
that. `BootsWhole` rests on the last two. `Untroubled` is about all sessions together: as
long as `faults` is 0 a builder has ended when its session goes on, so between sessions
the image is whole or absent, and a re-used one is what the last builder made.

**CustomModules.** `DoneIsIn`: what is done with is in both files. `Menu`: the file
is the menu around the modules. `Once`: no module has two lines with their newlines,
even in what is left of a file that was cut off; a second one without can only be the
last line. `UnderItsOption`: a module that is done with has its
line under the option it has now; it goes from the copy to the Makefile, and the
user edits between sessions. `EveryModuleIn` is the three at `Build`. The proofs rest on lemmas about what `InsertAt`
before the last line and a cut-off copy of the result contain (`InsertedWhere`,
`InsertedThere`, `InsertedOnce`, `CutLines`). `RegistryIsKept` is step simulation: only
`AddToMakefile` and `AddToKconfig` register, `CutWrite` and `Unpack` lose, `Build` is
enabled only when `todo` is empty, which with `DoneIsIn` is the abstract guard.

**Panes.** `Before`, `Stage5`, `Between` and `Stage6` say where the session's panes are
between two calls: the debuggee's has number 1 from its split until its command
is typed, the debugger's comes after the first and is swapped to number 2. The
lemmas `Inserted` and `Removed` say what opening and closing a pane does to the
numbers of the others. For `LeavesOthers` they give `OpenedOrder`: of two panes that are
not the new one, the same comes first as before. `swap-pane` does change an order, of
the panes with numbers 1 and 2 and no other (`SwappedOrder`); `Plan` says that
one of them is the debugger's when the call is made.

**CtfContext.** `Extracted`: GDB has nothing loaded while a session is at work, and
from the end of an extraction until GDB starts nobody else writes the file. When
GDB starts there is a vmlinux with something in it, or the booted image holds none, or
the session's own extraction failed; `SymbolsIfAny` is that, carried on to what GDB has loaded.

**Configuration.** `Layers` follows the files: before user.ini is read nothing is set,
and from then on `Merged` says of each option whether it is set and by which file:
by the custom one if that has a value for it, else by user.ini, whose empty values
count unless the custom file has the name of an earlier one (`Early`). `LayersHold` is
this when all are read. `Chosen` remembers why the version was chosen; `CustomVersion`
takes it together with `Merged`. For `ExtrasDecide`, `Decided(n)` is an invariant of the loop in
`_extra_args`, about each option for itself: either no pair so far has named it and
it is as the mode has it, or the last one that named it decided about it. One turn keeps this
(`ExtraArgDecides`) since a pair rewrites the option's last entry, or appends one
when there is none, and touches the entries of no option it is not the start of.
What an option is in a sequence of arguments is said by its last entry
(`Effective`); that there is one (`HasLast`) needs the greatest element of a finite
set of positions, which `Greatest` gets from the well-foundedness of `<` on `Nat`.

Only model-checked: all liveness (`OnlyWaitHangs`, `Recovery`,
`LogInRepaired`, `EveryRunEnds`, `KillClears`), since TLAPS reasons neither about
fairness nor about ENABLED. None of the modules has a RECURSIVE operator, and no property is about what
a recursive definition computes: `LeavesOthers` compares positions (`Precedes`), where
filtering the window would need an induction over it.

## 5. Plan

Done: stages 1-3, images, stages 4-6 with `kill_session`, the root file system, custom
modules, tmux panes, CTF files, configuration; proofs of every safety property
that is checked. Left, in this order:

1. Two sessions at once in one window: their tmux calls interleaved, where now
   only the user's are; and two in `Session`, where now `-k` and what earlier
   ones left come between.
2. SIGKILL that leaves `extract-vmlinux.sh` running beside the next session.
3. `rootfs.sh` makes a key pair of its own for the file system; it is replaced
   before the image that holds its other half.
4. A composition of `KernelPipeline`, `DockerImages` and `Session` over one
   process, to check exit codes of whole sessions.

## 6. Reading a definition

Definitions keep the source's names where one exists. Every one that models code
is in `PROJECT.json` under `map`, with its lines. The definitions named `Bug...`
stand for a plausible mistake in the definition after them; no action uses
them. A variable marked as ghost is read by properties and by other ghosts only.

## 7. Not modelled, and why

- The QEMU and GDB command lines as text, the kernel's parameters, yes/no values
  as booleans, the names of architectures and toolchains, progress bars and
  logging: data without an effect on control. Of the QEMU command only the file
  system's type decides about what happens next.
- In `_extra_args`: `--set-val` and an odd number of words in `extra_args`. In
  `_custom_args`: the `-e` or `-d` that an empty list leaves without a name.
- `is_reuse`'s answer, which is free wherever it is asked, and `-y`, which fixes it.
- `init_ssh`'s retry loop: a fabric `Connection` does not connect when it is made,
  so the loop leaves at its first turn, and a login that fails is a command that
  fails. `pull_image` has no caller.
- The exit code of `-u`: the `exit(0)` in its `finally` replaces every other
  (start_kgdb.py:241), so there is no behaviour in which it differs.
- The names of the tmux session and window, and the copies in `/tmp/like_<uuid>`
  that nobody removes.
- `Session` takes images and a kernel for granted; see the end of the list of
  modules above.
- `debugger.sh` and the tool installation (run inside a container or an image
  build, keep nothing); packages in the images; the stand-alone tools of
  `ctf/misc`, of which `extract-vmlinux.sh` is modelled by what it writes; the
  examples, tests, `kb`, and continuous integration.
