----------------------------- MODULE DockerImages -----------------------------
(***************************************************************************)
(* How DockerRunner and its four subclasses get the image they run         *)
(* (docker_runner.py), with the two things baked into images that can grow *)
(* stale: the public SSH key, copied into the base image and inherited     *)
(* from there, and the user's gdb_script, copied into the debugger's.      *)
(*                                                                         *)
(* Images, keys and .gdb_hist outlive the process.  A build that fails is  *)
(* an entry in the log the daemon streams, or an APIError that becomes a   *)
(* return code nobody looks at: the process goes on, with the image the    *)
(* tag named before, if any.                                               *)
(***************************************************************************)
EXTENDS Naturals, Sequences

CONSTANTS
    Forced,     \* containers with force_rebuild = yes
    Scripts,    \* contents io/scripts/gdb_script may have
    MaxKeys,    \* bound on the key pairs ever made
    Faults,     \* what may go wrong
    MaxFaults   \* how often

Runners == {"kbuilder", "rootfs", "debuggee", "debugger"}

ImageFaults ==
    { "build"   \* building an image fails
    , "stop"    \* the process is interrupted
    , "keyloss" \* .ssh is removed
    , "edit"    \* gdb_script is edited while a session is at work
    }

NoScript == "none"

ASSUME ImagesAssumption ==
    /\ Forced \subseteq Runners
    /\ NoScript \notin Scripts
    /\ MaxKeys \in Nat \ {0}
    /\ Faults \subseteq ImageFaults
    /\ MaxFaults \in Nat

VARIABLES
    private,  \* which key pair .ssh/like.id_rsa is of; 0: no file
    public,   \* the same of like.id_rsa.pub
    made,     \* key pairs made so far
    base,     \* key in like_dbg_base; 0: no such image
    image,    \* key in the image of each runner; 0: no such image
    baked,    \* gdb_script in the debugger's image
    script,   \* gdb_script now
    hist,     \* .gdb_hist: the script whose hash was written last
    mode,     \* "session", "ctf", "partial" or "update"
    queue,    \* runners the process has still to run
    pc,       \* where DockerRunner.run is with the first of them
    forced,   \* .force_rebuild of that runner
    failed,   \* a build of this process has failed
    code,     \* exit code of the last process
    faults

keys == <<private, public, made>>
images == <<base, image, baked>>
plan == <<mode, queue>>
vars == <<keys, images, script, hist, plan, pc, forced, failed, code, faults>>

Values ==
    /\ {private, public, made, base} \subseteq 0 .. MaxKeys
    /\ image \in [Runners -> 0 .. MaxKeys]
    /\ script \in Scripts
    /\ {hist, baked} \subseteq Scripts \cup {NoScript}
    /\ mode \in {"session", "ctf", "partial", "update"}
    /\ queue \in Seq(Runners \cup {"base"})
    /\ pc \in {"idle", "next", "keys", "keypair", "gdb", "check", "base", "build", "run", "up"}
    /\ code \in {"none", "0", "1", "-1", "-2", "killed"}
    /\ faults \in 0 .. MaxFaults
Flags == forced \in BOOLEAN /\ failed \in BOOLEAN
TypeOK == Values /\ Flags

Init ==
    /\ private = 0 /\ public = 0 /\ made = 0
    /\ base = 0
    /\ image = [r \in Runners |-> 0]
    /\ baked = NoScript
    /\ script \in Scripts
    /\ hist = NoScript
    /\ mode = "session" /\ queue = <<>>
    /\ pc = "idle" /\ forced = FALSE /\ failed = FALSE
    /\ code = "none"
    /\ faults = 0

-------------------------------------------------------------------------------
\* Helpers.

Fault(kind) == kind \in Faults /\ faults < MaxFaults /\ faults' = faults + 1

At(step) == pc = step /\ queue # <<>>
Runner == Head(queue)

Goto(step) == pc' = step /\ UNCHANGED <<plan, code>>

\* This runner is done; the next one is constructed.
Proceed == pc' = "next" /\ queue' = Tail(queue) /\ UNCHANGED <<mode, code>>

BugExit(c) ==   \* what was planned is not forgotten, and nothing can begin
    pc' = "exited" /\ code' = c /\ UNCHANGED plan
Exit(c) == pc' = "idle" /\ queue' = <<>> /\ code' = c /\ UNCHANGED mode

\* What the stages of start_kgdb.py run, and what -u rebuilds.  The builder is
\* left out when the kernel is re-used, the root file system when it is.  -p 1
\* and -p 2 run none of them, and -u 6 is accepted and does nothing.
Builds == { b \o f : b \in {<<>>, <<"kbuilder">>}, f \in {<<>>, <<"rootfs">>} }
BugPlans(m) ==   \* -u 1 forgets the base image
    IF m = "update" THEN {<<"kbuilder", "rootfs", "debuggee", "debugger">>}
    ELSE {<<"kbuilder", "debuggee", "debugger">>}
BugUpdatePlans(m) ==   \* -u 1 builds the base image last
    IF m = "update" THEN {<<"kbuilder", "rootfs", "debuggee", "debugger", "base">>}
    ELSE {<<"kbuilder", "debuggee", "debugger">>}
Plans(m) ==
    CASE m = "session" -> { b \o <<"debuggee", "debugger">> : b \in Builds }
      [] m = "ctf"     -> { <<"debuggee", "debugger">> }
      [] m = "partial" -> { <<>>, <<"kbuilder">>, <<"rootfs">> }
                            \cup { b \o <<"debuggee">> : b \in Builds }
      [] m = "update"  -> { <<"base", "kbuilder", "rootfs", "debuggee", "debugger">>, <<>> }
                            \cup { <<r>> : r \in Runners }

-------------------------------------------------------------------------------
\* The process.

Begin(m) ==
    /\ pc = "idle"
    /\ mode' = m
    /\ queue' \in Plans(m)
    /\ pc' = "next"
    /\ failed' = FALSE
    /\ UNCHANGED <<keys, images, script, hist, forced, code, faults>>

\* Only KernelBuilder's constructor makes sure that there is a key pair, and
\* it only looks for the private one.
Construct ==
    /\ At("next")
    /\ forced' = (Runner \in Forced)
    /\ Goto(CASE Runner = "base"                         -> "base"
              [] Runner = "kbuilder" /\ private = 0      -> "keys"
              [] Runner = "debugger"                     -> "gdb"
              [] OTHER                                   -> "check")
    /\ UNCHANGED <<keys, images, script, hist, failed, faults>>

\* ssh-keygen writes the private key first.
WritePrivate ==
    /\ At("keys")
    /\ made < MaxKeys
    /\ made' = made + 1
    /\ private' = made'
    /\ Goto("keypair")
    /\ UNCHANGED <<public, images, script, hist, forced, failed, faults>>

WritePublic ==
    /\ At("keypair")
    /\ public' = private
    /\ Goto("check")
    /\ UNCHANGED <<private, made, images, script, hist, forced, failed, faults>>

\* .gdb_hist is written before anything is built.
BugHandleGdbChange ==   \* only ever written once
    /\ At("gdb")
    /\ forced' = (forced \/ hist \notin {NoScript, script})
    /\ hist' = IF hist = NoScript THEN script ELSE hist
    /\ Goto("check")
    /\ UNCHANGED <<keys, images, script, failed, faults>>
HandleGdbChange ==
    /\ At("gdb")
    /\ forced' = (forced \/ hist \notin {NoScript, script})
    /\ hist' = script
    /\ Goto("check")
    /\ UNCHANGED <<keys, images, script, failed, faults>>

\* A build fails for want of its base (FROM) or of a file it copies.
CanBuildBase == public # 0
CanBuild == base # 0

\* Where run() goes when there is no image to use.
BugToBuild == "build"   \* is_base_image is not asked
ToBuild == IF base = 0 THEN "base" ELSE "build"

\* DockerRunner.check_existing, and is_reuse when it asks.  RootFSBuilder has
\* looked for its image itself and does not ask.
CheckExisting ==
    /\ At("check")
    /\ \/ mode = "update" /\ Goto("build")
       \/ mode # "update" /\ ~forced /\ image[Runner] # 0 /\ Goto("run")
       \/ /\ mode # "update"
          /\ forced \/ image[Runner] = 0 \/ Runner # "rootfs"
          /\ Goto(ToBuild)
    /\ UNCHANGED <<keys, images, script, hist, forced, failed, faults>>

BuildBase ==
    /\ At("base")
    /\ \/ CanBuildBase /\ base' = public /\ UNCHANGED <<failed, faults>>
       \/ ~CanBuildBase /\ failed' = TRUE /\ UNCHANGED <<base, faults>>
       \/ Fault("build") /\ failed' = TRUE /\ UNCHANGED base
    /\ IF Runner = "base" THEN Proceed ELSE Goto("build")
    /\ UNCHANGED <<keys, image, baked, script, hist, forced>>

BuildImage ==
    /\ At("build")
    /\ \/ /\ CanBuild
          /\ image' = [image EXCEPT ![Runner] = base]
          /\ baked' = IF Runner = "debugger" THEN script ELSE baked
          /\ UNCHANGED <<failed, faults>>
       \/ ~CanBuild /\ failed' = TRUE /\ UNCHANGED <<image, baked, faults>>
       \/ Fault("build") /\ failed' = TRUE /\ UNCHANGED <<image, baked>>
    /\ IF mode = "update" THEN Proceed ELSE Goto("run")
    /\ UNCHANGED <<keys, base, script, hist, forced>>

\* The builder logs in with the private key.
CanLogIn == image["kbuilder"] # 0 /\ image["kbuilder"] = private

\* The debugger's container is started by the shell of a tmux pane: whether
\* that works is not seen.
RunContainer ==
    /\ At("run")
    /\ CASE Runner = "kbuilder" -> IF CanLogIn THEN Proceed ELSE Exit("-2")
         [] Runner = "rootfs"   -> IF image["rootfs"] # 0 THEN Proceed ELSE Exit("-1")
         [] Runner = "debuggee" -> IF image["debuggee"] # 0 THEN Proceed ELSE Exit("1")
         [] OTHER               -> Proceed
    /\ UNCHANGED <<keys, images, script, hist, forced, failed, faults>>

\* Everything has been run.  -u reports "Success!", a partial run exits.
Done ==
    /\ pc = "next" /\ queue = <<>>
    /\ pc' = "up"
    /\ UNCHANGED <<keys, images, script, hist, plan, forced, failed, code, faults>>

End ==
    /\ pc = "up"
    /\ Exit("0")
    /\ UNCHANGED <<keys, images, script, hist, forced, failed, faults>>

-------------------------------------------------------------------------------
\* From outside.

Stop ==
    /\ pc \notin {"idle", "up"}
    /\ Fault("stop")
    /\ Exit("killed")
    /\ UNCHANGED <<keys, images, script, hist, forced, failed>>

LoseKeys ==
    /\ pc = "idle"
    /\ private # 0
    /\ made < MaxKeys
    /\ Fault("keyloss")
    /\ private' = 0 /\ public' = 0
    /\ UNCHANGED <<made, images, script, hist, plan, pc, forced, failed, code>>

Edit ==
    /\ script' \in Scripts \ {script}
    /\ IF pc \in {"idle", "up"} THEN UNCHANGED faults ELSE Fault("edit")
    /\ UNCHANGED <<keys, images, hist, plan, pc, forced, failed, code>>

Process ==
    \/ Construct \/ WritePrivate \/ WritePublic \/ HandleGdbChange \/ CheckExisting
    \/ BuildBase \/ BuildImage \/ RunContainer \/ Done \/ End

Modes == {"session", "ctf", "partial", "update"}

Next == (\E m \in Modes : Begin(m)) \/ Process \/ Stop \/ LoseKeys \/ Edit

Spec == Init /\ [][Next]_vars

\* The process runs on; its user comes back, for sessions that build and for
\* `-u 1`.
UserSpec ==
    /\ Spec
    /\ WF_vars(Process)
    /\ SF_vars(Begin("session") /\ Head(queue') = "kbuilder")
    /\ SF_vars(Begin("update") /\ queue' # <<>> /\ Head(queue') = "base")

-------------------------------------------------------------------------------
\* Properties.

\* The debugger runs with the gdb_script the user sees: gdb_script:2, "This
\* will require rebuilding the debugger container", and debugger.py:75 says
\* "Detected changes ... Rebuilding debugger!".
ScriptIsCurrent ==
    At("run") /\ Runner = "debugger" /\ image["debugger"] # 0 => baked = script

\* So it does as long as nothing stops a process between .gdb_hist and the
\* rebuild or fails that, and nobody edits the script between its hash and the
\* COPY of the build; however it is edited between sessions, in whatever order
\* the modes come and whatever prompts are answered
\* (debugger.py:66-83, docker_runner.py:151-163).
ScriptFollowsEdits == faults = 0 => ScriptIsCurrent

\* With no build failing and the key pair never lost, every runner of every
\* mode has an image when it comes to run, and the builder one it can log in
\* to, in whatever order sessions, partial runs and updates came before
\* (docker_runner.py:112-126).  Before there is a key pair none need have one.
AllCanRun ==
    At("run") /\ faults = 0 /\ private # 0
        => image[Runner] # 0 /\ (Runner = "kbuilder" => CanLogIn)

\* A user who has lost the key pair gets to build again: some `-u 1`, at the
\* latest the one after a new pair was made, brings it into the builder's
\* image (docker_runner.py:39-47,109-110, start_kgdb.py:222-227).  Only a
\* private key without its public half is never repaired.
HalfPair == private # 0 /\ public = 0
LogInRepaired ==
    <>[]HalfPair \/ []<>(At("run") /\ Runner = "kbuilder" /\ CanLogIn)

\* No mode that runs to its end has had a build fail, so "Success!" is true
\* (start_kgdb.py:236), unless something went wrong outside or there is no base
\* image even now.  That is -u on a fresh host: `-u 1` has no public key to copy
\* into the base image, since the builder that makes it comes second, and
\* `-u 2` to `-u 5` do not build the base image.
BuildsWhatItReports == pc = "up" /\ faults = 0 /\ base # 0 => ~failed
===============================================================================
