----------------------------- MODULE DockerImagesInv -----------------------------
(***************************************************************************)
(* What is true between any two steps of DockerImages and makes its safety *)
(* properties inductive.                                                   *)
(***************************************************************************)
EXTENDS DockerImages

\* Where the process can be with which runner.
Places ==
    /\ pc \in {"keys", "keypair", "gdb", "check", "base", "build", "run"} => queue # <<>>
    /\ pc \in {"keys", "keypair", "gdb", "check", "build", "run"} => Runner \in Runners
    /\ pc \in {"keys", "keypair"} => Runner = "kbuilder"
    /\ pc = "gdb" => Runner = "debugger"
    /\ pc = "run" => mode # "update"

\* An image has a base image below it.
Based == \A r \in Runners : image[r] # 0 => base # 0

\* The hash is the script's from when it is written until the debugger runs,
\* and the image's unless it is about to be built.
Rebuilding ==
    /\ At("check") \/ At("base") \/ At("build")
    /\ Runner = "debugger"
    /\ forced \/ mode = "update"

Hashed ==
    /\ pc \in {"check", "base", "build", "run"} /\ Runner = "debugger" => hist = script
    /\ image["debugger"] # 0 => hist \in Scripts
    /\ image["debugger"] # 0 /\ ~Rebuilding => baked = hist

\* There is one key pair, and no image is older than it.
OnePair ==
    /\ private = made /\ made \in {0, 1}
    /\ pc = "keys" => private = 0
    /\ pc = "keypair" => public = 0 /\ base = 0
    /\ pc # "keypair" => public = private
    /\ base \in {0, private}
    /\ \A r \in Runners : image[r] \in {0, base}

\* Once there is a pair no build fails, and what is run has an image.
Available ==
    /\ pc = "build" /\ mode # "update" /\ private # 0 => base # 0
    /\ pc = "run" /\ private # 0 => image[Runner] # 0

\* Only the first runner that is planned may make keys or the base image, but
\* for -u 1, which has the builder second.
Later(i) == queue[i] # "base" /\ (mode # "update" => queue[i] # "kbuilder")
Planned ==
    /\ \A i \in 2 .. Len(queue) : Later(i)
    /\ mode # "update" /\ queue # <<>> => Runner # "base"
    /\ mode = "update" /\ pc = "base" => Runner = "base"
    /\ pc \in {"keypair", "check", "base", "build", "run"} /\ Runner = "kbuilder"
           => private # 0

\* After a build that failed there is no base image, and this process will not
\* make it.
Failing ==
    failed /\ pc # "idle" =>
        /\ base = 0
        /\ \A i \in 1 .. Len(queue) : Later(i)
        /\ mode # "update" => public = 0

IInv ==
    /\ TypeOK
    /\ Places
    /\ Based
    /\ Planned
    /\ faults = 0 => Hashed /\ OnePair /\ Available /\ Failing
==================================================================================
