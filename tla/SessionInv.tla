------------------------------- MODULE SessionInv -------------------------------
(***************************************************************************)
(* What is true between any two steps of Session and makes its safety      *)
(* properties inductive.                                                   *)
(***************************************************************************)
EXTENDS Session

\* While the last kill_session stands, the process it came from does nothing,
\* and what still runs is what it has still to stop.
Killing ==
    /\ pc = "killed" => kill # "no"
    /\ clear = "killed" => pc \in {"idle", "killed"}
    /\ clear = "killed" /\ kill = "stop" => Running \subseteq listed
    /\ clear = "killed" /\ kill = "panes" => Running = {}
    /\ clear = "killed" /\ kill = "no" => Quiet

\* The first session after it finds no command an earlier one has typed.
Fresh ==
    clear = "fresh" => "old" \notin typed /\ (vm # "none" => booted # "none")

\* The builder of a session nothing disturbs owns its directory and the image,
\* and nothing is booted before it is done.
Undisturbed ==
    /\ alone => ~ctf /\ box["old"] = "none"
    /\ alone /\ box["own"] = "debootstrap" => mnt = "own"
    /\ alone /\ box["own"] \in {"dd", "mkfs", "copy"} => mnt = "full"
    /\ alone /\ box["own"] = "none" => fs = "full"

NotYet ==
    /\ pc = "fs" => ~ctf /\ ~alone /\ box["own"] = "none"
    /\ pc = "fs" \/ (alone /\ box["own"] # "none")
           => "own" \notin typed /\ booted = "none"
    /\ alone /\ box["own"] # "none" => pc \in {"logs", "idle", "killed"}

\* As long as nothing goes wrong a builder has ended when its session goes on, and
\* the image in io/ is what the last one made.
Whole ==
    /\ box["old"] = "none"
    /\ box["own"] # "none" => pc = "logs" /\ alone
    /\ kill # "no" => pc \in {"idle", "killed"}
    /\ box["own"] = "none" => fs \in {"absent", "full"}
    /\ "own" \in typed => ctf \/ fs = "full"
    /\ booted \in {"none", "ctf", "full"}
Untroubled == faults = 0 => Whole

IInv ==
    /\ TypeOK
    /\ Killing
    /\ Fresh
    /\ Undisturbed
    /\ NotYet
    /\ BootsWhole
    /\ Untroubled
=================================================================================
