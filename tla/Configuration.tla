----------------------------- MODULE Configuration -----------------------------
(***************************************************************************)
(* How an object of a session gets its options: cfg_setter (misc.py) reads *)
(* configs/system.ini, configs/user.ini and the file given with -c into    *)
(* one ConfigParser and copies what that holds to the object after each of *)
(* them.  With them KernelDownloader chooses the version of the kernel,    *)
(* and KernelBuilder puts together the arguments of scripts/config, into   *)
(* which _extra_args works the user's own.                                 *)
(*                                                                         *)
(* An ini file is a function on the keys it holds; values are sequences,   *)
(* <<>> for an empty one.  Arguments are pairs of a flag and an option;    *)
(* that the code searches them as text is modelled by which option's name  *)
(* is Part of which, or its Start.                                         *)
(***************************************************************************)
EXTENDS Naturals, Sequences

CONSTANTS
    Symbols,     \* options of a kernel's configuration
    Part,        \* pairs of options, the first's name part of the second's
    Start,       \* the same, at its start
    BaseArgs,    \* what a mode asks of scripts/config
    UserExtras,  \* values of extra_args in user.ini
    CustomExtras \* values of extra_args in the file given with -c

VersionKeys == {"mmp", "tag", "commit"}
BuildKeys == {"mode", "extra_args"}
Modes == {"generic", "syzkaller", "custom", "config"}
Files == {"system", "user", "custom"}
Flags == {"-e", "-d", "--set-val"}

ASSUME ConfigurationAssumption ==
    /\ Start \subseteq Part
    /\ \A n \in Symbols : <<n, n>> \in Start
    /\ BaseArgs \in [Modes -> Seq(Flags \X Symbols)]
    /\ UserExtras \cup CustomExtras \subseteq Seq({"-e", "-d"} \X Symbols)

VARIABLES
    who,     \* "downloader" or "builder": whose options they are
    given,   \* the file of -c: "none", "absent" (no such file), or "there"
    name,    \* the file it has the name of: "system", "user" or neither
    partial, \* -p 1
    ini,     \* the files
    queue,   \* files to be read
    cfg,     \* the ConfigParser
    ignore,  \* ignore_empty
    obj,     \* the object's options, if they are set
    pc,
    choice,  \* the version chosen: the key and its value
    params,  \* arguments of scripts/config
    idx      \* pair of extra_args _extra_args is at

inputs == <<who, given, name, partial, ini>>
reading == <<queue, cfg, ignore, obj>>
vars == <<inputs, reading, pc, choice, params, idx>>

-------------------------------------------------------------------------------
\* Inputs.

\* Files with some of the keys, each empty or as this file has it.
Versions(f) ==
    UNION { [ks -> {<<>>, <<f>>}] : ks \in SUBSET VersionKeys }

\* user.ini names a mode; a custom file sets extra_args or does not.
Builds(f) ==
    IF f = "user"
      THEN { [mode |-> <<m>>, extra_args |-> e] : m \in Modes, e \in UserExtras }
      ELSE { <<>> } \cup { [extra_args |-> e] : e \in CustomExtras }

\* stage1() is called without arguments when that is all there is to do.
Path == IF partial \/ given = "none" THEN "none" ELSE given

Init ==
    /\ who \in {"downloader", "builder"}
    /\ given \in {"none", "absent", "there"}
    /\ name \in IF given = "none" THEN {"neither"} ELSE {"system", "user", "neither"}
    /\ partial \in IF who = "downloader" THEN BOOLEAN ELSE {FALSE}
    /\ \E u \in IF who = "downloader" THEN Versions("user") ELSE Builds("user"),
          c \in IF given # "there" THEN {<<>>}
                ELSE IF who = "downloader" THEN Versions("custom") ELSE Builds("custom") :
           ini = [f \in Files |-> CASE f = "system" -> <<>> [] f = "user" -> u [] f = "custom" -> c]
    /\ queue = IF Path = "there" THEN <<"system", "user", "custom">> ELSE <<"system", "user">>
    /\ cfg = <<>> /\ ignore = FALSE /\ obj = <<>>
    /\ pc = "read"
    /\ choice = <<>> /\ params = <<>> /\ idx = 1

-------------------------------------------------------------------------------
\* cfg_setter, one file at a time.

\* f's keys, and those of g that f does not hold.
Over(f, g) == [k \in DOMAIN f \cup DOMAIN g |-> IF k \in DOMAIN f THEN f[k] ELSE g[k]]

\* The custom file's own turn, or that of a file of the same name.
IsCustom(f) == Path # "none" /\ f \in {"custom", name}

BugIgnores(f) == FALSE
Ignores(f) == ignore \/ IsCustom(f)

ReadFile ==
    /\ pc = "read" /\ queue # <<>>
    /\ LET f == Head(queue) IN
       /\ queue' = Tail(queue)
       /\ ignore' = Ignores(f)
       /\ cfg' = Over(ini[f], cfg)
       /\ obj' = Over([k \in { k \in DOMAIN cfg' : ignore' => cfg'[k] # <<>> } |-> cfg'[k]], obj)
    /\ UNCHANGED <<inputs, pc, choice, params, idx>>

\* What is not set is an AttributeError when it is asked for.
BugNeeded == {}   \* taken for empty instead
Needed == IF who = "downloader" THEN VersionKeys ELSE BuildKeys
Loaded ==
    /\ pc = "read" /\ queue = <<>>
    /\ pc' = IF ~(Needed \subseteq DOMAIN obj) THEN "crashed"
             ELSE IF who = "downloader" THEN "choose" ELSE "params"
    /\ UNCHANGED <<inputs, reading, choice, params, idx>>

-------------------------------------------------------------------------------
\* KernelDownloader: _set_commit, _set_choice.

Set(key) == obj[key] # <<>>

BugPriority == <<"tag", "mmp", "commit">>
Priority == <<"mmp", "tag", "commit">>

ChosenKeys == { i \in 1 .. 3 : Set(Priority[i]) /\ \A j \in 1 .. i - 1 : ~Set(Priority[j]) }
Choose ==
    /\ pc = "choose"
    /\ \/ /\ \E i \in ChosenKeys : choice' = <<Priority[i]>> \o obj[Priority[i]]
          /\ pc' = "done"
       \/ /\ ChosenKeys = {}              \* _resolve_latest, or it finds none
          /\ \/ choice' = <<"latest">> /\ pc' = "done"
             \/ pc' = "exit" /\ UNCHANGED choice
    /\ UNCHANGED <<inputs, reading, params, idx>>

-------------------------------------------------------------------------------
\* KernelBuilder: _configure_kernel, _get_params, _extra_args.

Extra == obj["extra_args"]

GetParams ==
    /\ pc = "params"
    /\ params' = BaseArgs[obj["mode"][1]]
    /\ pc' = "extra"
    /\ UNCHANGED <<inputs, reading, choice, idx>>

\* `splt[idx] in params`
Mentioned(n) == \E i \in DOMAIN params : <<n, params[i][2]>> \in Part

\* re.sub on "-e" or "-d" before the name, or before one that starts with it
BugRewritten(flag, n) ==   \* only -e
    [i \in DOMAIN params |->
        IF params[i][1] = "-e" /\ <<n, params[i][2]>> \in Start
          THEN <<flag, params[i][2]>> ELSE params[i]]
Rewritten(flag, n) ==
    [i \in DOMAIN params |->
        IF params[i][1] \in {"-e", "-d"} /\ <<n, params[i][2]>> \in Start
          THEN <<flag, params[i][2]>> ELSE params[i]]

ExtraArg ==
    /\ pc = "extra" /\ idx <= Len(Extra)
    /\ LET flag == Extra[idx][1]
           n == Extra[idx][2]
       IN params' = IF Mentioned(n) THEN Rewritten(flag, n) ELSE Append(params, <<flag, n>>)
    /\ idx' = idx + 1
    /\ UNCHANGED <<inputs, reading, pc, choice>>

\* scripts/config without an argument prints its usage and fails, and with it
\* the session.
Configure ==
    /\ pc = "extra" /\ idx > Len(Extra)
    /\ pc' = IF params = <<>> THEN "exit" ELSE "done"
    /\ UNCHANGED <<inputs, reading, choice, params, idx>>

Next == ReadFile \/ Loaded \/ Choose \/ GetParams \/ ExtraArg \/ Configure

Spec == Init /\ [][Next]_vars

-------------------------------------------------------------------------------
\* Properties.

\* Options are set before they are used, and only those a file holds; the
\* arguments stay flags and options, through every rewriting.
TypeOK ==
    /\ pc \in {"read", "choose", "params", "extra", "done", "exit", "crashed"}
    /\ DOMAIN obj \subseteq DOMAIN cfg
    /\ DOMAIN cfg \subseteq VersionKeys \cup BuildKeys
    /\ pc = "choose" => VersionKeys \subseteq DOMAIN obj
    /\ pc \in {"params", "extra"} =>
           BuildKeys \subseteq DOMAIN obj /\ idx \in 1 .. Len(Extra) + 1
    /\ params \in Seq(Flags \X Symbols)

\* An option is what the last file that has a say in it says, however they were
\* read (misc.py:20-61, start_kgdb.py:117): a custom file has one where its value
\* is not empty.  The code also tells the custom file by its bare name, so empty
\* values of a file of that name, and of those read after it, have none either.
\* Of -c beside -p 1 nothing is claimed: the file is not read
\* (start_kgdb.py:205), whatever the usage says.
Quiet(f) == f = "custom" \/ name \in {"system", f}
HasSay(f, k) == k \in DOMAIN ini[f] /\ (Quiet(f) => ini[f][k] # <<>>)
LayersWin ==
    queue = <<>> /\ (partial => given = "none") =>
        \A k \in VersionKeys \cup BuildKeys :
            LET from == IF HasSay("custom", k) THEN "custom"
                        ELSE IF HasSay("user", k) THEN "user" ELSE "system"
            IN IF HasSay(from, k) THEN k \in DOMAIN obj /\ obj[k] = ini[from][k]
               ELSE k \notin DOMAIN obj

\* The version a custom file names is the one that is downloaded, whatever key
\* it names it by, unless user.ini names one by a key that goes before
\* (linux_kernel_dl.py:28-56, user.ini:9).  `-p 1` reads no custom file.
Names(f, k) == k \in DOMAIN ini[f] /\ ini[f][k] # <<>>
CustomVersionWins ==
    pc = "done" /\ who = "downloader" /\ ~partial =>
        \A k \in { k \in VersionKeys : Names("custom", k) } :
            \/ choice = <<k, "custom">>
            \/ \E h \in VersionKeys : choice[1] = h /\ <<h, k>> \in
                   {<<"mmp", "tag">>, <<"mmp", "commit">>, <<"tag", "commit">>}

\* extra_args decides about the options it names and no others, whatever mode
\* and however often (user.ini:45-46), unless names are parts of each other
\* or the mode gives the option a value (kernel_builder.py:103-116).
Options(args) == { args[i][2] : i \in DOMAIN args }
Effective(args, n) ==   \* scripts/config applies one after the other
    LET is == { i \in DOMAIN args : args[i][2] = n } IN
    IF is = {} THEN "none" ELSE args[CHOOSE i \in is : \A j \in is : j <= i][1]
Before == BaseArgs[obj["mode"][1]]
Asked == Options(Extra)
Started(n) == \E m \in Asked \ {n} : <<m, n>> \in Start
Within(n) == \E m \in (Options(Before) \cup Asked) \ {n} : <<n, m>> \in Part
ExtraArgsDecide ==
    pc = "done" /\ who = "builder" =>
        \A n \in Options(Before) \cup Asked :
            Started(n) \/ Effective(params, n) =
                IF n \notin Asked THEN Effective(Before, n)
                ELSE IF Within(n) \/ Effective(Before, n) = "--set-val"
                       THEN Effective(params, n)
                       ELSE Effective(Extra, n)
================================================================================
