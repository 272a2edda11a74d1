---------------------------- MODULE ConfigurationInv ----------------------------
(***************************************************************************)
(* What is true between any two steps of Configuration and makes its       *)
(* properties inductive.                                                   *)
(***************************************************************************)
EXTENDS Configuration

\* What the files hold; they do not change.
Held ==
    /\ who \in {"downloader", "builder"} /\ partial \in BOOLEAN
    /\ given \in {"none", "absent", "there"}
    /\ name \in {"system", "user", "neither"}
    /\ given = "none" => name = "neither"
    /\ DOMAIN ini["system"] = {}
    /\ given # "there" => DOMAIN ini["custom"] = {}
    /\ who = "downloader" =>
           \A f \in {"user", "custom"} :
               /\ DOMAIN ini[f] \subseteq VersionKeys
               /\ \A k \in DOMAIN ini[f] : ini[f][k] \in {<<>>, <<f>>}
    /\ who = "builder" =>
           /\ DOMAIN ini["user"] = BuildKeys
           /\ \E m \in Modes : ini["user"]["mode"] = <<m>>
           /\ ini["user"]["extra_args"] \in UserExtras
           /\ DOMAIN ini["custom"] \subseteq {"extra_args"}
           /\ \A k \in DOMAIN ini["custom"] : ini["custom"][k] \in CustomExtras

\* Where each option of the object comes from, once user.ini has been read.
Early == IsCustom("system") \/ IsCustom("user")
UserSets(k) == k \in DOMAIN ini["user"] /\ (Early => ini["user"][k] # <<>>)
CustomSets(k) ==
    queue = <<>> /\ Path = "there" /\ k \in DOMAIN ini["custom"] /\ ini["custom"][k] # <<>>

Rest == IF Path = "there" THEN <<"custom">> ELSE <<>>
Untouched == DOMAIN cfg = {} /\ DOMAIN obj = {}
Merged ==
    /\ DOMAIN cfg = DOMAIN ini["user"] \cup
                    (IF queue = <<>> /\ Path = "there" THEN DOMAIN ini["custom"] ELSE {})
    /\ queue # <<>> =>
           ignore = Early /\ \A k \in DOMAIN ini["user"] : cfg[k] = ini["user"][k]
    /\ DOMAIN obj \subseteq VersionKeys \cup BuildKeys
    /\ \A k \in VersionKeys \cup BuildKeys : k \in DOMAIN obj <=> UserSets(k) \/ CustomSets(k)
    /\ \A k \in DOMAIN obj :
           obj[k] = IF CustomSets(k) THEN ini["custom"][k] ELSE ini["user"][k]

Layers ==
    \/ queue = <<"system", "user">> \o Rest /\ Untouched /\ ignore = FALSE
    \/ queue = <<"user">> \o Rest /\ Untouched /\ ignore = IsCustom("system")
    \/ queue = Rest /\ Merged
    \/ queue = <<>> /\ Merged

\* What a stage works with was read before it.
Stages ==
    /\ pc \in {"read", "choose", "params", "extra", "done", "exit", "crashed"}
    /\ pc # "read" => queue = <<>>
    /\ pc \in {"choose", "params", "extra", "done"} => Needed \subseteq DOMAIN obj
    /\ pc = "choose" => who = "downloader"
    /\ pc \in {"params", "extra"} => who = "builder"
    /\ pc \in {"read", "choose", "params", "crashed"} => params = <<>> /\ idx = 1
    /\ pc = "exit" => params = <<>>
    /\ who = "downloader" => params = <<>>

\* The first key that is set is the one that is chosen.
Chosen ==
    pc = "done" /\ who = "downloader" /\ ChosenKeys # {} =>
        \E i \in ChosenKeys : choice = <<Priority[i]>> \o obj[Priority[i]]

\* The arguments so far: an option no pair of extra_args has named yet is as the
\* mode has it, any other as the last pair that named it has it.
Decided(n) ==
    \/ /\ \A i \in 1 .. idx - 1 : Extra[i][2] # n
       /\ Effective(params, n) = Effective(Before, n)
    \/ \E l \in 1 .. idx - 1 :
           /\ Extra[l][2] = n
           /\ \A i \in l + 1 .. idx - 1 : Extra[i][2] # n
           /\ \/ Within(n) \/ Effective(Before, n) = "--set-val"
              \/ Effective(params, n) = Extra[l][1]

Working == who = "builder" /\ pc \in {"extra", "done"}
Arguments ==
    Working =>
        /\ params \in Seq(Flags \X Symbols)
        /\ idx \in 1 .. Len(Extra) + 1
        /\ pc = "done" => idx = Len(Extra) + 1
        /\ Options(params) \subseteq Options(Before) \cup Asked
        /\ \A n \in Options(Before) \cup Asked : Started(n) \/ Decided(n)

IInv == Held /\ Layers /\ Stages /\ Chosen /\ Arguments
=================================================================================
