-------------------------- MODULE ConfigurationProofs --------------------------
(***************************************************************************)
(* Proofs about Configuration: which file an option comes from, which      *)
(* version is chosen, and what extra_args decides, for any options of a    *)
(* kernel, any modes' arguments and any files.                             *)
(***************************************************************************)
EXTENDS ConfigurationInv, SequenceTheorems, WellFoundedInduction, TLAPS

-------------------------------------------------------------------------------
\* Reading the files.

\* What the files hold: empty or the file's own values, and a mode in user.ini.
LEMMA InitHeld == Init => Held
<1> SUFFICES ASSUME Init PROVE Held
    OBVIOUS
<1>1. PICK u \in IF who = "downloader" THEN Versions("user") ELSE Builds("user"),
           c \in IF given # "there" THEN {<<>>}
                 ELSE IF who = "downloader" THEN Versions("custom") ELSE Builds("custom") :
          ini = [f \in Files |-> CASE f = "system" -> <<>> [] f = "user" -> u [] f = "custom" -> c]
    BY DEF Init
<1>2. ini["system"] = <<>> /\ ini["user"] = u /\ ini["custom"] = c
    BY <1>1 DEF Files
<1>3. DOMAIN ini["system"] = {} /\ (given # "there" => DOMAIN ini["custom"] = {})
    BY <1>2
<1>4. /\ who \in {"downloader", "builder"} /\ partial \in BOOLEAN
      /\ given \in {"none", "absent", "there"} /\ name \in {"system", "user", "neither"}
      /\ given = "none" => name = "neither"
    BY DEF Init
<1>5. ASSUME NEW f, NEW v \in Versions(f)
      PROVE  DOMAIN v \subseteq VersionKeys /\ \A k \in DOMAIN v : v[k] \in {<<>>, <<f>>}
    BY <1>5 DEF Versions
<1>6. who = "downloader" =>
          \A f \in {"user", "custom"} :
              /\ DOMAIN ini[f] \subseteq VersionKeys
              /\ \A k \in DOMAIN ini[f] : ini[f][k] \in {<<>>, <<f>>}
    BY <1>2, <1>3, <1>5
<1>7. ASSUME who = "builder"
      PROVE  /\ DOMAIN ini["user"] = BuildKeys
             /\ \E m \in Modes : ini["user"]["mode"] = <<m>>
             /\ ini["user"]["extra_args"] \in UserExtras
  <2>1. PICK m \in Modes, e \in UserExtras : u = [mode |-> <<m>>, extra_args |-> e]
      BY <1>1, <1>7 DEF Builds
  <2> QED
      BY <1>2, <2>1 DEF BuildKeys
<1>8. ASSUME who = "builder"
      PROVE  /\ DOMAIN ini["custom"] \subseteq {"extra_args"}
             /\ \A k \in DOMAIN ini["custom"] : ini["custom"][k] \in CustomExtras
  <2>1. CASE c = <<>>
      BY <1>2, <2>1
  <2>2. CASE \E e \in CustomExtras : c = [extra_args |-> e]
      BY <1>2, <2>2
  <2> QED
    <3>1. Builds("custom") = {<<>>} \cup { [extra_args |-> e] : e \in CustomExtras }
        BY DEF Builds
    <3>2. c \in {<<>>} \cup { [extra_args |-> e] : e \in CustomExtras }
        BY <1>1, <1>8, <3>1
    <3> QED
        BY <2>1, <2>2, <3>2
<1> QED
    BY <1>3, <1>4, <1>6, <1>7, <1>8 DEF Held

\* Before the first file is read nothing is set, chosen or asked for.
LEMMA InitRest == Init => Layers /\ Stages /\ Chosen /\ Arguments
<1> SUFFICES ASSUME Init PROVE Layers /\ Stages /\ Chosen /\ Arguments
    OBVIOUS
<1>1. DOMAIN cfg = {} /\ DOMAIN obj = {}
    BY DEF Init
<1>2. Layers
  <2>1. queue = <<"system", "user">> \o Rest
    <3>1. CASE Path = "there"
      <4>1. Rest = <<"custom">> /\ queue = <<"system", "user", "custom">>
          BY <3>1 DEF Init, Rest
      <4> QED
          BY <4>1
    <3>2. CASE Path # "there"
      <4>1. Rest = <<>> /\ queue = <<"system", "user">>
          BY <3>2 DEF Init, Rest
      <4> QED
          BY <4>1
    <3> QED
        BY <3>1, <3>2
  <2> QED
      BY <1>1, <2>1 DEF Init, Layers, Untouched
<1>3. Stages /\ Chosen /\ Arguments
    BY DEF Init, Stages, Chosen, Arguments, Working
<1> QED
    BY <1>2, <1>3

\* No step changes a file.
LEMMA NextHeld == Held /\ [Next]_vars => Held'
BY DEF Held, Next, ReadFile, Loaded, Choose, GetParams, ExtraArg, Configure, vars, inputs

\* Each file is laid over those before it; an empty value of a custom one is not.
LEMMA ReadLayers ==
    ASSUME Held, Layers, ReadFile
    PROVE  Layers'
<1> DEFINE f == Head(queue)
           new == [k \in { k \in DOMAIN cfg' : ignore' => cfg'[k] # <<>> } |-> cfg'[k]]
<1>1. /\ queue # <<>> /\ queue' = Tail(queue) /\ ignore' = Ignores(f)
      /\ cfg' = Over(ini[f], cfg) /\ obj' = Over(new, obj)
      /\ UNCHANGED inputs
    BY DEF ReadFile
<1>2. UNCHANGED <<Early, Rest, Path>> /\ \A g : UNCHANGED IsCustom(g)
    BY <1>1 DEF Early, Rest, Path, IsCustom, inputs
<1>3. /\ DOMAIN cfg' = DOMAIN ini[f] \cup DOMAIN cfg
      /\ \A k \in DOMAIN ini[f] : cfg'[k] = ini[f][k]
      /\ \A k \in DOMAIN cfg \ DOMAIN ini[f] : cfg'[k] = cfg[k]
  <2> HIDE DEF f
  <2>1. cfg' = Over(ini[f], cfg)
      BY <1>1
  <2> QED
      BY <2>1 DEF Over
<1>4. /\ DOMAIN new = { k \in DOMAIN cfg' : ignore' => cfg'[k] # <<>> }
      /\ \A k \in DOMAIN new : new[k] = cfg'[k]
    OBVIOUS
<1>5. /\ DOMAIN obj' = DOMAIN new \cup DOMAIN obj
      /\ \A k \in DOMAIN new : obj'[k] = cfg'[k]
      /\ \A k \in DOMAIN obj \ DOMAIN new : obj'[k] = obj[k]
  <2> HIDE DEF new
  <2>1. obj' = Over(new, obj)
      BY <1>1
  <2> QED
      BY <1>4, <2>1 DEF Over
<1> HIDE DEF new
<1>r. Rest = <<>> \/ Rest = <<"custom">>
    BY DEF Rest
<1>6. CASE queue = <<"system", "user">> \o Rest /\ Untouched /\ ignore = FALSE
  <2>1. f = "system" /\ queue' = <<"user">> \o Rest
      BY <1>1, <1>6, <1>r
  <2>2. DOMAIN cfg' = {} /\ DOMAIN obj' = {}
      BY <1>3, <1>4, <1>5, <1>6, <2>1 DEF Held, Untouched
  <2>3. ignore' = IsCustom("system")
      BY <1>1, <1>6, <2>1 DEF Ignores, IsCustom
  <2> QED
      BY <1>2, <2>1, <2>2, <2>3 DEF Layers, Untouched
<1>7. CASE queue = <<"user">> \o Rest /\ Untouched /\ ignore = IsCustom("system")
  <2>1. f = "user" /\ queue' = Rest
      BY <1>1, <1>7, <1>r
  <2>2. ignore' = Early
      BY <1>1, <1>7, <2>1 DEF Ignores, Early
  <2>3. DOMAIN cfg' = DOMAIN ini["user"] /\ \A k \in DOMAIN ini["user"] : cfg'[k] = ini["user"][k]
      BY <1>3, <1>7, <2>1 DEF Untouched
  <2>4. DOMAIN obj' = { k \in DOMAIN ini["user"] : UserSets(k) }
      BY <1>4, <1>5, <1>7, <2>2, <2>3 DEF Untouched, UserSets
  <2>5. \A k \in DOMAIN obj' : obj'[k] = ini["user"][k]
      BY <1>4, <1>5, <1>7, <2>3, <2>4 DEF Untouched
  <2>6. UNCHANGED ini /\ \A k : UNCHANGED UserSets(k)
      BY <1>1, <1>2 DEF inputs, UserSets
  <2>7. DOMAIN ini["user"] \subseteq VersionKeys \cup BuildKeys
      BY DEF Held
  <2>8. \A k : ~CustomSets(k)'
    <3>1. Path' = "there" => queue' # <<>>
        BY <1>2, <2>1 DEF Rest
    <3>2. \A k : CustomSets(k)' => queue' = <<>> /\ Path' = "there"
        BY DEF CustomSets
    <3> QED
        BY <3>1, <3>2
  <2>9. ~(queue' = <<>> /\ Path' = "there")
      BY <1>2, <2>1 DEF Rest
  <2>10. Merged'
      BY <1>2, <2>2, <2>3, <2>4, <2>5, <2>6, <2>7, <2>8, <2>9 DEF Merged, UserSets
  <2> QED
      BY <1>2, <2>1, <2>10 DEF Layers
<1>8. CASE queue = Rest /\ Merged
  <2>1. Path = "there" /\ f = "custom" /\ queue' = <<>>
      BY <1>1, <1>8 DEF Rest
  <2>2. ignore' = TRUE
      BY <1>1, <2>1 DEF Ignores, IsCustom
  <2>3. /\ DOMAIN cfg = DOMAIN ini["user"]
        /\ \A k \in DOMAIN ini["user"] : cfg[k] = ini["user"][k]
        /\ \A k : ~CustomSets(k)
        /\ DOMAIN obj \subseteq VersionKeys \cup BuildKeys
        /\ \A k \in VersionKeys \cup BuildKeys : k \in DOMAIN obj <=> UserSets(k)
        /\ \A k \in DOMAIN obj : obj[k] = ini["user"][k]
      BY <1>1, <1>8 DEF Merged, CustomSets
  <2>4. UNCHANGED ini /\ \A k : UNCHANGED UserSets(k)
      BY <1>1, <1>2 DEF inputs, UserSets
  <2>5. \A k : CustomSets(k)' <=> k \in DOMAIN ini["custom"] /\ ini["custom"][k] # <<>>
      BY <1>2, <2>1, <2>4 DEF CustomSets
  <2>6. DOMAIN ini["user"] \cup DOMAIN ini["custom"] \subseteq VersionKeys \cup BuildKeys
      BY DEF Held, BuildKeys
  <2>7. DOMAIN cfg' = DOMAIN ini["user"] \cup DOMAIN ini["custom"]
      BY <1>3, <2>1, <2>3
  <2>8. /\ \A k \in DOMAIN ini["custom"] : cfg'[k] = ini["custom"][k]
        /\ \A k \in DOMAIN ini["user"] \ DOMAIN ini["custom"] : cfg'[k] = ini["user"][k]
      BY <1>3, <2>1, <2>3
  <2>9. DOMAIN obj' = { k \in DOMAIN cfg' : cfg'[k] # <<>> } \cup DOMAIN obj
      BY <1>4, <1>5, <2>2
  <2>10. \A k \in VersionKeys \cup BuildKeys : k \in DOMAIN obj' <=> UserSets(k) \/ CustomSets(k)'
    <3> SUFFICES ASSUME NEW k \in VersionKeys \cup BuildKeys
                 PROVE  k \in DOMAIN obj' <=> UserSets(k) \/ CustomSets(k)'
        OBVIOUS
    <3>1. CASE k \in DOMAIN ini["custom"]
        BY <2>3, <2>5, <2>7, <2>8, <2>9, <3>1
    <3>2. CASE k \notin DOMAIN ini["custom"]
        BY <2>3, <2>5, <2>7, <2>8, <2>9, <3>2 DEF UserSets
    <3> QED
        BY <3>1, <3>2
  <2>11. \A k \in DOMAIN obj' :
             obj'[k] = IF CustomSets(k)' THEN ini["custom"][k] ELSE ini["user"][k]
    <3> SUFFICES ASSUME NEW k \in DOMAIN obj'
                 PROVE  obj'[k] = IF CustomSets(k)' THEN ini["custom"][k] ELSE ini["user"][k]
        OBVIOUS
    <3>1. DOMAIN new = { j \in DOMAIN cfg' : cfg'[j] # <<>> }
        BY <1>4, <2>2
    <3>2. CASE CustomSets(k)'
        BY <1>5, <2>5, <2>7, <2>8, <3>1, <3>2
    <3>3. CASE ~CustomSets(k)' /\ k \in DOMAIN new
        BY <1>5, <2>5, <2>7, <2>8, <3>1, <3>3
    <3>4. CASE ~CustomSets(k)' /\ k \notin DOMAIN new
        BY <1>5, <2>3, <3>4
    <3> QED
        BY <3>2, <3>3, <3>4
  <2>12. DOMAIN obj' \subseteq VersionKeys \cup BuildKeys
      BY <2>3, <2>6, <2>7, <2>9
  <2>13. Merged'
      BY <1>2, <2>1, <2>4, <2>7, <2>10, <2>11, <2>12 DEF Merged
  <2> QED
      BY <2>1, <2>13 DEF Layers
<1> QED
    BY <1>1, <1>6, <1>7, <1>8 DEF Layers

\* The other steps change nothing that the options depend on.
LEMMA NextLayers == Held /\ Layers /\ [Next]_vars => Layers'
<1> SUFFICES ASSUME Held, Layers, [Next]_vars PROVE Layers'
    OBVIOUS
<1>1. CASE ReadFile
    BY <1>1, ReadLayers
<1>2. CASE UNCHANGED <<inputs, reading>>
    BY <1>2 DEF Layers, Merged, Untouched, UserSets, CustomSets, Early, Rest, Path,
                IsCustom, inputs, reading
<1> QED
    BY <1>1, <1>2 DEF Next, Loaded, Choose, GetParams, ExtraArg, Configure, vars

\* A stage begins when all files are read and what it needs is set.
LEMMA NextStages == Held /\ Stages /\ [Next]_vars => Stages'
<1> SUFFICES ASSUME Held, Stages, [Next]_vars PROVE Stages'
    OBVIOUS
<1>1. CASE ReadFile
  <2>1. pc = "read" /\ UNCHANGED <<pc, who, params, idx>>
      BY <1>1 DEF ReadFile, inputs
  <2> QED
    <3>1. UNCHANGED Needed
        BY <2>1 DEF Needed
    <3> QED
        BY <2>1, <3>1 DEF Stages
<1>2. CASE Loaded
  <2>1. /\ pc = "read" /\ queue = <<>> /\ who \in {"downloader", "builder"}
        /\ UNCHANGED <<who, queue, obj, params, idx>> /\ UNCHANGED Needed
      BY <1>2 DEF Loaded, Held, inputs, reading, Needed
  <2>2. CASE ~(Needed \subseteq DOMAIN obj)
      BY <1>2, <2>1, <2>2 DEF Loaded, Stages
  <2>3. CASE Needed \subseteq DOMAIN obj
      BY <1>2, <2>1, <2>3 DEF Loaded, Stages
  <2> QED
      BY <2>2, <2>3
<1>3. CASE Choose
    BY <1>3 DEF Stages, Choose, inputs, reading, Needed
<1>4. CASE GetParams
    BY <1>4 DEF Stages, GetParams, inputs, reading, Needed
<1>5. CASE ExtraArg
    BY <1>5 DEF Stages, ExtraArg, inputs, reading, Needed
<1>6. CASE Configure
    BY <1>6 DEF Stages, Configure, inputs, reading, Needed
<1>7. CASE UNCHANGED vars
    BY <1>7 DEF Stages, vars, inputs, reading, Needed
<1> QED
    BY <1>1, <1>2, <1>3, <1>4, <1>5, <1>6, <1>7 DEF Next

\* Choose takes a key that is set if there is one, and then nothing changes.
LEMMA NextChosen == Stages /\ Chosen /\ [Next]_vars => Chosen'
<1> SUFFICES ASSUME Stages, Chosen, [Next]_vars PROVE Chosen'
    OBVIOUS
<1>1. CASE Choose
  <2>1. UNCHANGED ChosenKeys /\ UNCHANGED obj
      BY <1>1 DEF Choose, ChosenKeys, Set, reading
  <2> QED
      BY <1>1, <2>1 DEF Choose, Chosen
<1>2. CASE ReadFile \/ Loaded \/ GetParams
    BY <1>2 DEF ReadFile, Loaded, GetParams, Chosen
<1>3. CASE ExtraArg \/ Configure
    BY <1>3 DEF ExtraArg, Configure, Chosen, Stages, inputs
<1>4. CASE UNCHANGED vars
  <2>1. UNCHANGED ChosenKeys
      BY <1>4 DEF ChosenKeys, Set, vars, reading
  <2> QED
      BY <1>4, <2>1 DEF Chosen, vars, inputs, reading
<1> QED
    BY <1>1, <1>2, <1>3, <1>4 DEF Next

-------------------------------------------------------------------------------
\* The arguments.

\* A set of positions that is not empty has a last one.
LEMMA Greatest ==
    ASSUME NEW N \in Nat, NEW T \in SUBSET (1 .. N), T # {}
    PROVE  \E i \in T : \A j \in T : j <= i
<1> DEFINE D == { N - i : i \in T }
<1>1. \A i \in T : i \in Nat /\ N - i \in Nat
    OBVIOUS
<1>2. D \subseteq Nat
    BY <1>1
<1>3. D # {}
  <2>1. PICK i \in T : TRUE
      OBVIOUS
  <2>2. N - i \in D
      BY <2>1
  <2> QED
      BY <2>2
<1> HIDE DEF D
<1>4. PICK R : R = OpToRel(<, Nat)
    OBVIOUS
<1>5. IsWellFoundedOn(R, Nat)
    BY <1>4, NatLessThanWellFounded
<1>6. PICK d \in D : \A e \in D : <<e, d>> \notin R
    BY <1>2, <1>3, <1>5, WFMin
<1>7. \A e \in Nat : e < d => <<e, d>> \in R
    BY <1>2, <1>4 DEF OpToRel
<1>8. ASSUME NEW e \in D PROVE d <= e
  <2>1. e \in Nat /\ d \in Nat /\ ~(e < d)
      BY <1>2, <1>6, <1>7
  <2> QED
      BY <2>1
<1>9. PICK i \in T : d = N - i
    BY DEF D
<1>10. ASSUME NEW j \in T PROVE j <= i
  <2>1. N - j \in D
      BY DEF D
  <2>2. N - i <= N - j
      BY <1>8, <1>9, <2>1
  <2> QED
      BY <1>1, <2>2
<1> QED
    BY <1>10

\* The last entry of an option in the arguments decides about it.
Last(args, n, i) ==
    i \in DOMAIN args /\ args[i][2] = n /\ \A j \in DOMAIN args : args[j][2] = n => j <= i

\* An option that is mentioned has a last entry.
LEMMA HasLast ==
    ASSUME NEW S, NEW args \in Seq(S), NEW n, n \in Options(args)
    PROVE  \E i : Last(args, n, i)
<1> DEFINE T == { i \in DOMAIN args : args[i][2] = n }
<1>1. Len(args) \in Nat /\ DOMAIN args = 1 .. Len(args)
    OBVIOUS
<1>2. T \in SUBSET (1 .. Len(args)) /\ T # {}
    BY <1>1 DEF Options
<1> HIDE DEF T
<1>3. PICK i \in T : \A j \in T : j <= i
    BY <1>1, <1>2, Greatest
<1>4. Last(args, n, i)
    BY <1>3 DEF T, Last
<1> QED
    BY <1>4

\* What scripts/config leaves of an option is what its last entry says.
LEMMA LastDecides ==
    ASSUME NEW S, NEW args \in Seq(S), NEW n, NEW i, Last(args, n, i)
    PROVE  Effective(args, n) = args[i][1]
<1> DEFINE T == { j \in DOMAIN args : args[j][2] = n }
           g == CHOOSE j \in T : \A k \in T : k <= j
<1>1. DOMAIN args \subseteq Nat
    OBVIOUS
<1>2. i \in T /\ \A j \in T : j <= i
    BY DEF Last
<1>3. g \in T /\ \A j \in T : j <= g
    BY <1>2
<1>4. T \subseteq Nat
    BY <1>1
<1>5. g = i
  <2> HIDE DEF g, T
  <2>1. g \in Nat /\ i \in Nat /\ g <= i /\ i <= g
      BY <1>2, <1>3, <1>4
  <2> QED
      BY <2>1
<1>6. T # {}
    BY <1>2
<1>7. Effective(args, n) = args[g][1]
    BY <1>6 DEF Effective
<1> QED
    BY <1>5, <1>7

\* Changing other options' entries does not change what an option is.
LEMMA SameEntries ==
    ASSUME NEW S, NEW a \in Seq(S), NEW b \in Seq(S), NEW n,
           \A i : i \in DOMAIN a /\ a[i][2] = n <=> i \in DOMAIN b /\ b[i][2] = n,
           \A i \in DOMAIN a : a[i][2] = n => b[i][1] = a[i][1]
    PROVE  Effective(b, n) = Effective(a, n)
<1>1. CASE n \in Options(a)
  <2>1. PICK i : Last(a, n, i)
      BY <1>1, HasLast
  <2>2. Last(b, n, i)
      BY <2>1 DEF Last
  <2>3. b[i][1] = a[i][1]
      BY <2>1 DEF Last
  <2>4. Effective(a, n) = a[i][1] /\ Effective(b, n) = b[i][1]
      BY <2>1, <2>2, LastDecides
  <2> QED
      BY <2>3, <2>4
<1>2. CASE n \notin Options(a)
  <2>1. /\ { i \in DOMAIN a : a[i][2] = n } = {}
        /\ { i \in DOMAIN b : b[i][2] = n } = {}
      BY <1>2 DEF Options
  <2> QED
      BY <2>1 DEF Effective
<1> QED
    BY <1>1, <1>2

\* re.sub changes flags only, and only before names that start with the option's.
LEMMA RewrittenArgs ==
    ASSUME NEW flag \in {"-e", "-d"}, NEW m \in Symbols, params \in Seq(Flags \X Symbols)
    PROVE  /\ Rewritten(flag, m) \in Seq(Flags \X Symbols)
           /\ DOMAIN Rewritten(flag, m) = DOMAIN params
           /\ \A i \in DOMAIN params : Rewritten(flag, m)[i][2] = params[i][2]
           /\ \A i \in DOMAIN params :
                  <<m, params[i][2]>> \notin Start => Rewritten(flag, m)[i] = params[i]
           /\ \A i \in DOMAIN params :
                  <<m, params[i][2]>> \in Start /\ params[i][1] \in {"-e", "-d"} =>
                      Rewritten(flag, m)[i][1] = flag
<1> DEFINE r == Rewritten(flag, m)
<1>1. /\ DOMAIN r = DOMAIN params
      /\ \A i \in DOMAIN params :
             r[i] = IF params[i][1] \in {"-e", "-d"} /\ <<m, params[i][2]>> \in Start
                      THEN <<flag, params[i][2]>> ELSE params[i]
    BY DEF Rewritten
<1> HIDE DEF r
<1>2. \A i \in DOMAIN params : params[i] \in Flags \X Symbols
    OBVIOUS
<1>3. \A i \in DOMAIN params :
          r[i] \in Flags \X Symbols /\ r[i][2] = params[i][2]
  <2> SUFFICES ASSUME NEW i \in DOMAIN params
               PROVE  r[i] \in Flags \X Symbols /\ r[i][2] = params[i][2]
      OBVIOUS
  <2>1. flag \in Flags /\ params[i][2] \in Symbols
      BY <1>2 DEF Flags
  <2>2. <<flag, params[i][2]>> \in Flags \X Symbols
      BY <2>1
  <2>3. r[i] = <<flag, params[i][2]>> \/ r[i] = params[i]
      BY <1>1
  <2>4. <<flag, params[i][2]>>[2] = params[i][2] /\ params[i] \in Flags \X Symbols
      BY <1>2
  <2>5. CASE r[i] = <<flag, params[i][2]>>
      BY <2>2, <2>4, <2>5
  <2>6. CASE r[i] = params[i]
      BY <2>4, <2>6
  <2> QED
      BY <2>3, <2>5, <2>6
<1>4. Len(params) \in Nat /\ DOMAIN params = 1 .. Len(params)
    OBVIOUS
<1>5. r = [i \in 1 .. Len(params) |-> r[i]]
    BY <1>4 DEF r, Rewritten
<1>6. r \in Seq(Flags \X Symbols)
    BY <1>3, <1>4, <1>5, IsASeq
<1> QED
    BY <1>1, <1>3, <1>6 DEF r

\* A pair whose option is not mentioned comes after all others.
LEMMA AppendedArgs ==
    ASSUME NEW flag \in {"-e", "-d"}, NEW m \in Symbols, params \in Seq(Flags \X Symbols)
    PROVE  LET a == Append(params, <<flag, m>>) IN
           /\ a \in Seq(Flags \X Symbols)
           /\ DOMAIN a = DOMAIN params \cup {Len(params) + 1}
           /\ \A i \in DOMAIN params : a[i] = params[i] /\ i <= Len(params) + 1
           /\ a[Len(params) + 1] = <<flag, m>>
           /\ Len(params) + 1 \notin DOMAIN params
<1> DEFINE a == Append(params, <<flag, m>>)
<1>1. <<flag, m>> \in Flags \X Symbols
    BY DEF Flags
<1>2. a \in Seq(Flags \X Symbols) /\ Len(a) = Len(params) + 1
    BY <1>1
<1>3. Len(params) \in Nat /\ DOMAIN params = 1 .. Len(params) /\ DOMAIN a = 1 .. Len(params) + 1
    BY <1>2
<1>4. a[Len(params) + 1] = <<flag, m>> /\ \A i \in 1 .. Len(params) : a[i] = params[i]
    BY <1>1
<1> HIDE DEF a
<1>5. 1 .. Len(params) + 1 = 1 .. Len(params) \cup {Len(params) + 1}
    BY <1>3
<1>6. Len(params) + 1 \notin DOMAIN params /\ \A i \in DOMAIN params : i <= Len(params) + 1
    BY <1>3
<1>7. /\ a \in Seq(Flags \X Symbols)
      /\ DOMAIN a = DOMAIN params \cup {Len(params) + 1}
      /\ \A i \in DOMAIN params : a[i] = params[i] /\ i <= Len(params) + 1
      /\ a[Len(params) + 1] = <<flag, m>>
      /\ Len(params) + 1 \notin DOMAIN params
    BY <1>2, <1>3, <1>4, <1>5, <1>6
<1> QED
    BY <1>7 DEF a

\* What the mode and the user ask for are flags and options.
LEMMA Given ==
    ASSUME Held, Layers, Stages, who = "builder", pc \in {"params", "extra", "done"}
    PROVE  Extra \in Seq({"-e", "-d"} \X Symbols) /\ Before \in Seq(Flags \X Symbols)
<1>1. queue = <<>> /\ BuildKeys \subseteq DOMAIN obj
    BY DEF Stages, Needed
<1>2. Merged
  <2>1. queue # <<"system", "user">> \o Rest /\ queue # <<"user">> \o Rest
      BY <1>1 DEF Rest
  <2> QED
      BY <2>1 DEF Layers
<1>3. \A k \in BuildKeys :
          obj[k] = IF CustomSets(k) THEN ini["custom"][k] ELSE ini["user"][k]
    BY <1>1, <1>2 DEF Merged
<1>4. \A k : CustomSets(k) => k \in DOMAIN ini["custom"]
    BY DEF CustomSets
<1>5. Extra \in UserExtras \cup CustomExtras
    BY <1>3, <1>4 DEF Held, Extra, BuildKeys
<1>6. ~CustomSets("mode")
    BY <1>4 DEF Held
<1>7. PICK m \in Modes : obj["mode"] = <<m>>
    BY <1>3, <1>6 DEF Held, BuildKeys
<1>8. Before = BaseArgs[m]
    BY <1>7 DEF Before
<1> QED
    BY <1>5, <1>8, ConfigurationAssumption

\* A pair of extra_args leaves options as they are that do not start with its
\* name, and decides about its own, unless that is part of another's.
LEMMA ExtraArgDecides ==
    ASSUME Held, Layers, Stages, Arguments, ExtraArg,
           NEW n \in Options(Before) \cup Asked, ~Started(n), Decided(n)
    PROVE  Decided(n)'
<1> DEFINE flag == Extra[idx][1]
           m == Extra[idx][2]
<1>1. who = "builder" /\ pc = "extra" /\ idx <= Len(Extra) /\ idx' = idx + 1
    BY DEF ExtraArg, Stages
<1>2. Extra \in Seq({"-e", "-d"} \X Symbols) /\ Before \in Seq(Flags \X Symbols)
    BY <1>1, Given
<1>3. /\ params \in Seq(Flags \X Symbols) /\ idx \in 1 .. Len(Extra)
      /\ Options(params) \subseteq Options(Before) \cup Asked
    BY <1>1, <1>2 DEF Arguments, Working
<1>4. flag \in {"-e", "-d"} /\ m \in Symbols /\ m \in Asked
    BY <1>2, <1>3 DEF Asked, Options
<1>5. params' = IF Mentioned(m) THEN Rewritten(flag, m) ELSE Append(params, <<flag, m>>)
    BY DEF ExtraArg
<1>6. UNCHANGED obj
    BY DEF ExtraArg, reading
<1>7. UNCHANGED <<Extra, Before, Asked>> /\ UNCHANGED Within(n)
    BY <1>6 DEF Extra, Before, Asked, Within
<1> HIDE DEF flag, m
<1>8. /\ params' \in Seq(Flags \X Symbols)
      /\ DOMAIN params \subseteq DOMAIN params'
      /\ \A i \in DOMAIN params : params'[i][2] = params[i][2]
      /\ \A i \in DOMAIN params' \ DOMAIN params : params'[i][2] = m
      /\ \A i \in DOMAIN params : <<m, params[i][2]>> \notin Start => params'[i] = params[i]
  <2>1. CASE Mentioned(m)
    <3>1. params' = Rewritten(flag, m)
        BY <1>5, <2>1
    <3>2. /\ Rewritten(flag, m) \in Seq(Flags \X Symbols)
          /\ DOMAIN Rewritten(flag, m) = DOMAIN params
          /\ \A i \in DOMAIN params : Rewritten(flag, m)[i][2] = params[i][2]
        BY <1>3, <1>4, RewrittenArgs
    <3>3. \A i \in DOMAIN params :
              <<m, params[i][2]>> \notin Start => Rewritten(flag, m)[i] = params[i]
        BY <1>3, <1>4, RewrittenArgs
    <3> QED
        BY <3>1, <3>2, <3>3
  <2>2. CASE ~Mentioned(m)
    <3>1. params' = Append(params, <<flag, m>>)
        BY <1>5, <2>2
    <3>2. /\ params' \in Seq(Flags \X Symbols)
          /\ DOMAIN params' = DOMAIN params \cup {Len(params) + 1}
          /\ \A i \in DOMAIN params : params'[i] = params[i]
          /\ params'[Len(params) + 1] = <<flag, m>>
        BY <1>3, <1>4, <3>1, AppendedArgs
    <3> QED
        BY <3>2
  <2> QED
      BY <2>1, <2>2
<1>9. CASE n # m
  <2>1. <<m, n>> \notin Start
      BY <1>4, <1>9 DEF Started
  <2>2. \A i \in DOMAIN params : params[i][2] = n => params'[i] = params[i]
      BY <1>8, <2>1
  <2>3. \A i : i \in DOMAIN params /\ params[i][2] = n <=> i \in DOMAIN params' /\ params'[i][2] = n
      BY <1>8, <1>9
  <2>4. Effective(params', n) = Effective(params, n)
      BY <1>3, <1>8, <2>2, <2>3, SameEntries
  <2>5. \A i \in 1 .. idx' - 1 : i \in 1 .. idx - 1 \/ i = idx
      BY <1>1, <1>3
  <2>6. idx - 1 \in Nat /\ 1 .. idx - 1 \subseteq 1 .. idx' - 1
      BY <1>1, <1>3
  <2>7. CASE /\ \A i \in 1 .. idx - 1 : Extra[i][2] # n
             /\ Effective(params, n) = Effective(Before, n)
      BY <1>7, <1>9, <2>4, <2>5, <2>7 DEF Decided, m
  <2>8. CASE \E l \in 1 .. idx - 1 :
                 /\ Extra[l][2] = n
                 /\ \A i \in l + 1 .. idx - 1 : Extra[i][2] # n
                 /\ \/ Within(n) \/ Effective(Before, n) = "--set-val"
                    \/ Effective(params, n) = Extra[l][1]
    <3>1. PICK l \in 1 .. idx - 1 :
                 /\ Extra[l][2] = n
                 /\ \A i \in l + 1 .. idx - 1 : Extra[i][2] # n
                 /\ \/ Within(n) \/ Effective(Before, n) = "--set-val"
                    \/ Effective(params, n) = Extra[l][1]
        BY <2>8
    <3>2. \A i \in l + 1 .. idx' - 1 : i \in l + 1 .. idx - 1 \/ i = idx
        BY <1>1, <1>3
    <3>3. \A i \in l + 1 .. idx' - 1 : Extra[i][2] # n
        BY <1>9, <3>1, <3>2 DEF m
    <3>4. l \in 1 .. idx' - 1
        BY <2>6
    <3> QED
        BY <1>7, <2>4, <3>1, <3>3, <3>4 DEF Decided
  <2> QED
      BY <2>7, <2>8 DEF Decided
<1>10. CASE n = m
  <2>1. idx \in 1 .. idx' - 1 /\ Extra[idx][2] = n /\ idx + 1 .. idx' - 1 = {}
      BY <1>1, <1>3, <1>10 DEF m
  <2>2. ASSUME ~Within(n), Effective(Before, n) # "--set-val"
        PROVE  Effective(params', n) = flag
    <3>1. <<n, n>> \in Start /\ <<n, n>> \in Part
        BY <1>4, <1>10, ConfigurationAssumption
    <3>2. CASE Mentioned(n)
      <4>1. n \in Options(params)
        <5>1. PICK i \in DOMAIN params : <<n, params[i][2]>> \in Part
            BY <3>2 DEF Mentioned
        <5>2. params[i][2] \in Options(params)
            BY DEF Options
        <5>3. params[i][2] = n
            BY <1>3, <2>2, <5>1, <5>2 DEF Within
        <5> QED
            BY <5>2, <5>3
      <4>2. PICK i : Last(params, n, i)
          BY <1>3, <4>1, HasLast
      <4>3. Effective(params, n) = params[i][1]
          BY <1>3, <4>2, LastDecides
      <4>4. params[i][1] \in Flags /\ i \in DOMAIN params /\ params[i][2] = n
          BY <1>3, <4>2 DEF Last
      <4>5. params[i][1] \in {"-e", "-d"}
        <5>1. CASE Effective(params, n) = Effective(Before, n)
            BY <2>2, <4>3, <4>4, <5>1 DEF Flags
        <5>2. CASE \E l \in 1 .. idx - 1 : Effective(params, n) = Extra[l][1]
          <6>1. PICK l \in 1 .. idx - 1 : Effective(params, n) = Extra[l][1]
              BY <5>2
          <6>2. l \in 1 .. Len(Extra)
              BY <1>2, <1>3
          <6> QED
              BY <1>2, <4>3, <6>1, <6>2
        <5> QED
            BY <2>2, <5>1, <5>2 DEF Decided
      <4>6. params' = Rewritten(flag, n)
          BY <1>5, <1>10, <3>2
      <4>7. DOMAIN params' = DOMAIN params /\ params'[i][1] = flag
          BY <1>3, <1>4, <1>10, <3>1, <4>4, <4>5, <4>6, RewrittenArgs
      <4>8. Last(params', n, i)
          BY <1>8, <4>2, <4>7 DEF Last
      <4> QED
          BY <1>8, <4>7, <4>8, LastDecides
    <3>3. CASE ~Mentioned(n)
      <4>1. \A i \in DOMAIN params : params[i][2] # n
          BY <3>1, <3>3 DEF Mentioned
      <4>2. params' = Append(params, <<flag, n>>)
          BY <1>5, <1>10, <3>3
      <4>3. /\ DOMAIN params' = DOMAIN params \cup {Len(params) + 1}
            /\ \A i \in DOMAIN params : i <= Len(params) + 1
            /\ params'[Len(params) + 1] = <<flag, n>>
          BY <1>3, <1>4, <1>10, <4>2, AppendedArgs
      <4>4. Len(params) + 1 <= Len(params) + 1
          BY <1>3
      <4>5. Last(params', n, Len(params) + 1)
          BY <4>3, <4>4 DEF Last
      <4> QED
          BY <1>8, <4>3, <4>5, LastDecides
    <3> QED
        BY <3>2, <3>3
  <2> QED
      BY <1>7, <2>1, <2>2 DEF Decided, flag
<1> QED
    BY <1>9, <1>10

\* The arguments stay as the mode and the pairs so far have them.
LEMMA NextArguments ==
    Held /\ Layers /\ Stages /\ Arguments /\ [Next]_vars => Arguments'
<1> SUFFICES ASSUME Held, Layers, Stages, Arguments, [Next]_vars PROVE Arguments'
    OBVIOUS
<1>1. CASE ReadFile \/ Loaded \/ Choose
  <2>1. ~Working'
      BY <1>1 DEF ReadFile, Loaded, Choose, Working, Stages, inputs
  <2> QED
      BY <2>1 DEF Arguments
<1>2. CASE GetParams
  <2>1. /\ pc = "params" /\ who = "builder" /\ idx = 1 /\ idx' = 1 /\ pc' = "extra"
        /\ params' = Before /\ UNCHANGED obj
      BY <1>2 DEF GetParams, Stages, Before, reading
  <2>2. Extra \in Seq({"-e", "-d"} \X Symbols) /\ Before \in Seq(Flags \X Symbols)
      BY <2>1, Given
  <2>3. UNCHANGED <<Extra, Before, Asked>> /\ \A n : UNCHANGED Started(n)
      BY <2>1 DEF Extra, Before, Asked, Started
  <2>4. Options(params') = Options(Before)
      BY <2>1
  <2>5. idx' \in 1 .. Len(Extra) + 1 /\ 1 .. idx' - 1 = {}
      BY <2>1, <2>2
  <2>6. \A n : Decided(n)'
      BY <2>1, <2>3, <2>5 DEF Decided
  <2> QED
      BY <2>1, <2>2, <2>3, <2>4, <2>5, <2>6 DEF Arguments
<1>3. CASE ExtraArg
  <2>1. /\ pc = "extra" /\ pc' = "extra" /\ who = "builder" /\ idx <= Len(Extra)
        /\ idx' = idx + 1 /\ UNCHANGED obj
      BY <1>3 DEF ExtraArg, Stages, reading
  <2>2. Extra \in Seq({"-e", "-d"} \X Symbols) /\ Before \in Seq(Flags \X Symbols)
      BY <2>1, Given
  <2>3. UNCHANGED <<Extra, Before, Asked>> /\ \A n : UNCHANGED Started(n)
      BY <2>1 DEF Extra, Before, Asked, Started
  <2>4. /\ params \in Seq(Flags \X Symbols) /\ idx \in 1 .. Len(Extra)
        /\ Options(params) \subseteq Options(Before) \cup Asked
        /\ \A n \in Options(Before) \cup Asked : Started(n) \/ Decided(n)
      BY <2>1, <2>2 DEF Arguments, Working
  <2>5. idx' \in 1 .. Len(Extra) + 1
      BY <2>1, <2>2, <2>4
  <2> DEFINE flag == Extra[idx][1]
             m == Extra[idx][2]
  <2>6. flag \in {"-e", "-d"} /\ m \in Symbols /\ m \in Asked
      BY <2>2, <2>4 DEF Asked, Options
  <2>7. params' = IF Mentioned(m) THEN Rewritten(flag, m) ELSE Append(params, <<flag, m>>)
      BY <1>3 DEF ExtraArg
  <2> HIDE DEF flag, m
  <2>8. params' \in Seq(Flags \X Symbols) /\ Options(params') \subseteq Options(params) \cup {m}
    <3>1. CASE Mentioned(m)
      <4>1. params' = Rewritten(flag, m)
          BY <2>7, <3>1
      <4>2. /\ params' \in Seq(Flags \X Symbols)
            /\ DOMAIN params' = DOMAIN params
            /\ \A i \in DOMAIN params : params'[i][2] = params[i][2]
        <5>1. /\ Rewritten(flag, m) \in Seq(Flags \X Symbols)
              /\ DOMAIN Rewritten(flag, m) = DOMAIN params
              /\ \A i \in DOMAIN params : Rewritten(flag, m)[i][2] = params[i][2]
            BY <2>4, <2>6, RewrittenArgs
        <5> QED
            BY <4>1, <5>1
      <4> QED
          BY <4>2 DEF Options
    <3>2. CASE ~Mentioned(m)
      <4>1. params' = Append(params, <<flag, m>>)
          BY <2>7, <3>2
      <4>2. /\ params' \in Seq(Flags \X Symbols)
            /\ DOMAIN params' = DOMAIN params \cup {Len(params) + 1}
            /\ \A i \in DOMAIN params : params'[i] = params[i]
            /\ params'[Len(params) + 1] = <<flag, m>>
          BY <2>4, <2>6, <4>1, AppendedArgs
      <4> QED
          BY <4>2 DEF Options
    <3> QED
        BY <3>1, <3>2
  <2>9. Options(params') \subseteq Options(Before) \cup Asked
      BY <2>4, <2>6, <2>8
  <2>10. \A n \in Options(Before) \cup Asked : Started(n) \/ Decided(n)'
      BY <1>3, <2>4, ExtraArgDecides
  <2> QED
      BY <2>1, <2>3, <2>5, <2>8, <2>9, <2>10 DEF Arguments
<1>4. CASE Configure
  <2>1. /\ pc = "extra" /\ pc' \in {"done", "exit"} /\ who = "builder" /\ idx > Len(Extra)
        /\ UNCHANGED <<obj, params, idx>>
      BY <1>4 DEF Configure, Stages, reading
  <2>2. Extra \in Seq({"-e", "-d"} \X Symbols)
      BY <2>1, Given
  <2>3. /\ UNCHANGED <<Extra, Before, Asked>>
        /\ \A n : Started(n)' <=> Started(n)
        /\ \A n : Decided(n)' <=> Decided(n)
      BY <2>1 DEF Extra, Before, Asked, Started, Decided, Within
  <2>4. /\ params \in Seq(Flags \X Symbols) /\ idx \in 1 .. Len(Extra) + 1
        /\ Options(params) \subseteq Options(Before) \cup Asked
        /\ \A n \in Options(Before) \cup Asked : Started(n) \/ Decided(n)
      BY <2>1 DEF Arguments, Working
  <2>5. idx = Len(Extra) + 1
      BY <2>1, <2>2, <2>4
  <2> QED
      BY <2>1, <2>3, <2>4, <2>5 DEF Arguments
<1>5. CASE UNCHANGED vars
  <2>1. UNCHANGED <<who, pc, obj, params, idx>>
      BY <1>5 DEF vars, inputs, reading
  <2>2. /\ UNCHANGED <<Extra, Before, Asked>>
        /\ \A n : Started(n)' <=> Started(n)
        /\ \A n : Decided(n)' <=> Decided(n)
        /\ Working' <=> Working
      BY <2>1 DEF Extra, Before, Asked, Started, Decided, Within, Working
  <2> QED
      BY <2>1, <2>2 DEF Arguments
<1> QED
    BY <1>1, <1>2, <1>3, <1>4, <1>5 DEF Next

-------------------------------------------------------------------------------
\* The properties.

\* The invariant is inductive.
THEOREM ConfigurationInvariance == Spec => []IInv
<1>1. Init => IInv
    BY InitHeld, InitRest DEF IInv
<1>2. IInv /\ [Next]_vars => IInv'
    BY NextHeld, NextLayers, NextStages, NextChosen, NextArguments DEF IInv
<1> QED
    BY <1>1, <1>2, PTL DEF Spec

\* Once user.ini is read, what is set is what the layers say.
LEMMA LayersMerged ==
    ASSUME Layers, queue = <<>>
    PROVE  Merged
<1>1. queue # <<"system", "user">> \o Rest /\ queue # <<"user">> \o Rest
    BY DEF Rest
<1> QED
    BY <1>1 DEF Layers

\* No option is used that was not set, by the downloader or by the builder, and
\* the arguments of scripts/config stay flags and options.
THEOREM ConfigurationTypes == Spec => []TypeOK
<1>1. IInv => TypeOK
  <2> SUFFICES ASSUME IInv PROVE TypeOK
      OBVIOUS
  <2>1. Held /\ Layers /\ Stages /\ Arguments
      BY DEF IInv
  <2>2. Merged => DOMAIN obj \subseteq DOMAIN cfg /\ DOMAIN cfg \subseteq VersionKeys \cup BuildKeys
    <3> SUFFICES ASSUME Merged
                 PROVE  DOMAIN obj \subseteq DOMAIN cfg /\ DOMAIN cfg \subseteq VersionKeys \cup BuildKeys
        OBVIOUS
    <3>1. DOMAIN ini["user"] \cup DOMAIN ini["custom"] \subseteq VersionKeys \cup BuildKeys
        BY <2>1 DEF Held, BuildKeys
    <3>2. DOMAIN cfg \subseteq VersionKeys \cup BuildKeys
        BY <3>1 DEF Merged
    <3>3. \A k \in DOMAIN obj : k \in DOMAIN cfg
        BY DEF Merged, UserSets, CustomSets
    <3> QED
        BY <3>2, <3>3
  <2>3. DOMAIN obj \subseteq DOMAIN cfg /\ DOMAIN cfg \subseteq VersionKeys \cup BuildKeys
      BY <2>1, <2>2 DEF Layers, Untouched
  <2>4. ASSUME pc \in {"params", "extra"}
        PROVE  BuildKeys \subseteq DOMAIN obj /\ idx \in 1 .. Len(Extra) + 1
    <3>1. who = "builder"
        BY <2>1, <2>4 DEF Stages
    <3>2. BuildKeys \subseteq DOMAIN obj
        BY <2>1, <2>4, <3>1 DEF Stages, Needed
    <3>3. CASE pc = "params"
      <4>1. Len(Extra) \in Nat
          BY <2>1, <3>1, <3>3, Given
      <4> QED
          BY <2>1, <3>2, <3>3, <4>1 DEF Stages
    <3>4. CASE pc = "extra"
        BY <2>1, <3>1, <3>2, <3>4 DEF Arguments, Working
    <3> QED
        BY <2>4, <3>3, <3>4
  <2>5. pc = "choose" => VersionKeys \subseteq DOMAIN obj
      BY <2>1 DEF Stages, Needed
  <2>6. params \in Seq(Flags \X Symbols)
    <3>1. CASE params = <<>>
        BY <3>1
    <3>2. CASE Working
        BY <2>1, <3>2 DEF Arguments
    <3> QED
        BY <2>1, <3>1, <3>2 DEF Held, Stages, Working
  <2> QED
      BY <2>1, <2>3, <2>4, <2>5, <2>6 DEF TypeOK, Stages
<1> QED
    BY <1>1, ConfigurationInvariance, PTL

\* An option is what the last file says that has a say in it, system.ini's,
\* user.ini's and then a custom one's (misc.py:20-61), whatever they hold, one of
\* another's name included; but with -p 1 no custom file is read.
THEOREM LayersHold == Spec => []LayersWin
<1>1. IInv => LayersWin
  <2> SUFFICES ASSUME IInv, queue = <<>>, partial => given = "none",
                      NEW k \in VersionKeys \cup BuildKeys
               PROVE  LET from == IF HasSay("custom", k) THEN "custom"
                                  ELSE IF HasSay("user", k) THEN "user" ELSE "system"
                      IN IF HasSay(from, k) THEN k \in DOMAIN obj /\ obj[k] = ini[from][k]
                         ELSE k \notin DOMAIN obj
      BY DEF LayersWin
  <2>1. Merged
      BY LayersMerged DEF IInv
  <2>2. Path = given
      BY DEF Path
  <2>3. CustomSets(k) <=> HasSay("custom", k)
      BY <2>2 DEF CustomSets, HasSay, Quiet, IInv, Held
  <2>4. Early <=> name \in {"system", "user"}
      BY <2>2 DEF Early, IsCustom, IInv, Held
  <2>5. UserSets(k) <=> HasSay("user", k)
      BY <2>4 DEF UserSets, HasSay, Quiet
  <2>6. ~HasSay("system", k)
      BY DEF IInv, Held, HasSay
  <2>7. /\ k \in DOMAIN obj <=> UserSets(k) \/ CustomSets(k)
        /\ k \in DOMAIN obj =>
               obj[k] = IF CustomSets(k) THEN ini["custom"][k] ELSE ini["user"][k]
      BY <2>1 DEF Merged
  <2>8. CASE HasSay("custom", k)
      BY <2>3, <2>7, <2>8
  <2>9. CASE ~HasSay("custom", k) /\ HasSay("user", k)
      BY <2>3, <2>5, <2>7, <2>9
  <2>10. CASE ~HasSay("custom", k) /\ ~HasSay("user", k)
      BY <2>3, <2>5, <2>6, <2>7, <2>10
  <2> QED
      BY <2>8, <2>9, <2>10
<1> QED
    BY <1>1, ConfigurationInvariance, PTL

\* A key and its value side by side.
LEMMA Pair ==
    ASSUME NEW h, NEW x
    PROVE  <<h>> \o <<x>> = <<h, x>>
<1> DEFINE s == <<h>> \o <<x>>
<1>1. <<h>> \in Seq({h, x}) /\ <<x>> \in Seq({h, x}) /\ Len(<<h>>) = 1 /\ Len(<<x>>) = 1
    OBVIOUS
<1>2. Len(s) = 2 /\ s \in Seq({h, x}) /\ s[1] = h /\ s[2] = x
    BY <1>1
<1>3. <<h, x>> \in Seq({h, x}) /\ Len(<<h, x>>) = 2
    OBVIOUS
<1> HIDE DEF s
<1>4. \A i \in 1 .. 2 : s[i] = <<h, x>>[i]
  <2>1. \A i \in 1 .. 2 : i = 1 \/ i = 2
      OBVIOUS
  <2> QED
      BY <1>2, <2>1
<1>5. s = <<h, x>>
    BY <1>2, <1>3, <1>4, SeqEqual
<1> QED
    BY <1>5 DEF s

\* The version of a custom file is the one that is downloaded
\* (linux_kernel_dl.py:28-56), whatever the files hold.
THEOREM CustomVersion == Spec => []CustomVersionWins
<1>1. IInv => CustomVersionWins
  <2> SUFFICES ASSUME IInv, pc = "done", who = "downloader", ~partial,
                      NEW k \in VersionKeys, Names("custom", k)
               PROVE  \/ choice = <<k, "custom">>
                      \/ \E h \in VersionKeys : choice[1] = h /\ <<h, k>> \in
                             {<<"mmp", "tag">>, <<"mmp", "commit">>, <<"tag", "commit">>}
      BY DEF CustomVersionWins
  <2>1. Held /\ Layers /\ Stages /\ Chosen
      BY DEF IInv
  <2>2. queue = <<>> /\ VersionKeys \subseteq DOMAIN obj
      BY <2>1 DEF Stages, Needed
  <2>3. Merged
      BY <2>1, <2>2, LayersMerged
  <2>4. Path = "there"
      BY <2>1 DEF Held, Names, Path
  <2>5. CustomSets(k)
      BY <2>2, <2>4 DEF CustomSets, Names
  <2>6. obj[k] = ini["custom"][k]
      BY <2>2, <2>3, <2>5 DEF Merged
  <2>7. obj[k] = <<"custom">> /\ Set(k)
      BY <2>1, <2>6 DEF Held, Names, Set
  <2>8. \A h \in VersionKeys : obj[h] \in {<<>>, <<"user">>, <<"custom">>}
    <3> SUFFICES ASSUME NEW h \in VersionKeys
                 PROVE  obj[h] \in {<<>>, <<"user">>, <<"custom">>}
        OBVIOUS
    <3>1. CASE CustomSets(h)
        BY <2>1, <2>2, <2>3, <3>1 DEF Merged, Held, CustomSets
    <3>2. CASE ~CustomSets(h)
      <4>1. obj[h] = ini["user"][h] /\ h \in DOMAIN ini["user"]
          BY <2>2, <2>3, <3>2 DEF Merged, UserSets
      <4> QED
          BY <2>1, <4>1 DEF Held
    <3> QED
        BY <3>1, <3>2
  <2>9. Priority[1] = "mmp" /\ Priority[2] = "tag" /\ Priority[3] = "commit"
      BY DEF Priority
  <2>10. ChosenKeys # {}
    <3>1. CASE Set("mmp")
      <4>1. 1 \in ChosenKeys
          BY <2>9, <3>1 DEF ChosenKeys
      <4> QED
          BY <4>1
    <3>2. CASE ~Set("mmp") /\ Set("tag")
      <4>1. 2 \in ChosenKeys
          BY <2>9, <3>2 DEF ChosenKeys
      <4> QED
          BY <4>1
    <3>3. CASE ~Set("mmp") /\ ~Set("tag") /\ Set("commit")
      <4>1. 3 \in ChosenKeys
          BY <2>9, <3>3 DEF ChosenKeys
      <4> QED
          BY <4>1
    <3> QED
        BY <2>7, <3>1, <3>2, <3>3 DEF VersionKeys
  <2>11. PICK i \in ChosenKeys : choice = <<Priority[i]>> \o obj[Priority[i]]
      BY <2>1, <2>10 DEF Chosen
  <2>12. i \in 1 .. 3 /\ \A j \in 1 .. i - 1 : ~Set(Priority[j])
      BY DEF ChosenKeys
  <2>13. Priority[i] \in VersionKeys
      BY <2>9, <2>12 DEF VersionKeys
  <2>14. choice[1] = Priority[i] /\ (Priority[i] = k => choice = <<k, "custom">>)
    <3>1. \A h \in VersionKeys, x \in Files : <<h>> \o <<x>> = <<h, x>>
        BY Pair
    <3>2. obj[Priority[i]] # <<>>
        BY DEF ChosenKeys, Set
    <3>3. obj[Priority[i]] = <<"user">> \/ obj[Priority[i]] = <<"custom">>
        BY <2>8, <2>13, <3>2
    <3>4. choice[1] = Priority[i]
        BY <2>11, <2>13, <3>1, <3>3 DEF Files
    <3>5. Priority[i] = k => choice = <<k, "custom">>
        BY <2>7, <2>11, <2>13, <3>1 DEF Files
    <3> QED
        BY <3>4, <3>5
  <2>15. /\ Priority[i] = "tag" => k # "mmp"
         /\ Priority[i] = "commit" => k \notin {"mmp", "tag"}
      BY <2>7, <2>9, <2>12
  <2>16. <<Priority[i], k>> \in {<<"mmp", "tag">>, <<"mmp", "commit">>, <<"tag", "commit">>}
             \/ Priority[i] = k
      BY <2>13, <2>15 DEF VersionKeys
  <2> QED
      BY <2>13, <2>14, <2>16
<1> QED
    BY <1>1, ConfigurationInvariance, PTL

\* extra_args decides about the options it names and no others
\* (kernel_builder.py:103-116), for any arguments a mode asks for, any pairs
\* and however often they name an option.
THEOREM ExtrasDecide == Spec => []ExtraArgsDecide
<1>1. IInv => ExtraArgsDecide
  <2> SUFFICES ASSUME IInv, pc = "done", who = "builder",
                      NEW n \in Options(Before) \cup Asked, ~Started(n)
               PROVE  Effective(params, n) =
                          IF n \notin Asked THEN Effective(Before, n)
                          ELSE IF Within(n) \/ Effective(Before, n) = "--set-val"
                                 THEN Effective(params, n)
                                 ELSE Effective(Extra, n)
      BY DEF ExtraArgsDecide
  <2>1. Held /\ Layers /\ Stages /\ Arguments
      BY DEF IInv
  <2>2. Extra \in Seq({"-e", "-d"} \X Symbols)
      BY <2>1, Given
  <2>3. idx = Len(Extra) + 1 /\ Decided(n)
      BY <2>1 DEF Arguments, Working
  <2>4. idx - 1 = Len(Extra) /\ DOMAIN Extra = 1 .. Len(Extra) /\ Len(Extra) \in Nat
      BY <2>2, <2>3
  <2>5. CASE /\ \A i \in 1 .. idx - 1 : Extra[i][2] # n
             /\ Effective(params, n) = Effective(Before, n)
    <3>1. n \notin Asked
        BY <2>4, <2>5 DEF Asked, Options
    <3> QED
        BY <2>5, <3>1
  <2>6. CASE \E l \in 1 .. idx - 1 :
                 /\ Extra[l][2] = n
                 /\ \A i \in l + 1 .. idx - 1 : Extra[i][2] # n
                 /\ \/ Within(n) \/ Effective(Before, n) = "--set-val"
                    \/ Effective(params, n) = Extra[l][1]
    <3>1. PICK l \in 1 .. Len(Extra) :
                 /\ Extra[l][2] = n
                 /\ \A i \in l + 1 .. Len(Extra) : Extra[i][2] # n
                 /\ \/ Within(n) \/ Effective(Before, n) = "--set-val"
                    \/ Effective(params, n) = Extra[l][1]
        BY <2>4, <2>6
    <3>2. n \in Asked
        BY <2>4, <3>1 DEF Asked, Options
    <3>3. \A j \in DOMAIN Extra : Extra[j][2] = n => j <= l
        BY <2>4, <3>1
    <3>4. Last(Extra, n, l)
        BY <2>4, <3>1, <3>3 DEF Last
    <3>5. Effective(Extra, n) = Extra[l][1]
        BY <2>2, <3>4, LastDecides
    <3> QED
        BY <3>1, <3>2, <3>5
  <2> QED
      BY <2>3, <2>5, <2>6 DEF Decided
<1> QED
    BY <1>1, ConfigurationInvariance, PTL
================================================================================
