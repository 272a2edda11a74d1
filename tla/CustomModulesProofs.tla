--------------------------- MODULE CustomModulesProofs ---------------------------
(***************************************************************************)
(* Proofs about CustomModules for every set of modules and of options and  *)
(* any number of faults.                                                   *)
(***************************************************************************)
EXTENDS CustomModulesInv, SequenceTheorems, FiniteSetTheorems, TLAPS

-------------------------------------------------------------------------------
\* Lines of Kconfig.

\* A sequence and one of a single line.
LEMMA Joined ==
    ASSUME NEW S, NEW s \in Seq(S), NEW t \in Seq(S), Len(t) = 1
    PROVE  /\ s \o t \in Seq(S)
           /\ Len(s \o t) = Len(s) + 1
           /\ (s \o t)[Len(s) + 1] = t[1]
           /\ \A i \in 1 .. Len(s) : (s \o t)[i] = s[i]
<1>1. Len(s) \in Nat
    BY LenProperties
<1>2. s \o t \in Seq(S) /\ Len(s \o t) = Len(s) + Len(t)
    BY ConcatProperties, Zenon
<1>3. \A i \in 1 .. Len(s) + 1 :
         (s \o t)[i] = IF i <= Len(s) THEN s[i] ELSE t[i - Len(s)]
  <2>1. Len(s) + 1 = Len(s) + Len(t)
    BY <1>1
  <2> QED
    BY <2>1, ConcatProperties, Zenon
<1>4. (s \o t)[Len(s) + 1] = t[1] /\ \A i \in 1 .. Len(s) : (s \o t)[i] = s[i]
  <2>1. \A i \in 1 .. Len(s) : i \in 1 .. Len(s) + 1 /\ i <= Len(s)
    BY <1>1
  <2>2. PICK k : k = Len(s) + 1
    OBVIOUS
  <2>3. k \in 1 .. Len(s) + 1 /\ ~(k <= Len(s)) /\ k - Len(s) = 1
    BY <1>1, <2>2
  <2>4. (s \o t)[Len(s) + 1] = t[1]
    BY <1>3, <2>2, <2>3
  <2>5. ASSUME NEW i \in 1 .. Len(s) PROVE (s \o t)[i] = s[i]
    BY <1>3, <2>1, Zenon
  <2> QED
    BY <2>4, <2>5, Zenon
<1> QED
    BY <1>2, <1>4

\* All lines but the last.
LEMMA AllButLast ==
    ASSUME NEW S, NEW s \in Seq(S), NEW n \in Nat \ {0}, Len(s) = n
    PROVE  /\ SubSeq(s, 1, n - 1) \in Seq(S)
           /\ Len(SubSeq(s, 1, n - 1)) = n - 1
           /\ \A i \in 1 .. n - 1 : SubSeq(s, 1, n - 1)[i] = s[i]
           /\ SubSeq(s, n, n) \in Seq(S)
           /\ Len(SubSeq(s, n, n)) = 1
           /\ SubSeq(s, n, n)[1] = s[n]
<1>1. \A i \in 1 .. n : s[i] \in S
    BY ElementOfSeq
<1>2. SubSeq(s, 1, n - 1) \in Seq(S)
    BY <1>1, SubSeqProperties
<1>3. Len(SubSeq(s, 1, n - 1)) = n - 1
    BY <1>1
<1>4. \A i \in 1 .. n - 1 : SubSeq(s, 1, n - 1)[i] = s[i]
    BY <1>1
<1>5. SubSeq(s, n, n) \in Seq(S) /\ Len(SubSeq(s, n, n)) = 1 /\ SubSeq(s, n, n)[1] = s[n]
    BY <1>1
<1> QED
    BY <1>2, <1>3, <1>4, <1>5

\* A line goes before the last one, and the others stay in their order
\* (kernel_builder.py:156-159).
LEMMA InsertedLines ==
    ASSUME NEW S, NEW ls \in Seq(S), NEW n \in Nat \ {0}, Len(ls) = n, NEW m \in S
    PROVE  /\ Inserted(ls, m) \in Seq(S)
           /\ Len(Inserted(ls, m)) = n + 1
           /\ \A i \in 1 .. n - 1 : Inserted(ls, m)[i] = ls[i]
           /\ Inserted(ls, m)[n] = m
           /\ Inserted(ls, m)[n + 1] = ls[n]
<1>1. ls # <<>>
    BY EmptySeq
<1>2. PICK a \in Seq(S) : a = SubSeq(ls, 1, n - 1)
    BY AllButLast
<1>3. PICK b \in Seq(S) : b = SubSeq(ls, n, n)
    BY AllButLast
<1>4. PICK l \in Seq(S) : l = <<m>>
  <2>1. <<m>> \in Seq(S)
    OBVIOUS
  <2> QED
    BY <2>1, Zenon
<1>5. PICK c \in Seq(S) : c = a \o l
    BY ConcatProperties
<1>6. Len(a) = n - 1 /\ (\A i \in 1 .. n - 1 : a[i] = ls[i]) /\ Len(b) = 1 /\ b[1] = ls[n]
    BY <1>2, <1>3, AllButLast
<1>7. Len(l) = 1 /\ l[1] = m
    BY <1>4
<1>8. Len(c) = n /\ c[n] = m /\ \A i \in 1 .. n - 1 : c[i] = ls[i]
    BY <1>5, <1>6, <1>7, Joined
<1>9. Inserted(ls, m) = c \o b
    BY <1>1, <1>2, <1>3, <1>4, <1>5 DEF Inserted, InsertAt
<1>10. /\ c \o b \in Seq(S) /\ Len(c \o b) = n + 1
       /\ (c \o b)[n + 1] = b[1]
       /\ \A i \in 1 .. n : (c \o b)[i] = c[i]
    BY <1>6, <1>8, Joined
<1> QED
    BY <1>6, <1>8, <1>9, <1>10

\* One more line, whatever the file was.
LEMMA InsertedSeq ==
    ASSUME NEW S, NEW ls \in Seq(S), NEW m \in S
    PROVE  Inserted(ls, m) \in Seq(S) /\ Len(Inserted(ls, m)) = Len(ls) + 1
<1>1. CASE ls = <<>>
    BY <1>1 DEF Inserted
<1>2. CASE ls # <<>>
  <2>1. PICK n \in Nat \ {0} : Len(ls) = n
    BY <1>2, EmptySeq
  <2> QED
    BY <2>1, InsertedLines
<1> QED
    BY <1>1, <1>2

\* The lines that were there are found where they were, or one further down when
\* they were the last; the other one is new (kernel_builder.py:156-159).
LEMMA InsertedWhere ==
    ASSUME NEW S, NEW ls \in Seq(S), NEW m \in S, NEW good \in BOOLEAN, ls = <<>> => good,
           NEW k, NEW i
    PROVE  i \in LinesOf(Inserted(ls, m), good, k) <=>
               \/ i \in LinesOf(ls, good, k) /\ i < Len(ls)
               \/ k = m /\ i = (IF ls = <<>> THEN 1 ELSE Len(ls))
               \/ i = Len(ls) + 1 /\ Len(ls) \in LinesOf(ls, good, k)
<1>1. CASE ls = <<>>
  <2>1. Inserted(ls, m) = <<m>> /\ DOMAIN <<m>> = 1 .. 1 /\ Len(<<m>>) = 1 /\ <<m>>[1] = m
    BY <1>1 DEF Inserted
  <2>2. LinesOf(ls, good, k) = {}
    BY <1>1 DEF LinesOf
  <2>3. i \in LinesOf(<<m>>, good, k) <=> i = 1 /\ k = m
    BY <1>1, <2>1 DEF LinesOf
  <2> QED
    BY <1>1, <2>1, <2>2, <2>3
<1>2. CASE ls # <<>>
  <2>1. PICK n \in Nat \ {0} : Len(ls) = n
    BY <1>2, EmptySeq
  <2>2. PICK new \in Seq(S) : new = Inserted(ls, m)
    BY <2>1, InsertedLines
  <2>3. Len(Inserted(ls, m)) = n + 1 /\ Inserted(ls, m)[n] = m
    BY <2>1, InsertedLines
  <2>4. Inserted(ls, m)[n + 1] = ls[n]
    BY <2>1, InsertedLines
  <2>5. \A j \in 1 .. n - 1 : Inserted(ls, m)[j] = ls[j]
    BY <2>1, InsertedLines
  <2>6. DOMAIN new = 1 .. n + 1 /\ DOMAIN ls = 1 .. n
    BY <2>1, <2>2, <2>3, LenProperties
  <2>7. i \in LinesOf(new, good, k) <=> i \in 1 .. n + 1 /\ new[i] = k /\ (i = n + 1 => good)
    BY <2>2, <2>3, <2>6 DEF LinesOf
  <2>8. \A j : j \in LinesOf(ls, good, k) <=> j \in 1 .. n /\ ls[j] = k /\ (j = n => good)
    BY <2>1, <2>6 DEF LinesOf
  <2>9. i \in LinesOf(new, good, k) <=>
             \/ i \in LinesOf(ls, good, k) /\ i < n
             \/ k = m /\ i = n
             \/ i = n + 1 /\ n \in LinesOf(ls, good, k)
    <3>1. CASE i \in 1 .. n - 1
      <4>1. new[i] = ls[i] /\ i \in 1 .. n + 1 /\ i \in 1 .. n /\ i < n /\ i # n /\ i # n + 1
        BY <2>2, <2>5, <3>1
      <4> QED
        BY <2>7, <2>8, <4>1
    <3>2. CASE i = n
      <4>1. new[i] = m /\ i \in 1 .. n + 1 /\ ~(i < n) /\ i # n + 1
        BY <2>2, <2>3, <3>2
      <4> QED
        BY <2>7, <3>2, <4>1
    <3>3. CASE i = n + 1
      <4>1. new[i] = ls[n] /\ i \in 1 .. n + 1 /\ n \in 1 .. n /\ ~(i < n) /\ i # n
        BY <2>2, <2>4, <3>3
      <4> QED
        BY <2>7, <2>8, <3>3, <4>1
    <3>4. CASE i \notin 1 .. n + 1
      <4>1. i \notin 1 .. n /\ i # n /\ i # n + 1
        BY <3>4
      <4> QED
        BY <2>7, <2>8, <3>4, <4>1
    <3>5. i \in 1 .. n - 1 \/ i = n \/ i = n + 1 \/ i \notin 1 .. n + 1
        OBVIOUS
    <3> QED
        BY <3>1, <3>2, <3>3, <3>4, <3>5
  <2> QED
    BY <1>2, <2>1, <2>2, <2>9, Zenon
<1> QED
    BY <1>1, <1>2

\* So a line is there if it was, or is the new one.
LEMMA InsertedThere ==
    ASSUME NEW S, NEW ls \in Seq(S), NEW m \in S, NEW good \in BOOLEAN, ls = <<>> => good,
           NEW k
    PROVE  LinesOf(Inserted(ls, m), good, k) # {} <=> LinesOf(ls, good, k) # {} \/ k = m
<1>1. ASSUME NEW i \in LinesOf(Inserted(ls, m), good, k)
      PROVE  LinesOf(ls, good, k) # {} \/ k = m
  <2>1. \/ i \in LinesOf(ls, good, k) /\ i < Len(ls)
        \/ k = m /\ i = (IF ls = <<>> THEN 1 ELSE Len(ls))
        \/ i = Len(ls) + 1 /\ Len(ls) \in LinesOf(ls, good, k)
    BY <1>1, InsertedWhere
  <2> QED
    BY <2>1
<1>2. ASSUME NEW i \in LinesOf(ls, good, k) PROVE LinesOf(Inserted(ls, m), good, k) # {}
  <2>1. i \in 1 .. Len(ls) /\ Len(ls) \in Nat
    BY LenProperties DEF LinesOf
  <2>2. CASE i < Len(ls)
    <3>1. i \in LinesOf(Inserted(ls, m), good, k)
        BY <2>2, InsertedWhere, Zenon
    <3> QED
        BY <3>1
  <2>3. CASE i = Len(ls)
    <3>1. Len(ls) + 1 \in LinesOf(Inserted(ls, m), good, k)
        BY <2>3, InsertedWhere, Zenon
    <3> QED
        BY <3>1
  <2> QED
    BY <2>1, <2>2, <2>3
<1>3. ASSUME k = m PROVE LinesOf(Inserted(ls, m), good, k) # {}
  <2>1. (IF ls = <<>> THEN 1 ELSE Len(ls)) \in LinesOf(Inserted(ls, m), good, k)
    BY <1>3, InsertedWhere, Zenon
  <2> QED
    BY <2>1
<1> QED
    BY <1>1, <1>2, <1>3

\* What is left of a file that is cut off is the beginning of it.
LEMMA CutSeq ==
    ASSUME NEW S, NEW ls \in Seq(S), NEW n \in 0 .. Len(ls)
    PROVE  /\ SubSeq(ls, 1, n) \in Seq(S)
           /\ DOMAIN SubSeq(ls, 1, n) = 1 .. n
           /\ Len(SubSeq(ls, 1, n)) = n
           /\ \A i \in 1 .. n : SubSeq(ls, 1, n)[i] = ls[i]
<1>1. Len(ls) \in Nat /\ DOMAIN ls = 1 .. Len(ls) /\ \A i \in 1 .. n : ls[i] \in S
    BY LenProperties, ElementOfSeq
<1>2. SubSeq(ls, 1, n) \in Seq(S)
    BY <1>1, SubSeqProperties
<1>3. Len(SubSeq(ls, 1, n)) = n /\ DOMAIN SubSeq(ls, 1, n) = 1 .. n
    BY <1>1
<1>4. \A i \in 1 .. n : SubSeq(ls, 1, n)[i] = ls[i]
    BY <1>1
<1> QED
    BY <1>2, <1>3, <1>4

\* It has no lines of its own, unless its last line is better than it was.
LEMMA CutLines ==
    ASSUME NEW S, NEW ls \in Seq(S), NEW n \in 0 .. Len(ls),
           NEW good \in BOOLEAN, NEW left \in BOOLEAN, n # Len(ls) \/ ~left \/ good, NEW k
    PROVE  LinesOf(SubSeq(ls, 1, n), left, k) \subseteq LinesOf(ls, good, k)
<1> SUFFICES ASSUME NEW i \in LinesOf(SubSeq(ls, 1, n), left, k)
             PROVE  i \in LinesOf(ls, good, k)
    OBVIOUS
<1>1. i \in 1 .. n /\ SubSeq(ls, 1, n)[i] = k /\ (i = n => left)
  <2>1. DOMAIN SubSeq(ls, 1, n) = 1 .. n /\ Len(SubSeq(ls, 1, n)) = n
    BY CutSeq, Zenon
  <2> QED
    BY <2>1, Zenon DEF LinesOf
<1>2. ls[i] = k
    BY <1>1, CutSeq, Zenon
<1>3. DOMAIN ls = 1 .. Len(ls)
    BY LenProperties, Zenon
<1>4. i \in 1 .. Len(ls) /\ (i = Len(ls) => i = n /\ n = Len(ls))
  <2>1. PICK l \in Nat : l = Len(ls)
    BY LenProperties, Zenon
  <2>2. n \in 0 .. l
    BY <2>1, Zenon
  <2>3. ASSUME NEW a \in 1 .. n PROVE a \in 1 .. l /\ (a = l => a = n /\ n = l)
    BY <2>2
  <2> QED
    BY <1>1, <2>1, <2>3, Zenon
<1>5. i = Len(ls) => good
    BY <1>1, <1>4, Zenon
<1> QED
    BY <1>2, <1>3, <1>4, <1>5, Zenon DEF LinesOf

\* A line that was not there does not make another one double.
LEMMA InsertedOnce ==
    ASSUME NEW S, NEW ls \in Seq(S), NEW m \in S, NEW good \in BOOLEAN, ls = <<>> => good,
           LinesOf(ls, good, m) = {}, OnceIn(ls, good)
    PROVE  OnceIn(Inserted(ls, m), good)
<1> SUFFICES ASSUME NEW k \in Mods,
                    NEW i \in LinesOf(Inserted(ls, m), good, k),
                    NEW j \in LinesOf(Inserted(ls, m), good, k)
             PROVE  i = j
    BY DEF OnceIn
<1> DEFINE In(x) ==
        \/ x \in LinesOf(ls, good, k) /\ x < Len(ls)
        \/ k = m /\ x = (IF ls = <<>> THEN 1 ELSE Len(ls))
        \/ x = Len(ls) + 1 /\ Len(ls) \in LinesOf(ls, good, k)
<1>1. In(i) /\ In(j)
  <2>1. ASSUME NEW x \in LinesOf(Inserted(ls, m), good, k) PROVE In(x)
    BY <2>1, InsertedWhere
  <2> QED
    BY <2>1, Zenon
<1>2. Len(ls) \in Nat /\ \A x, y \in LinesOf(ls, good, k) : x = y
    BY LenProperties DEF OnceIn
<1>3. CASE k = m
    BY <1>1, <1>3
<1>4. CASE k # m
    BY <1>1, <1>2, <1>4
<1> QED
    BY <1>3, <1>4

-------------------------------------------------------------------------------
\* Every step is one of these; the lemmas below go through them.

\* The next-state relation, action by action (kernel_builder.py:135-191).
LEMMA Steps ==
    ASSUME NEW P,
           Begin => P, \A m \in Mods : Copy(m) => P, ReadOption => P, AddToMakefile => P,
           AddToKconfig => P, CutWrite => P, Build \/ End => P, Stop => P,
           \A m \in Mods : Edit(m) => P, Unpack => P,
           UNCHANGED vars => P,
           [Next]_vars
    PROVE  P
BY DEF Next

\* Faults are counted up to their bound.
LEMMA FaultType ==
    ASSUME Values, NEW k, Fault(k)
    PROVE  faults' \in 0 .. MaxFaults
BY ModulesAssumption DEF Values, Fault

\* The initial states have the right types.
LEMMA InitType == Init => TypeOK
<1> SUFFICES ASSUME Init PROVE TypeOK
    OBVIOUS
<1>1. kconfig \in Seq(Mods \cup {"menu", "endmenu"})
  <2>1. <<"menu", "endmenu">> \in Seq(Mods \cup {"menu", "endmenu"})
    OBVIOUS
  <2> QED
    BY <2>1 DEF Init, PristineKconfig
<1>2. copied \in [Mods -> Contents]
    BY DEF Init, Contents
<1>3. faults \in 0 .. MaxFaults
    BY ModulesAssumption DEF Init
<1>4. cut \in BOOLEAN
    BY DEF Init
<1>5. lastline \in Remains /\ (kconfig = <<>> => lastline = "whole")
    BY DEF Init, Remains
<1> QED
    BY <1>1, <1>2, <1>3, <1>4, <1>5 DEF Init, TypeOK, Values

\* Every step keeps every variable in its type.
LEMMA NextValues == Values /\ [Next]_vars => Values'
<1> SUFFICES ASSUME Values, [Next]_vars PROVE Values'
    OBVIOUS
<1> USE DEF Values, user, tree, kfile, Exit
<1>1. Begin => Values'
    BY DEF Begin
<1>2. ASSUME NEW m \in Mods, Copy(m) PROVE Values'
  <2>1. copied' \in [Mods -> Contents]
    BY <1>2 DEF Copy
  <2>2. faults' \in 0 .. MaxFaults
    BY <1>2, FaultType DEF Copy
  <2> QED
    BY <1>2, <2>1, <2>2 DEF Copy
<1>3. ReadOption => Values'
    BY DEF ReadOption
<1>4. AddToMakefile => Values'
    BY DEF AddToMakefile
<1>5. ASSUME AddToKconfig PROVE Values'
  <2>1. kconfig' \in Seq(Mods \cup {"menu", "endmenu"})
    BY <1>5, InsertedSeq DEF AddToKconfig
  <2>2. kconfig' = <<>> => lastline' = "whole"
    <3>1. CASE kconfig' = kconfig
        BY <1>5, <3>1 DEF AddToKconfig
    <3>2. CASE kconfig' = Inserted(kconfig, cur)
      <4>1. Len(Inserted(kconfig, cur)) = Len(kconfig) + 1 /\ Len(kconfig) \in Nat
        BY InsertedSeq, LenProperties
      <4>2. Len(<<>>) = 0
        OBVIOUS
      <4> QED
        BY <3>2, <4>1, <4>2
    <3> QED
        BY <1>5, <3>1, <3>2 DEF AddToKconfig
  <2> QED
    BY <1>5, <2>1, <2>2 DEF AddToKconfig
<1>6. ASSUME CutWrite PROVE Values'
  <2>1. PICK n \in 0 .. Len(kconfig) + 1, rest \in Remains :
            /\ n = 0 => rest = "whole"
            /\ kconfig' = SubSeq(Inserted(kconfig, cur), 1, n)
            /\ lastline' = rest
    BY <1>6 DEF CutWrite
  <2>2. PICK new \in Seq(Mods \cup {"menu", "endmenu"}) :
            new = Inserted(kconfig, cur) /\ Len(new) = Len(kconfig) + 1
    <3>1. Inserted(kconfig, cur) \in Seq(Mods \cup {"menu", "endmenu"})
        BY InsertedSeq
    <3>2. Len(Inserted(kconfig, cur)) = Len(kconfig) + 1
      <4>1. PICK S : kconfig \in Seq(S) /\ cur \in S
        BY Zenon
      <4> QED
        BY <4>1, InsertedSeq
    <3> QED
        BY <3>1, <3>2
  <2>3. kconfig' \in Seq(Mods \cup {"menu", "endmenu"}) /\ Len(kconfig') = n
    BY <2>1, <2>2, CutSeq
  <2>4. kconfig' = <<>> => lastline' = "whole"
    <3>1. Len(<<>>) = 0
        OBVIOUS
    <3> QED
        BY <2>1, <2>3, <3>1
  <2>5. faults' \in 0 .. MaxFaults
    BY <1>6, FaultType DEF CutWrite
  <2> QED
    BY <1>6, <2>1, <2>3, <2>4, <2>5 DEF CutWrite
<1>7. Build \/ End => Values'
    BY DEF Build, End
<1>8. Stop => Values'
    BY FaultType DEF Stop
<1>9. ASSUME NEW m \in Mods, Edit(m) PROVE Values'
    BY <1>9 DEF Edit
<1>10. ASSUME Unpack PROVE Values'
  <2>1. <<"menu", "endmenu">> \in Seq(Mods \cup {"menu", "endmenu"})
    OBVIOUS
  <2>2. copied' \in [Mods -> Contents]
    BY <1>10 DEF Unpack, Contents
  <2> QED
    BY <1>10, <2>1, <2>2 DEF Unpack, PristineKconfig, Remains
<1>11. UNCHANGED vars => Values'
    BY DEF vars
<1> QED
    BY Steps, <1>1, <1>2, <1>3, <1>4, <1>5, <1>6, <1>7, <1>8, <1>9, <1>10, <1>11

\* Whether a write was cut off stays a Boolean.
LEMMA NextCut == cut \in BOOLEAN /\ [Next]_vars => cut' \in BOOLEAN
BY DEF Next, Begin, Copy, ReadOption, AddToMakefile, AddToKconfig, CutWrite, Build, End,
       Stop, Edit, Unpack, tree, kfile, vars

-------------------------------------------------------------------------------
\* What steps make of the modules that are part of the tree.

\* Only the two files count.
LEMMA SameFiles ==
    kconfig' = kconfig /\ lastline' = lastline /\ makefile' = makefile => Registered' = Registered
BY DEF Registered, Sources

\* A line that is found is read.
LEMMA FoundIsRead ==
    ASSUME NEW m
    PROVE  LinesOf(kconfig, lastline = "whole", m) \subseteq Sources(m)
BY DEF Sources, LinesOf

\* A line in the Makefile brings in no other module, and none is lost.
LEMMA AfterMakefile ==
    ASSUME Values, AddToMakefile
    PROVE  Registered \subseteq Registered' /\ Registered' \subseteq Registered \cup {cur}
<1>1. makefile' = makefile \cup {<<copied[cur], cur>>}
      /\ kconfig' = kconfig /\ lastline' = lastline
    BY DEF AddToMakefile, kfile
<1>2. \A m \in Mods, o \in Options :
         <<o, m>> \in makefile' => m = cur \/ <<o, m>> \in makefile
    BY <1>1
<1>3. \A m : Sources(m)' = Sources(m)
    BY <1>1 DEF Sources
<1>4. Registered' \subseteq Registered \cup {cur}
    BY <1>2, <1>3 DEF Registered
<1> QED
    BY <1>1, <1>3, <1>4 DEF Registered

\* With its line in Kconfig the module is part of the tree.
LEMMA AfterKconfig ==
    ASSUME Values, DoneIsIn, AddToKconfig
    PROVE  Registered' = Registered \cup {cur}
<1>1. /\ makefile' = makefile /\ lastline' = lastline
      /\ cur \in Mods /\ \E o \in Options : <<o, cur>> \in makefile
    BY DEF AddToKconfig, Values, DoneIsIn
<1>2. ASSUME NEW m PROVE Sources(m)' # {} <=> Sources(m) # {} \/ m = cur
  <2>1. CASE Sourced
    <3>1. kconfig' = kconfig
        BY <2>1 DEF AddToKconfig
    <3>2. Sources(m)' = Sources(m)
        BY <1>1, <3>1 DEF Sources
    <3>3. Sources(cur) # {}
        BY <2>1, FoundIsRead DEF Sourced
    <3> QED
        BY <3>2, <3>3
  <2>2. CASE ~Sourced
    <3>1. kconfig' = Inserted(kconfig, cur)
        BY <2>2 DEF AddToKconfig
    <3>2. PICK good \in BOOLEAN : good = (lastline # "half")
        OBVIOUS
    <3>3. PICK S : kconfig \in Seq(S) /\ cur \in S
      <4>1. /\ kconfig \in Seq(Mods \cup {"menu", "endmenu"})
            /\ cur \in Mods \cup {"menu", "endmenu"}
        BY DEF Values
      <4> QED
        BY <4>1, Zenon
    <3>4. kconfig = <<>> => good
        BY <3>2 DEF Values
    <3>5. LinesOf(Inserted(kconfig, cur), good, m) # {} <=> LinesOf(kconfig, good, m) # {} \/ m = cur
        BY <3>3, <3>4, InsertedThere
    <3>6. Sources(m) = LinesOf(kconfig, good, m) /\ Sources(m)' = LinesOf(kconfig', good, m)
        BY <1>1, <3>2 DEF Sources
    <3> QED
        BY <3>1, <3>5, <3>6
  <2> QED
    BY <2>1, <2>2
<1> QED
    BY <1>1, <1>2 DEF Registered

\* A write that is cut off leaves no line that would not have been there.
LEMMA AfterCutLines ==
    ASSUME Values, CutWrite, NEW k
    PROVE  /\ LinesOf(kconfig', lastline' = "whole", k)
                  \subseteq LinesOf(Inserted(kconfig, cur), lastline = "whole", k)
           /\ LinesOf(kconfig', lastline' # "half", k)
                  \subseteq LinesOf(Inserted(kconfig, cur), lastline # "half", k)
<1>1. PICK n \in 0 .. Len(kconfig) + 1, rest \in Remains :
          /\ n = Len(kconfig) + 1 => rest = "half" \/ (rest = "open" /\ lastline # "half")
          /\ kconfig' = SubSeq(Inserted(kconfig, cur), 1, n)
          /\ lastline' = rest
    BY DEF CutWrite
<1>2. PICK S : kconfig \in Seq(S) /\ cur \in S
  <2>1. kconfig \in Seq(Mods \cup {"menu", "endmenu"}) /\ cur \in Mods \cup {"menu", "endmenu"}
    BY DEF Values
  <2> QED
    BY <2>1, Zenon
<1>3. PICK new \in Seq(S) : new = Inserted(kconfig, cur) /\ Len(new) = Len(kconfig) + 1
    BY <1>2, InsertedSeq
<1>4. n \in 0 .. Len(new)
    BY <1>3
<1>5. ASSUME NEW good \in BOOLEAN, NEW left \in BOOLEAN, n # Len(new) \/ ~left \/ good
      PROVE  LinesOf(SubSeq(new, 1, n), left, k) \subseteq LinesOf(new, good, k)
    BY <1>4, <1>5, CutLines
<1>6. n # Len(new) \/ ~(rest = "whole") \/ lastline = "whole"
    BY <1>1, <1>3
<1>7. n # Len(new) \/ ~(rest # "half") \/ lastline # "half"
    BY <1>1, <1>3
<1>8. LinesOf(SubSeq(new, 1, n), rest = "whole", k) \subseteq LinesOf(new, lastline = "whole", k)
    BY <1>5, <1>6
<1>9. LinesOf(SubSeq(new, 1, n), rest # "half", k) \subseteq LinesOf(new, lastline # "half", k)
    BY <1>5, <1>7
<1> QED
    BY <1>1, <1>3, <1>8, <1>9

\* It brings in no module but the one it is about.
LEMMA AfterCut ==
    ASSUME Values, CutWrite
    PROVE  Registered' \subseteq Registered \cup {cur}
<1>1. ASSUME NEW m \in Mods, Sources(m)' # {} PROVE Sources(m) # {} \/ m = cur
  <2>1. PICK good \in BOOLEAN : good = (lastline # "half")
    OBVIOUS
  <2>2. PICK S : kconfig \in Seq(S) /\ cur \in S
    <3>1. /\ kconfig \in Seq(Mods \cup {"menu", "endmenu"})
          /\ cur \in Mods \cup {"menu", "endmenu"}
        BY DEF Values
    <3> QED
        BY <3>1, Zenon
  <2>3. kconfig = <<>> => good
    BY <2>1 DEF Values
  <2>4. LinesOf(Inserted(kconfig, cur), good, m) # {} <=> LinesOf(kconfig, good, m) # {} \/ m = cur
    BY <2>2, <2>3, InsertedThere
  <2>5. LinesOf(Inserted(kconfig, cur), good, m) # {}
    BY <1>1, <2>1, AfterCutLines DEF Sources
  <2> QED
    BY <2>1, <2>4, <2>5 DEF Sources
<1>2. makefile' = makefile
    BY DEF CutWrite
<1> QED
    BY <1>1, <1>2 DEF Registered

\* A new tree has none.
LEMMA AfterUnpack == Unpack => Registered' = {}
BY DEF Unpack, Registered

-------------------------------------------------------------------------------
\* The invariant.

\* What a session is done with stays in both files until it ends
\* (kernel_builder.py:142-169).
LEMMA NextDoneIsIn == Values /\ DoneIsIn /\ [Next]_vars => DoneIsIn'
<1> SUFFICES ASSUME Values, DoneIsIn, [Next]_vars PROVE DoneIsIn'
    OBVIOUS
<1> USE DEF Values, DoneIsIn, user, tree, kfile, Exit
<1>1. Begin => DoneIsIn'
    BY DEF Begin
<1>2. ASSUME NEW m \in Mods, Copy(m) PROVE DoneIsIn'
  <2>1. Registered' = Registered
    BY <1>2, SameFiles DEF Copy
  <2> QED
    BY <1>2, <2>1 DEF Copy
<1>3. ASSUME ReadOption PROVE DoneIsIn'
  <2>1. Registered' = Registered
    BY <1>3, SameFiles DEF ReadOption
  <2> QED
    BY <1>3, <2>1 DEF ReadOption
<1>4. ASSUME AddToMakefile PROVE DoneIsIn'
  <2>1. Registered \subseteq Registered'
    BY <1>4, AfterMakefile
  <2>2. <<copied[cur], cur>> \in makefile' /\ copied[cur] \in Options /\ cur' = cur
    BY <1>4 DEF AddToMakefile
  <2> QED
    BY <1>4, <2>1, <2>2 DEF AddToMakefile
<1>5. ASSUME AddToKconfig PROVE DoneIsIn'
  <2>1. Registered' = Registered \cup {cur}
    BY <1>5, AfterKconfig
  <2> QED
    BY <1>5, <2>1 DEF AddToKconfig
<1>6. CutWrite => DoneIsIn'
    BY DEF CutWrite
<1>7. ASSUME Build \/ End PROVE DoneIsIn'
  <2>1. Registered' = Registered
    BY <1>7, SameFiles DEF Build, End
  <2> QED
    BY <1>7, <2>1 DEF Build, End, Added
<1>8. Stop => DoneIsIn'
    BY DEF Stop
<1>9. ASSUME NEW m \in Mods, Edit(m) PROVE DoneIsIn'
    BY <1>9 DEF Edit
<1>10. Unpack => DoneIsIn'
    BY DEF Unpack
<1>11. ASSUME UNCHANGED vars PROVE DoneIsIn'
  <2>1. Registered' = Registered
    BY <1>11, SameFiles DEF vars
  <2> QED
    BY <1>11, <2>1 DEF vars
<1> QED
    BY Steps, <1>1, <1>2, <1>3, <1>4, <1>5, <1>6, <1>7, <1>8, <1>9, <1>10, <1>11

\* A line that is inserted keeps the menu closed (kernel_builder.py:156-160).
LEMMA MenuInserted ==
    ASSUME Values, Menu, ~cut, AddToKconfig, ~Sourced
    PROVE  Menu'
<1>1. PICK n \in Nat \ {0} : Len(kconfig) = n
    BY EmptySeq DEF Values, Menu
<1>2. n >= 2 /\ kconfig[1] = "menu" /\ kconfig[n] = "endmenu"
      /\ \A i \in 2 .. n - 1 : kconfig[i] \in Mods
    BY <1>1 DEF Menu
<1>3. kconfig' = Inserted(kconfig, cur) /\ cur \in Mods /\ cut' = cut
    BY DEF AddToKconfig, Values
<1>4. PICK S : kconfig \in Seq(S) /\ cur \in S
  <2>1. kconfig \in Seq(Mods \cup {"menu", "endmenu"}) /\ cur \in Mods \cup {"menu", "endmenu"}
    BY DEF Values
  <2> QED
    BY <2>1, Zenon
<1>5. Len(Inserted(kconfig, cur)) = n + 1 /\ Inserted(kconfig, cur)[n] = cur
  <2>1. Len(Inserted(kconfig, cur)) = n + 1
    BY <1>1, <1>4, InsertedLines
  <2>2. Inserted(kconfig, cur)[n] = cur
    BY <1>1, <1>4, InsertedLines
  <2> QED
    BY <2>1, <2>2
<1>6. Inserted(kconfig, cur)[n + 1] = kconfig[n]
    BY <1>1, <1>4, InsertedLines
<1>7. \A i \in 1 .. n - 1 : Inserted(kconfig, cur)[i] = kconfig[i]
    BY <1>1, <1>4, InsertedLines
<1>8. /\ Len(kconfig') = n + 1 /\ kconfig'[n] = cur /\ kconfig'[n + 1] = kconfig[n]
      /\ \A i \in 1 .. n - 1 : kconfig'[i] = kconfig[i]
    BY <1>3, <1>5, <1>6, <1>7
<1>9. \A i \in 2 .. (n + 1) - 1 : kconfig'[i] \in Mods
  <2>1. ASSUME NEW i \in 2 .. (n + 1) - 1 PROVE i = n \/ (i \in 1 .. n - 1 /\ i \in 2 .. n - 1)
    BY <1>1
  <2> QED
    BY <1>2, <1>3, <1>8, <2>1
<1>10. kconfig'[1] = "menu"
    BY <1>2, <1>8
<1> QED
    BY <1>2, <1>8, <1>9, <1>10 DEF Menu

\* So no step opens it, but a write that is cut off.
LEMMA NextMenu == Values /\ Menu /\ [Next]_vars => Menu'
<1> SUFFICES ASSUME Values, Menu, [Next]_vars PROVE Menu'
    OBVIOUS
<1> USE DEF Menu, user, tree, kfile, Exit
<1>1. Begin => Menu'
    BY DEF Begin
<1>2. ASSUME NEW m \in Mods, Copy(m) PROVE Menu'
    BY <1>2 DEF Copy
<1>3. ReadOption => Menu'
    BY DEF ReadOption
<1>4. AddToMakefile => Menu'
    BY DEF AddToMakefile
<1>5. ASSUME AddToKconfig PROVE Menu'
  <2>1. CASE Sourced
    BY <1>5, <2>1 DEF AddToKconfig
  <2>2. CASE ~Sourced /\ ~cut
    BY <1>5, <2>2, MenuInserted
  <2>3. CASE cut
    BY <1>5, <2>3 DEF AddToKconfig
  <2> QED
    BY <2>1, <2>2, <2>3
<1>6. CutWrite => Menu'
    BY DEF CutWrite
<1>7. Build \/ End => Menu'
    BY DEF Build, End
<1>8. Stop => Menu'
    BY DEF Stop
<1>9. ASSUME NEW m \in Mods, Edit(m) PROVE Menu'
    BY <1>9 DEF Edit
<1>10. ASSUME Unpack PROVE Menu'
  <2>1. kconfig' = <<"menu", "endmenu">>
    BY <1>10 DEF Unpack, PristineKconfig
  <2> QED
    BY <2>1
<1>11. UNCHANGED vars => Menu'
    BY DEF vars
<1> QED
    BY Steps, <1>1, <1>2, <1>3, <1>4, <1>5, <1>6, <1>7, <1>8, <1>9, <1>10, <1>11

\* A module has at most one line with its newline, whatever is added and cut off
\* (kernel_builder.py:155-160).
LEMMA NextOnce == Values /\ Once /\ [Next]_vars => Once'
<1> SUFFICES ASSUME Values, Once, [Next]_vars PROVE Once'
    OBVIOUS
<1> USE DEF user, tree, kfile, Exit
<1>a. ASSUME kconfig' = kconfig, lastline' = lastline PROVE Once'
    BY <1>a DEF Once, OnceIn
<1>b. ASSUME ~Sourced PROVE OnceIn(Inserted(kconfig, cur), lastline = "whole")
  <2>1. PICK S : kconfig \in Seq(S) /\ cur \in S
    <3>1. /\ kconfig \in Seq(Mods \cup {"menu", "endmenu"})
          /\ cur \in Mods \cup {"menu", "endmenu"}
        BY DEF Values
    <3> QED
        BY <3>1, Zenon
  <2>2. PICK good \in BOOLEAN : good = (lastline = "whole")
    OBVIOUS
  <2>3. kconfig = <<>> => good
    BY <2>2 DEF Values
  <2>4. LinesOf(kconfig, good, cur) = {} /\ OnceIn(kconfig, good)
    BY <1>b, <2>2 DEF Sourced, Once
  <2> QED
    BY <2>1, <2>2, <2>3, <2>4, InsertedOnce
<1>1. Begin => Once'
    BY <1>a DEF Begin
<1>2. ASSUME NEW m \in Mods, Copy(m) PROVE Once'
    BY <1>2, <1>a DEF Copy
<1>3. ReadOption => Once'
    BY <1>a DEF ReadOption
<1>4. AddToMakefile => Once'
    BY <1>a DEF AddToMakefile
<1>5. ASSUME AddToKconfig PROVE Once'
  <2>1. CASE Sourced
    BY <1>5, <1>a, <2>1 DEF AddToKconfig
  <2>2. CASE ~Sourced
    <3>1. kconfig' = Inserted(kconfig, cur) /\ lastline' = lastline
        BY <1>5, <2>2 DEF AddToKconfig
    <3> QED
        BY <1>b, <2>2, <3>1 DEF Once
  <2> QED
    BY <2>1, <2>2
<1>6. ASSUME CutWrite PROVE Once'
  <2>1. OnceIn(Inserted(kconfig, cur), lastline = "whole")
    BY <1>6, <1>b DEF CutWrite
  <2>2. \A k : LinesOf(kconfig', lastline' = "whole", k)
                  \subseteq LinesOf(Inserted(kconfig, cur), lastline = "whole", k)
    BY <1>6, AfterCutLines
  <2>3. OnceIn(kconfig', lastline' = "whole")
    BY <2>1, <2>2 DEF OnceIn
  <2> QED
    BY <2>3 DEF Once
<1>7. Build \/ End => Once'
    BY <1>a DEF Build, End
<1>8. Stop => Once'
    BY <1>a DEF Stop
<1>9. ASSUME NEW m \in Mods, Edit(m) PROVE Once'
    BY <1>9, <1>a DEF Edit
<1>10. ASSUME Unpack PROVE Once'
  <2>1. kconfig' = <<"menu", "endmenu">>
    BY <1>10 DEF Unpack, PristineKconfig
  <2>2. OnceIn(kconfig', lastline' = "whole")
    BY <2>1, ModulesAssumption DEF OnceIn, LinesOf
  <2> QED
    BY <2>2 DEF Once
<1>11. UNCHANGED vars => Once'
    BY <1>a DEF vars
<1> QED
    BY Steps, <1>1, <1>2, <1>3, <1>4, <1>5, <1>6, <1>7, <1>8, <1>9, <1>10, <1>11

\* A module that is done with keeps the line of its option for the session: the
\* user's modules are read once each, and the Makefile only grows
\* (kernel_builder.py:142-154).
LEMMA NextUnderItsOption ==
    Values /\ UnderItsOption /\ [Next]_vars => UnderItsOption'
<1> SUFFICES ASSUME Values, UnderItsOption, [Next]_vars PROVE UnderItsOption'
    OBVIOUS
<1> USE DEF Values, UnderItsOption, Entered, user, tree, kfile, Exit
<1>1. Begin => UnderItsOption'
    BY DEF Begin
<1>2. ASSUME NEW m \in Mods, Copy(m) PROVE UnderItsOption'
  <2>1. /\ pc = "next" /\ pc' = "read" /\ cur' = m /\ lost \subseteq lost'
        /\ UNCHANGED <<source, asked, todo, makefile>>
    BY <1>2 DEF Copy
  <2>2. m \in lost' \/ source[m] \in {copied'[m], "missing"}
    <3>1. CASE Fault("cp") /\ lost' = lost \cup {m}
        BY <3>1
    <3>2. CASE copied' = IF source[m] = "missing" THEN copied
                         ELSE [copied EXCEPT ![m] = source[m]]
        BY <3>2
    <3> QED
        BY <1>2, <3>1, <3>2 DEF Copy
  <2> QED
    BY <2>1, <2>2
<1>3. ReadOption => UnderItsOption'
    BY DEF ReadOption
<1>4. ASSUME AddToMakefile PROVE UnderItsOption'
  <2>1. /\ pc = "makefile" /\ pc' = "kconfig" /\ makefile \subseteq makefile'
        /\ <<copied[cur], cur>> \in makefile' /\ copied[cur] \in Options
        /\ UNCHANGED <<source, asked, todo, cur, lost>>
    BY <1>4 DEF AddToMakefile
  <2>2. cur \in lost \/ source[cur] \in {copied[cur], "missing"}
    BY <2>1
  <2>3. cur' \in lost' \/ Entered(cur)'
    BY <2>1, <2>2
  <2>4. \A m \in asked' \ todo' : m \in lost' \/ Entered(m)'
    BY <2>1
  <2> QED
    BY <2>1, <2>3, <2>4
<1>5. ASSUME AddToKconfig PROVE UnderItsOption'
  <2>1. /\ pc = "kconfig" /\ pc' = "next" /\ todo' = todo \ {cur}
        /\ UNCHANGED <<source, asked, makefile, lost>>
    BY <1>5 DEF AddToKconfig
  <2>2. \A m \in asked' \ todo' : m \in lost \/ Entered(m)
    BY <2>1
  <2> QED
    BY <2>1, <2>2
<1>6. CutWrite => UnderItsOption'
    BY DEF CutWrite
<1>7. Build \/ End => UnderItsOption'
    BY DEF Build, End
<1>8. Stop => UnderItsOption'
    BY DEF Stop
<1>9. ASSUME NEW m \in Mods, Edit(m) PROVE UnderItsOption'
    BY <1>9 DEF Edit
<1>10. Unpack => UnderItsOption'
    BY DEF Unpack
<1>11. UNCHANGED vars => UnderItsOption'
    BY DEF vars
<1> QED
    BY Steps, <1>1, <1>2, <1>3, <1>4, <1>5, <1>6, <1>7, <1>8, <1>9, <1>10, <1>11

\* The inductive invariant holds at the start.
LEMMA InitInv == Init => IInv
<1> SUFFICES ASSUME Init PROVE IInv
    OBVIOUS
<1>1. DoneIsIn
    BY DEF Init, DoneIsIn
<1>2. kconfig = <<"menu", "endmenu">>
    BY DEF Init, PristineKconfig
<1>3. Menu
    BY <1>2 DEF Menu
<1>4. Once
    BY <1>2, ModulesAssumption DEF Once, OnceIn, LinesOf
<1>5. UnderItsOption
    BY DEF Init, UnderItsOption
<1> QED
    BY <1>1, <1>3, <1>4, <1>5, InitType DEF IInv

\* Every step preserves it.
LEMMA NextInv == IInv /\ [Next]_vars => IInv'
<1> SUFFICES ASSUME IInv, [Next]_vars PROVE IInv'
    OBVIOUS
<1>1. Values /\ cut \in BOOLEAN /\ DoneIsIn /\ Menu /\ Once /\ UnderItsOption
    BY DEF IInv, TypeOK
<1>2. Values' /\ cut' \in BOOLEAN /\ DoneIsIn' /\ Menu' /\ Once' /\ UnderItsOption'
    BY <1>1, NextValues, NextCut, NextDoneIsIn, NextMenu, NextOnce, NextUnderItsOption
<1> QED
    BY <1>2 DEF IInv, TypeOK

\* The inductive invariant of drivers/misc holds in every reachable state, over
\* any number of sessions, modules and faults (kernel_builder.py:135-169).
THEOREM ModulesInvariance == Spec => []IInv
BY InitInv, NextInv, PTL DEF Spec

\* Every variable keeps its type, and no module without an option is entered.
THEOREM ModulesTypes == Spec => []TypeOK
<1>1. IInv => TypeOK
    BY DEF IInv
<1> QED
    BY <1>1, ModulesInvariance, PTL

\* Modules stay inside the menu unless a write was cut off
\* (kernel_builder.py:156-160).
THEOREM ClosedMenu == Spec => []MenuIsClosed
<1>1. IInv => MenuIsClosed
    BY DEF IInv, Menu, MenuIsClosed
<1> QED
    BY <1>1, ModulesInvariance, PTL

\* When the build begins, every module asked for is entered under the option it
\* has now and sourced, once unless its own line lost its newline to a write that
\* was cut off, whatever else was interrupted, cut off or renamed before
\* (kernel_builder.py:142-169).
THEOREM EveryModuleIn == Spec => []AllAskedForIn
<1>1. ASSUME IInv, pc = "build", NEW m \in asked
      PROVE  /\ Sources(m) # {}
             /\ Cardinality(Sources(m)) = 1 \/ (Last(kconfig) = m /\ lastline = "open")
  <2>1. Sources(m) # {} /\ m \in Mods
    BY <1>1 DEF IInv, TypeOK, Values, DoneIsIn, Registered
  <2>2. CASE ~(Last(kconfig) = m /\ lastline = "open")
    <3>1. PICK i : i \in Sources(m)
        BY <2>1
    <3>2. ASSUME NEW j \in Sources(m) PROVE j \in LinesOf(kconfig, lastline = "whole", m)
      <4>1. lastline \in {"whole", "open", "half"}
        BY <1>1 DEF IInv, TypeOK, Values, Remains
      <4> QED
        BY <2>2, <3>2, <4>1 DEF Sources, LinesOf, Last
    <3>3. Sources(m) = {i}
        BY <1>1, <2>1, <3>1, <3>2 DEF IInv, Once, OnceIn
    <3> QED
        BY <2>1, <3>3, FS_Singleton
  <2> QED
    BY <2>1, <2>2
<1>2. ASSUME IInv, pc = "build", NEW m \in asked, m \notin lost PROVE Entered(m)
    BY <1>2 DEF IInv, DoneIsIn, UnderItsOption
<1>3. IInv => AllAskedForIn
    BY <1>1, <1>2 DEF AllAskedForIn, Entered
<1> QED
    BY <1>3, ModulesInvariance, PTL

-------------------------------------------------------------------------------
\* The refinement.

\* At first no module is asked for or part of the tree.
LEMMA InitRefines == Init => Registry!Init
<1> SUFFICES ASSUME Init PROVE Registry!Init
    OBVIOUS
<1>1. Registered = {}
    BY DEF Init, Registered
<1> QED
    BY <1>1 DEF Init, Registry!Init

\* Every step is one of the registry's or none (kernel_builder.py:135-191).
LEMMA NextRefines == IInv /\ [Next]_vars => [Registry!Next]_(Registry!vars)
<1> SUFFICES ASSUME IInv, [Next]_vars PROVE [Registry!Next]_(Registry!vars)
    OBVIOUS
<1> DEFINE Abs == [Registry!Next]_(Registry!vars)
<1>a. Values /\ DoneIsIn
    BY DEF IInv, TypeOK
<1>b. ASSUME Registered' = Registered, asked' = asked, (pc = "build") <=> (pc' = "build"),
             cut' = cut
      PROVE  Abs
  <2>1. (pc = "build") = (pc = "build")' /\ (~cut) = (~cut)'
    BY <1>b
  <2> QED
    BY <1>b, <2>1 DEF Registry!vars
<1>1. ASSUME Begin PROVE Abs
  <2>1. Registered' = Registered /\ (~cut) = (~cut)' /\ (pc = "build") = (pc = "build")'
    BY <1>1, SameFiles DEF Begin, tree, kfile
  <2> QED
    BY <1>1, <2>1 DEF Begin, Registry!Next, Registry!Ask
<1>2. ASSUME NEW m \in Mods, Copy(m) PROVE Abs
    BY <1>2, <1>b, SameFiles DEF Copy, user, kfile
<1>3. ASSUME ReadOption PROVE Abs
    BY <1>3, <1>b, SameFiles DEF ReadOption, user, tree, kfile, Exit
<1>4. ASSUME AddToMakefile PROVE Abs
  <2>1. pc = "makefile" /\ pc' = "kconfig" /\ asked' = asked /\ cur \in asked /\ cut' = cut
    BY <1>4, <1>a DEF AddToMakefile, user, kfile, Values
  <2>2. Registered' = Registered \/ Registered' = Registered \cup {cur}
    BY <1>4, <1>a, AfterMakefile
  <2>3. CASE Registered' = Registered
    BY <1>b, <2>1, <2>3
  <2>4. CASE Registered' = Registered \cup {cur}
    <3>1. Registry!Register(cur)
        BY <2>1, <2>4 DEF Registry!Register
    <3> QED
        BY <1>a, <3>1 DEF Registry!Next, Values
  <2> QED
    BY <2>2, <2>3, <2>4
<1>5. ASSUME AddToKconfig PROVE Abs
  <2>1. pc = "kconfig" /\ pc' = "next" /\ asked' = asked /\ cur \in asked /\ cut' = cut
    BY <1>5, <1>a DEF AddToKconfig, user, Values
  <2>2. Registered' = Registered \cup {cur}
    BY <1>5, <1>a, AfterKconfig
  <2>3. Registry!Register(cur)
    BY <2>1, <2>2 DEF Registry!Register
  <2> QED
    BY <1>a, <2>3 DEF Registry!Next, Values
<1>6. ASSUME CutWrite PROVE Abs
  <2>1. pc = "kconfig" /\ pc' = "idle" /\ asked' = asked /\ cur \in asked /\ cut' = TRUE
    BY <1>6, <1>a DEF CutWrite, user, Values, Exit
  <2>2. Registered' \in SUBSET (Registered \cup asked)
    BY <1>6, <1>a, <2>1, AfterCut
  <2>3. Registry!Cut
    BY <2>1, <2>2 DEF Registry!Cut
  <2> QED
    BY <2>3 DEF Registry!Next
<1>7. ASSUME Build \/ End PROVE Abs
  <2>1. Registered' = Registered /\ asked' = asked /\ cut' = cut
    BY <1>7, SameFiles DEF Build, End, user, tree, kfile
  <2>2. CASE Build
    <3>1. pc = "next" /\ pc' = "build" /\ asked \subseteq Registered
        BY <2>2, <1>a DEF Build, Added, DoneIsIn
    <3>2. Registry!Build
        BY <2>1, <3>1 DEF Registry!Build
    <3> QED
        BY <3>2 DEF Registry!Next
  <2>3. CASE End
    <3>1. pc = "build" /\ pc' = "idle"
        BY <2>3 DEF End, Exit
    <3>2. Registry!End
        BY <2>1, <3>1 DEF Registry!End
    <3> QED
        BY <3>2 DEF Registry!Next
  <2> QED
    BY <1>7, <2>2, <2>3
<1>8. ASSUME Stop PROVE Abs
    BY <1>8, <1>b, SameFiles DEF Stop, user, tree, kfile, Exit
<1>9. ASSUME NEW m \in Mods, Edit(m) PROVE Abs
    BY <1>9, <1>b, SameFiles DEF Edit, tree, kfile
<1>10. ASSUME Unpack PROVE Abs
  <2>1. pc = "idle" /\ pc' = pc /\ asked' = asked /\ cut' = FALSE /\ Registered' = {}
    BY <1>10, AfterUnpack DEF Unpack, user
  <2>2. Registry!Unpack
    BY <2>1 DEF Registry!Unpack
  <2> QED
    BY <2>2 DEF Registry!Next
<1>11. ASSUME UNCHANGED vars PROVE Abs
    BY <1>11, <1>b, SameFiles DEF vars, user, tree, kfile
<1> QED
    BY Steps, <1>1, <1>2, <1>3, <1>4, <1>5, <1>6, <1>7, <1>8, <1>9, <1>10, <1>11

\* A kernel is only built with every module asked for in its tree, and the tree
\* loses a module only when it is unpacked anew or, from then on, when a write of
\* its Kconfig is cut off: what KernelBuilder does to the two files implements
\* ModuleRegistry (kernel_builder.py:135-191).
THEOREM RegistryIsKept == Spec => KeepsRegistry
BY InitRefines, NextRefines, ModulesInvariance, PTL DEF Spec, KeepsRegistry, Registry!Spec
==================================================================================
