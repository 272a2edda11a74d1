------------------------------- MODULE PanesProofs -------------------------------
(***************************************************************************)
(* Proofs about Panes for a window with room for any number of panes.      *)
(***************************************************************************)
EXTENDS PanesInv, SequenceTheorems, TLAPS

-------------------------------------------------------------------------------
\* Numbers of panes.

\* The panes up to number n, and those after it.
LEMMA Pieces ==
    ASSUME NEW S, NEW w \in Seq(S), NEW m \in 1 .. Len(w) + 1, NEW n \in 0 .. Len(w), m <= n + 1
    PROVE  /\ SubSeq(w, m, n) \in Seq(S)
           /\ Len(SubSeq(w, m, n)) = n - m + 1
           /\ \A i \in 1 .. n - m + 1 : SubSeq(w, m, n)[i] = w[m + i - 1]
<1>1. Len(w) \in Nat
    BY LenProperties
<1>2. m \in Int /\ n \in Int /\ \A i \in m .. n : i \in 1 .. Len(w)
    BY <1>1
<1>3. \A i \in m .. n : w[i] \in S
    BY <1>2, ElementOfSeq
<1>4. SubSeq(w, m, n) \in Seq(S)
    BY <1>2, <1>3, SubSeqProperties
<1>5. Len(SubSeq(w, m, n)) = n - m + 1
    BY <1>1, <1>3
<1>6. \A i \in 1 .. n - m + 1 : SubSeq(w, m, n)[i] = w[m + i - 1]
    BY <1>1, <1>3
<1> QED
    BY <1>4, <1>5, <1>6

\* What opening pane p after number k, and closing number k, makes of a window.
WithPane(w, k, p, new) ==
    /\ Len(new) = Len(w) + 1
    /\ \A i \in 1 .. k : new[i] = w[i]
    /\ new[k + 1] = p
    /\ \A i \in k + 1 .. Len(w) : new[i + 1] = w[i]

WithoutPane(w, k, new) ==
    /\ Len(new) = Len(w) - 1
    /\ \A i \in 1 .. k - 1 : new[i] = w[i]
    /\ \A i \in k .. Len(w) - 1 : new[i] = w[i + 1]

\* InsertAt opens a pane.
LEMMA Inserted ==
    ASSUME NEW S, NEW w \in Seq(S), NEW k \in 1 .. Len(w), NEW p \in S,
           NEW new, new = InsertAt(w, k + 1, p)
    PROVE  new \in Seq(S) /\ WithPane(w, k, p, new)
<1>1. Len(w) \in Nat /\ k \in Nat
    BY LenProperties
<1>2. PICK a \in Seq(S) : a = SubSeq(w, 1, k)
  <2>1. 1 \in 1 .. Len(w) + 1 /\ k \in 0 .. Len(w) /\ 1 <= k + 1
    BY <1>1
  <2>2. SubSeq(w, 1, k) \in Seq(S)
    BY <2>1, Pieces
  <2> QED
    BY <2>2, Zenon
<1>3. Len(a) = k /\ \A i \in 1 .. k : a[i] = w[i]
  <2>1. Len(a) = k - 1 + 1 /\ \A i \in 1 .. k - 1 + 1 : a[i] = w[1 + i - 1]
    BY <1>1, <1>2, Pieces
  <2> QED
    BY <1>1, <2>1
<1>4. PICK b \in Seq(S) : b = SubSeq(w, k + 1, Len(w))
  <2>1. k + 1 \in 1 .. Len(w) + 1 /\ Len(w) \in 0 .. Len(w) /\ k + 1 <= Len(w) + 1
    BY <1>1
  <2>2. SubSeq(w, k + 1, Len(w)) \in Seq(S)
    BY <2>1, Pieces
  <2> QED
    BY <2>2, Zenon
<1>5. Len(b) = Len(w) - k /\ \A i \in 1 .. Len(w) - k : b[i] = w[k + i]
  <2>1. /\ Len(b) = Len(w) - (k + 1) + 1
        /\ \A i \in 1 .. Len(w) - (k + 1) + 1 : b[i] = w[k + 1 + i - 1]
    BY <1>1, <1>4, Pieces
  <2> QED
    BY <1>1, <2>1
<1>6. PICK l \in Seq(S) : l = <<p>>
  <2>1. <<p>> \in Seq(S)
    OBVIOUS
  <2> QED
    BY <2>1, Zenon
<1>7. Len(l) = 1 /\ l[1] = p
    BY <1>6
<1>8. PICK c \in Seq(S) : c = a \o l
    BY ConcatProperties
<1>9. /\ Len(c) = k + 1
      /\ \A i \in 1 .. k + 1 : c[i] = IF i <= k THEN w[i] ELSE p
  <2>1. /\ Len(c) = Len(a) + Len(l)
        /\ \A i \in 1 .. Len(a) + Len(l) : c[i] = IF i <= Len(a) THEN a[i] ELSE l[i - Len(a)]
    BY <1>8, ConcatProperties, Zenon
  <2>2. ASSUME NEW i \in 1 .. k + 1 PROVE i <= k \/ i - k = 1
    BY <1>1
  <2> QED
    BY <1>1, <1>3, <1>7, <2>1, <2>2
<1>10. PICK d \in Seq(S) : d = c \o b
    BY ConcatProperties
<1>11. /\ Len(d) = Len(w) + 1
       /\ \A i \in 1 .. Len(w) + 1 : d[i] = IF i <= k + 1 THEN c[i] ELSE b[i - (k + 1)]
  <2>1. /\ Len(d) = Len(c) + Len(b)
        /\ \A i \in 1 .. Len(c) + Len(b) : d[i] = IF i <= Len(c) THEN c[i] ELSE b[i - Len(c)]
    BY <1>10, ConcatProperties
  <2>2. Len(c) + Len(b) = Len(w) + 1
    BY <1>1, <1>5, <1>9
  <2> QED
    BY <1>9, <2>1, <2>2
<1>12. InsertAt(w, k + 1, p) = d
  <2>1. k + 1 - 1 = k
    BY <1>1
  <2>2. PICK q : q = k + 1
    OBVIOUS
  <2>3. q - 1 = k
    BY <2>1, <2>2
  <2>4. InsertAt(w, q, p) = SubSeq(w, 1, q - 1) \o <<p>> \o SubSeq(w, q, Len(w))
    BY DEF InsertAt
  <2> QED
    BY <1>2, <1>4, <1>6, <1>8, <1>10, <2>2, <2>3, <2>4, Zenon
<1>13. \A i \in 1 .. k : d[i] = w[i]
    BY <1>1, <1>9, <1>11
<1>14. d[k + 1] = p
    BY <1>1, <1>9, <1>11
<1>15. ASSUME NEW i \in k + 1 .. Len(w) PROVE d[i + 1] = w[i]
  <2>1. i + 1 \in 1 .. Len(w) + 1 /\ ~(i + 1 <= k + 1) /\ i + 1 - (k + 1) = i - k
    BY <1>1
  <2>2. i - k \in 1 .. Len(w) - k /\ k + (i - k) = i
    BY <1>1
  <2>3. PICK j : j = i + 1
    OBVIOUS
  <2>4. j \in 1 .. Len(w) + 1 /\ ~(j <= k + 1) /\ j - (k + 1) = i - k
    BY <2>1, <2>3
  <2>5. d[j] = b[j - (k + 1)]
    BY <1>11, <2>4
  <2>6. b[i - k] = w[k + (i - k)]
    BY <1>5, <2>2, Zenon
  <2> QED
    BY <2>2, <2>3, <2>4, <2>5, <2>6, Zenon
<1> QED
    BY <1>11, <1>12, <1>13, <1>14, <1>15, Zenon DEF WithPane

\* Pane number k closed.
LEMMA Removed ==
    ASSUME NEW S, NEW w \in Seq(S), NEW k \in 1 .. Len(w),
           NEW new, new = RemoveAt(w, k)
    PROVE  new \in Seq(S) /\ WithoutPane(w, k, new)
<1>1. Len(w) \in Nat /\ k \in Nat
    BY LenProperties
<1>2. PICK a \in Seq(S) : a = SubSeq(w, 1, k - 1)
  <2>1. 1 \in 1 .. Len(w) + 1 /\ k - 1 \in 0 .. Len(w) /\ 1 <= k - 1 + 1
    BY <1>1
  <2>2. SubSeq(w, 1, k - 1) \in Seq(S)
    BY <2>1, Pieces
  <2> QED
    BY <2>2, Zenon
<1>3. Len(a) = k - 1 /\ \A i \in 1 .. k - 1 : a[i] = w[i]
  <2>1. Len(a) = k - 1 - 1 + 1 /\ \A i \in 1 .. k - 1 - 1 + 1 : a[i] = w[1 + i - 1]
    BY <1>1, <1>2, Pieces
  <2> QED
    BY <1>1, <2>1
<1>4. PICK b \in Seq(S) : b = SubSeq(w, k + 1, Len(w))
  <2>1. k + 1 \in 1 .. Len(w) + 1 /\ Len(w) \in 0 .. Len(w) /\ k + 1 <= Len(w) + 1
    BY <1>1
  <2>2. SubSeq(w, k + 1, Len(w)) \in Seq(S)
    BY <2>1, Pieces
  <2> QED
    BY <2>2, Zenon
<1>5. Len(b) = Len(w) - k /\ \A i \in 1 .. Len(w) - k : b[i] = w[k + i]
  <2>1. /\ Len(b) = Len(w) - (k + 1) + 1
        /\ \A i \in 1 .. Len(w) - (k + 1) + 1 : b[i] = w[k + 1 + i - 1]
    BY <1>1, <1>4, Pieces
  <2> QED
    BY <1>1, <2>1
<1>6. PICK d \in Seq(S) : d = a \o b
    BY ConcatProperties
<1>7. /\ Len(d) = Len(w) - 1
      /\ \A i \in 1 .. Len(w) - 1 : d[i] = IF i <= k - 1 THEN a[i] ELSE b[i - (k - 1)]
  <2>1. /\ Len(d) = Len(a) + Len(b)
        /\ \A i \in 1 .. Len(a) + Len(b) : d[i] = IF i <= Len(a) THEN a[i] ELSE b[i - Len(a)]
    BY <1>6, ConcatProperties
  <2>2. Len(a) + Len(b) = Len(w) - 1
    BY <1>1, <1>3, <1>5
  <2> QED
    BY <1>3, <2>1, <2>2
<1>8. RemoveAt(w, k) = d
    BY <1>2, <1>4, <1>6 DEF RemoveAt
<1>9. \A i \in 1 .. k - 1 : d[i] = w[i]
    BY <1>1, <1>3, <1>7
<1>10. ASSUME NEW i \in k .. Len(w) - 1 PROVE d[i] = w[i + 1]
  <2>1. i \in 1 .. Len(w) - 1 /\ ~(i <= k - 1)
    BY <1>1
  <2>2. i - (k - 1) \in 1 .. Len(w) - k /\ k + (i - (k - 1)) = i + 1
    BY <1>1
  <2> QED
    BY <1>5, <1>7, <2>1, <2>2
<1> QED
    BY <1>7, <1>8, <1>9, <1>10, Zenon DEF WithoutPane

\* A pane is in the window when it has a number.
LEMMA Members ==
    ASSUME NEW S, NEW w \in Seq(S)
    PROVE  \A p : p \in ToSet(w) <=> \E i \in 1 .. Len(w) : w[i] = p
<1>1. DOMAIN w = 1 .. Len(w)
    BY LenProperties
<1> QED
    BY <1>1 DEF ToSet

-------------------------------------------------------------------------------
\* The window.

Distinct(w) == \A i, j \in 1 .. Len(w) : w[i] = w[j] => i = j

\* splitw, or the user, opens p (start_kgdb.py:67,79).
LEMMA OpenedWindow ==
    ASSUME TypeOK, NEW p \in Ids, Opened(p)
    PROVE  /\ window' \in Seq(Ids) /\ Distinct(window')
           /\ Len(window') = Len(window) + 1
           /\ window'[1] = window[1]
           /\ active = window[1] => window'[2] = p
           /\ p \notin InWindow /\ active' = p
           /\ InWindow' = InWindow \cup {p}
           /\ \E k \in 1 .. Len(window) : WithPane(window, k, p, window')
<1> DEFINE k == Index(active)
<1>1. window \in Seq(Ids) /\ Len(window) \in Nat /\ Distinct(window)
    BY LenProperties DEF TypeOK, Distinct
<1>2. k \in 1 .. Len(window) /\ window[k] = active
    BY <1>1, Members DEF TypeOK, InWindow, Index
<1>3. window' = InsertAt(window, k + 1, p) /\ p \notin InWindow /\ active' = p
    BY DEF Opened
<1> HIDE DEF k
<1>4. window' \in Seq(Ids) /\ WithPane(window, k, p, window')
    BY <1>1, <1>2, <1>3, Inserted
<1>5. /\ Len(window') = Len(window) + 1
      /\ \A i \in 1 .. k : window'[i] = window[i]
      /\ window'[k + 1] = p
      /\ \A i \in k + 1 .. Len(window) : window'[i + 1] = window[i]
    BY <1>4 DEF WithPane
<1>6. \A i \in 1 .. Len(window) : window[i] # p
    BY <1>1, <1>3, Members DEF InWindow
<1>7. \A i \in 1 .. Len(window') :
        \/ i <= k /\ i \in 1 .. Len(window) /\ window'[i] = window[i]
        \/ i = k + 1 /\ window'[i] = p
        \/ i > k + 1 /\ i - 1 \in 1 .. Len(window) /\ window'[i] = window[i - 1]
  <2>1. SUFFICES ASSUME NEW i \in 1 .. Len(window'), i > k + 1
                 PROVE  i - 1 \in 1 .. Len(window) /\ window'[i] = window[i - 1]
    BY <1>1, <1>2, <1>4, <1>5, <1>5
  <2>2. i - 1 \in k + 1 .. Len(window) /\ i - 1 + 1 = i
    BY <1>1, <1>2, <1>4, <1>5, <2>1
  <2>3. PICK j \in k + 1 .. Len(window) : j = i - 1
    BY <2>2
  <2>4. window'[j + 1] = window[j] /\ j + 1 = i
    BY <1>5, <2>2, <2>3
  <2> QED
    BY <1>1, <1>2, <2>2, <2>3, <2>4
<1>8. Distinct(window')
  <2> SUFFICES ASSUME NEW i \in 1 .. Len(window'), NEW j \in 1 .. Len(window'),
                      window'[i] = window'[j]
               PROVE  i = j
    BY DEF Distinct
  <2>1. /\ \/ i <= k /\ i \in 1 .. Len(window) /\ window'[i] = window[i]
           \/ i = k + 1 /\ window'[i] = p
           \/ i > k + 1 /\ i - 1 \in 1 .. Len(window) /\ window'[i] = window[i - 1]
        /\ \/ j <= k /\ j \in 1 .. Len(window) /\ window'[j] = window[j]
           \/ j = k + 1 /\ window'[j] = p
           \/ j > k + 1 /\ j - 1 \in 1 .. Len(window) /\ window'[j] = window[j - 1]
    BY <1>7, Zenon
  <2> QED
    BY <1>1, <1>2, <1>6, <2>1 DEF Distinct
<1>9. window'[1] = window[1]
    BY <1>1, <1>2, <1>5
<1>10. active = window[1] => window'[2] = p
  <2>1. active = window[1] => k = 1
    BY <1>1, <1>2 DEF Distinct
  <2> QED
    BY <1>5, <2>1
<1>11. InWindow' = InWindow \cup {p}
  <2>1. ASSUME NEW q \in InWindow' PROVE q \in InWindow \cup {p}
    BY <1>1, <1>4, <1>5, <1>7, <2>1, Members DEF InWindow
  <2>2. ASSUME NEW q \in InWindow PROVE q \in InWindow'
    <3>1. PICK i \in 1 .. Len(window) : window[i] = q
        BY <1>1, <2>2, Members DEF InWindow
    <3>2. i \in 1 .. Len(window') /\ i + 1 \in 1 .. Len(window')
        BY <1>1, <1>4, <1>5
    <3>3. window'[i] = q \/ window'[i + 1] = q
        BY <1>1, <1>2, <1>5, <3>1
    <3> QED
        BY <1>4, <1>5, <3>2, <3>3, Members DEF InWindow
  <2>3. p \in InWindow'
    <3>1. k + 1 \in 1 .. Len(window')
        BY <1>1, <1>2, <1>4, <1>5
    <3> QED
        BY <1>4, <1>5, <1>5, <3>1, Members DEF InWindow
  <2> QED
    BY <2>1, <2>2, <2>3
<1>12. \E n \in 1 .. Len(window) : WithPane(window, n, p, window')
    BY <1>2, <1>4
<1> QED
    BY <1>3, <1>4, <1>5, <1>8, <1>9, <1>10, <1>11, <1>12

\* A pane is closed by the user or by its shell.
LEMMA ClosedWindow ==
    ASSUME TypeOK, NEW k \in 1 .. Len(window), window' = RemoveAt(window, k)
    PROVE  /\ window' \in Seq(Ids) /\ Distinct(window')
           /\ InWindow' = InWindow \ {window[k]}
<1>1. window \in Seq(Ids) /\ Len(window) \in Nat /\ Distinct(window)
    BY LenProperties DEF TypeOK, Distinct
<1>2. window' \in Seq(Ids) /\ WithoutPane(window, k, window')
    BY <1>1, Removed
<1>3. /\ Len(window') = Len(window) - 1
      /\ \A i \in 1 .. k - 1 : window'[i] = window[i]
      /\ \A i \in k .. Len(window) - 1 : window'[i] = window[i + 1]
    BY <1>2 DEF WithoutPane
<1>4. \A i \in 1 .. Len(window') :
        \/ i < k /\ i \in 1 .. Len(window) /\ window'[i] = window[i]
        \/ i >= k /\ i + 1 \in 1 .. Len(window) /\ window'[i] = window[i + 1]
    BY <1>1, <1>2, <1>3
<1>5. Distinct(window')
    BY <1>1, <1>4 DEF Distinct
<1>6. ASSUME NEW q \in InWindow' PROVE q \in InWindow \ {window[k]}
  <2>1. PICK i \in 1 .. Len(window') : window'[i] = q
    BY <1>2, <1>6, Members DEF InWindow
  <2>2. PICK j \in 1 .. Len(window) : window[j] = q /\ j # k
    BY <1>1, <1>4, <2>1
  <2> QED
    BY <1>1, <2>2, Members DEF InWindow, Distinct
<1>7. ASSUME NEW q \in InWindow, q # window[k] PROVE q \in InWindow'
  <2>1. PICK j \in 1 .. Len(window) : window[j] = q /\ j # k
    BY <1>1, <1>7, Members DEF InWindow
  <2>2. CASE j < k
    <3>1. j \in 1 .. Len(window') /\ window'[j] = q
        BY <1>1, <1>2, <1>3, <2>1, <2>2
    <3> QED
        BY <1>2, <3>1, Members DEF InWindow
  <2>3. CASE j > k
    <3>1. PICK i \in 1 .. Len(window') : i + 1 = j /\ i >= k
      <4>1. j - 1 \in 1 .. Len(window') /\ j - 1 + 1 = j /\ j - 1 >= k
          BY <1>1, <1>3, <2>3
      <4> QED
          BY <4>1
    <3>2. window'[i] = q
        BY <1>1, <1>2, <1>4, <2>1, <3>1
    <3> QED
        BY <1>2, <3>2, Members DEF InWindow
  <2> QED
    BY <1>1, <2>1, <2>2, <2>3
<1> QED
    BY <1>2, <1>5, <1>6, <1>7

-------------------------------------------------------------------------------
\* The calls.

\* What a session's tmux calls are, by their position.
LEMMA Calls ==
    /\ Len(Script) = 12
    /\ \A i \in {3, 8} : Script[i].do = "splitw"
    /\ Script[9].do = "swap-pane"
    /\ Script[6].do = "send-keys" /\ Script[6].what = "debuggee"
    /\ Script[12].do = "send-keys" /\ Script[12].what = "debugger"
    /\ \A i \in {1, 2, 4, 5, 7, 10, 11} : Script[i].do = "selectp"
    /\ \A i \in {1, 2, 4, 7, 10} : Script[i].n = 0
    /\ Script[5].n = 1 /\ Script[11].n = 2
BY DEF Script, Select, Split, Send

\* Which call each action makes.
LEMMA NextCalls ==
    ASSUME TypeOK
    PROVE  /\ Does("selectp") => at \in {1, 2, 4, 5, 7, 10, 11}
           /\ Does("splitw") => at \in {3, 8}
           /\ Does("swap-pane") => at = 9
           /\ Does("send-keys") => at \in {6, 12}
           /\ Does("selectp") => Call.n = IF at = 5 THEN 1 ELSE IF at = 11 THEN 2 ELSE 0
           /\ at = 6 => Call.what = "debuggee"
           /\ at = 12 => Call.what = "debugger"
           /\ at \in 1 .. 13
<1>1. at \in 1 .. 13 /\ Len(Script) = 12
    BY Calls DEF TypeOK
<1>2. at \in 1 .. 12 =>
        /\ Script[at].do = IF at \in {3, 8} THEN "splitw" ELSE IF at = 9 THEN "swap-pane"
                           ELSE IF at \in {6, 12} THEN "send-keys" ELSE "selectp"
        /\ at \notin {3, 6, 8, 9, 12}
             => Script[at].n = IF at = 5 THEN 1 ELSE IF at = 11 THEN 2 ELSE 0
    BY Calls
<1> QED
    BY <1>1, <1>2, Calls DEF Does, Call

\* The window is never empty, and its panes are those with a number.
LEMMA WindowType ==
    TypeOK => /\ window \in Seq(Ids) /\ Len(window) \in Nat /\ Len(window) >= 1
              /\ window[1] \in InWindow
              /\ InWindow \subseteq Ids
              /\ \A p : p \in InWindow <=> \E i \in 1 .. Len(window) : window[i] = p
<1> SUFFICES ASSUME TypeOK PROVE
              /\ window \in Seq(Ids) /\ Len(window) \in Nat /\ Len(window) >= 1
              /\ window[1] \in InWindow
              /\ InWindow \subseteq Ids
              /\ \A p : p \in InWindow <=> \E i \in 1 .. Len(window) : window[i] = p
    OBVIOUS
<1>1. window \in Seq(Ids) /\ Len(window) \in Nat
    BY LenProperties DEF TypeOK
<1>2. \A p : p \in InWindow <=> \E i \in 1 .. Len(window) : window[i] = p
    BY <1>1, Members DEF InWindow
<1>3. Len(window) >= 1 /\ window[1] \in InWindow
    BY <1>1, <1>2 DEF TypeOK
<1>4. InWindow \subseteq Ids
    BY <1>1, <1>2, ElementOfSeq
<1> QED
    BY <1>1, <1>2, <1>3, <1>4

-------------------------------------------------------------------------------
\* Types.

\* Selecting changes the active pane only, to one that is there.
LEMMA SelectpTypes == TypeOK /\ Selectp => TypeOK'
<1> SUFFICES ASSUME TypeOK, Selectp PROVE TypeOK'
    OBVIOUS
<1>1. at \in 1 .. 12 /\ at' = at + 1 /\ Call.n \in {0, 1, 2}
    BY NextCalls DEF Selectp, NextCall
<1>2. InWindow' = InWindow /\ Len(Script) = 12
    BY Calls DEF Selectp, InWindow
<1>3. active' \in InWindow
    BY <1>1, WindowType DEF Selectp, TypeOK
<1> QED
    BY <1>1, <1>2, <1>3 DEF TypeOK, Selectp, NextCall

\* A pane that is opened is not in the window yet.
LEMMA SplitwTypes == TypeOK /\ Splitw => TypeOK'
<1> SUFFICES ASSUME TypeOK, Splitw PROVE TypeOK'
    OBVIOUS
<1>1. at \in 1 .. 12 /\ at' = at + 1 /\ Len(Script) = 12 /\ UNCHANGED <<home, sent>>
    BY NextCalls, Calls DEF Splitw, NextCall
<1>2. CASE UNCHANGED <<window, active, mine>> /\ calm' = FALSE
  <2>1. InWindow' = InWindow /\ calm' \in BOOLEAN
    BY <1>2 DEF InWindow
  <2>2. at' \in 1 .. Len(Script) + 1
    BY <1>1
  <2> QED
    BY <1>1, <1>2, <2>1, <2>2 DEF TypeOK
<1>3. ASSUME NEW p \in Ids \ InWindow, Opened(p), mine' = [mine EXCEPT ![For] = p],
             UNCHANGED calm
      PROVE  TypeOK'
  <2>1. /\ window' \in Seq(Ids) /\ Distinct(window') /\ active' = p
        /\ InWindow' = InWindow \cup {p}
    BY <1>3, OpenedWindow
  <2>2. mine' \in [Commands -> Ids \cup {NoPane}]
    BY <1>3 DEF TypeOK
  <2> QED
    BY <1>1, <1>3, <2>1, <2>2 DEF TypeOK, Distinct
<1> QED
    BY <1>2, <1>3 DEF Splitw

\* Swapping leaves the same panes in the window.
LEMMA SwapPaneTypes ==
    ASSUME TypeOK, SwapPane
    PROVE  /\ TypeOK'
           /\ Len(window) > 2 => window'[3] = window[2]
           /\ InWindow' = InWindow /\ Len(window') = Len(window)
<1>1. at \in 1 .. 12 /\ at' = at + 1 /\ Len(Script) = 12
    BY NextCalls, Calls DEF SwapPane, NextCall
<1>2. CASE ~(Len(window) > 2)
    BY <1>1, <1>2 DEF TypeOK, SwapPane, NextCall, InWindow
<1>3. CASE Len(window) > 2
  <2>1. /\ window' = [window EXCEPT ![2] = window[3], ![3] = window[2]]
        /\ active' \in {active, window[2], window[3]}
    BY <1>3 DEF SwapPane, Swapped
  <2>2. window \in [1 .. Len(window) -> Ids] /\ Len(window) \in Nat
    BY LenProperties DEF TypeOK
  <2>3. window' \in [1 .. Len(window) -> Ids]
    BY <1>3, <2>1, <2>2
  <2>4. window' \in Seq(Ids) /\ Len(window') = Len(window)
    BY <2>2, <2>3
  <2>5. \A i \in 1 .. Len(window) :
           window'[i] = IF i = 2 THEN window[3] ELSE IF i = 3 THEN window[2] ELSE window[i]
    BY <1>3, <2>1, <2>2
  <2>6. Distinct(window')
    BY <1>3, <2>2, <2>4, <2>5 DEF TypeOK, Distinct
  <2>7. InWindow' = InWindow
    <3>1. \A p : p \in InWindow' <=> \E i \in 1 .. Len(window) : window'[i] = p
        BY <2>4, Members DEF InWindow
    <3>2. ASSUME NEW p \in InWindow' PROVE p \in InWindow
        BY <1>3, <2>2, <2>5, <3>1, <3>2, WindowType
    <3>3. ASSUME NEW p \in InWindow PROVE p \in InWindow'
      <4>1. PICK i \in 1 .. Len(window) : window[i] = p
          BY <3>3, WindowType
      <4>2. window'[IF i = 2 THEN 3 ELSE IF i = 3 THEN 2 ELSE i] = p
          BY <1>3, <2>2, <2>5, <4>1
      <4>3. (IF i = 2 THEN 3 ELSE IF i = 3 THEN 2 ELSE i) \in 1 .. Len(window)
          BY <1>3, <2>2
      <4> QED
          BY <3>1, <4>2, <4>3
    <3> QED
        BY <3>2, <3>3
  <2>8. window[2] \in InWindow /\ window[3] \in InWindow
    BY <1>3, <2>2, WindowType
  <2>9. TypeOK'
    BY <1>1, <2>1, <2>4, <2>6, <2>7, <2>8 DEF TypeOK, SwapPane, NextCall, Distinct
  <2>10. window'[3] = window[2]
    BY <1>3, <2>2, <2>5
  <2> QED
    BY <2>4, <2>7, <2>9, <2>10
<1> QED
    BY <1>2, <1>3

\* Typing changes nothing of the window.
LEMMA SendKeysTypes == TypeOK /\ SendKeys => TypeOK'
<1> SUFFICES ASSUME TypeOK, SendKeys PROVE TypeOK'
    OBVIOUS
<1>1. at \in {6, 12} /\ at' = at + 1 /\ Len(Script) = 12 /\ Call.what \in Commands
    BY NextCalls, Calls DEF SendKeys, NextCall, Commands
<1>2. InWindow' = InWindow /\ active \in Ids
    BY WindowType DEF SendKeys, InWindow, TypeOK
<1>3. sent' \in [Commands -> Ids \cup {NoPane}]
    BY <1>1, <1>2 DEF TypeOK, SendKeys
<1> QED
    BY <1>1, <1>2, <1>3 DEF TypeOK, SendKeys, NextCall

\* kill-pane -a leaves one pane, and a session that goes on is not calm.
LEMMA KillWindow ==
    ASSUME TypeOK, Kill
    PROVE  /\ TypeOK'
           /\ Running' => ~calm'
<1>1. window[1] \in Ids /\ window' = <<window[1]>> /\ active' = window[1]
    BY WindowType DEF Kill
<1>2. window' \in Seq(Ids) /\ Len(window') = 1 /\ window'[1] = window[1]
  <2>1. PICK p \in Ids : p = window[1]
    BY <1>1
  <2>2. <<p>> \in Seq(Ids) /\ Len(<<p>>) = 1 /\ <<p>>[1] = p
    OBVIOUS
  <2> QED
    BY <1>1, <2>1, <2>2, Zenon
<1>3. window[1] \in InWindow'
    BY <1>2, Members DEF InWindow
<1>4. /\ home' \in {NoPane, window[1]} /\ calm' \in BOOLEAN
      /\ home' # NoPane => calm' = (calm /\ home = NoPane)
      /\ home = NoPane => home' = NoPane \/ home' = home
    BY DEF Kill, Unless, Running, TypeOK
<1>5. TypeOK'
    BY <1>1, <1>2, <1>3, <1>4 DEF TypeOK, Kill
<1> QED
    BY <1>4, <1>5 DEF Running

\* The user opens a pane that is not in the window yet.
LEMMA OpenPaneTypes == TypeOK /\ OpenPane => TypeOK'
<1> SUFFICES ASSUME TypeOK, OpenPane PROVE TypeOK'
    OBVIOUS
<1>1. PICK p \in Ids : Opened(p)
    BY DEF OpenPane
<1>2. /\ window' \in Seq(Ids) /\ Distinct(window') /\ active' = p
      /\ InWindow' = InWindow \cup {p}
    BY <1>1, OpenedWindow
<1>3. calm' \in BOOLEAN /\ UNCHANGED <<home, at, mine, sent>>
    BY DEF OpenPane, Unless, AtRest, Running, TypeOK, session
<1> QED
    BY <1>2, <1>3 DEF TypeOK, Distinct

\* The user closes a pane; another one becomes active if it was that.
LEMMA ClosePaneTypes ==
    ASSUME TypeOK, ClosePane
    PROVE  /\ TypeOK'
           /\ \E p \in InWindow \ {home} :
                 /\ InWindow' = InWindow \ {p}
                 /\ Unless(~Running \/ (AtRest /\ p # mine["debuggee"]))
<1>1. PICK k \in 1 .. Len(window) :
          /\ window[k] # home
          /\ window' = RemoveAt(window, k)
          /\ active' \in IF window[k] = active THEN ToSet(window') ELSE {active}
          /\ Unless(~Running \/ (AtRest /\ window[k] # mine["debuggee"]))
    BY DEF ClosePane
<1>2. /\ window' \in Seq(Ids) /\ Distinct(window')
      /\ InWindow' = InWindow \ {window[k]}
    BY <1>1, ClosedWindow
<1>3. window[k] \in InWindow \ {home}
    BY <1>1, WindowType
<1>4. active' \in InWindow'
    BY <1>1, <1>2 DEF TypeOK, InWindow
<1>5. calm' \in BOOLEAN
    BY <1>1 DEF Unless, TypeOK
<1>6. UNCHANGED <<home, at, mine, sent>>
    BY DEF ClosePane, session
<1>7. TypeOK'
    BY <1>1, <1>2, <1>4, <1>5, <1>6 DEF TypeOK, Distinct
<1> QED
    BY <1>1, <1>2, <1>3, <1>7

\* These steps leave the window's panes as they are.
LEMMA OtherTypes ==
    TypeOK /\ (Begin \/ End \/ SelectPane \/ UNCHANGED vars) => TypeOK'
<1> SUFFICES ASSUME TypeOK, Begin \/ End \/ SelectPane \/ UNCHANGED vars PROVE TypeOK'
    OBVIOUS
<1>1. UNCHANGED window /\ InWindow' = InWindow
    BY DEF Begin, End, SelectPane, vars, InWindow
<1>2. CASE Begin
  <2>1. 1 \in 1 .. Len(Script) + 1
    BY Calls
  <2> QED
    BY <1>1, <1>2, <2>1 DEF TypeOK, Begin, Nowhere
<1>3. CASE End
    BY <1>1, <1>3 DEF TypeOK, End
<1>4. CASE SelectPane
    BY <1>1, <1>4 DEF TypeOK, SelectPane, Unless, session
<1>5. CASE UNCHANGED vars
    BY <1>1, <1>5 DEF TypeOK, vars, session
<1> QED
    BY <1>2, <1>3, <1>4, <1>5

\* TypeOK is inductive.
LEMMA NextTypes == TypeOK /\ [Next]_vars => TypeOK'
BY SelectpTypes, SplitwTypes, SwapPaneTypes, SendKeysTypes, KillWindow, OpenPaneTypes,
   ClosePaneTypes, OtherTypes DEF Next, Process

-------------------------------------------------------------------------------
\* The plan: one lemma per action that can disturb it.

Planned == Running /\ calm => Plan

\* A session begins with nothing opened or typed.
LEMMA BeginPlan == TypeOK /\ Begin => Planned'
<1> SUFFICES ASSUME TypeOK, Begin PROVE Plan'
    BY DEF Planned
<1>1. home' \in Ids /\ at' = 1 /\ mine' = Nowhere /\ sent' = Nowhere
    BY WindowType DEF Begin, TypeOK
<1>2. \A c \in Commands : mine'[c] = NoPane /\ sent'[c] = NoPane
    BY <1>1 DEF Nowhere
<1>3. Debuggee' = NoPane /\ Debugger' = NoPane /\ sent'["debugger"] = NoPane
    BY <1>2 DEF Debuggee, Debugger, Commands
<1>4. home' # NoPane
    BY <1>1, PanesAssumption
<1> QED
    BY <1>1, <1>3, <1>4 DEF Plan, Before

\* Which pane a number names when the next call selects it.
LEMMA SelectpPlan == TypeOK /\ Planned /\ Selectp => Planned'
<1> SUFFICES ASSUME TypeOK, Planned, Selectp, Running', calm' PROVE Plan'
    BY DEF Planned
<1>1. /\ at \in {1, 2, 4, 5, 7, 10, 11} /\ at' = at + 1
      /\ UNCHANGED <<window, home, mine, sent>>
      /\ InWindow' = InWindow
    BY NextCalls DEF Selectp, NextCall, InWindow
<1>2. Plan
    BY DEF Planned, Selectp, NextCall, Running
<1>3. active' = IF Call.n < Len(window) THEN window[Call.n + 1] ELSE active
    BY DEF Selectp
<1>4. Call.n = IF at = 5 THEN 1 ELSE IF at = 11 THEN 2 ELSE 0
    BY NextCalls DEF Selectp
<1>5. window[1] \in InWindow /\ Len(window) \in Nat /\ Len(window) >= 1
    BY WindowType
<1>6. at \in {1, 2, 4, 7, 10} => active' = window[1]
    BY <1>3, <1>4, <1>5
<1>7. at = 5 /\ Len(window) >= 2 => active' = window[2]
    BY <1>3, <1>4, <1>5
<1>8. at = 11 /\ Len(window) >= 3 => active' = window[3]
    BY <1>3, <1>4, <1>5
<1> USE DEF Debuggee, Debugger
<1>9. CASE at \in {1, 2}
    BY <1>1, <1>2, <1>6, <1>9 DEF Plan, Before
<1>10. CASE at \in {4, 5}
    BY <1>1, <1>2, <1>6, <1>7, <1>10 DEF Plan, Stage5
<1>11. CASE at = 7
    BY <1>1, <1>2, <1>6, <1>11 DEF Plan, Between
<1>12. CASE at \in {10, 11}
    BY <1>1, <1>2, <1>6, <1>8, <1>12 DEF Plan, Stage6
<1> QED
    BY <1>1, <1>9, <1>10, <1>11, <1>12

\* The pane that is split is the first one, so the new one has number 1.
LEMMA SplitwPlan == TypeOK /\ Planned /\ Splitw => Planned'
<1> SUFFICES ASSUME TypeOK, Planned, Splitw, Running', calm' PROVE Plan'
    BY DEF Planned
<1>1. at \in {3, 8} /\ at' = at + 1 /\ UNCHANGED <<home, sent>> /\ Running
    BY NextCalls DEF Splitw, NextCall, Does
<1>2. PICK p \in Ids : Opened(p) /\ mine' = [mine EXCEPT ![For] = p] /\ UNCHANGED calm
    BY DEF Splitw
<1>3. Plan
    BY <1>1, <1>2 DEF Planned
<1>4. /\ Len(window') = Len(window) + 1 /\ window'[1] = window[1]
      /\ active = window[1] => window'[2] = p
      /\ p \notin InWindow /\ InWindow' = InWindow \cup {p}
    BY <1>2, OpenedWindow
<1>5. /\ Len(window) \in Nat /\ Len(window) >= 1
      /\ \A q : q \in InWindow <=> \E i \in 1 .. Len(window) : window[i] = q
    BY WindowType
<1>6. home \in InWindow /\ home # p /\ p # NoPane
    BY <1>1, <1>4, PanesAssumption DEF TypeOK, Running
<1>7. DOMAIN mine = Commands /\ {"debuggee", "debugger"} = Commands
    BY DEF TypeOK, Commands
<1>8. CASE at = 3
  <2>1. \A c \in Commands : mine[c] = NoPane /\ sent[c] = NoPane
    BY <1>3, <1>8 DEF Plan, Before, Nowhere
  <2>2. mine'["debuggee"] = p /\ mine'["debugger"] = NoPane
    BY <1>2, <1>7, <2>1 DEF For
  <2>3. active = window[1] /\ sent = Nowhere
    BY <1>3, <1>8 DEF Plan, Before
  <2>4. Len(window') >= 2 /\ window'[2] = p
    BY <1>4, <1>5, <2>3
  <2>5. home # NoPane
    BY <1>1 DEF Running
  <2> QED
    BY <1>1, <1>6, <1>7, <1>8, <2>1, <2>2, <2>3, <2>4, <2>5 DEF Plan, Stage5, Debuggee, Debugger
<1>9. CASE at = 8
  <2>1. /\ mine["debuggee"] # NoPane /\ mine["debugger"] = NoPane
        /\ mine["debuggee"] \in InWindow /\ mine["debuggee"] # home
        /\ active = window[1]
        /\ sent["debuggee"] = mine["debuggee"] /\ sent["debugger"] = NoPane
    BY <1>3, <1>9 DEF Plan, Between, Debuggee, Debugger
  <2>2. mine'["debugger"] = p /\ mine'["debuggee"] = mine["debuggee"]
    BY <1>2, <1>7, <2>1 DEF For
  <2>3. Len(window) >= 2
    <3>1. PICK i \in 1 .. Len(window) : window[i] = home
        BY <1>5, <1>6
    <3>2. PICK j \in 1 .. Len(window) : window[j] = mine["debuggee"]
        BY <1>5, <2>1
    <3> QED
        BY <1>5, <2>1, <3>1, <3>2
  <2>4. Len(window') >= 3 /\ window'[2] = p
    BY <1>4, <1>5, <2>1, <2>3
  <2> QED
    BY <1>1, <1>6, <1>9, <2>1, <2>2, <2>4 DEF Plan, Stage6, Debuggee, Debugger
<1> QED
    BY <1>1, <1>8, <1>9

\* Swapping numbers 1 and 2 leaves the debugger's pane with number 2.
LEMMA SwapPanePlan == TypeOK /\ Planned /\ SwapPane => Planned'
<1> SUFFICES ASSUME TypeOK, Planned, SwapPane, Running', calm' PROVE Plan'
    BY DEF Planned
<1>1. at = 9 /\ at' = 10 /\ UNCHANGED <<home, mine, sent, calm>>
    BY NextCalls DEF SwapPane, NextCall
<1>2. Plan
    BY <1>1 DEF Planned, Running
<1>3. Len(window) >= 3 /\ window[2] = mine["debugger"]
    BY <1>1, <1>2 DEF Plan, Stage6, Debugger
<1>4. Len(window') >= 3 /\ window'[3] = mine["debugger"]
    BY <1>3, SwapPaneTypes, WindowType
<1> QED
    BY <1>1, <1>2, <1>4 DEF Plan, Stage6, Debuggee, Debugger

\* While calm, what is typed goes to the pane opened for it.
LEMMA SendKeysPlan == TypeOK /\ Planned /\ SendKeys => Planned'
<1> SUFFICES ASSUME TypeOK, Planned, SendKeys, Running', calm' PROVE Plan'
    BY DEF Planned
<1>1. /\ at \in {6, 12} /\ at' = at + 1 /\ UNCHANGED <<window, home, mine, calm>>
      /\ InWindow' = InWindow
      /\ sent' = [sent EXCEPT ![Call.what] = active]
    BY NextCalls DEF SendKeys, NextCall, InWindow
<1>2. Plan
    BY <1>1 DEF Planned, Running
<1>3. sent \in [Commands -> Ids \cup {NoPane}] /\ {"debuggee", "debugger"} = Commands
    BY DEF TypeOK, Commands
<1>4. CASE at = 6
  <2>1. Call.what = "debuggee" /\ active = mine["debuggee"] /\ sent["debugger"] = NoPane
    BY <1>2, <1>4, NextCalls DEF Plan, Stage5, Debuggee
  <2>2. sent'["debuggee"] = mine["debuggee"] /\ sent'["debugger"] = NoPane
    BY <1>1, <1>3, <2>1
  <2>3. mine["debuggee"] \in InWindow /\ mine["debugger"] = NoPane
    BY <1>2, <1>4, WindowType DEF Plan, Stage5, Debuggee, Debugger
  <2> QED
    BY <1>1, <1>2, <1>4, <2>2, <2>3 DEF Plan, Between, Debuggee, Debugger
<1>5. CASE at = 12
  <2>1. /\ Call.what = "debugger" /\ active = mine["debugger"]
        /\ sent["debuggee"] = mine["debuggee"]
    BY <1>2, <1>5, NextCalls DEF Plan, Stage6, Debuggee, Debugger
  <2>2. sent'["debugger"] = mine["debugger"] /\ sent'["debuggee"] = mine["debuggee"]
    BY <1>1, <1>3, <2>1
  <2> QED
    BY <1>1, <1>2, <1>5, <2>2 DEF Plan, Debuggee, Debugger
<1> QED
    BY <1>1, <1>4, <1>5

\* What the user does where the next call selects a pane.
LEMMA UserPlan ==
    TypeOK /\ Planned /\ (SelectPane \/ OpenPane \/ ClosePane) => Planned'
<1> SUFFICES ASSUME TypeOK, Planned, SelectPane \/ OpenPane \/ ClosePane, Running', calm'
             PROVE  Plan'
    BY DEF Planned
<1>1. UNCHANGED <<home, at, mine, sent>>
    BY DEF SelectPane, OpenPane, ClosePane, session
<1>2. calm /\ Running
    BY <1>1 DEF SelectPane, OpenPane, ClosePane, Unless, Running
<1>3. Plan
    BY <1>2 DEF Planned
<1>4. Does("selectp")
    BY <1>2 DEF SelectPane, OpenPane, ClosePane, Unless, AtRest
<1>5. at \in {1, 2, 4, 5, 7, 10, 11}
    BY <1>4, NextCalls
<1> USE DEF Debuggee, Debugger
<1>6. CASE SelectPane
  <2>1. UNCHANGED window /\ InWindow' = InWindow
    BY <1>6 DEF SelectPane, InWindow
  <2> QED
    BY <1>1, <1>3, <1>5, <2>1 DEF Plan, Before, Stage5, Between, Stage6
<1>7. ASSUME AtRest PROVE at \in {1, 2, 7}
  <2>1. at <= 2 \/ (sent["debuggee"] # NoPane /\ mine["debugger"] = NoPane)
    BY <1>2, <1>7 DEF AtRest, Waiting
  <2>2. at \in {4, 5} => sent["debuggee"] = NoPane
    BY <1>3 DEF Plan, Stage5, Nowhere, Commands
  <2>3. ASSUME at \in {10, 11} PROVE mine["debugger"] # NoPane
    <3>1. Len(window) >= 3 /\ window[3] = mine["debugger"]
        BY <1>3, <2>3 DEF Plan, Stage6
    <3>2. window[3] \in Ids
        BY <3>1, WindowType
    <3> QED
        BY <3>1, <3>2, PanesAssumption
  <2> QED
    BY <1>5, <2>1, <2>2, <2>3
<1>8. CASE OpenPane
  <2>1. PICK p \in Ids : Opened(p)
    BY <1>8 DEF OpenPane
  <2>2. InWindow \subseteq InWindow'
    BY <2>1, OpenedWindow
  <2>3. AtRest
    BY <1>8 DEF OpenPane, Unless
  <2> QED
    BY <1>1, <1>3, <1>7, <2>2, <2>3 DEF Plan, Before, Between
<1>9. CASE ClosePane
  <2>1. PICK p \in InWindow \ {home} :
           /\ InWindow' = InWindow \ {p}
           /\ Unless(~Running \/ (AtRest /\ p # mine["debuggee"]))
    BY <1>9, ClosePaneTypes
  <2>2. AtRest /\ p # mine["debuggee"]
    BY <1>2, <2>1 DEF Unless
  <2> QED
    BY <1>1, <1>3, <1>7, <2>1, <2>2 DEF Plan, Before, Between
<1> QED
    BY <1>6, <1>8, <1>9

\* Where the session's panes are is inductive, given the types.
LEMMA NextPlan == TypeOK /\ Planned /\ [Next]_vars => Planned'
<1> SUFFICES ASSUME TypeOK, Planned, [Next]_vars PROVE Planned'
    OBVIOUS
<1>1. CASE End
    BY <1>1 DEF End, Planned, Running
<1>2. CASE Kill
    BY <1>2, KillWindow DEF Planned
<1>3. CASE UNCHANGED vars
  <2>1. InWindow' = InWindow
    BY <1>3 DEF vars, InWindow
  <2> QED
    BY <1>3, <2>1 DEF vars, session, Planned, Running, Plan, Before, Stage5, Between, Stage6,
                      Debuggee, Debugger
<1> QED
    BY <1>1, <1>2, <1>3, BeginPlan, SelectpPlan, SplitwPlan, SwapPanePlan, SendKeysPlan,
       UserPlan DEF Next, Process

\* A window with one pane and no session satisfies the invariant.
LEMMA InitInv == Init => IInv
<1> SUFFICES ASSUME Init PROVE IInv
    OBVIOUS
<1>1. PICK p \in Ids : window = <<p>> /\ active = p
    BY DEF Init
<1>2. window \in Seq(Ids) /\ Len(window) = 1 /\ window[1] = p
    BY <1>1
<1>3. active \in InWindow
  <2>1. 1 \in 1 .. Len(window) /\ window[1] = active
    BY <1>1, <1>2
  <2> QED
    BY <1>2, <2>1, Members DEF InWindow
<1>4. 1 \in 1 .. Len(Script) + 1
    BY Calls
<1>5. TypeOK
    BY <1>2, <1>3, <1>4 DEF Init, TypeOK, Nowhere
<1> QED
    BY <1>5 DEF IInv, Init, Running

-------------------------------------------------------------------------------

\* The inductive invariant: where the panes of a session are at each of its tmux
\* calls, for a window with room for any number of panes (start_kgdb.py:64-83,
\* debuggee.py:113-116, debugger.py:62-64).
THEOREM PanesInvariance == Spec => []IInv
<1>1. IInv /\ [Next]_vars => IInv'
    BY NextTypes, NextPlan DEF IInv, Planned
<1> QED
    BY InitInv, <1>1, PTL DEF Spec

\* Every variable keeps its type: no pane is in the window twice, and the active
\* one is always one of it.
THEOREM PanesTypes == Spec => []TypeOK
<1>1. IInv => TypeOK
    BY DEF IInv
<1> QED
    BY PanesInvariance, <1>1, PTL

\* While nothing comes between calls that belong together and there is room, each
\* command is typed into the pane opened for it, however many panes there are
\* (start_kgdb.py:64-83, debuggee.py:113-116, debugger.py:62-64).
THEOREM TypedRight == Spec => []TypedWhereMeant
<1>1. IInv => TypedWhereMeant
  <2> SUFFICES ASSUME IInv, Running, calm, NEW c \in Commands
               PROVE  sent[c] \in {NoPane, mine[c]}
    BY DEF TypedWhereMeant
  <2>1. Plan /\ at \in 1 .. 13
    BY NextCalls DEF IInv
  <2>2. CASE c = "debuggee"
    <3>1. at <= 6 => sent = Nowhere
        BY <2>1 DEF Plan, Before, Stage5
    <3> QED
        BY <2>1, <2>2, <3>1 DEF Plan, Nowhere, Debuggee
  <2>3. CASE c = "debugger"
    BY <2>1, <2>3 DEF Plan, Debugger
  <2> QED
    BY <2>2, <2>3 DEF Commands
<1> QED
    BY PanesInvariance, <1>1, PTL

-------------------------------------------------------------------------------
\* The panes that are not the session's.

\* A pane that is opened changes the order of no two others.
LEMMA OpenedOrder ==
    ASSUME TypeOK, NEW p \in Ids, Opened(p), NEW q \in Ids \ {p}, NEW r \in Ids \ {p}
    PROVE  Precedes(q, r)' <=> Precedes(q, r)
<1>1. Len(window) \in Nat
    BY LenProperties DEF TypeOK
<1>2. PICK k \in 1 .. Len(window) : WithPane(window, k, p, window')
    BY OpenedWindow
<1>3. /\ Len(window') = Len(window) + 1
      /\ \A i \in 1 .. k : window'[i] = window[i]
      /\ window'[k + 1] = p
      /\ \A i \in k + 1 .. Len(window) : window'[i + 1] = window[i]
    BY <1>2 DEF WithPane
<1>4. ASSUME Precedes(q, r) PROVE Precedes(q, r)'
  <2>1. PICK i \in 1 .. Len(window), j \in 1 .. Len(window) :
             i < j /\ window[i] = q /\ window[j] = r
    BY <1>4 DEF Precedes
  <2> DEFINE New(n) == IF n <= k THEN n ELSE n + 1
  <2>2. ASSUME NEW n \in 1 .. Len(window)
        PROVE  New(n) \in 1 .. Len(window') /\ window'[New(n)] = window[n]
    BY <1>1, <1>3
  <2>3. New(i) < New(j)
    BY <1>1, <2>1
  <2>4. /\ New(i) \in 1 .. Len(window') /\ window'[New(i)] = q
        /\ New(j) \in 1 .. Len(window') /\ window'[New(j)] = r
    BY <2>1, <2>2
  <2> HIDE DEF New
  <2> QED
    BY <2>3, <2>4 DEF Precedes
<1>5. ASSUME Precedes(q, r)' PROVE Precedes(q, r)
  <2>1. PICK i \in 1 .. Len(window'), j \in 1 .. Len(window') :
             i < j /\ window'[i] = q /\ window'[j] = r
    BY <1>5 DEF Precedes
  <2> DEFINE Old(n) == IF n <= k THEN n ELSE n - 1
  <2>2. ASSUME NEW n \in 1 .. Len(window'), n # k + 1
        PROVE  Old(n) \in 1 .. Len(window) /\ window[Old(n)] = window'[n]
    <3>1. CASE n <= k
        BY <1>1, <1>3, <3>1
    <3>2. CASE n > k + 1
      <4>1. PICK m \in k + 1 .. Len(window) : m = n - 1
        BY <1>1, <1>3, <3>2
      <4>2. window'[m + 1] = window[m] /\ m + 1 = n /\ Old(n) = m /\ m \in 1 .. Len(window)
        BY <1>1, <1>3, <3>2, <4>1
      <4> QED
        BY <4>2
    <3> QED
        BY <1>1, <1>3, <2>2, <3>1, <3>2
  <2>3. i # k + 1 /\ j # k + 1
    BY <1>3, <2>1
  <2>4. Old(i) < Old(j)
    BY <1>1, <1>3, <2>1, <2>3
  <2>5. /\ Old(i) \in 1 .. Len(window) /\ window[Old(i)] = q
        /\ Old(j) \in 1 .. Len(window) /\ window[Old(j)] = r
    BY <2>1, <2>2, <2>3
  <2> HIDE DEF Old
  <2> QED
    BY <2>4, <2>5 DEF Precedes
<1> QED
    BY <1>4, <1>5

\* Nor does swapping two panes that are next to each other, if one of them is not
\* looked at.
LEMMA SwappedOrder ==
    ASSUME TypeOK, SwapPane, Len(window) > 2,
           NEW q \in Ids \ {window[2]}, NEW r \in Ids \ {window[2]}
    PROVE  Precedes(q, r)' <=> Precedes(q, r)
<1>1. Len(window) \in Nat /\ window \in [1 .. Len(window) -> Ids]
    BY LenProperties DEF TypeOK
<1>2. /\ Len(window') = Len(window)
      /\ \A i \in 1 .. Len(window) :
            window'[i] = IF i = 2 THEN window[3] ELSE IF i = 3 THEN window[2] ELSE window[i]
  <2>1. window' = [window EXCEPT ![2] = window[3], ![3] = window[2]]
    BY DEF SwapPane, Swapped
  <2> QED
    BY <1>1, <2>1, SwapPaneTypes
<1> DEFINE Other(n) == IF n = 3 THEN 2 ELSE n
           Back(n) == IF n = 2 THEN 3 ELSE n
<1>3. ASSUME NEW n \in 1 .. Len(window), window[n] # window[2]
      PROVE  Other(n) \in 1 .. Len(window) /\ window'[Other(n)] = window[n] /\ n # 2
    BY <1>1, <1>2, <1>3
<1>4. ASSUME NEW n \in 1 .. Len(window), window'[n] # window[2]
      PROVE  Back(n) \in 1 .. Len(window) /\ window[Back(n)] = window'[n] /\ n # 3
    BY <1>1, <1>2, <1>4
<1>5. ASSUME Precedes(q, r) PROVE Precedes(q, r)'
  <2>1. PICK i \in 1 .. Len(window), j \in 1 .. Len(window) :
             i < j /\ window[i] = q /\ window[j] = r
    BY <1>5 DEF Precedes
  <2>2. /\ Other(i) \in 1 .. Len(window) /\ window'[Other(i)] = q /\ i # 2
        /\ Other(j) \in 1 .. Len(window) /\ window'[Other(j)] = r /\ j # 2
    BY <1>3, <2>1
  <2>3. Other(i) < Other(j)
    BY <1>1, <2>1, <2>2
  <2> HIDE DEF Other
  <2> QED
    BY <1>2, <2>2, <2>3 DEF Precedes
<1>6. ASSUME Precedes(q, r)' PROVE Precedes(q, r)
  <2>1. PICK i \in 1 .. Len(window), j \in 1 .. Len(window) :
             i < j /\ window'[i] = q /\ window'[j] = r
    BY <1>2, <1>6 DEF Precedes
  <2>2. /\ Back(i) \in 1 .. Len(window) /\ window[Back(i)] = q /\ i # 3
        /\ Back(j) \in 1 .. Len(window) /\ window[Back(j)] = r /\ j # 3
    BY <1>4, <2>1
  <2>3. Back(i) < Back(j)
    BY <1>1, <2>1, <2>2
  <2> HIDE DEF Back
  <2> QED
    BY <2>2, <2>3 DEF Precedes
<1> QED
    BY <1>5, <1>6

\* Of panes that are not its own a session closes and opens none, and it leaves
\* them in their order, however many there are and wherever among them its own
\* are (start_kgdb.py:64-83, debuggee.py:113-116, debugger.py:62-64).
THEOREM OthersStay == Spec => LeavesOthers
<1>1. ASSUME IInv, Process, calm'
      PROVE  /\ window'[1] = window[1]
             /\ \A p \in Ids \ Own' : p \in InWindow' <=> p \in InWindow
             /\ \A p, q \in Ids \ Own' : Precedes(p, q)' <=> Precedes(p, q)
  <2>1. TypeOK
    BY <1>1 DEF IInv
  <2>2. CASE Selectp \/ SendKeys
    BY <2>2 DEF Selectp, SendKeys, InWindow, Precedes
  <2>3. CASE Splitw
    <3>1. PICK p \in Ids : Opened(p) /\ mine' = [mine EXCEPT ![For] = p]
        BY <1>1, <2>3 DEF Splitw
    <3>2. p \in Own'
        BY <2>1, <3>1 DEF Own, TypeOK, For, Commands
    <3>3. window'[1] = window[1] /\ InWindow' = InWindow \cup {p}
        BY <2>1, <3>1, OpenedWindow
    <3> QED
        BY <2>1, <3>1, <3>2, <3>3, OpenedOrder
  <2>4. CASE SwapPane
    <3>1. Running /\ calm /\ at = 9 /\ mine' = mine
        BY <1>1, <2>1, <2>4, NextCalls DEF SwapPane, Does
    <3>2. Len(window) >= 3 /\ window[2] = mine["debugger"] /\ Len(window) \in Nat
        BY <1>1, <2>1, <3>1, WindowType DEF IInv, Plan, Stage6, Debugger
    <3>3. window[2] \in Own'
        BY <3>1, <3>2 DEF Own, Commands
    <3>4. InWindow' = InWindow
        BY <2>1, <2>4, SwapPaneTypes
    <3>5. window'[1] = window[1]
      <4>1. window' = [window EXCEPT ![2] = window[3], ![3] = window[2]]
        BY <2>4, <3>2 DEF SwapPane, Swapped
      <4>2. window \in [1 .. Len(window) -> Ids]
        BY <2>1, LenProperties DEF TypeOK
      <4> QED
        BY <3>2, <4>1, <4>2
    <3> QED
        BY <2>1, <2>4, <3>2, <3>3, <3>4, <3>5, SwappedOrder
  <2> QED
    BY <1>1, <2>2, <2>3, <2>4 DEF Process
<1> QED
    BY <1>1, PanesInvariance, PTL DEF Spec, LeavesOthers
===============================================================================
