------------------------------ MODULE SessionProofs ------------------------------
(***************************************************************************)
(* Proofs about Session for every choice and any number of faults.         *)
(***************************************************************************)
EXTENDS SessionInv, TLAPS

-------------------------------------------------------------------------------
\* Every step is one of these; each lemma below goes through them.

\* The next-state relation, action by action (start_kgdb.py, debuggee.py,
\* debugger.py, rootfs_builder.py, rootfs.sh).
LEMMA Steps ==
    ASSUME NEW P,
           Begin => P, Reuse \/ StartBuilder \/ LogsEnd => P, Infer => P,
           Lookup \/ Health => P, Debugger => P,
           \A w \in Who : BuildStep(w) => P,
           \A w \in Who : BuildFails(w) => P,
           \A w \in Who : ShellRunsDebuggee(w) => P,
           \A w \in Who : ShellRunsDebugger(w) => P,
           VmUp => P, VmDies => P, SigInt \/ KillSession => P, List => P,
           \A c \in Who \cup {"vm", "gdb"} : StopListed(c) => P,
           StopRaises \/ Stopped => P, KillEnds => P, SigKill => P, Update => P,
           UNCHANGED vars => P,
           [Next]_vars
    PROVE  P
BY DEF Next, Process, Kill, Containers, Outside

-------------------------------------------------------------------------------
\* Types.

\* The initial states have the right types.
LEMMA InitType == Init => TypeOK
<1> SUFFICES ASSUME Init PROVE TypeOK
    OBVIOUS
<1>1. faults \in 0 .. MaxFaults
    BY SessionAssumption DEF Init
<1> QED
    BY <1>1 DEF Init, TypeOK, Values, Flags, Attached, BuildSteps

\* Every step keeps every variable that is no flag in its type.
LEMMA NextValues == Values /\ [Next]_vars => Values'
<1> SUFFICES ASSUME Values, [Next]_vars PROVE Values'
    OBVIOUS
<1> USE SessionAssumption DEF Values, files, debuggee, debugger, killing, Exit, Fault
<1>1. Begin => Values'
    BY DEF Begin, Age, Who, BuildSteps
<1>2. ASSUME Reuse \/ StartBuilder \/ LogsEnd PROVE Values'
  <2>1. CASE Reuse
    BY <2>1 DEF Reuse
  <2>2. CASE StartBuilder
    BY <2>2 DEF StartBuilder, Who, BuildSteps
  <2>3. CASE LogsEnd
    BY <2>3 DEF LogsEnd
  <2> QED
    BY <1>2, <2>1, <2>2, <2>3
<1>3. Infer => Values'
    BY DEF Infer, Who
<1>4. Lookup \/ Health => Values'
    BY DEF Lookup, Health
<1>5. ASSUME Debugger PROVE Values'
  <2>1. faults' \in 0 .. MaxFaults
    BY <1>5 DEF Debugger
  <2>2. typedG' \subseteq Who
    BY <1>5 DEF Debugger, Who
  <2> QED
    BY <1>5, <2>1, <2>2 DEF Debugger
<1>6. ASSUME NEW w \in Who, BuildStep(w) PROVE Values'
  <2>1. box' \in [Who -> BuildSteps \cup {"none"}]
    BY <1>6 DEF BuildStep, After, BuildSteps
  <2>2. mnt' \in {"absent", "partial", "full"} \cup Who
    BY <1>6 DEF BuildStep, BuildSteps
  <2>3. fs' \in {"absent", "zero", "hollow", "full"}
    BY <1>6 DEF BuildStep, BuildSteps
  <2>4. listed' \subseteq {"own", "old", "gdb", "vm", "gone"}
    BY <1>6 DEF BuildStep, Ended
  <2> QED
    BY <1>6, <2>1, <2>2, <2>3, <2>4 DEF BuildStep
<1>7. ASSUME NEW w \in Who, BuildFails(w) PROVE Values'
  <2>1. box' \in [Who -> BuildSteps \cup {"none"}]
    BY <1>7 DEF BuildFails, BoxGone
  <2>2. /\ mnt' \in {"absent", "partial", "full"} \cup Who
        /\ listed' \subseteq {"own", "old", "gdb", "vm", "gone"}
    BY <1>7 DEF BuildFails, BoxGone, Ended
  <2> QED
    BY <1>7, <2>1, <2>2 DEF BuildFails
<1>8. ASSUME NEW w \in Who, ShellRunsDebuggee(w) PROVE Values'
    BY <1>8 DEF ShellRunsDebuggee
<1>9. ASSUME NEW w \in Who, ShellRunsDebugger(w) PROVE Values'
    BY <1>9 DEF ShellRunsDebugger
<1>10. VmUp => Values'
    BY DEF VmUp
<1>11. VmDies => Values'
    BY DEF VmDies, VmGone, Ended
<1>12. ASSUME SigInt \/ KillSession PROVE Values'
  <2>1. faults' \in 0 .. MaxFaults
    BY <1>12 DEF SigInt, KillSession
  <2> QED
    BY <1>12, <2>1 DEF SigInt, KillSession
<1>13. List => Values'
    BY DEF List, Running, Who
<1>14. ASSUME NEW c \in Who \cup {"vm", "gdb"}, StopListed(c) PROVE Values'
    BY <1>14 DEF StopListed, VmGone, BoxGone, Who, BuildSteps
<1>15. StopRaises \/ Stopped => Values'
    BY DEF StopRaises, Stopped
<1>16. KillEnds => Values'
    BY DEF KillEnds, KillPanes
<1>17. SigKill => Values'
    BY DEF SigKill
<1>18. Update => Values'
    BY DEF Update
<1>19. UNCHANGED vars => Values'
    BY DEF vars
<1> QED
    BY Steps, <1>1, <1>2, <1>3, <1>4, <1>5, <1>6, <1>7, <1>8, <1>9, <1>10, <1>11,
       <1>12, <1>13, <1>14, <1>15, <1>16, <1>17, <1>18, <1>19

\* Every step keeps the flags Boolean.
LEMMA NextFlags == Flags /\ [Next]_vars => Flags'
<1> SUFFICES ASSUME Flags, [Next]_vars PROVE Flags'
    OBVIOUS
<1> USE DEF Flags, files, debuggee, debugger, killing
<1>1. Begin => Flags'
    BY DEF Begin
<1>2. Reuse \/ StartBuilder \/ LogsEnd => Flags'
    BY DEF Reuse, StartBuilder, LogsEnd
<1>3. Infer => Flags'
    BY DEF Infer
<1>4. Lookup \/ Health => Flags'
    BY DEF Lookup, Health
<1>5. Debugger => Flags'
    BY DEF Debugger
<1>6. ASSUME NEW w \in Who, BuildStep(w) PROVE Flags'
    BY <1>6 DEF BuildStep
<1>7. ASSUME NEW w \in Who, BuildFails(w) PROVE Flags'
    BY <1>7 DEF BuildFails, BoxGone
<1>8. ASSUME NEW w \in Who, ShellRunsDebuggee(w) PROVE Flags'
    BY <1>8 DEF ShellRunsDebuggee
<1>9. ASSUME NEW w \in Who, ShellRunsDebugger(w) PROVE Flags'
    BY <1>9 DEF ShellRunsDebugger
<1>10. VmUp => Flags'
    BY DEF VmUp
<1>11. VmDies => Flags'
    BY DEF VmDies, VmGone
<1>12. SigInt \/ KillSession => Flags'
    BY DEF SigInt, KillSession
<1>13. List => Flags'
    BY DEF List
<1>14. ASSUME NEW c \in Who \cup {"vm", "gdb"}, StopListed(c) PROVE Flags'
    BY <1>14 DEF StopListed, VmGone, BoxGone
<1>15. StopRaises \/ Stopped => Flags'
    BY DEF StopRaises, Stopped
<1>16. KillEnds => Flags'
    BY DEF KillEnds, KillPanes
<1>17. SigKill => Flags'
    BY DEF SigKill
<1>18. Update => Flags'
    BY DEF Update
<1>19. UNCHANGED vars => Flags'
    BY DEF vars
<1> QED
    BY Steps, <1>1, <1>2, <1>3, <1>4, <1>5, <1>6, <1>7, <1>8, <1>9, <1>10, <1>11,
       <1>12, <1>13, <1>14, <1>15, <1>16, <1>17, <1>18, <1>19

\* Without a debuggee there is no GDB, and nothing booted (debugger.py:60-64).
LEMMA NextAttached == Values /\ Attached /\ [Next]_vars => Attached'
<1> SUFFICES ASSUME Values, Attached, [Next]_vars PROVE Attached'
    OBVIOUS
<1> USE DEF Attached, files, debuggee, debugger, killing
<1>1. Begin => Attached'
    BY DEF Begin
<1>2. Reuse \/ StartBuilder \/ LogsEnd => Attached'
    BY DEF Reuse, StartBuilder, LogsEnd
<1>3. Infer => Attached'
    BY DEF Infer
<1>4. Lookup \/ Health => Attached'
    BY DEF Lookup, Health
<1>5. Debugger => Attached'
    BY DEF Debugger
<1>6. ASSUME NEW w \in Who, BuildStep(w) PROVE Attached'
    BY <1>6 DEF BuildStep
<1>7. ASSUME NEW w \in Who, BuildFails(w) PROVE Attached'
    BY <1>7 DEF BuildFails
<1>8. ASSUME NEW w \in Who, ShellRunsDebuggee(w) PROVE Attached'
    BY <1>8 DEF ShellRunsDebuggee
<1>9. ASSUME NEW w \in Who, ShellRunsDebugger(w) PROVE Attached'
    BY <1>9 DEF ShellRunsDebugger
<1>10. VmUp => Attached'
    BY DEF VmUp
<1>11. VmDies => Attached'
    BY DEF VmDies, VmGone
<1>12. SigInt \/ KillSession => Attached'
    BY DEF SigInt, KillSession
<1>13. List => Attached'
    BY DEF List
<1>14. ASSUME NEW c \in Who \cup {"vm", "gdb"}, StopListed(c) PROVE Attached'
    BY <1>14 DEF StopListed, VmGone
<1>15. StopRaises \/ Stopped => Attached'
    BY DEF StopRaises, Stopped
<1>16. KillEnds => Attached'
    BY DEF KillEnds
<1>17. SigKill => Attached'
    BY DEF SigKill
<1>18. Update => Attached'
    BY DEF Update
<1>19. UNCHANGED vars => Attached'
    BY DEF vars
<1> QED
    BY Steps, <1>1, <1>2, <1>3, <1>4, <1>5, <1>6, <1>7, <1>8, <1>9, <1>10, <1>11,
       <1>12, <1>13, <1>14, <1>15, <1>16, <1>17, <1>18, <1>19

-------------------------------------------------------------------------------
\* kill_session.

\* While the last kill_session stands, whatever still runs is among what it
\* stops, and nothing is about to (start_kgdb.py:47-61).
LEMMA NextKilling == Values /\ Attached /\ Killing /\ [Next]_vars => Killing'
<1> SUFFICES ASSUME Values, Attached, Killing, [Next]_vars PROVE Killing'
    OBVIOUS
<1> USE DEF Killing, Running, Quiet, Who, files, debuggee, debugger, killing, Exit
<1>1. Begin => Killing'
    BY DEF Begin
<1>2. Reuse \/ StartBuilder \/ LogsEnd => Killing'
    BY DEF Reuse, StartBuilder, LogsEnd
<1>3. Infer => Killing'
    BY DEF Infer
<1>4. Lookup \/ Health => Killing'
    BY DEF Lookup, Health
<1>5. Debugger => Killing'
    BY DEF Debugger
<1>6. ASSUME NEW w \in Who, BuildStep(w) PROVE Killing'
    BY <1>6 DEF BuildStep, After, Ended, Values
<1>7. ASSUME NEW w \in Who, BuildFails(w) PROVE Killing'
    BY <1>7 DEF BuildFails, BoxGone, Ended, Values
<1>8. ASSUME NEW w \in Who, ShellRunsDebuggee(w) PROVE Killing'
    BY <1>8 DEF ShellRunsDebuggee
<1>9. ASSUME NEW w \in Who, ShellRunsDebugger(w) PROVE Killing'
    BY <1>9 DEF ShellRunsDebugger
<1>10. VmUp => Killing'
    BY DEF VmUp
<1>11. VmDies => Killing'
    BY DEF VmDies, VmGone, Ended
<1>12. SigInt \/ KillSession => Killing'
    BY DEF SigInt, KillSession
<1>13. List => Killing'
    BY DEF List, Like
<1>14. ASSUME NEW c \in Who \cup {"vm", "gdb"}, StopListed(c) PROVE Killing'
    BY <1>14 DEF StopListed, VmGone, BoxGone, Values
<1>15. StopRaises \/ Stopped => Killing'
    BY DEF StopRaises, Stopped
<1>16. KillEnds => Killing'
    BY DEF KillEnds, KillPanes
<1>17. SigKill => Killing'
    BY DEF SigKill
<1>18. Update => Killing'
    BY DEF Update
<1>19. UNCHANGED vars => Killing'
    BY DEF vars
<1> QED
    BY Steps, <1>1, <1>2, <1>3, <1>4, <1>5, <1>6, <1>7, <1>8, <1>9, <1>10, <1>11,
       <1>12, <1>13, <1>14, <1>15, <1>16, <1>17, <1>18, <1>19

-------------------------------------------------------------------------------
\* Starting from nothing.

\* What the first session after a kill_session finds is its own (debuggee.py:
\* 68-79).
LEMMA NextFresh == Values /\ Attached /\ Killing /\ Fresh /\ [Next]_vars => Fresh'
<1> SUFFICES ASSUME Values, Attached, Killing, Fresh, [Next]_vars PROVE Fresh'
    OBVIOUS
<1> USE DEF Fresh, files, debuggee, debugger, killing, Exit, Who
<1>1. Begin => Fresh'
    BY DEF Begin, Killing, Quiet, Running, Age
<1>2. Reuse \/ StartBuilder \/ LogsEnd => Fresh'
    BY DEF Reuse, StartBuilder, LogsEnd
<1>3. Infer => Fresh'
    BY DEF Infer
<1>4. Lookup \/ Health => Fresh'
    BY DEF Lookup, Health
<1>5. Debugger => Fresh'
    BY DEF Debugger
<1>6. ASSUME NEW w \in Who, BuildStep(w) PROVE Fresh'
    BY <1>6 DEF BuildStep
<1>7. ASSUME NEW w \in Who, BuildFails(w) PROVE Fresh'
    BY <1>7 DEF BuildFails
<1>8. ASSUME NEW w \in Who, ShellRunsDebuggee(w) PROVE Fresh'
    BY <1>8 DEF ShellRunsDebuggee, Values
<1>9. ASSUME NEW w \in Who, ShellRunsDebugger(w) PROVE Fresh'
    BY <1>9 DEF ShellRunsDebugger
<1>10. VmUp => Fresh'
    BY DEF VmUp
<1>11. VmDies => Fresh'
    BY DEF VmDies, VmGone
<1>12. SigInt \/ KillSession => Fresh'
    BY DEF SigInt, KillSession
<1>13. List => Fresh'
    BY DEF List
<1>14. ASSUME NEW c \in Who \cup {"vm", "gdb"}, StopListed(c) PROVE Fresh'
    BY <1>14 DEF StopListed, VmGone
<1>15. StopRaises \/ Stopped => Fresh'
    BY DEF StopRaises, Stopped
<1>16. KillEnds => Fresh'
    BY DEF KillEnds, KillPanes
<1>17. SigKill => Fresh'
    BY DEF SigKill
<1>18. Update => Fresh'
    BY DEF Update
<1>19. UNCHANGED vars => Fresh'
    BY DEF vars
<1> QED
    BY Steps, <1>1, <1>2, <1>3, <1>4, <1>5, <1>6, <1>7, <1>8, <1>9, <1>10, <1>11,
       <1>12, <1>13, <1>14, <1>15, <1>16, <1>17, <1>18, <1>19

\* A builder that is alone fills its directory and the image it makes of it
\* (rootfs.sh:129-193).
LEMMA NextUndisturbed == Values /\ NotYet /\ Undisturbed /\ [Next]_vars => Undisturbed'
<1> SUFFICES ASSUME Values, NotYet, Undisturbed, [Next]_vars PROVE Undisturbed'
    OBVIOUS
<1> USE DEF Undisturbed, files, debuggee, debugger, killing, Exit, Who
<1>1. Begin => Undisturbed'
    BY DEF Begin
<1>2. ASSUME Reuse \/ StartBuilder \/ LogsEnd PROVE Undisturbed'
  <2>1. CASE Reuse \/ LogsEnd
    BY <2>1 DEF Reuse, LogsEnd
  <2>2. CASE StartBuilder
    <3>1. box'["own"] = "debootstrap" /\ box'["old"] = box["old"] /\ mnt' = "own"
        BY <2>2 DEF StartBuilder, Values
    <3>2. ~ctf' /\ (alone' => box["old"] = "none")
        BY <2>2 DEF StartBuilder, NotYet
    <3> QED
        BY <3>1, <3>2
  <2> QED
    BY <1>2, <2>1, <2>2
<1>3. Infer => Undisturbed'
    BY DEF Infer
<1>4. Lookup \/ Health => Undisturbed'
    BY DEF Lookup, Health
<1>5. Debugger => Undisturbed'
    BY DEF Debugger
<1>6. ASSUME NEW w \in Who, BuildStep(w) PROVE Undisturbed'
    BY <1>6 DEF BuildStep, After, Other, Values, BuildSteps
<1>7. ASSUME NEW w \in Who, BuildFails(w) PROVE Undisturbed'
    BY <1>7 DEF BuildFails, BoxGone, Values
<1>8. ASSUME NEW w \in Who, ShellRunsDebuggee(w) PROVE Undisturbed'
    BY <1>8 DEF ShellRunsDebuggee
<1>9. ASSUME NEW w \in Who, ShellRunsDebugger(w) PROVE Undisturbed'
    BY <1>9 DEF ShellRunsDebugger
<1>10. VmUp => Undisturbed'
    BY DEF VmUp
<1>11. VmDies => Undisturbed'
    BY DEF VmDies
<1>12. SigInt \/ KillSession => Undisturbed'
    BY DEF SigInt, KillSession
<1>13. List => Undisturbed'
    BY DEF List
<1>14. ASSUME NEW c \in Who \cup {"vm", "gdb"}, StopListed(c) PROVE Undisturbed'
    BY <1>14 DEF StopListed, VmGone, BoxGone, Values
<1>15. StopRaises \/ Stopped => Undisturbed'
    BY DEF StopRaises, Stopped
<1>16. KillEnds => Undisturbed'
    BY DEF KillEnds
<1>17. SigKill => Undisturbed'
    BY DEF SigKill
<1>18. Update => Undisturbed'
    BY DEF Update
<1>19. UNCHANGED vars => Undisturbed'
    BY DEF vars
<1> QED
    BY Steps, <1>1, <1>2, <1>3, <1>4, <1>5, <1>6, <1>7, <1>8, <1>9, <1>10, <1>11,
       <1>12, <1>13, <1>14, <1>15, <1>16, <1>17, <1>18, <1>19

\* Its session has nothing booted before it is done (rootfs_builder.py:31-40).
LEMMA NextNotYet == Values /\ NotYet /\ [Next]_vars => NotYet'
<1> SUFFICES ASSUME Values, NotYet, [Next]_vars PROVE NotYet'
    OBVIOUS
<1> USE DEF NotYet, files, debuggee, debugger, killing, Exit, Who
<1>1. Begin => NotYet'
    BY DEF Begin, Age, Values
<1>2. Reuse \/ StartBuilder \/ LogsEnd => NotYet'
    BY DEF Reuse, StartBuilder, LogsEnd, Logs, Values
<1>3. Infer => NotYet'
    BY DEF Infer
<1>4. Lookup \/ Health => NotYet'
    BY DEF Lookup, Health
<1>5. Debugger => NotYet'
    BY DEF Debugger
<1>6. ASSUME NEW w \in Who, BuildStep(w) PROVE NotYet'
    BY <1>6 DEF BuildStep, After, Values, BuildSteps
<1>7. ASSUME NEW w \in Who, BuildFails(w) PROVE NotYet'
    BY <1>7 DEF BuildFails, BoxGone, Values
<1>8. ASSUME NEW w \in Who, ShellRunsDebuggee(w) PROVE NotYet'
    BY <1>8 DEF ShellRunsDebuggee
<1>9. ASSUME NEW w \in Who, ShellRunsDebugger(w) PROVE NotYet'
    BY <1>9 DEF ShellRunsDebugger
<1>10. VmUp => NotYet'
    BY DEF VmUp
<1>11. VmDies => NotYet'
    BY DEF VmDies, VmGone
<1>12. SigInt \/ KillSession => NotYet'
    BY DEF SigInt, KillSession
<1>13. List => NotYet'
    BY DEF List
<1>14. ASSUME NEW c \in Who \cup {"vm", "gdb"}, StopListed(c) PROVE NotYet'
    BY <1>14 DEF StopListed, VmGone, BoxGone, Values
<1>15. StopRaises \/ Stopped => NotYet'
    BY DEF StopRaises, Stopped
<1>16. KillEnds => NotYet'
    BY DEF KillEnds, KillPanes
<1>17. SigKill => NotYet'
    BY DEF SigKill
<1>18. Update => NotYet'
    BY DEF Update
<1>19. UNCHANGED vars => NotYet'
    BY DEF vars
<1> QED
    BY Steps, <1>1, <1>2, <1>3, <1>4, <1>5, <1>6, <1>7, <1>8, <1>9, <1>10, <1>11,
       <1>12, <1>13, <1>14, <1>15, <1>16, <1>17, <1>18, <1>19

\* So what it boots is whole (debuggee.py:33-45).
LEMMA NextBootsWhole == Values /\ Undisturbed /\ NotYet /\ BootsWhole /\ [Next]_vars => BootsWhole'
<1> SUFFICES ASSUME Values, Undisturbed, NotYet, BootsWhole, [Next]_vars PROVE BootsWhole'
    OBVIOUS
<1> USE DEF BootsWhole, files, debuggee, debugger, killing, Exit, Who
<1>1. Begin => BootsWhole'
    BY DEF Begin
<1>2. Reuse \/ StartBuilder \/ LogsEnd => BootsWhole'
    BY DEF Reuse, StartBuilder, LogsEnd, NotYet
<1>3. Infer => BootsWhole'
    BY DEF Infer
<1>4. Lookup \/ Health => BootsWhole'
    BY DEF Lookup, Health
<1>5. Debugger => BootsWhole'
    BY DEF Debugger
<1>6. ASSUME NEW w \in Who, BuildStep(w) PROVE BootsWhole'
    BY <1>6 DEF BuildStep
<1>7. ASSUME NEW w \in Who, BuildFails(w) PROVE BootsWhole'
    BY <1>7 DEF BuildFails, BoxGone
<1>8. ASSUME NEW w \in Who, ShellRunsDebuggee(w) PROVE BootsWhole'
    BY <1>8 DEF ShellRunsDebuggee, Undisturbed, NotYet, Values
<1>9. ASSUME NEW w \in Who, ShellRunsDebugger(w) PROVE BootsWhole'
    BY <1>9 DEF ShellRunsDebugger
<1>10. VmUp => BootsWhole'
    BY DEF VmUp
<1>11. VmDies => BootsWhole'
    BY DEF VmDies, VmGone
<1>12. SigInt \/ KillSession => BootsWhole'
    BY DEF SigInt, KillSession
<1>13. List => BootsWhole'
    BY DEF List
<1>14. ASSUME NEW c \in Who \cup {"vm", "gdb"}, StopListed(c) PROVE BootsWhole'
    BY <1>14 DEF StopListed, VmGone, BoxGone
<1>15. StopRaises \/ Stopped => BootsWhole'
    BY DEF StopRaises, Stopped
<1>16. KillEnds => BootsWhole'
    BY DEF KillEnds, KillPanes
<1>17. SigKill => BootsWhole'
    BY DEF SigKill
<1>18. Update => BootsWhole'
    BY DEF Update
<1>19. UNCHANGED vars => BootsWhole'
    BY DEF vars
<1> QED
    BY Steps, <1>1, <1>2, <1>3, <1>4, <1>5, <1>6, <1>7, <1>8, <1>9, <1>10, <1>11,
       <1>12, <1>13, <1>14, <1>15, <1>16, <1>17, <1>18, <1>19

\* Until something goes wrong no builder is cut off or has another beside it, so
\* the image in io/ is hollow only while the session waits for its builder.
LEMMA NextUntroubled ==
    Values /\ Undisturbed /\ NotYet /\ Untroubled /\ [Next]_vars => Untroubled'
<1> SUFFICES ASSUME Values, Undisturbed, NotYet, Untroubled, [Next]_vars, faults' = 0 PROVE Whole'
    BY DEF Untroubled
<1>a. \A kind : ~Fault(kind)
    BY DEF Fault, Values, SessionAssumption
<1>b. faults = 0 => Whole
    BY DEF Untroubled
<1> USE DEF Whole, files, debuggee, debugger, killing, Exit, Who
<1>1. Begin => Whole'
    BY <1>a, <1>b DEF Begin, Age, Values
<1>2. Reuse \/ StartBuilder \/ LogsEnd => Whole'
  <2>1. Reuse => Whole'
      BY <1>a, <1>b DEF Reuse, Values
  <2>2. StartBuilder => Whole'
      BY <1>a, <1>b DEF StartBuilder, NotYet, Values
  <2>3. LogsEnd => Whole'
      BY <1>a, <1>b DEF LogsEnd, Logs, Values
  <2> QED
      BY <2>1, <2>2, <2>3
<1>3. Infer => Whole'
    BY <1>a, <1>b DEF Infer
<1>4. Lookup \/ Health => Whole'
    BY <1>a, <1>b DEF Lookup, Health
<1>5. Debugger => Whole'
    BY <1>a, <1>b DEF Debugger
<1>6. ASSUME NEW w \in Who, BuildStep(w) PROVE Whole'
    BY <1>a, <1>b, <1>6 DEF BuildStep, After, Other, Values, BuildSteps, Undisturbed, NotYet
<1>7. ASSUME NEW w \in Who, BuildFails(w) PROVE Whole'
    BY <1>a, <1>7 DEF BuildFails
<1>8. ASSUME NEW w \in Who, ShellRunsDebuggee(w) PROVE Whole'
    BY <1>a, <1>b, <1>8 DEF ShellRunsDebuggee, NotYet
<1>9. ASSUME NEW w \in Who, ShellRunsDebugger(w) PROVE Whole'
    BY <1>a, <1>b, <1>9 DEF ShellRunsDebugger
<1>10. VmUp => Whole'
    BY <1>a, <1>b DEF VmUp
<1>11. VmDies => Whole'
    BY <1>a, <1>b DEF VmDies, VmGone
<1>12. SigInt \/ KillSession => Whole'
    BY <1>a, <1>b DEF SigInt, KillSession
<1>13. List => Whole'
    BY <1>a, <1>b DEF List
<1>14. ASSUME NEW c \in Who \cup {"vm", "gdb"}, StopListed(c) PROVE Whole'
    BY <1>a, <1>b, <1>14 DEF StopListed, VmGone, BoxGone, Values
<1>15. StopRaises \/ Stopped => Whole'
    BY <1>a, <1>b DEF StopRaises, Stopped
<1>16. KillEnds => Whole'
    BY <1>a, <1>b DEF KillEnds, KillPanes
<1>17. SigKill => Whole'
    BY <1>a DEF SigKill
<1>18. Update => Whole'
    BY <1>a DEF Update
<1>19. UNCHANGED vars => Whole'
    BY <1>a, <1>b DEF vars
<1> QED
    BY Steps, <1>1, <1>2, <1>3, <1>4, <1>5, <1>6, <1>7, <1>8, <1>9, <1>10, <1>11,
       <1>12, <1>13, <1>14, <1>15, <1>16, <1>17, <1>18, <1>19

-------------------------------------------------------------------------------
\* The theorems.

\* The inductive invariant holds at the start.
LEMMA InitInv == Init => IInv
<1> SUFFICES ASSUME Init PROVE IInv
    OBVIOUS
<1>1. TypeOK
    BY InitType
<1>2. Killing /\ Fresh
    BY DEF Init, Killing, Fresh
<1>3. Undisturbed /\ NotYet /\ BootsWhole /\ Untroubled
    BY DEF Init, Undisturbed, NotYet, BootsWhole, Untroubled, Whole, Who
<1> QED
    BY <1>1, <1>2, <1>3 DEF IInv

\* Every step preserves it.
LEMMA NextInv == IInv /\ [Next]_vars => IInv'
<1> SUFFICES ASSUME IInv, [Next]_vars PROVE IInv'
    OBVIOUS
<1>1. Values /\ Flags /\ Attached /\ Killing /\ Fresh /\ Undisturbed /\ NotYet /\ BootsWhole
      /\ Untroubled
    BY DEF IInv, TypeOK
<1>2. Values' /\ Flags' /\ Attached'
    BY <1>1, NextValues, NextFlags, NextAttached
<1>3. Killing' /\ Fresh'
    BY <1>1, NextKilling, NextFresh
<1>4. Undisturbed' /\ NotYet' /\ BootsWhole' /\ Untroubled'
    BY <1>1, NextUndisturbed, NextNotYet, NextBootsWhole, NextUntroubled
<1> QED
    BY <1>2, <1>3, <1>4 DEF IInv, TypeOK

\* The inductive invariant of stages 4 to 6 and of kill_session holds in every
\* reachable state, whatever goes wrong and however often (start_kgdb.py:42-92).
THEOREM SessionInvariance == Spec => []IInv
BY InitInv, NextInv, PTL DEF Spec

\* Every variable keeps its type, and GDB is never there without its debuggee
\* (debugger.py:60-64).
THEOREM SessionTypes == Spec => []TypeOK
<1>1. IInv => TypeOK
    BY DEF IInv
<1> QED
    BY <1>1, SessionInvariance, PTL

\* A kill_session that nothing interferes with leaves nothing that runs or is
\* about to (start_kgdb.py:47-61).
THEOREM CompleteKill == Spec => []KillIsComplete
<1>1. IInv => KillIsComplete
    BY DEF IInv, Killing, KillIsComplete
<1> QED
    BY <1>1, SessionInvariance, PTL

\* The session after it debugs the debuggee it started itself (debuggee.py:
\* 68-79).
THEOREM OwnDebuggee == Spec => []AttachesToOwn
<1>1. IInv => AttachesToOwn
    BY DEF IInv, Fresh, AttachesToOwn
<1> QED
    BY <1>1, SessionInvariance, PTL

\* A session that builds its file system undisturbed boots it whole
\* (rootfs_builder.py:23-43, rootfs.sh:129-193).
THEOREM WholeSystem == Spec => []BootsWhole
<1>1. IInv => BootsWhole
    BY DEF IInv
<1> QED
    BY <1>1, SessionInvariance, PTL

\* Until something goes wrong no session boots a file system that is not whole,
\* built or re-used (rootfs_builder.py:46-70), in any order of sessions.
THEOREM WholeUntilFault == Spec => []NoFaultBootsWhole
<1>1. IInv => NoFaultBootsWhole
    BY DEF IInv, Untroubled, Whole, NoFaultBootsWhole
<1> QED
    BY <1>1, SessionInvariance, PTL
================================================================================
