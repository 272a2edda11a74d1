---------------------------- MODULE CtfContextProofs ----------------------------
(***************************************************************************)
(* What CtfContext promises of the vmlinux a session extracts, for every   *)
(* set of challenges.                                                      *)
(***************************************************************************)
EXTENDS CtfContext, TLAPS

\* Only an image that was copied is booted.  GDB has nothing loaded while a
\* session is at work, and from the end of an extraction to GDB the file stays
\* what was extracted: nobody else writes it, and the next session forgets that it
\* was its own.  GDB comes next without an ELF file only if nothing was found in
\* the kernel that runs, or the session's own extraction failed.
Extracted ==
    /\ pc = "boot" => copy # Absent
    /\ pc = "gdb" => \/ vmlinux.size \in {"part", "whole"}
                     \/ booted \notin Compressed
                     \/ own = "failed"
    /\ pc # "idle" => loaded = NotStarted
    /\ own # "none" => pc \in {"gdb", "idle"}
    /\ own = "complete" /\ pc = "gdb" => vmlinux = [of |-> booted, size |-> "whole"]

IInv == TypeOK /\ Extracted /\ OwnSymbolsMatch /\ SymbolsIfAny

-------------------------------------------------------------------------------

\* Before the first run nothing is copied, extracted or loaded.
LEMMA InitInv == Init => IInv
<1> SUFFICES ASSUME Init PROVE IInv
    OBVIOUS
<1>1. TypeOK
    BY DEF Init, TypeOK, Vmlinuxes
<1>2. loaded.size = "unstarted"
    BY DEF Init, NotStarted
<1>3. Extracted /\ OwnSymbolsMatch /\ SymbolsIfAny
    BY <1>2 DEF Init, Extracted, OwnSymbolsMatch, SymbolsIfAny
<1>4. QED
    BY <1>1, <1>3 DEF IInv

\* The steps that touch neither the file nor what GDB has.
LEMMA NextBefore ==
    IInv /\ (Begin \/ Copy \/ Boot \/ SetCtfCtx) => IInv'
<1> SUFFICES ASSUME IInv, Begin \/ Copy \/ Boot \/ SetCtfCtx PROVE IInv'
    OBVIOUS
<1> USE CtfAssumption DEF IInv, TypeOK, Extracted, OwnSymbolsMatch, SymbolsIfAny, NotStarted, NoVmlinux, Goto
<1>1. CASE Begin
    BY <1>1 DEF Begin, Vmlinuxes
<1>2. CASE Copy
    BY <1>2 DEF Copy
<1>3. CASE Boot
  <2>1. copy \in Kernels
    BY <1>3 DEF Boot
  <2>2. TypeOK'
    BY <1>3, <2>1 DEF Boot
  <2>3. Extracted' /\ OwnSymbolsMatch' /\ SymbolsIfAny'
    BY <1>3 DEF Boot
  <2>4. QED
    BY <2>2, <2>3
<1>4. CASE SetCtfCtx
    BY <1>4 DEF SetCtfCtx, IsElf
<1>5. QED
    BY <1>1, <1>2, <1>3, <1>4

\* The extraction writes the vmlinux of the copy, which is what was booted.
LEMMA NextExtraction ==
    IInv /\ (Extract \/ WritePart \/ WriteRest \/ WriteFails) => IInv'
<1> SUFFICES ASSUME IInv, Extract \/ WritePart \/ WriteRest \/ WriteFails PROVE IInv'
    OBVIOUS
<1> USE CtfAssumption DEF IInv, TypeOK, Extracted, OwnSymbolsMatch, SymbolsIfAny, NotStarted, NoVmlinux, Vmlinuxes, Goto
<1>1. CASE Extract
    BY <1>1 DEF Extract, Source
<1>2. CASE WritePart
    BY <1>2 DEF WritePart
<1>3. CASE WriteRest
  <2>1. vmlinux \in [of : Compressed, size : {"empty", "part", "whole"}] /\ vmlinux.of = copy
    BY <1>3 DEF WriteRest
  <2>2. vmlinux' = [of |-> booted, size |-> "whole"]
    BY <1>3, <2>1 DEF WriteRest
  <2>3. QED
    BY <1>3, <2>1, <2>2 DEF WriteRest
<1>4. CASE WriteFails
    BY <1>4 DEF WriteFails
<1>5. QED
    BY <1>1, <1>2, <1>3, <1>4

\* The end of a session, and what the user does.
LEMMA NextAfter ==
    IInv /\ (Debug \/ Interrupt \/ Replace \/ RemoveVmlinux) => IInv'
<1> SUFFICES ASSUME IInv, Debug \/ Interrupt \/ Replace \/ RemoveVmlinux PROVE IInv'
    OBVIOUS
<1> USE CtfAssumption DEF IInv, TypeOK, Extracted, OwnSymbolsMatch, SymbolsIfAny, NotStarted, NoVmlinux, Vmlinuxes, Goto
<1>1. CASE Debug
    BY <1>1 DEF Debug
<1>2. CASE Interrupt
    BY <1>2 DEF Interrupt
<1>3. CASE Replace
    BY <1>3 DEF Replace
<1>4. CASE RemoveVmlinux
    BY <1>4 DEF RemoveVmlinux
<1>5. QED
    BY <1>1, <1>2, <1>3, <1>4

\* The inductive invariant: what GDB has and what lies in ctf_dir, at every step
\* of a CTF run (start_kgdb.py:176-199, debugger.py:39-64).
THEOREM CtfInvariance == Spec => []IInv
<1>1. IInv /\ UNCHANGED vars => IInv'
    BY DEF IInv, TypeOK, Extracted, OwnSymbolsMatch, SymbolsIfAny, vars
<1>2. IInv /\ [Next]_vars => IInv'
    BY <1>1, NextBefore, NextExtraction, NextAfter DEF Next
<1>3. QED
    BY InitInv, <1>2, PTL DEF Spec

\* Every variable keeps its type, and the kernel that runs is the session's copy
\* from stage 5 on.
THEOREM CtfTypes == Spec => []TypeOK
<1>1. IInv => TypeOK
    BY DEF IInv
<1>2. QED
    BY CtfInvariance, <1>1, PTL

\* What a session extracts itself is the whole vmlinux of the kernel that runs,
\* whatever is done to the challenge's files meanwhile (start_kgdb.py:192-199,
\* debugger.py:47-58).
THEOREM OwnSymbols == Spec => []OwnSymbolsMatch
<1>1. IInv => OwnSymbolsMatch
    BY DEF IInv
<1>2. QED
    BY CtfInvariance, <1>1, PTL

\* GDB is without symbols only where the kernel that runs has no vmlinux to be
\* found or the extraction failed, for every sequence of interrupted sessions
\* (debugger.py:39-64).
THEOREM SymbolsFound == Spec => []SymbolsIfAny
<1>1. IInv => SymbolsIfAny
    BY DEF IInv
<1>2. QED
    BY CtfInvariance, <1>1, PTL
===============================================================================
