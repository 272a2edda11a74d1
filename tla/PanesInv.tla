--------------------------------- MODULE PanesInv ---------------------------------
(***************************************************************************)
(* What is true between any two tmux calls and makes TypedWhereMeant       *)
(* inductive.                                                              *)
(***************************************************************************)
EXTENDS Panes

Debuggee == mine["debuggee"]
Debugger == mine["debugger"]

\* Nothing is open before stage 5 has split.
Before ==
    /\ mine = Nowhere /\ sent = Nowhere
    /\ at = 3 => active = window[1]

\* Between the split and what is typed, the debuggee's pane has number 1.
Stage5 ==
    /\ Debugger = NoPane /\ sent = Nowhere
    /\ Len(window) >= 2 /\ window[2] = Debuggee
    /\ at = 6 => active = Debuggee

\* Its pane stays, beside the session's, until stage 6 splits again.
Between ==
    /\ Debugger = NoPane
    /\ Debuggee \in InWindow
    /\ at = 8 => active = window[1]

\* The debugger's pane comes after the first and goes to number 2.
Stage6 ==
    /\ Len(window) >= 3
    /\ window[IF at = 9 THEN 2 ELSE 3] = Debugger
    /\ at = 12 => active = Debugger

Plan ==
    /\ home \notin {Debuggee, Debugger}
    /\ at <= 3 => Before
    /\ at \in 4 .. 6 => Stage5
    /\ at >= 4 => Debuggee # NoPane
    /\ at >= 7 => sent["debuggee"] = Debuggee
    /\ at \in 7 .. 8 => Between
    /\ at \in 9 .. 12 => Stage6
    /\ sent["debugger"] = IF at = 13 THEN Debugger ELSE NoPane
    /\ Debugger = NoPane \/ at >= 9

IInv == TypeOK /\ (Running /\ calm => Plan)
=================================================================================
