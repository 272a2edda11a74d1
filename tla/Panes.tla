--------------------------------- MODULE Panes ---------------------------------
(***************************************************************************)
(* The panes of the tmux window a session works in (start_kgdb.py,         *)
(* debuggee.py, debugger.py).  Every `tmux` call is a process of its own   *)
(* that acts on pane numbers and on whichever pane is active, and whose    *)
(* failure nobody looks at; what is typed goes to the pane that is active. *)
(*                                                                         *)
(* Panes outlive the session: the next one, started in any of them, finds  *)
(* those that were left, by sessions or by the user.  The user works in    *)
(* the window all the time, too.                                           *)
(***************************************************************************)
EXTENDS Naturals, Integers, SequencesExt

CONSTANT Ids  \* panes there is room for

NoPane == "none"
Commands == {"debuggee", "debugger"}

ASSUME PanesAssumption == Ids # {} /\ NoPane \notin Ids

\* The calls of a session; the pane a command is meant for is the one the last
\* split opened.  Numbers are tmux's, from 0.
Select(n) == [do |-> "selectp", n |-> n]
Split == [do |-> "splitw"]
Send(c) == [do |-> "send-keys", what |-> c]
BugScript ==   \* the panes are not swapped
    << Select(0), Select(0), Split, Select(0), Select(1), Send("debuggee"),
       Select(0), Split, Select(0), Select(2), Send("debugger") >>
Script ==
    << Select(0),                                          \* set_generic_ctx
       Select(0), Split, Select(0),                        \* stage5
       Select(1), Send("debuggee"),                        \* Debuggee.run_container
       Select(0), Split, [do |-> "swap-pane"], Select(0),  \* stage6
       Select(2), Send("debugger") >>                      \* Debugger.run_container

VARIABLES
    window,  \* panes in the order of their numbers
    active,
    home,    \* the pane the session was started in; NoPane: no session
    at,      \* its next call
    mine,    \* the pane it opened for each command
    sent,    \* the pane each command was typed into
    calm     \* ghost: nothing came between calls of this session that belong
             \* together, and there was room for its panes

session == <<home, at, mine, sent>>
vars == <<window, active, session, calm>>

InWindow == ToSet(window)

TypeOK ==
    /\ window \in Seq(Ids)
    /\ \A i, j \in 1 .. Len(window) : window[i] = window[j] => i = j
    /\ active \in InWindow
    /\ home \in InWindow \cup {NoPane}
    /\ at \in 1 .. Len(Script) + 1
    /\ mine \in [Commands -> Ids \cup {NoPane}]
    /\ sent \in [Commands -> Ids \cup {NoPane}]
    /\ calm \in BOOLEAN

Nowhere == [c \in Commands |-> NoPane]

Init ==
    /\ \E p \in Ids : window = <<p>> /\ active = p
    /\ home = NoPane /\ at = 1 /\ mine = Nowhere /\ sent = Nowhere
    /\ calm = TRUE

-------------------------------------------------------------------------------
\* Helpers.

Running == home # NoPane
Call == Script[at]
Does(c) == Running /\ at <= Len(Script) /\ Call.do = c
NextCall == at' = at + 1 /\ UNCHANGED home

Index(p) == CHOOSE i \in 1 .. Len(window) : window[i] = p

\* A new pane comes after the one that is split, and is active.
Opened(p) ==
    /\ p \notin InWindow
    /\ window' = InsertAt(window, Index(active) + 1, p)
    /\ active' = p

\* A session at rest has no pane open that is still to be typed into; then, and
\* when the next call selects one, the user may do as they please.
Waiting == at <= 2 \/ (sent["debuggee"] # NoPane /\ mine["debugger"] = NoPane)
AtRest == ~Running \/ (Waiting /\ Does("selectp"))
Unless(free) == calm' = (calm /\ free)

-------------------------------------------------------------------------------
\* A session.

Begin ==
    /\ ~Running
    /\ home' = active
    /\ at' = 1 /\ mine' = Nowhere /\ sent' = Nowhere /\ calm' = TRUE
    /\ UNCHANGED <<window, active>>

Selectp ==
    /\ Does("selectp")
    /\ active' = IF Call.n < Len(window) THEN window[Call.n + 1] ELSE active
    /\ NextCall
    /\ UNCHANGED <<window, mine, sent, calm>>

For == IF mine["debuggee"] = NoPane THEN "debuggee" ELSE "debugger"

\* Without room tmux says "no space for new pane".
Splitw ==
    /\ Does("splitw")
    /\ \/ \E p \in Ids \ InWindow :
             Opened(p) /\ mine' = [mine EXCEPT ![For] = p] /\ UNCHANGED calm
       \/ calm' = FALSE /\ UNCHANGED <<window, active, mine>>
    /\ NextCall
    /\ UNCHANGED sent

\* -s 1 -t 2.  Which pane is active then is not used.
BugSwapped == [window EXCEPT ![1] = window[2], ![2] = window[1]]
Swapped == [window EXCEPT ![2] = window[3], ![3] = window[2]]
SwapPane ==
    /\ Does("swap-pane")
    /\ IF Len(window) > 2 THEN window' = Swapped /\ active' \in {active, window[2], window[3]}
                          ELSE UNCHANGED <<window, active>>
    /\ NextCall
    /\ UNCHANGED <<mine, sent, calm>>

SendKeys ==
    /\ Does("send-keys")
    /\ sent' = [sent EXCEPT ![Call.what] = active]
    /\ NextCall
    /\ UNCHANGED <<window, active, mine, calm>>

\* It is done, stops early (-p, an error), or ends with its pane.
End ==
    /\ Running
    /\ home' = NoPane
    /\ UNCHANGED <<window, active, at, mine, sent, calm>>

BugKill ==   \* without -a
    /\ Len(window) > 1
    /\ Unless(~Running)
    /\ window' = Tail(window) /\ active' = window[2]
    /\ UNCHANGED session
\* CTRL+C, or -k in any pane: kill-pane -a -t 0.
Kill ==
    /\ \/ UNCHANGED calm /\ home' = NoPane
       \/ Unless(~Running) /\ home' = IF home = window[1] THEN home ELSE NoPane
    /\ window' = <<window[1]>> /\ active' = window[1]
    /\ UNCHANGED <<at, mine, sent>>

-------------------------------------------------------------------------------
\* The user.

SelectPane ==
    /\ \E p \in InWindow \ {active} : active' = p
    /\ Unless(~Running \/ Does("selectp"))
    /\ UNCHANGED <<window, session>>

OpenPane ==
    /\ \E p \in Ids : Opened(p)
    /\ Unless(AtRest)
    /\ UNCHANGED session

\* tmux goes to the pane that was active before.
ClosePane ==
    /\ Len(window) > 1
    /\ \E i \in 1 .. Len(window) :
          /\ window[i] # home
          /\ window' = RemoveAt(window, i)
          /\ active' \in IF window[i] = active THEN ToSet(window') ELSE {active}
          /\ Unless(~Running \/ (AtRest /\ window[i] # mine["debuggee"]))
    /\ UNCHANGED session

Process == Selectp \/ Splitw \/ SwapPane \/ SendKeys
Next == Begin \/ Process \/ End \/ Kill \/ SelectPane \/ OpenPane \/ ClosePane

Spec == Init /\ [][Next]_vars

-------------------------------------------------------------------------------
\* Properties.

\* However many panes earlier sessions and the user left, in whatever order and
\* disturbed in whatever way, and whichever of them a session is started in:
\* while nothing comes between calls that belong together and there is room,
\* each command is typed into the pane that was opened for it
\* (start_kgdb.py:64-83, debuggee.py:113-116, debugger.py:62-64).
TypedWhereMeant ==
    Running /\ calm => \A c \in Commands : sent[c] \in {NoPane, mine[c]}

\* A session neither closes nor re-orders panes that are not its own, wherever
\* among them its own are, and pane 0, the one kill_session leaves, stays the
\* first (start_kgdb.py:58,70-82).
Own == { mine[c] : c \in Commands }
Precedes(p, q) == \E i, j \in 1 .. Len(window) : i < j /\ window[i] = p /\ window[j] = q
LeavesOthers ==
    [][Process /\ calm' =>
         /\ window'[1] = window[1]
         /\ \A p \in Ids \ Own' : p \in InWindow' <=> p \in InWindow
         /\ \A p, q \in Ids \ Own' : Precedes(p, q)' <=> Precedes(p, q)]_vars
================================================================================
