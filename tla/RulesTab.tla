------------------------------ MODULE RulesTab ------------------------------
(***************************************************************************)
(* The right column of the instances page: the rules table (RulesTable),   *)
(* the drawer that edits one rule (RuleDrawer) and the live logs (LogView). *)
(* Each has its own state and its own requests, and the user works in one  *)
(* at a time: a behaviour chooses a pane and stays in it.                  *)
(***************************************************************************)
EXTENDS RuleDrawer, Sequences

CONSTANTS
    Ids,                                             \* the instances
    StoredRules, MaxCommands, MaxTrouble, MaxTableRequests,        \* of RulesTable
    Keep, MaxLines, MaxSockets, MaxLoads, MaxClicks                \* of LogView

VARIABLES
    pane,         \* "table", "drawer" or "logs"
    rules, active, tab, shown, owner, loading, selected, modal, target, migrating, drag,
    timer, tRequests, news, spent,
    file, mark, view, watched, on, lines, paused, badge, ref, sockets, lRequests, clicks, hasty

tVars == <<rules, active, tab, shown, owner, loading, selected, modal, target, migrating, drag,
           timer, tRequests, news, spent>>
lVars == <<file, mark, view, watched, on, lines, paused, badge, ref, sockets, lRequests, clicks,
           hasty>>
tabVars == <<pane, vars, tVars, lVars>>

Table == INSTANCE RulesTable WITH
    InitialRules <- StoredRules, MaxRequests <- MaxTableRequests, requests <- tRequests

Logs == INSTANCE LogView WITH
    active <- watched, requests <- lRequests

\* The rules of each instance are in an order; a view keeps a number of lines.
ASSUME TableAssumption ==
    /\ StoredRules = [i \in Ids |-> StoredRules[i]]
    /\ \A i \in Ids : StoredRules[i] \in Seq({StoredRules[i][k] : k \in DOMAIN StoredRules[i]})
ASSUME LogsAssumption == Keep \in Nat /\ Ids # {}

TabInit ==
    /\ pane \in {"table", "drawer", "logs"}
    /\ Init /\ Table!Init /\ Logs!Init
    /\ pane # "logs" => view = "mini"
TabNext ==
    \/ pane = "drawer" /\ Next /\ UNCHANGED <<pane, tVars, lVars>>
    \/ pane = "table" /\ Table!Next /\ UNCHANGED <<pane, vars, lVars>>
    \/ pane = "logs" /\ Logs!Next /\ UNCHANGED <<pane, vars, tVars>>
TabSpec == TabInit /\ [][TabNext]_tabVars

-----------------------------------------------------------------------------
(* The properties of RulesTable and LogView, in this module's variables.   *)

\* The types of the three panes.
PanesTypeOK == TypeOK /\ Table!TypeOK /\ Logs!TypeOK

\* Rules that are checked are rows of the table (the reconciliation of
\* loadProxies).
SelectionShown == Table!SelectionShown

\* No move is sent to the instance it moves from (the effect on
\* [activeConfigId]).
MovesApart == Table!MovesApart

\* The lines on screen are of the instance on screen, each once, in order, on
\* the log page always and on the logs tab unless a history that was loading has
\* been abandoned (loadMiniLogs, the socket's onmessage).
ViewIsExact == Logs!ViewIsExact

\* No socket outlives the view it was opened for, and a view holds one, with the
\* same exception: abandoning a history is the only way to leak one (the cleanup
\* of the effect on the tab, connectWS and disconnectWS of the page).
NoSocketLeaks == Logs!NoSocketLeaks
-----------------------------------------------------------------------------
(* What comments and validation messages say, and the code does not keep.  *)

\* What the user commands on is of the active instance.  Violated by a
\* continuation that loads the instance it was sent for.
RowsAreActive == Table!RowsAreActive

\* The table never shows a hole.  Violated by a drop after a reload.
RowsWhole == Table!RowsWhole

\* At rest the table shows the rules of the active instance.  Violated by two
\* loads answered in the other order.
TableAgrees == Table!TableAgrees

\* Without the exception: no socket is left open when the tab, the instance or
\* the page is left ("disconnect, so as not to leak", Configs.tsx:777).  Violated
\* by a history that arrives after the user has left.
NothingLeftOpen == Logs!NothingLeftOpen

\* The badge does not say "closed" over a live stream.  Violated by the onclose
\* of an older socket.
BadgeIsCurrent == Logs!BadgeIsCurrent

\* No line is missing between two that are shown.  Violated by a line written
\* between the answer with the history and the opening of the socket.
NoGap == Logs!NoGap
=============================================================================
