----------------------------- MODULE RulesTable -----------------------------
(***************************************************************************)
(* The rules tab of the instances page (web/src/pages/Configs.tsx): the    *)
(* table of the proxies and visitors of the active instance, its           *)
(* selection, its row and batch commands, the drag that reorders it, the   *)
(* dialog that moves rules to another instance, and the reloads: after a   *)
(* command, on a switch, and 300 ms after an event.  A rule is its name.   *)
(* A request remembers the instance that was active in the render that     *)
(* sent it: its continuation runs in that closure.                         *)
(***************************************************************************)
EXTENDS Naturals, FiniteSets, SequencesExt

CONSTANTS
    Ids,           \* the instances
    InitialRules,  \* the rules of each at first, in display order
    MaxCommands,   \* bound: commands of this page
    MaxTrouble,    \* bound: requests that fail, changes by another client, and late
                   \* answers that switch the instance
    MaxRequests    \* bound: requests on their way at once

VARIABLES
    rules,     \* daemon: the rules of each instance, in display order
    active,    \* page: activeConfigId
    tab,       \* page: activeTab
    shown,     \* page: the rows of the table
    owner,     \* the instance the rows were loaded from (ghost)
    loading,   \* page: proxiesLoading
    selected,  \* page: selectedProxyKeys
    modal,     \* page: migrateModalOpen
    target,    \* page: migrateTargetId, or None
    migrating, \* page: migrating
    drag,      \* page: dragIndexRef, 0 for none
    timer,     \* page: the instance proxyReloadTimer is set for, or None
    requests,  \* requests on their way to the daemon or back
    news,      \* instances with an event on its way to the page
    spent      \* commands and troubles so far

page == <<active, tab, shown, owner, loading, selected, modal, target, migrating, drag, timer>>
vars == <<rules, page, requests, news, spent>>

\* No instance, and what a hole in the table holds.
None == ""
Names == UNION {ToSet(InitialRules[i]) : i \in Ids}
Spend(what) == spent' = [spent EXCEPT ![what] = @ + 1]
Troubled == spent.trouble < MaxTrouble
Rows == ToSet(shown)

(***************************************************************************)
(* Requests: names is what a command acts on or what an answer carries.    *)
(***************************************************************************)
Req(op, i, names, to) ==
    [op |-> op, id |-> i, names |-> names, to |-> to, phase |-> "sent"]
Load(i) == Req("load", i, <<>>, None)
Room == Cardinality(requests) < MaxRequests
Send(r) == Room /\ requests' = requests \cup {r}

-----------------------------------------------------------------------------
\* The page is mounted and its first instance selected: its rules are loading.
Init ==
    /\ rules = InitialRules
    /\ active = CHOOSE i \in Ids : TRUE
    /\ tab = "proxies" /\ shown = <<>> /\ owner = active /\ loading = TRUE
    /\ selected = {} /\ modal = FALSE /\ target = None /\ migrating = FALSE
    /\ drag = 0 /\ timer = None
    /\ requests = {Load(active)} /\ news = {}
    /\ spent = [commands |-> 0, trouble |-> 0]

(***************************************************************************)
(* The active instance and the tab, with the effects they trigger.         *)
(***************************************************************************)
\* Mutant: the dialog is closed, its target and the selection are kept.
ResetChoiceKeys == modal' = FALSE /\ UNCHANGED <<selected, target>>

\* The effects on [activeConfigId]: load when the tab shows rules, and clear
\* what was chosen for the old instance.
ResetChoice == selected' = {} /\ modal' = FALSE /\ target' = None
Activate(i) ==
    /\ i # active /\ active' = i /\ ResetChoice
    /\ IF tab = "proxies"
       THEN Send(Load(i)) /\ loading' = TRUE
       ELSE UNCHANGED <<requests, loading>>
    /\ UNCHANGED <<rules, tab, shown, owner, migrating, drag, timer, news>>

\* The user clicks a card; the dialog's mask covers them while it is open.
Select(i) == ~modal /\ Activate(i) /\ UNCHANGED spent

\* handleCreateConfig's answer, however late, selects what it created.
SelectedByAnswer(i) == Troubled /\ Activate(i) /\ Spend("trouble")

SwitchTab(t) ==
    /\ ~modal /\ t # tab /\ tab' = t
    /\ IF t = "proxies"
       THEN Send(Load(active)) /\ loading' = TRUE
       ELSE UNCHANGED <<requests, loading>>
    /\ UNCHANGED <<rules, active, shown, owner, selected, modal, target, migrating, drag,
                   timer, news, spent>>

(***************************************************************************)
(* Commands.  The table takes no click while it loads; the toolbar does.   *)
(***************************************************************************)
TableOffered == tab = "proxies" /\ ~loading /\ ~modal
ToolbarOffered == tab = "proxies" /\ selected # {} /\ ~modal
MayCommand == spent.commands < MaxCommands

\* A checkbox of the table, or the toolbar's button that clears the selection.
Choose(names) ==
    /\ TableOffered \/ (ToolbarOffered /\ names = {})
    /\ names \subseteq Rows /\ names # selected /\ selected' = names
    /\ UNCHANGED <<rules, active, tab, shown, owner, loading, modal, target, migrating,
                   drag, timer, requests, news, spent>>

\* handleToggleProxy and handleDeleteProxy, up to their await.
RowCommand(op, n) ==
    /\ TableOffered /\ MayCommand /\ n \in Rows
    /\ Send(Req(op, active, <<n>>, None)) /\ Spend("commands")
    /\ UNCHANGED <<rules, page, news>>

BatchDelete ==
    /\ ToolbarOffered /\ MayCommand
    /\ Send(Req("delete", active, SetToSeq(selected), "batch")) /\ Spend("commands")
    /\ UNCHANGED <<rules, page, news>>

OpenMigrate ==
    /\ ToolbarOffered /\ Ids # {active} /\ modal' = TRUE
    /\ UNCHANGED <<rules, active, tab, shown, owner, loading, selected, target, migrating,
                   drag, timer, requests, news, spent>>

CancelMigrate ==
    /\ modal /\ modal' = FALSE /\ target' = None
    /\ UNCHANGED <<rules, active, tab, shown, owner, loading, selected, migrating, drag,
                   timer, requests, news, spent>>

\* The options leave the active instance out.
ChooseTarget(i) ==
    /\ modal /\ i \notin {active, target} /\ target' = i
    /\ UNCHANGED <<rules, active, tab, shown, owner, loading, selected, modal, migrating,
                   drag, timer, requests, news, spent>>

\* handleMigrate: the button is disabled without a target and while it runs.
Migrate ==
    /\ modal /\ target # None /\ ~migrating /\ selected # {} /\ MayCommand
    /\ Send(Req("move", active, SetToSeq(selected), target))
    /\ migrating' = TRUE /\ Spend("commands")
    /\ UNCHANGED <<rules, active, tab, shown, owner, loading, selected, modal, target, drag,
                   timer, news>>

DragStart(k) ==
    /\ TableOffered /\ MayCommand /\ Len(shown) > 1 /\ drag = 0 /\ drag' = k
    /\ Spend("commands")
    /\ UNCHANGED <<rules, active, tab, shown, owner, loading, selected, modal, target,
                   migrating, timer, requests, news>>
DragEnd ==
    /\ drag # 0 /\ drag' = 0
    /\ UNCHANGED <<rules, active, tab, shown, owner, loading, selected, modal, target,
                   migrating, timer, requests, news, spent>>

\* handleProxyDrop: show the new order at once, then store it.  An index the
\* table has lost since the drag began inserts a hole, and reads its name fail.
Moved(from, to) ==
    IF from \in DOMAIN shown THEN InsertAt(RemoveAt(shown, from), to, shown[from])
    ELSE InsertAt(shown, to, None)
Drop(to) ==
    /\ tab = "proxies" /\ drag \notin {0, to} /\ drag' = 0
    /\ shown' = Moved(drag, to)
    /\ IF drag \in DOMAIN shown
       THEN Send(Req("reorder", active, shown', None)) /\ UNCHANGED loading
       ELSE Send(Load(active)) /\ loading' = TRUE
    /\ UNCHANGED <<rules, active, tab, owner, selected, modal, target, migrating, timer,
                   news, spent>>

(***************************************************************************)
(* The daemon serves a request, or it fails on the way.                    *)
(***************************************************************************)
Answer(r, phase, names) ==
    requests' = (requests \ {r}) \cup {[r EXCEPT !.phase = phase, !.names = names]}
\* The members of a finite set of naturals, in order; the names of a sequence
\* that are in a set, and those that are not.
Sorted(T) ==
    CHOOSE t \in [1..Cardinality(T) -> T] : \A j, k \in DOMAIN t : j < k => t[j] < t[k]
Only(s, names) ==
    LET t == Sorted({k \in DOMAIN s : s[k] \in names}) IN [k \in DOMAIN t |-> s[t[k]]]
Without(s, names) == Only(s, ToSet(s) \ names)
Ranked(s, first) == Only(first, ToSet(s)) \o Without(s, ToSet(first))

\* Every change is announced for its instance.
Store(new) ==
    /\ rules' = new
    /\ news' = news \cup {i \in Ids : new[i] # rules[i]}

Serve(r) ==
    LET hit == Only(rules[r.id], ToSet(r.names))
        rest == Without(rules[r.id], ToSet(r.names))
    IN  /\ r.phase = "sent"
        /\ \/ /\ r.op = "load" /\ Answer(r, "ok", rules[r.id]) /\ UNCHANGED <<rules, news>>
           \/ /\ r.op = "toggle" /\ hit # <<>> /\ Answer(r, "ok", <<>>)
              /\ news' = news \cup {r.id} /\ UNCHANGED rules
           \/ /\ r.op = "delete" /\ hit # <<>> /\ Answer(r, "ok", <<>>)
              /\ Store([rules EXCEPT ![r.id] = rest])
           \/ /\ r.op = "reorder" /\ Answer(r, "ok", <<>>)
              /\ Store([rules EXCEPT ![r.id] = Ranked(@, r.names)])
           \/ /\ r.op = "move" /\ hit # <<>> /\ r.to # r.id
              /\ ToSet(hit) \cap ToSet(rules[r.to]) = {}
              /\ Answer(r, "ok", <<>>)
              /\ Store([rules EXCEPT ![r.id] = rest, ![r.to] = @ \o hit])
           \/ /\ r.op \in {"toggle", "delete", "move"} /\ hit = <<>>
              /\ Answer(r, "failed", <<>>) /\ UNCHANGED <<rules, news>>
           \/ /\ r.op = "move" /\ hit # <<>>
              /\ r.to = r.id \/ ToSet(hit) \cap ToSet(rules[r.to]) # {}
              /\ Answer(r, "failed", <<>>) /\ UNCHANGED <<rules, news>>
        /\ UNCHANGED <<page, spent>>

\* A move that wrote the target and could not write the source.
HalfMove(r) ==
    LET hit == Only(rules[r.id], ToSet(r.names))
    IN  /\ r.phase = "sent" /\ r.op = "move" /\ r.to # r.id /\ hit # <<>>
        /\ ToSet(hit) \cap ToSet(rules[r.to]) = {} /\ Troubled
        /\ Store([rules EXCEPT ![r.to] = @ \o hit])
        /\ Answer(r, "half", <<>>) /\ Spend("trouble")
        /\ UNCHANGED page

Fail(r) ==
    /\ r.phase \in {"sent", "ok"} /\ Troubled
    /\ Answer(r, "failed", <<>>) /\ Spend("trouble")
    /\ UNCHANGED <<rules, page, news>>

\* Another client removes a rule or takes it back.
Outside(i, n) ==
    /\ Troubled /\ Spend("trouble")
    /\ Store([rules EXCEPT ![i] = IF n \in ToSet(@) THEN Without(@, {n}) ELSE Append(@, n)])
    /\ UNCHANGED <<page, requests>>

(***************************************************************************)
(* Answers.                                                                *)
(***************************************************************************)
\* Mutant: the selection outlives its rows.
ReconciledNot(names) == selected

Reconciled(names) == selected \cap names

DeliverLoad(r) ==
    /\ r.op = "load" /\ r.phase # "sent" /\ requests' = requests \ {r}
    /\ shown' = r.names /\ owner' = r.id /\ loading' = FALSE
    /\ selected' = IF r.phase = "ok" THEN Reconciled(ToSet(r.names)) ELSE selected
    /\ UNCHANGED <<rules, active, tab, modal, target, migrating, drag, timer, news, spent>>

\* loadProxies(activeConfigId) of a continuation: the closure's instance.
ThenLoad(r) == requests' = (requests \ {r}) \cup {Load(r.id)} /\ loading' = TRUE

DeliverCommand(r) ==
    /\ r.op \in {"toggle", "delete", "reorder"} /\ r.phase # "sent"
    /\ IF (r.phase = "ok") = (r.op # "reorder")
       THEN ThenLoad(r) ELSE requests' = requests \ {r} /\ UNCHANGED loading
    /\ selected' = IF r.phase = "ok" /\ r.to = "batch" THEN {} ELSE selected
    /\ UNCHANGED <<rules, active, tab, shown, owner, modal, target, migrating, drag, timer,
                   news, spent>>

DeliverMove(r) ==
    /\ r.op = "move" /\ r.phase # "sent" /\ migrating' = FALSE
    /\ IF r.phase \in {"ok", "half"}
       THEN ThenLoad(r) /\ ResetChoice
       ELSE requests' = requests \ {r} /\ UNCHANGED <<loading, selected, modal, target>>
    /\ UNCHANGED <<rules, active, tab, shown, owner, drag, timer, news, spent>>

(***************************************************************************)
(* Events: scheduleProxyReload and its 300 ms timer.                       *)
(***************************************************************************)
Hear(i) ==
    /\ i \in news /\ news' = news \ {i}
    /\ timer' = IF i = active THEN i ELSE timer
    /\ UNCHANGED <<rules, active, tab, shown, owner, loading, selected, modal, target,
                   migrating, drag, requests, spent>>

TimerFires ==
    /\ timer # None /\ timer' = None
    /\ IF active = timer /\ tab = "proxies"
       THEN Send(Load(timer)) /\ loading' = TRUE
       ELSE UNCHANGED <<requests, loading>>
    /\ UNCHANGED <<rules, active, tab, shown, owner, selected, modal, target, migrating,
                   drag, news, spent>>

-----------------------------------------------------------------------------
Switch ==
    \/ \E i \in Ids : Select(i) \/ SelectedByAnswer(i)
    \/ \E t \in {"proxies", "other"} : SwitchTab(t)
Command ==
    \/ \E names \in SUBSET Rows : Choose(names)
    \/ \E op \in {"toggle", "delete"}, n \in Rows : RowCommand(op, n)
    \/ BatchDelete \/ OpenMigrate \/ CancelMigrate \/ Migrate
    \/ \E i \in Ids : ChooseTarget(i)
    \/ \E k \in DOMAIN shown : DragStart(k) \/ Drop(k)
    \/ DragEnd
Daemon ==
    \/ \E r \in requests : Serve(r) \/ HalfMove(r) \/ Fail(r)
    \/ \E i \in Ids, n \in Names : Outside(i, n)
Arrive ==
    \/ \E r \in requests : DeliverLoad(r) \/ DeliverCommand(r) \/ DeliverMove(r)
    \/ \E i \in Ids : Hear(i)
    \/ TimerFires
Next == Switch \/ Command \/ Daemon \/ Arrive

Spec == Init /\ [][Next]_vars

-----------------------------------------------------------------------------
TypeOK ==
    /\ rules \in [Ids -> Seq(Names)]
    /\ active \in Ids /\ tab \in {"proxies", "other"} /\ owner \in Ids
    /\ Rows \subseteq Names \cup {None} /\ loading \in BOOLEAN /\ selected \subseteq Names
    /\ modal \in BOOLEAN /\ target \in Ids \cup {None} /\ migrating \in BOOLEAN
    /\ drag \in Nat /\ timer \in Ids \cup {None} /\ news \subseteq Ids
    /\ \A r \in requests : r.id \in Ids /\ ToSet(r.names) \subseteq Names

\* Rules that are checked in the table are rows of it, whatever was deleted,
\* moved or renamed meanwhile, except while the table is empty because its
\* last load failed (the reconciliation of loadProxies).
SelectionShown == shown # <<>> => selected \subseteq Rows

\* No move is ever sent to the instance it moves from, although answers change
\* the active instance under the open dialog.
MovesApart == \A r \in requests : r.op = "move" => r.to # r.id

\* What the user commands on is what the table shows for that instance.
\* Violated by a continuation that loads the instance it was sent for after
\* the user has gone to another.
RowsAreActive == tab = "proxies" /\ ~loading => owner = active

\* The table never shows a hole.  Violated when a reload shortens it between
\* the start of a drag and the drop.
RowsWhole == None \notin Rows

\* With nothing on its way the table shows the rules of the active instance.
\* Violated by two loads answered in the other order.
TableAgrees ==
    requests = {} /\ news = {} /\ timer = None /\ tab = "proxies" /\ spent.trouble = 0
        => shown = rules[active]
=============================================================================
