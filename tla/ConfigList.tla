----------------------------- MODULE ConfigList -----------------------------
(***************************************************************************)
(* The left column of the instances page (web/src/pages/Configs.tsx): the  *)
(* list of instances with their run states, the commands its cards and     *)
(* context menus offer, the order dragged by the user and the instance     *)
(* the right column works on.  The page learns states from the list, from  *)
(* a poll of every listed instance, and from instance.state events, and    *)
(* each answer may arrive after a later one.  A request remembers the      *)
(* active instance of the render that sent it (its closure).               *)
(***************************************************************************)
EXTENDS Naturals, FiniteSets, SequencesExt

CONSTANTS
    Ids,          \* the instances at first
    CopyOf,       \* the id handleDuplicateConfig gives the copy of each; bound: only
                  \* these are copied
    NewId,        \* the id typed into the "new configuration" form
    MaxCommands,  \* bound: commands the user gives
    MaxTrouble,   \* bound: state changes nobody asked for, and requests, answers and
                  \* events that are lost
    MaxRequests   \* bound: requests of one kind on their way

VARIABLES
    order,     \* daemon: the instances, in the order of meta.sort
    real,      \* daemon: the state of each
    configs,   \* page: the list shown, each entry an id with a state
    active,    \* page: activeConfigId, "" for none
    busy,      \* page: the ids whose statusLoading is true
    drag,      \* page: configDragIndexRef, 0 for none
    requests,  \* requests on their way to the daemon or back
    news,      \* instance.state events on their way to the page
    spent      \* commands and troubles so far

vars == <<order, real, configs, active, busy, drag, requests, news, spent>>

AllIds == Ids \cup {CopyOf[i] : i \in Ids} \cup {NewId}
States == {"stopped", "starting", "started", "stopping", "error"}
Item(i, s) == [id |-> i, state |-> s]
Listed == {configs[k].id : k \in DOMAIN configs}
Exists(i) == i \in ToSet(order)

(***************************************************************************)
(* Requests.  items is what a reorder sends, or what an answer carries.    *)
(***************************************************************************)
Ask(op, i, items) ==
    [op |-> op, id |-> i, closure |-> active, phase |-> "sent", items |-> items]
List == Ask("list", "", <<>>)
RoomFor(op) == Cardinality({r \in requests : r.op = op}) < MaxRequests
Spend(what) == spent' = [spent EXCEPT ![what] = @ + 1]
\* fetchConfigs of a continuation: it runs in the closure of its request.
ListFrom(r) == [List EXCEPT !.closure = r.closure]

\* The switch between buttons on a card and in its context menu.
Offered(item) ==
    {"delete", "duplicate"}
        \cup (IF item.state = "started" THEN {"stop", "reload"} ELSE {"start"})

-----------------------------------------------------------------------------
Init ==
    /\ order = SetToSeq(Ids) /\ real = [i \in AllIds |-> "stopped"]
    /\ configs = <<>> /\ active = "" /\ busy = {} /\ drag = 0
    /\ requests = {[op |-> "list", id |-> "", closure |-> "", phase |-> "sent", items |-> <<>>]}
    /\ news = <<>> /\ spent = [commands |-> 0, trouble |-> 0]

(***************************************************************************)
(* The user.                                                               *)
(***************************************************************************)
SelectConfig(i) ==
    /\ i \in Listed /\ active' = i
    /\ UNCHANGED <<order, real, configs, busy, drag, requests, news, spent>>

\* handleStartInstance, handleStopInstance, handleReloadInstance,
\* handleDeleteConfig and handleDuplicateConfig, up to their await.
Command(op, k) ==
    /\ op \in Offered(configs[k]) /\ RoomFor(op) /\ spent.commands < MaxCommands
    /\ op = "duplicate" => configs[k].id \in Ids
    /\ requests' = requests \cup {Ask(op, configs[k].id, <<>>)}
    /\ busy' = IF op \in {"start", "stop", "reload"} THEN busy \cup {configs[k].id} ELSE busy
    /\ Spend("commands")
    /\ UNCHANGED <<order, real, configs, active, drag, news>>

\* handleCreateConfig, up to its await.
SubmitCreate ==
    /\ RoomFor("create") /\ spent.commands < MaxCommands
    /\ requests' = requests \cup {Ask("create", NewId, <<>>)}
    /\ Spend("commands")
    /\ UNCHANGED <<order, real, configs, active, busy, drag, news>>

DragStart(k) ==
    /\ spent.commands < MaxCommands /\ Len(configs) > 1 /\ drag = 0 /\ drag' = k
    /\ Spend("commands")
    /\ UNCHANGED <<order, real, configs, active, busy, requests, news>>

DragEnd ==
    /\ drag # 0 /\ drag' = 0
    /\ UNCHANGED <<order, real, configs, active, busy, requests, news, spent>>

\* handleConfigReorder.  An index the list has lost meanwhile moves a hole.
Moved(s, from, to) ==
    LET item == IF from \in DOMAIN s THEN s[from] ELSE Item("", "")
        rest == IF from \in DOMAIN s THEN RemoveAt(s, from) ELSE s
    IN  InsertAt(rest, to, item)

Drop(to) ==
    /\ drag \notin {0, to} /\ drag' = 0
    /\ configs' = Moved(configs, drag, to)
    /\ IF drag \in DOMAIN configs
       THEN RoomFor("reorder") /\ requests' = requests \cup {Ask("reorder", "", configs')}
       ELSE requests' = requests \cup {List}
    /\ UNCHANGED <<order, real, active, busy, news, spent>>

(***************************************************************************)
(* The daemon.                                                             *)
(***************************************************************************)
Answered(r, items) == (requests \ {r}) \cup {[r EXCEPT !.phase = "ok", !.items = items]}
Refused(r) == (requests \ {r}) \cup {[r EXCEPT !.phase = "failed", !.items = <<>>]}
Publish(i, s) == news' = Append(news, Item(i, s))

\* fetchStatus ignores an error, so a refused one is gone at once.
ServeRead(r) ==
    /\ r.phase = "sent" /\ r.op \in {"list", "status"}
    /\ requests' =
         IF r.op = "list" THEN Answered(r, [k \in DOMAIN order |-> Item(order[k], real[order[k]])])
         ELSE IF Exists(r.id) THEN Answered(r, <<Item(r.id, real[r.id])>>) ELSE requests \ {r}
    /\ UNCHANGED <<order, real, configs, active, busy, drag, news, spent>>

ServeLifecycle(r) ==
    /\ r.phase = "sent" /\ r.op \in {"start", "stop", "reload"}
    /\ LET target == CASE r.op = "start" /\ real[r.id] \in {"stopped", "error"} -> "starting"
                       [] r.op = "stop" /\ real[r.id] # "stopped" -> "stopped"
                       [] OTHER -> real[r.id]
       IN  IF Exists(r.id) /\ (r.op = "reload" => real[r.id] = "started")
           THEN /\ requests' = Answered(r, <<>>)
                /\ real' = [real EXCEPT ![r.id] = target]
                /\ IF target = real[r.id] THEN UNCHANGED news ELSE Publish(r.id, target)
           ELSE requests' = Refused(r) /\ UNCHANGED <<real, news>>
    /\ UNCHANGED <<order, configs, active, busy, drag, spent>>

\* Deleting stops the instance; a copy is registered stopped.
ServeMembership(r) ==
    LET new == IF r.op = "create" THEN r.id ELSE CopyOf[r.id]
    IN  /\ r.phase = "sent"
        /\ \/ /\ r.op = "delete" /\ Exists(r.id)
              /\ order' = Remove(order, r.id) /\ real' = [real EXCEPT ![r.id] = "stopped"]
              /\ requests' = Answered(r, <<>>)
           \/ /\ r.op \in {"create", "duplicate"} /\ (r.op = "duplicate" => Exists(r.id))
              /\ ~Exists(new)
              /\ order' = Append(order, new) /\ requests' = Answered(r, <<>>) /\ UNCHANGED real
           \/ /\ \/ r.op \in {"delete", "duplicate"} /\ ~Exists(r.id)
                 \/ r.op \in {"create", "duplicate"} /\ Exists(new)
              /\ requests' = Refused(r) /\ UNCHANGED <<order, real>>
        /\ UNCHANGED <<configs, active, busy, drag, news, spent>>

\* Reorder drops the ids it does not know; those it was not given come last.
ServeReorder(r) ==
    /\ r.phase = "sent" /\ r.op = "reorder"
    /\ LET given == SelectSeq([k \in DOMAIN r.items |-> r.items[k].id], Exists)
       IN  order' = given \o SelectSeq(order, LAMBDA i : i \notin ToSet(given))
    /\ requests' = Answered(r, <<>>)
    /\ UNCHANGED <<real, configs, active, busy, drag, news, spent>>

\* An instance changes state on its own: frpc logs in, fails, ends.
Drift(i, s) ==
    /\ Exists(i) /\ spent.trouble < MaxTrouble
    /\ s \in CASE real[i] = "starting" -> {"started", "error"}
               [] real[i] = "started" -> {"stopping", "error"}
               [] real[i] = "stopping" -> {"stopped"}
               [] OTHER -> {}
    /\ real' = [real EXCEPT ![i] = s] /\ Publish(i, s) /\ Spend("trouble")
    /\ UNCHANGED <<order, configs, active, busy, drag, requests>>

\* The connection breaks, or the 15 s of the axios client run out.
Lose(r) ==
    /\ r.phase \in {"sent", "ok"} /\ spent.trouble < MaxTrouble
    /\ r.op # "status" /\ requests' = Refused(r) /\ Spend("trouble")
    /\ UNCHANGED <<order, real, configs, active, busy, drag, news>>

LoseEvent ==
    /\ news # <<>> /\ spent.trouble < MaxTrouble
    /\ news' = Tail(news) /\ Spend("trouble")
    /\ UNCHANGED <<order, real, configs, active, busy, drag, requests>>

(***************************************************************************)
(* Answers and events arrive.                                              *)
(***************************************************************************)
WithState(list, i, s) ==
    [k \in DOMAIN list |-> IF list[k].id = i THEN Item(i, s) ELSE list[k]]

DeliverList(r) ==
    /\ r.op = "list" /\ r.phase \in {"ok", "failed"}
    /\ configs' = IF r.phase = "ok" THEN r.items ELSE configs
    /\ active' = IF r.phase = "ok" /\ r.items # <<>> /\ r.closure = ""
                 THEN r.items[1].id ELSE active
    /\ requests' = requests \ {r}
    /\ UNCHANGED <<order, real, busy, drag, news, spent>>

\* fetchStatus, after its await.
DeliverStatus(r) ==
    /\ r.op = "status" /\ r.phase = "ok"
    /\ configs' = WithState(configs, r.id, r.items[1].state)
    /\ requests' = requests \ {r}
    /\ UNCHANGED <<order, real, active, busy, drag, news, spent>>

DeliverLifecycle(r) ==
    /\ r.op \in {"start", "stop", "reload"} /\ r.phase \in {"ok", "failed"}
    /\ busy' = busy \ {r.id}
    /\ requests' = (requests \ {r})
          \cup (IF r.phase = "ok" /\ r.op # "reload"
                THEN {[Ask("status", r.id, <<>>) EXCEPT !.closure = ""]} ELSE {})
    /\ UNCHANGED <<order, real, configs, active, drag, news, spent>>

DeliverMembership(r) ==
    /\ r.op \in {"delete", "duplicate", "create"} /\ r.phase \in {"ok", "failed"}
    /\ IF r.phase = "failed"
       THEN requests' = requests \ {r} /\ UNCHANGED active
       ELSE /\ requests' = (requests \ {r}) \cup {ListFrom(r)}
            /\ active' = CASE r.op = "create" -> r.id
                           [] r.op = "delete" /\ r.closure = r.id -> ""
                           [] OTHER -> active
    /\ UNCHANGED <<order, real, configs, busy, drag, news, spent>>

\* The page has shown the new order already; a failure loads the list.
DeliverReorder(r) ==
    /\ r.op = "reorder" /\ r.phase \in {"ok", "failed"}
    /\ requests' = (requests \ {r}) \cup (IF r.phase = "failed" THEN {ListFrom(r)} ELSE {})
    /\ UNCHANGED <<order, real, configs, active, busy, drag, news, spent>>

HearState ==
    /\ news # <<>> /\ news' = Tail(news)
    /\ configs' = WithState(configs, news[1].id, news[1].state)
    /\ UNCHANGED <<order, real, active, busy, drag, requests, spent>>

\* Mutant: only instances shown as running are asked for.
PollStarted(i) ==
    /\ \E k \in DOMAIN configs : configs[k] = Item(i, "started")
    /\ Cardinality({r \in requests : r.op = "status" /\ r.id = i}) < MaxRequests
    /\ requests' = requests \cup {[Ask("status", i, <<>>) EXCEPT !.closure = ""]}
    /\ UNCHANGED <<order, real, configs, active, busy, drag, news, spent>>

\* The 4 s timer asks for the state of every entry of the current list.
Poll(i) ==
    /\ i \in Listed \ {""}
    /\ Cardinality({r \in requests : r.op = "status" /\ r.id = i}) < MaxRequests
    /\ requests' = requests \cup {[Ask("status", i, <<>>) EXCEPT !.closure = ""]}
    /\ UNCHANGED <<order, real, configs, active, busy, drag, news, spent>>

-----------------------------------------------------------------------------
User ==
    \/ \E i \in AllIds : SelectConfig(i)
    \/ \E k \in DOMAIN configs, op \in {"start", "stop", "reload", "delete", "duplicate"} :
         Command(op, k)
    \/ SubmitCreate
    \/ \E k \in DOMAIN configs : DragStart(k) \/ Drop(k)
    \/ DragEnd
Serve == \E r \in requests : ServeLifecycle(r) \/ ServeMembership(r) \/ ServeReorder(r)
Trouble ==
    \/ \E r \in requests : Lose(r)
    \/ \E i \in AllIds, s \in States : Drift(i, s)
    \/ LoseEvent
Read == \E r \in requests : ServeRead(r)
Arrive ==
    \/ \E r \in requests : DeliverList(r) \/ DeliverLifecycle(r) \/ DeliverMembership(r)
                             \/ DeliverReorder(r)
    \/ HearState
StatusArrives == \E r \in requests : DeliverStatus(r)
Next == User \/ Serve \/ Trouble \/ Read \/ Arrive \/ StatusArrives \/ (\E i \in AllIds : Poll(i))

Of(i, r) == r.op = "status" /\ r.id = i
Fairness ==
    /\ WF_vars(Serve) /\ WF_vars(Arrive)
    /\ WF_vars(\E r \in requests : r.op = "list" /\ ServeRead(r))
    /\ \A i \in AllIds :
         /\ WF_vars(Poll(i))
         /\ WF_vars(\E r \in requests : Of(i, r) /\ ServeRead(r))
         /\ WF_vars(\E r \in requests : Of(i, r) /\ DeliverStatus(r))

Spec == Init /\ [][Next]_vars /\ Fairness

-----------------------------------------------------------------------------
TypeOK ==
    /\ ToSet(order) \subseteq AllIds /\ IsInjective(order) /\ real \in [AllIds -> States]
    /\ \A k \in DOMAIN configs : configs[k].id \in AllIds \cup {""}
    /\ active \in AllIds \cup {""} /\ busy \subseteq AllIds
    /\ drag \in 0..Cardinality(AllIds)
    /\ \A r \in requests : r.id \in AllIds \cup {""} /\ r.closure \in AllIds \cup {""}

\* Whatever is lost or overtaken, once the daemon's instances rest the badge
\* of every listed instance that exists comes to show its state for good.
StatusConverges ==
    <>[](\A k \in DOMAIN configs : Exists(configs[k].id) => configs[k].state = real[configs[k].id])

\* The list never holds a hole: every entry stands for an instance.  Violated
\* when the list shrinks between the start of a drag and the drop.
ListIsWhole == "" \notin Listed

\* The right column works on an instance that exists, once no request is on
\* its way.  Violated when the user selects an instance being deleted.
ActiveExists == requests = {} /\ active # "" => Exists(active)

\* With nothing on its way the list shows the instances in the daemon's order.
\* Violated by an old list answer, and by two reorders served the other way.
OrderAgrees ==
    requests = {} /\ spent.trouble = 0 => [k \in DOMAIN configs |-> configs[k].id] = order
=============================================================================
