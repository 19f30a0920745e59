------------------------------ MODULE LogView ------------------------------
(***************************************************************************)
(* The two live log views of the web UI: the logs tab of the instances     *)
(* page (web/src/pages/Configs.tsx, "mini": it loads the last lines over   *)
(* HTTP, then opens a WebSocket) and the log page (web/src/pages/Logs.tsx, *)
(* "page": the WebSocket only), with what the daemon serves them           *)
(* (internal/api/logs.go): the instances write one file, and a socket      *)
(* receives the lines of its instance appended after it was accepted.      *)
(* A line is its number in the file.                                       *)
(***************************************************************************)
EXTENDS Naturals, FiniteSets, SequencesExt

CONSTANTS
    Ids,         \* the instances
    Keep,        \* lines a view keeps (1000 in the code)
    MaxLines,    \* bound: lines written
    MaxSockets,  \* bound: sockets opened
    MaxLoads,    \* bound: history requests on their way
    MaxClicks    \* bound: uses of the pause and clear buttons

VARIABLES
    file,      \* daemon: the instance that wrote each line
    mark,      \* daemon: LogViewSince, the lines an instance's views skip
    view,      \* "mini" or "page"
    active,    \* the instance on screen
    on,        \* the view is on screen
    lines,     \* miniLogLines, logs
    paused,    \* miniLogsPaused, isPaused
    badge,     \* miniLogsWsState, wsStatus
    ref,       \* miniLogsWsRef, wsRef: the socket held, 0 for none
    sockets,   \* the sockets opened: instance, last line seen, state
    requests,  \* history and clear requests on their way
    clicks,    \* uses of the pause and clear buttons so far
    hasty      \* history: the user has left or reloaded while the history loaded

vars == <<file, mark, view, active, on, lines, paused, badge, ref, sockets, requests, clicks, hasty>>

\* The members of a finite set of naturals, in order.
Sorted(T) ==
    CHOOSE t \in [1..Cardinality(T) -> T] : \A j, k \in DOMAIN t : j < k => t[j] < t[k]
LinesOf(i) == Sorted({k \in DOMAIN file : file[k] = i /\ k > mark[i]})
Newest(s) == IF Len(s) > Keep THEN SubSeq(s, Len(s) - Keep + 1, Len(s)) ELSE s
Loading == \E r \in requests : r.op = "load"
\* A move of the user that leaves a history request behind.
NoteHaste == hasty' = (hasty \/ Loading)

-----------------------------------------------------------------------------
Init ==
    /\ file = <<>> /\ mark = [i \in Ids |-> 0]
    /\ view \in {"mini", "page"} /\ active = (CHOOSE i \in Ids : TRUE) /\ on = FALSE
    /\ lines = <<>> /\ paused = FALSE /\ badge = "closed"
    /\ ref = 0 /\ sockets = <<>> /\ requests = {} /\ clicks = 0 /\ hasty = FALSE

(***************************************************************************)
(* The view's own steps, shared by its handlers.                           *)
(***************************************************************************)
\* Mutant: the socket is dropped and not closed.
ClosedForgotten == sockets

\* disconnectMiniLogsWS, disconnectWS: close what the ref holds.
Closed == IF ref = 0 THEN sockets ELSE [sockets EXCEPT ![ref].state = "closing"]
Opened(s, i) == Append(s, [id |-> i, seen |-> 0, state |-> "connecting"])

\* loadMiniLogs up to its await; connectWS.
Start(i) ==
    /\ lines' = <<>>
    /\ IF view = "mini"
       THEN /\ Cardinality({r \in requests : r.op = "load"}) < MaxLoads
            /\ requests' = requests \cup {[op |-> "load", id |-> i, phase |-> "sent", got |-> <<>>]}
            /\ sockets' = Closed /\ ref' = 0 /\ badge' = "closed"
       ELSE /\ Len(sockets) < MaxSockets
            /\ sockets' = Opened(Closed, i) /\ ref' = Len(sockets')
            /\ badge' = "connecting" /\ UNCHANGED requests

(***************************************************************************)
(* The user.                                                               *)
(***************************************************************************)
\* The user comes to the view, or to another instance in it.
Watch(i) ==
    /\ i # active \/ ~on
    /\ active' = i /\ on' = TRUE /\ Start(i) /\ NoteHaste
    /\ UNCHANGED <<file, mark, view, paused, clicks>>

\* The "reconnect" button.
Reload ==
    /\ on /\ view = "mini" /\ Start(active) /\ NoteHaste
    /\ UNCHANGED <<file, mark, view, active, on, paused, clicks>>

\* Mutant: no cleanup when the view goes.
LeaveOpen ==
    /\ on /\ on' = FALSE /\ NoteHaste
    /\ UNCHANGED <<file, mark, view, active, lines, paused, badge, ref, sockets, requests, clicks>>

\* To another tab or page: the effect's cleanup closes the socket.
Leave ==
    /\ on /\ on' = FALSE /\ NoteHaste
    /\ sockets' = Closed /\ ref' = 0 /\ badge' = "closed"
    /\ UNCHANGED <<file, mark, view, active, lines, paused, requests, clicks>>

Pause ==
    /\ on /\ clicks < MaxClicks /\ clicks' = clicks + 1 /\ paused' = ~paused
    /\ UNCHANGED <<file, mark, view, active, on, lines, badge, ref, sockets, requests, hasty>>

\* handleClearMiniLogs up to its await; the page clears its panel at once.
Clear ==
    /\ on /\ clicks < MaxClicks /\ clicks' = clicks + 1
    /\ IF view = "mini"
       THEN /\ requests' = requests \cup {[op |-> "clear", id |-> active, phase |-> "sent", got |-> <<>>]}
            /\ UNCHANGED lines
       ELSE lines' = <<>> /\ UNCHANGED requests
    /\ UNCHANGED <<file, mark, view, active, on, paused, badge, ref, sockets, hasty>>

(***************************************************************************)
(* The daemon.                                                             *)
(***************************************************************************)
Write(i) ==
    /\ Len(file) < MaxLines /\ file' = Append(file, i)
    /\ UNCHANGED <<mark, view, active, on, lines, paused, badge, ref, sockets, requests, clicks, hasty>>

\* LogsHandler.Query, and LogsHandler.Clear, which only moves the watermark.
Serve(r) ==
    /\ r.phase = "sent"
    /\ mark' = IF r.op = "clear" THEN [mark EXCEPT ![r.id] = Len(file)] ELSE mark
    /\ requests' = (requests \ {r}) \cup
          {[r EXCEPT !.phase = "ok", !.got = IF r.op = "load" THEN Newest(LinesOf(r.id)) ELSE <<>>]}
    /\ UNCHANGED <<file, view, active, on, lines, paused, badge, ref, sockets, clicks, hasty>>

Refuse(r) ==
    /\ r.phase = "sent"
    /\ requests' = (requests \ {r}) \cup {[r EXCEPT !.phase = "failed"]}
    /\ UNCHANGED <<file, mark, view, active, on, lines, paused, badge, ref, sockets, clicks, hasty>>

\* LogsHandler.Tail accepts: its tailer starts at the end of the file.
Accept(s) ==
    /\ sockets[s].state = "connecting"
    /\ sockets' = [sockets EXCEPT ![s].state = "open", ![s].seen = Len(file)]
    /\ badge' = "connected"
    /\ UNCHANGED <<file, mark, view, active, on, lines, paused, ref, requests, clicks, hasty>>

\* The next line of the socket's instance; a paused view drops it.
Push(s) ==
    /\ sockets[s].state = "open"
    /\ \E n \in (sockets[s].seen + 1)..Len(file) :
         /\ file[n] = sockets[s].id
         /\ \A m \in (sockets[s].seen + 1)..(n - 1) : file[m] # sockets[s].id
         /\ sockets' = [sockets EXCEPT ![s].seen = n]
         /\ lines' = IF paused THEN lines ELSE Newest(Append(lines, n))
    /\ UNCHANGED <<file, mark, view, active, on, paused, badge, ref, requests, clicks, hasty>>

\* onclose: after close(), or because the daemon went away.
CloseEvent(s) ==
    /\ sockets[s].state # "closed"
    /\ sockets' = [sockets EXCEPT ![s].state = "closed"] /\ badge' = "closed"
    /\ UNCHANGED <<file, mark, view, active, on, lines, paused, ref, requests, clicks, hasty>>

(***************************************************************************)
(* Answers.                                                                *)
(***************************************************************************)
\* loadMiniLogs after its await: whatever happened, it opens a socket.
DeliverHistory(r) ==
    /\ r.op = "load" /\ r.phase # "sent" /\ requests' = requests \ {r}
    /\ lines' = IF r.phase = "ok" THEN r.got ELSE lines
    /\ Len(sockets) < MaxSockets
    /\ sockets' = Opened(sockets, r.id) /\ ref' = Len(sockets') /\ badge' = "connecting"
    /\ UNCHANGED <<file, mark, view, active, on, paused, clicks, hasty>>

DeliverClear(r) ==
    /\ r.op = "clear" /\ r.phase # "sent" /\ requests' = requests \ {r}
    /\ lines' = IF r.phase = "ok" THEN <<>> ELSE lines
    /\ UNCHANGED <<file, mark, view, active, on, paused, badge, ref, sockets, clicks, hasty>>

-----------------------------------------------------------------------------
Next ==
    \/ \E i \in Ids : Watch(i) \/ Write(i)
    \/ Reload \/ Leave \/ Pause \/ Clear
    \/ \E r \in requests : Serve(r) \/ Refuse(r) \/ DeliverHistory(r) \/ DeliverClear(r)
    \/ \E s \in DOMAIN sockets : Accept(s) \/ Push(s) \/ CloseEvent(s)
Spec == Init /\ [][Next]_vars

-----------------------------------------------------------------------------
TypeOK ==
    /\ file \in Seq(Ids) /\ mark \in [Ids -> Nat] /\ active \in Ids
    /\ on \in BOOLEAN /\ hasty \in BOOLEAN /\ paused \in BOOLEAN /\ view \in {"mini", "page"}
    /\ ToSet(lines) \subseteq DOMAIN file
    /\ badge \in {"closed", "connecting", "connected"} /\ ref \in 0..Len(sockets)
    /\ \A s \in DOMAIN sockets :
         sockets[s].state \in {"connecting", "open", "closing", "closed"}

\* The lines on screen are lines of the instance on screen, each once and in
\* the order they were written, and no more than the view keeps: on the log page
\* always, on the logs tab as long as the user has not left, switched or
\* reloaded while a history was loading (the socket of an abandoned load opens
\* too, and what it pushes is shown twice or under another instance).
ViewIsExact ==
    ~hasty =>
       /\ on => \A k \in DOMAIN lines : file[lines[k]] = active
       /\ \A k, m \in DOMAIN lines : k < m => lines[k] < lines[m]
       /\ Len(lines) <= Keep

\* A view holds one socket while it is on screen and none after: "tab leaves
\* logs, instance switched, component unmounted: disconnect, so as not to leak"
\* (comment at Configs.tsx:777).  Violated by a user who leaves while the history
\* is loading: its answer opens a socket when the cleanup has run already.
Live == {s \in DOMAIN sockets : sockets[s].state \in {"connecting", "open"}}
NothingLeftOpen == Live \subseteq {ref} /\ (~on => Live = {})

\* That is the only way: no order of answers, closings, clicks and switches
\* leaves a socket open behind the view, on the log page at all, or on the logs
\* tab if no history was abandoned.
NoSocketLeaks == ~hasty => NothingLeftOpen

\* The badge does not say "connected" without a live stream behind it.
BadgeIsEarned == badge = "connected" => ref # 0 /\ sockets[ref].state = "open"

\* Nor "closed" with one.  Violated when the old socket's onclose comes after
\* the new one has opened.
BadgeIsCurrent == ref # 0 /\ sockets[ref].state = "open" => badge = "connected"

\* No line of the instance is missing between two that are shown.  Violated by
\* a line written after the history was read and before the socket opened.
NoGap ==
    on /\ ~paused /\ Len(lines) > 1 =>
        \A n \in lines[1]..lines[Len(lines)] : file[n] = active => n \in ToSet(lines)
=============================================================================
