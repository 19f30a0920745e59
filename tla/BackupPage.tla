----------------------------- MODULE BackupPage -----------------------------
(***************************************************************************)
(* The scheduled backup page (web/src/pages/Backup.tsx with                *)
(* web/src/api/backup.ts) and what it sees of the daemon: its three lists, *)
(* the dialogs that edit a channel or a schedule, the drawer that restores *)
(* an archive of a channel, and the backup.run events that refresh it.     *)
(* The scheduler itself is BackupScheduler's subject; of its job this      *)
(* module keeps the order of marking, recording, publishing and unmarking. *)
(* Secrets never come back from the daemon: a blank one means "keep it".   *)
(* Answers may arrive in any order, and any request may fail.              *)
(***************************************************************************)
EXTENDS Naturals, FiniteSets, SequencesExt

CONSTANTS
    InitialChannels,   \* id -> [kind, addr, secret]
    InitialSchedules,  \* id -> [chan, on]
    NewChannel,        \* the id createChannel gives
    MaxWork,           \* bound: what the user asks of the daemon, the backup jobs, and the
                       \* requests that are lost, together
    MaxRequests        \* bound: requests on their way at once

VARIABLES
    chans,      \* daemon: the channels
    scheds,     \* daemon: the schedules
    job,        \* daemon: where the job of each schedule is, "none" for no job
    history,    \* daemon: the schedules of the recorded runs
    channels,   \* page: the channels listed, secrets left out
    schedules,  \* page: the schedules listed, with running
    runs,       \* page: the runs listed
    chModal,    \* page: chModal, and the values of chForm
    scModal,    \* page: scModal, and the values of scForm
    restore,    \* page: the restore drawer
    requests,   \* requests on their way
    news,       \* backup.run events on their way to the page
    typed,      \* ghost: the secret last typed for each channel in its kind
    work        \* what has been asked for so far

daemonVars == <<chans, scheds, job, history, typed>>
listVars == <<channels, schedules, runs>>
pageVars == <<listVars, chModal, scModal, restore>>
vars == <<daemonVars, listVars, chModal, scModal, restore, requests, news, work>>

Kinds == {"s3", "webdav"}
Addresses == {InitialChannels[i].addr : i \in DOMAIN InitialChannels}
ChanIds == DOMAIN InitialChannels \cup {NewChannel}
SchedIds == DOMAIN InitialSchedules
Running == {s \in SchedIds : job[s] # "none"}
Empty == [x \in {} |-> 0]
Put(f, x, value) == [y \in DOMAIN f \cup {x} |-> IF y = x THEN value ELSE f[y]]
\* The channels an archive made at first holds.
Archived == [i \in DOMAIN InitialChannels |-> [InitialChannels[i] EXCEPT !.secret = ""]]

Ask(more) == requests' = requests \cup more /\ Cardinality(requests') <= MaxRequests
Work == work < MaxWork /\ work' = work + 1
\* A dialog or drawer on screen masks the page.
Unmasked == ~chModal.open /\ ~scModal.open /\ ~restore.open
Reload(list) == [op |-> list, phase |-> "sent"]

-----------------------------------------------------------------------------
NoChannel == [kind |-> "s3", addr |-> "", secret |-> ""]
ClosedChannel == [open |-> FALSE, editing |-> "", form |-> NoChannel]
ClosedSchedule == [open |-> FALSE, editing |-> "", form |-> [chan |-> "", on |-> TRUE]]
ClosedDrawer == [open |-> FALSE, chan |-> "", objects |-> "", loading |-> FALSE]

\* Mounting asks for the three lists.
Init ==
    /\ chans = InitialChannels /\ scheds = InitialSchedules
    /\ job = [s \in SchedIds |-> "none"] /\ history = <<>>
    /\ channels = Empty /\ schedules = Empty /\ runs = <<>>
    /\ chModal = ClosedChannel /\ scModal = ClosedSchedule /\ restore = ClosedDrawer
    /\ requests = {Reload("channels"), Reload("schedules"), Reload("runs")}
    /\ news = 0 /\ typed = [i \in DOMAIN InitialChannels |-> InitialChannels[i].secret]
    /\ work = 0

(***************************************************************************)
(* The channel dialog.                                                     *)
(***************************************************************************)
\* What openChannelModal puts into the form.
FormOf(c) == [c EXCEPT !.secret = ""]

OpenChannel(editing, form) ==
    /\ Unmasked /\ chModal' = [open |-> TRUE, editing |-> editing, form |-> form]
    /\ UNCHANGED <<daemonVars, listVars, scModal, restore, requests, news, work>>

CloseChannel ==
    /\ chModal.open /\ chModal' = ClosedChannel
    /\ UNCHANGED <<daemonVars, listVars, scModal, restore, requests, news, work>>

\* A field is typed in.  Another kind shows other fields and, with
\* preserve={false}, forgets those it hides.
TypeChannel(form) ==
    /\ chModal.open /\ form # chModal.form
    /\ \/ form.kind = chModal.form.kind
       \/ form = [kind |-> form.kind, addr |-> "", secret |-> ""]
    /\ chModal' = [chModal EXCEPT !.form = form]
    /\ UNCHANGED <<daemonVars, listVars, scModal, restore, requests, news, work>>

\* onSaveChannel up to its await: validation wants the address, and
\* buildChannelInput sends the fields of the chosen kind.
SaveChannel ==
    /\ chModal.open /\ chModal.form.addr # "" /\ Work
    /\ ~\E r \in requests : r.op = "saveChannel"
    /\ Ask({[op |-> "saveChannel", phase |-> "sent", id |-> chModal.editing,
             input |-> chModal.form]})
    /\ UNCHANGED <<daemonVars, listVars, chModal, scModal, restore, news>>

DeleteChannel(i) ==
    /\ Unmasked /\ i \in DOMAIN channels /\ Work
    /\ Ask({[op |-> "deleteChannel", phase |-> "sent", id |-> i]})
    /\ UNCHANGED <<daemonVars, listVars, chModal, scModal, restore, news>>

(***************************************************************************)
(* The schedules.                                                          *)
(***************************************************************************)
\* openScheduleModal wants a channel to offer.
OpenSchedule(editing) ==
    /\ Unmasked /\ DOMAIN channels # {} /\ editing \in DOMAIN schedules
    /\ scModal' = [open |-> TRUE, editing |-> editing,
                   form |-> [chan |-> schedules[editing].chan, on |-> schedules[editing].on]]
    /\ UNCHANGED <<daemonVars, listVars, chModal, restore, requests, news, work>>

TypeSchedule(chan, on) ==
    /\ scModal.open /\ chan \in DOMAIN channels \cup {scModal.form.chan}
    /\ scModal' = [scModal EXCEPT !.form = [chan |-> chan, on |-> on]]
    /\ UNCHANGED <<daemonVars, listVars, chModal, restore, requests, news, work>>

SaveSchedule ==
    /\ scModal.open /\ ~\E r \in requests : r.op = "saveSchedule"
    /\ Work
    /\ Ask({[op |-> "saveSchedule", phase |-> "sent", id |-> scModal.editing,
             form |-> scModal.form]})
    /\ UNCHANGED <<daemonVars, listVars, chModal, scModal, restore, news>>

\* onToggleSchedule, onRunSchedule (its button loads while the row says
\* running) and onDeleteSchedule.
OnSchedule(op, s) ==
    /\ Unmasked /\ s \in DOMAIN schedules
    /\ op = "run" => ~schedules[s].running
    /\ Work
    /\ Ask({[op |-> op, phase |-> "sent", id |-> s, shown |-> schedules[s].on]})
    /\ UNCHANGED <<daemonVars, listVars, chModal, scModal, restore, news>>

(***************************************************************************)
(* The restore drawer.                                                     *)
(***************************************************************************)
\* loadRestoreObjects empties the table and shows it loading.
Load(c) ==
    /\ restore' = [open |-> TRUE, chan |-> c, objects |-> "", loading |-> TRUE]
    /\ Ask({[op |-> "objects", phase |-> "sent", id |-> c]})
    /\ Work
    /\ UNCHANGED <<daemonVars, listVars, chModal, scModal, news>>

\* openRestore keeps the channel it showed last, if it is still there.
OpenRestore(c) ==
    /\ Unmasked /\ c \in DOMAIN channels
    /\ restore.chan \in DOMAIN channels => c = restore.chan
    /\ Load(c)
PickChannel(c) == restore.open /\ c \in DOMAIN channels /\ Load(c)

CloseRestore ==
    /\ restore.open /\ restore' = [ClosedDrawer EXCEPT !.chan = restore.chan]
    /\ UNCHANGED <<daemonVars, listVars, chModal, scModal, requests, news, work>>

\* A row of the table: the loading mask takes no clicks.
Restore ==
    /\ restore.open /\ restore.objects # "" /\ ~restore.loading /\ Work
    /\ Ask({[op |-> "restore", phase |-> "sent", id |-> restore.chan, of |-> restore.objects]})
    /\ UNCHANGED <<daemonVars, listVars, chModal, scModal, restore, news>>

-----------------------------------------------------------------------------
(***************************************************************************)
(* The daemon.                                                             *)
(***************************************************************************)
Answer(r, phase) == requests' = (requests \ {r}) \cup {[r EXCEPT !.phase = phase]}
Listed(op) ==
    [op |-> op, phase |-> "ok",
     channels |-> IF op = "channels" THEN [i \in DOMAIN chans |-> [chans[i] EXCEPT !.secret = ""]]
                  ELSE Empty,
     schedules |-> IF op = "schedules"
                   THEN [s \in DOMAIN scheds |-> [chan |-> scheds[s].chan, on |-> scheds[s].on,
                                                  running |-> s \in Running]]
                   ELSE Empty,
     runs |-> IF op = "runs" THEN history ELSE <<>>]

ServeList(r) ==
    /\ r.phase = "sent" /\ r.op \in {"channels", "schedules", "runs"}
    /\ requests' = (requests \ {r}) \cup {Listed(r.op)}
    /\ UNCHANGED <<daemonVars, pageVars, news, work>>

\* Mutant: a blank secret is stored.
MergedBlank(old, input) == input

\* MergeChannelSecrets, after NormalizeChannel: a blank secret keeps the
\* stored one of the same kind.
Merged(old, input) ==
    IF input.secret = "" /\ old.kind = input.kind THEN [input EXCEPT !.secret = old.secret] ELSE input

\* CreateChannel and UpdateChannel.
ServeSaveChannel(r) ==
    /\ r.op = "saveChannel" /\ r.phase = "sent"
    /\ LET id == IF r.id = "" THEN NewChannel ELSE r.id
           keeps == r.id \in DOMAIN chans /\ chans[r.id].kind = r.input.kind /\ r.input.secret = ""
           new == IF r.id = "" THEN r.input ELSE Merged(chans[r.id], r.input)
       IN  IF r.id # "" /\ r.id \notin DOMAIN chans
           THEN Answer(r, "failed") /\ UNCHANGED <<chans, typed>>
           ELSE /\ chans' = Put(chans, id, new)
                /\ typed' = Put(typed, id, IF keeps THEN typed[id] ELSE r.input.secret)
                /\ Answer(r, "ok")
    /\ UNCHANGED <<scheds, job, history, pageVars, news, work>>

\* DeleteChannel refuses a channel in use.
ServeDeleteChannel(r) ==
    /\ r.op = "deleteChannel" /\ r.phase = "sent"
    /\ IF r.id \notin DOMAIN chans \/ \E s \in DOMAIN scheds : scheds[s].chan = r.id
       THEN Answer(r, "failed") /\ UNCHANGED chans
       ELSE Answer(r, "ok") /\ chans' = [i \in DOMAIN chans \ {r.id} |-> chans[i]]
    /\ UNCHANGED <<scheds, job, history, typed, pageVars, news, work>>

ServeSchedule(r) ==
    /\ r.op \in {"saveSchedule", "toggle", "deleteSchedule"} /\ r.phase = "sent"
    /\ IF r.id \notin DOMAIN scheds \/ (r.op = "saveSchedule" /\ r.form.chan \notin DOMAIN chans)
       THEN Answer(r, "failed") /\ UNCHANGED scheds
       ELSE /\ Answer(r, "ok")
            /\ scheds' = CASE r.op = "saveSchedule" -> [scheds EXCEPT ![r.id] = r.form]
                           [] r.op = "toggle" -> [scheds EXCEPT ![r.id].on = ~@]
                           [] OTHER -> [s \in DOMAIN scheds \ {r.id} |-> scheds[s]]
    /\ UNCHANGED <<chans, job, history, typed, pageVars, news, work>>

\* launch marks the schedule; a job that is in the way refuses the request.
Launch(s) ==
    /\ s \in DOMAIN scheds /\ job[s] = "none" /\ Work
    /\ job' = [job EXCEPT ![s] = "marked"]
    /\ UNCHANGED <<chans, scheds, history, typed, pageVars, news>>
ServeRun(r) ==
    /\ r.op = "run" /\ r.phase = "sent" /\ Launch(r.id) /\ Answer(r, "ok")
RefuseRun(r) ==
    /\ r.op = "run" /\ r.phase = "sent" /\ Answer(r, "failed")
    /\ r.id \notin DOMAIN scheds \/ job[r.id] # "none"
    /\ UNCHANGED <<daemonVars, pageVars, news, work>>
CronFires(s) == Launch(s) /\ scheds[s].on /\ UNCHANGED requests

\* The job publishes that it runs, works, records the run, publishes that it
\* is done, and is unmarked as its goroutine returns.
JobStep(s, from, to) ==
    /\ job[s] = from /\ job' = [job EXCEPT ![s] = to]
    /\ news' = IF to \in {"working", "published"} THEN news + 1 ELSE news
    /\ history' = IF to = "recorded" THEN <<s>> \o history ELSE history
    /\ UNCHANGED <<chans, scheds, typed, pageVars, requests, work>>
Job(s) ==
    \/ JobStep(s, "marked", "working") \/ JobStep(s, "working", "recorded")
    \/ JobStep(s, "recorded", "published") \/ JobStep(s, "published", "none")

\* ListObjects, of the storage the channel names.
ServeObjects(r) ==
    /\ r.op = "objects" /\ r.phase = "sent"
    /\ Answer(r, IF r.id \in DOMAIN chans THEN "ok" ELSE "failed")
    /\ UNCHANGED <<daemonVars, pageVars, news, work>>

\* Restore, of an archive made at first: secrets are left out of it, and
\* schedules whose channel is gone are dropped (restoreBackupConfig).
ServeRestore(r) ==
    /\ r.op = "restore" /\ r.phase = "sent"
    /\ IF r.id \notin DOMAIN chans
       THEN Answer(r, "failed") /\ UNCHANGED <<chans, scheds, typed>>
       ELSE /\ Answer(r, "ok")
            /\ chans' = [i \in DOMAIN Archived |->
                           IF i \in DOMAIN chans THEN Merged(chans[i], Archived[i]) ELSE Archived[i]]
            /\ scheds' = InitialSchedules
            /\ typed' = [i \in DOMAIN Archived |->
                           IF i \in DOMAIN chans /\ chans[i].kind = Archived[i].kind THEN typed[i] ELSE ""]
    /\ UNCHANGED <<job, history, pageVars, news, work>>

Lose(r) ==
    /\ r.phase = "sent" /\ Answer(r, "failed") /\ Work
    /\ UNCHANGED <<daemonVars, pageVars, news>>

-----------------------------------------------------------------------------
(***************************************************************************)
(* Back on the page.                                                       *)
(***************************************************************************)
Swap(r, more) ==
    /\ requests' = (requests \ {r}) \cup {Reload(list) : list \in more}

DeliverList(r) ==
    /\ r.op \in {"channels", "schedules", "runs"} /\ r.phase = "ok" /\ Swap(r, {})
    /\ channels' = IF r.op = "channels" THEN r.channels ELSE channels
    /\ schedules' = IF r.op = "schedules" THEN r.schedules ELSE schedules
    /\ runs' = IF r.op = "runs" THEN r.runs ELSE runs
    /\ UNCHANGED <<daemonVars, chModal, scModal, restore, news, work>>

\* A saved dialog closes, whichever is open by now, and its list is reloaded.
DeliverSave(r) ==
    /\ r.op \in {"saveChannel", "saveSchedule"} /\ r.phase = "ok"
    /\ chModal' = IF r.op = "saveChannel" THEN ClosedChannel ELSE chModal
    /\ scModal' = IF r.op = "saveSchedule" THEN ClosedSchedule ELSE scModal
    /\ Swap(r, {IF r.op = "saveChannel" THEN "channels" ELSE "schedules"})
    /\ UNCHANGED <<daemonVars, listVars, restore, news, work>>

DeliverCommand(r) ==
    /\ r.phase = "ok" /\ r.op \in {"deleteChannel", "toggle", "run", "deleteSchedule", "restore"}
    /\ Swap(r, CASE r.op = "deleteChannel" -> {"channels"}
                 [] r.op = "restore" -> {"channels", "schedules", "runs"}
                 [] OTHER -> {"schedules"})
    /\ UNCHANGED <<daemonVars, pageVars, news, work>>

\* The rows are shown whatever channel is chosen by now (what a closed drawer
\* holds is forgotten when it opens: openRestore loads again).
DeliverObjects(r) ==
    /\ r.op = "objects" /\ r.phase = "ok" /\ Swap(r, {})
    /\ restore' = IF restore.open THEN [restore EXCEPT !.objects = r.id, !.loading = FALSE] ELSE restore
    /\ UNCHANGED <<daemonVars, listVars, chModal, scModal, news, work>>

\* A message; the lists keep what they show.
DeliverFailure(r) ==
    /\ r.phase = "failed" /\ Swap(r, {})
    /\ restore' = IF r.op = "objects" THEN [restore EXCEPT !.loading = FALSE] ELSE restore
    /\ UNCHANGED <<daemonVars, listVars, chModal, scModal, news, work>>

\* useEventSubscription(["backup.run"]).
HearRun ==
    /\ news > 0 /\ news' = news - 1 /\ Ask({Reload("schedules"), Reload("runs")})
    /\ UNCHANGED <<daemonVars, pageVars, work>>

\* The refresh button of the history.
RefreshRuns ==
    /\ Unmasked /\ Work /\ Ask({Reload("runs")})
    /\ UNCHANGED <<daemonVars, pageVars, news>>

-----------------------------------------------------------------------------
User ==
    \/ OpenChannel("", NoChannel)
    \/ \E i \in DOMAIN channels : OpenChannel(i, FormOf(channels[i])) \/ DeleteChannel(i)
    \/ CloseChannel \/ SaveChannel
    \/ \E kind \in Kinds, addr \in Addresses \cup {""}, secret \in {"", "new"} :
          TypeChannel([kind |-> kind, addr |-> addr, secret |-> secret])
    \/ \E s \in SchedIds : OpenSchedule(s)
          \/ \E op \in {"toggle", "run", "deleteSchedule"} : OnSchedule(op, s)
    \/ \E c \in ChanIds, on \in BOOLEAN : TypeSchedule(c, on)
    \/ SaveSchedule
    \/ \E c \in ChanIds : OpenRestore(c) \/ PickChannel(c)
    \/ CloseRestore \/ Restore \/ RefreshRuns
Daemon ==
    \/ \E r \in requests :
          \/ ServeList(r) \/ ServeSaveChannel(r) \/ ServeDeleteChannel(r) \/ ServeSchedule(r)
          \/ ServeRun(r) \/ RefuseRun(r) \/ ServeObjects(r)
          \/ ServeRestore(r) \/ Lose(r)
    \/ \E s \in SchedIds : CronFires(s) \/ Job(s)
Arrive ==
    \/ \E r \in requests :
          \/ DeliverList(r) \/ DeliverSave(r) \/ DeliverCommand(r)
          \/ DeliverObjects(r) \/ DeliverFailure(r)
    \/ HearRun
Next == User \/ Daemon \/ Arrive

Spec == Init /\ [][Next]_vars

-----------------------------------------------------------------------------
TypeOK ==
    /\ DOMAIN chans \subseteq ChanIds /\ DOMAIN scheds \subseteq SchedIds
    /\ job \in [SchedIds -> {"none", "marked", "working", "recorded", "published"}]
    /\ chModal.form.kind \in Kinds /\ chModal.editing \in ChanIds \cup {""}
    /\ restore.chan \in ChanIds \cup {""} /\ news \in Nat

\* The secret the daemon keeps for a channel is the one last typed for it in
\* its kind, through edits that leave the field blank, changes of kind, a
\* second edit of the same channel on its way, and restores of archives
\* without secrets.
SecretIsLastTyped == \A i \in DOMAIN chans : chans[i].secret = typed[i]

\* At rest, with nothing on its way and no job, no row says that it runs.
\* Violated: launch publishes the end of a job before it unmarks it, and the
\* page asks only then.
RunningClears ==
    requests = {} /\ news = 0 /\ (\A s \in SchedIds : job[s] = "none") =>
        \A s \in DOMAIN schedules : ~schedules[s].running

\* The archives the drawer offers are of the channel it names.  Violated: the
\* answer for the channel chosen before also fills the table.
ObjectsAreOfChannel ==
    restore.open /\ restore.objects # "" /\ ~restore.loading => restore.objects = restore.chan

\* A restore brings back an archive of the channel it asks.  Violated likewise.
RestoreIsOfChannel == \A r \in requests : r.op = "restore" => r.of = r.id

\* A toggle turns the switch the user saw.  Violated by a second click, or a
\* stale row: the daemon flips what it has.
ToggleTurnsShown ==
    \A r \in requests : r.op = "toggle" /\ r.phase = "sent" /\ r.id \in DOMAIN scheds =>
        scheds[r.id].on = r.shown

\* An answer closes a dialog only with nothing unsaved in it.  Violated: a
\* dialog opened after the first was cancelled in mid-save is closed by that save.
AnswerClosesOwn ==
    [][\A r \in requests :
          r.op = "saveChannel" /\ r \notin requests' /\ r.phase = "ok" /\ chModal.open
            => r.id = chModal.editing /\ r.input = chModal.form]_vars
=============================================================================
