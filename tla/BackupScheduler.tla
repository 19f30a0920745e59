-------------------------- MODULE BackupScheduler --------------------------
(***************************************************************************)
(* Scheduled backups: the scheduler of internal/backup/scheduler.go, the   *)
(* handlers of internal/api/backup.go that edit channels and schedules and *)
(* reload it, and the parts of internal/manager/meta.go they store them    *)
(* in.                                                                     *)
(*                                                                         *)
(* A job is launched by the cron registry, with the schedule as it was at  *)
(* the last reload, or by hand, with the schedule as it was looked up.  It *)
(* works on that copy to its end, while handlers edit the store.  The      *)
(* store and the scheduler have a lock each; every access under one is an  *)
(* action.                                                                 *)
(*                                                                         *)
(* A schedule is its channel, its pool and whether it is enabled.  The     *)
(* pool stands for the pattern of the object keys it produces: what        *)
(* scopeSignature returns and objectMatcher matches.  Ids are drawn at     *)
(* random in the code, so a new id is given once only.  Two uploads of one *)
(* pool within a second would have one key; here each has its own.         *)
(***************************************************************************)
EXTENDS Naturals, FiniteSets

CONSTANTS
    Callers,     \* HTTP handlers
    Schedules,   \* schedule ids
    Channels,    \* channel ids
    Pools,       \* patterns of object keys
    Jobs,        \* slots for the goroutines of launch
    Boot,        \* the store meta.json holds at boot
    Archives,    \* the stores that backup archives hold
    Retention,   \* how many backups a schedule keeps; 0 keeps them all
    FlushFails,  \* TRUE if writing the metadata file may fail
    MaxWork,     \* bound on the edits begun and the jobs launched, together
    MaxEdits,    \* bound on the edits begun
    None         \* no schedule, no channel

Schedule == [id : Schedules, chan : Channels, pool : Pools, on : BOOLEAN]
Store    == [chans : SUBSET Channels, scheds : SUBSET Schedule]

ASSUME NoneAssumption  == None \notin Schedules \cup Channels
ASSUME StoreAssumption == Boot \in Store /\ Archives \subseteq Store
ASSUME BoundAssumption == Retention \in Nat /\ MaxWork \in Nat /\ MaxEdits \in Nat
ASSUME FlushAssumption == FlushFails \in BOOLEAN
ASSUME JobsAssumption  == IsFiniteSet(Jobs)

VARIABLES
    chans,      \* Backup.Channels
    scheds,     \* Backup.Schedules, as a set of records
    given,      \* the ids given so far
    edits,      \* how many edits were begun
    missed,     \* history: an edit was not flushed, nor reloaded since
    overlap,    \* history: two handlers have been at work at once
    cron,       \* the schedules armed in the cron.Cron that is ticking
    ticks,      \* cron entries that have fired and not called launch yet
    stopped,    \* s.stopped, and ~s.started, and s.cron is nil
    stopper,    \* where Stop is
    running,    \* s.running
    wg,         \* s.wg
    job,        \* job[j]: where a job is, its schedule, what it will delete
    launched,   \* how many jobs were launched
    runs,       \* how many run records were appended
    objects,    \* the backups on the channels
    puts,       \* how many were uploaded: the clock of the storage
    call        \* call[c]: where handler c is, and what it brings

storeVars == <<chans, scheds, given>>
cronVars  == <<cron, ticks, stopped, stopper>>
jobVars   == <<running, wg, job, launched>>
fileVars  == <<objects, puts>>
vars == <<storeVars, edits, missed, overlap, cronVars, jobVars, runs, fileVars,
          call>>

Object == [chan : Channels, pool : Pools, by : Schedules, time : 1..MaxWork]
NoSchedule == [id |-> None]
NoJob  == [at |-> "idle", sched |-> NoSchedule, victims |-> {}]
NoCall == [at |-> "idle", sched |-> NoSchedule, chan |-> None, new |-> FALSE]

TypeOK ==
    /\ chans \subseteq Channels /\ scheds \subseteq Schedule
    /\ given \subseteq Schedules \cup Channels
    /\ edits \in 0..MaxWork
    /\ missed \in BOOLEAN /\ overlap \in BOOLEAN /\ stopped \in BOOLEAN
    /\ cron \subseteq Schedule /\ ticks \subseteq Schedule
    /\ stopper \in {"up", "cancel", "wait", "drained", "late"}
    /\ running \subseteq Schedules
    /\ wg \in 0..Cardinality(Jobs)
    /\ job \in [Jobs ->
          [at : {"idle", "start", "put", "list", "prune", "record", "recover",
                 "unmark", "done"},
           sched : Schedule \cup {NoSchedule}, victims : SUBSET Object]]
    /\ launched \in 0..MaxWork /\ runs \in 0..MaxWork
    /\ objects \subseteq Object /\ puts \in 0..MaxWork
    /\ call \in [Callers ->
          [at : {"idle", "pool", "write", "drop", "reload", "launch"},
           sched : Schedule \cup {NoSchedule}, chan : Channels \cup {None},
           new : BOOLEAN]]

Enabled(ss) == {s \in ss : s.on}
Ids(ss)     == {s.id : s \in ss}
Stored(x)   == {s \in scheds : s.id = x}

\* After the Reload of Start, and before the server answers.
Init ==
    /\ chans = Boot.chans /\ scheds = Boot.scheds
    /\ given = UNION {a.chans \cup Ids(a.scheds) : a \in Archives \cup {Boot}}
    /\ edits = 0 /\ missed = FALSE /\ overlap = FALSE
    /\ cron = Enabled(Boot.scheds) /\ ticks = {} /\ stopped = FALSE
    /\ stopper = "up" /\ running = {} /\ wg = 0
    /\ job = [j \in Jobs |-> NoJob]
    /\ launched = 0 /\ runs = 0 /\ objects = {} /\ puts = 0
    /\ call = [c \in Callers |-> NoCall]

-----------------------------------------------------------------------------
(* The handlers that edit channels and schedules.  No lock is held across  *)
(* the steps of one.                                                       *)

At(c, state)   == call[c].at = state
Goto(c, state) == call' = [call EXCEPT ![c].at = state]
Return(c)      == call' = [call EXCEPT ![c] = NoCall]

Editing(c) == call[c].at \notin {"idle", "launch"}

Budget == edits + launched < MaxWork

BeginEdit(c) ==
    /\ At(c, "idle") /\ Budget /\ edits < MaxEdits
    /\ edits' = edits + 1
    /\ overlap' = (overlap \/ \E d \in Callers \ {c} : Editing(d))

\* An edit that is flushed is followed by a reload.  One that is not stays in
\* memory; the handler reports the error and returns.
FlushThenReload(c) ==
    \/ Goto(c, "reload") /\ UNCHANGED missed
    \/ FlushFails /\ Return(c) /\ missed' = TRUE

\* The id is drawn at random: no other handler has it.
CreateChannel(c, x) ==
    /\ BeginEdit(c) /\ x \notin given
    /\ chans' = chans \cup {x} /\ given' = given \cup {x}
    /\ UNCHANGED <<scheds, missed, cronVars, jobVars, runs, fileVars, call>>

\* validateSchedule asks for the channel, then lists the schedules: no two on
\* one channel may share a pool.
ScheduleCall(c, s, new) ==
    /\ BeginEdit(c) /\ s.chan \in chans
    /\ call' = [call EXCEPT ![c] = [@ EXCEPT !.at = "pool", !.sched = s, !.new = new]]
    /\ UNCHANGED <<chans, scheds, missed, cronVars, jobVars, runs, fileVars>>

CreateSchedule(c, s) ==
    /\ s.id \notin given /\ given' = given \cup {s.id}
    /\ ScheduleCall(c, s, TRUE)

UpdateSchedule(c, s) ==
    /\ s.id \in given /\ UNCHANGED given
    /\ ScheduleCall(c, s, FALSE)

Clash(s, t) == s.id # t.id /\ s.chan = t.chan /\ s.pool = t.pool

\* Mutant: the pool is not checked.
CheckPoolSkipped(c) ==
    /\ At(c, "pool") /\ Goto(c, "write")
    /\ UNCHANGED <<storeVars, edits, missed, overlap, cronVars, jobVars, runs,
                   fileVars>>

CheckPool(c) ==
    /\ At(c, "pool")
    /\ IF \E t \in scheds : Clash(call[c].sched, t) THEN Return(c) ELSE Goto(c, "write")
    /\ UNCHANGED <<storeVars, edits, missed, overlap, cronVars, jobVars, runs,
                   fileVars>>

\* An update of a schedule that is gone finds nothing and returns.
WriteSchedule(c) ==
    /\ At(c, "write")
    /\ LET s == call[c].sched IN
       IF call[c].new \/ Stored(s.id) # {}
       THEN scheds' = (scheds \ Stored(s.id)) \cup {s} /\ FlushThenReload(c)
       ELSE Return(c) /\ UNCHANGED <<scheds, missed>>
    /\ UNCHANGED <<chans, given, edits, overlap, cronVars, jobVars, runs, fileVars>>

ToggleSchedule(c, s) ==
    /\ BeginEdit(c) /\ s \in scheds
    /\ scheds' = (scheds \ {s}) \cup {[s EXCEPT !.on = ~@]}
    /\ FlushThenReload(c)
    /\ UNCHANGED <<chans, given, cronVars, jobVars, runs, fileVars>>

\* Mutant: the deletion is not followed by a reload.
DeleteScheduleOnly(c, s) ==
    /\ BeginEdit(c) /\ s \in scheds
    /\ scheds' = scheds \ {s}
    /\ UNCHANGED <<chans, given, missed, cronVars, jobVars, runs, fileVars, call>>

DeleteSchedule(c, s) ==
    /\ BeginEdit(c) /\ s \in scheds
    /\ scheds' = scheds \ {s}
    /\ FlushThenReload(c)
    /\ UNCHANGED <<chans, given, cronVars, jobVars, runs, fileVars>>

\* The schedules are listed, then the channel is deleted if none names it.
DeleteChannel(c, x) ==
    /\ BeginEdit(c) /\ \A s \in scheds : s.chan # x
    /\ call' = [call EXCEPT ![c] = [@ EXCEPT !.at = "drop", !.chan = x]]
    /\ UNCHANGED <<storeVars, missed, cronVars, jobVars, runs, fileVars>>

DropChannel(c) ==
    /\ At(c, "drop")
    /\ chans' = chans \ {call[c].chan}
    /\ Return(c)
    /\ UNCHANGED <<scheds, given, edits, missed, overlap, cronVars, jobVars, runs,
                   fileVars>>

\* Mutant: schedules without a channel are restored.
RestoreDangling(c, a) ==
    /\ BeginEdit(c) /\ a.chans \cup Ids(a.scheds) # {}
    /\ chans' = IF a.chans = {} THEN chans ELSE a.chans
    /\ scheds' = IF a.scheds = {} THEN scheds ELSE a.scheds
    /\ FlushThenReload(c)
    /\ UNCHANGED <<given, cronVars, jobVars, runs, fileVars>>

\* An empty list is left out of the archive and leaves what is there; then
\* schedules without a channel are dropped.
Restore(c, a) ==
    /\ BeginEdit(c) /\ a.chans \cup Ids(a.scheds) # {}
    /\ chans' = IF a.chans = {} THEN chans ELSE a.chans
    /\ scheds' = {s \in (IF a.scheds = {} THEN scheds ELSE a.scheds) : s.chan \in chans'}
    /\ FlushThenReload(c)
    /\ UNCHANGED <<given, cronVars, jobVars, runs, fileVars>>

\* Under s.mu; the store's lock is taken inside.  After Stop it arms nothing.
Reload(c) ==
    /\ At(c, "reload") /\ Return(c)
    /\ IF stopped
       THEN UNCHANGED <<cron, missed>>
       ELSE cron' = Enabled(scheds) /\ missed' = FALSE
    /\ UNCHANGED <<storeVars, edits, overlap, ticks, stopped, stopper, jobVars,
                   runs, fileVars>>

-----------------------------------------------------------------------------
(* Launching.                                                              *)

\* Mutants: launch without the guard against a second job, or against Stop.
RefusedStopped(s) == stopped
RefusedRunning(s) == s.id \in running

Refused(s) == stopped \/ s.id \in running

\* launch, under s.mu, and the start of its goroutine.
Launch(s) ==
    /\ IF Refused(s)
       THEN UNCHANGED jobVars
       ELSE /\ Budget
            /\ running' = running \cup {s.id} /\ wg' = wg + 1
            /\ launched' = launched + 1
            /\ \E j \in Jobs :
                  /\ job[j].at = "idle"
                  /\ job' = [job EXCEPT ![j] =
                        [at |-> "start", sched |-> s, victims |-> {}]]

\* A cron entry fires; its goroutine calls launch later, whatever a reload or
\* Stop does to the cron in between.
CronFires(s) ==
    /\ s \in cron
    /\ ticks' = ticks \cup {s}
    /\ UNCHANGED <<storeVars, edits, missed, overlap, cron, stopped, stopper,
                   jobVars, runs, fileVars, call>>

CronLaunch(s) ==
    /\ s \in ticks
    /\ ticks' = ticks \ {s}
    /\ Launch(s)
    /\ UNCHANGED <<storeVars, edits, missed, overlap, cron, stopped, stopper, runs,
                   fileVars, call>>

\* RunNow looks the schedule up and then launches what it found.
RunNow(c, s) ==
    /\ At(c, "idle") /\ Budget /\ s \in scheds
    /\ call' = [call EXCEPT ![c] = [@ EXCEPT !.at = "launch", !.sched = s]]
    /\ UNCHANGED <<storeVars, edits, missed, overlap, cronVars, jobVars, runs,
                   fileVars>>

RunLaunch(c) ==
    /\ At(c, "launch") /\ Return(c)
    /\ Launch(call[c].sched)
    /\ UNCHANGED <<storeVars, edits, missed, overlap, cronVars, runs, fileVars>>

-----------------------------------------------------------------------------
(* The goroutine of launch.                                                *)

JobAt(j, state) == job[j].at = state
JobTo(j, state) == job' = [job EXCEPT ![j].at = state]

JobElsewhere == <<storeVars, edits, missed, overlap, cronVars, launched, call>>

\* The channel is looked up, the uploader made and the archive built.
JobStart(j) ==
    /\ JobAt(j, "start")
    /\ \/ job[j].sched.chan \in chans /\ JobTo(j, "put")
       \/ JobTo(j, "record")
    /\ UNCHANGED <<JobElsewhere, running, wg, runs, fileVars>>

\* An upload that fails leaves nothing.
JobPut(j) ==
    /\ JobAt(j, "put")
    /\ LET s == job[j].sched IN
       \/ /\ puts' = puts + 1
          /\ objects' = objects \cup
                {[chan |-> s.chan, pool |-> s.pool, by |-> s.id, time |-> puts + 1]}
          /\ JobTo(j, "list")
       \/ JobTo(j, "record") /\ UNCHANGED fileVars
    /\ UNCHANGED <<JobElsewhere, running, wg, runs>>

\* What the matcher of s matches on its channel.
PoolOf(s) == {o \in objects : o.chan = s.chan /\ o.pool = s.pool}

Newer(o, os) == {p \in os : p.time > o.time}

\* Mutant: newest first.
SurplusNewest(os) == {o \in os : Cardinality(os \ Newer(o, os)) > Retention}

\* mine[:len(mine)-Retention], oldest first.
Surplus(os) == {o \in os : Cardinality(Newer(o, os)) >= Retention}

\* The surplus of one listing is fixed here; it is deleted later.
JobList(j) ==
    /\ JobAt(j, "list")
    /\ \/ /\ Retention > 0
          /\ job' = [job EXCEPT ![j].at = "prune",
                                ![j].victims = Surplus(PoolOf(job[j].sched))]
       \/ JobTo(j, "record")
    /\ UNCHANGED <<JobElsewhere, running, wg, runs, fileVars>>

\* A delete that fails is passed over.
JobPrune(j) ==
    /\ JobAt(j, "prune")
    /\ IF job[j].victims = {}
       THEN JobTo(j, "record") /\ UNCHANGED objects
       ELSE LET o == CHOOSE v \in job[j].victims : Newer(v, job[j].victims) = job[j].victims \ {v} IN
            /\ job' = [job EXCEPT ![j].victims = @ \ {o}]
            /\ objects' \in {objects, objects \ {o}}
    /\ UNCHANGED <<JobElsewhere, running, wg, runs, puts>>

\* The uploader is third-party code: it may panic.
JobPanics(j) ==
    /\ job[j].at \in {"start", "put", "list", "prune"}
    /\ job' = [job EXCEPT ![j].at = "recover", ![j].victims = {}]
    /\ UNCHANGED <<JobElsewhere, running, wg, runs, fileVars>>

\* Mutant: a panic is recovered and not recorded.
JobRecordNoPanic(j) ==
    /\ job[j].at \in {"record", "recover"}
    /\ runs' = IF JobAt(j, "recover") THEN runs ELSE runs + 1
    /\ JobTo(j, "unmark")
    /\ UNCHANGED <<JobElsewhere, running, wg, fileVars>>

\* AppendBackupRun, of the result or of the panic.
JobRecord(j) ==
    /\ job[j].at \in {"record", "recover"}
    /\ runs' = runs + 1
    /\ JobTo(j, "unmark")
    /\ UNCHANGED <<JobElsewhere, running, wg, fileVars>>

\* Mutant: the mark is left behind.
JobUnmarkForgotten(j) ==
    /\ JobAt(j, "unmark")
    /\ JobTo(j, "done")
    /\ UNCHANGED <<JobElsewhere, running, wg, runs, fileVars>>

JobUnmark(j) ==
    /\ JobAt(j, "unmark")
    /\ running' = running \ {job[j].sched.id}
    /\ JobTo(j, "done")
    /\ UNCHANGED <<JobElsewhere, wg, runs, fileVars>>

\* Mutant: Done is called twice.
JobDoneTwice(j) ==
    /\ JobAt(j, "done")
    /\ wg' = wg - 2
    /\ job' = [job EXCEPT ![j] = NoJob]
    /\ UNCHANGED <<JobElsewhere, running, runs, fileVars>>

JobDone(j) ==
    /\ JobAt(j, "done")
    /\ wg' = wg - 1
    /\ job' = [job EXCEPT ![j] = NoJob]
    /\ UNCHANGED <<JobElsewhere, running, runs, fileVars>>

JobStep(j) ==
    \/ JobStart(j) \/ JobPut(j) \/ JobList(j) \/ JobPrune(j)
    \/ JobRecord(j) \/ JobUnmark(j) \/ JobDone(j)

-----------------------------------------------------------------------------
(* Stop, called by main when the server is down.                           *)

StopElsewhere ==
    <<storeVars, edits, missed, overlap, ticks, jobVars, runs, fileVars, call>>

StopClaim ==
    /\ stopper = "up" /\ stopper' = "cancel"
    /\ stopped' = TRUE
    /\ UNCHANGED <<StopElsewhere, cron>>

\* c.Stop and rootCancel.  An upload whose context is done fails, which
\* JobPut allows at any time.
StopCron ==
    /\ stopper = "cancel" /\ stopper' = "wait"
    /\ cron' = {}
    /\ UNCHANGED <<StopElsewhere, stopped>>

StopDrained ==
    /\ stopper = "wait" /\ wg = 0
    /\ stopper' = "drained"
    /\ UNCHANGED <<StopElsewhere, cron, stopped>>

\* After five seconds.
StopLate ==
    /\ stopper = "wait" /\ stopper' = "late"
    /\ UNCHANGED <<StopElsewhere, cron, stopped>>

-----------------------------------------------------------------------------
Edit(c) ==
    \/ \E x \in Channels : CreateChannel(c, x) \/ DeleteChannel(c, x)
    \/ \E s \in Schedule : CreateSchedule(c, s) \/ UpdateSchedule(c, s)
    \/ CheckPool(c) \/ WriteSchedule(c) \/ DropChannel(c) \/ Reload(c)
    \/ \E s \in scheds : ToggleSchedule(c, s) \/ DeleteSchedule(c, s)
    \/ \E a \in Archives : Restore(c, a)

Next ==
    \/ \E c \in Callers : Edit(c) \/ RunLaunch(c) \/ \E s \in scheds : RunNow(c, s)
    \/ \E s \in cron : CronFires(s)
    \/ \E s \in ticks : CronLaunch(s)
    \/ \E j \in Jobs : JobStep(j) \/ JobPanics(j)
    \/ StopClaim \/ StopCron \/ StopDrained \/ StopLate

Spec == Init /\ [][Next]_vars

-----------------------------------------------------------------------------
(* Properties.                                                             *)

\* launch has marked the job in s.running, and it has not been unmarked.
Marked(j) == job[j].at \notin {"idle", "done"}

\* No schedule has two jobs at once, by cron, by hand, or restored from an
\* archive while the job of the schedule it replaces goes on (the guard of
\* launch, scheduler.go 200); and a schedule is marked only while it has one,
\* so that it can run again after a failure or a panic.
OneJobPerSchedule ==
    /\ running = {job[j].sched.id : j \in {i \in Jobs : Marked(i)}}
    /\ \A i, j \in Jobs :
          i # j /\ Marked(i) /\ Marked(j) => job[i].sched.id # job[j].sched.id

\* Once Stop has returned drained, no goroutine of launch is left, and none
\* comes: not by a cron entry that fired before, nor by a slow handler.
StopQuiesces == stopper = "drained" => \A j \in Jobs : JobAt(j, "idle")

\* Every job that was launched is in the history once, or will append itself:
\* one that fails, that panics, or that Stop does not wait for.
RunsRecorded ==
    launched = runs + Cardinality({j \in Jobs :
                          job[j].at \notin {"idle", "unmark", "done"}})

\* With no edit between its store section and its reload, and none that could
\* not be flushed, the ticking cron has what the store enables, and nothing
\* after Stop: handlers that reload in another order than they wrote included.
CronMatchesStore ==
    (\A c \in Callers : ~At(c, "reload")) /\ ~missed /\ stopper # "cancel"
        => cron = IF stopped THEN {} ELSE Enabled(scheds)

\* While no two edits have overlapped, every schedule has its channel: over
\* deletions of channels and restored archives.
NoDangling == ~overlap => \A s \in scheds : s.chan \in chans

\* While no two edits have overlapped, no two schedules share a pool.
PoolsApart == ~overlap => \A s, t \in scheds : ~Clash(s, t)

\* A deletion leaves the Retention newest of the pool, whatever was uploaded,
\* and deleted by other jobs, since the surplus was listed.
NewestKept ==
    [][\A o \in objects \ objects' :
          Cardinality({p \in Newer(o, objects') : p.chan = o.chan /\ p.pool = o.pool})
              >= Retention]_vars

\* What the code claims and does not do (the README quotes it).  Retention
\* deletes what its own schedule has uploaded (scheduler.go 309).
DeletesOwn ==
    [][\A j \in Jobs : \A o \in job[j].victims \ job'[j].victims :
          o \notin objects' => o.by = job[j].sched.id \/ o \notin objects]_vars

\* No schedule is left without its channel, overlapping edits or not.
NeverDangling == \A s \in scheds : s.chan \in chans

\* An edit takes effect with the next reload, flushed or not.
EditsTakeEffect ==
    (\A c \in Callers : ~At(c, "reload")) /\ ~stopped => cron = Enabled(scheds)

-----------------------------------------------------------------------------
(* Strengthenings: what has to hold besides for the properties above to be *)
(* inductive.                                                              *)

\* Jobs and handlers past their first step carry a schedule.
Carried ==
    /\ \A j \in Jobs : ~JobAt(j, "idle") => job[j].sched \in Schedule
    /\ \A c \in Callers :
          call[c].at \in {"pool", "write", "launch"} => call[c].sched \in Schedule

Busy       == {j \in Jobs : ~JobAt(j, "idle")}
Unrecorded == {j \in Jobs : job[j].at \notin {"idle", "unmark", "done"}}
Unput      == {j \in Jobs : job[j].at \in {"start", "put"}}

\* The counters count: the WaitGroup the goroutines, and the uploads never
\* more than the jobs.
Counted ==
    /\ wg = Cardinality(Busy)
    /\ launched = runs + Cardinality(Unrecorded)
    /\ puts + Cardinality(Unput) <= launched
    /\ edits + launched <= MaxWork

\* What Stop has done so far stays done.
Stopping ==
    /\ stopped <=> stopper # "up"
    /\ stopper \in {"wait", "drained", "late"} => cron = {}
    /\ stopper = "drained" => wg = 0

\* Before Stop, the cron is what the store enables, but for an edit that has
\* still to be reloaded or was not flushed.
CronFollows ==
    (\A c \in Callers : ~At(c, "reload")) /\ ~missed /\ ~stopped
        => cron = Enabled(scheds)

\* While no two edits have overlapped, what a handler has checked of the store
\* still holds when it writes.
CheckedStays ==
    ~overlap => \A c \in Callers :
        /\ \A d \in Callers \ {c} : ~(Editing(c) /\ Editing(d))
        /\ call[c].at \in {"pool", "write"} => call[c].sched.chan \in chans
        /\ At(c, "write") => \A t \in scheds : ~Clash(call[c].sched, t)
        /\ At(c, "drop") => \A s \in scheds : s.chan # call[c].chan

\* The backups there are, and those a job is about to delete.
Known == objects \cup UNION {job[j].victims : j \in Jobs}

\* No two uploads have one time, and none is ahead of the clock.
Dated ==
    /\ IsFiniteSet(objects)
    /\ \A o \in Known : o.time <= puts
    /\ \A o, p \in Known : o.time = p.time => o = p

\* What a job is about to delete has enough newer ones in its pool now,
\* whatever the others have uploaded and deleted since the listing.
Ripe ==
    \A j \in Jobs : \A v \in job[j].victims :
        Cardinality(Newer(v, PoolOf(v))) >= Retention
=============================================================================
