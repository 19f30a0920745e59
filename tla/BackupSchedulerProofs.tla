----------------------- MODULE BackupSchedulerProofs ------------------------
(***************************************************************************)
(* Theorems about BackupScheduler, for every set of handlers, schedules,   *)
(* channels, pools and jobs, every retention and every bound on the work.  *)
(*                                                                         *)
(* The first part is about the jobs: their counters, their marks and what  *)
(* they delete.  The second is about Stop and the cron, the third about    *)
(* the store while no two edits overlap.                                   *)
(***************************************************************************)
EXTENDS BackupScheduler, TLAPS, FiniteSetTheorems, WellFoundedInduction

JobPCs  == {"idle", "start", "put", "list", "prune", "record", "recover",
            "unmark", "done"}
CallPCs == {"idle", "pool", "write", "drop", "reload", "launch"}

-----------------------------------------------------------------------------
(* Frames: what each kind of step leaves alone.                            *)

\* An edit touches no job, no backup and not Stop; it takes one from the
\* budget or nothing.
LEMMA EditFrame ==
    ASSUME NEW c \in Callers, Edit(c)
    PROVE  /\ UNCHANGED <<jobVars, runs, fileVars, ticks, stopped, stopper>>
           /\ edits' = edits \/ (edits' = edits + 1 /\ Budget)
BY DEF Edit, CreateChannel, DeleteChannel, CreateSchedule, UpdateSchedule,
   ScheduleCall, CheckPool, WriteSchedule, DropChannel, Reload, ToggleSchedule,
   DeleteSchedule, Restore, BeginEdit, cronVars, jobVars, fileVars, storeVars

\* Neither does Stop, nor a handler or a cron entry that is about to launch.
LEMMA OtherFrame ==
    ASSUME \/ StopClaim \/ StopCron \/ StopDrained \/ StopLate
           \/ \E s \in cron : CronFires(s)
           \/ \E c \in Callers : \E s \in scheds : RunNow(c, s)
    PROVE  UNCHANGED <<storeVars, edits, missed, overlap, jobVars, runs, fileVars>>
BY DEF StopClaim, StopCron, StopDrained, StopLate, StopElsewhere, CronFires,
   RunNow, jobVars, fileVars, storeVars

\* A step of a job is about its own slot: it moves on, and keeps its schedule
\* until it is done.
JobMoves(j) ==
    /\ UNCHANGED <<storeVars, edits, missed, overlap, cronVars, launched, call>>
    /\ \A i \in Jobs \ {j} : job'[i] = job[i]
    /\ ~JobAt(j, "idle")
    /\ \/ job'[j] = NoJob
       \/ /\ job'[j].sched = job[j].sched
          /\ job'[j].at \in JobPCs \ {"idle"}

LEMMA JobFrame ==
    ASSUME TypeOK, NEW j \in Jobs, JobStep(j) \/ JobPanics(j)
    PROVE  JobMoves(j)
<1>. USE DEF JobMoves, JobElsewhere, JobAt, JobTo, JobPCs, TypeOK
<1>1. CASE JobStart(j)
  BY <1>1 DEF JobStart
<1>2. CASE JobPut(j)
  BY <1>2 DEF JobPut
<1>3. CASE JobList(j)
  BY <1>3 DEF JobList
<1>4. CASE JobPrune(j)
  BY <1>4 DEF JobPrune
<1>5. CASE JobRecord(j)
  BY <1>5 DEF JobRecord
<1>6. CASE JobUnmark(j)
  BY <1>6 DEF JobUnmark
<1>7. CASE JobDone(j)
  BY <1>7 DEF JobDone
<1>8. CASE JobPanics(j)
  BY <1>8 DEF JobPanics
<1>. QED
  BY <1>1, <1>2, <1>3, <1>4, <1>5, <1>6, <1>7, <1>8 DEF JobStep

-----------------------------------------------------------------------------
(* Counting jobs.                                                          *)

LEMMA JobSets ==
    ASSUME NEW S, S \subseteq Jobs
    PROVE  /\ IsFiniteSet(S)
           /\ Cardinality(S) \in Nat
           /\ Cardinality(S) <= Cardinality(Jobs)
BY JobsAssumption, FS_Subset, FS_CardinalityType

LEMMA JobIn ==
    ASSUME NEW S, S \subseteq Jobs, NEW j, j \notin S
    PROVE  Cardinality(S \cup {j}) = Cardinality(S) + 1
BY JobSets, FS_AddElement

LEMMA JobOut ==
    ASSUME NEW S, S \subseteq Jobs, NEW j, j \in S
    PROVE  /\ Cardinality(S \ {j}) = Cardinality(S) - 1
           /\ Cardinality(S) >= 1
<1>1. Cardinality(S \ {j}) = Cardinality(S) - 1
  BY JobSets, FS_RemoveElement
<1>2. Cardinality(S \ {j}) \in Nat /\ Cardinality(S) \in Nat
  BY JobSets
<1>. QED
  BY <1>1, <1>2

\* When one slot changes, each of the counted sets gains or loses at most it.
LEMMA Recount ==
    ASSUME NEW j \in Jobs, \A i \in Jobs \ {j} : job'[i] = job[i]
    PROVE  /\ Busy' = IF job'[j].at # "idle" THEN Busy \cup {j} ELSE Busy \ {j}
           /\ Unrecorded' = IF job'[j].at \notin {"idle", "unmark", "done"}
                            THEN Unrecorded \cup {j} ELSE Unrecorded \ {j}
           /\ Unput' = IF job'[j].at \in {"start", "put"}
                       THEN Unput \cup {j} ELSE Unput \ {j}
BY DEF Busy, Unrecorded, Unput, JobAt

LEMMA SetsOfJobs ==
    Busy \subseteq Jobs /\ Unrecorded \subseteq Jobs /\ Unput \subseteq Jobs
BY DEF Busy, Unrecorded, Unput

\* Where a job is when it has counted itself.
LEMMA SameJobs ==
    ASSUME job' = job
    PROVE  Busy' = Busy /\ Unrecorded' = Unrecorded /\ Unput' = Unput
BY DEF Busy, Unrecorded, Unput, JobAt

\* A launch that is not refused: which slot it takes, and what it marks.
Launched(s) ==
    /\ ~Refused(s) /\ Budget
    /\ running' = running \cup {s.id} /\ wg' = wg + 1 /\ launched' = launched + 1
    /\ \E j \in Jobs :
          /\ JobAt(j, "idle")
          /\ job' = [job EXCEPT ![j] =
                [at |-> "start", sched |-> s, victims |-> {}]]

LEMMA LaunchCases ==
    ASSUME NEW s, Launch(s)
    PROVE  UNCHANGED jobVars \/ Launched(s)
BY DEF Launch, Launched, JobAt

\* Each step keeps the counters exact.
LEMMA CountedStep ==
    ASSUME TypeOK, Counted, [Next]_vars
    PROVE  Counted'
<1>. USE DEF Counted
<1>a. /\ wg \in Nat /\ launched \in Nat /\ runs \in Nat /\ puts \in Nat
      /\ edits \in Nat /\ MaxWork \in Nat
  BY BoundAssumption, JobSets DEF TypeOK
<1>b. /\ Cardinality(Busy) \in Nat /\ Cardinality(Unrecorded) \in Nat
      /\ Cardinality(Unput) \in Nat
  BY JobSets, SetsOfJobs
<1>1. ASSUME UNCHANGED <<jobVars, runs, puts>>,
             edits' = edits \/ (edits' = edits + 1 /\ Budget)
      PROVE  Counted'
  BY <1>a, <1>1, SameJobs DEF jobVars, Budget
<1>2. ASSUME NEW s, Launch(s), UNCHANGED <<edits, runs, puts>>
      PROVE  Counted'
  <2>1. CASE UNCHANGED jobVars
    BY <1>1, <1>2, <2>1
  <2>2. CASE Launched(s)
    <3>1. PICK j \in Jobs :
             /\ JobAt(j, "idle")
             /\ job' = [job EXCEPT ![j] =
                   [at |-> "start", sched |-> s, victims |-> {}]]
      BY <2>2 DEF Launched
    <3>2. /\ job'[j].at = "start"
          /\ \A i \in Jobs \ {j} : job'[i] = job[i]
      BY <3>1 DEF TypeOK
    <3>3. j \notin Busy /\ j \notin Unrecorded /\ j \notin Unput
      BY <3>1 DEF Busy, Unrecorded, Unput, JobAt
    <3>4. /\ Busy' = Busy \cup {j} /\ Unrecorded' = Unrecorded \cup {j}
          /\ Unput' = Unput \cup {j}
      BY <3>2, Recount
    <3>5. /\ Cardinality(Busy') = Cardinality(Busy) + 1
          /\ Cardinality(Unrecorded') = Cardinality(Unrecorded) + 1
          /\ Cardinality(Unput') = Cardinality(Unput) + 1
      BY <3>3, <3>4, SetsOfJobs, JobIn
    <3>. QED
      BY <1>a, <1>b, <1>2, <2>2, <3>5 DEF Launched, Budget
  <2>. QED
    BY <1>2, <2>1, <2>2, LaunchCases
<1>3. ASSUME NEW j \in Jobs, JobStep(j) \/ JobPanics(j)
      PROVE  Counted'
  <2>1. /\ UNCHANGED <<edits, launched>> /\ ~JobAt(j, "idle")
        /\ \A i \in Jobs \ {j} : job'[i] = job[i]
    BY <1>3, JobFrame DEF JobMoves
  <2>2. j \in Busy
    BY <2>1 DEF Busy
  <2>3. ASSUME job'[j].at # "idle", wg' = wg
        PROVE  wg' = Cardinality(Busy')
    <3>1. Busy' = Busy
      BY <2>1, <2>2, <2>3, Recount
    <3>. QED
      BY <2>3, <3>1
  <2>4. ASSUME runs' = runs,
               j \in Unrecorded <=> job'[j].at \notin {"idle", "unmark", "done"}
        PROVE  launched' = runs' + Cardinality(Unrecorded')
    <3>1. CASE j \in Unrecorded
      <4>1. Unrecorded' = Unrecorded \cup {j}
        BY <2>1, <2>4, <3>1, Recount
      <4>. QED
        BY <2>1, <2>4, <3>1, <4>1, Zenon
    <3>2. CASE j \notin Unrecorded
      <4>1. Unrecorded' = Unrecorded \ {j}
        BY <2>1, <2>4, <3>2, Recount
      <4>2. Unrecorded' = Unrecorded
        BY <3>2, <4>1
      <4>. QED
        BY <2>1, <2>4, <4>2
    <3>. QED
      BY <3>1, <3>2
  <2>5. ASSUME puts' = puts, job'[j].at \notin {"start", "put"} \/ j \in Unput
        PROVE  puts' + Cardinality(Unput') <= launched'
    <3>1. Unput' = Unput \/ (Unput' = Unput \ {j} /\ j \in Unput)
      <4>1. CASE j \in Unput
        BY <2>1, <2>5, <4>1, Recount
      <4>2. CASE j \notin Unput
        <5>1. Unput' = Unput \ {j}
          BY <2>1, <2>5, <4>2, Recount
        <5>. QED
          BY <4>2, <5>1
      <4>. QED
        BY <4>1, <4>2
    <3>2. Cardinality(Unput') <= Cardinality(Unput) /\ Cardinality(Unput') \in Nat
      BY <1>b, <3>1, JobOut, JobSets, SetsOfJobs
    <3>. QED
      BY <1>a, <1>b, <2>1, <2>5, <3>2
  <2>6. CASE JobStart(j) \/ JobList(j) \/ JobPrune(j) \/ JobPanics(j)
    <3>1. /\ job'[j].at \notin {"idle", "unmark", "done"}
          /\ job[j].at \in {"start", "list", "put", "prune"}
          /\ job'[j].at \in {"start", "put"} => job[j].at = "start"
          /\ UNCHANGED <<wg, runs, puts>>
      BY <2>6 DEF TypeOK, JobStart, JobList, JobPrune, JobPanics, JobAt, JobTo, fileVars
    <3>2. j \in Unrecorded /\ (job'[j].at \in {"start", "put"} => j \in Unput)
      BY <3>1 DEF Unrecorded, Unput
    <3>. QED
      BY <2>1, <2>3, <2>4, <2>5, <3>1, <3>2
  <2>7. CASE JobPut(j)
    <3>1. /\ job'[j].at \in {"list", "record"} /\ job[j].at = "put"
          /\ UNCHANGED <<wg, runs>> /\ puts' \in {puts, puts + 1}
      BY <2>7 DEF TypeOK, JobPut, JobAt, JobTo, fileVars
    <3>2. j \in Unrecorded /\ j \in Unput
      BY <3>1 DEF Unrecorded, Unput
    <3>3. Unput' = Unput \ {j}
      BY <2>1, <3>1, Recount
    <3>4. Cardinality(Unput') = Cardinality(Unput) - 1
      BY <3>2, <3>3, JobOut, SetsOfJobs
    <3>. QED
      BY <1>a, <1>b, <2>1, <2>3, <2>4, <3>1, <3>2, <3>4
  <2>8. CASE JobRecord(j)
    <3>1. /\ job'[j].at = "unmark" /\ job[j].at \in {"record", "recover"}
          /\ UNCHANGED <<wg, puts>> /\ runs' = runs + 1
      BY <2>8 DEF TypeOK, JobRecord, JobAt, JobTo, fileVars
    <3>2. j \in Unrecorded
      BY <3>1 DEF Unrecorded
    <3>3. Unrecorded' = Unrecorded \ {j}
      BY <2>1, <3>1, Recount
    <3>4. Cardinality(Unrecorded') = Cardinality(Unrecorded) - 1
      BY <3>2, <3>3, JobOut, SetsOfJobs
    <3>. QED
      BY <1>a, <1>b, <2>1, <2>3, <2>5, <3>1, <3>4
  <2>9. CASE JobUnmark(j)
    <3>1. /\ job'[j].at = "done" /\ job[j].at = "unmark"
          /\ UNCHANGED <<wg, runs, puts>>
      BY <2>9 DEF TypeOK, JobUnmark, JobAt, JobTo, fileVars
    <3>2. j \notin Unrecorded
      BY <3>1 DEF Unrecorded
    <3>. QED
      BY <2>1, <2>3, <2>4, <2>5, <3>1, <3>2
  <2>10. CASE JobDone(j)
    <3>1. /\ job'[j].at = "idle" /\ job[j].at = "done"
          /\ UNCHANGED <<runs, puts>> /\ wg' = wg - 1
      BY <2>10 DEF TypeOK, JobDone, JobAt, NoJob, fileVars
    <3>2. j \notin Unrecorded
      BY <3>1 DEF Unrecorded
    <3>3. Busy' = Busy \ {j}
      BY <2>1, <3>1, Recount
    <3>4. Cardinality(Busy') = Cardinality(Busy) - 1
      BY <2>2, <3>3, JobOut, SetsOfJobs
    <3>. QED
      BY <1>a, <1>b, <2>1, <2>4, <2>5, <3>1, <3>2, <3>4
  <2>. QED
    BY <1>3, <2>6, <2>7, <2>8, <2>9, <2>10 DEF JobStep
<1>4. ASSUME NEW c \in Callers, Edit(c) PROVE Counted'
  BY <1>1, <1>4, EditFrame DEF fileVars
<1>5. ASSUME NEW c \in Callers, RunLaunch(c) PROVE Counted'
  BY <1>2, <1>5 DEF RunLaunch, fileVars
<1>6. ASSUME NEW s \in ticks, CronLaunch(s) PROVE Counted'
  BY <1>2, <1>6 DEF CronLaunch, fileVars
<1>7. ASSUME \/ StopClaim \/ StopCron \/ StopDrained \/ StopLate
             \/ \E s \in cron : CronFires(s)
             \/ \E c \in Callers : \E s \in scheds : RunNow(c, s)
      PROVE  Counted'
  BY <1>1, <1>7, OtherFrame DEF fileVars
<1>8. CASE UNCHANGED vars
  BY <1>1, <1>8 DEF vars, fileVars
<1>. QED
  BY <1>3, <1>4, <1>5, <1>6, <1>7, <1>8 DEF Next

-----------------------------------------------------------------------------
(* Types.  The counters stay in their bounds because they count.           *)

Typed == TypeOK /\ Carried

\* What the counters count is within the bounds.
LEMMA Bounds ==
    ASSUME TypeOK, Counted
    PROVE  /\ \A j \in Jobs : job[j].at \in {"start", "put"} => puts + 1 \in 1..MaxWork
           /\ \A j \in Jobs : job[j].at \in {"record", "recover"} => runs + 1 \in 0..MaxWork
           /\ \A j \in Jobs :
                 /\ JobAt(j, "idle") => wg + 1 \in 0..Cardinality(Jobs)
                 /\ ~JobAt(j, "idle") => wg - 1 \in 0..Cardinality(Jobs)
<1>a. /\ wg \in Nat /\ launched \in Nat /\ runs \in Nat /\ puts \in Nat
      /\ edits \in Nat /\ MaxWork \in Nat /\ launched <= MaxWork
      /\ Cardinality(Jobs) \in Nat
  BY BoundAssumption, JobSets DEF TypeOK
<1>b. /\ Cardinality(Busy) \in Nat /\ Cardinality(Unrecorded) \in Nat
      /\ Cardinality(Unput) \in Nat /\ Cardinality(Busy) <= Cardinality(Jobs)
  BY JobSets, SetsOfJobs
<1>1. ASSUME NEW j \in Jobs, job[j].at \in {"start", "put"}
      PROVE  puts + 1 \in 1..MaxWork
  <2>1. Cardinality(Unput) >= 1
    BY <1>1, JobOut, SetsOfJobs DEF Unput
  <2>. QED
    BY <1>a, <1>b, <2>1 DEF Counted
<1>2. ASSUME NEW j \in Jobs, job[j].at \in {"record", "recover"}
      PROVE  runs + 1 \in 0..MaxWork
  <2>1. j \in Unrecorded
    BY <1>2 DEF Unrecorded
  <2>2. Cardinality(Unrecorded) >= 1
    BY <2>1, JobOut, SetsOfJobs
  <2>. QED
    BY <1>a, <1>b, <2>2 DEF Counted
<1>3. ASSUME NEW j \in Jobs, JobAt(j, "idle")
      PROVE  wg + 1 \in 0..Cardinality(Jobs)
  <2>1. j \notin Busy /\ Busy \cup {j} \subseteq Jobs
    BY <1>3 DEF Busy
  <2>2. Cardinality(Busy \cup {j}) = Cardinality(Busy) + 1
    BY <2>1, JobIn, SetsOfJobs
  <2>3. Cardinality(Busy \cup {j}) <= Cardinality(Jobs)
    BY <2>1, JobSets
  <2>. QED
    BY <1>a, <1>b, <2>2, <2>3 DEF Counted
<1>4. ASSUME NEW j \in Jobs, ~JobAt(j, "idle")
      PROVE  wg - 1 \in 0..Cardinality(Jobs)
  <2>1. Cardinality(Busy) >= 1
    BY <1>4, JobOut, SetsOfJobs DEF Busy
  <2>. QED
    BY <1>a, <1>b, <2>1 DEF Counted
<1>. QED
  BY <1>1, <1>2, <1>3, <1>4

CallRecords == [at : CallPCs, sched : Schedule \cup {NoSchedule},
                chan : Channels \cup {None}, new : BOOLEAN]

\* A handler that returns, or goes on, touches its own call only.
LEMMA CallReturns ==
    ASSUME TypeOK, NEW c \in Callers, Return(c)
    PROVE  /\ call' \in [Callers -> CallRecords]
           /\ call'[c].at = "idle" /\ \A d \in Callers \ {c} : call'[d] = call[d]
<1>1. NoCall \in CallRecords /\ NoCall.at = "idle"
  BY DEF NoCall, CallRecords, CallPCs
<1>2. call \in [Callers -> CallRecords]
  BY DEF TypeOK, CallRecords, CallPCs
<1>. QED
  BY <1>1, <1>2 DEF Return

LEMMA CallGoes ==
    ASSUME TypeOK, NEW c \in Callers, NEW state \in CallPCs, Goto(c, state)
    PROVE  /\ call' \in [Callers -> CallRecords]
           /\ call'[c].at = state /\ call'[c].sched = call[c].sched
           /\ call'[c].chan = call[c].chan /\ call'[c].new = call[c].new
           /\ \A d \in Callers \ {c} : call'[d] = call[d]
BY DEF TypeOK, CallRecords, CallPCs, Goto

\* An edit that is flushed or not: the handler goes to its reload or returns.
LEMMA FlushCases ==
    ASSUME TypeOK, NEW c \in Callers, FlushThenReload(c)
    PROVE  /\ call' \in [Callers -> CallRecords]
           /\ \A d \in Callers \ {c} : call'[d] = call[d]
           /\ \/ call'[c].at = "reload" /\ missed' = missed
              \/ call'[c].at = "idle" /\ missed' = TRUE
BY CallReturns, CallGoes DEF FlushThenReload, CallPCs

\* What the edits have to keep of the types, one by one.
LEMMA TypedParts ==
    ASSUME TypeOK, Carried,
           UNCHANGED <<jobVars, runs, fileVars, ticks, stopped, stopper>>,
           edits' \in 0..MaxWork, missed' \in BOOLEAN, overlap' \in BOOLEAN,
           chans' \subseteq Channels, scheds' \subseteq Schedule,
           given' \subseteq Schedules \cup Channels, cron' \subseteq Schedule,
           call' \in [Callers -> CallRecords],
           NEW c \in Callers, \A d \in Callers \ {c} : call'[d] = call[d],
           call'[c].at \in {"pool", "write", "launch"} => call'[c].sched \in Schedule
    PROVE  Typed'
BY DEF Typed, TypeOK, Carried, CallRecords, CallPCs, JobAt, jobVars, fileVars

LEMMA EditType ==
    ASSUME Typed, edits + launched <= MaxWork, NEW c \in Callers, Edit(c)
    PROVE  Typed'
<1>. USE DEF Typed
<1>a. UNCHANGED <<jobVars, runs, fileVars, ticks, stopped, stopper>>
  BY EditFrame
<1>b. edits' \in 0..MaxWork
  BY EditFrame, BoundAssumption DEF Budget, TypeOK
<1>c. /\ missed \in BOOLEAN /\ overlap \in BOOLEAN
      /\ chans \subseteq Channels /\ scheds \subseteq Schedule
      /\ given \subseteq Schedules \cup Channels /\ cron \subseteq Schedule
      /\ call \in [Callers -> CallRecords]
      /\ \A d \in Callers :
            call[d].at \in {"pool", "write", "launch"} => call[d].sched \in Schedule
  BY DEF TypeOK, Carried, CallRecords, CallPCs
<1>d. BeginEdit(c) => overlap' \in BOOLEAN
  BY DEF BeginEdit
<1>. USE <1>a, <1>b, <1>c, <1>d DEF storeVars, cronVars
<1>1. ASSUME NEW x \in Channels, CreateChannel(c, x) PROVE Typed'
  BY <1>1, TypedParts DEF CreateChannel
<1>2. ASSUME NEW x \in Channels, DeleteChannel(c, x) PROVE Typed'
  <2>1. /\ call' \in [Callers -> CallRecords] /\ call'[c].at = "drop"
        /\ \A d \in Callers \ {c} : call'[d] = call[d]
    BY <1>2 DEF DeleteChannel, CallRecords, CallPCs
  <2>. QED
    BY <1>2, <2>1, TypedParts DEF DeleteChannel
<1>3. ASSUME NEW s \in Schedule, NEW new \in BOOLEAN, ScheduleCall(c, s, new),
             given' \subseteq Schedules \cup Channels
      PROVE  Typed'
  <2>1. /\ call' \in [Callers -> CallRecords] /\ call'[c].sched = s
        /\ \A d \in Callers \ {c} : call'[d] = call[d]
    BY <1>3 DEF ScheduleCall, CallRecords, CallPCs
  <2>. QED
    BY <1>3, <2>1, TypedParts DEF ScheduleCall
<1>4. ASSUME NEW s \in Schedule, CreateSchedule(c, s) \/ UpdateSchedule(c, s)
      PROVE  Typed'
  <2>1. s.id \in Schedules
    BY DEF Schedule
  <2>. QED
    BY <1>3, <1>4, <2>1 DEF CreateSchedule, UpdateSchedule
<1>5. CASE CheckPool(c)
  <2>1. /\ call' \in [Callers -> CallRecords]
        /\ \A d \in Callers \ {c} : call'[d] = call[d]
        /\ call'[c].at = "idle" \/ (call[c].at = "pool" /\ call'[c].sched = call[c].sched)
    BY <1>5, CallReturns, CallGoes DEF CheckPool, CallPCs, At
  <2>. QED
    BY <1>5, <2>1, TypedParts DEF CheckPool
<1>6. CASE WriteSchedule(c)
  <2>1. /\ call' \in [Callers -> CallRecords] /\ missed' \in BOOLEAN
        /\ \A d \in Callers \ {c} : call'[d] = call[d]
        /\ call'[c].at \in {"reload", "idle"}
    BY <1>6, CallReturns, FlushCases DEF WriteSchedule
  <2>2. call[c].sched \in Schedule
    BY <1>6 DEF WriteSchedule, At
  <2>3. scheds' \subseteq Schedule
    BY <1>6, <2>2 DEF WriteSchedule
  <2>. QED
    BY <1>6, <2>1, <2>3, TypedParts DEF WriteSchedule
<1>7. CASE DropChannel(c)
  BY <1>7, CallReturns, TypedParts DEF DropChannel
<1>8. CASE Reload(c)
  BY <1>8, CallReturns, TypedParts DEF Reload, Enabled
<1>9. ASSUME NEW s \in scheds, ToggleSchedule(c, s) PROVE Typed'
  <2>1. [s EXCEPT !.on = ~@] \in Schedule
    BY DEF Schedule
  <2>2. /\ scheds' \subseteq Schedule /\ UNCHANGED <<chans, given, cron>>
        /\ BeginEdit(c) /\ FlushThenReload(c)
    BY <1>9, <2>1 DEF ToggleSchedule
  <2>. QED
    BY <2>2, FlushCases, TypedParts
<1>10. ASSUME NEW s \in scheds, DeleteSchedule(c, s) PROVE Typed'
  <2>1. /\ scheds' \subseteq Schedule /\ UNCHANGED <<chans, given, cron>>
        /\ BeginEdit(c) /\ FlushThenReload(c)
    BY <1>10 DEF DeleteSchedule
  <2>. QED
    BY <2>1, FlushCases, TypedParts
<1>11. ASSUME NEW a \in Archives, Restore(c, a) PROVE Typed'
  <2>1. a.chans \subseteq Channels /\ a.scheds \subseteq Schedule
    BY StoreAssumption DEF Store
  <2>2. /\ scheds' \subseteq Schedule /\ chans' \subseteq Channels
        /\ UNCHANGED <<given, cron>> /\ BeginEdit(c) /\ FlushThenReload(c)
    BY <1>11, <2>1 DEF Restore
  <2>. QED
    BY <2>2, FlushCases, TypedParts
<1>. QED
  BY <1>1, <1>2, <1>4, <1>5, <1>6, <1>7, <1>8, <1>9, <1>10, <1>11 DEF Edit

JobRecords == [at : JobPCs, sched : Schedule \cup {NoSchedule},
               victims : SUBSET Object]

\* The same for the steps of jobs and for launches.
LEMMA TypedJobParts ==
    ASSUME TypeOK, Carried,
           UNCHANGED <<storeVars, edits, missed, overlap, cron, stopped, stopper>>,
           ticks' \subseteq Schedule,
           running' \subseteq Schedules, wg' \in 0..Cardinality(Jobs),
           launched' \in 0..MaxWork, runs' \in 0..MaxWork, puts' \in 0..MaxWork,
           objects' \subseteq Object, call' \in [Callers -> CallRecords],
           \A c \in Callers : call'[c] = call[c] \/ call'[c].at = "idle",
           NEW j \in Jobs, job' \in [Jobs -> JobRecords],
           \A i \in Jobs \ {j} : job'[i] = job[i],
           job'[j].at = "idle" \/ job'[j].sched \in Schedule
    PROVE  Typed'
<1>1. TypeOK'
  BY DEF TypeOK, JobRecords, JobPCs, CallRecords, CallPCs, storeVars
<1>2. Carried'
  BY DEF Carried, JobAt
<1>. QED
  BY <1>1, <1>2 DEF Typed

LEMMA LaunchType ==
    ASSUME Typed, Counted, NEW s \in Schedule, Launch(s),
           UNCHANGED <<storeVars, edits, missed, overlap, cron, stopped, stopper,
                       runs, fileVars>>,
           ticks' \subseteq Schedule, call' \in [Callers -> CallRecords],
           \A c \in Callers : call'[c] = call[c] \/ call'[c].at = "idle"
    PROVE  Typed'
<1>. USE DEF Typed
<1>1. CASE UNCHANGED jobVars
  BY <1>1 DEF TypeOK, Carried, CallRecords, CallPCs, JobAt, jobVars, fileVars, storeVars
<1>2. CASE Launched(s)
  <2>1. PICK j \in Jobs :
           /\ JobAt(j, "idle")
           /\ job' = [job EXCEPT ![j] =
                 [at |-> "start", sched |-> s, victims |-> {}]]
    BY <1>2 DEF Launched
  <2>2. /\ job' \in [Jobs -> JobRecords] /\ job'[j].sched = s
        /\ \A i \in Jobs \ {j} : job'[i] = job[i]
    BY <2>1 DEF TypeOK, JobRecords, JobPCs
  <2>3. wg' \in 0..Cardinality(Jobs)
    BY <1>2, <2>1, Bounds DEF Launched
  <2>4. running' \subseteq Schedules
    BY <1>2 DEF Launched, Schedule, TypeOK
  <2>5. launched' \in 0..MaxWork
    BY <1>2, BoundAssumption DEF Launched, Budget, TypeOK
  <2>6. runs' \in 0..MaxWork /\ puts' \in 0..MaxWork /\ objects' \subseteq Object
    BY DEF TypeOK, fileVars
  <2>. QED
    BY <2>2, <2>3, <2>4, <2>5, <2>6, TypedJobParts
<1>. QED
  BY <1>1, <1>2, LaunchCases

LEMMA JobType ==
    ASSUME Typed, Counted, NEW j \in Jobs, JobStep(j) \/ JobPanics(j)
    PROVE  Typed'
<1>. USE DEF Typed
<1>1. JobMoves(j)
  BY JobFrame
<1>2. /\ ticks' \subseteq Schedule /\ call' \in [Callers -> CallRecords]
      /\ \A c \in Callers : call'[c] = call[c]
      /\ launched' \in 0..MaxWork
      /\ UNCHANGED <<storeVars, edits, missed, overlap, cron, stopped, stopper>>
  BY <1>1 DEF JobMoves, TypeOK, CallRecords, CallPCs, cronVars
<1>3. /\ \A i \in Jobs \ {j} : job'[i] = job[i]
      /\ job'[j].at = "idle" \/ job'[j].sched \in Schedule
      /\ job[j].sched \in Schedule
  BY <1>1 DEF JobMoves, Carried, NoJob
<1>4. ASSUME running' \subseteq Schedules, wg' \in 0..Cardinality(Jobs),
             runs' \in 0..MaxWork, puts' \in 0..MaxWork, objects' \subseteq Object,
             job' \in [Jobs -> JobRecords]
      PROVE  Typed'
  BY <1>2, <1>3, <1>4, TypedJobParts
<1>5. /\ running \subseteq Schedules /\ wg \in 0..Cardinality(Jobs)
      /\ runs \in 0..MaxWork /\ puts \in 0..MaxWork /\ objects \subseteq Object
      /\ job \in [Jobs -> JobRecords]
  BY DEF TypeOK, JobRecords, JobPCs
<1>6. ASSUME NEW at \in JobPCs, JobTo(j, at)
      PROVE  job' \in [Jobs -> JobRecords]
  BY <1>5, <1>6 DEF JobTo, JobRecords
<1>7. CASE JobStart(j)
  BY <1>4, <1>5, <1>6, <1>7 DEF JobStart, JobPCs, fileVars
<1>8. CASE JobPut(j)
  <2>1. puts + 1 \in 1..MaxWork
    BY <1>8, Bounds DEF JobPut, JobAt
  <2>2. [chan |-> job[j].sched.chan, pool |-> job[j].sched.pool,
         by |-> job[j].sched.id, time |-> puts + 1] \in Object
    BY <1>3, <2>1 DEF Object, Schedule
  <2>3. objects' \subseteq Object /\ puts' \in 0..MaxWork
    BY <1>5, <1>8, <2>1, <2>2, BoundAssumption DEF JobPut, fileVars
  <2>4. \E at \in {"list", "record"} : JobTo(j, at)
    BY <1>8 DEF JobPut
  <2>. QED
    BY <1>4, <1>5, <1>6, <1>8, <2>3, <2>4 DEF JobPut, JobPCs
<1>9. CASE JobList(j)
  <2>1. Surplus(PoolOf(job[j].sched)) \in SUBSET Object
    BY <1>5 DEF Surplus, PoolOf
  <2>2. job' \in [Jobs -> JobRecords]
    BY <1>5, <1>6, <1>9, <2>1 DEF JobList, JobPCs, JobRecords
  <2>. QED
    BY <1>4, <1>5, <1>9, <2>2 DEF JobList, fileVars
<1>10. CASE JobPrune(j)
  <2>1. objects' \subseteq Object
    BY <1>5, <1>10 DEF JobPrune
  <2>2. job' \in [Jobs -> JobRecords]
    BY <1>5, <1>6, <1>10 DEF JobPrune, JobRecords, JobPCs
  <2>. QED
    BY <1>4, <1>5, <1>10, <2>1, <2>2 DEF JobPrune
<1>11. CASE JobRecord(j)
  <2>1. runs' \in 0..MaxWork
    BY <1>11, Bounds DEF JobRecord
  <2>. QED
    BY <1>4, <1>5, <1>6, <1>11, <2>1 DEF JobRecord, JobPCs, fileVars
<1>12. CASE JobUnmark(j)
  BY <1>4, <1>5, <1>6, <1>12 DEF JobUnmark, JobPCs, fileVars
<1>13. CASE JobDone(j)
  <2>1. wg' \in 0..Cardinality(Jobs)
    BY <1>13, Bounds DEF JobDone, JobAt
  <2>2. job' \in [Jobs -> JobRecords]
    BY <1>5, <1>13 DEF JobDone, NoJob, JobRecords, JobPCs
  <2>. QED
    BY <1>4, <1>5, <1>13, <2>1, <2>2 DEF JobDone, fileVars
<1>14. CASE JobPanics(j)
  BY <1>4, <1>5, <1>14 DEF JobPanics, JobPCs, JobRecords, fileVars
<1>. QED
  BY <1>7, <1>8, <1>9, <1>10, <1>11, <1>12, <1>13, <1>14 DEF JobStep

LEMMA TypedStep ==
    ASSUME Typed, Counted, [Next]_vars
    PROVE  Typed'
<1>a. /\ edits + launched <= MaxWork /\ call \in [Callers -> CallRecords]
      /\ ticks \subseteq Schedule /\ cron \subseteq Schedule /\ scheds \subseteq Schedule
  BY DEF Typed, TypeOK, Counted, CallRecords, CallPCs
<1>1. ASSUME NEW c \in Callers, Edit(c) PROVE Typed'
  BY <1>a, <1>1, EditType
<1>2. ASSUME NEW c \in Callers, RunLaunch(c) PROVE Typed'
  <2>1. call[c].sched \in Schedule
    BY <1>2 DEF RunLaunch, Typed, Carried, At
  <2>2. /\ call' \in [Callers -> CallRecords]
        /\ \A d \in Callers : call'[d] = call[d] \/ call'[d].at = "idle"
    BY <1>2, CallReturns DEF RunLaunch, Typed
  <2>. QED
    BY <1>a, <1>2, <2>1, <2>2, LaunchType DEF RunLaunch, cronVars
<1>3. ASSUME NEW c \in Callers, NEW s \in scheds, RunNow(c, s) PROVE Typed'
  <2>1. /\ call' \in [Callers -> CallRecords] /\ call'[c].sched \in Schedule
        /\ \A d \in Callers \ {c} : call'[d] = call[d]
    BY <1>a, <1>3 DEF RunNow, CallRecords, CallPCs
  <2>2. /\ UNCHANGED <<storeVars, edits, missed, overlap, cronVars, jobVars, runs,
                       fileVars>>
    BY <1>3 DEF RunNow
  <2>. QED
    BY <2>1, <2>2, TypedParts DEF Typed, TypeOK, storeVars, cronVars
<1>4. ASSUME NEW s \in cron, CronFires(s) PROVE Typed'
  BY <1>a, <1>4 DEF CronFires, Typed, TypeOK, Carried, JobAt, jobVars, fileVars, storeVars
<1>5. ASSUME NEW s \in ticks, CronLaunch(s) PROVE Typed'
  BY <1>a, <1>5, LaunchType DEF CronLaunch
<1>6. ASSUME NEW j \in Jobs, JobStep(j) \/ JobPanics(j) PROVE Typed'
  BY <1>6, JobType
<1>7. CASE StopClaim \/ StopCron \/ StopDrained \/ StopLate
  BY <1>7 DEF StopClaim, StopCron, StopDrained, StopLate, StopElsewhere, Typed,
     TypeOK, Carried, JobAt, jobVars, fileVars, storeVars
<1>8. CASE UNCHANGED vars
  BY <1>8 DEF vars, Typed, TypeOK, Carried, JobAt, jobVars, fileVars, storeVars, cronVars
<1>. QED
  BY <1>1, <1>2, <1>3, <1>4, <1>5, <1>6, <1>7, <1>8 DEF Next

-----------------------------------------------------------------------------
(* The marks: one job per schedule.                                        *)

LEMMA OneJobStep ==
    ASSUME Typed, OneJobPerSchedule, [Next]_vars
    PROVE  OneJobPerSchedule'
<1>. USE DEF Typed
<1>1. ASSUME UNCHANGED <<running, job>> PROVE OneJobPerSchedule'
  BY <1>1 DEF OneJobPerSchedule, Marked
<1>2. ASSUME NEW s, Launch(s) PROVE OneJobPerSchedule'
  <2>1. CASE UNCHANGED jobVars
    BY <1>1, <2>1 DEF jobVars
  <2>2. CASE Launched(s)
    <3>1. PICK j \in Jobs :
             /\ JobAt(j, "idle")
             /\ job' = [job EXCEPT ![j] =
                   [at |-> "start", sched |-> s, victims |-> {}]]
      BY <2>2 DEF Launched
    <3>2. /\ job'[j].at = "start" /\ job'[j].sched = s
          /\ \A i \in Jobs \ {j} : job'[i] = job[i]
      BY <3>1 DEF TypeOK
    <3>3. s.id \notin running /\ running' = running \cup {s.id}
      BY <2>2 DEF Launched, Refused
    <3>4. {i \in Jobs : Marked(i)}' = {i \in Jobs : Marked(i)} \cup {j}
      BY <3>2 DEF Marked
    <3>5. \A i \in Jobs : Marked(i) => job[i].sched.id # s.id /\ i # j
      BY <3>1, <3>3 DEF OneJobPerSchedule, Marked, JobAt
    <3>6. running' = {job'[i].sched.id : i \in {k \in Jobs : Marked(k)}'}
      BY <3>2, <3>3, <3>4, <3>5 DEF OneJobPerSchedule
    <3>7. \A i, k \in Jobs :
             i # k /\ Marked(i)' /\ Marked(k)' => job'[i].sched.id # job'[k].sched.id
      BY <3>2, <3>4, <3>5 DEF OneJobPerSchedule
    <3>. QED
      BY <3>6, <3>7 DEF OneJobPerSchedule
  <2>. QED
    BY <1>2, <2>1, <2>2, LaunchCases
<1>3. ASSUME NEW j \in Jobs, JobStep(j) \/ JobPanics(j)
      PROVE  OneJobPerSchedule'
  <2>1. JobMoves(j) /\ \A i \in Jobs \ {j} : job'[i] = job[i]
    BY <1>3, JobFrame DEF JobMoves
  <2>2. ASSUME running' = running, Marked(j) <=> Marked(j)' PROVE OneJobPerSchedule'
    <3>1. \A i \in Jobs : /\ Marked(i) <=> Marked(i)'
                          /\ Marked(i) => job'[i].sched = job[i].sched
      BY <2>1, <2>2 DEF Marked, JobMoves, NoJob
    <3>. QED
      BY <2>2, <3>1 DEF OneJobPerSchedule
  <2>3. CASE JobUnmark(j)
    <3>1. /\ Marked(j) /\ ~Marked(j)' /\ running' = running \ {job[j].sched.id}
      BY <2>3 DEF JobUnmark, JobAt, JobTo, Marked, TypeOK
    <3>2. {i \in Jobs : Marked(i)}' = {i \in Jobs : Marked(i)} \ {j}
      BY <2>1, <3>1 DEF Marked
    <3>3. \A i \in Jobs : Marked(i)' => Marked(i) /\ job'[i].sched = job[i].sched /\ i # j
      BY <2>1, <3>1 DEF Marked
    <3>. QED
      BY <3>1, <3>2, <3>3 DEF OneJobPerSchedule
  <2>4. CASE JobDone(j)
    <3>1. running' = running /\ ~Marked(j) /\ ~Marked(j)'
      BY <2>4 DEF JobDone, JobAt, Marked, NoJob, TypeOK
    <3>. QED
      BY <2>2, <3>1
  <2>5. CASE JobStart(j) \/ JobPut(j) \/ JobList(j) \/ JobPrune(j) \/ JobRecord(j)
             \/ JobPanics(j)
    <3>1. running' = running /\ Marked(j) /\ Marked(j)'
      BY <2>5 DEF JobStart, JobPut, JobList, JobPrune, JobRecord, JobPanics,
         JobAt, JobTo, Marked, TypeOK
    <3>. QED
      BY <2>2, <3>1
  <2>. QED
    BY <1>3, <2>3, <2>4, <2>5 DEF JobStep
<1>4. ASSUME NEW c \in Callers, Edit(c) PROVE OneJobPerSchedule'
  BY <1>1, <1>4, EditFrame DEF jobVars
<1>5. ASSUME \/ StopClaim \/ StopCron \/ StopDrained \/ StopLate
             \/ \E s \in cron : CronFires(s)
             \/ \E c \in Callers : \E s \in scheds : RunNow(c, s)
      PROVE  OneJobPerSchedule'
  BY <1>1, <1>5, OtherFrame DEF jobVars
<1>6. CASE UNCHANGED vars
  BY <1>1, <1>6 DEF vars, jobVars
<1>. QED
  BY <1>2, <1>3, <1>4, <1>5, <1>6 DEF Next, RunLaunch, CronLaunch

-----------------------------------------------------------------------------
(* What retention deletes.                                                 *)

\* A set of numbers that is not empty has a least one.
LEMMA Least ==
    ASSUME NEW T, T \subseteq Nat, T # {}
    PROVE  \E n \in T : \A m \in T : n <= m
<1>1. PICK n \in T : \A m \in T : ~(<<m, n>> \in OpToRel(<, Nat))
  BY NatLessThanWellFounded, WFMin, Zenon
<1>2. \A m \in T : ~(m < n)
  BY <1>1 DEF OpToRel
<1>. QED
  BY <1>2

\* Among backups whose times differ one is the oldest: the choice JobPrune
\* makes is one of its victims.
LEMMA Oldest ==
    ASSUME NEW V, V \subseteq Object, V # {},
           \A o, p \in V : o.time = p.time => o = p
    PROVE  \E v \in V : Newer(v, V) = V \ {v}
<1>1. \A v \in V : v.time \in Nat
  BY BoundAssumption DEF Object
<1>2. {v.time : v \in V} \subseteq Nat /\ {v.time : v \in V} # {}
  BY <1>1
<1>3. PICK n \in {v.time : v \in V} : \A m \in {v.time : v \in V} : n <= m
  BY <1>2, Least
<1>4. PICK v \in V : v.time = n
  BY <1>3
<1>5. \A p \in V \ {v} : p.time > v.time
  BY <1>1, <1>3, <1>4
<1>6. ~(v.time > v.time)
  BY <1>1
<1>. QED
  BY <1>5, <1>6 DEF Newer

\* What a step does to the list of what a job will delete ...
LEMMA VictimsStep ==
    ASSUME Typed, [Next]_vars, NEW i \in Jobs
    PROVE  \/ job'[i].victims \subseteq job[i].victims
           \/ /\ job'[i].victims = Surplus(PoolOf(job[i].sched))
              /\ UNCHANGED fileVars
<1>. USE DEF Typed
<1>1. ASSUME NEW s, Launch(s) PROVE job'[i].victims \subseteq job[i].victims
  <2>1. CASE UNCHANGED jobVars
    BY <2>1 DEF jobVars
  <2>2. CASE Launched(s)
    BY <2>2 DEF Launched, TypeOK
  <2>. QED
    BY <1>1, <2>1, <2>2, LaunchCases
<1>2. ASSUME NEW j \in Jobs, JobStep(j) \/ JobPanics(j)
      PROVE  \/ job'[i].victims \subseteq job[i].victims
             \/ /\ job'[i].victims = Surplus(PoolOf(job[i].sched))
                /\ UNCHANGED fileVars
  <2>1. CASE i # j
    BY <1>2, <2>1, JobFrame DEF JobMoves
  <2>2. CASE i = j
    BY <1>2, <2>2 DEF JobStep, JobStart, JobPut, JobList, JobPrune, JobRecord,
       JobUnmark, JobDone, JobPanics, JobTo, NoJob, TypeOK
  <2>. QED
    BY <2>1, <2>2
<1>3. ASSUME NEW c \in Callers, Edit(c) PROVE job' = job
  BY <1>3, EditFrame DEF jobVars
<1>4. ASSUME \/ StopClaim \/ StopCron \/ StopDrained \/ StopLate
             \/ \E s \in cron : CronFires(s)
             \/ \E c \in Callers : \E s \in scheds : RunNow(c, s)
      PROVE  job' = job
  BY <1>4, OtherFrame DEF jobVars
<1>. QED
  BY <1>1, <1>2, <1>3, <1>4 DEF Next, RunLaunch, CronLaunch, vars, jobVars

\* ... and to the backups: nothing, one less, or one more, now.
LEMMA ObjectsStep ==
    ASSUME Typed, Dated, [Next]_vars
    PROVE  \/ UNCHANGED fileVars
           \/ /\ puts' = puts
              /\ \E j \in Jobs : \E o \in job[j].victims : objects' = objects \ {o}
           \/ /\ puts' = puts + 1
              /\ \E o : o.time = puts + 1 /\ objects' = objects \cup {o}
<1>. USE DEF Typed
<1>1. ASSUME NEW j \in Jobs, JobPrune(j)
      PROVE  \/ UNCHANGED fileVars
             \/ /\ puts' = puts
                /\ \E o \in job[j].victims : objects' = objects \ {o}
  <2>. DEFINE V == job[j].victims
              o == CHOOSE v \in V : Newer(v, V) = V \ {v}
  <2>1. CASE V = {}
    BY <1>1, <2>1 DEF JobPrune, fileVars
  <2>2. CASE V # {}
    <3>1. V \subseteq Object
      BY DEF TypeOK
    <3>2. \A u, w \in V : u.time = w.time => u = w
      BY DEF Dated, Known
    <3>3. \E v \in V : Newer(v, V) = V \ {v}
      BY <2>2, <3>1, <3>2, Oldest
    <3>4. o \in V
      BY <3>3
    <3>. QED
      BY <1>1, <2>2, <3>4 DEF JobPrune, fileVars
  <2>. QED
    BY <2>1, <2>2
<1>2. ASSUME NEW j \in Jobs, JobPut(j)
      PROVE  \/ UNCHANGED fileVars
             \/ /\ puts' = puts + 1
                /\ \E o : o.time = puts + 1 /\ objects' = objects \cup {o}
  BY <1>2 DEF JobPut
<1>3. ASSUME NEW j \in Jobs,
             \/ JobStart(j) \/ JobList(j) \/ JobRecord(j) \/ JobUnmark(j)
             \/ JobDone(j) \/ JobPanics(j)
      PROVE  UNCHANGED fileVars
  BY <1>3 DEF JobStart, JobList, JobRecord, JobUnmark, JobDone, JobPanics, fileVars
<1>4. ASSUME NEW c \in Callers, Edit(c) PROVE UNCHANGED fileVars
  BY <1>4, EditFrame
<1>5. ASSUME \/ StopClaim \/ StopCron \/ StopDrained \/ StopLate
             \/ \E s \in cron : CronFires(s)
             \/ \E c \in Callers : \E s \in scheds : RunNow(c, s)
      PROVE  UNCHANGED fileVars
  BY <1>5, OtherFrame
<1>. QED
  BY <1>1, <1>2, <1>3, <1>4, <1>5 DEF Next, JobStep, RunLaunch, CronLaunch, vars, fileVars

LEMMA DatedStep ==
    ASSUME Typed, Dated, [Next]_vars
    PROVE  Dated'
<1>. USE DEF Typed
<1>1. puts \in Nat /\ \A o \in Known : o.time \in Nat
  BY BoundAssumption DEF TypeOK, Known, Object
<1>2. \A i \in Jobs : job'[i].victims \subseteq Known
  BY VictimsStep DEF Known, Surplus, PoolOf
<1>3. CASE UNCHANGED fileVars \/ (puts' = puts /\ \E o : objects' = objects \ {o})
  <2>1. Known' \subseteq Known
    BY <1>2, <1>3 DEF Known, fileVars
  <2>2. IsFiniteSet(objects')
    BY <1>3, FS_RemoveElement DEF Dated, fileVars
  <2>3. puts' = puts
    BY <1>3 DEF fileVars
  <2>. QED
    BY <2>1, <2>2, <2>3 DEF Dated
<1>4. ASSUME NEW o, o.time = puts + 1, objects' = objects \cup {o}, puts' = puts + 1
      PROVE  Dated'
  <2>1. Known' \subseteq Known \cup {o}
    BY <1>2, <1>4 DEF Known
  <2>2. IsFiniteSet(objects')
    BY <1>4, FS_AddElement DEF Dated
  <2>3. \A p \in Known : p.time <= puts /\ p.time # puts + 1
    BY <1>1 DEF Dated
  <2>4. \A p \in Known' : p.time <= puts'
    BY <1>1, <1>4, <2>1, <2>3
  <2>5. \A p, q \in Known' : p.time = q.time => p = q
    BY <1>4, <2>1, <2>3 DEF Dated
  <2>. QED
    BY <2>2, <2>4, <2>5 DEF Dated
<1>. QED
  BY <1>3, <1>4, ObjectsStep

\* The newer ones of a backup in its pool, and that it may go.
Above(v)  == Newer(v, PoolOf(v))
MayGo(v)  == Cardinality(Above(v)) >= Retention

LEMMA AboveFinite ==
    ASSUME Dated, NEW S, S \subseteq objects
    PROVE  IsFiniteSet(S) /\ Cardinality(S) \in Nat
BY FS_Subset, FS_CardinalityType DEF Dated

LEMMA AboveIsKnown ==
    ASSUME NEW v
    PROVE  Above(v) \subseteq objects
BY DEF Above, Newer, PoolOf

\* A backup that goes takes one from those above v only if what is above it
\* is above v too.
LEMMA RemovalKeeps ==
    ASSUME Typed, Dated, NEW v \in Known, MayGo(v), NEW o \in Known, MayGo(o),
           objects' = objects \ {o}
    PROVE  MayGo(v)'
<1>a. Retention \in Nat /\ \A p \in Known : p.time \in Nat
  BY BoundAssumption DEF Typed, TypeOK, Known, Object
<1>1. Above(v)' = Above(v) \ {o}
  BY DEF Above, Newer, PoolOf
<1>2. CASE o \notin Above(v)
  BY <1>1, <1>2 DEF MayGo
<1>3. CASE o \in Above(v)
  <2>1. Above(o) \subseteq Above(v) \ {o}
    BY <1>a, <1>3 DEF Above, Newer, PoolOf, Known
  <2>2. /\ IsFiniteSet(Above(v) \ {o}) /\ Cardinality(Above(v) \ {o}) \in Nat
        /\ Cardinality(Above(o)) \in Nat
    BY AboveFinite, AboveIsKnown
  <2>3. Cardinality(Above(o)) <= Cardinality(Above(v) \ {o})
    BY <2>1, <2>2, FS_Subset
  <2>. QED
    BY <1>a, <1>1, <2>2, <2>3 DEF MayGo
<1>. QED
  BY <1>2, <1>3

LEMMA UploadKeeps ==
    ASSUME Dated, Dated', NEW v, MayGo(v), NEW o, objects' = objects \cup {o}
    PROVE  MayGo(v)'
<1>1. Above(v) \subseteq Above(v)'
  BY DEF Above, Newer, PoolOf
<1>2. IsFiniteSet(Above(v)') /\ Cardinality(Above(v)') \in Nat
  <2>1. Above(v)' \subseteq objects'
    BY DEF Above, Newer, PoolOf
  <2>. QED
    BY <2>1, FS_Subset, FS_CardinalityType DEF Dated
<1>3. Cardinality(Above(v)) <= Cardinality(Above(v)') /\ Cardinality(Above(v)) \in Nat
  BY <1>1, <1>2, FS_Subset, AboveFinite, AboveIsKnown
<1>. QED
  BY <1>2, <1>3, BoundAssumption DEF MayGo

\* What a listing picks may go.
LEMMA SurplusMayGo ==
    ASSUME NEW s, NEW v \in Surplus(PoolOf(s))
    PROVE  v \in objects /\ MayGo(v)
<1>1. v \in PoolOf(s) /\ Cardinality(Newer(v, PoolOf(s))) >= Retention
  BY DEF Surplus
<1>2. PoolOf(v) = PoolOf(s)
  BY <1>1 DEF PoolOf
<1>. QED
  BY <1>1, <1>2 DEF MayGo, Above, PoolOf

LEMMA RipeStep ==
    ASSUME Typed, Dated, Dated', Ripe, [Next]_vars
    PROVE  Ripe'
<1>1. \A j \in Jobs : \A o \in job[j].victims : o \in Known /\ MayGo(o)
  BY DEF Ripe, MayGo, Above, Known
<1>2. SUFFICES ASSUME NEW i \in Jobs, NEW v \in job'[i].victims
               PROVE  MayGo(v)'
  BY DEF Ripe, MayGo, Above
<1>3. v \in Known /\ MayGo(v)
  <2>1. CASE job'[i].victims \subseteq job[i].victims
    BY <1>1, <2>1
  <2>2. CASE job'[i].victims = Surplus(PoolOf(job[i].sched))
    BY <2>2, SurplusMayGo DEF Known
  <2>. QED
    BY <2>1, <2>2, VictimsStep
<1>4. CASE UNCHANGED fileVars
  BY <1>3, <1>4 DEF MayGo, Above, Newer, PoolOf, fileVars
<1>5. ASSUME NEW j \in Jobs, NEW o \in job[j].victims, objects' = objects \ {o}
      PROVE  MayGo(v)'
  BY <1>1, <1>3, <1>5, RemovalKeeps
<1>6. ASSUME NEW o, objects' = objects \cup {o} PROVE MayGo(v)'
  BY <1>3, <1>6, UploadKeeps
<1>. QED
  BY <1>4, <1>5, <1>6, ObjectsStep

\* A step that deletes leaves enough newer ones above what it deletes.
LEMMA DeletesRipe ==
    ASSUME Typed, Dated, Ripe, [Next]_vars
    PROVE  \A o \in objects \ objects' :
              Cardinality({p \in Newer(o, objects') : p.chan = o.chan /\ p.pool = o.pool})
                  >= Retention
<1>a. \A o : {p \in Newer(o, objects') : p.chan = o.chan /\ p.pool = o.pool}
               = Above(o)'
  BY DEF Newer, Above, PoolOf
<1>1. SUFFICES ASSUME NEW o \in objects, o \notin objects'
               PROVE  MayGo(o)'
  BY <1>a DEF MayGo
<1>2. PICK j \in Jobs : \E v \in job[j].victims : objects' = objects \ {v}
  BY <1>1, ObjectsStep DEF fileVars
<1>3. o \in job[j].victims /\ objects' = objects \ {o}
  BY <1>1, <1>2
<1>4. o \in Known /\ MayGo(o)
  BY <1>1, <1>3 DEF Known, Ripe, MayGo, Above
<1>. QED
  BY <1>3, <1>4, RemovalKeeps

-----------------------------------------------------------------------------
(* Stop.                                                                   *)

\* With the WaitGroup at zero no goroutine of launch is left.
LEMMA ZeroIsIdle ==
    ASSUME Counted, wg = 0
    PROVE  \A j \in Jobs : JobAt(j, "idle")
<1>1. Busy = {}
  BY SetsOfJobs, JobSets, FS_EmptySet DEF Counted
<1>. QED
  BY <1>1 DEF Busy

LEMMA StoppingStep ==
    ASSUME Typed, Counted, Stopping, [Next]_vars
    PROVE  Stopping'
<1>. USE DEF Stopping
<1>1. ASSUME UNCHANGED <<cron, stopped, stopper, wg>> PROVE Stopping'
  BY <1>1
<1>2. ASSUME NEW s, Launch(s), UNCHANGED <<cron, stopped, stopper>> PROVE Stopping'
  BY <1>2, LaunchCases DEF Launched, Refused, jobVars
<1>3. ASSUME NEW j \in Jobs, JobStep(j) \/ JobPanics(j) PROVE Stopping'
  <2>1. wg # 0
    BY <1>3, ZeroIsIdle, JobFrame DEF Typed, JobMoves
  <2>. QED
    BY <1>3, <2>1, JobFrame DEF Typed, JobMoves, cronVars
<1>4. ASSUME NEW c \in Callers, Edit(c) PROVE Stopping'
  <2>1. UNCHANGED <<stopped, stopper, wg>>
    BY <1>4, EditFrame DEF jobVars
  <2>2. cron' = cron \/ ~stopped
    BY <1>4 DEF Edit, CreateChannel, DeleteChannel, CreateSchedule, UpdateSchedule,
       ScheduleCall, CheckPool, WriteSchedule, DropChannel, Reload, ToggleSchedule,
       DeleteSchedule, Restore, cronVars
  <2>. QED
    BY <2>1, <2>2
<1>5. CASE StopClaim \/ StopCron \/ StopDrained \/ StopLate
  BY <1>5 DEF StopClaim, StopCron, StopDrained, StopLate, StopElsewhere, jobVars
<1>6. ASSUME \/ \E s \in cron : CronFires(s)
             \/ \E c \in Callers : \E s \in scheds : RunNow(c, s)
      PROVE  Stopping'
  BY <1>1, <1>6 DEF CronFires, RunNow, cronVars, jobVars
<1>7. CASE UNCHANGED vars
  BY <1>1, <1>7 DEF vars, cronVars, jobVars
<1>. QED
  BY <1>2, <1>3, <1>4, <1>5, <1>6, <1>7 DEF Next, RunLaunch, CronLaunch, cronVars

-----------------------------------------------------------------------------
(* The cron.                                                               *)

Reloading(c) == At(c, "reload")

\* An edit leaves the schedules and the cron alone, or has still to be
\* reloaded, or was not flushed, or is the reload.
LEMMA EditCases ==
    ASSUME Typed, NEW c \in Callers, Edit(c)
    PROVE  /\ \A d \in Callers \ {c} : call'[d] = call[d]
           /\ \/ /\ UNCHANGED <<cron, scheds, missed>>
                 /\ ~Reloading(c) \/ stopped
              \/ cron' = cron /\ (Reloading(c)' \/ missed' = TRUE)
              \/ cron' = Enabled(scheds) /\ scheds' = scheds
<1>. USE DEF Typed
<1>. DEFINE Frame == \A d \in Callers \ {c} : call'[d] = call[d]
            Kept  == UNCHANGED <<cron, scheds, missed>> /\ ~Reloading(c)
            Owed  == cron' = cron /\ (Reloading(c)' \/ missed' = TRUE)
<1>1. ASSUME NEW x \in Channels, CreateChannel(c, x) \/ DeleteChannel(c, x)
      PROVE  Frame /\ Kept
  BY <1>1 DEF CreateChannel, DeleteChannel, BeginEdit, TypeOK, Reloading, At,
     cronVars, storeVars
<1>2. ASSUME NEW s \in Schedule, CreateSchedule(c, s) \/ UpdateSchedule(c, s)
      PROVE  Frame /\ Kept
  BY <1>2 DEF CreateSchedule, UpdateSchedule, ScheduleCall, BeginEdit, TypeOK,
     Reloading, At, cronVars
<1>3. CASE CheckPool(c) \/ DropChannel(c)
  <2>1. Frame /\ Kept
    BY <1>3, CallReturns, CallGoes DEF CheckPool, DropChannel, Reloading, At, CallPCs,
       cronVars, storeVars
  <2>. QED
    BY <2>1
<1>4. ASSUME FlushThenReload(c), cron' = cron PROVE Frame /\ Owed
  BY <1>4, FlushCases DEF Reloading, At
<1>5. CASE WriteSchedule(c)
  <2>1. (Frame /\ Owed) \/ (Frame /\ Kept)
    <3>1. CASE FlushThenReload(c)
      BY <1>4, <1>5, <3>1 DEF WriteSchedule, cronVars
    <3>2. CASE ~FlushThenReload(c)
      BY <1>5, <3>2, CallReturns DEF WriteSchedule, Reloading, At, cronVars
    <3>. QED
      BY <3>1, <3>2
  <2>. QED
    BY <2>1
<1>6. CASE Reload(c)
  <2>1. Frame
    BY <1>6, CallReturns DEF Reload
  <2>. QED
    BY <1>6, <2>1 DEF Reload, storeVars
<1>7. ASSUME \/ \E s \in scheds : ToggleSchedule(c, s) \/ DeleteSchedule(c, s)
             \/ \E a \in Archives : Restore(c, a)
      PROVE  Frame /\ Owed
  BY <1>4, <1>7 DEF ToggleSchedule, DeleteSchedule, Restore, cronVars
<1>. QED
  BY <1>1, <1>2, <1>3, <1>5, <1>6, <1>7 DEF Edit

LEMMA CronStep ==
    ASSUME Typed, Stopping, CronFollows, [Next]_vars
    PROVE  CronFollows'
<1>. USE DEF CronFollows
<1>1. ASSUME UNCHANGED <<cron, scheds, missed>>, stopped' = stopped \/ stopped',
             \A d \in Callers : Reloading(d) => Reloading(d)'
      PROVE  CronFollows'
  BY <1>1 DEF Reloading
<1>2. ASSUME NEW c \in Callers, Edit(c) PROVE CronFollows'
  <2>1. stopped' = stopped
    BY <1>2, EditFrame
  <2>2. \A d \in Callers \ {c} : Reloading(d) <=> Reloading(d)'
    BY <1>2, EditCases DEF Reloading, At
  <2>3. CASE UNCHANGED <<cron, scheds, missed>> /\ (~Reloading(c) \/ stopped)
    <3>1. CASE stopped
      BY <2>1, <3>1
    <3>2. CASE ~Reloading(c)
      BY <1>1, <2>1, <2>2, <2>3, <3>2
    <3>. QED
      BY <2>3, <3>1, <3>2
  <2>4. CASE cron' = cron /\ (Reloading(c)' \/ missed' = TRUE)
    BY <2>4 DEF Reloading
  <2>5. CASE cron' = Enabled(scheds) /\ scheds' = scheds
    BY <2>5 DEF Enabled
  <2>. QED
    BY <1>2, <2>3, <2>4, <2>5, EditCases
<1>3. ASSUME NEW c \in Callers, RunLaunch(c) \/ \E s \in scheds : RunNow(c, s)
      PROVE  CronFollows'
  <2>1. \A d \in Callers : Reloading(d) => Reloading(d)'
    BY <1>3, CallReturns DEF RunLaunch, RunNow, Typed, TypeOK, Reloading, At
  <2>. QED
    BY <1>1, <1>3, <2>1 DEF RunLaunch, RunNow, cronVars, storeVars
<1>4. ASSUME NEW j \in Jobs, JobStep(j) \/ JobPanics(j) PROVE CronFollows'
  BY <1>1, <1>4, JobFrame DEF Typed, JobMoves, cronVars, storeVars, Reloading, At
<1>5. ASSUME (\E s \in cron : CronFires(s)) \/ (\E s \in ticks : CronLaunch(s))
      PROVE  CronFollows'
  BY <1>1, <1>5 DEF CronFires, CronLaunch, storeVars, Reloading, At
<1>6. CASE StopClaim \/ StopCron \/ StopDrained \/ StopLate
  <2>1. stopped' \/ UNCHANGED <<cron, scheds, missed, stopped, call>>
    BY <1>6 DEF StopClaim, StopCron, StopDrained, StopLate, StopElsewhere, Stopping,
       storeVars
  <2>. QED
    BY <1>1, <2>1 DEF Reloading, At
<1>7. CASE UNCHANGED vars
  BY <1>1, <1>7 DEF vars, storeVars, cronVars, Reloading, At
<1>. QED
  BY <1>2, <1>3, <1>4, <1>5, <1>6, <1>7 DEF Next

-----------------------------------------------------------------------------
(* The store, while no two edits have overlapped.                          *)

\* Steps that are no edits leave the store alone and begin no edit.
LEMMA NoEditFrame ==
    ASSUME Typed, [Next]_vars, \A c \in Callers : ~Edit(c)
    PROVE  /\ UNCHANGED <<chans, scheds, overlap>>
           /\ \A d \in Callers : call'[d] = call[d] \/ call'[d].at \in {"idle", "launch"}
<1>1. ASSUME NEW c \in Callers, RunLaunch(c) \/ \E s \in scheds : RunNow(c, s)
      PROVE  /\ UNCHANGED <<chans, scheds, overlap>>
             /\ \A d \in Callers : call'[d] = call[d] \/ call'[d].at \in {"idle", "launch"}
  <2>1. CASE RunLaunch(c)
    <3>1. UNCHANGED <<chans, scheds, overlap>> /\ Return(c)
      BY <2>1 DEF RunLaunch, storeVars
    <3>. QED
      BY <3>1, CallReturns DEF Typed
  <2>2. ASSUME NEW s \in scheds, RunNow(c, s)
        PROVE  /\ UNCHANGED <<chans, scheds, overlap>>
               /\ \A d \in Callers : call'[d] = call[d] \/ call'[d].at = "launch"
    BY <2>2 DEF RunNow, storeVars, Typed, TypeOK
  <2>. QED
    BY <1>1, <2>1, <2>2
<1>2. ASSUME NEW j \in Jobs, JobStep(j) \/ JobPanics(j)
      PROVE  UNCHANGED <<chans, scheds, overlap, call>>
  BY <1>2, JobFrame DEF Typed, JobMoves, storeVars
<1>3. ASSUME \/ \E s \in cron : CronFires(s)
             \/ \E s \in ticks : CronLaunch(s)
             \/ StopClaim \/ StopCron \/ StopDrained \/ StopLate
      PROVE  UNCHANGED <<chans, scheds, overlap, call>>
  BY <1>3 DEF CronFires, CronLaunch, StopClaim, StopCron, StopDrained, StopLate,
     StopElsewhere, storeVars
<1>. QED
  BY <1>1, <1>2, <1>3 DEF Next, vars, storeVars

\* An edit that does not overlap another is alone, before and after.
LEMMA AloneStep ==
    ASSUME Typed, CheckedStays, NEW c \in Callers, Edit(c), ~overlap'
    PROVE  /\ ~overlap
           /\ \A d \in Callers \ {c} : ~Editing(d) /\ ~Editing(d)'
<1>1. /\ ~overlap /\ \A d \in Callers \ {c} : ~Editing(d)
  <2>1. CASE BeginEdit(c)
    BY <2>1 DEF BeginEdit
  <2>2. CASE ~BeginEdit(c)
    <3>1. overlap' = overlap /\ Editing(c)
      BY <2>2 DEF Edit, CreateChannel, DeleteChannel, CreateSchedule, UpdateSchedule,
         ScheduleCall, CheckPool, WriteSchedule, DropChannel, Reload, ToggleSchedule,
         DeleteSchedule, Restore, Editing, At
    <3>. QED
      BY <3>1 DEF CheckedStays
  <2>. QED
    BY <2>1, <2>2
<1>2. \A d \in Callers \ {c} : call'[d] = call[d]
  BY EditCases
<1>. QED
  BY <1>1, <1>2 DEF Editing

\* What a handler has found when it goes on.
Checked(c) ==
    /\ call[c].at \in {"pool", "write"} => call[c].sched.chan \in chans
    /\ At(c, "write") => \A t \in scheds : ~Clash(call[c].sched, t)
    /\ At(c, "drop") => \A s \in scheds : s.chan # call[c].chan

LEMMA CheckedEdit ==
    ASSUME Typed, CheckedStays, NEW c \in Callers, Edit(c), ~overlap'
    PROVE  Checked(c)'
<1>. USE DEF Typed
<1>a. Checked(c)
  BY AloneStep DEF CheckedStays, Checked
<1>1. ASSUME NEW x \in Channels, CreateChannel(c, x) PROVE Checked(c)'
  BY <1>1 DEF CreateChannel, BeginEdit, Checked, At
<1>2. ASSUME NEW x \in Channels, DeleteChannel(c, x) PROVE Checked(c)'
  BY <1>2 DEF DeleteChannel, BeginEdit, Checked, At, storeVars, TypeOK
<1>3. ASSUME NEW s \in Schedule, CreateSchedule(c, s) \/ UpdateSchedule(c, s)
      PROVE  Checked(c)'
  <2>a. call \in [Callers -> CallRecords]
    BY DEF TypeOK, CallRecords, CallPCs
  <2>b. ASSUME NEW new \in BOOLEAN, ScheduleCall(c, s, new)
        PROVE  /\ call'[c].at = "pool" /\ call'[c].sched = s
               /\ s.chan \in chans /\ chans' = chans
    BY <2>a, <2>b DEF ScheduleCall, CallRecords, CallPCs
  <2>1. /\ call'[c].at = "pool" /\ call'[c].sched = s
        /\ s.chan \in chans /\ chans' = chans
    BY <1>3, <2>b DEF CreateSchedule, UpdateSchedule
  <2>. QED
    BY <2>1 DEF Checked, At
<1>4. CASE CheckPool(c)
  <2>1. CASE Return(c)
    BY <2>1, CallReturns DEF Checked, At
  <2>2. CASE ~Return(c)
    <3>1. /\ Goto(c, "write") /\ At(c, "pool") /\ UNCHANGED <<chans, scheds>>
          /\ \A t \in scheds : ~Clash(call[c].sched, t)
      BY <1>4, <2>2 DEF CheckPool, storeVars
    <3>. QED
      BY <1>a, <3>1, CallGoes DEF Checked, At, CallPCs, Clash
  <2>. QED
    BY <2>1, <2>2
<1>5. CASE \/ WriteSchedule(c) \/ DropChannel(c) \/ Reload(c)
           \/ \E s \in scheds : ToggleSchedule(c, s) \/ DeleteSchedule(c, s)
           \/ \E a \in Archives : Restore(c, a)
  <2>1. Return(c) \/ FlushThenReload(c)
    BY <1>5 DEF WriteSchedule, DropChannel, Reload, ToggleSchedule, DeleteSchedule, Restore
  <2>2. call'[c].at \in {"idle", "reload"}
    BY <2>1, CallReturns, FlushCases
  <2>. QED
    BY <2>2 DEF Checked, At
<1>. QED
  BY <1>1, <1>2, <1>3, <1>4, <1>5 DEF Edit

LEMMA CheckedStep ==
    ASSUME Typed, CheckedStays, [Next]_vars
    PROVE  CheckedStays'
<1>1. ASSUME NEW c \in Callers, Edit(c), ~overlap' PROVE CheckedStays'
  <2>1. Checked(c)' /\ \A d \in Callers \ {c} : ~Editing(d)'
    BY <1>1, CheckedEdit, AloneStep
  <2>2. \A d \in Callers \ {c} : Checked(d)'
    BY <2>1 DEF Editing, Checked, At
  <2>. QED
    BY <2>1, <2>2 DEF CheckedStays, Checked
<1>2. ASSUME \A c \in Callers : ~Edit(c) PROVE CheckedStays'
  BY <1>2, NoEditFrame DEF CheckedStays, Editing, At, Clash
<1>. QED
  BY <1>1, <1>2 DEF CheckedStays

\* A store in which no two schedules share a pool, and one in which every
\* schedule has its channel.
Apart(st) == \A s, t \in st.scheds : ~Clash(s, t)
Whole(st) == \A s \in st.scheds : s.chan \in st.chans

LEMMA ClashFacts ==
    ASSUME NEW s, NEW t
    PROVE  ~Clash(s, s) /\ (Clash(s, t) <=> Clash(t, s))
BY DEF Clash

LEMMA ApartStep ==
    ASSUME Typed, CheckedStays, PoolsApart, [Next]_vars, \A a \in Archives : Apart(a)
    PROVE  PoolsApart'
<1>1. ASSUME NEW c \in Callers, Edit(c), ~overlap' PROVE PoolsApart'
  <2>a. ~overlap /\ \A s, t \in scheds : ~Clash(s, t)
    BY <1>1, AloneStep DEF PoolsApart
  <2>1. CASE scheds' \subseteq scheds
    BY <2>a, <2>1 DEF PoolsApart
  <2>2. CASE WriteSchedule(c)
    <3>. DEFINE s == call[c].sched
    <3>1. \A t \in scheds : ~Clash(s, t)
      BY <2>a, <2>2 DEF CheckedStays, WriteSchedule, At
    <3>2. scheds' \subseteq scheds \cup {s}
      BY <2>2 DEF WriteSchedule
    <3>3. \A t, u \in scheds' : ~Clash(t, u)
      BY <2>a, <3>1, <3>2, ClashFacts
    <3>. QED
      BY <3>3 DEF PoolsApart
  <2>3. ASSUME NEW s \in scheds, ToggleSchedule(c, s) PROVE PoolsApart'
    <3>. DEFINE r == [s EXCEPT !.on = ~@]
    <3>1. r.id = s.id /\ r.chan = s.chan /\ r.pool = s.pool
      BY DEF Typed, TypeOK, Schedule
    <3>2. scheds' \subseteq scheds \cup {r}
      BY <2>3 DEF ToggleSchedule
    <3>3. \A t \in scheds : ~Clash(r, t)
      BY <2>a, <3>1 DEF Clash
    <3>4. \A t, u \in scheds' : ~Clash(t, u)
      BY <2>a, <3>2, <3>3, ClashFacts
    <3>. QED
      BY <3>4 DEF PoolsApart
  <2>4. ASSUME NEW a \in Archives, Restore(c, a) PROVE PoolsApart'
    BY <2>a, <2>4 DEF Restore, PoolsApart, Apart
  <2>5. ASSUME ~WriteSchedule(c), \A s \in scheds : ~ToggleSchedule(c, s),
               \A a \in Archives : ~Restore(c, a)
        PROVE  scheds' \subseteq scheds
    BY <1>1, <2>5 DEF Edit, CreateChannel, DeleteChannel, CreateSchedule, UpdateSchedule,
       ScheduleCall, CheckPool, DropChannel, Reload, DeleteSchedule, storeVars
  <2>. QED
    BY <2>1, <2>2, <2>3, <2>4, <2>5
<1>2. ASSUME \A c \in Callers : ~Edit(c) PROVE PoolsApart'
  BY <1>2, NoEditFrame DEF PoolsApart
<1>. QED
  BY <1>1, <1>2 DEF PoolsApart

LEMMA DanglingStep ==
    ASSUME Typed, CheckedStays, NoDangling, [Next]_vars
    PROVE  NoDangling'
<1>1. ASSUME NEW c \in Callers, Edit(c), ~overlap' PROVE NoDangling'
  <2>a. ~overlap /\ \A s \in scheds : s.chan \in chans
    BY <1>1, AloneStep DEF NoDangling
  <2>1. CASE WriteSchedule(c)
    BY <2>a, <2>1 DEF CheckedStays, WriteSchedule, At, NoDangling
  <2>2. CASE DropChannel(c)
    BY <2>a, <2>2 DEF CheckedStays, DropChannel, At, NoDangling
  <2>3. ASSUME NEW s \in scheds, ToggleSchedule(c, s) PROVE NoDangling'
    <3>1. [s EXCEPT !.on = ~@].chan = s.chan
      BY DEF Typed, TypeOK, Schedule
    <3>. QED
      BY <2>a, <2>3, <3>1 DEF ToggleSchedule, NoDangling
  <2>4. ASSUME NEW a \in Archives, Restore(c, a) PROVE NoDangling'
    BY <2>4 DEF Restore, NoDangling
  <2>5. ASSUME ~WriteSchedule(c), ~DropChannel(c), \A s \in scheds : ~ToggleSchedule(c, s),
               \A a \in Archives : ~Restore(c, a)
        PROVE  scheds' \subseteq scheds /\ chans \subseteq chans'
    BY <1>1, <2>5 DEF Edit, CreateChannel, DeleteChannel, CreateSchedule, UpdateSchedule,
       ScheduleCall, CheckPool, Reload, DeleteSchedule, storeVars
  <2>. QED
    BY <2>a, <2>1, <2>2, <2>3, <2>4, <2>5 DEF NoDangling
<1>2. ASSUME \A c \in Callers : ~Edit(c) PROVE NoDangling'
  BY <1>2, NoEditFrame DEF NoDangling
<1>. QED
  BY <1>1, <1>2 DEF NoDangling

-----------------------------------------------------------------------------
(* The inductive invariant, and the theorems.                              *)

Inv ==
    /\ Typed
    /\ Counted
    /\ OneJobPerSchedule
    /\ Stopping
    /\ CronFollows
    /\ CheckedStays
    /\ Dated
    /\ Ripe

LEMMA InitInv == Init => Inv
<1>. SUFFICES ASSUME Init PROVE Inv
  OBVIOUS
<1>a. /\ Boot.chans \subseteq Channels /\ Boot.scheds \subseteq Schedule
      /\ \A a \in Archives : a.chans \subseteq Channels /\ a.scheds \subseteq Schedule
  BY StoreAssumption DEF Store
<1>1. Typed
  <2>1. given \subseteq Schedules \cup Channels
    BY <1>a DEF Init, Ids, Schedule
  <2>2. job \in [Jobs -> JobRecords] /\ \A j \in Jobs : JobAt(j, "idle")
    BY DEF Init, NoJob, JobRecords, JobPCs, JobAt
  <2>3. NoCall \in CallRecords /\ NoCall.at = "idle"
    BY DEF NoCall, CallRecords, CallPCs
  <2>4. call \in [Callers -> CallRecords] /\ \A c \in Callers : call[c].at = "idle"
    BY <2>3 DEF Init
  <2>5. /\ chans \subseteq Channels /\ scheds \subseteq Schedule
        /\ cron \subseteq Schedule /\ ticks \subseteq Schedule
        /\ running \subseteq Schedules /\ objects \subseteq Object
        /\ missed \in BOOLEAN /\ overlap \in BOOLEAN /\ stopped \in BOOLEAN
        /\ stopper \in {"up", "cancel", "wait", "drained", "late"}
    BY <1>a DEF Init, Enabled
  <2>6. /\ edits \in 0..MaxWork /\ launched \in 0..MaxWork
        /\ runs \in 0..MaxWork /\ puts \in 0..MaxWork
    BY BoundAssumption DEF Init
  <2>7. wg \in 0..Cardinality(Jobs)
    <3>1. Cardinality(Jobs) \in Nat
      BY JobSets
    <3>. QED
      BY <3>1 DEF Init
  <2>8. TypeOK
    BY <2>1, <2>2, <2>4, <2>5, <2>6, <2>7
       DEF TypeOK, JobRecords, JobPCs, CallRecords, CallPCs
  <2>. QED
    BY <2>2, <2>4, <2>8 DEF Typed, Carried, JobAt
<1>2. Busy = {} /\ Unrecorded = {} /\ Unput = {}
  BY DEF Init, Busy, Unrecorded, Unput, JobAt, NoJob
<1>3. Counted
  BY <1>2, FS_EmptySet, BoundAssumption DEF Init, Counted
<1>4. OneJobPerSchedule
  BY DEF Init, OneJobPerSchedule, Marked, NoJob
<1>5. Stopping /\ CronFollows
  BY DEF Init, Stopping, CronFollows
<1>6. CheckedStays
  BY DEF Init, CheckedStays, Editing, At, NoCall
<1>7. Dated /\ Ripe
  BY FS_EmptySet DEF Init, Dated, Ripe, Known, NoJob
<1>. QED
  BY <1>1, <1>3, <1>4, <1>5, <1>6, <1>7 DEF Inv

LEMMA NextInv == Inv /\ [Next]_vars => Inv'
<1>. SUFFICES ASSUME Inv, [Next]_vars PROVE Inv'
  OBVIOUS
<1>1. Typed'
  BY TypedStep DEF Inv
<1>2. Counted'
  BY CountedStep DEF Inv, Typed
<1>3. OneJobPerSchedule'
  BY OneJobStep DEF Inv
<1>4. Stopping' /\ CronFollows'
  BY StoppingStep, CronStep DEF Inv
<1>5. CheckedStays'
  BY CheckedStep DEF Inv
<1>6. Dated'
  BY DatedStep DEF Inv
<1>7. Ripe'
  BY <1>6, RipeStep DEF Inv
<1>. QED
  BY <1>1, <1>2, <1>3, <1>4, <1>5, <1>6, <1>7 DEF Inv

\* Inv holds in every state of every behaviour.
THEOREM Invariance == Spec => []Inv
BY InitInv, NextInv, PTL DEF Spec

\* The state stays typed, its counters in their bounds: the WaitGroup never
\* goes below zero, which sync.WaitGroup would answer with a panic, and no more
\* runs are recorded or archives uploaded than the work that was begun.
THEOREM TypeCorrect == Spec => []TypeOK
<1>1. Inv => TypeOK
  BY DEF Inv, Typed
<1>. QED
  BY <1>1, Invariance, PTL

\* The guard of launch and the deferred delete keep at most one job per
\* schedule, and a mark for each, whatever is edited, restored or stopped.
THEOREM OneJobAtATime == Spec => []OneJobPerSchedule
<1>1. Inv => OneJobPerSchedule
  BY DEF Inv
<1>. QED
  BY <1>1, Invariance, PTL

\* A Stop that has returned drained has no job left behind it, and none comes.
THEOREM StopIsFinal == Spec => []StopQuiesces
<1>1. Inv => StopQuiesces
  BY ZeroIsIdle DEF Inv, Stopping, StopQuiesces
<1>. QED
  BY <1>1, Invariance, PTL

\* Every launched job is in the history once, or still on its way there.
THEOREM EveryRunRecorded == Spec => []RunsRecorded
<1>1. Inv => RunsRecorded
  BY DEF Inv, Counted, RunsRecorded, Unrecorded
<1>. QED
  BY <1>1, Invariance, PTL

\* With no reload outstanding and every edit flushed, the cron that ticks is
\* what the store enables, and it is empty once Stop has stopped it.
THEOREM CronIsStore == Spec => []CronMatchesStore
<1>1. ASSUME Inv PROVE CronMatchesStore
  <2>1. stopped /\ stopper # "cancel" => cron = {}
    BY <1>1 DEF Inv, Stopping, Typed, TypeOK
  <2>. QED
    BY <1>1, <2>1 DEF Inv, CronFollows, CronMatchesStore
<1>. QED
  BY <1>1, Invariance, PTL

\* Retention never deletes a backup that is among the newest of its pool,
\* whatever other jobs upload and delete between its listing and its deletions.
THEOREM RetentionKeepsNewest == Spec => NewestKept
<1>1. Inv /\ [Next]_vars =>
         [\A o \in objects \ objects' :
             Cardinality({p \in Newer(o, objects') : p.chan = o.chan /\ p.pool = o.pool})
                 >= Retention]_vars
  BY DeletesRipe DEF Inv
<1>. QED
  BY <1>1, Invariance, PTL DEF Spec, NewestKept

\* While no two edits have overlapped no two schedules come to share a pool,
\* provided they did not in the store the daemon booted with and in the
\* archives that are restored, which the code does not check.
THEOREM PoolsStayApart ==
    ASSUME Apart(Boot), \A a \in Archives : Apart(a)
    PROVE  Spec => []PoolsApart
<1>1. Init => PoolsApart
  BY DEF Init, PoolsApart, Apart
<1>2. Inv /\ PoolsApart /\ [Next]_vars => PoolsApart'
  BY ApartStep DEF Inv
<1>. QED
  BY <1>1, <1>2, Invariance, PTL DEF Spec

\* While no two edits have overlapped no schedule loses its channel, provided
\* none was without it at boot; the archives may be anything, because a restore
\* drops the schedules it would leave dangling.
THEOREM NothingDangles ==
    ASSUME Whole(Boot)
    PROVE  Spec => []NoDangling
<1>1. Init => NoDangling
  BY DEF Init, NoDangling, Whole
<1>2. Inv /\ NoDangling /\ [Next]_vars => NoDangling'
  BY DanglingStep DEF Inv
<1>. QED
  BY <1>1, <1>2, Invariance, PTL DEF Spec

=============================================================================
