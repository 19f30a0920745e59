---------------------- MODULE InstanceLifecycleProofs ------------------------
(***************************************************************************)
(* Theorems about InstanceLifecycle, for every set of callers and every    *)
(* bound on the runs.                                                      *)
(*                                                                         *)
(* The first part holds however the callers interleave.  It rests on Inv,  *)
(* which adds to the properties what is known of runs that are not         *)
(* launched yet (Fresh, Launching) and of runs whose runLoop is leaving    *)
(* (LeavingIsClosed, LetGo).  The second part is about an instance whose   *)
(* callers come one at a time.                                             *)
(***************************************************************************)
EXTENDS InstanceLifecycle, TLAPS, FiniteSetTheorems

Inv ==
    /\ TypeOK
    /\ WaitGroupExact
    /\ Fresh
    /\ Launching
    /\ LeavingIsClosed
    /\ LetGo

-----------------------------------------------------------------------------
(* Facts about sets of runs.                                               *)

\* Sets of runs are finite, so the WaitGroup equation adds natural numbers.
LEMMA RunsFinite ==
    ASSUME NEW S, S \subseteq Runs
    PROVE  IsFiniteSet(S) /\ Cardinality(S) \in Nat
<1>1. IsFiniteSet(Runs)
  BY FS_Interval, MaxRunsAssumption DEF Runs
<1>2. IsFiniteSet(S)
  BY <1>1, FS_Subset
<1>. QED
  BY <1>2, FS_CardinalityType

\* A goroutine that starts adds one to its set.
LEMMA OneMore ==
    ASSUME NEW S, NEW r \in Runs, S \subseteq Runs, r \notin S
    PROVE  Cardinality(S \cup {r}) = Cardinality(S) + 1
BY RunsFinite, FS_AddElement

\* A goroutine that ends takes one from its set.
LEMMA OneLess ==
    ASSUME NEW S, NEW r \in Runs, S \subseteq Runs, r \in S
    PROVE  Cardinality(S \ {r}) = Cardinality(S) - 1
BY RunsFinite, FS_RemoveElement

\* An empty WaitGroup means that no goroutine is left.
LEMMA ZeroMeansNone ==
    ASSUME WaitGroupExact, runWG = 0
    PROVE  Looping = {} /\ Polling = {}
<1>1. Looping \subseteq Runs /\ Polling \subseteq Runs
  BY DEF Looping, Polling
<1>2. Cardinality(Looping) \in Nat /\ Cardinality(Polling) \in Nat
  BY <1>1, RunsFinite
<1>3. Cardinality(Looping) = 0 /\ Cardinality(Polling) = 0
  BY <1>2 DEF WaitGroupExact
<1>. QED
  BY <1>1, <1>3, RunsFinite, FS_EmptySet

-----------------------------------------------------------------------------
(* The WaitGroup.                                                          *)

\* A step that leaves both sets of goroutines and the counter alone.
LEMMA SameGoroutines ==
    ASSUME WaitGroupExact, runWG' = runWG, Looping' = Looping, Polling' = Polling
    PROVE  WaitGroupExact'
BY DEF WaitGroupExact

\* The runLoop of r ends and calls Done.
LEMMA LoopDone ==
    ASSUME WaitGroupExact, NEW r \in Runs, LoopAlive(r), loop \in [Runs -> LoopPCs],
           loop' = [loop EXCEPT ![r] = "gone"], poller' = poller,
           runWG' = runWG - 1
    PROVE  WaitGroupExact'
<1>1. Looping' = Looping \ {r} /\ r \in Looping
  BY DEF Looping, LoopAlive
<1>2. Polling' = Polling
  BY DEF Polling, PollAlive
<1>3. Cardinality(Looping') = Cardinality(Looping) - 1
  BY <1>1, OneLess DEF Looping
<1>4. Cardinality(Looping) \in Nat /\ Cardinality(Polling) \in Nat
  BY RunsFinite DEF Looping, Polling
<1>. QED
  BY <1>2, <1>3, <1>4 DEF WaitGroupExact

\* The runLoop of r moves on without ending.
LEMMA LoopMoves ==
    ASSUME WaitGroupExact, NEW r \in Runs, LoopAlive(r), loop \in [Runs -> LoopPCs],
           NEW l \in LoopPCs \ {"none", "gone"},
           loop' = [loop EXCEPT ![r] = l], poller' = poller, runWG' = runWG
    PROVE  WaitGroupExact'
<1>1. Looping' = Looping
  BY DEF Looping, LoopAlive
<1>2. Polling' = Polling
  BY DEF Polling, PollAlive
<1>. QED
  BY <1>1, <1>2, SameGoroutines

\* Each step keeps the count exact.
LEMMA WaitGroupStep ==
    ASSUME TypeOK, Fresh, Launching, WaitGroupExact, [Next]_vars
    PROVE  WaitGroupExact'
<1>. USE DEF TypeOK
<1>1. ASSUME UNCHANGED <<loop, poller, runWG>> PROVE WaitGroupExact'
  <2>1. Looping' = Looping /\ Polling' = Polling
    BY <1>1 DEF Looping, Polling, LoopAlive, PollAlive
  <2>. QED
    BY <1>1, <2>1, SameGoroutines
<1>2. ASSUME NEW c \in Callers, Call(c) \/ CallerStep(c), ~StartLaunch(c)
      PROVE  WaitGroupExact'
  BY <1>1, <1>2 DEF Call, CallerStep, StartStep, StopStep, ShutdownStep,
     StartClaim, StartFail, StartInstall, StartUp, CallerTell, StopClaim,
     StopCancel, StopDrained, StopPark, StopWoken, StopReused, StopUnset,
     StopClear, StopSettle, ShutdownCancel,
     ShutdownNothing, instanceVars, runVars, callerVars
<1>3. ASSUME NEW c \in Callers, StartLaunch(c) PROVE WaitGroupExact'
  <2>. DEFINE r == mine[c]
  <2>1. r \in Runs /\ loop[r] = "none" /\ poller[r] = "none"
    BY <1>3 DEF StartLaunch, Launching, Fresh
  <2>2. Looping' = Looping \cup {r} /\ r \notin Looping
    BY <1>3, <2>1 DEF StartLaunch, Looping, LoopAlive
  <2>3. Polling' = Polling \cup {r} /\ r \notin Polling
    BY <1>3, <2>1 DEF StartLaunch, Polling, PollAlive
  <2>4. Looping \subseteq Runs /\ Polling \subseteq Runs
    BY DEF Looping, Polling
  <2>5. /\ Cardinality(Looping') = Cardinality(Looping) + 1
        /\ Cardinality(Polling') = Cardinality(Polling) + 1
    BY <2>1, <2>2, <2>3, <2>4, OneMore
  <2>6. Cardinality(Looping) \in Nat /\ Cardinality(Polling) \in Nat
    BY <2>4, RunsFinite
  <2>. QED
    BY <1>3, <2>5, <2>6 DEF StartLaunch, WaitGroupExact
<1>4. ASSUME NEW r \in Runs, FrpcReturn(r) \/ FrpcPanic(r) PROVE WaitGroupExact'
  BY <1>1, <1>4 DEF FrpcReturn, FrpcPanic, runVars
<1>5. ASSUME NEW r \in Runs, LoopStep(r) PROVE WaitGroupExact'
  <2>1. CASE LoopCancelled(r)
    BY <2>1, LoopDone DEF LoopCancelled, LoopAlive, Done
  <2>2. CASE LoopExit(r)
    BY <2>2, LoopMoves DEF LoopExit, LoopAlive, LoopPCs
  <2>3. CASE LoopRelease(r)
    BY <2>3, LoopMoves DEF LoopRelease, LoopAlive, LoopPCs
  <2>4. CASE LoopClear(r)
    BY <2>4, LoopMoves DEF LoopClear, LoopAlive, LoopPCs
  <2>5. CASE LoopSettle(r)
    BY <2>5, LoopMoves, LoopDone DEF LoopSettle, LoopAlive, LoopPCs, Done
  <2>6. CASE LoopTell(r)
    BY <2>6, LoopDone DEF LoopTell, LoopAlive, Done
  <2>. QED
    BY <1>5, <2>1, <2>2, <2>3, <2>4, <2>5, <2>6 DEF LoopStep
<1>6. ASSUME NEW r \in Runs, PollRead(r) \/ PollStore(r) PROVE WaitGroupExact'
  <2>1. Looping' = Looping /\ Polling' = Polling /\ runWG' = runWG
    BY <1>6 DEF PollRead, PollStore, Looping, Polling, LoopAlive, PollAlive
  <2>. QED
    BY <2>1, SameGoroutines
<1>7. ASSUME NEW r \in Runs, PollExit(r) PROVE WaitGroupExact'
  <2>1. Polling' = Polling \ {r} /\ r \in Polling /\ Looping' = Looping
    BY <1>7 DEF PollExit, Looping, Polling, LoopAlive, PollAlive
  <2>2. Cardinality(Polling') = Cardinality(Polling) - 1
    BY <2>1, OneLess DEF Polling
  <2>3. Cardinality(Looping) \in Nat /\ Cardinality(Polling) \in Nat
    BY RunsFinite DEF Looping, Polling
  <2>. QED
    BY <1>7, <2>1, <2>2, <2>3 DEF PollExit, WaitGroupExact, Done
<1>8. CASE UNCHANGED vars
  BY <1>1, <1>8 DEF vars, runVars
<1>. QED
  BY <1>2, <1>3, <1>4, <1>5, <1>6, <1>7, <1>8 DEF Next, Poll

-----------------------------------------------------------------------------
(* Types.                                                                  *)

\* Every step keeps the types.  That runWG stays a natural number is not a
\* matter of shape: it follows from the count being exact after the step.
LEMMA TypeStep ==
    ASSUME TypeOK, Launching, WaitGroupExact', [Next]_vars
    PROVE  TypeOK'
<1>1. runWG' \in Nat
  <2>1. Cardinality(Looping') \in Nat /\ Cardinality(Polling') \in Nat
    BY RunsFinite DEF Looping, Polling
  <2>. QED
    BY <2>1 DEF WaitGroupExact
<1>. USE <1>1 DEF TypeOK, States, FrpcPCs, LoopPCs, PollPCs, CallPCs, NoRun,
     instanceVars, runVars, callerVars
<1>2. ASSUME NEW c \in Callers, StartStep(c) \/ StartClaim(c) PROVE TypeOK'
  <2>1. CASE StartClaim(c)
    BY <2>1 DEF StartClaim, Goto
  <2>2. CASE StartFail(c)
    BY <2>2 DEF StartFail, CallerSetState, Return, Goto
  <2>3. CASE StartInstall(c)
    <3>1. created' \in Runs /\ created' \in 0..MaxRuns
      BY <2>3, MaxRunsAssumption DEF StartInstall, Runs
    <3>. QED
      BY <2>3, <3>1 DEF StartInstall, Goto
  <2>4. CASE StartLaunch(c)
    BY <2>4 DEF StartLaunch, Goto, Launching
  <2>5. CASE StartUp(c)
    BY <2>5 DEF StartUp, CallerSetState, Return, Goto
  <2>. QED
    BY <1>2, <2>1, <2>2, <2>3, <2>4, <2>5 DEF StartStep
<1>3. ASSUME NEW c \in Callers, StopStep(c) \/ StopClaim(c) PROVE TypeOK'
  <2>1. CASE StopClaim(c)
    BY <2>1 DEF StopClaim, Goto
  <2>2. CASE StopCancel(c)
    BY <2>2 DEF StopCancel, Goto
  <2>3. CASE StopDrained(c) \/ StopUnset(c) \/ StopClear(c)
    BY <2>3 DEF StopDrained, StopUnset, StopClear, Goto
  <2>4. CASE StopSettle(c)
    BY <2>4 DEF StopSettle, CallerSetState, Return, Goto
  <2>5. CASE StopPark(c) \/ StopWoken(c) \/ StopReused(c)
    BY <2>5 DEF StopPark, StopWoken, StopReused, Return, Goto
  <2>. QED
    BY <1>3, <2>1, <2>2, <2>3, <2>4, <2>5 DEF StopStep
<1>4. ASSUME NEW c \in Callers, ShutdownCancel(c) \/ ShutdownNothing(c) \/ CallerTell(c)
      PROVE  TypeOK'
  BY <1>4 DEF ShutdownCancel, ShutdownNothing, CallerTell, Return, Goto
<1>5. ASSUME NEW r \in Runs, FrpcReturn(r) \/ FrpcPanic(r) PROVE TypeOK'
  BY <1>5 DEF FrpcReturn, FrpcPanic
<1>6. ASSUME NEW r \in Runs, LoopStep(r) PROVE TypeOK'
  <2>1. CASE LoopCancelled(r) \/ LoopExit(r)
    BY <2>1 DEF LoopCancelled, LoopExit, Done
  <2>2. CASE LoopRelease(r) \/ LoopClear(r)
    BY <2>2 DEF LoopRelease, LoopClear
  <2>3. CASE LoopSettle(r) \/ LoopTell(r)
    BY <2>3 DEF LoopSettle, LoopTell, Done
  <2>. QED
    BY <1>6, <2>1, <2>2, <2>3 DEF LoopStep
<1>7. ASSUME NEW r \in Runs, Poll(r) PROVE TypeOK'
  BY <1>7 DEF Poll, PollRead, PollStore, PollExit, Done
<1>8. CASE UNCHANGED vars
  BY <1>8 DEF vars
<1>. QED
  BY <1>2, <1>3, <1>4, <1>5, <1>6, <1>7, <1>8
  DEF Next, Call, CallerStep, ShutdownStep

-----------------------------------------------------------------------------
(* Runs that are not launched yet.                                         *)

\* A run that was not created or not launched keeps having no goroutine.
LEMMA FreshStep ==
    ASSUME TypeOK, Fresh, Launching, [Next]_vars
    PROVE  Fresh'
<1>. USE DEF TypeOK
<1>1. ASSUME UNCHANGED <<created, frpc, loop, poller>> PROVE Fresh'
  BY <1>1 DEF Fresh
<1>2. ASSUME NEW c \in Callers, Call(c) \/ CallerStep(c),
             ~StartInstall(c), ~StartLaunch(c)
      PROVE  Fresh'
  BY <1>1, <1>2 DEF Call, CallerStep, StartStep, StopStep, ShutdownStep,
     StartClaim, StartFail, StartUp, CallerTell, StopClaim, StopCancel,
     StopDrained, StopPark, StopWoken, StopReused, StopUnset, StopClear,
     StopSettle, ShutdownCancel, ShutdownNothing, instanceVars, runVars, callerVars
<1>3. ASSUME NEW c \in Callers, StartInstall(c) PROVE Fresh'
  BY <1>3 DEF StartInstall, Fresh, Runs
<1>4. ASSUME NEW c \in Callers, StartLaunch(c) PROVE Fresh'
  BY <1>4 DEF StartLaunch, Fresh, Launching, instanceVars, Runs
<1>5. ASSUME NEW r \in Runs, FrpcReturn(r) \/ FrpcPanic(r) PROVE Fresh'
  BY <1>5 DEF FrpcReturn, FrpcPanic, Fresh, instanceVars, runVars, Runs
<1>6. ASSUME NEW r \in Runs, LoopStep(r) PROVE Fresh'
  BY <1>6 DEF LoopStep, LoopCancelled, LoopExit, LoopRelease, LoopClear,
     LoopSettle, LoopTell, Fresh, instanceVars, Runs
<1>7. ASSUME NEW r \in Runs, Poll(r) PROVE Fresh'
  BY <1>7 DEF Poll, PollRead, PollStore, PollExit, Fresh, instanceVars, Runs
<1>8. CASE UNCHANGED vars
  BY <1>1, <1>8 DEF vars, instanceVars, runVars
<1>. QED
  BY <1>2, <1>3, <1>4, <1>5, <1>6, <1>7, <1>8 DEF Next

\* The run a caller is about to launch stays its own.
LEMMA LaunchingStep ==
    ASSUME TypeOK, Fresh, Launching, [Next]_vars
    PROVE  Launching'
<1>. USE DEF TypeOK
<1>1. ASSUME NEW c \in Callers, NEW l \in CallPCs \ {"launch"},
             pc' = [pc EXCEPT ![c] = l], frpc' = frpc,
             NEW m, mine' = [mine EXCEPT ![c] = m]
      PROVE  Launching'
  BY <1>1 DEF Launching
<1>2. ASSUME NEW c \in Callers, NEW l \in CallPCs \ {"launch"},
             pc' = [pc EXCEPT ![c] = l], frpc' = frpc, mine' = mine
      PROVE  Launching'
  BY <1>2 DEF Launching
<1>3. ASSUME NEW c \in Callers, StartInstall(c) PROVE Launching'
  <2>1. created' \in Runs /\ frpc[created'] = "none"
    BY <1>3, MaxRunsAssumption DEF StartInstall, Fresh, Runs
  <2>2. mine'[c] = created' /\ frpc'[created'] = "created" /\ pc'[c] = "launch"
    BY <1>3, <2>1 DEF StartInstall, Goto
  <2>3. \A d \in Callers \ {c} :
           /\ pc'[d] = pc[d] /\ mine'[d] = mine[d]
           /\ pc[d] = "launch" => mine[d] # created' /\ mine[d] \in Runs
                                 /\ frpc'[mine[d]] = "created"
    BY <1>3, <2>1 DEF StartInstall, Goto, Launching
  <2>. QED
    BY <2>1, <2>2, <2>3 DEF Launching
<1>4. ASSUME NEW c \in Callers, StartLaunch(c) PROVE Launching'
  <2>1. \A d \in Callers : pc'[d] = "launch" => d # c /\ pc[d] = "launch"
    BY <1>4 DEF StartLaunch, Goto
  <2>2. \A d \in Callers : pc'[d] = "launch" => mine[d] # mine[c]
    BY <1>4, <2>1 DEF StartLaunch, Launching
  <2>3. mine' = mine /\ \A r \in Runs : r # mine[c] => frpc'[r] = frpc[r]
    BY <1>4 DEF StartLaunch
  <2>. QED
    BY <2>1, <2>2, <2>3 DEF Launching
<1>5. ASSUME NEW c \in Callers, Call(c) \/ CallerStep(c),
             ~StartInstall(c), ~StartLaunch(c), ~StopReused(c)
      PROVE  Launching'
  <2>1. PICK l \in CallPCs \ {"launch"} :
           /\ pc' = [pc EXCEPT ![c] = l]
           /\ \/ mine' = mine
              \/ \E m \in Runs \cup {NoRun} : mine' = [mine EXCEPT ![c] = m]
    BY <1>5 DEF Call, CallerStep, StartStep, StopStep, ShutdownStep,
       StartClaim, StartFail, StartUp, CallerTell, StopClaim, StopCancel,
       StopDrained, StopPark, StopWoken, StopUnset, StopClear,
       StopSettle, ShutdownCancel, ShutdownNothing, CallerSetState, Return, Goto, CallPCs
  <2>2. frpc' = frpc
    BY <1>5 DEF Call, CallerStep, StartStep, StopStep, ShutdownStep,
       StartClaim, StartFail, StartUp, CallerTell, StopClaim, StopCancel,
       StopDrained, StopPark, StopWoken, StopUnset, StopClear,
       StopSettle, ShutdownCancel, ShutdownNothing, runVars
  <2>. QED
    BY <1>1, <1>2, <2>1, <2>2
<1>9. ASSUME NEW c \in Callers, StopReused(c) PROVE Launching'
  BY <1>9 DEF StopReused, Return, Goto, Launching, callerVars, runVars
<1>6. ASSUME NEW r \in Runs, FrpcReturn(r) \/ FrpcPanic(r) PROVE Launching'
  BY <1>6 DEF FrpcReturn, FrpcPanic, Launching, callerVars, runVars
<1>7. ASSUME NEW r \in Runs, LoopStep(r) \/ Poll(r) PROVE Launching'
  BY <1>7 DEF LoopStep, LoopCancelled, LoopExit, LoopRelease, LoopClear,
     LoopSettle, LoopTell, Poll, PollRead, PollStore, PollExit, Launching,
     callerVars
<1>8. CASE UNCHANGED vars
  BY <1>8 DEF vars, Launching, callerVars, runVars
<1>. QED
  BY <1>3, <1>4, <1>5, <1>6, <1>7, <1>8, <1>9 DEF Next

-----------------------------------------------------------------------------
(* Runs whose runLoop is leaving.                                          *)

\* A runLoop on its way out has closed the service, and a close is final.
LEMMA LeavingStep ==
    ASSUME TypeOK, Launching, LeavingIsClosed, [Next]_vars
    PROVE  LeavingIsClosed'
<1>. USE DEF TypeOK
<1>1. ASSUME loop' = loop, closed \subseteq closed' PROVE LeavingIsClosed'
  BY <1>1 DEF LeavingIsClosed
<1>2. ASSUME NEW c \in Callers, Call(c) \/ CallerStep(c), ~StartLaunch(c)
      PROVE  LeavingIsClosed'
  BY <1>1, <1>2 DEF Call, CallerStep, StartStep, StopStep, ShutdownStep,
     StartClaim, StartFail, StartInstall, StartUp, CallerTell, StopClaim,
     StopCancel, StopDrained, StopPark, StopWoken, StopReused, StopUnset,
     StopClear, StopSettle, ShutdownCancel,
     ShutdownNothing, instanceVars, runVars, callerVars
<1>3. ASSUME NEW c \in Callers, StartLaunch(c) PROVE LeavingIsClosed'
  BY <1>3 DEF StartLaunch, LeavingIsClosed, Launching, instanceVars
<1>4. ASSUME NEW r \in Runs, LoopStep(r) PROVE LeavingIsClosed'
  BY <1>4 DEF LoopStep, LoopCancelled, LoopExit, LoopRelease, LoopClear,
     LoopSettle, LoopTell, LeavingIsClosed, instanceVars
<1>5. ASSUME NEW r \in Runs, FrpcReturn(r) \/ FrpcPanic(r) \/ Poll(r)
      PROVE  LeavingIsClosed'
  BY <1>1, <1>5 DEF FrpcReturn, FrpcPanic, Poll, PollRead, PollStore, PollExit,
     instanceVars, runVars
<1>6. CASE UNCHANGED vars
  BY <1>1, <1>6 DEF vars, instanceVars, runVars
<1>. QED
  BY <1>2, <1>3, <1>4, <1>5, <1>6 DEF Next

\* The only step that gives the instance handles is StartInstall, and it gives
\* it those of a run without a runLoop.
LEMMA LetGoStep ==
    ASSUME TypeOK, Fresh, Launching, LetGo, [Next]_vars
    PROVE  LetGo'
<1>. USE DEF TypeOK
<1>1. ASSUME loop' = loop, current' \in {current, NoRun},
             cancelled \subseteq cancelled', rootDone => rootDone'
      PROVE  LetGo'
  BY <1>1 DEF LetGo, CtxDone, NoRun, Runs
<1>2. ASSUME NEW c \in Callers, Call(c) \/ CallerStep(c),
             ~StartInstall(c), ~StartLaunch(c)
      PROVE  LetGo'
  BY <1>1, <1>2 DEF Call, CallerStep, StartStep, StopStep, ShutdownStep,
     StartClaim, StartFail, StartUp, CallerTell, StopClaim, StopCancel,
     StopDrained, StopPark, StopWoken, StopReused, StopUnset, StopClear,
     StopSettle, ShutdownCancel, ShutdownNothing, instanceVars, runVars, callerVars
<1>3. ASSUME NEW c \in Callers, StartInstall(c) PROVE LetGo'
  <2>1. created' \in Runs /\ loop[created'] = "none"
    BY <1>3, MaxRunsAssumption DEF StartInstall, Fresh, Runs
  <2>2. current' = created' /\ loop' = loop
    BY <1>3 DEF StartInstall
  <2>. QED
    BY <2>1, <2>2 DEF LetGo
<1>4. ASSUME NEW c \in Callers, StartLaunch(c) PROVE LetGo'
  BY <1>4 DEF StartLaunch, LetGo, CtxDone, Launching, instanceVars
<1>5. ASSUME NEW r \in Runs, LoopStep(r) PROVE LetGo'
  <2>1. CASE LoopCancelled(r)
    BY <2>1 DEF LoopCancelled, LetGo, CtxDone
  <2>2. CASE LoopRelease(r)
    BY <2>2 DEF LoopRelease, LetGo, NoRun, Runs
  <2>3. CASE LoopExit(r) \/ LoopClear(r) \/ LoopSettle(r) \/ LoopTell(r)
    BY <2>3 DEF LoopExit, LoopClear, LoopSettle, LoopTell, LetGo, CtxDone,
       instanceVars
  <2>. QED
    BY <1>5, <2>1, <2>2, <2>3 DEF LoopStep
<1>6. ASSUME NEW r \in Runs, FrpcReturn(r) \/ FrpcPanic(r) \/ Poll(r)
      PROVE  LetGo'
  BY <1>1, <1>6 DEF FrpcReturn, FrpcPanic, Poll, PollRead, PollStore, PollExit,
     instanceVars, runVars
<1>7. CASE UNCHANGED vars
  BY <1>1, <1>7 DEF vars, instanceVars, runVars
<1>. QED
  BY <1>2, <1>3, <1>4, <1>5, <1>6, <1>7 DEF Next

-----------------------------------------------------------------------------
(* The invariant, and what follows from it for callers that interleave in  *)
(* any way.                                                                *)

\* The instance as newInstance makes it satisfies the invariant, ...
LEMMA InitInv == Init => Inv
<1>. SUFFICES ASSUME Init PROVE Inv
  OBVIOUS
<1>1. TypeOK
  <2>1. created \in 0..MaxRuns /\ runWG \in Nat
    BY MaxRunsAssumption DEF Init
  <2>. QED
    BY <2>1 DEF Init, TypeOK, States, FrpcPCs, LoopPCs, PollPCs, CallPCs
<1>2. WaitGroupExact
  <2>1. Looping = {} /\ Polling = {}
    BY DEF Init, Looping, Polling, LoopAlive, PollAlive
  <2>. QED
    BY <2>1, FS_EmptySet DEF Init, WaitGroupExact
<1>3. Fresh /\ Launching /\ LeavingIsClosed /\ LetGo
  BY DEF Init, Fresh, Launching, LeavingIsClosed, LetGo
<1>. QED
  BY <1>1, <1>2, <1>3 DEF Inv

\* ... every step keeps it, ...
LEMMA NextInv == Inv /\ [Next]_vars => Inv'
<1>. SUFFICES ASSUME Inv, [Next]_vars PROVE Inv'
  OBVIOUS
<1>. USE DEF Inv
<1>1. WaitGroupExact'
  BY WaitGroupStep
<1>2. TypeOK'
  BY <1>1, TypeStep
<1>3. Fresh' /\ Launching'
  BY FreshStep, LaunchingStep
<1>4. LeavingIsClosed' /\ LetGo'
  BY LeavingStep, LetGoStep
<1>. QED
  BY <1>1, <1>2, <1>3, <1>4

\* ... and so it holds in every behaviour, however the callers interleave.
THEOREM Invariance == Spec => []Inv
BY InitInv, NextInv, PTL DEF Spec

\* The variables keep their types; in particular the WaitGroup counter never
\* becomes negative, which in Go is a panic.
THEOREM TypeCorrect == Spec => []TypeOK
<1>1. Inv => TypeOK
  BY DEF Inv
<1>. QED
  BY <1>1, Invariance, PTL

\* The WaitGroup counts the goroutines of the instance, for any callers.
THEOREM WaitGroupCorrect == Spec => []WaitGroupExact
<1>1. Inv => WaitGroupExact
  BY DEF Inv
<1>. QED
  BY <1>1, Invariance, PTL

\* No runLoop ends with its frpc service open, for any callers.
THEOREM EndedRunsAreClosed == Spec => []EndedRunIsClosed
<1>1. Inv => EndedRunIsClosed
  BY DEF Inv, LeavingIsClosed, EndedRunIsClosed
<1>. QED
  BY <1>1, Invariance, PTL

\* The handles an instance holds are those of a live run or of one whose
\* context is done, for any callers.
THEOREM HeldHandlesAreUsable == Spec => []HeldHandleUsable
<1>1. Inv => HeldHandleUsable
  BY DEF Inv, TypeOK, LetGo, HeldHandleUsable
<1>. QED
  BY <1>1, Invariance, PTL

-----------------------------------------------------------------------------
(* Callers that come one at a time: one goroutine makes every call.        *)

SerialCallers == \A c, d \in Callers : c = d

SerialInv ==
    /\ Inv
    /\ OneBusy
    /\ Watched
    /\ HeldUntilDone
    /\ WokenIsDrained
    /\ StopDrains

\* A start is let in only when nothing is busy, and nothing becomes busy
\* except by the launch that ends it.
LEMMA OneBusyStep ==
    ASSUME SerialCallers, Inv, WokenIsDrained, OneBusy, [Next]_vars
    PROVE  OneBusy'
<1>. USE DEF Inv, TypeOK
<1>1. ASSUME UNCHANGED <<loop, state, pc>> PROVE OneBusy'
  BY <1>1 DEF OneBusy, Busy
<1>2. ASSUME NEW c \in Callers, StartClaim(c) \/ StartFail(c) \/ StartInstall(c)
      PROVE  OneBusy'
  BY <1>2 DEF StartClaim, StartFail, StartInstall, CallerSetState, Return, Goto,
     OneBusy, Busy, SerialCallers, runVars
<1>3. ASSUME NEW c \in Callers, StartLaunch(c) PROVE OneBusy'
  <2>1. \A r \in Runs : ~Busy(r)
    BY <1>3 DEF StartLaunch, OneBusy
  <2>2. \A r \in Runs : Busy(r)' => r = mine[c]
    BY <1>3, <2>1 DEF StartLaunch, Busy
  <2>3. \A d \in Callers : pc'[d] = "up"
    BY <1>3 DEF StartLaunch, Goto, SerialCallers
  <2>. QED
    BY <2>2, <2>3 DEF OneBusy
<1>4. ASSUME NEW c \in Callers, StartUp(c) \/ CallerTell(c) PROVE OneBusy'
  BY <1>4 DEF StartUp, CallerTell, CallerSetState, Return, Goto, OneBusy, Busy,
     SerialCallers, runVars, instanceVars
<1>5. ASSUME NEW c \in Callers, StopClaim(c) \/ StopCancel(c) PROVE OneBusy'
  BY <1>5 DEF StopClaim, StopCancel, Goto, OneBusy, Busy, SerialCallers, runVars
<1>6. ASSUME NEW c \in Callers, StopDrained(c) \/ StopWoken(c) PROVE OneBusy'
  <2>1. \A r \in Runs : ~Busy(r)
    BY <1>6, ZeroMeansNone DEF StopDrained, StopWoken, Looping, LoopAlive, Busy
  <2>. QED
    BY <1>6, <2>1 DEF StopDrained, StopWoken, OneBusy, Busy, Goto, runVars
<1>12. ASSUME NEW c \in Callers, StopPark(c) \/ StopReused(c) PROVE OneBusy'
  BY <1>12 DEF StopPark, StopReused, WokenIsDrained, Goto, OneBusy, Busy,
     SerialCallers
<1>7. ASSUME NEW c \in Callers, StopUnset(c) \/ StopClear(c) \/ StopSettle(c)
      PROVE  OneBusy'
  BY <1>7 DEF StopUnset, StopClear, StopSettle, CallerSetState, Return, Goto,
     OneBusy, Busy, SerialCallers, runVars
<1>8. ASSUME NEW c \in Callers, ShutdownCancel(c) \/ ShutdownNothing(c)
      PROVE  OneBusy'
  BY <1>8 DEF ShutdownCancel, ShutdownNothing, Return, Goto, OneBusy, Busy,
     SerialCallers, runVars, instanceVars
<1>9. ASSUME NEW r \in Runs, LoopStep(r) PROVE OneBusy'
  <2>1. CASE LoopCancelled(r) \/ LoopExit(r) \/ LoopRelease(r) \/ LoopClear(r)
    BY <2>1 DEF LoopCancelled, LoopExit, LoopRelease, LoopClear, OneBusy, Busy,
       callerVars
  <2>2. CASE LoopSettle(r)
    <3>1. \A s \in Runs : ~Busy(s)'
      BY <2>2 DEF LoopSettle, OneBusy, Busy
    <3>. QED
      BY <3>1 DEF OneBusy
  <2>3. CASE LoopTell(r)
    BY <2>3 DEF LoopTell, OneBusy, Busy, callerVars, instanceVars
  <2>. QED
    BY <1>9, <2>1, <2>2, <2>3 DEF LoopStep
<1>10. ASSUME NEW r \in Runs, FrpcReturn(r) \/ FrpcPanic(r) \/ Poll(r)
       PROVE  OneBusy'
  BY <1>1, <1>10 DEF FrpcReturn, FrpcPanic, Poll, PollRead, PollStore, PollExit,
     instanceVars, runVars, callerVars
<1>11. CASE UNCHANGED vars
  BY <1>1, <1>11 DEF vars, instanceVars, runVars, callerVars
<1>. QED
  BY <1>2, <1>3, <1>4, <1>5, <1>6, <1>7, <1>8, <1>9, <1>10, <1>11, <1>12
  DEF Next, Call, CallerStep, StartStep, StopStep, ShutdownStep

\* svc.Run is under way only under a runLoop that waits for it, or closed.
LEMMA WatchedStep ==
    ASSUME Inv, Watched, [Next]_vars
    PROVE  Watched'
<1>. USE DEF Inv, TypeOK
<1>1. ASSUME UNCHANGED <<frpc, loop>>, closed \subseteq closed' PROVE Watched'
  BY <1>1 DEF Watched
<1>2. ASSUME NEW c \in Callers, Call(c) \/ CallerStep(c),
             ~StartInstall(c), ~StartLaunch(c)
      PROVE  Watched'
  BY <1>1, <1>2 DEF Call, CallerStep, StartStep, StopStep, ShutdownStep,
     StartClaim, StartFail, StartUp, CallerTell, StopClaim, StopCancel,
     StopDrained, StopPark, StopWoken, StopReused, StopUnset, StopClear,
     StopSettle, ShutdownCancel, ShutdownNothing, instanceVars, runVars, callerVars
<1>3. ASSUME NEW c \in Callers, StartInstall(c) \/ StartLaunch(c) PROVE Watched'
  BY <1>3 DEF StartInstall, StartLaunch, Watched, instanceVars
<1>4. ASSUME NEW r \in Runs, LoopStep(r) PROVE Watched'
  BY <1>4 DEF LoopStep, LoopCancelled, LoopExit, LoopRelease, LoopClear,
     LoopSettle, LoopTell, Watched, instanceVars
<1>5. ASSUME NEW r \in Runs, FrpcReturn(r) \/ FrpcPanic(r) \/ Poll(r)
      PROVE  Watched'
  BY <1>5 DEF FrpcReturn, FrpcPanic, Poll, PollRead, PollStore, PollExit,
     Watched, instanceVars, runVars
<1>6. CASE UNCHANGED vars
  BY <1>1, <1>6 DEF vars, instanceVars, runVars
<1>. QED
  BY <1>2, <1>3, <1>4, <1>5, <1>6 DEF Next

\* With one caller nobody takes the handles of a run away before the context of
\* that run is done.
LEMMA HeldStep ==
    ASSUME SerialCallers, Inv, WokenIsDrained, OneBusy, HeldUntilDone, [Next]_vars
    PROVE  HeldUntilDone'
<1>. USE DEF Inv, TypeOK
<1>1. ASSUME UNCHANGED <<loop, current, mine>>,
             \A c \in Callers : pc'[c] = "launch" => pc[c] = "launch",
             cancelled \subseteq cancelled', rootDone => rootDone'
      PROVE  HeldUntilDone'
  BY <1>1 DEF HeldUntilDone, CtxDone
<1>2. ASSUME NEW c \in Callers,
             \/ StartClaim(c) \/ StopCancel(c) \/ StopDrained(c) \/ StopPark(c)
             \/ StopWoken(c) \/ StopReused(c) \/ StopClear(c) \/ ShutdownCancel(c)
      PROVE  HeldUntilDone'
  BY <1>1, <1>2 DEF StartClaim, StopCancel, StopDrained, StopPark, StopWoken,
     StopReused, WokenIsDrained, StopClear, ShutdownCancel, Goto, instanceVars,
     runVars
<1>3. ASSUME NEW c \in Callers,
             \/ StartFail(c) \/ StartUp(c) \/ CallerTell(c) \/ StopClaim(c)
             \/ StopSettle(c) \/ ShutdownNothing(c)
      PROVE  HeldUntilDone'
  <2>1. pc'[c] # "launch" /\ \A d \in Callers : d = c
    BY <1>3 DEF StartFail, StartUp, CallerTell, StopClaim, StopSettle,
       ShutdownNothing, CallerSetState, Return, Goto, SerialCallers
  <2>2. UNCHANGED <<loop, current, cancelled, rootDone>>
    BY <1>3 DEF StartFail, StartUp, CallerTell, StopClaim, StopSettle,
       ShutdownNothing, instanceVars, runVars
  <2>. QED
    BY <2>1, <2>2 DEF HeldUntilDone, CtxDone
<1>4. ASSUME NEW c \in Callers, StartInstall(c) PROVE HeldUntilDone'
  <2>1. \A r \in Runs : ~Busy(r)
    BY <1>4 DEF StartInstall, OneBusy
  <2>2. \A d \in Callers : mine'[d] = current'
    BY <1>4 DEF StartInstall, SerialCallers
  <2>. QED
    BY <1>4, <2>1, <2>2 DEF StartInstall, HeldUntilDone, CtxDone, Busy
<1>5. ASSUME NEW c \in Callers, StartLaunch(c) PROVE HeldUntilDone'
  BY <1>5 DEF StartLaunch, Goto, HeldUntilDone, CtxDone, SerialCallers,
     Launching, instanceVars
<1>6. ASSUME NEW c \in Callers, StopUnset(c) PROVE HeldUntilDone'
  <2>1. \A r \in Runs : ~Busy(r)
    BY <1>6 DEF StopUnset, OneBusy
  <2>2. \A d \in Callers : pc'[d] = "clear"
    BY <1>6 DEF StopUnset, Goto, SerialCallers
  <2>. QED
    BY <1>6, <2>1, <2>2 DEF StopUnset, HeldUntilDone, CtxDone, Busy, runVars
<1>7. ASSUME NEW r \in Runs, LoopStep(r) PROVE HeldUntilDone'
  <2>1. CASE LoopRelease(r)
    <3>1. Busy(r) /\ \A s \in Runs : Busy(s) => s = r
      BY <2>1 DEF LoopRelease, OneBusy, Busy
    <3>2. \A c \in Callers : pc[c] # "launch"
      BY <3>1 DEF OneBusy
    <3>3. CtxDone(r)'
      BY <2>1 DEF LoopRelease, HeldUntilDone, CtxDone, NoRun, Runs
    <3>4. \A s \in Runs : CtxDone(s) => CtxDone(s)'
      BY <2>1 DEF LoopRelease, CtxDone
    <3>. QED
      BY <2>1, <3>1, <3>2, <3>3, <3>4
      DEF LoopRelease, HeldUntilDone, Busy, callerVars
  <2>2. CASE LoopCancelled(r)
    BY <2>2 DEF LoopCancelled, HeldUntilDone, CtxDone, callerVars
  <2>3. CASE LoopExit(r) \/ LoopClear(r) \/ LoopSettle(r) \/ LoopTell(r)
    BY <2>3 DEF LoopExit, LoopClear, LoopSettle, LoopTell, HeldUntilDone,
       CtxDone, callerVars, instanceVars
  <2>. QED
    BY <1>7, <2>1, <2>2, <2>3 DEF LoopStep
<1>8. ASSUME NEW r \in Runs, FrpcReturn(r) \/ FrpcPanic(r) \/ Poll(r)
      PROVE  HeldUntilDone'
  BY <1>1, <1>8 DEF FrpcReturn, FrpcPanic, Poll, PollRead, PollStore, PollExit,
     instanceVars, runVars, callerVars
<1>9. CASE UNCHANGED vars
  BY <1>1, <1>9 DEF vars, instanceVars, runVars, callerVars
<1>. QED
  BY <1>2, <1>3, <1>4, <1>5, <1>6, <1>7, <1>8, <1>9
  DEF Next, Call, CallerStep, StartStep, StopStep, ShutdownStep

\* Between the wake-up of a stop and its next step nobody can launch a run: the
\* one caller there is, is the one that stops.
LEMMA WokenStep ==
    ASSUME SerialCallers, Inv, WokenIsDrained, [Next]_vars
    PROVE  WokenIsDrained'
<1>. USE DEF Inv, TypeOK
<1>1. ASSUME UNCHANGED <<pc, runWG, waiters>> PROVE WokenIsDrained'
  BY <1>1 DEF WokenIsDrained
<1>2. ASSUME NEW c \in Callers, Call(c) \/ CallerStep(c),
             ~StopPark(c), ~StopReused(c)
      PROVE  WokenIsDrained'
  <2>1. \A d \in Callers : pc'[d] # "wait"
    BY <1>2 DEF Call, CallerStep, StartStep, StopStep, ShutdownStep,
       StartClaim, StartFail, StartInstall, StartLaunch, StartUp, CallerTell,
       StopClaim, StopCancel, StopDrained, StopWoken, StopUnset, StopClear,
       StopSettle, ShutdownCancel, ShutdownNothing, CallerSetState, Return,
       Goto, SerialCallers
  <2>. QED
    BY <2>1 DEF WokenIsDrained
<1>3. ASSUME NEW c \in Callers, StopPark(c) PROVE WokenIsDrained'
  BY <1>3 DEF StopPark, WokenIsDrained, SerialCallers
<1>4. ASSUME NEW c \in Callers, StopReused(c) PROVE WokenIsDrained'
  BY <1>4 DEF StopReused, WokenIsDrained
<1>5. ASSUME Done, UNCHANGED pc, runWG # 0 PROVE WokenIsDrained'
  BY <1>5 DEF Done, WokenIsDrained
<1>6. ASSUME NEW r \in Runs, LoopStep(r) \/ PollExit(r) PROVE WokenIsDrained'
  <2>1. runWG # 0
    BY <1>6, ZeroMeansNone DEF LoopStep, LoopCancelled, LoopExit, LoopRelease,
       LoopClear, LoopSettle, LoopTell, PollExit, Looping, Polling, LoopAlive,
       PollAlive
  <2>. QED
    BY <1>1, <1>5, <1>6, <2>1 DEF LoopStep, LoopCancelled, LoopExit,
       LoopRelease, LoopClear, LoopSettle, LoopTell, PollExit, callerVars
<1>7. ASSUME NEW r \in Runs,
             FrpcReturn(r) \/ FrpcPanic(r) \/ PollRead(r) \/ PollStore(r)
      PROVE  WokenIsDrained'
  BY <1>1, <1>7 DEF FrpcReturn, FrpcPanic, PollRead, PollStore, runVars,
     callerVars
<1>8. CASE UNCHANGED vars
  BY <1>1, <1>8 DEF vars, runVars, callerVars
<1>. QED
  BY <1>2, <1>3, <1>4, <1>6, <1>7, <1>8 DEF Next, Poll

\* Nothing of the instance is left behind a stop that has passed Wait.
LEMMA DrainsStep ==
    ASSUME SerialCallers, Inv, StopDrains, [Next]_vars
    PROVE  StopDrains'
<1>. USE DEF Inv, TypeOK
<1>1. ASSUME UNCHANGED <<loop, poller, stats, pc>> PROVE StopDrains'
  BY <1>1 DEF StopDrains, LoopAlive, PollAlive
<1>2. ASSUME NEW c \in Callers,
             Call(c) \/ StartStep(c) \/ ShutdownStep(c) \/ CallerTell(c)
      PROVE  StopDrains'
  <2>1. \A d \in Callers : pc'[d] \notin {"unset", "clear", "settle"}
    BY <1>2 DEF Call, StartStep, ShutdownStep, StartClaim, StartFail,
       StartInstall, StartLaunch, StartUp, CallerTell, StopClaim,
       ShutdownCancel, ShutdownNothing, CallerSetState, Return, Goto,
       SerialCallers
  <2>. QED
    BY <2>1 DEF StopDrains
<1>3. ASSUME NEW c \in Callers, StopDrained(c) \/ StopWoken(c) PROVE StopDrains'
  <2>1. \A r \in Runs : ~LoopAlive(r) /\ ~PollAlive(r)
    BY <1>3, ZeroMeansNone DEF StopDrained, StopWoken, Looping, Polling
  <2>2. \A d \in Callers : pc'[d] = "unset"
    BY <1>3 DEF StopDrained, StopWoken, Goto, SerialCallers
  <2>. QED
    BY <1>3, <2>1, <2>2
    DEF StopDrained, StopWoken, StopDrains, LoopAlive, PollAlive, runVars
<1>9. ASSUME NEW c \in Callers, StopPark(c) \/ StopReused(c) PROVE StopDrains'
  <2>1. \A d \in Callers : pc'[d] \in {"wait", "idle"}
    BY <1>9 DEF StopPark, StopReused, Return, Goto, SerialCallers, callerVars
  <2>. QED
    BY <2>1 DEF StopDrains
<1>4. ASSUME NEW c \in Callers,
             StopCancel(c) \/ StopUnset(c) \/ StopClear(c) \/ StopSettle(c)
      PROVE  StopDrains'
  BY <1>4 DEF StopCancel, StopUnset, StopClear, StopSettle, CallerSetState,
     Return, Goto, SerialCallers, StopDrains, LoopAlive, PollAlive, runVars
<1>5. ASSUME NEW r \in Runs, LoopStep(r) PROVE StopDrains'
  <2>1. LoopAlive(r) /\ pc' = pc
    BY <1>5 DEF LoopStep, LoopCancelled, LoopExit, LoopRelease, LoopClear,
       LoopSettle, LoopTell, LoopAlive, callerVars
  <2>. QED
    BY <2>1 DEF StopDrains
<1>6. ASSUME NEW r \in Runs, Poll(r) PROVE StopDrains'
  <2>1. PollAlive(r) /\ pc' = pc
    BY <1>6 DEF Poll, PollRead, PollStore, PollExit, PollAlive, callerVars
  <2>. QED
    BY <2>1 DEF StopDrains
<1>7. ASSUME NEW r \in Runs, FrpcReturn(r) \/ FrpcPanic(r) PROVE StopDrains'
  BY <1>1, <1>7 DEF FrpcReturn, FrpcPanic, instanceVars, runVars, callerVars
<1>8. CASE UNCHANGED vars
  BY <1>1, <1>8 DEF vars, instanceVars, runVars, callerVars
<1>. QED
  BY <1>2, <1>3, <1>4, <1>5, <1>6, <1>7, <1>8, <1>9
  DEF Next, Call, CallerStep, StopStep

\* The stronger invariant of a single caller: at the start, ...
LEMMA SerialInitInv == Init => SerialInv
<1>1. Init => OneBusy /\ Watched /\ HeldUntilDone /\ WokenIsDrained /\ StopDrains
  BY DEF Init, OneBusy, Busy, Watched, HeldUntilDone, WokenIsDrained, StopDrains
<1>. QED
  BY <1>1, InitInv DEF SerialInv

\* ... across every step, ...
LEMMA SerialNextInv ==
    ASSUME SerialCallers
    PROVE  SerialInv /\ [Next]_vars => SerialInv'
<1>. SUFFICES ASSUME SerialInv, [Next]_vars PROVE SerialInv'
  OBVIOUS
<1>1. Inv /\ OneBusy /\ Watched /\ HeldUntilDone /\ WokenIsDrained /\ StopDrains
  BY DEF SerialInv
<1>2. Inv'
  BY <1>1, NextInv
<1>3. OneBusy' /\ Watched'
  BY <1>1, OneBusyStep, WatchedStep
<1>4. HeldUntilDone' /\ WokenIsDrained' /\ StopDrains'
  BY <1>1, HeldStep, WokenStep, DrainsStep
<1>. QED
  BY <1>2, <1>3, <1>4 DEF SerialInv

\* ... and always.
LEMMA SerialInvariance ==
    ASSUME SerialCallers
    PROVE  Spec => []SerialInv
<1>1. SerialInv /\ [Next]_vars => SerialInv'
  BY SerialNextInv
<1>. QED
  BY <1>1, SerialInitInv, PTL DEF Spec

\* An active frpc belongs to a busy run.
LEMMA ActiveIsBusy ==
    ASSUME Watched, NEW r \in Runs, Active(r)
    PROVE  Busy(r)
BY DEF Watched, Active, Busy

\* With one caller at a time an instance never runs two frpc clients.
THEOREM SerialAtMostOneActive ==
    ASSUME SerialCallers
    PROVE  Spec => []AtMostOneActive
<1>1. SerialInv => AtMostOneActive
  BY ActiveIsBusy DEF SerialInv, OneBusy, AtMostOneActive
<1>. QED
  BY <1>1, SerialInvariance, PTL

\* With one caller at a time an instance that has settled in Stopped runs no
\* frpc client.
THEOREM SerialStoppedIsIdle ==
    ASSUME SerialCallers
    PROVE  Spec => []StoppedIsIdle
<1>1. SerialInv => StoppedIsIdle
  <2>. SUFFICES ASSUME SerialInv, AllIdle, state = "stopped",
                       NEW r \in Runs, Active(r)
                PROVE  FALSE
    BY DEF StoppedIsIdle
  <2>1. Busy(r)
    BY ActiveIsBusy DEF SerialInv
  <2>2. PICK c \in Callers : pc[c] = "idle"
    BY CallersAssumption DEF AllIdle
  <2>. QED
    BY <2>1, <2>2 DEF SerialInv, OneBusy
<1>. QED
  BY <1>1, SerialInvariance, PTL

\* With one caller at a time a stop that is past its Wait has drained the
\* instance.
THEOREM SerialStopDrains ==
    ASSUME SerialCallers
    PROVE  Spec => []StopDrains
<1>1. SerialInv => StopDrains
  BY DEF SerialInv
<1>. QED
  BY <1>1, SerialInvariance, PTL

\* With one caller at a time no runLoop ends and leaves its poller behind.
THEOREM SerialPollerReleased ==
    ASSUME SerialCallers
    PROVE  Spec => []PollerReleased
<1>1. SerialInv => PollerReleased
  BY DEF SerialInv, HeldUntilDone, PollerReleased
<1>. QED
  BY <1>1, SerialInvariance, PTL


(***************************************************************************)
(* With one caller the lifecycle implements InstanceService.               *)
(***************************************************************************)

\* The call that is under way is the one caller's.
LEMMA CallOfCaller ==
    ASSUME SerialCallers, NEW c \in Callers
    PROVE  CallNow = Phase(pc[c]) /\ CallNow' = Phase(pc'[c])
BY DEF SerialCallers, CallNow

\* A run does not serve once it is closed or its context is done, whatever its
\* caller does.
LEMMA ServingShrinks ==
    ASSUME UNCHANGED frpc, closed \subseteq closed', cancelled \subseteq cancelled',
           rootDone => rootDone', Up' => Up
    PROVE  Serving' \subseteq Serving /\ Served' = Served
BY DEF Serving, Served, Active, CtxDone

\* Nothing serves where no run is busy.
LEMMA NobodyServes ==
    ASSUME Watched, \A r \in Runs : ~Busy(r)
    PROVE  Serving = {}
BY ActiveIsBusy DEF Serving

\* The steps of start.
LEMMA StartRefines ==
    ASSUME SerialCallers, SerialInv, NEW c \in Callers,
           StartClaim(c) \/ StartStep(c)
    PROVE  Service!Next \/ UNCHANGED Service!service
<1>. USE DEF SerialInv, Inv, TypeOK, Service!Next, Service!service
<1>1. CallNow = Phase(pc[c]) /\ CallNow' = Phase(pc'[c])
  BY CallOfCaller
<1>2. CASE StartClaim(c)
  <2>1. Serving' \subseteq Serving /\ Served' = Served
    BY <1>2, ServingShrinks DEF StartClaim, Up, runVars
  <2>2. CallNow = "none" /\ CallNow' = "opening"
    BY <1>1, <1>2 DEF StartClaim, Goto, Phase
  <2>. QED
    BY <2>1, <2>2 DEF Service!Begin
<1>3. CASE StartFail(c)
  <2>1. Serving' = Serving /\ Served' = Served
    BY <1>3 DEF StartFail, Serving, Served, Active, CtxDone, Up, runVars
  <2>2. CallNow = "opening" /\ CallNow' \in {"none", "closing"}
    BY <1>1, <1>3 DEF StartFail, CallerSetState, Return, Goto, Phase
  <2>3. Serving = {}
    BY <1>3, NobodyServes DEF StartFail, OneBusy
  <2>. QED
    BY <2>1, <2>2, <2>3 DEF Service!Opened, Service!GiveUp
<1>4. CASE StartInstall(c)
  <2>1. CallNow = "opening" /\ CallNow' = "opening"
    BY <1>1, <1>4 DEF StartInstall, Goto, Phase
  <2>2. Serving' \subseteq Serving /\ Served' = Served
    BY <1>4 DEF StartInstall, Serving, Served, Active, CtxDone, Up, Fresh, Runs
  <2>. QED
    BY <2>1, <2>2 DEF Service!Lose
<1>5. CASE StartLaunch(c)
  <2>1. CallNow = "opening" /\ CallNow' = "opening"
    BY <1>1, <1>5 DEF StartLaunch, Goto, Phase
  <2>2. Serving = {}
    BY <1>5, NobodyServes DEF StartLaunch, OneBusy
  <2>3. mine[c] \in Runs \ Served
    BY <1>5 DEF StartLaunch, Launching, Served
  <2>4. Served' = Served \cup {mine[c]}
    BY <1>5, <2>3 DEF StartLaunch, Served
  <2>5. Serving' \subseteq {mine[c]}
    BY <1>5, <2>2, <2>3 DEF StartLaunch, Serving, Active, CtxDone, Up, instanceVars
  <2>. QED
    BY <2>1, <2>2, <2>3, <2>4, <2>5 DEF Service!Serve
<1>6. CASE StartUp(c)
  <2>1. Serving' = Serving /\ Served' = Served
    BY <1>6 DEF StartUp, Serving, Served, Active, CtxDone, Up, runVars
  <2>2. CallNow = "opening" /\ CallNow' \in {"none", "opening"}
    BY <1>1, <1>6 DEF StartUp, CallerSetState, Return, Goto, Phase
  <2>. QED
    BY <2>1, <2>2 DEF Service!Opened, Service!Lose
<1>. QED
  BY <1>2, <1>3, <1>4, <1>5, <1>6 DEF StartStep

\* The steps of stop and Shutdown, and the publication at the end of a call.
LEMMA StopRefines ==
    ASSUME SerialCallers, SerialInv, NEW c \in Callers,
           StopClaim(c) \/ ShutdownCancel(c) \/ ShutdownNothing(c) \/ StopStep(c)
               \/ CallerTell(c)
    PROVE  Service!Next \/ UNCHANGED Service!service
<1>. USE DEF SerialInv, Inv, TypeOK, Service!Next, Service!service
<1>1. CallNow = Phase(pc[c]) /\ CallNow' = Phase(pc'[c])
  BY CallOfCaller
<1>2. CASE StopClaim(c) \/ ShutdownCancel(c)
  <2>1. Serving' \subseteq Serving /\ Served' = Served
    BY <1>2, ServingShrinks DEF StopClaim, ShutdownCancel, Up, runVars
  <2>2. CallNow \in {"none", "closing"} /\ CallNow' = "closing"
    BY <1>1, <1>2 DEF StopClaim, ShutdownCancel, Goto, Phase
  <2>. QED
    BY <2>1, <2>2 DEF Service!Begin, Service!Lose
<1>3. CASE StopCancel(c) \/ StopDrained(c) \/ StopPark(c) \/ StopWoken(c)
           \/ StopUnset(c) \/ StopClear(c)
  <2>1. Serving' \subseteq Serving /\ Served' = Served
    BY <1>3, ServingShrinks DEF StopCancel, StopDrained, StopPark, StopWoken,
       StopUnset, StopClear, Up, runVars, instanceVars
  <2>2. CallNow = "closing" /\ CallNow' = "closing"
    BY <1>1, <1>3 DEF StopCancel, StopDrained, StopPark, StopWoken, StopUnset,
       StopClear, Goto, Phase
  <2>. QED
    BY <2>1, <2>2 DEF Service!Lose
<1>4. ASSUME Serving = {}, UNCHANGED <<frpc, closed, cancelled, rootDone, daemon>>,
             CallNow = "closing", CallNow' \in {"none", "closing"}
      PROVE  Service!Next \/ UNCHANGED Service!service
  <2>1. Serving' = Serving /\ Served' = Served
    BY <1>4 DEF Serving, Served, Active, CtxDone, Up
  <2>. QED
    BY <1>4, <2>1 DEF Service!Closed
<1>5. CASE StopSettle(c) \/ (CallerTell(c) /\ pc[c] = "tellStopped")
  <2>1. Serving = {}
    BY <1>5, NobodyServes DEF StopSettle, OneBusy
  <2>2. CallNow = "closing" /\ CallNow' \in {"none", "closing"}
    BY <1>1, <1>5 DEF StopSettle, CallerTell, CallerSetState, Return, Goto, Phase
  <2>3. UNCHANGED <<frpc, closed, cancelled, rootDone, daemon>>
    BY <1>5 DEF StopSettle, CallerTell, runVars, instanceVars
  <2>. QED
    BY <1>4, <2>1, <2>2, <2>3
<1>6. CASE ShutdownNothing(c)
  <2>1. Serving = {}
    BY <1>6, NobodyServes DEF ShutdownNothing, OneBusy
  <2>2. CallNow = "closing" /\ CallNow' = "none"
    BY <1>1, <1>6 DEF ShutdownNothing, Return, Goto, Phase
  <2>. QED
    BY <1>4, <1>6, <2>1, <2>2 DEF ShutdownNothing, runVars, instanceVars
<1>7. CASE CallerTell(c) /\ pc[c] = "tellStarted"
  <2>1. Serving' = Serving /\ Served' = Served
    BY <1>7 DEF CallerTell, Serving, Served, Active, CtxDone, Up, runVars, instanceVars
  <2>2. CallNow = "opening" /\ CallNow' = "none"
    BY <1>1, <1>7 DEF CallerTell, Return, Goto, Phase
  <2>. QED
    BY <2>1, <2>2 DEF Service!Opened
<1>8. ~StopReused(c)
  BY DEF StopReused, WokenIsDrained
<1>9. CallerTell(c) => pc[c] \in {"tellStarted", "tellStopped"}
  BY DEF CallerTell
<1>. QED
  BY <1>2, <1>3, <1>5, <1>6, <1>7, <1>8, <1>9 DEF StopStep

\* The steps of the goroutines: they only ever end the service of a run.
LEMMA RunRefines ==
    ASSUME SerialInv, NEW r \in Runs,
           FrpcReturn(r) \/ FrpcPanic(r) \/ LoopStep(r) \/ Poll(r)
    PROVE  Service!Next
<1>. USE DEF SerialInv, Inv, TypeOK
<1>1. CallNow' = CallNow
  BY DEF CallNow, FrpcReturn, FrpcPanic, LoopStep, Poll, LoopCancelled, LoopExit,
     LoopRelease, LoopClear, LoopSettle, LoopTell, PollRead, PollStore, PollExit,
     callerVars
<1>3. ASSUME FrpcPanic(r) \/ LoopStep(r) \/ Poll(r)
      PROVE  Serving' \subseteq Serving /\ Served' = Served
  BY <1>3, ServingShrinks DEF FrpcPanic, LoopStep, Poll, LoopCancelled, LoopExit,
     LoopRelease, LoopClear, LoopSettle, LoopTell, PollRead, PollStore, PollExit,
     Up, instanceVars, runVars
<1>4. Serving' \subseteq Serving /\ Served' = Served
  <2>1. CASE FrpcReturn(r)
    BY <2>1 DEF FrpcReturn, Serving, Served, Active, CtxDone, Up, instanceVars
  <2>. QED
    BY <1>3, <2>1
<1>. QED
  BY <1>1, <1>4 DEF Service!Next, Service!Lose

\* With one caller at a time start, stop and Shutdown, with all their
\* goroutines, implement InstanceService.
THEOREM SerialKeepsService ==
    ASSUME SerialCallers
    PROVE  Spec => KeepsService
<1>1. Init => Service!Init
  BY CallersAssumption DEF Init, Service!Init, Serving, Served, Active, CallNow, Phase
<1>2. SerialInv /\ [Next]_vars => [Service!Next]_(Service!service)
  <2>. SUFFICES ASSUME SerialInv, [Next]_vars
                PROVE  Service!Next \/ UNCHANGED Service!service
    OBVIOUS
  <2>1. ASSUME NEW c \in Callers, Call(c) \/ CallerStep(c)
        PROVE  Service!Next \/ UNCHANGED Service!service
    BY <2>1, StartRefines, StopRefines DEF Call, CallerStep, ShutdownStep
  <2>2. ASSUME NEW r \in Runs, FrpcReturn(r) \/ FrpcPanic(r) \/ LoopStep(r) \/ Poll(r)
        PROVE  Service!Next
    BY <2>2, RunRefines
  <2>3. CASE UNCHANGED vars
    BY <2>3 DEF vars, instanceVars, runVars, callerVars, Service!service, Serving,
       Served, Active, CtxDone, CallNow, Up
  <2>. QED
    BY <2>1, <2>2, <2>3 DEF Next
<1>3. Spec => []SerialInv
  BY SerialInvariance
<1>. QED
  BY <1>1, <1>2, <1>3, PTL DEF Spec, KeepsService, Service!Spec

=============================================================================
