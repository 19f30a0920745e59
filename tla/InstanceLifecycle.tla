-------------------------- MODULE InstanceLifecycle --------------------------
(***************************************************************************)
(* The lifecycle of one frpc instance: internal/manager/instance.go, with  *)
(* the service bridge services/client.go and the entry points start, stop  *)
(* and Shutdown of internal/manager/manager.go that drive it.              *)
(*                                                                         *)
(* Callers are the goroutines that call into the instance: HTTP handlers,  *)
(* the auto-delete timer, AutoStart and Shutdown.  Nothing in the code     *)
(* serialises them; i.mu is held only for the length of one assignment     *)
(* block, so each such block is one action and everything may interleave   *)
(* between two of them.                                                    *)
(*                                                                         *)
(* Each start that gets as far as creating a service creates a run.  A run *)
(* has a context, a frpc service, a runLoop goroutine with its inner       *)
(* goroutine that executes svc.Run, and a statusPoller goroutine.  The     *)
(* instance holds the handles (i.svc, i.cancel) of at most one run; both   *)
(* fields are always assigned together, so "current" stands for the pair.  *)
(***************************************************************************)
EXTENDS Naturals, FiniteSets

CONSTANTS
    Callers,    \* goroutines that may call start, stop or Shutdown
    MaxRuns,    \* bound on the number of services ever created
    MayPanic    \* TRUE if the frp library may panic inside svc.Run

ASSUME CallersAssumption == Callers # {}
ASSUME MaxRunsAssumption == MaxRuns \in Nat
ASSUME MayPanicAssumption == MayPanic \in BOOLEAN

VARIABLES
    state,      \* i.state
    current,    \* the run whose svc and cancel the instance holds, or NoRun
    cancelled,  \* the runs whose own cancel function has been called
    rootDone,   \* m.rootCancel() has been called
    closed,     \* the runs whose service has been told to close
    frpc,       \* frpc[r]: where the svc.Run of run r is
    loop,       \* loop[r]: where the runLoop goroutine of run r is
    poller,     \* poller[r]: where the statusPoller goroutine of run r is
    runWG,      \* the counter of i.runWG
    waiters,    \* the callers asleep in i.runWG.Wait()
    stats,      \* the run whose proxy statuses i.proxyStats holds, or NoRun
    created,    \* number of runs created so far
    pc,         \* pc[c]: where caller c is
    mine,       \* mine[c]: the run caller c works on
    shown,      \* the state in the last instance.state event on the bus
    daemon      \* "up", or "crashed" by a panic nobody recovers

instanceVars == <<state, current, cancelled, rootDone, closed, stats, created>>
runVars      == <<frpc, loop, poller, runWG, waiters>>
callerVars   == <<pc, mine>>
vars == <<instanceVars, runVars, callerVars, shown, daemon>>

NoRun == 0
Runs  == 1..MaxRuns

States   == {"stopped", "starting", "started", "stopping"}
FrpcPCs  == {"none", "created", "running", "returned"}
LoopPCs  == {"none", "select", "release", "clear", "settle", "tell", "gone"}
PollPCs  == {"none", "on", "full", "empty", "gone"}
CallPCs  == {"idle", "init", "launch", "up", "tellStarted", "tellStopped",
             "shutdown", "cancel", "drain", "wait", "unset", "clear", "settle"}

LoopAlive(r) == loop[r] \notin {"none", "gone"}
PollAlive(r) == poller[r] \notin {"none", "gone"}

\* Mutated CtxDone: the run's context is not derived from the root context.
CtxDoneDetached(r) == r \in cancelled

\* The context of run r is done: its own cancel was called, or the manager's
\* root context, its parent, was cancelled.
CtxDone(r) == rootDone \/ r \in cancelled

\* The frpc of run r serves its tunnels: svc.Run executes, and nobody has
\* closed the service or cancelled the context it runs under.
Active(r) == frpc[r] = "running" /\ r \notin closed /\ ~CtxDone(r)

TypeOK ==
    /\ state \in States
    /\ current \in Runs \cup {NoRun}
    /\ cancelled \subseteq Runs
    /\ rootDone \in BOOLEAN
    /\ closed \subseteq Runs
    /\ frpc \in [Runs -> FrpcPCs]
    /\ loop \in [Runs -> LoopPCs]
    /\ poller \in [Runs -> PollPCs]
    /\ runWG \in Nat
    /\ waiters \subseteq Callers
    /\ stats \in Runs \cup {NoRun}
    /\ created \in 0..MaxRuns
    /\ pc \in [Callers -> CallPCs]
    /\ mine \in [Callers -> Runs \cup {NoRun}]
    /\ shown \in States
    /\ daemon \in {"up", "crashed"}

Init ==
    /\ state = "stopped"
    /\ current = NoRun
    /\ cancelled = {}
    /\ rootDone = FALSE
    /\ closed = {}
    /\ frpc = [r \in Runs |-> "none"]
    /\ loop = [r \in Runs |-> "none"]
    /\ poller = [r \in Runs |-> "none"]
    /\ runWG = 0
    /\ waiters = {}
    /\ stats = NoRun
    /\ created = 0
    /\ pc = [c \in Callers |-> "idle"]
    /\ mine = [c \in Callers |-> NoRun]
    /\ shown = "stopped"
    /\ daemon = "up"

\* A crashed daemon takes no step.
Up == daemon = "up"

Goto(c, label) == pc' = [pc EXCEPT ![c] = label]

\* The caller returns; it remembers no run.
Return(c) == Goto(c, "idle") /\ mine' = [mine EXCEPT ![c] = NoRun]

\* runWG.Done(): the call that brings the counter to zero wakes every caller
\* asleep in Wait.
Done ==
    /\ runWG' = runWG - 1
    /\ waiters' = IF runWG = 1 THEN {} ELSE waiters

\* setState assigns under the lock and publishes after releasing it; when the
\* state does not change it publishes nothing.  A caller then goes on at tell
\* to publish, or returns.
CallerSetState(c, s, tell) ==
    /\ state' = s
    /\ IF state = s THEN Return(c) ELSE Goto(c, tell) /\ UNCHANGED mine

-----------------------------------------------------------------------------
(* Mutated forms of actions below, each a slip the code could have; no     *)
(* specification uses them.                                                *)

\* The state is not looked at before it is claimed.
StartClaimUnguarded(c) ==
    /\ Up
    /\ pc[c] = "idle"
    /\ state' = "starting"
    /\ Goto(c, "init")
    /\ UNCHANGED <<current, cancelled, rootDone, closed, stats, created,
                   runVars, mine, shown, daemon>>

\* The poller is not counted.
StartLaunchAddOne(c) ==
    /\ Up
    /\ pc[c] = "launch"
    /\ runWG' = runWG + 1
    /\ UNCHANGED waiters
    /\ loop' = [loop EXCEPT ![mine[c]] = "select"]
    /\ poller' = [poller EXCEPT ![mine[c]] = "on"]
    /\ frpc' = [frpc EXCEPT ![mine[c]] = "running"]
    /\ Goto(c, "up")
    /\ UNCHANGED <<instanceVars, mine, shown, daemon>>

\* The service is closed, the context is not cancelled.
StopCancelCloseOnly(c) ==
    /\ Up
    /\ pc[c] = "cancel"
    /\ closed' = closed \cup ({mine[c]} \ {NoRun})
    /\ Goto(c, "drain")
    /\ UNCHANGED <<state, current, cancelled, rootDone, stats, created, runVars,
                   mine, shown, daemon>>

\* stop does not wait.
StopDrainedNoWait(c) ==
    /\ Up
    /\ pc[c] = "drain"
    /\ Goto(c, "unset")
    /\ UNCHANGED <<instanceVars, runVars, mine, shown, daemon>>

\* The service is left open.
LoopCancelledNoClose(r) ==
    /\ Up
    /\ loop[r] = "select"
    /\ CtxDone(r)
    /\ loop' = [loop EXCEPT ![r] = "gone"]
    /\ Done
    /\ UNCHANGED <<instanceVars, frpc, poller, callerVars, shown, daemon>>

\* Done is called by hand and deferred as well.
LoopCancelledDoneTwice(r) ==
    /\ Up
    /\ loop[r] = "select"
    /\ CtxDone(r)
    /\ closed' = closed \cup {r}
    /\ loop' = [loop EXCEPT ![r] = "gone"]
    /\ runWG' = runWG - 2
    /\ waiters' = IF runWG \in {1, 2} THEN {} ELSE waiters
    /\ UNCHANGED <<state, current, cancelled, rootDone, stats, created, frpc,
                   poller, callerVars, shown, daemon>>

\* The handles are dropped without a cancel.
LoopReleaseNoCancel(r) ==
    /\ Up
    /\ loop[r] = "release"
    /\ current' = NoRun
    /\ loop' = [loop EXCEPT ![r] = "clear"]
    /\ UNCHANGED <<state, cancelled, rootDone, closed, stats, created, frpc,
                   poller, runWG, waiters, callerVars, shown, daemon>>

\* The handles are neither cancelled nor dropped.
LoopReleaseKeep(r) ==
    /\ Up
    /\ loop[r] = "release"
    /\ loop' = [loop EXCEPT ![r] = "clear"]
    /\ UNCHANGED <<instanceVars, frpc, poller, runWG, waiters, callerVars, shown,
                   daemon>>

-----------------------------------------------------------------------------
(* start.  Only Started and Starting are refused: a start is let in while  *)
(* another caller is still stopping the instance.                          *)

StartClaim(c) ==
    /\ Up
    /\ pc[c] = "idle"
    /\ state \notin {"started", "starting"}
    /\ state' = "starting"
    /\ Goto(c, "init")
    /\ UNCHANGED <<current, cancelled, rootDone, closed, stats, created,
                   runVars, mine, shown, daemon>>

\* NewFrpClientService rejects the config file.
StartFail(c) ==
    /\ Up
    /\ pc[c] = "init"
    /\ CallerSetState(c, "stopped", "tellStopped")
    /\ UNCHANGED <<current, cancelled, rootDone, closed, stats, created,
                   runVars, shown, daemon>>

\* The service exists; its handles are stored under the lock.
StartInstall(c) ==
    /\ Up
    /\ pc[c] = "init"
    /\ created < MaxRuns
    /\ created' = created + 1
    /\ current' = created'
    /\ mine' = [mine EXCEPT ![c] = created']
    /\ frpc' = [frpc EXCEPT ![created'] = "created"]
    /\ Goto(c, "launch")
    /\ UNCHANGED <<state, cancelled, rootDone, closed, stats, loop, poller,
                   runWG, waiters, shown, daemon>>

\* runWG.Add(2) and the two go statements, outside the lock.
StartLaunch(c) ==
    /\ Up
    /\ pc[c] = "launch"
    /\ runWG' = runWG + 2
    /\ UNCHANGED waiters
    /\ loop' = [loop EXCEPT ![mine[c]] = "select"]
    /\ poller' = [poller EXCEPT ![mine[c]] = "on"]
    /\ frpc' = [frpc EXCEPT ![mine[c]] = "running"]
    /\ Goto(c, "up")
    /\ UNCHANGED <<instanceVars, mine, shown, daemon>>

\* setState(Started), whatever has happened to the run since its launch.
StartUp(c) ==
    /\ Up
    /\ pc[c] = "up"
    /\ CallerSetState(c, "started", "tellStarted")
    /\ UNCHANGED <<current, cancelled, rootDone, closed, stats, created,
                   runVars, shown, daemon>>

\* The publication that ends a setState.
CallerTell(c) ==
    /\ Up
    /\ pc[c] \in {"tellStarted", "tellStopped"}
    /\ shown' = IF pc[c] = "tellStarted" THEN "started" ELSE "stopped"
    /\ Return(c)
    /\ UNCHANGED <<instanceVars, runVars, daemon>>

-----------------------------------------------------------------------------
(* stop and Shutdown.  A stop in state Stopped or Stopping returns at once. *)

StopClaim(c) ==
    /\ Up
    /\ pc[c] \in {"idle", "shutdown"}
    /\ state \notin {"stopped", "stopping"}
    /\ state' = "stopping"
    /\ mine' = [mine EXCEPT ![c] = current]
    /\ Goto(c, "cancel")
    /\ UNCHANGED <<current, cancelled, rootDone, closed, stats, created,
                   runVars, shown, daemon>>

\* cancel() and svc.Stop(false), on the handles copied when claiming.
StopCancel(c) ==
    /\ Up
    /\ pc[c] = "cancel"
    /\ cancelled' = cancelled \cup ({mine[c]} \ {NoRun})
    /\ closed' = closed \cup ({mine[c]} \ {NoRun})
    /\ Goto(c, "drain")
    /\ UNCHANGED <<state, current, rootDone, stats, created, runVars, mine,
                   shown, daemon>>

\* runWG.Wait() finds the counter at zero, ...
StopDrained(c) ==
    /\ Up
    /\ pc[c] = "drain"
    /\ runWG = 0
    /\ Goto(c, "unset")
    /\ UNCHANGED <<instanceVars, runVars, mine, shown, daemon>>

\* ... or falls asleep, ...
StopPark(c) ==
    /\ Up
    /\ pc[c] = "drain"
    /\ runWG # 0
    /\ waiters' = waiters \cup {c}
    /\ Goto(c, "wait")
    /\ UNCHANGED <<instanceVars, frpc, loop, poller, runWG, mine, shown, daemon>>

\* ... and is woken.
StopWoken(c) ==
    /\ Up
    /\ pc[c] = "wait"
    /\ c \notin waiters
    /\ runWG = 0
    /\ Goto(c, "unset")
    /\ UNCHANGED <<instanceVars, runVars, mine, shown, daemon>>

\* A caller that was woken and finds the counter raised again panics (sync:
\* WaitGroup is reused before previous Wait has returned).  The HTTP server
\* recovers a panic of a handler; the auto-delete timer and Shutdown have
\* nobody to recover theirs.
StopReused(c) ==
    /\ Up
    /\ pc[c] = "wait"
    /\ c \notin waiters
    /\ runWG # 0
    /\ \/ Return(c) /\ UNCHANGED daemon
       \/ daemon' = "crashed" /\ UNCHANGED callerVars
    /\ UNCHANGED <<instanceVars, runVars, shown>>

\* The handles are dropped, whichever run they belong to by now.
StopUnset(c) ==
    /\ Up
    /\ pc[c] = "unset"
    /\ current' = NoRun
    /\ Goto(c, "clear")
    /\ UNCHANGED <<state, cancelled, rootDone, closed, stats, created,
                   runVars, mine, shown, daemon>>

StopClear(c) ==
    /\ Up
    /\ pc[c] = "clear"
    /\ stats' = NoRun
    /\ Goto(c, "settle")
    /\ UNCHANGED <<state, current, cancelled, rootDone, closed, created,
                   runVars, mine, shown, daemon>>

StopSettle(c) ==
    /\ Up
    /\ pc[c] = "settle"
    /\ CallerSetState(c, "stopped", "tellStopped")
    /\ UNCHANGED <<current, cancelled, rootDone, closed, stats, created,
                   runVars, shown, daemon>>

\* Manager.Shutdown cancels the root context once, then stops the instance.
ShutdownCancel(c) ==
    /\ Up
    /\ pc[c] = "idle"
    /\ ~rootDone
    /\ rootDone' = TRUE
    /\ Goto(c, "shutdown")
    /\ UNCHANGED <<state, current, cancelled, closed, stats, created,
                   runVars, mine, shown, daemon>>

ShutdownNothing(c) ==
    /\ Up
    /\ pc[c] = "shutdown"
    /\ state \in {"stopped", "stopping"}
    /\ Return(c)
    /\ UNCHANGED <<instanceVars, runVars, shown, daemon>>

-----------------------------------------------------------------------------
(* The goroutines of run r.                                                *)

\* svc.Run returns: a failed login, a lost server, or the reaction to Close or
\* to the context.  No fairness: nothing guarantees that it ever returns.
FrpcReturn(r) ==
    /\ Up
    /\ frpc[r] = "running"
    /\ frpc' = [frpc EXCEPT ![r] = "returned"]
    /\ UNCHANGED <<instanceVars, loop, poller, runWG, waiters, callerVars, shown,
                   daemon>>

\* svc.Run panics.  It runs in a goroutine of its own, out of the reach of the
\* recover in runLoop, so the whole process dies.
FrpcPanic(r) ==
    /\ Up
    /\ MayPanic
    /\ frpc[r] = "running"
    /\ daemon' = "crashed"
    /\ UNCHANGED <<instanceVars, runVars, callerVars, shown>>

\* runLoop wakes on ctx.Done(), closes the service and is done.
LoopCancelled(r) ==
    /\ Up
    /\ loop[r] = "select"
    /\ CtxDone(r)
    /\ closed' = closed \cup {r}
    /\ loop' = [loop EXCEPT ![r] = "gone"]
    /\ Done
    /\ UNCHANGED <<state, current, cancelled, rootDone, stats, created, frpc,
                   poller, callerVars, shown, daemon>>

\* runLoop wakes because svc.Run returned.  When the context is done too, the
\* select may take either branch.
LoopExit(r) ==
    /\ Up
    /\ loop[r] = "select"
    /\ frpc[r] = "returned"
    /\ closed' = closed \cup {r}
    /\ loop' = [loop EXCEPT ![r] = "release"]
    /\ UNCHANGED <<state, current, cancelled, rootDone, stats, created, frpc,
                   poller, runWG, waiters, callerVars, shown, daemon>>

\* The instance's cancel function is called, if it still holds one, and the
\* handles are dropped, whichever run they belong to by now.
LoopRelease(r) ==
    /\ Up
    /\ loop[r] = "release"
    /\ cancelled' = cancelled \cup ({current} \ {NoRun})
    /\ current' = NoRun
    /\ loop' = [loop EXCEPT ![r] = "clear"]
    /\ UNCHANGED <<state, rootDone, closed, stats, created, frpc, poller,
                   runWG, waiters, callerVars, shown, daemon>>

LoopClear(r) ==
    /\ Up
    /\ loop[r] = "clear"
    /\ stats' = NoRun
    /\ loop' = [loop EXCEPT ![r] = "settle"]
    /\ UNCHANGED <<state, current, cancelled, rootDone, closed, created, frpc,
                   poller, runWG, waiters, callerVars, shown, daemon>>

\* setState(Stopped); without a change there is nothing to publish and the
\* goroutine ends.
LoopSettle(r) ==
    /\ Up
    /\ loop[r] = "settle"
    /\ state' = "stopped"
    /\ \/ /\ state # "stopped"
          /\ loop' = [loop EXCEPT ![r] = "tell"]
          /\ UNCHANGED <<runWG, waiters>>
       \/ /\ state = "stopped"
          /\ loop' = [loop EXCEPT ![r] = "gone"]
          /\ Done
    /\ UNCHANGED <<current, cancelled, rootDone, closed, stats, created, frpc,
                   poller, callerVars, shown, daemon>>

LoopTell(r) ==
    /\ Up
    /\ loop[r] = "tell"
    /\ shown' = "stopped"
    /\ loop' = [loop EXCEPT ![r] = "gone"]
    /\ Done
    /\ UNCHANGED <<instanceVars, frpc, poller, callerVars, daemon>>

\* A tick of the poller reads the proxy statuses from the service, which keeps
\* them until svc.Run returns.
PollRead(r) ==
    /\ Up
    /\ poller[r] = "on"
    /\ poller' = [poller EXCEPT ![r] =
                    IF frpc[r] = "running" THEN "full" ELSE "empty"]
    /\ UNCHANGED <<instanceVars, frpc, loop, runWG, waiters, callerVars, shown,
                   daemon>>

\* The statuses that were read replace i.proxyStats.
PollStore(r) ==
    /\ Up
    /\ poller[r] \in {"full", "empty"}
    /\ stats' = IF poller[r] = "full" THEN r ELSE NoRun
    /\ poller' = [poller EXCEPT ![r] = "on"]
    /\ UNCHANGED <<state, current, cancelled, rootDone, closed, created, frpc,
                   loop, runWG, waiters, callerVars, shown, daemon>>

PollExit(r) ==
    /\ Up
    /\ poller[r] = "on"
    /\ CtxDone(r)
    /\ poller' = [poller EXCEPT ![r] = "gone"]
    /\ Done
    /\ UNCHANGED <<instanceVars, frpc, loop, callerVars, shown, daemon>>

-----------------------------------------------------------------------------
StartStep(c) ==
    \/ StartFail(c) \/ StartInstall(c) \/ StartLaunch(c) \/ StartUp(c)

StopStep(c) ==
    \/ StopCancel(c) \/ StopDrained(c) \/ StopPark(c) \/ StopWoken(c)
    \/ StopReused(c) \/ StopUnset(c) \/ StopClear(c) \/ StopSettle(c)

ShutdownStep(c) ==
    ShutdownNothing(c) \/ (pc[c] = "shutdown" /\ StopClaim(c))

Call(c) == StartClaim(c) \/ StopClaim(c) \/ ShutdownCancel(c)

CallerStep(c) ==
    StartStep(c) \/ StopStep(c) \/ ShutdownStep(c) \/ CallerTell(c)

LoopStep(r) ==
    \/ LoopCancelled(r) \/ LoopExit(r) \/ LoopRelease(r) \/ LoopClear(r)
    \/ LoopSettle(r) \/ LoopTell(r)

Poll(r) == PollRead(r) \/ PollStore(r) \/ PollExit(r)

Next ==
    \/ \E c \in Callers : Call(c) \/ CallerStep(c)
    \/ \E r \in Runs : FrpcReturn(r) \/ FrpcPanic(r) \/ LoopStep(r) \/ Poll(r)

Spec == Init /\ [][Next]_vars

(***************************************************************************)
(* Fairness.  A call that has begun runs on, and so does a goroutine that  *)
(* has something to do; nobody is obliged to make a call, and svc.Run is   *)
(* not obliged to return.  The poller's select chooses at random between a *)
(* tick and a done context and ticks only twice a second, so its exit is   *)
(* strongly fair.  The bound on runs must not count as a caller stuck for  *)
(* ever: once it is reached NewFrpClientService can still fail.            *)
(***************************************************************************)
Fairness ==
    /\ \A c \in Callers : WF_vars(CallerStep(c))
    /\ \A r \in Runs : /\ WF_vars(LoopStep(r))
                       /\ WF_vars(PollStore(r))
                       /\ SF_vars(PollExit(r))

FairSpec == Spec /\ Fairness

-----------------------------------------------------------------------------
(* Properties that hold whatever the callers do.                           *)

\* The WaitGroup counts exactly the goroutines that are still to call Done:
\* the runLoop and the statusPoller of every run that was launched (Add(2) at
\* instance.go:242, the two deferred Done).  One Done too few and stop() hangs
\* in Wait, one too many and the process panics.
Looping == {r \in Runs : LoopAlive(r)}
Polling == {r \in Runs : PollAlive(r)}

WaitGroupExact == runWG = Cardinality(Looping) + Cardinality(Polling)

\* No runLoop leaves its frpc open: on whatever path it ends, the service was
\* told to close before (svc.Stop in both branches of the select).
EndedRunIsClosed == \A r \in Runs : loop[r] = "gone" => r \in closed

\* The instance never holds on to the handles of a run whose runLoop has ended
\* unless that run's context is done: a stop that copies such handles finds a
\* poller that is leaving, and never a run it would have to wait for.
HeldHandleUsable ==
    current # NoRun => (loop[current] = "gone" => CtxDone(current))

\* Once Shutdown has cancelled the root context, the goroutines of every run
\* end, the runs whose own cancel function the instance has lost included:
\* their contexts derive from the root context.  Only the end of the daemon by a
\* panic comes before.
ShutdownEndsRuns ==
    \A r \in Runs :
        rootDone /\ LoopAlive(r) ~> (~LoopAlive(r) /\ ~PollAlive(r)) \/ ~Up

\* The stop that Shutdown performs returns, so that the daemon can exit.
ShutdownReturns ==
    \A c \in Callers :
        pc[c] = "shutdown" ~> pc[c] = "idle" \/ ~Up

-----------------------------------------------------------------------------
(* Properties of an instance whose callers come one at a time.  With more  *)
(* callers the code keeps none of them.                                    *)

AllIdle == \A c \in Callers : pc[c] = "idle"

\* An instance never has two frpc clients serving at the same time: start is a
\* no-op on a running instance (comment at instance.go:217).
AtMostOneActive == \A r, s \in Runs : Active(r) /\ Active(s) => r = s

\* An instance that reports Stopped to a client that waited for its call has no
\* frpc client serving behind its back.
StoppedIsIdle == AllIdle /\ state = "stopped" => \A r \in Runs : ~Active(r)

\* A stop that has passed Wait has really drained the instance: no goroutine is
\* left, none can put proxy statuses back after clearProxyStats.
StopDrains ==
    \A c \in Callers :
        /\ pc[c] \in {"unset", "clear", "settle"} =>
              \A r \in Runs : ~LoopAlive(r) /\ ~PollAlive(r)
        /\ pc[c] = "settle" => stats = NoRun

\* A runLoop never ends without its context being done: otherwise the poller of
\* the run stays for ever and runWG never gets back to zero (the comment at
\* instance.go:346 on why the exit branch must cancel).
PollerReleased == \A r \in Runs : loop[r] = "gone" => CtxDone(r)

\* A stop that is woken from Wait finds the instance still drained, so that it
\* does not panic: stop "waits for goroutines to drain" (instance.go:251).
WokenIsDrained ==
    \A c \in Callers : pc[c] = "wait" /\ c \notin waiters => runWG = 0

\* Every stop returns, unless the daemon ends under it; the client that asked
\* for it gets an answer.
StopReturns ==
    \A c \in Callers : pc[c] = "cancel" ~> pc[c] = "idle" \/ ~Up

\* When frpc ends on its own, both goroutines of the run end too.
ExitEndsRun ==
    \A r \in Runs :
        frpc[r] = "returned" ~> (~LoopAlive(r) /\ ~PollAlive(r)) \/ ~Up

-----------------------------------------------------------------------------
(* With one caller the instance implements InstanceService.                *)

\* What a call has become, by where its caller is.
Phase(label) ==
    CASE label \in {"init", "launch", "up", "tellStarted"} -> "opening"
      [] label = "idle" -> "none"
      [] OTHER -> "closing"

Serving == {r \in Runs : Up /\ Active(r)}
Served == {r \in Runs : frpc[r] \in {"running", "returned"}}
CallNow == Phase(pc[CHOOSE c \in Callers : TRUE])

Service == INSTANCE InstanceService WITH
    Clients <- Runs, serving <- Serving, served <- Served, call <- CallNow

\* Start, stop and Shutdown keep the promises of InstanceService: one client
\* at a time, none that comes back, none behind a stop that has answered.
KeepsService == Service!Spec

-----------------------------------------------------------------------------
(* What comments and documents say, and the code does not keep.            *)

\* A settled instance reports Started only while a run is being looked after:
\* an exit of frpc is surfaced "through state so reload / UI badges stay
\* honest" (instance.go:342).
HonestState ==
    AllIdle /\ state = "started" => \E r \in Runs : LoopAlive(r)

\* When frpc has ended on its own and its goroutines are gone, "proxy stats are
\* cleared" (instance.go:343).
ExitClearsStats ==
    AllIdle /\ state = "stopped" /\ runWG = 0 => stats = NoRun

\* instance.state events announce starting and stopping like the other two
\* states (docs/README-server.md:118): a caller never finishes claiming the
\* instance without the bus learning of the transition.
StoppingAnnounced == state = "stopping" ~> shown = "stopping"

\* When nothing is going on, the last instance.state event names the state.
FeedSettles == AllIdle /\ runWG = 0 => shown = state

\* A panic of the frp client is recovered and does not take the daemon down
\* (comment at instance.go:317).
PanicRecovered == daemon = "up"

-----------------------------------------------------------------------------
(* Strengthenings: what has to hold besides for the properties to be       *)
(* inductive.                                                              *)

\* Runs that were not created yet have no goroutine; a run that was created
\* and not launched has none either and is launched by one caller only.
Fresh ==
    \A r \in Runs :
        /\ r > created => frpc[r] = "none"
        /\ frpc[r] \in {"none", "created"} => loop[r] = "none" /\ poller[r] = "none"

Launching ==
    /\ \A c \in Callers :
          pc[c] = "launch" => mine[c] \in Runs /\ frpc[mine[c]] = "created"
    /\ \A c, d \in Callers :
          pc[c] = "launch" /\ pc[d] = "launch" /\ mine[c] = mine[d] => c = d

\* runLoop closes the service before anything else.
LeavingIsClosed ==
    \A r \in Runs :
        loop[r] \in {"release", "clear", "settle", "tell", "gone"} => r \in closed

\* Once runLoop has let go of the handles it does not get them back.
LetGo ==
    \A r \in Runs :
        /\ current = r
        /\ loop[r] \in {"clear", "settle", "tell", "gone"}
        => CtxDone(r)

\* A run is busy until its runLoop has set the instance to Stopped.
Busy(r) == loop[r] \in {"select", "release", "clear", "settle"}

\* One caller at a time: there is at most one busy run, none while a start or
\* the tail of a stop is under way, and none behind a settled state other than
\* Started.
OneBusy ==
    /\ \A r, s \in Runs : Busy(r) /\ Busy(s) => r = s
    /\ \A c \in Callers, r \in Runs :
          /\ pc[c] \in {"init", "launch", "tellStopped", "unset", "clear", "settle"}
                => ~Busy(r)
          /\ pc[c] \in {"idle", "shutdown", "tellStarted"} /\ Busy(r)
                => state = "started"

\* A service that runs and was not closed is watched by its runLoop.
Watched ==
    \A r \in Runs : frpc[r] = "running" /\ r \notin closed => loop[r] = "select"

\* One caller at a time: the instance holds the handles of a run until the
\* context of the run is done.
HeldUntilDone ==
    /\ \A c \in Callers : pc[c] = "launch" => current = mine[c]
    /\ \A r \in Runs :
          /\ loop[r] \in {"select", "release"} => current = r \/ CtxDone(r)
          /\ loop[r] \in {"clear", "settle", "tell", "gone"} => CtxDone(r)

=============================================================================
