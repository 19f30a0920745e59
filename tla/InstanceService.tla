--------------------------- MODULE InstanceService ---------------------------
(***************************************************************************)
(* What an instance promises to a caller that has it to itself, without a  *)
(* word on how: a call opens or closes the instance; at most one frpc      *)
(* client serves at a time; a client that has stopped serving, for         *)
(* whatever reason, never serves again; only opening puts one to work; and *)
(* closing does not answer before nothing serves.  The comments on start,  *)
(* stop and Shutdown (internal/manager/instance.go, manager.go) say as     *)
(* much; InstanceLifecycle, with its goroutines, its WaitGroup and its     *)
(* locks, is shown to implement it.                                        *)
(***************************************************************************)
CONSTANT Clients   \* the frpc clients that may ever be created

VARIABLES
    serving,   \* the clients that serve their tunnels
    served,    \* the clients that have been put to work so far
    call       \* the call under way: "none", "opening" or "closing"

service == <<serving, served, call>>

TypeOK ==
    /\ serving \subseteq served /\ served \subseteq Clients
    /\ call \in {"none", "opening", "closing"}

Init == serving = {} /\ served = {} /\ call = "none"

\* A client stops serving: it was told to, it lost its server, it ended.
Lose == serving' \subseteq serving /\ UNCHANGED <<served, call>>

\* A call begins.  Shutdown cuts the client off with its first step.
Begin ==
    /\ call = "none" /\ call' \in {"opening", "closing"}
    /\ serving' \subseteq serving /\ UNCHANGED served

\* A client nobody has seen before is put to work on an idle instance; once
\* the daemon is shutting down it does not serve.
Serve ==
    /\ call = "opening" /\ serving = {}
    /\ \E r \in Clients \ served : served' = served \cup {r} /\ serving' \subseteq {r}
    /\ UNCHANGED call

\* A start answers, whatever became of the client meanwhile ...
Opened == call = "opening" /\ call' = "none" /\ UNCHANGED <<serving, served>>

\* ... or has no client to start and leaves the instance stopped.
GiveUp ==
    /\ call = "opening" /\ serving = {} /\ call' = "closing"
    /\ UNCHANGED <<serving, served>>

\* A stop answers when nothing serves.
Closed ==
    /\ call = "closing" /\ serving = {} /\ call' = "none"
    /\ UNCHANGED <<serving, served>>

Next == Lose \/ Begin \/ Serve \/ Opened \/ GiveUp \/ Closed

Spec == Init /\ [][Next]_service

-----------------------------------------------------------------------------
\* Never two clients, whatever the calls: a consequence of the above.
OneServes == \A r, s \in serving : r = s
=============================================================================
