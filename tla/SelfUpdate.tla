----------------------------- MODULE SelfUpdate -----------------------------
(***************************************************************************)
(* The update card of the about page (web/src/components/UpdateCard.tsx,   *)
(* web/src/api/update.ts), the two handlers behind it                      *)
(* (internal/api/update.go), the release cache of the Updater              *)
(* (internal/selfupdate/selfupdate.go) and the detached process that swaps *)
(* the binary and restarts the daemon.  A card is one open page; leaving   *)
(* the page forgets the card but not the request it made.                  *)
(***************************************************************************)
EXTENDS Naturals, FiniteSets

CONSTANTS
    Cards,        \* the pages on which the card is shown
    MaxVersion,   \* bound: the newest release there will be
    MaxClicks     \* bound: checks and updates the users ask for, and failures

VARIABLES
    latest,     \* external: the newest release
    version,    \* the version the daemon runs, 0 while it is down
    installed,  \* the version of the binary on disk
    cached,     \* u.cached, 0 for none
    fresh,      \* the cache is younger than cacheTTL
    updaters,   \* external: detached updaters, [target, phase]
    requests,   \* requests on their way, in the daemon or back
    card,       \* what each card shows
    wait,       \* doUpdate of each card: where it is, and the version it left
    clicks      \* clicks and failures so far

vars == <<latest, version, installed, cached, fresh, updaters, requests, card, wait, clicks>>

Versions == 1..MaxVersion
HasUpdate(current, tag) == current < tag
NoInfo == [current |-> 0, latest |-> 0]
Idle == [at |-> "idle", from |-> 0]
Click == clicks < MaxClicks /\ clicks' = clicks + 1

\* A request runs CheckLatest: "sent", "fetching" (past the cache), "fetched"
\* (the answer not yet stored), then "ok" or "failed".
Request(op, c, force) ==
    [op |-> op, card |-> c, force |-> force, phase |-> "sent", stale |-> 0, tag |-> 0, current |-> 0]
Moves(r, new) == requests' = (requests \ {r}) \cup {new}

-----------------------------------------------------------------------------
\* Every card mounts and checks without force.
Init ==
    /\ latest \in {1, 2} /\ version = 1 /\ installed = 1 /\ cached = 0 /\ fresh = FALSE
    /\ updaters = {} /\ requests = {Request("check", c, FALSE) : c \in Cards}
    /\ card = [c \in Cards |-> [phase |-> "loading", checking |-> TRUE, info |-> NoInfo]]
    /\ wait = [c \in Cards |-> Idle] /\ clicks = 0

(***************************************************************************)
(* The card.                                                               *)
(***************************************************************************)
\* runCheck(true): the check button while it does not load, and the one of a
\* failed update.
RunCheck(c) ==
    /\ card[c].phase = "failed" \/ (card[c].phase = "ready" /\ ~card[c].checking)
    /\ Click
    /\ card' = [card EXCEPT ![c].checking = TRUE]
    /\ requests' = requests \cup {Request("check", c, TRUE)}
    /\ UNCHANGED <<latest, version, installed, cached, fresh, updaters, wait>>

\* doUpdate up to its await, confirmed.  The button is there while the last
\* answer said there is an update, a check under way or not.  Bound: one
\* doUpdate of a card at a time.
DoUpdate(c) ==
    /\ card[c].phase = "ready" /\ wait[c] = Idle
    /\ HasUpdate(card[c].info.current, card[c].info.latest) /\ Click
    /\ card' = [card EXCEPT ![c].phase = "updating"]
    /\ wait' = [wait EXCEPT ![c] = [at |-> "starting", from |-> card[c].info.current]]
    /\ requests' = requests \cup {Request("update", c, FALSE)}
    /\ UNCHANGED <<latest, version, installed, cached, fresh, updaters>>

\* An answer to a check shows "ready", whatever the card shows by then.
DeliverCheck(r) ==
    /\ r.op = "check" /\ r.phase \in {"ok", "failed"} /\ requests' = requests \ {r}
    /\ card' = [card EXCEPT ![r.card] =
          [phase |-> "ready", checking |-> FALSE,
           info |-> IF r.phase = "ok" THEN [current |-> r.current, latest |-> r.tag] ELSE @.info]]
    /\ UNCHANGED <<latest, version, installed, cached, fresh, updaters, wait, clicks>>

\* startUpdate has answered: waitForRestart begins, or the card shows why not.
DeliverUpdate(r) ==
    /\ r.op = "update" /\ r.phase \in {"ok", "failed"} /\ requests' = requests \ {r}
    /\ IF r.phase = "ok"
       THEN wait' = [wait EXCEPT ![r.card].at = "polling"] /\ UNCHANGED card
       ELSE /\ wait' = [wait EXCEPT ![r.card] = Idle]
            /\ card' = [card EXCEPT ![r.card].phase = "failed"]
    /\ UNCHANGED <<latest, version, installed, cached, fresh, updaters, clicks>>

\* A poll that reads another version than the card left ends the wait; one
\* that fails or reads the old one leaves it as it is.
PollVersion(c) ==
    /\ wait[c].at = "polling" /\ version \notin {0, wait[c].from}
    /\ wait' = [wait EXCEPT ![c] = Idle]
    /\ card' = [card EXCEPT ![c].phase = "done"]
    /\ UNCHANGED <<latest, version, installed, cached, fresh, updaters, requests, clicks>>

\* Mutant: waitForRestart gives up only when the daemon is not there.
WaitForDaemon(c) ==
    /\ wait[c].at = "polling" /\ version = 0
    /\ wait' = [wait EXCEPT ![c] = Idle]
    /\ card' = [card EXCEPT ![c].phase = "failed"]
    /\ UNCHANGED <<latest, version, installed, cached, fresh, updaters, requests, clicks>>

\* waitForRestart gives up after timeoutMs.
WaitTimesOut(c) ==
    /\ wait[c].at = "polling"
    /\ wait' = [wait EXCEPT ![c] = Idle]
    /\ card' = [card EXCEPT ![c].phase = "failed"]
    /\ UNCHANGED <<latest, version, installed, cached, fresh, updaters, requests, clicks>>

\* The button "reload the page" of a finished update, or leaving the page and
\* coming back: a new card.
Remount(c) ==
    /\ Click
    /\ card' = [card EXCEPT ![c] = [phase |-> "loading", checking |-> TRUE, info |-> NoInfo]]
    /\ wait' = [wait EXCEPT ![c] = Idle]
    /\ requests' = {r \in requests : r.card # c} \cup {Request("check", c, FALSE)}
          \cup {[r EXCEPT !.op = "orphan"] : r \in {q \in requests :
                   q.card = c /\ q.op = "update" /\ q.phase \notin {"ok", "failed"}}}
    /\ UNCHANGED <<latest, version, installed, cached, fresh, updaters>>

-----------------------------------------------------------------------------
(***************************************************************************)
(* The daemon.                                                             *)
(***************************************************************************)
Answer(r, tag) == Moves(r, [r EXCEPT !.phase = "ok", !.tag = tag, !.current = version])

\* Update goes on with the release it has: a newer one is handed to an updater.
UnitOf(tag) == [target |-> tag, phase |-> "download"]
Resolved(r, tag) ==
    IF r.op = "check" THEN Answer(r, tag) /\ UNCHANGED updaters
    ELSE IF HasUpdate(version, tag)
         THEN Moves(r, [r EXCEPT !.phase = "spawn", !.tag = tag])
                /\ updaters' = {}
         ELSE Moves(r, [r EXCEPT !.phase = "failed"]) /\ UNCHANGED updaters

\* CheckLatest's first lock section: the cache answers, or a fetch begins.
FromCache(r) ==
    /\ r.phase = "sent" /\ version # 0 /\ ~r.force /\ cached # 0 /\ fresh
    /\ Resolved(r, cached)
    /\ UNCHANGED <<latest, version, installed, cached, fresh, card, wait, clicks>>

BeginFetch(r) ==
    /\ r.phase = "sent" /\ version # 0 /\ (r.force \/ cached = 0 \/ ~fresh)
    /\ Moves(r, [r EXCEPT !.phase = "fetching", !.stale = cached])
    /\ UNCHANGED <<latest, version, installed, cached, fresh, updaters, card, wait, clicks>>

\* fetchLatest returns, outside any lock.
Fetch(r) ==
    /\ r.phase = "fetching"
    /\ Moves(r, [r EXCEPT !.phase = "fetched", !.tag = latest])
    /\ UNCHANGED <<latest, version, installed, cached, fresh, updaters, card, wait, clicks>>

\* The second section stores what was fetched, whatever was stored meanwhile.
Store(r) ==
    /\ r.phase = "fetched"
    /\ cached' = r.tag /\ fresh' = TRUE /\ Resolved(r, r.tag)
    /\ UNCHANGED <<latest, version, installed, card, wait, clicks>>

\* A fetch that fails answers with the old release, if there was one.
FetchFails(r) ==
    /\ r.phase = "fetching" /\ Click
    /\ IF r.stale # 0 THEN Resolved(r, r.stale)
       ELSE /\ UNCHANGED updaters
            /\ Moves(r, IF r.op = "check" THEN [r EXCEPT !.phase = "ok", !.current = version]
                        ELSE [r EXCEPT !.phase = "failed"])
    /\ UNCHANGED <<latest, version, installed, cached, fresh, card, wait>>

\* spawnUpdater has stopped the unit of an earlier update when it runs its
\* own, under a name of its own if another request was faster.
Spawn(r) ==
    /\ r.phase = "spawn"
    /\ updaters' = updaters \cup {UnitOf(r.tag)}
    /\ Moves(r, [r EXCEPT !.phase = "ok"])
    /\ UNCHANGED <<latest, version, installed, cached, fresh, card, wait, clicks>>

\* The answer of a card that is gone is dropped.
DropOrphan(r) ==
    /\ r.op = "orphan" /\ r.phase \in {"ok", "failed"} /\ requests' = requests \ {r}
    /\ UNCHANGED <<latest, version, installed, cached, fresh, updaters, card, wait, clicks>>

(***************************************************************************)
(* The updater: it downloads, replaces the binary and restarts the daemon, *)
(* which forgets the cache and every request it was serving.               *)
(***************************************************************************)
Install(u) ==
    /\ u.phase = "download" /\ installed' = u.target
    /\ updaters' = (updaters \ {u}) \cup {[u EXCEPT !.phase = "restart"]}
    /\ UNCHANGED <<latest, version, cached, fresh, requests, card, wait, clicks>>

UpdaterFails(u) ==
    /\ u.phase = "download" /\ Click /\ updaters' = updaters \ {u}
    /\ UNCHANGED <<latest, version, installed, cached, fresh, requests, card, wait>>

StopDaemon(u) ==
    /\ u.phase = "restart" /\ version' = 0 /\ cached' = 0 /\ fresh' = FALSE
    /\ updaters' = (updaters \ {u}) \cup {[u EXCEPT !.phase = "stopping"]}
    /\ requests' = {IF r.phase \in {"sent", "ok", "failed"} THEN r ELSE [r EXCEPT !.phase = "failed"]
                      : r \in requests}
    /\ UNCHANGED <<latest, installed, card, wait, clicks>>

StartDaemon(u) ==
    /\ u.phase = "stopping" /\ version' = installed /\ updaters' = updaters \ {u}
    /\ UNCHANGED <<latest, installed, cached, fresh, requests, card, wait, clicks>>

\* A request that finds no daemon fails.
Refused(r) ==
    /\ r.phase = "sent" /\ version = 0 /\ Moves(r, [r EXCEPT !.phase = "failed"])
    /\ UNCHANGED <<latest, version, installed, cached, fresh, updaters, card, wait, clicks>>

Release ==
    /\ latest < MaxVersion /\ latest' = latest + 1
    /\ UNCHANGED <<version, installed, cached, fresh, updaters, requests, card, wait, clicks>>
Expire ==
    /\ fresh /\ fresh' = FALSE
    /\ UNCHANGED <<latest, version, installed, cached, updaters, requests, card, wait, clicks>>

-----------------------------------------------------------------------------
Serve(r) ==
    \/ FromCache(r) \/ BeginFetch(r) \/ Fetch(r) \/ Store(r) \/ FetchFails(r) \/ Spawn(r)
    \/ Refused(r) \/ DropOrphan(r)
Next ==
    \/ \E c \in Cards :
          \/ RunCheck(c) \/ DoUpdate(c) \/ PollVersion(c) \/ WaitTimesOut(c) \/ Remount(c)
    \/ \E r \in requests : Serve(r) \/ DeliverCheck(r) \/ DeliverUpdate(r)
    \/ \E u \in updaters : Install(u) \/ UpdaterFails(u) \/ StopDaemon(u) \/ StartDaemon(u)
    \/ Release \/ Expire

\* A request is served and answered, and the clock of a wait runs.
Advance(op, c) ==
    \E r \in requests : r.op = op /\ r.card = c /\
        (FromCache(r) \/ BeginFetch(r) \/ Fetch(r) \/ Store(r) \/ Spawn(r) \/ Refused(r)
            \/ DeliverCheck(r) \/ DeliverUpdate(r))
Fairness ==
    \A c \in Cards :
        /\ WF_vars(Advance("check", c)) /\ WF_vars(Advance("update", c)) /\ WF_vars(WaitTimesOut(c))

Spec == Init /\ [][Next]_vars /\ Fairness

-----------------------------------------------------------------------------
TypeOK ==
    /\ {latest, installed} \subseteq Versions /\ {version, cached} \subseteq Versions \cup {0}
    /\ \A u \in updaters : u.target \in Versions /\ u.phase \in {"download", "restart", "stopping"}
    /\ \A c \in Cards :
         /\ card[c].phase \in {"loading", "ready", "updating", "done", "failed"}
         /\ wait[c].at \in {"idle", "starting", "polling"}

\* A card does not say for ever that it updates or that it checks, whether the
\* updater fails, the daemon restarts in mid-request, another page updates
\* too, or the new version is the one the card left.
CardSettles ==
    \A c \in Cards : (card[c].phase = "updating" ~> card[c].phase # "updating")
                      /\ (card[c].checking ~> ~card[c].checking)

\* While an update is awaited the card shows nothing else.  Violated: the
\* answer to a check that was under way brings the buttons back.
UpdatingIsShown == \A c \in Cards : wait[c].at # "idle" => card[c].phase = "updating"

\* The binary is never replaced by an older one.  Violated: two requests each
\* find no unit to stop and run an updater, with the releases they knew.
NeverGoesBack == [][installed' >= installed]_vars

\* "Done" is said of the update this card asked for: no updater is at work by
\* then.  Violated: a card that had not heard of another page's update takes
\* the version that one left for its own.
DoneIsDone == [][\A c \in Cards : card[c].phase = "updating" /\ card'[c].phase = "done" => updaters = {}]_vars
=============================================================================
