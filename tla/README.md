# A formal model of frpc-manager

`frpcmgrd` is a Go daemon that keeps a set of frpc client configurations, runs
each of them as an frp client within its own process, and is driven over HTTP and
WebSocket by a React UI. This directory holds TLA+ modules translated from its
source, the TLC configurations that check them on small instances, and theorems
about them that TLAPS checks. `PROJECT.json` maps every definition to the lines
it models.

    tlc -workers 2 -config Registry_exclusive.cfg MCConfigRegistry.tla
    tlapm ConfigRegistryProofs.tla

## 1. Inventory

| Component | State it keeps | Operations | Talks to | Hard part | What makes it correct |
|---|---|---|---|---|---|
| Instance lifecycle (`internal/manager/instance.go`) | state, handles of the current run, `runWG`, proxy statuses | start, stop, reload, runLoop, statusPoller, Shutdown | frp client, event bus | callers and four goroutines interleave between lock sections; a WaitGroup that is waited on and raised again; a self-exit racing a stop | one frpc at a time, a stop drains and returns, an exit cleans up after itself |
| Config registry (`internal/manager/manager.go`) | `instances`, files, live data, `meta.sort` | Create, Update, WriteRaw, Delete, Start, Stop, Reload, Reorder, LoadAll, AutoStart | instances, files, metadata store | four copies kept in step by hand, no lock across a call, files truncated and rewritten, crashes | no unreachable frpc, what is shown is what is on disk and what runs |
| Event bus (`internal/eventbus`) | sequence number, ring, subscriptions | Publish, Subscribe, Since | every component publishes | number, ring and fan-out are separate steps | nothing between ring and channel is lost |
| Event WebSocket handler (`internal/api/events.go`) | one subscription per connection | replay, deliver | bus, browser | subscribe and replay are two steps | as above |
| Web UI event client (`EventStreamContext.tsx`) | socket, timer, highest number, token | connect, reconnect | handler | late callbacks of old sockets, daemon restarts | one connection, always back, nothing missed |
| Metadata store (`meta.go`) | `meta.json` in memory and on disk | setters, flush | registry, backup handlers | memory changes before a flush that may fail | what is answered is what is stored |
| Backup scheduler (`internal/backup/scheduler.go`, `api/backup.go`) | cron, running set, WaitGroup; channels and schedules in the store | Start, Stop, Reload, launch, RunNow, retention; editing handlers; restore | store, remote storage | check-then-write handlers, jobs on stale copies, Stop with a time limit | one job per schedule, cron follows the store, retention keeps the newest |
| UI: list of instances (`Configs.tsx`, left column) | list with states, active instance, order under drag | poll, commands, drag, events | list, status, lifecycle and reorder requests, events | answers and events in any order, lost ones, closures over an instance the user has left | the states shown converge to the daemon's |
| UI: rules table and drawer (`Configs.tsx`, rules tab) | rows, checked rows, move dialog; one form for all kinds of rule | toggle, batch, move, reorder; open, edit, submit | proxy handlers | reloads under the user's hands; a form that outlives its sessions; flattening a rule and building it again | a command names rows that exist, a save sends what its session made and loses nothing |
| UI: visual form (`Configs.tsx`) | form filled from a configuration | load, switch, save | config handlers | the save replaces the whole with what was read before; switches hide fields | untouched stays, hidden goes |
| UI: live logs (`Configs.tsx`, `Logs.tsx`) | lines, socket, badge | load history, open, pause, clear, leave | log handlers | old sockets call back late; history and stream meet | one socket, each line once |
| UI: rules transfer (`RulesTransferModal.tsx`) | text, rows, options, results | parse, edit, import, export | rule import handlers | what was previewed is applied later, to another state | nothing replaced unasked, ports distinct |
| UI: backup page (`Backup.tsx`) | three lists, two dialogs, restore drawer | edit, toggle, run, browse, restore | backup handlers, `backup.run` events | answers for a dialog that has been closed; secrets that are never sent back | the stored secret is the last one typed |
| UI: update card (`UpdateCard.tsx`) | phase, progress, result of the check | check, update, wait for the restart | update handlers, updater process | the daemon goes away in mid-request | the card comes to rest |
| Auto-delete timers (`autodelete.go`) | a timer per instance | arm, re-arm, fire | registry | timer fires for an id that was made again | only what expired is deleted |
| Proxy editing (`api/proxies.go`) | none of its own | create, update, delete, toggle, reorder, move | registry | read-modify-write without a lock; Move writes two files | no edit lost, no proxy lost |
| Visitor ports, rule import (`rulesimport.go`) | none | suggest, check, import | registry | port range boundary; check before write | a free port is found when there is one |
| Log tailing (`internal/logtail`) | subscribers, file offset | Subscribe, Stop, rotate | files, WebSocket | channel closed twice, rotation | no send on a closed channel, no line lost on rotation |
| Self update (`internal/selfupdate`) | cached release | CheckLatest, Apply | GitHub, host | cache refreshed by two callers, version order | comparison is an order |
| Import and export (`importexport.go`) | none | ImportZIP, restore | registry, store, scheduler | a long sequence with partial failure | what is reported restored is restored |
| Daemon entry (`cmd/frpcmgrd`) | none | boot, shutdown | all | order: LoadAll, MigratePaths, ArmAllAutoDelete, AutoStart, scheduler, HTTP; then server, scheduler, manager down | shutdown ends |

Config formats, status and diagnostic handlers, HTTP middleware, utilities,
installers and packaging carry no protocol of their own; `PROJECT.json` lists
them with the reason they are left out. Its `hazards` list what is hard to test
in this code, each at the line where it bites.

The UI's other pages show what one answer holds; `tomlSnippets.ts` is static
text and `api/types.ts` declares generated types.

## 2. Modules

### InstanceLifecycle

One instance. An action is one lock section, or one call that blocks, of a
caller (`Start*`, `Stop*`, `Shutdown*`) or of a goroutine of a run (`Frpc*`,
`Loop*`, `Poll*`). `current` stands for the pair `i.svc`, `i.cancel`. `runWG` is
the counter, `waiters` who sleeps in `Wait`; that a counter raised from zero
while a woken waiter has not returned makes `Wait` panic is part of the model
(`StopReused`). A panic of the frp library ends the daemon (`FrpcPanic`),
because it is raised in a goroutine that has no recover. `shown` is what the bus
has last announced. The counts of connections and the auto-delete timer are left
out; `reload` is in ConfigRegistry.

### InstanceService

What an instance promises, without its goroutines: clients that are put to work
once each, one at a time, and a close that answers when nothing serves.
`InstanceLifecycle!KeepsService` is its specification with `serving`, `served`
and `call` computed from the state of the runs and of the caller; with one
caller InstanceLifecycle implements it.

### ConfigRegistry

All instances, on the level of what the code keeps in step by hand: `file`,
`inst`, `data`, `sort`, and `running` with the version each frpc has `applied`.
A call of a handler is a chain of actions, one per access. Writing a file
through `saveTOML` is two (truncate, fill), a replacement through
`writeAtomic` is the temporary file and the rename; the write of the temporary
file is one step, since nothing reads it before the rename. `Restart` kills the
daemon between any two steps and boots it (`LoadAll`), `AutoStart` then starts
what is to be started. Starting and stopping are one step each: how they
interleave is what InstanceLifecycle is about. `Exclusive` says whether calls on
one id may overlap; the code does nothing to keep them apart, one user who
clicks once does. A file is torn when it has been truncated and not filled: by a
kill between the two steps of `saveTOML` or by a write that fails
(`TornByCrashOnly` says that nothing else tears one).

### EventFeed

A path through three components: publishers and ring (`TakeNumber`,
`AppendRing`, `FanOut`), a handler per connection (`Accept`, `Subscribe`,
`ReadReplay`, `Send`, `Leave`) and a browser tab (`OnClose`, `TimerFires`,
`TokenChange`, `Login`, `Logout`). `got` and `excused` are history: what the
client received, and what was dropped on a full channel or left the ring. An
event is a pair of boot and number.

### BackupScheduler

Handlers that edit channels and schedules, the cron, jobs and Stop. A schedule
is its channel, its pool (the pattern of the keys it produces) and whether it
is enabled; a job carries the copy it was launched with. `cron` is what the
ticking `cron.Cron` holds, which after the lock section of Stop is still ticking
until `StopCron`; `ticks` are entries that have fired and not reached `launch`.
Remote calls may fail or panic at any point. `missed` and `overlap` are
history: an edit stayed in memory after a failed flush, and two edits have
overlapped. `MaxWork` bounds edits and launches together, `MaxEdits` the edits
among them. The archives that can be restored are constants: two of this daemon,
one of another, whose schedule shares its pool with jobs that are still at work. Retention is one number for all schedules. Editing a channel changes
credentials only and is left out, as is the cap on the history of runs.

### The web UI

Eight modules, one per view, share a way of modelling. A request is a record in
`requests` with what its continuation will use: the instance it was sent for
(the closure of the render that sent it) and the rows or values it carried. It
is served by one action of the daemon and delivered by another, in any order;
what an `await` is followed by is the delivery. The daemon's side is what its
handlers do to what the view shows, one step per handler, because how handlers
interleave is the subject of the modules above.

* `ConfigList`: list, poll every 4 s, lifecycle commands, create, duplicate,
  delete, order by drag, and events that may be lost. `Drift` is a state that
  changes by itself.
* `RulesTable`: rows loaded from two lists, the 300 ms timer that follows
  events, checked rows and their reconciliation, batch commands, move to another
  instance, reorder.
* `RuleDrawer`: `Open` flattens a stored rule into form fields (`FormOf`),
  `Submit` builds a body from the fields on screen (`Mounted`, `BodyOf`). A value
  is where it came from, a rule or what the user typed under which plugin; the
  tables of keys (`Fields`, `AlwaysRows`, `TruthyRows`) are those of the code,
  so a key that is lost on the way is found.
* `ConfigForm`: the same for the whole configuration, with the switches that
  hide fields and another writer between loading and saving. The rules tab's
  load refreshes what a save spreads (`detail`) and not the form (`Looked`), so
  the two may come from different answers; the daemon stores three paths in
  frp's spelling, which is not the page's (`Decoded`).
* `LogView`: the mini log of the instance page and the log page: history, then a
  socket, `onmessage` and `onclose` of old sockets, pause, and the watermark of
  a clear. `hasty` is history: the user has left the tab or chosen another
  instance while the history was loading. The answer then opens a socket all the
  same, which nobody closes.
* `RulesTransfer`: a paste and its preview, rows with actions, `ApplyRuleImport`
  row by row with names, addresses and visitor ports, export; the dialog stays
  mounted. There are two addresses: `any` (0.0.0.0, which overlaps all) and `own`.
* `BackupPage`: the page's requests and dialogs, secrets that are left out of
  answers and merged back, restore of an archive, and of a job only the order in
  which it marks, records, publishes and unmarks.
* `SelfUpdate`: card, release cache, updater process. Versions are numbers. The
  15 s limit of axios on the POST is left out: it is one more way to `failed`.

`RulesTab` (rules table, drawer, logs), `Dialogs` (visual form, rules transfer,
backup page) and `MCPageStates` (list, update card) each put several of these
side by side: a behaviour chooses a view and stays in it. The views share no
state, and the sum of their states is checked instead of the product. The first
two hold the assumptions on the constants of their parts and state their
properties for the proofs; `MCRulesTab` and `MCDialogs` give TLC the rules, texts
and channels.

The other `MC*.tla` add symmetry sets and, for backups, the store at boot and the
archives. The `*Proofs.tla` modules hold the theorems. Definitions commented as
mutants are slips a programmer could make; no specification uses them. They
serve to confirm that each property can fail.

## 3. Runs

| Run | Question | Bounds |
|---|---|---|
| `lifecycle_concurrent` | What survives any interleaving of two callers: the WaitGroup counts what it should, the handles held are usable. | 2 callers, 2 runs: a second run while the first ends, with a caller on each side |
| `lifecycle_serial` | Do callers that come one at a time get what InstanceService promises, a stop that has drained and returns, and an exit that ends both goroutines; panics of frp included? | 1 caller, 2 runs |
| `lifecycle_stop_hangs` (violation) | Does every stop return with two callers? No: see below. | 2 callers, 1 run |
| `registry_exclusive` | With calls on one id kept apart, killed between any two steps and with file operations that fail: do file, registry, live data and frpc stay in step, is a file torn by nothing but a kill or a failure in the middle of its writing, and is what was shown at rest what the next boot loads, unless the file is torn? | 2 callers, 2 ids, a version frp accepts and one it rejects, 1 instance per id and boot |
| `registry_orphan` (violation) | After Delete, does no frpc run that it deleted? No. | 2 callers, 1 id |
| `feed_any` | Does the hand-over from ring to channel leave no hole, whatever publishers, daemons, logins and tabs do? | 2 publishers, 1 slot for connections, ring of 2, channels of 1, 3 events, 2 boots |
| `feed_steady` | With one publisher and one boot: nothing is forgotten over any number of reconnections, one connection, always back, always caught up. | 1 publisher, 2 slots for connections, ring and channels of 2, 3 events: the ring overflows |
| `backup_jobs` | One job per schedule, each in the history once, none after a drained Stop; pools apart while edits do not overlap; retention keeps the newest. | 2 handlers, 2 job slots, 4 edits and launches together of which at most 2 edits, 3 schedules, 2 channels, one pattern (pools differ by channel), retention 1; the store's flushes succeed |
| `web_rules_tab` | Does the rules tab command only rows it shows, save only what its session made without losing a key, and, until the user has abandoned a history that was loading, show each line of the log once and leave no socket open? | 2 instances with 2 and 1 rules, 1 command, 1 trouble, 2 requests; drawer: 4 rules that between them use every kind of field, 2 sessions, 2 edits, 1 field typed into; logs: 3 lines, 2 sockets |
| `web_log_leak` (violation) | Is every log socket closed when its view is left? No. | 2 instances, 3 lines, 2 sockets |
| `web_dialogs` | Does an untouched save keep every path the form shows, and the parts a save does not build anew, is what is stored coherent, are ports distinct and rules replaced only when asked, is the secret the last one typed? | form: 2 edits, 1 other write, 2 requests; transfer: 2 instances, 2 texts, 3 ports, 3 edits, 1 import; backup: 1 channel and 1 schedule at first, 2 pieces of work, 2 requests |
| `web_page_states` | Do the states shown converge, and does the update card come to rest? | 2 instances and their copies, 1 command, 2 troubles, 1 request of a kind; 1 card, 2 releases, 3 clicks and failures |

Two callers are enough for every race listed: each is between one call and one
other call or goroutine. Two runs, instances or boots are what it takes for
something of an earlier one to meet a later one; a ring or a channel of two
overflows with the third event; retention 1 prunes with the second upload, and four
units of work are a restore that puts two schedules on one pool and three
launches, so that an upload falls between another job's listing and its deletion.
In the UI a stale answer needs one request to overtake another, a stale session
two sessions, a stale selection a row that goes and one that stays.

Every action of the UI modules is taken within these bounds. What they do not
reach is the refusal of a command on something a previous command of the same
kind has removed: a second command on a deleted instance (`MaxCommands` 2), an
edit of a deleted channel or a restore of a deleted one (`MaxWork` 3).
`CHECK_DEADLOCK FALSE` is set where the system really stops: when all runs or
all work the bounds allow are used up, the daemon has ended, a caller waits for
ever, or the user does nothing more.

Bounds are named constants: `MaxRuns`, `MaxInst`, `RingCap`, `ChanCap`,
`MaxSeq`, `MaxBoots`, `MaxWork`, `MaxEdits`, and in the UI `MaxCommands`, `MaxTrouble`,
`MaxRequests`, `MaxEdits`, `MaxSessions`, `MaxWrites`, `MaxOpens`, `MaxImports`,
`MaxLines`, `MaxSockets`, `MaxLoads`, `MaxClicks`, `MaxVersion`.

### Fairness

* InstanceLifecycle: weak fairness of the steps of callers inside a call and of
  `runLoop`, since goroutines that can run do, and `runLoop` leaves on a done
  context whether or not frpc has returned; strong fairness of the exit of the poller, which
  is one of the ready cases of a `select` whose choice is random. Nobody is
  obliged to call start or stop, and frpc is not obliged to exit, neither by itself
  nor after a close.
* EventFeed: weak fairness of goroutines and callbacks; strong fairness of
  accepting a connection and of the handler's steps over an open one. The
  network owes nothing to one connection, but of infinitely many some come
  through. Publishing and failing are never obliged.
* ConfigList: weak fairness of the daemon's handlers, of continuations and
  events, and for each instance of the poll, its service and its answer: the
  interval timer runs as long as the page is shown, and every entry has a
  request of its own. Changes of state and losses are bounded by `MaxTrouble`:
  the claim is about what follows the last of them.
* SelfUpdate: weak fairness of a request that is served, answered or refused
  (every one has a time limit) and of the 120 s limit of `waitForRestart`.
  Nothing is assumed of the updater, the service manager or GitHub.
* The other modules state safety only.

### What the violations say

* `lifecycle_stop_hangs`: one caller's `start` claims the instance (Starting) and
  releases the lock. Another's `stop` is let in, since it refuses Stopped and
  Stopping only, and copies handles that are still nil: it cancels nothing. The
  start then installs its run and adds two goroutines to the counter, and the stop
  waits in `runWG.Wait` for goroutines that nobody has cancelled.
  `instance.go:251` says that `stop` waits until the goroutines have gone, and the
  handles it takes before (`instance.go:259`) are those of no run.
* `web_log_leak`: the user leaves the log view while the history loads. The effect's
  cleanup has no socket to close yet; the answer comes and opens one
  (`Configs.tsx:738`), which stays open behind the view until the next change of
  tab or instance, or for good when the page was left.
  `Configs.tsx:777` says that the cleanup is there to avoid such a leak.
* `registry_orphan`: `Delete` stops, removes and unregisters in separate steps;
  a `Start` that has looked the instance up earlier runs after. `manager.go:295`
  says that Delete stops the instance.

More configurations, to be run by hand, give counterexamples to what comments
or documents say and the code does not do:

| Configuration | Property | What happens |
|---|---|---|
| `Lifecycle_two_services.cfg` | AtMostOneActive | two callers: a start during a stop runs a second frpc |
| `Lifecycle_stop_panics.cfg` | WokenIsDrained | the WaitGroup is used again before a woken stop returns |
| `Lifecycle_stale_started.cfg` | HonestState | frpc ends before `start` assigns Started |
| `Lifecycle_silent_stopping.cfg` | StoppingAnnounced | `stop` assigns the state without publishing it |
| `Lifecycle_panic.cfg` | PanicRecovered | a panic in the inner goroutine is out of reach of the recover in `runLoop` |
| `Registry_exclusive.cfg` | NeverTorn | Create and Update truncate the file and write it, killed or failing in between; `docs/superpowers/specs/2026-05-20-frpmgr-docker-migration-design.md:517` says that all writes go through an atomic rename |
| `Registry_sort_drift.cfg` | SortInSync | Create writes back a list read before another handler's change |
| `Feed_two_publishers.cfg` | NothingForgotten | a higher number is in the ring first; the client's `since` skips the lower |
| `Feed_restart.cfg` | NothingForgotten | numbers start again, the client's `since` does not |
| `Feed_login.cfg` | ConnectsAfterLogin | `connect()` gives up without a token, to wait for the login (`EventStreamContext.tsx:62`); `Login.tsx` stores it and navigates within the page, and `storage` events reach other tabs only |
| `Feed_token_change.cfg` | OneSocket | the close of an old socket schedules a second connection |
| `Backup_own_only.cfg` | DeletesOwn | a renamed or restored schedule leaves its pool to another, whose retention deletes what it uploaded (`scheduler.go:307-310`) |
| `Backup_dangling.cfg` | NeverDangling | the channel goes between the check and the write |
| `Backup_edit_lost.cfg` | EditsTakeEffect | a flush fails: the edit is in memory and the cron is not reloaded |
| `Web_rows_stale.cfg` | RowsAreActive | the timer checks that the user still is on that instance (`Configs.tsx:276-279`), the continuations of commands (510, 521, 583, 602, 1096) load the instance of their closure |

Some of what comments and documents say is stated as a property the configuration
of its module does not name. Adding it gives the counterexample:

| Configuration | Property | What happens |
|---|---|---|
| `Lifecycle_stale_started.cfg` | ExitClearsStats | the poller stores statuses after they were cleared |
| | FeedSettles | two changes are published in the other order |
| `Registry_orphan.cfg` | LiveIsFile | two Updates leave one's file and the other's data |
| | CreateIsNew (PROPERTY) | two Creates of one id both pass the check |
| `Web_rules_tab.cfg` | RowsWhole | a reload shortens the table between the start of a drag and the drop |
| | TableAgrees | two loads are answered in the other order |
| | SecretIsSet (`"secretKey"` among `EditFields`) | a secret of spaces passes the required rule and is trimmed afterwards |
| | EditKeepsSwitch (PROPERTY) | the body of a PUT has no `enabled`, and the handler replaces the rule |
| | BadgeIsCurrent | `onclose` of the old socket comes after the new one has opened |
| | NoGap | a line is written between the history and the opening of the socket |
| `Web_dialogs.cfg` | PasteIsPrefilled | the dialog stays mounted and its state takes its props once |
| | RowsAreOfConfig | rows previewed for one instance are imported into another |
| | NoOverlap | within a batch `usedBinds` compares an address as it is written (`rulesimport.go:75-82`), so one visitor on 0.0.0.0 and one on an address of its own pass with the same port (`manager.go:439-440`: a wildcard overlaps any address) |
| | OverwriteReplaces | the port check finds the very visitor that is to be replaced (`docs/API.zh-CN.md:805`) |
| | DefaultsApply | the preview suggests a name or port for one row that another row of the paste holds |
| | OutputAgrees | two exports answered in the other order |
| | RunningClears | `backup.run` is published before the schedule is unmarked (`scheduler.go:242` and 217) |
| | ToggleTurnsShown, AnswerClosesOwn (PROPERTY) | an answer meets a list or a dialog that is no longer the one it was sent from |
| | NoLostUpdate (PROPERTY) | the save spreads the configuration it read over what was stored since (`Configs.tsx:806`) |
| | RestSurvives (PROPERTY) | a save builds `auth`, `log`, `webServer` and `transport` anew from its fields and drops the rest (`Configs.tsx:811-845`), a keep-alive, a proxy URL or the log file; with the virtual net off it drops the other feature gates as well; `dialServerKeepAlive`, `clientId` and `tokenEndpointUrl` are not how frp spells them (`docs/API.zh-CN.md:989`), so their values are neither shown nor sent back |
| `Web_page_states.cfg` | ActiveExists | the user selects an instance that is being deleted |
| | OrderAgrees | an old list answer comes last |
| | UpdatingIsShown | the answer to an earlier check brings the buttons back |
| | DoneIsDone (PROPERTY) | another page's update is taken for this card's |

With larger bounds: `ObjectsAreOfChannel` and `RestoreIsOfChannel` (two channels,
`MaxWork` 3), `ListIsWhole` (`MaxCommands` 2), `NeverGoesBack` (two cards,
`MaxVersion` and `MaxClicks` 4).

Other configurations pass, and hold what would make the runs too long:

| Configuration | Module | Properties |
|---|---|---|
| `Lifecycle_shutdown.cfg` | MCInstanceLifecycle | ShutdownEndsRuns, ShutdownReturns: Shutdown racing a caller ends every run and returns, unless a panic ends the daemon first (2 callers, 1 run) |
| `Registry_orphan.cfg` | MCConfigRegistry | OnDiskRegistered and CreateIsNew (PROPERTY), when they are added to it and `Exclusive` is TRUE |
| `Registry_failures.cfg` | MCConfigRegistry | NoOrphan, RegisteredOnDisk, SortInSync with failing file operations |

Two more disagreements are outside the properties: clearing the log is said to
delete the log file (`Configs.tsx:764-765`), while the handler keeps it and moves
a watermark (`logs.go:105-120`), which LogView models; and in the dialog of a new
channel, changing the kind from S3 and back saves `use_ssl` as false.

## 4. Proofs

`InstanceLifecycleProofs`, for every set of callers and every `MaxRuns`.

* Any interleaving: `TypeCorrect`, `WaitGroupCorrect`, `EndedRunsAreClosed`,
  `HeldHandlesAreUsable`. The invariant `Inv` adds to them what is known of runs
  that are not launched (`Fresh`, `Launching`) and of runs whose `runLoop` is
  leaving (`LeavingIsClosed`, `LetGo`). `runWG >= 0` needs the equation that it
  equals the number of live goroutines, hence the lemmas on cardinalities.
* Callers one at a time (`SerialCallers`): `SerialAtMostOneActive`,
  `SerialStoppedIsIdle`, `SerialStopDrains`, `SerialPollerReleased`.
  `SerialInv` adds that at most one run is busy and none
  while a start or the tail of a stop is under way (`OneBusy`), that a service
  that runs is watched by its loop (`Watched`), and that the instance holds the
  handles of a run until its context is done (`HeldUntilDone`).
* Refinement: `SerialKeepsService`, for callers one at a time. The initial state
  maps to InstanceService's; each action of a caller is a `Begin`, `Serve`,
  `Opened`, `GiveUp` or `Closed` of the service or a stutter, each of a
  goroutine a `Lose` or a stutter. It rests on `SerialInv`: `Serve` needs that
  nothing serves when a start installs its client, `Closed` that a stop that
  settles has drained.

`ConfigRegistryProofs`, for every set of callers, ids and versions, with
restarts, assuming `Exclusive`, along two invariants. Without `Exclusive` the
statements are false, as the runs show.

* With failing file operations: `TypeCorrect`, `ExclusiveNoOrphan`,
  `ExclusiveRegisteredOnDisk`. A call on an id keeps what it has found there,
  because no other call touches the id before it is done (`OneCall`, `CallKept`),
  and a registered id has its file until the deletion that will forget it has
  removed it (`FileUntilForgotten`); the boot starts with no handler at work
  (`Booting`).
* `InStep` relates file, live data and running frpc between the steps of a call:
  what a writer has brought to the disk is still there when it goes on
  (`WrittenKept`), a file is truncated only while a call writes it or after a
  failure (`WholeOrTorn`), the live data are the file's but for the calls that
  have replaced one of the two (`LiveUntilWritten`), and a frpc that runs has
  loaded the file from the reload of an update on (`AppliedKept`). From it follow
  `ExclusiveLiveIsFile` and `ExclusiveChangedIsApplied`, and the action properties
  `ExclusiveTornByCrashOnly` and `ExclusiveRestartKeeps`, all with failing file
  operations: `LiveIsFile` and `RestartKeeps` except a file that is truncated at
  rest, and `TornByCrashOnly` says how a file comes to be so.

`EventFeedProofs`, for every number of publishers, slots and events, and every
capacity of ring and channels.

* Without further hypotheses: `TypeCorrect` and `HandoverIsWhole`. The latter is
  inductive with the types, and rests on what `Since` returns for every ring
  (`SinceFacts`): the loop is a recursive function, and that it exists and what
  it has collected after i turns are shown from a least counterexample, which
  needs no induction theorem.
* `OneConnection`, when no other tab changes the token, which the run
  `Feed_token_change.cfg` shows to be needed. `OneSlot` is the invariant: at most one socket is
  not gone, and none while the timer is armed.
* `NothingIsForgotten`, when besides there is one publisher and one boot
  (`Alone`). The client's only memory is the highest number it has seen, so
  everything depends on the order of the numbers (`Ordered`), which several
  publishers break between taking a number and appending (run
  `Feed_two_publishers.cfg`), and a restart by beginning anew
  (`Feed_restart.cfg`). `Whole` adds where a connection begins (`Session`), that
  replay and channel continue what the client has (`ReplayInTurn`,
  `ChannelInTurn`), and the two statements the property is made of: what the
  client will not ask for again it has (`SeenWhole`), and the first connection,
  which asks for nothing, misses nothing from its first event on (`FirstWhole`).

`BackupSchedulerProofs`, for every finite set of jobs and all sets of callers,
channels, schedules and archives, along one invariant `Inv`.

* `TypeCorrect`, `EveryRunRecorded` and `StopIsFinal` rest on `Counted`: `wg` is
  the number of goroutines, `launched` the runs recorded and those under way.
  `StopIsFinal` needs with it what Stop has done so far (`Stopping`): a drained
  Stop has seen the counter at zero, and no launch passes `stopped`.
* `OneJobAtATime` is inductive by itself, given the types.
* `CronIsStore` needs `CronFollows`, which speaks of the store while Stop has
  not begun, and `Stopping` for the time after.
* `RetentionKeepsNewest`, an action property: what a job has listed to delete is
  still surplus when it deletes it (`Ripe`), because times are distinct and
  never ahead of the clock (`Dated`), so that what was uploaded since is newer.
* `PoolsStayApart` and `NothingDangles` need that what a handler has checked
  still holds when it writes, as long as no two edits overlap (`CheckedStays`).
  The first assumes that the store at boot and every archive have no two
  schedules on one pool, the second that the store at boot has no schedule
  without its channel: the code reads both files without a check of these.

`RuleDrawerProofs`, for any rules on disk, any fields typed into, and any number
of sessions, edits and requests, along one invariant `IInv`: the types, the three
properties of requests, and `Fits`.

* `StoredRulesFit`: `Fits` says what is stored, shown and sent is a rule as frp
  accepts it (`IsRule`): a known kind, type and plugin, switches on or off. It is
  needed of the stored rules because the drawer reads them back, of the form
  because a select with another value would send a key of no type, and of the
  requests because their answers write them.
* `SavedBodyFits`, from `BodyFits`: what `Submit` builds from a form whose selects
  hold what they offer has only keys of the schema.
* `NothingLeaksAcross`: `Open` sets every field, so only the session's rule and
  its typing are in the form; an input shared by two plugins holds what was
  typed for the one selected, because choosing another clears it
  (`PluginInputsOwn`, lemma `BodyOwns`).
* `SavingKeepsTheRule`, from `RoundTrip`: until the user touches it the form is
  what `FormOf` makes of the rule (`EditFits`), and for every key of its schema
  `BodyOf(FormOf(rule))` means what the rule means. The tables of the code are
  compared row by row: each key of the schema has a row or is computed
  (`OwnKeysSent`, `PluginKeysSent`), its field is rendered, and the field was
  filled from that key (`RowKeeps`).

The assumptions on constants: the rules at first are ones frp accepts, whose only
visitor plugin is virtual_net and which have a destination only with it, and the
user types into inputs, not into selects and switches.

`ConfigFormProofs`, for any configuration at first and any number of edits,
saves, loads and other writes, along one invariant `IInv`: the types, the two
properties of requests, and `Fits`.

* `DiskFits`: what is stored, loaded and sent is a configuration as frp accepts
  it (`IsConfig`), which the form reads back (lemma `DecodedFits`: what a save
  builds, in frp's spelling, is one again); the form offers what it offers; and
  until the user touches it, the form is `FormOf` of the configuration it was
  filled from, or has not been filled and lacks the server, so that it cannot be
  saved.
* `UntouchedSaveIsKept`, from `RoundTrip`: for every path the form shows,
  `Payload(detail, FormOf(filled))` means what `filled` means, row by row: switches
  keep an explicit false (`SwitchRowKept`), texts are rendered unless a switch
  puts them away (`TextRowKept`). `detail` and `filled` need not be the same
  configuration. The paths a save spreads (`KeptPaths`) are those of `detail`
  (lemma `KeptIsKept`), and so are the other feature gates while the virtual net
  is on (lemma `GatesKept`). Nothing is claimed of the rest of what a save builds
  anew, which it drops (`RestSurvives`).
* `SavedIsCoherent`, from `PayloadCoherent`: what a switch puts away is not on
  screen, and what is not on screen is not sent.

The assumptions on constants: the configuration at first is one frp accepts, with
the method of login token or oidc, its switches on or off and its paths in frp's
spelling; the user types into text inputs.

`DialogsProofs`, for any stored rules, texts, suggested names and ports, any
channels and schedules, and any number of imports, saves and requests.

* `BindsStayDistinct`. The heart is a loop invariant of `ApplyRuleImport`
  (`Keeps`, `OldOrNew`, lemma `BatchFacts`): each rule is a stored one or one of
  this batch that passed `VisitorBindConflict`, and the key of each visitor of the
  batch is in `binds`, which the next one is compared with; so the result is
  apart when the stored rules were. `Applied` is a recursive function; that it
  exists and what holds after k entries are shown from a least counterexample
  (`LoopTurns`). The preview may be old and for another instance: a request holds
  entries only, and the import checks them against the rules it finds. Within one
  import two visitors may overlap through a wildcard, which `BindsDistinct`
  excepts and `NoOverlap` shows. That no two stored visitors overlap at first is
  a hypothesis: `LoadAll` takes the files as they are.
* `OverwritesAreAsked`, an action property, from the same loop: a stored rule
  remains as it is unless an entry of its name says "overwrite".
* `SecretsAreLastTyped`, along `BackupInv`: what is stored for a channel is what
  was last typed, for each channel there is, through any saves, deletions and
  restores in flight. It needs that every channel has an id, so that no update is
  taken for a creation, and that every form and list has a field for the secret.

`RulesTabProofs`, for any instances and rules, any number of commands, lines and
sockets.

* `SelectionStaysShown` and `MovesStayApart`, along `TableInv`. A load that failed
  carries no rows, so that it empties the table and leaves the selection, as
  `SelectionShown` allows; the target of the dialog is not the active instance,
  because the effect on `[activeConfigId]` forgets it whoever changes the
  instance; rows, stored rules and answers are sequences of names. The lemmas are
  about the sequences that handlers build: a finite set of numbers has an order
  (`OrderedSets`, `SortedFacts`), choosing from a sequence gives a sequence
  (`OnlyIsSeq`), and a drag keeps every row (`MovedRows`).
* `ViewStaysExact` and `SocketsDoNotLeak`, along `AlwaysLogsInv`: until the user
  has left a view whose history was loading (`hasty`), `LogsInv` holds: a live
  socket is the one held, of the instance on screen, and has sent every line that
  is shown, so what it sends next is new; while the history loads there is no
  live socket. Afterwards the answer with the history of one instance may open a
  socket in the view of another. `PageNeverLeaks` is `NothingLeftOpen` on the
  log page, without the exception: it loads no history.

`SerialCallers`, `Exclusive`, `Alone` and the absence of token changes are
assumptions about the surroundings, made by the theorems and not by the code.
Everything else they need is in the ASSUMEs of the modules, which TLC evaluates.
The strengthenings stand at the end of each module, and were model-checked on
the constants of its runs.

Only model-checked: everything temporal under fairness (`StopReturns`,
`ExitEndsRun`, `ShutdownEndsRuns`, `ShutdownReturns`, `Reconnects`, `CatchesUp`,
`StatusConverges`, `CardSettles`), which is out of the prover's reach; the
registry without `Exclusive`, where only what the runs of one caller show holds;
`ConfigList` and `SelfUpdate`, whose properties are of that kind. Every safety
property that a passing run checks is a theorem.

## 5. Plan

In order, the behaviour that matters most first.

1. InstanceLifecycle with proofs: done.
2. ConfigRegistry with proofs: done. To prove: `CreateIsNew` without restarts,
   `OnDiskRegistered` without restarts and failing writes.
3. EventFeed with proofs: done.
4. BackupScheduler with proofs: done.
5. InstanceService and the refinement, with its theorem: done.
6. The web UI, eight modules: done, with proofs of the safety properties of six.
   To prove: the types of the four modules of `DialogsProofs` and `RulesTabProofs`
   as theorems of their own.

## 6. Not modelled

* Auto-delete timers; restoring an archive's configurations; the flush of the
  metadata file, whose setters take effect at once; the tailer's goroutines,
  rotation and truncation. Each would be a module or further actors of
  ConfigRegistry.
* Two proxy handlers that overlap: each is one step of the daemon in the UI
  modules. What they lose of each other shows where another writer is modelled
  (`ConfigForm!NoLostUpdate`).
* A visual form that changes instance: ConfigForm has one, and leaves out a save
  between the selection of another instance and the answer that fills the form
  with it.
* Comparison of dotted versions, key patterns of backups, conversions between
  frp's structures and the editor's: functions without state.
* The raw file tab, the log text of an update, copying and downloading, layout
  and messages of the UI; its pages that show one answer.
* Status, system and diagnostic handlers, routing and authentication, installers
  and packaging.
