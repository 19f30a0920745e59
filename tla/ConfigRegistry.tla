--------------------------- MODULE ConfigRegistry ---------------------------
(***************************************************************************)
(* The registry of frpc configurations: Create, Update, WriteRaw, Delete,  *)
(* Start, Stop, Reload, Reorder, LoadAll and AutoStart of                  *)
(* internal/manager/manager.go, with the parts of instance.go, meta.go and *)
(* pkg/config/client.go they call.                                         *)
(*                                                                         *)
(* A configuration lives in four places that the code keeps in step by     *)
(* hand: the file in the profiles directory, the instance object in the    *)
(* map m.instances with its parsed data, the list meta.sort, and the frpc  *)
(* the instance runs, which has applied some version of the file.  m.mu    *)
(* and i.mu are held for single accesses only, so every access is an       *)
(* action and the calls of different handlers interleave between any two.  *)
(*                                                                         *)
(* The n-th instance object made for id x since boot is <<x, n>>.  The     *)
(* start and the stop of an instance are one step each here; how they      *)
(* interleave is the subject of InstanceLifecycle.  Two versions are the   *)
(* same when their files are: the display name Create fills in after the   *)
(* write, which a later parse of the file does not know, is left out.      *)
(***************************************************************************)
EXTENDS Naturals, FiniteSets

CONSTANTS
    Callers,    \* HTTP handlers, at most one call each at a time
    Ids,        \* config ids
    Versions,   \* contents of a config
    Valid,      \* the versions frp accepts when it loads the file
    MaxInst,    \* bound on the instance objects made per id and boot
    Exclusive,  \* TRUE if no two calls on the same id overlap
    MayRestart, \* TRUE if the daemon may be killed and started again
    IOFails,    \* TRUE if file operations may fail
    NoId,       \* no id
    NoFile,     \* no file, no content
    Empty,      \* a file that was truncated and not written yet
    Mixed       \* a file whose content was overlaid by two writers

ASSUME IdsAssumption == NoId \notin Ids
ASSUME VersionsAssumption ==
    /\ Valid \subseteq Versions
    /\ {NoFile, Empty, Mixed} \cap Versions = {}
    /\ NoFile # Empty /\ NoFile # Mixed /\ Empty # Mixed
ASSUME MaxInstAssumption == MaxInst \in Nat \ {0}
ASSUME SwitchesAssumption ==
    Exclusive \in BOOLEAN /\ MayRestart \in BOOLEAN /\ IOFails \in BOOLEAN

VARIABLES
    file,       \* file[x]: the content of <x>.toml in the profiles directory
    tmp,        \* tmp[x]: the content of <x>.toml.tmp
    opened,     \* callers whose open descriptor is the file now at its path
    inst,       \* inst[x]: the instance registered in m.instances, or None
    made,       \* made[x]: how many instances were made for x since boot
    data,       \* data[x][n]: i.data of the instance
    running,    \* the instances whose frpc runs
    applied,    \* applied[x][n]: the version the running frpc has loaded
    sort,       \* the ids meta.sort lists (their order is left out)
    todo,       \* the ids AutoStart has yet to visit
    call        \* call[c]: the call caller c is in

diskVars == <<file, tmp, opened>>
objVars  == <<inst, made, data>>
frpcVars == <<running, applied>>
vars == <<diskVars, objVars, frpcVars, sort, todo, call>>

None    == 0
Numbers == 1..MaxInst
Content == Versions \cup {Empty, Mixed}
Files   == Content \cup {NoFile}

CallPCs == {"idle", "createOpen", "createFill", "createRegister",
            "createLook", "createSort", "updateOpen", "updateFill",
            "updateData", "updateCheck", "updateReload", "updateParse",
            "updateTell", "rawTmp", "rawRename", "rawData", "deleteStop",
            "deleteRemove", "deleteForget", "deleteMeta", "start", "stop",
            "reload", "parse", "reorder"}

\* What a caller remembers: the id and the instance it works on, the version
\* it brings, and the list it read from meta.sort.
Calls == [at : CallPCs, id : Ids \cup {NoId}, n : Numbers \cup {None},
          v : Versions \cup {NoFile}, seen : SUBSET Ids]

NoCall == [at |-> "idle", id |-> NoId, n |-> None, v |-> NoFile, seen |-> {}]

TypeOK ==
    /\ file \in [Ids -> Files]
    /\ tmp \in [Ids -> Files]
    /\ opened \subseteq Callers
    /\ inst \in [Ids -> Numbers \cup {None}]
    /\ made \in [Ids -> Numbers \cup {None}]
    /\ data \in [Ids -> [Numbers -> Files]]
    /\ running \subseteq Ids \X Numbers
    /\ applied \in [Ids -> [Numbers -> Files]]
    /\ sort \subseteq Ids
    /\ todo \subseteq Ids
    /\ call \in [Callers -> Calls]

Registered == {x \in Ids : inst[x] # None}

Init ==
    /\ file = [x \in Ids |-> NoFile]
    /\ tmp = [x \in Ids |-> NoFile]
    /\ opened = {}
    /\ inst = [x \in Ids |-> None]
    /\ made = [x \in Ids |-> None]
    /\ data = [x \in Ids |-> [n \in Numbers |-> NoFile]]
    /\ running = {}
    /\ applied = [x \in Ids |-> [n \in Numbers |-> NoFile]]
    /\ sort = {}
    /\ todo = {}
    /\ call = [c \in Callers |-> NoCall]

-----------------------------------------------------------------------------
(* Helpers.                                                                *)

At(c, label)   == call[c].at = label
Goto(c, label) == call' = [call EXCEPT ![c].at = label]
Return(c)      == call' = [call EXCEPT ![c] = NoCall]

\* No call on x is under way.
Quiet(x) == \A c \in Callers : call[c].id # x

\* A handler runs once the boot is over.
Begin(c, label, x, n, v) ==
    /\ todo = {}
    /\ At(c, "idle")
    /\ Exclusive => Quiet(x)
    /\ call' = [call EXCEPT ![c] =
                  [at |-> label, id |-> x, n |-> n, v |-> v, seen |-> {}]]

\* A handler that found a registered instance.
BeginOn(c, label, x, v) == inst[x] # None /\ Begin(c, label, x, inst[x], v)

\* Whether frp loads a file, and whether the daemon parses one.  A file caught
\* in the middle of a write may pass or not.
Loads(f)  == IF f \in Versions THEN {f \in Valid}
             ELSE IF f = NoFile THEN {FALSE} ELSE BOOLEAN
Parses(f) == IF f \in Versions THEN {TRUE}
             ELSE IF f = NoFile THEN {FALSE} ELSE BOOLEAN

\* The path of x gets another file, or none: descriptors that were open on the
\* old one no longer reach it.
Detached(x) == opened \ {c \in Callers : call[c].id = x}

Launch(x, n) ==
    /\ running' = running \cup {<<x, n>>}
    /\ applied' = [applied EXCEPT ![x][n] = file[x]]

Halt(x, n) ==
    /\ running' = running \ {<<x, n>>}
    /\ applied' = [applied EXCEPT ![x][n] = NoFile]

-----------------------------------------------------------------------------
(* Writing a config: os.WriteFile opens and truncates, then writes.        *)

WriteOpen(c, from, to) ==
    /\ At(c, from)
    /\ file' = [file EXCEPT ![call[c].id] = Empty]
    /\ opened' = opened \cup {c}
    /\ Goto(c, to)
    /\ UNCHANGED <<tmp, objVars, frpcVars, sort, todo>>

\* The bytes go to the file that was opened.  What another writer put there in
\* the meantime is overlaid and shows behind a shorter content.
WriteFill(c, from, to) ==
    /\ At(c, from)
    /\ \/ /\ c \in opened
          /\ \E f \in {call[c].v} \cup IF file[call[c].id] = Empty THEN {} ELSE {Mixed} :
                file' = [file EXCEPT ![call[c].id] = f]
       \/ c \notin opened /\ UNCHANGED file
    /\ opened' = opened \ {c}
    /\ Goto(c, to)
    /\ UNCHANGED <<tmp, objVars, frpcVars, sort, todo>>

\* A file operation fails: the handler gives up where it is.
WriteFails(c) ==
    /\ IOFails
    /\ \E l \in {"createOpen", "createFill", "updateOpen", "updateFill",
                 "rawTmp", "rawRename", "deleteRemove"} : At(c, l)
    /\ opened' = opened \ {c}
    /\ Return(c)
    /\ UNCHANGED <<file, tmp, objVars, frpcVars, sort, todo>>

-----------------------------------------------------------------------------
(* Mutated forms of actions below, each a slip the code could have; no     *)
(* specification uses them.                                                *)

\* The id is not looked up before the file is written.
CreateCallUnchecked(c, x, v) ==
    /\ made[x] < MaxInst
    /\ Begin(c, "createOpen", x, None, v)
    /\ UNCHANGED <<diskVars, objVars, frpcVars, sort, todo>>

\* The display name goes into meta.sort, not the id.
CreateSortName(c) ==
    /\ At(c, "createSort")
    /\ sort' = call[c].seen \cup {NoId}
    /\ Return(c)
    /\ UNCHANGED <<diskVars, objVars, frpcVars, todo>>

\* WriteRaw writes the file in place, as Update does.
RawTmpInPlace(c) ==
    /\ At(c, "rawTmp")
    /\ file' = [file EXCEPT ![call[c].id] = Empty]
    /\ tmp' = [tmp EXCEPT ![call[c].id] = call[c].v]
    /\ Goto(c, "rawRename")
    /\ UNCHANGED <<opened, objVars, frpcVars, sort, todo>>

\* The file is opened before the config is encoded, and encoding fails.
UpdateOpenGivesUp(c) ==
    /\ At(c, "updateOpen")
    /\ file' = [file EXCEPT ![call[c].id] = Empty]
    /\ Return(c)
    /\ UNCHANGED <<tmp, opened, objVars, frpcVars, sort, todo>>

\* The live data is not replaced.
UpdateDataSkipped(c) ==
    /\ At(c, "updateData")
    /\ Goto(c, "updateCheck")
    /\ UNCHANGED <<diskVars, objVars, frpcVars, sort, todo>>

RawDataSkipped(c) ==
    /\ At(c, "rawData")
    /\ Return(c)
    /\ UNCHANGED <<diskVars, objVars, frpcVars, sort, todo>>

\* A running instance is not reloaded.
UpdateCheckNoReload(c) ==
    /\ At(c, "updateCheck")
    /\ Goto(c, "updateTell")
    /\ UNCHANGED <<diskVars, objVars, frpcVars, sort, todo>>

\* The temporary file is written and left there.
RawRenameForgotten(c) ==
    /\ At(c, "rawRename")
    /\ Goto(c, "rawData")
    /\ UNCHANGED <<diskVars, objVars, frpcVars, sort, todo>>

\* The instance is not stopped.
DeleteStopSkipped(c) ==
    /\ At(c, "deleteStop")
    /\ Goto(c, "deleteRemove")
    /\ UNCHANGED <<diskVars, objVars, frpcVars, sort, todo>>

\* The file stays.
DeleteRemoveNothing(c) ==
    /\ At(c, "deleteRemove")
    /\ Goto(c, "deleteForget")
    /\ UNCHANGED <<diskVars, objVars, frpcVars, sort, todo>>

\* The map keeps its entry.
DeleteForgetKeeps(c) ==
    /\ At(c, "deleteForget")
    /\ Goto(c, "deleteMeta")
    /\ UNCHANGED <<diskVars, objVars, frpcVars, sort, todo>>

\* meta.sort keeps the id.
DeleteMetaSkipped(c) ==
    /\ At(c, "deleteMeta")
    /\ Return(c)
    /\ UNCHANGED <<diskVars, objVars, frpcVars, sort, todo>>

-----------------------------------------------------------------------------
(* Create.                                                                 *)

CreateCall(c, x, v) ==
    /\ inst[x] = None
    /\ made[x] < MaxInst
    /\ Begin(c, "createOpen", x, None, v)
    /\ UNCHANGED <<diskVars, objVars, frpcVars, sort, todo>>

CreateOpen(c) == WriteOpen(c, "createOpen", "createFill")
CreateFill(c) == WriteFill(c, "createFill", "createRegister")

\* A new instance takes the place in the map, whoever holds it by now.
CreateRegister(c) ==
    LET x == call[c].id
        n == made[x] + 1 IN
    /\ At(c, "createRegister")
    /\ n \in Numbers
    /\ made' = [made EXCEPT ![x] = n]
    /\ inst' = [inst EXCEPT ![x] = n]
    /\ data' = [data EXCEPT ![x][n] = call[c].v]
    /\ Goto(c, "createLook")
    /\ UNCHANGED <<diskVars, frpcVars, sort, todo>>

\* meta.sort is read in one critical section and set in another.
CreateLook(c) ==
    /\ At(c, "createLook")
    /\ IF call[c].id \in sort
       THEN Return(c)
       ELSE call' = [call EXCEPT ![c].at = "createSort", ![c].seen = sort]
    /\ UNCHANGED <<diskVars, objVars, frpcVars, sort, todo>>

CreateSort(c) ==
    /\ At(c, "createSort")
    /\ sort' = call[c].seen \cup {call[c].id}
    /\ Return(c)
    /\ UNCHANGED <<diskVars, objVars, frpcVars, todo>>

-----------------------------------------------------------------------------
(* Update, and the hot reload it ends with when the instance runs.         *)

UpdateCall(c, x, v) ==
    /\ BeginOn(c, "updateOpen", x, v)
    /\ UNCHANGED <<diskVars, objVars, frpcVars, sort, todo>>

UpdateOpen(c) == WriteOpen(c, "updateOpen", "updateFill")
UpdateFill(c) == WriteFill(c, "updateFill", "updateData")

UpdateData(c) ==
    /\ At(c, "updateData")
    /\ data' = [data EXCEPT ![call[c].id][call[c].n] = call[c].v]
    /\ Goto(c, "updateCheck")
    /\ UNCHANGED <<diskVars, inst, made, frpcVars, sort, todo>>

\* Update asks for the state, and reload asks again before it goes on.
UpdateCheck(c) ==
    /\ At(c, "updateCheck")
    /\ Goto(c, IF <<call[c].id, call[c].n>> \in running
               THEN "updateReload" ELSE "updateTell")
    /\ UNCHANGED <<diskVars, objVars, frpcVars, sort, todo>>

\* svc.Reload loads the file and hands it to the running frpc.  After an error
\* the handler goes on at fail.
Apply(c, from, to, fail) ==
    LET x == call[c].id
        n == call[c].n IN
    /\ At(c, from)
    /\ \E ok \in Loads(file[x]) :
          /\ IF ok /\ <<x, n>> \in running
             THEN applied' = [applied EXCEPT ![x][n] = file[x]]
             ELSE UNCHANGED applied
          /\ IF ok THEN Goto(c, to) ELSE fail
    /\ UNCHANGED <<diskVars, objVars, running, sort, todo>>

\* reload parses the file once more for the API; a file that does not parse is
\* ignored.
Reparse(c, from, done) ==
    LET x == call[c].id
        n == call[c].n IN
    /\ At(c, from)
    /\ \E ok \in Parses(file[x]) :
          IF ok THEN data' = [data EXCEPT ![x][n] = file[x]] ELSE UNCHANGED data
    /\ done
    /\ UNCHANGED <<diskVars, inst, made, frpcVars, sort, todo>>

UpdateReload(c) ==
    Apply(c, "updateReload", "updateParse", Goto(c, "updateTell"))
UpdateParse(c) == Reparse(c, "updateParse", Goto(c, "updateTell"))

\* config.changed is published.
UpdateTell(c) ==
    /\ At(c, "updateTell")
    /\ Return(c)
    /\ UNCHANGED <<diskVars, objVars, frpcVars, sort, todo>>

-----------------------------------------------------------------------------
(* WriteRaw: a temporary file, a rename, then the live data.  A running    *)
(* frpc is left alone.                                                     *)

RawCall(c, x, v) ==
    /\ BeginOn(c, "rawTmp", x, v)
    /\ UNCHANGED <<diskVars, objVars, frpcVars, sort, todo>>

\* The temporary file is written in one step: nobody reads it before the
\* rename, and two writers leave the content of the one that closes last.
RawTmp(c) ==
    /\ At(c, "rawTmp")
    /\ tmp' = [tmp EXCEPT ![call[c].id] = call[c].v]
    /\ Goto(c, "rawRename")
    /\ UNCHANGED <<file, opened, objVars, frpcVars, sort, todo>>

\* The name of the temporary file is the same for every writer of x: a rename
\* may find the bytes of another, or nothing.
RawRename(c) ==
    LET x == call[c].id IN
    /\ At(c, "rawRename")
    /\ \/ /\ tmp[x] # NoFile
          /\ file' = [file EXCEPT ![x] = tmp[x]]
          /\ tmp' = [tmp EXCEPT ![x] = NoFile]
          /\ opened' = Detached(x)
          /\ Goto(c, "rawData")
       \/ /\ tmp[x] = NoFile
          /\ Return(c)
          /\ UNCHANGED diskVars
    /\ UNCHANGED <<objVars, frpcVars, sort, todo>>

RawData(c) ==
    /\ At(c, "rawData")
    /\ data' = [data EXCEPT ![call[c].id][call[c].n] = call[c].v]
    /\ Return(c)
    /\ UNCHANGED <<diskVars, inst, made, frpcVars, sort, todo>>

-----------------------------------------------------------------------------
(* Delete.                                                                 *)

DeleteCall(c, x) ==
    /\ BeginOn(c, "deleteStop", x, NoFile)
    /\ UNCHANGED <<diskVars, objVars, frpcVars, sort, todo>>

DeleteStop(c) ==
    /\ At(c, "deleteStop")
    /\ Halt(call[c].id, call[c].n)
    /\ Goto(c, "deleteRemove")
    /\ UNCHANGED <<diskVars, objVars, sort, todo>>

DeleteRemove(c) ==
    /\ At(c, "deleteRemove")
    /\ file' = [file EXCEPT ![call[c].id] = NoFile]
    /\ opened' = Detached(call[c].id)
    /\ Goto(c, "deleteForget")
    /\ UNCHANGED <<tmp, objVars, frpcVars, sort, todo>>

\* The entry of the map goes, whichever instance it holds by now.
DeleteForget(c) ==
    /\ At(c, "deleteForget")
    /\ inst' = [inst EXCEPT ![call[c].id] = None]
    /\ Goto(c, "deleteMeta")
    /\ UNCHANGED <<diskVars, made, data, frpcVars, sort, todo>>

DeleteMeta(c) ==
    /\ At(c, "deleteMeta")
    /\ sort' = sort \ {call[c].id}
    /\ Return(c)
    /\ UNCHANGED <<diskVars, objVars, frpcVars, todo>>

-----------------------------------------------------------------------------
(* Start, Stop, Reload: the instance is looked up first and used later.    *)

StartCall(c, x) ==
    /\ BeginOn(c, "start", x, NoFile)
    /\ UNCHANGED <<diskVars, objVars, frpcVars, sort, todo>>

StartRun(c) ==
    LET x == call[c].id
        n == call[c].n IN
    /\ At(c, "start")
    /\ \E ok \in Loads(file[x]) :
          IF ok /\ <<x, n>> \notin running THEN Launch(x, n)
                                           ELSE UNCHANGED frpcVars
    /\ Return(c)
    /\ UNCHANGED <<diskVars, objVars, sort, todo>>

StopCall(c, x) ==
    /\ BeginOn(c, "stop", x, NoFile)
    /\ UNCHANGED <<diskVars, objVars, frpcVars, sort, todo>>

StopRun(c) ==
    /\ At(c, "stop")
    /\ Halt(call[c].id, call[c].n)
    /\ Return(c)
    /\ UNCHANGED <<diskVars, objVars, sort, todo>>

ReloadCall(c, x) ==
    /\ <<x, inst[x]>> \in running
    /\ BeginOn(c, "reload", x, NoFile)
    /\ UNCHANGED <<diskVars, objVars, frpcVars, sort, todo>>

ReloadApply(c) == Apply(c, "reload", "parse", Return(c))
ReloadParse(c) == Reparse(c, "parse", Return(c))

\* frpc ends on its own.
FrpcExit(x, n) ==
    /\ <<x, n>> \in running
    /\ Halt(x, n)
    /\ UNCHANGED <<diskVars, objVars, sort, todo, call>>

-----------------------------------------------------------------------------
(* Reorder keeps the ids that are registered when it looks.                *)

ReorderCall(c, S) ==
    /\ todo = {}
    /\ At(c, "idle")
    /\ S \subseteq Registered
    /\ call' = [call EXCEPT ![c].at = "reorder", ![c].seen = S]
    /\ UNCHANGED <<diskVars, objVars, frpcVars, sort, todo>>

ReorderSet(c) ==
    /\ At(c, "reorder")
    /\ sort' = call[c].seen
    /\ Return(c)
    /\ UNCHANGED <<diskVars, objVars, frpcVars, todo>>

-----------------------------------------------------------------------------
(* The daemon is killed and started: LoadAll registers every file that     *)
(* parses, then AutoStart visits the ids before the first handler runs.    *)

Restart ==
    /\ MayRestart
    /\ \E L \in SUBSET Ids :
          /\ \A x \in Ids : (x \in L) \in Parses(file[x])
          /\ inst' = [x \in Ids |-> IF x \in L THEN 1 ELSE None]
          /\ made' = inst'
          /\ data' = [x \in Ids |-> [n \in Numbers |->
                         IF x \in L /\ n = 1 THEN file[x] ELSE NoFile]]
          /\ todo' = L
    /\ running' = {}
    /\ applied' = [x \in Ids |-> [n \in Numbers |-> NoFile]]
    /\ opened' = {}
    /\ call' = [c \in Callers |-> NoCall]
    /\ UNCHANGED <<file, tmp, sort>>

\* AutoStart starts the instance, unless it is to be started by hand only.
AutoStart(x) ==
    /\ x \in todo
    /\ todo' = todo \ {x}
    /\ \/ UNCHANGED frpcVars
       \/ TRUE \in Loads(file[x]) /\ Launch(x, inst[x])
    /\ UNCHANGED <<diskVars, objVars, sort, call>>

-----------------------------------------------------------------------------
CreateStep(c) ==
    \/ CreateOpen(c) \/ CreateFill(c) \/ CreateRegister(c) \/ CreateLook(c)
    \/ CreateSort(c)

UpdateStep(c) ==
    \/ UpdateOpen(c) \/ UpdateFill(c) \/ UpdateData(c) \/ UpdateCheck(c)
    \/ UpdateReload(c) \/ UpdateParse(c) \/ UpdateTell(c)

RawStep(c) == RawTmp(c) \/ RawRename(c) \/ RawData(c)

DeleteStep(c) ==
    DeleteStop(c) \/ DeleteRemove(c) \/ DeleteForget(c) \/ DeleteMeta(c)

RunStep(c) == StartRun(c) \/ StopRun(c) \/ ReloadApply(c) \/ ReloadParse(c)

CallOn(c, x) ==
    \/ \E v \in Versions : CreateCall(c, x, v) \/ UpdateCall(c, x, v) \/ RawCall(c, x, v)
    \/ DeleteCall(c, x) \/ StartCall(c, x) \/ StopCall(c, x) \/ ReloadCall(c, x)

CallerStep(c) ==
    \/ CreateStep(c) \/ UpdateStep(c) \/ RawStep(c) \/ DeleteStep(c)
    \/ RunStep(c) \/ ReorderSet(c) \/ WriteFails(c)

Next ==
    \/ \E c \in Callers :
          \/ \E x \in Ids : CallOn(c, x)
          \/ \E S \in SUBSET Ids : ReorderCall(c, S)
          \/ CallerStep(c)
    \/ \E x \in Ids : AutoStart(x) \/ \E n \in Numbers : FrpcExit(x, n)
    \/ Restart

Spec == Init /\ [][Next]_vars

-----------------------------------------------------------------------------
(* Properties that hold when the calls on one id do not overlap, whatever  *)
(* goes on at other ids.  The code does not see to it; with overlapping    *)
(* calls each of them fails.                                               *)

\* A frpc that runs belongs to the instance that is registered for its id: it
\* can be seen, stopped and deleted (Delete stops before it unregisters, and a
\* start looks the instance up first).
NoOrphan == \A r \in running : inst[r[1]] = r[2]

\* When nothing is going on at an id that is registered, there is a file at its
\* path: Create writes it before it registers, and Delete forgets what it has
\* removed.  The file may be one that a failed write or a kill has cut short:
\* of its content speak LiveIsFile and RestartKeeps.
RegisteredOnDisk ==
    \A x \in Ids : Quiet(x) /\ inst[x] # None => file[x] # NoFile

\* Conversely, no file is left behind that the next boot would bring back to
\* life and that no handler can reach.
OnDiskRegistered ==
    \A x \in Ids : Quiet(x) /\ file[x] # NoFile => inst[x] # None

\* When nothing is going on at an id, the parsed data the API shows and edits
\* is the content of the file: Update and WriteRaw write both, one after the
\* other, and reload reads one into the other.  Where a write has failed after
\* it had truncated the file, the data is what the file held before.
LiveIsFile ==
    \A x \in Ids :
        Quiet(x) /\ inst[x] # None =>
           data[x][inst[x]] = file[x] \/ (IOFails /\ file[x] = Empty)

\* When config.changed goes out, the frpc of the instance, if one runs, has
\* loaded the new file, unless frp rejects it: proxy edits take effect
\* immediately (comment at manager.go:267).
ChangedIsApplied ==
    \A c \in Callers :
        LET x == call[c].id
            n == call[c].n IN
        At(c, "updateTell") /\ <<x, n>> \in running /\ file[x] \in Valid
        => applied[x][n] = file[x]

\* A write of the file of x is between its truncation and its bytes.
Filling(x) ==
    \E c \in Callers : call[c].id = x /\ call[c].at \in {"createFill", "updateFill"}

\* The file of x is no content that a caller has brought, and no call is about
\* to complete it.
Torn(x) == file[x] \in {Empty, Mixed} /\ ~Filling(x)

\* A file is left torn by two steps only: os.WriteFile fails after it has
\* truncated the file, or the daemon is killed at that moment.  Between any
\* other two steps, those of WriteRaw included (a temporary file and a rename),
\* a kill or an error leaves the file whole.
TornByCrashOnly ==
    [][\A x \in Ids : Torn(x)' /\ ~Torn(x) =>
          /\ Filling(x)
          /\ Restart \/ \E c \in Callers : call[c].id = x /\ WriteFails(c)]_vars

-----------------------------------------------------------------------------
(* Properties of one caller, or violated.                                  *)

AllQuiet == \A c \in Callers : At(c, "idle")

\* When nothing is going on, meta.sort names registered configs only: Create
\* adds and Delete drops ("keep meta.sort in sync", manager.go:258).
SortInSync == AllQuiet => sort \subseteq Registered


\* The calls that bring a version, and the versions calls on x have brought.
Bringing == {"createOpen", "createFill", "createRegister", "updateOpen",
             "updateFill", "updateData", "rawTmp", "rawRename", "rawData"}

Brought(x) ==
    {call[c].v : c \in {d \in Callers : call[d].id = x /\ call[d].at \in Bringing}}

\* The daemon is killed at any moment, in the middle of calls: what it finds at
\* a registered id when it is started again is what the API showed, or what a
\* call that was under way had brought.  An id whose deletion has got as far as
\* the file is excepted, and so is a file found truncated (TornByCrashOnly says
\* when that is).
RestartKeeps ==
    [][Restart => \A x \in Ids :
          /\ inst[x] # None /\ file[x] # Empty
          /\ data[x][inst[x]] \in Versions
          /\ \A c \in Callers : ~(call[c].id = x /\ At(c, "deleteForget"))
          => inst'[x] = 1 /\ data'[x][1] \in {data[x][inst[x]]} \cup Brought(x)]_vars

\* No kill and no failing write costs a configuration: every write of a config
\* "goes through an atomic rename" (docs/superpowers/specs/
\* 2026-05-20-frpmgr-docker-migration-design.md:517).  Create and Update do not.
NeverTorn == \A x \in Ids : ~Torn(x)

\* While the daemon is up, Create registers a new config; it never takes the
\* place of one that is registered (ErrExists, manager.go:244; "Create persists
\* a new config file and registers an instance", manager.go:238).
CreateIsNew ==
    [][\A x \in Ids : inst[x] # None => inst'[x] \in {inst[x], None}]_vars

-----------------------------------------------------------------------------
(* Strengthenings: what has to hold besides for NoOrphan, RegisteredOnDisk *)
(* and LiveIsFile to be inductive.                                         *)

\* No two calls are on the same id.
OneCall ==
    \A c, d \in Callers :
        call[c].id = call[d].id /\ call[c].id # NoId => c = d

\* The calls that make an instance, and those that hold one.
Creating == {"createOpen", "createFill", "createRegister"}
Holding  == {"updateOpen", "updateFill", "updateData", "updateCheck",
             "updateReload", "updateParse", "updateTell", "rawTmp",
             "rawRename", "rawData", "deleteStop", "deleteRemove",
             "deleteForget", "start", "stop", "reload", "parse"}

\* What a call has found or done on its id stays so until it goes on.
CallKept(c) ==
    LET x == call[c].id
        at == call[c].at IN
    /\ x = NoId <=> at \in {"idle", "reorder"}
    /\ at \in Creating => inst[x] = None
    /\ at \in Holding => inst[x] # None /\ call[c].n = inst[x]
    /\ at \in Bringing => call[c].v \in Versions
    /\ at \in {"deleteRemove", "deleteForget"} => <<x, call[c].n>> \notin running
    /\ at \in {"createFill", "createRegister"} => file[x] # NoFile

\* A registered id has its file until a deletion has removed it.
FileUntilForgotten ==
    \A x \in Ids :
        inst[x] # None =>
           \/ file[x] # NoFile
           \/ \E c \in Callers : call[c].id = x /\ At(c, "deleteForget")

\* During the boot no handler runs.
Booting ==
    /\ todo \subseteq Registered
    /\ todo # {} => \A c \in Callers : call[c] = NoCall

\* What a writer has brought to the disk is still there when it goes on.
WrittenKept(c) ==
    LET x == call[c].id
        at == call[c].at IN
    /\ at \in {"createFill", "updateFill"} => c \in opened /\ file[x] = Empty
    /\ at \in {"createRegister", "updateData", "rawData"} => file[x] = call[c].v
    /\ at = "rawRename" => tmp[x] = call[c].v

\* A file is never overlaid.  It is truncated while a call writes it, or after
\* the write has failed or the daemon was killed in the middle of it.
WholeOrTorn(x) ==
    /\ file[x] # Mixed
    /\ file[x] = Empty =>
          \/ MayRestart \/ IOFails
          \/ Filling(x)

\* The live data is the file, but for the calls that have replaced one of the
\* two only, and the writes that have failed.
LiveUntilWritten(x) ==
    inst[x] # None =>
       \/ data[x][inst[x]] = file[x]
       \/ IOFails /\ file[x] = Empty
       \/ \E c \in Callers :
             /\ call[c].id = x
             /\ call[c].at \in {"updateFill", "updateData", "rawData", "deleteForget"}

\* From the reload an update ends with to its event, a frpc that runs has
\* loaded the file.
AppliedKept(c) ==
    LET x == call[c].id
        n == call[c].n IN
    /\ call[c].at \in {"updateParse", "updateTell"}
    /\ <<x, n>> \in running /\ file[x] \in Valid
    => applied[x][n] = file[x]

\* The strengthening of LiveIsFile, TornByCrashOnly, ChangedIsApplied and
\* RestartKeeps.
InStep ==
    /\ \A c \in Callers : WrittenKept(c) /\ AppliedKept(c)
    /\ \A x \in Ids : WholeOrTorn(x) /\ LiveUntilWritten(x)

=============================================================================
