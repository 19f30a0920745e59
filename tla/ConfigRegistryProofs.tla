------------------------ MODULE ConfigRegistryProofs ------------------------
(***************************************************************************)
(* Theorems about ConfigRegistry, for every set of callers, ids and        *)
(* versions, with restarts, when the calls on one id do not overlap.       *)
(*                                                                         *)
(* The argument: a call on x that has looked at the registry keeps what it *)
(* found (CallKept), because no other call touches x before it is done.    *)
(* With that, the step that could leave an orphan (a start, the removal    *)
(* from the map) is taken in a state where it cannot.                      *)
(***************************************************************************)
EXTENDS ConfigRegistry, TLAPS

Kept == \A c \in Callers : CallKept(c)

Inv ==
    /\ TypeOK
    /\ OneCall
    /\ Kept
    /\ FileUntilForgotten
    /\ Booting
    /\ NoOrphan

-----------------------------------------------------------------------------
(* Types.                                                                  *)

\* The labels a call on an id may have.
LEMMA LabelFacts ==
    /\ Creating \subseteq CallPCs /\ Holding \subseteq CallPCs
    /\ Creating \cap Holding = {}
    /\ "idle" \notin Creating \cup Holding
    /\ "reorder" \notin Creating \cup Holding
BY DEF Creating, Holding, CallPCs

\* The boot leaves one instance, or none, at every id.
LEMMA NoCallType == NoCall \in Calls
BY DEF NoCall, Calls, CallPCs, Numbers, None

\* A caller that goes on keeps a well-formed record.
LEMMA GotoType ==
    ASSUME TypeOK, NEW c \in Callers, NEW l \in CallPCs, Goto(c, l)
    PROVE  call' \in [Callers -> Calls]
BY DEF TypeOK, Goto, Calls

\* A caller that returns forgets everything.
LEMMA ReturnType ==
    ASSUME TypeOK, NEW c \in Callers, Return(c)
    PROVE  call' \in [Callers -> Calls]
BY NoCallType DEF TypeOK, Return

\* A caller that begins on an id remembers what it found.
LEMMA BeginType ==
    ASSUME TypeOK, NEW c \in Callers, NEW l \in CallPCs, NEW x \in Ids,
           NEW n \in Numbers \cup {None}, NEW v \in Versions \cup {NoFile},
           Begin(c, l, x, n, v)
    PROVE  call' \in [Callers -> Calls]
BY DEF TypeOK, Begin, Calls

\* A call that holds an instance holds a registered one.
LEMMA HoldingType ==
    ASSUME TypeOK, Kept, NEW c \in Callers, call[c].at \in Holding
    PROVE  call[c].id \in Ids /\ call[c].n \in Numbers
<1>1. call[c].id \in Ids \cup {NoId} /\ call[c].id # NoId
  BY LabelFacts DEF Kept, CallKept, TypeOK, Calls
<1>. QED
  BY <1>1 DEF Kept, CallKept, TypeOK

\* A start and a stop of frpc keep the types.
LEMMA LaunchType ==
    ASSUME TypeOK, NEW x \in Ids, NEW n \in Numbers, Launch(x, n)
    PROVE  running' \subseteq Ids \X Numbers /\ applied' \in [Ids -> [Numbers -> Files]]
<1>1. file[x] \in Files /\ applied[x] \in [Numbers -> Files]
  BY DEF TypeOK
<1>2. [applied[x] EXCEPT ![n] = file[x]] \in [Numbers -> Files]
  BY <1>1
<1>. QED
  BY <1>2 DEF TypeOK, Launch

LEMMA HaltType ==
    ASSUME TypeOK, NEW x, NEW n, Halt(x, n)
    PROVE  running' \subseteq Ids \X Numbers /\ applied' \in [Ids -> [Numbers -> Files]]
BY DEF TypeOK, Halt, Files

\* Replacing what one instance has loaded or parsed keeps the types.
LEMMA OneFileType ==
    ASSUME NEW f \in [Ids -> [Numbers -> Files]], NEW x \in Ids, NEW n, NEW v \in Files
    PROVE  [f EXCEPT ![x][n] = v] \in [Ids -> [Numbers -> Files]]
<1>1. [f[x] EXCEPT ![n] = v] \in [Numbers -> Files]
  OBVIOUS
<1>. QED
  BY <1>1

\* Every step keeps the types.
LEMMA TypeStep ==
    ASSUME TypeOK, Kept, Booting, [Next]_vars
    PROVE  TypeOK'
<1>. USE DEF diskVars, objVars, frpcVars
<1>0. \A c \in Callers : call[c] \in Calls /\ call[c].n \in Numbers \cup {None}
                      /\ call[c].v \in Versions \cup {NoFile}
                      /\ call[c].id \in Ids \cup {NoId} /\ call[c].seen \subseteq Ids
  BY DEF TypeOK, Calls
<1>1. ASSUME NEW c \in Callers, NEW x \in Ids, CallOn(c, x) PROVE TypeOK'
  <2>1. call' \in [Callers -> Calls]
    <3>1. NoFile \in Versions \cup {NoFile} /\ None \in Numbers \cup {None}
          /\ inst[x] \in Numbers \cup {None}
      BY DEF TypeOK
    <3>2. ASSUME NEW v \in Versions, CreateCall(c, x, v) \/ UpdateCall(c, x, v) \/ RawCall(c, x, v)
          PROVE  call' \in [Callers -> Calls]
      BY <3>1, <3>2, BeginType DEF CreateCall, UpdateCall, RawCall, BeginOn, CallPCs
    <3>3. CASE DeleteCall(c, x) \/ StartCall(c, x) \/ StopCall(c, x) \/ ReloadCall(c, x)
      BY <3>1, <3>3, BeginType
      DEF DeleteCall, StartCall, StopCall, ReloadCall, BeginOn, CallPCs
    <3>. QED
      BY <1>1, <3>2, <3>3 DEF CallOn
  <2>. QED
    BY <1>1, <2>1 DEF TypeOK, CallOn, CreateCall, UpdateCall, RawCall,
       DeleteCall, StartCall, StopCall, ReloadCall
<1>2. ASSUME NEW c \in Callers, CreateStep(c) PROVE TypeOK'
  <2>1. CASE CreateOpen(c)
    BY <2>1, GotoType DEF CreateOpen, WriteOpen, TypeOK, Files, Content, CallPCs
  <2>2. CASE CreateFill(c)
    BY <2>2, <1>0, GotoType
    DEF CreateFill, WriteFill, TypeOK, Files, Content, CallPCs
  <2>3. CASE CreateRegister(c)
    BY <2>3, <1>0, GotoType DEF CreateRegister, TypeOK, Files, Content, CallPCs
  <2>4. CASE CreateLook(c)
    BY <2>4, <1>0, ReturnType DEF CreateLook, TypeOK, Calls, CallPCs
  <2>5. CASE CreateSort(c)
    <3>1. sort' \subseteq Ids
      BY <2>5, <1>0 DEF CreateSort, At, Kept, CallKept
    <3>. QED
      BY <2>5, <3>1, ReturnType DEF CreateSort, TypeOK
  <2>. QED
    BY <1>2, <2>1, <2>2, <2>3, <2>4, <2>5 DEF CreateStep
<1>3. ASSUME NEW c \in Callers, UpdateStep(c) PROVE TypeOK'
  <2>1. CASE UpdateOpen(c)
    BY <2>1, GotoType DEF UpdateOpen, WriteOpen, TypeOK, Files, Content, CallPCs
  <2>2. CASE UpdateFill(c)
    BY <2>2, <1>0, GotoType
    DEF UpdateFill, WriteFill, TypeOK, Files, Content, CallPCs
  <2>3. CASE UpdateData(c)
    BY <2>3, <1>0, GotoType DEF UpdateData, TypeOK, Files, Content, CallPCs
  <2>4. CASE UpdateCheck(c)
    BY <2>4, GotoType DEF UpdateCheck, TypeOK, CallPCs
  <2>5. CASE UpdateReload(c)
    <3>1. call[c].id \in Ids
      BY <2>5, HoldingType DEF UpdateReload, Apply, At, Holding
    <3>2. file[call[c].id] \in Files /\ applied \in [Ids -> [Numbers -> Files]]
      BY <3>1 DEF TypeOK
    <3>3. applied' \in [Ids -> [Numbers -> Files]]
      <4>1. \/ applied' = applied
            \/ applied' = [applied EXCEPT ![call[c].id][call[c].n] = file[call[c].id]]
        BY <2>5 DEF UpdateReload, Apply
      <4>2. [applied EXCEPT ![call[c].id][call[c].n] = file[call[c].id]]
               \in [Ids -> [Numbers -> Files]]
        BY <3>1, <3>2, OneFileType
      <4>3. applied \in [Ids -> [Numbers -> Files]]
        BY DEF TypeOK
      <4>. QED
        BY <4>1, <4>2, <4>3
    <3>4. call' \in [Callers -> Calls]
      BY <2>5, GotoType DEF UpdateReload, Apply, CallPCs
    <3>. QED
      BY <2>5, <3>3, <3>4 DEF UpdateReload, Apply, TypeOK
  <2>6. CASE UpdateParse(c)
    <3>1. call[c].id \in Ids
      BY <2>6, HoldingType DEF UpdateParse, Reparse, At, Holding
    <3>2. file[call[c].id] \in Files /\ data \in [Ids -> [Numbers -> Files]]
      BY <3>1 DEF TypeOK
    <3>3. data' \in [Ids -> [Numbers -> Files]]
      BY <2>6, <3>1, <3>2, OneFileType DEF UpdateParse, Reparse
    <3>4. call' \in [Callers -> Calls]
      BY <2>6, GotoType DEF UpdateParse, Reparse, CallPCs
    <3>. QED
      BY <2>6, <3>3, <3>4 DEF UpdateParse, Reparse, TypeOK
  <2>7. CASE UpdateTell(c)
    BY <2>7, ReturnType DEF UpdateTell, TypeOK
  <2>. QED
    BY <1>3, <2>1, <2>2, <2>3, <2>4, <2>5, <2>6, <2>7 DEF UpdateStep
<1>4. ASSUME NEW c \in Callers, RawStep(c) \/ DeleteStep(c) PROVE TypeOK'
  <2>1. CASE RawTmp(c)
    BY <2>1, <1>0, GotoType DEF RawTmp, TypeOK, Files, Content, CallPCs
  <2>2. CASE RawRename(c)
    <3>1. call[c].id \in Ids
      BY <2>2, HoldingType DEF RawRename, At, Holding
    <3>2. call' \in [Callers -> Calls]
      BY <2>2, GotoType, ReturnType DEF RawRename, CallPCs
    <3>. QED
      BY <2>2, <3>1, <3>2 DEF RawRename, Detached, TypeOK, Files
  <2>3. CASE RawData(c)
    BY <2>3, <1>0, ReturnType DEF RawData, TypeOK, Files, Content
  <2>4. CASE DeleteStop(c)
    BY <2>4, GotoType DEF DeleteStop, Halt, TypeOK, Files, CallPCs
  <2>5. CASE DeleteRemove(c)
    BY <2>5, GotoType DEF DeleteRemove, Detached, TypeOK, Files, CallPCs
  <2>6. CASE DeleteForget(c)
    BY <2>6, GotoType DEF DeleteForget, TypeOK, CallPCs
  <2>7. CASE DeleteMeta(c)
    BY <2>7, ReturnType DEF DeleteMeta, TypeOK
  <2>. QED
    BY <1>4, <2>1, <2>2, <2>3, <2>4, <2>5, <2>6, <2>7 DEF RawStep, DeleteStep
<1>5. ASSUME NEW c \in Callers, RunStep(c) \/ ReorderSet(c) \/ WriteFails(c)
      PROVE  TypeOK'
  <2>1. CASE StartRun(c)
    <3>1. call[c].id \in Ids /\ call[c].n \in Numbers
      BY <2>1, HoldingType DEF StartRun, At, Holding
    <3>2. running' \subseteq Ids \X Numbers /\ applied' \in [Ids -> [Numbers -> Files]]
      BY <2>1, <3>1, LaunchType DEF StartRun, TypeOK
    <3>. QED
      BY <2>1, <3>2, ReturnType DEF StartRun, TypeOK
  <2>2. CASE StopRun(c)
    BY <2>2, ReturnType, HaltType DEF StopRun, TypeOK
  <2>3. CASE ReloadApply(c)
    <3>1. call[c].id \in Ids
      BY <2>3, HoldingType DEF ReloadApply, Apply, At, Holding
    <3>2. file[call[c].id] \in Files /\ applied \in [Ids -> [Numbers -> Files]]
      BY <3>1 DEF TypeOK
    <3>3. applied' \in [Ids -> [Numbers -> Files]]
      <4>1. \/ applied' = applied
            \/ applied' = [applied EXCEPT ![call[c].id][call[c].n] = file[call[c].id]]
        BY <2>3 DEF ReloadApply, Apply
      <4>2. [applied EXCEPT ![call[c].id][call[c].n] = file[call[c].id]]
               \in [Ids -> [Numbers -> Files]]
        BY <3>1, <3>2, OneFileType
      <4>3. applied \in [Ids -> [Numbers -> Files]]
        BY DEF TypeOK
      <4>. QED
        BY <4>1, <4>2, <4>3
    <3>4. call' \in [Callers -> Calls]
      BY <2>3, GotoType, ReturnType DEF ReloadApply, Apply, CallPCs
    <3>. QED
      BY <2>3, <3>3, <3>4 DEF ReloadApply, Apply, TypeOK
  <2>4. CASE ReloadParse(c)
    <3>1. call[c].id \in Ids
      BY <2>4, HoldingType DEF ReloadParse, Reparse, At, Holding
    <3>2. file[call[c].id] \in Files /\ data \in [Ids -> [Numbers -> Files]]
      BY <3>1 DEF TypeOK
    <3>3. data' \in [Ids -> [Numbers -> Files]]
      BY <2>4, <3>1, <3>2, OneFileType DEF ReloadParse, Reparse
    <3>. QED
      BY <2>4, <3>3, ReturnType DEF ReloadParse, Reparse, TypeOK
  <2>5. CASE ReorderSet(c)
    BY <2>5, <1>0, ReturnType DEF ReorderSet, TypeOK
  <2>6. CASE WriteFails(c)
    BY <2>6, ReturnType DEF WriteFails, TypeOK
  <2>. QED
    BY <1>5, <2>1, <2>2, <2>3, <2>4, <2>5, <2>6 DEF RunStep
<1>6. ASSUME NEW c \in Callers, NEW S \in SUBSET Ids, ReorderCall(c, S)
      PROVE  TypeOK'
  <2>1. "reorder" \in CallPCs
    BY DEF CallPCs
  <2>2. [call[c] EXCEPT !.at = "reorder", !.seen = S] \in Calls
    BY <2>1, <1>0 DEF Calls
  <2>3. call' = [call EXCEPT ![c] = [call[c] EXCEPT !.at = "reorder", !.seen = S]]
    BY <1>6 DEF ReorderCall
  <2>4. call' \in [Callers -> Calls]
    BY <2>2, <2>3 DEF TypeOK
  <2>. QED
    BY <1>6, <2>4 DEF ReorderCall, TypeOK
<1>7. ASSUME NEW x \in Ids, AutoStart(x) PROVE TypeOK'
  <2>1. inst[x] \in Numbers
    BY <1>7 DEF AutoStart, Booting, Registered, TypeOK
  <2>. QED
    BY <1>7, <2>1, LaunchType DEF AutoStart, TypeOK
<1>8. ASSUME NEW x \in Ids, NEW n \in Numbers, FrpcExit(x, n) PROVE TypeOK'
  BY <1>8, HaltType DEF FrpcExit, TypeOK
<1>9. CASE Restart
  <2>1. 1 \in Numbers
    BY MaxInstAssumption DEF Numbers
  <2>2. inst' \in [Ids -> Numbers \cup {None}] /\ made' = inst' /\ todo' \subseteq Ids
    BY <1>9, <2>1 DEF Restart
  <2>3. data' \in [Ids -> [Numbers -> Files]]
    BY <1>9 DEF Restart, TypeOK, Files
  <2>4. /\ applied' \in [Ids -> [Numbers -> Files]] /\ running' = {} /\ opened' = {}
        /\ UNCHANGED <<file, tmp, sort>>
    BY <1>9 DEF Restart, Files
  <2>5. call' \in [Callers -> Calls]
    BY <1>9, NoCallType DEF Restart
  <2>. QED
    BY <2>2, <2>3, <2>4, <2>5 DEF TypeOK
<1>10. CASE UNCHANGED vars
  BY <1>10 DEF vars, TypeOK
<1>. QED
  BY <1>1, <1>2, <1>3, <1>4, <1>5, <1>6, <1>7, <1>8, <1>9, <1>10
  DEF Next, CallerStep

-----------------------------------------------------------------------------
(* What one step of a caller does to its own id, and that it leaves the    *)
(* others alone.                                                           *)

\* A registered id has its file, or is being forgotten.
OnDisk(x) ==
    inst[x] # None =>
       \/ file[x] # NoFile
       \/ \E c \in Callers : call[c].id = x /\ At(c, "deleteForget")

\* A frpc that runs at x is the one of the registered instance.
Linked(x) == \A n \in Numbers : <<x, n>> \in running => inst[x] = n

\* What is at y stays as it is.
Same(y) ==
    /\ file'[y] = file[y]
    /\ inst'[y] = inst[y]
    /\ \A n \in Numbers : <<y, n>> \in running' <=> <<y, n>> \in running

\* A step of c stays at the id of c.
Local(c) ==
    /\ \A d \in Callers \ {c} : call'[d] = call[d]
    /\ call'[c].id \in {call[c].id, NoId}
    /\ \A y \in Ids \ {call[c].id} : Same(y)

\* What a step of c leaves behind at its own id.
Left(c) ==
    /\ CallKept(c)'
    /\ \A x \in Ids : x = call[c].id => OnDisk(x)' /\ Linked(x)'

\* Going on to another label changes the label only.
LEMMA GotoFacts ==
    ASSUME TypeOK, NEW c \in Callers, NEW l, Goto(c, l)
    PROVE  /\ \A d \in Callers \ {c} : call'[d] = call[d]
           /\ call'[c].at = l
           /\ call'[c].id = call[c].id /\ call'[c].n = call[c].n
           /\ call'[c].v = call[c].v /\ call'[c].seen = call[c].seen
BY DEF TypeOK, Calls, Goto

\* A return leaves no call.
LEMMA ReturnFacts ==
    ASSUME TypeOK, NEW c \in Callers, Return(c)
    PROVE  /\ \A d \in Callers \ {c} : call'[d] = call[d]
           /\ call'[c].at = "idle" /\ call'[c].id = NoId
BY DEF TypeOK, Calls, Return, NoCall

\* A caller that has returned keeps nothing.
LEMMA ReturnKept ==
    ASSUME TypeOK, NEW c \in Callers, Return(c)
    PROVE  CallKept(c)'
BY ReturnFacts DEF CallKept, Creating, Holding, Bringing

\* Create.
LEMMA CreateLeaves ==
    ASSUME TypeOK, Kept, FileUntilForgotten, NoOrphan, NEW c \in Callers, CreateStep(c)
    PROVE  Local(c) /\ Left(c)
<1>. USE DEF diskVars, objVars, frpcVars
<1>1. CallKept(c) /\ (call[c].id # NoId => call[c].id \in Ids)
  BY DEF Kept, TypeOK, Calls
<1>2. \A x \in Ids : OnDisk(x) /\ Linked(x)
  BY DEF FileUntilForgotten, OnDisk, NoOrphan, Linked
<1>3. CASE CreateOpen(c)
  <2>1. At(c, "createOpen") /\ Goto(c, "createFill")
        /\ file' = [file EXCEPT ![call[c].id] = Empty] /\ UNCHANGED <<inst, running>>
    BY <1>3 DEF CreateOpen, WriteOpen
  <2>2. call[c].id \in Ids /\ inst[call[c].id] = None /\ call[c].v \in Versions
    BY <2>1, <1>1 DEF CallKept, At, Creating, Bringing
  <2>3. Local(c)
    BY <2>1, <2>2, GotoFacts DEF Local, Same, TypeOK
  <2>4. CallKept(c)'
    BY <2>1, <2>2, GotoFacts, IdsAssumption, VersionsAssumption
    DEF CallKept, TypeOK, Creating, Holding, Bringing
  <2>5. \A x \in Ids : x = call[c].id => OnDisk(x)' /\ Linked(x)'
    BY <2>1, <2>2, <1>2 DEF OnDisk, Linked
  <2>. QED
    BY <2>3, <2>4, <2>5 DEF Left
<1>4. CASE CreateFill(c)
  <2>1. /\ At(c, "createFill") /\ Goto(c, "createRegister") /\ UNCHANGED <<inst, running>>
        /\ \/ file' = file
           \/ file' = [file EXCEPT ![call[c].id] = call[c].v]
           \/ file' = [file EXCEPT ![call[c].id] = Mixed]
    BY <1>4 DEF CreateFill, WriteFill
  <2>2. /\ call[c].id \in Ids /\ inst[call[c].id] = None /\ call[c].v \in Versions
        /\ file[call[c].id] # NoFile
    BY <2>1, <1>1 DEF CallKept, At, Creating, Bringing
  <2>3. Local(c)
    BY <2>1, <2>2, GotoFacts DEF Local, Same, TypeOK
  <2>4. file'[call[c].id] # NoFile
    BY <2>1, <2>2, VersionsAssumption DEF TypeOK
  <2>5. CallKept(c)'
    BY <2>1, <2>2, <2>4, GotoFacts, IdsAssumption
    DEF CallKept, TypeOK, Creating, Holding, Bringing
  <2>6. \A x \in Ids : x = call[c].id => OnDisk(x)' /\ Linked(x)'
    BY <2>1, <2>2, <1>2 DEF OnDisk, Linked
  <2>. QED
    BY <2>3, <2>5, <2>6 DEF Left
<1>5. CASE CreateRegister(c)
  <2>1. PICK n \in Numbers :
           /\ At(c, "createRegister") /\ Goto(c, "createLook") /\ UNCHANGED <<file, running>>
           /\ inst' = [inst EXCEPT ![call[c].id] = n]
    BY <1>5 DEF CreateRegister
  <2>2. /\ call[c].id \in Ids /\ inst[call[c].id] = None /\ call[c].v \in Versions
        /\ file[call[c].id] # NoFile
    BY <2>1, <1>1 DEF CallKept, At, Creating, Bringing
  <2>3. Local(c)
    BY <2>1, <2>2, GotoFacts DEF Local, Same, TypeOK
  <2>4. CallKept(c)'
    BY <2>1, <2>2, GotoFacts, IdsAssumption
    DEF CallKept, TypeOK, Creating, Holding, Bringing
  <2>5. \A m \in Numbers : <<call[c].id, m>> \notin running
    BY <2>2, <1>2 DEF Linked, Numbers, None
  <2>6. \A x \in Ids : x = call[c].id => OnDisk(x)' /\ Linked(x)'
    BY <2>1, <2>2, <2>5 DEF OnDisk, Linked
  <2>. QED
    BY <2>3, <2>4, <2>6 DEF Left
<1>6. CASE CreateLook(c) \/ CreateSort(c)
  <2>1. /\ call[c].at \in {"createLook", "createSort"}
        /\ UNCHANGED <<file, inst, running>>
        /\ \/ Return(c)
           \/ call' = [call EXCEPT ![c].at = "createSort", ![c].seen = sort]
    BY <1>6 DEF CreateLook, CreateSort, At
  <2>2. call[c].id \in Ids
    BY <2>1, <1>1 DEF CallKept
  <2>3. CASE Return(c)
    BY <2>1, <2>3, <1>2, ReturnFacts, ReturnKept DEF Local, Same, Left, OnDisk, Linked, At
  <2>4. CASE call' = [call EXCEPT ![c].at = "createSort", ![c].seen = sort]
    <3>1. /\ \A d \in Callers \ {c} : call'[d] = call[d]
          /\ call'[c].at = "createSort" /\ call'[c].id = call[c].id
      BY <2>4 DEF TypeOK, Calls
    <3>2. CallKept(c)'
      BY <2>2, <3>1, IdsAssumption DEF CallKept, Creating, Holding, Bringing
    <3>. QED
      BY <2>1, <3>1, <3>2, <1>2 DEF Local, Same, Left, OnDisk, Linked, At
  <2>. QED
    BY <2>1, <2>3, <2>4
<1>. QED
  BY <1>3, <1>4, <1>5, <1>6 DEF CreateStep

\* A step that leaves files, registry and frpcs alone, and ends the call or
\* goes on with what it holds.
LEMMA StayLeaves ==
    ASSUME TypeOK, Kept, FileUntilForgotten, NoOrphan, NEW c \in Callers,
           UNCHANGED <<file, inst, running>>, ~At(c, "deleteForget"),
           \/ Return(c)
           \/ /\ call[c].at \in Holding
              /\ \E l \in Holding \ {"deleteRemove", "deleteForget"} :
                    Goto(c, l) /\ (l \in Bringing => call[c].at \in Bringing)
    PROVE  Local(c) /\ Left(c)
<1>1. CallKept(c) /\ (call[c].id # NoId => call[c].id \in Ids)
  BY DEF Kept, TypeOK, Calls
<1>2. \A x \in Ids : OnDisk(x) /\ Linked(x)
  BY DEF FileUntilForgotten, OnDisk, NoOrphan, Linked
<1>3. CASE Return(c)
  BY <1>2, <1>3, ReturnFacts, ReturnKept DEF Local, Same, Left, OnDisk, Linked, At
<1>4. ASSUME call[c].at \in Holding, NEW l \in Holding \ {"deleteRemove", "deleteForget"},
             Goto(c, l), l \in Bringing => call[c].at \in Bringing
      PROVE  Local(c) /\ Left(c)
  <2>1. l \notin Creating /\ l \notin {"idle", "reorder", "createFill", "createRegister"}
    BY LabelFacts, <1>4 DEF Creating
  <2>2. CallKept(c)'
    BY <1>1, <1>4, <2>1, LabelFacts, GotoFacts DEF CallKept
  <2>. QED
    BY <1>2, <1>4, <2>2, GotoFacts DEF Local, Same, Left, OnDisk, Linked, At
<1>. QED
  BY <1>3, <1>4

\* Update.
LEMMA UpdateLeaves ==
    ASSUME TypeOK, Kept, FileUntilForgotten, NoOrphan, NEW c \in Callers, UpdateStep(c)
    PROVE  Local(c) /\ Left(c)
<1>. USE DEF diskVars, objVars, frpcVars
<1>1. CallKept(c) /\ (call[c].id # NoId => call[c].id \in Ids)
  BY DEF Kept, TypeOK, Calls
<1>2. \A x \in Ids : OnDisk(x) /\ Linked(x)
  BY DEF FileUntilForgotten, OnDisk, NoOrphan, Linked
<1>3. CASE UpdateOpen(c)
  <2>1. At(c, "updateOpen") /\ Goto(c, "updateFill")
        /\ file' = [file EXCEPT ![call[c].id] = Empty] /\ UNCHANGED <<inst, running>>
    BY <1>3 DEF UpdateOpen, WriteOpen
  <2>2. /\ call[c].id \in Ids /\ call[c].v \in Versions
        /\ inst[call[c].id] # None /\ call[c].n = inst[call[c].id]
    BY <2>1, <1>1 DEF CallKept, At, Holding, Bringing
  <2>3. Local(c)
    BY <2>1, <2>2, GotoFacts DEF Local, Same, TypeOK
  <2>4. CallKept(c)'
    BY <2>1, <2>2, GotoFacts, IdsAssumption DEF CallKept, Creating, Holding, Bringing
  <2>5. \A x \in Ids : x = call[c].id => OnDisk(x)' /\ Linked(x)'
    BY <2>1, <2>2, <1>2, VersionsAssumption DEF OnDisk, Linked, TypeOK
  <2>. QED
    BY <2>3, <2>4, <2>5 DEF Left
<1>4. CASE UpdateFill(c)
  <2>1. /\ At(c, "updateFill") /\ Goto(c, "updateData") /\ UNCHANGED <<inst, running>>
        /\ \/ file' = file
           \/ file' = [file EXCEPT ![call[c].id] = call[c].v]
           \/ file' = [file EXCEPT ![call[c].id] = Mixed]
    BY <1>4 DEF UpdateFill, WriteFill
  <2>2. /\ call[c].id \in Ids /\ call[c].v \in Versions
        /\ inst[call[c].id] # None /\ call[c].n = inst[call[c].id]
    BY <2>1, <1>1 DEF CallKept, At, Holding, Bringing
  <2>3. Local(c)
    BY <2>1, <2>2, GotoFacts DEF Local, Same, TypeOK
  <2>4. CallKept(c)'
    BY <2>1, <2>2, GotoFacts, IdsAssumption DEF CallKept, Creating, Holding, Bringing
  <2>5. file'[call[c].id] = file[call[c].id] \/ file'[call[c].id] # NoFile
    BY <2>1, <2>2, VersionsAssumption DEF TypeOK
  <2>6. \A x \in Ids : x = call[c].id => OnDisk(x)' /\ Linked(x)'
    BY <2>1, <2>2, <2>5, <1>2, GotoFacts DEF OnDisk, Linked, At
  <2>. QED
    BY <2>3, <2>4, <2>6 DEF Left
<1>5. CASE UpdateData(c) \/ UpdateCheck(c) \/ UpdateReload(c) \/ UpdateParse(c) \/ UpdateTell(c)
  <2>1. UNCHANGED <<file, inst, running>>
    BY <1>5 DEF UpdateData, UpdateCheck, UpdateReload, UpdateParse, UpdateTell, Apply, Reparse
  <2>2. /\ call[c].at \in {"updateData", "updateCheck", "updateReload", "updateParse", "updateTell"}
        /\ \/ Return(c)
           \/ \E l \in {"updateCheck", "updateReload", "updateParse", "updateTell"} : Goto(c, l)
    BY <1>5 DEF UpdateData, UpdateCheck, UpdateReload, UpdateParse, UpdateTell, Apply, Reparse, At
  <2>. QED
    BY <2>1, <2>2, StayLeaves DEF Holding, Bringing, At
<1>. QED
  BY <1>3, <1>4, <1>5 DEF UpdateStep

\* WriteRaw.
LEMMA RawLeaves ==
    ASSUME TypeOK, Kept, FileUntilForgotten, NoOrphan, NEW c \in Callers, RawStep(c)
    PROVE  Local(c) /\ Left(c)
<1>. USE DEF diskVars, objVars, frpcVars
<1>1. CallKept(c) /\ (call[c].id # NoId => call[c].id \in Ids)
  BY DEF Kept, TypeOK, Calls
<1>2. \A x \in Ids : OnDisk(x) /\ Linked(x)
  BY DEF FileUntilForgotten, OnDisk, NoOrphan, Linked
<1>3. ASSUME RawRename(c), tmp[call[c].id] # NoFile PROVE Local(c) /\ Left(c)
  <2>1. /\ At(c, "rawRename") /\ Goto(c, "rawData") /\ UNCHANGED <<inst, running>>
        /\ file' = [file EXCEPT ![call[c].id] = tmp[call[c].id]]
    BY <1>3 DEF RawRename
  <2>2. /\ call[c].id \in Ids /\ call[c].v \in Versions
        /\ inst[call[c].id] # None /\ call[c].n = inst[call[c].id]
    BY <2>1, <1>1 DEF CallKept, At, Holding, Bringing
  <2>3. Local(c)
    BY <2>1, <2>2, GotoFacts DEF Local, Same, TypeOK
  <2>4. CallKept(c)'
    BY <2>1, <2>2, GotoFacts, IdsAssumption DEF CallKept, Creating, Holding, Bringing
  <2>5. \A x \in Ids : x = call[c].id => OnDisk(x)' /\ Linked(x)'
    BY <2>1, <2>2, <1>2, <1>3 DEF OnDisk, Linked, TypeOK
  <2>. QED
    BY <2>3, <2>4, <2>5 DEF Left
<1>4. CASE RawTmp(c) \/ RawData(c) \/ (RawRename(c) /\ tmp[call[c].id] = NoFile)
  <2>1. UNCHANGED <<file, inst, running>>
    BY <1>4 DEF RawTmp, RawRename, RawData
  <2>2. \/ call[c].at \in {"rawRename", "rawData"} /\ Return(c)
        \/ call[c].at = "rawTmp" /\ Goto(c, "rawRename")
    BY <1>4 DEF RawTmp, RawRename, RawData, At
  <2>. QED
    BY <2>1, <2>2, StayLeaves DEF Holding, Bringing, At
<1>. QED
  BY <1>3, <1>4 DEF RawStep

\* Delete.
LEMMA DeleteLeaves ==
    ASSUME TypeOK, Kept, FileUntilForgotten, NoOrphan, NEW c \in Callers, DeleteStep(c)
    PROVE  Local(c) /\ Left(c)
<1>. USE DEF diskVars, objVars, frpcVars
<1>1. CallKept(c) /\ (call[c].id # NoId => call[c].id \in Ids)
  BY DEF Kept, TypeOK, Calls
<1>2. \A x \in Ids : OnDisk(x) /\ Linked(x)
  BY DEF FileUntilForgotten, OnDisk, NoOrphan, Linked
<1>3. CASE DeleteStop(c)
  <2>1. /\ At(c, "deleteStop") /\ Goto(c, "deleteRemove") /\ UNCHANGED <<file, inst>>
        /\ running' = running \ {<<call[c].id, call[c].n>>}
    BY <1>3 DEF DeleteStop, Halt
  <2>2. call[c].id \in Ids /\ inst[call[c].id] # None /\ call[c].n = inst[call[c].id]
    BY <2>1, <1>1 DEF CallKept, At, Holding
  <2>3. Local(c)
    BY <2>1, <2>2, GotoFacts DEF Local, Same, TypeOK
  <2>4. CallKept(c)'
    BY <2>1, <2>2, GotoFacts, IdsAssumption DEF CallKept, Creating, Holding, Bringing
  <2>5. \A x \in Ids : x = call[c].id => OnDisk(x)' /\ Linked(x)'
    BY <2>1, <2>2, <1>2, GotoFacts DEF OnDisk, Linked, At
  <2>. QED
    BY <2>3, <2>4, <2>5 DEF Left
<1>4. CASE DeleteRemove(c)
  <2>1. /\ At(c, "deleteRemove") /\ Goto(c, "deleteForget") /\ UNCHANGED <<inst, running>>
        /\ file' = [file EXCEPT ![call[c].id] = NoFile]
    BY <1>4 DEF DeleteRemove
  <2>2. /\ call[c].id \in Ids /\ inst[call[c].id] # None /\ call[c].n = inst[call[c].id]
        /\ <<call[c].id, call[c].n>> \notin running
    BY <2>1, <1>1 DEF CallKept, At, Holding
  <2>3. Local(c)
    BY <2>1, <2>2, GotoFacts DEF Local, Same, TypeOK
  <2>4. CallKept(c)'
    BY <2>1, <2>2, GotoFacts, IdsAssumption DEF CallKept, Creating, Holding, Bringing
  <2>5. \A x \in Ids : x = call[c].id => OnDisk(x)' /\ Linked(x)'
    BY <2>1, <2>2, <1>2, GotoFacts DEF OnDisk, Linked, At
  <2>. QED
    BY <2>3, <2>4, <2>5 DEF Left
<1>5. CASE DeleteForget(c)
  <2>1. /\ At(c, "deleteForget") /\ Goto(c, "deleteMeta") /\ UNCHANGED <<file, running>>
        /\ inst' = [inst EXCEPT ![call[c].id] = None]
    BY <1>5 DEF DeleteForget
  <2>2. /\ call[c].id \in Ids /\ call[c].n = inst[call[c].id]
        /\ <<call[c].id, call[c].n>> \notin running
    BY <2>1, <1>1 DEF CallKept, At, Holding
  <2>3. Local(c)
    BY <2>1, <2>2, GotoFacts DEF Local, Same, TypeOK
  <2>4. CallKept(c)'
    BY <2>1, <2>2, GotoFacts, IdsAssumption DEF CallKept, Creating, Holding, Bringing
  <2>5. \A m \in Numbers : <<call[c].id, m>> \notin running
    BY <2>2, <1>2 DEF Linked
  <2>6. \A x \in Ids : x = call[c].id => OnDisk(x)' /\ Linked(x)'
    BY <2>1, <2>2, <2>5 DEF OnDisk, Linked, TypeOK
  <2>. QED
    BY <2>3, <2>4, <2>6 DEF Left
<1>6. CASE DeleteMeta(c)
  BY <1>6, StayLeaves DEF DeleteMeta, At
<1>. QED
  BY <1>3, <1>4, <1>5, <1>6 DEF DeleteStep

\* Start, Stop, Reload, the second half of Reorder, and a failed file operation.
LEMMA RunLeaves ==
    ASSUME TypeOK, Kept, FileUntilForgotten, NoOrphan, NEW c \in Callers,
           RunStep(c) \/ ReorderSet(c) \/ WriteFails(c)
    PROVE  Local(c) /\ Left(c)
<1>. USE DEF diskVars, objVars, frpcVars
<1>1. CallKept(c) /\ (call[c].id # NoId => call[c].id \in Ids)
  BY DEF Kept, TypeOK, Calls
<1>2. \A x \in Ids : OnDisk(x) /\ Linked(x)
  BY DEF FileUntilForgotten, OnDisk, NoOrphan, Linked
<1>3. CASE StartRun(c)
  <2>1. /\ At(c, "start") /\ Return(c) /\ UNCHANGED <<file, inst>>
        /\ \/ running' = running
           \/ running' = running \cup {<<call[c].id, call[c].n>>}
    BY <1>3 DEF StartRun, Launch
  <2>2. call[c].id \in Ids /\ call[c].n = inst[call[c].id]
    BY <2>1, <1>1 DEF CallKept, At, Holding
  <2>3. Local(c)
    BY <2>1, <2>2, ReturnFacts DEF Local, Same
  <2>4. CallKept(c)'
    BY <2>1, ReturnKept
  <2>5. \A x \in Ids : x = call[c].id => OnDisk(x)' /\ Linked(x)'
    BY <2>1, <2>2, <1>2, ReturnFacts DEF OnDisk, Linked, At
  <2>. QED
    BY <2>3, <2>4, <2>5 DEF Left
<1>4. CASE StopRun(c)
  <2>1. /\ At(c, "stop") /\ Return(c) /\ UNCHANGED <<file, inst>>
        /\ running' = running \ {<<call[c].id, call[c].n>>}
    BY <1>4 DEF StopRun, Halt
  <2>2. Local(c)
    BY <2>1, ReturnFacts DEF Local, Same
  <2>3. CallKept(c)'
    BY <2>1, ReturnKept
  <2>4. \A x \in Ids : x = call[c].id => OnDisk(x)' /\ Linked(x)'
    BY <2>1, <1>2, ReturnFacts DEF OnDisk, Linked, At
  <2>. QED
    BY <2>2, <2>3, <2>4 DEF Left
<1>5. CASE ReloadApply(c) \/ ReloadParse(c)
  <2>1. UNCHANGED <<file, inst, running>>
    BY <1>5 DEF ReloadApply, ReloadParse, Apply, Reparse
  <2>2. \/ call[c].at \in {"reload", "parse"} /\ Return(c)
        \/ call[c].at = "reload" /\ Goto(c, "parse")
    BY <1>5 DEF ReloadApply, ReloadParse, Apply, Reparse, At
  <2>. QED
    BY <2>1, <2>2, StayLeaves DEF Holding, Bringing, At
<1>6. CASE ReorderSet(c) \/ WriteFails(c)
  <2>1. UNCHANGED <<file, inst, running>> /\ Return(c)
    BY <1>6 DEF ReorderSet, WriteFails
  <2>2. ~At(c, "deleteForget")
    BY <1>6 DEF ReorderSet, WriteFails, At
  <2>. QED
    BY <2>1, <2>2, StayLeaves
<1>. QED
  BY <1>3, <1>4, <1>5, <1>6 DEF RunStep

-----------------------------------------------------------------------------
(* The invariant.                                                          *)

\* A step that stays at the id of its caller breaks nothing anywhere.
LEMMA LocalStep ==
    ASSUME Inv, TypeOK', NEW c \in Callers, CallerStep(c), Local(c), Left(c)
    PROVE  OneCall' /\ Kept' /\ FileUntilForgotten' /\ NoOrphan'
<1>0. \A d \in Callers : CallKept(d) /\ (call[d].id # NoId => call[d].id \in Ids)
                       /\ (call[d].at \in Holding => call[d].n \in Numbers)
  BY HoldingType DEF Inv, Kept, TypeOK, Calls
<1>1. OneCall'
  BY DEF Inv, OneCall, Local
<1>2. ASSUME NEW d \in Callers, d # c PROVE CallKept(d)'
  <2>1. call'[d] = call[d] /\ CallKept(d)
    BY <1>0, <1>2 DEF Local
  <2>2. CASE call[d].id = NoId
    BY <2>1, <2>2, LabelFacts DEF CallKept, Creating, Holding, Bringing
  <2>3. CASE call[d].id # NoId
    <3>1. call[d].id \in Ids \ {call[c].id}
      BY <1>0, <1>2, <2>3 DEF Inv, OneCall
    <3>2. Same(call[d].id)
      BY <3>1 DEF Local
    <3>3. call[d].at \in {"deleteRemove", "deleteForget"} => call[d].n \in Numbers
      BY <1>0 DEF Holding
    <3>. QED
      BY <2>1, <3>2, <3>3 DEF CallKept, Same
  <2>. QED
    BY <2>2, <2>3
<1>3. Kept'
  BY <1>2 DEF Kept, Left
<1>4. ASSUME NEW x \in Ids PROVE OnDisk(x)' /\ Linked(x)'
  <2>1. CASE x = call[c].id
    BY <2>1 DEF Left
  <2>2. CASE x # call[c].id
    <3>1. Same(x) /\ OnDisk(x) /\ Linked(x)
      BY <2>2 DEF Local, Inv, FileUntilForgotten, OnDisk, NoOrphan, Linked
    <3>2. \A d \in Callers : call[d].id = x => call'[d] = call[d]
      BY <2>2 DEF Local
    <3>. QED
      BY <3>1, <3>2 DEF Same, OnDisk, Linked, At
  <2>. QED
    BY <2>1, <2>2
<1>5. FileUntilForgotten'
  BY <1>4 DEF FileUntilForgotten, OnDisk
<1>6. NoOrphan'
  BY <1>4 DEF NoOrphan, Linked, TypeOK
<1>. QED
  BY <1>1, <1>3, <1>5, <1>6

\* A call begins on an id where no other is.
LEMMA BeginStep ==
    ASSUME Inv, Exclusive, NEW c \in Callers, NEW x \in Ids, CallOn(c, x)
    PROVE  OneCall' /\ Kept' /\ FileUntilForgotten' /\ Booting' /\ NoOrphan'
<1>. USE DEF diskVars, objVars, frpcVars
<1>1. UNCHANGED <<file, inst, running, todo>> /\ todo = {}
  BY DEF CallOn, CreateCall, UpdateCall, RawCall, DeleteCall, StartCall, StopCall,
     ReloadCall, BeginOn, Begin
<1>2. /\ At(c, "idle") /\ Quiet(x)
      /\ \A d \in Callers \ {c} : call'[d] = call[d]
      /\ call'[c].id = x
      /\ \/ /\ call'[c].at = "createOpen" /\ inst[x] = None /\ call'[c].v \in Versions
         \/ /\ call'[c].at \in {"updateOpen", "rawTmp", "deleteStop", "start", "stop", "reload"}
            /\ call'[c].at \in {"updateOpen", "rawTmp"} => call'[c].v \in Versions
            /\ inst[x] # None /\ call'[c].n = inst[x]
  <2>1. ASSUME NEW v \in Versions, CreateCall(c, x, v)
        PROVE  /\ Begin(c, "createOpen", x, None, v) /\ inst[x] = None
    BY <2>1 DEF CreateCall
  <2>2. ASSUME NEW l, NEW n, NEW v, Begin(c, l, x, n, v)
        PROVE  /\ At(c, "idle") /\ Quiet(x)
               /\ \A d \in Callers \ {c} : call'[d] = call[d]
               /\ call'[c].id = x /\ call'[c].at = l /\ call'[c].n = n /\ call'[c].v = v
    BY <2>2 DEF Begin, Inv, TypeOK
  <2>3. CASE \E v \in Versions : CreateCall(c, x, v)
    BY <2>1, <2>2, <2>3
  <2>4. CASE \E v \in Versions : UpdateCall(c, x, v) \/ RawCall(c, x, v)
    <3>1. PICK v \in Versions, l \in {"updateOpen", "rawTmp"} :
             Begin(c, l, x, inst[x], v) /\ inst[x] # None
      BY <2>4 DEF UpdateCall, RawCall, BeginOn
    <3>. QED
      BY <2>2, <3>1
  <2>5. CASE DeleteCall(c, x) \/ StartCall(c, x) \/ StopCall(c, x) \/ ReloadCall(c, x)
    <3>1. PICK l \in {"deleteStop", "start", "stop", "reload"} :
             Begin(c, l, x, inst[x], NoFile) /\ inst[x] # None
      BY <2>5 DEF DeleteCall, StartCall, StopCall, ReloadCall, BeginOn
    <3>. QED
      BY <2>2, <3>1
  <2>. QED
    BY <2>3, <2>4, <2>5 DEF CallOn
<1>3. OneCall'
  BY <1>2 DEF Inv, OneCall, Quiet
<1>4. ASSUME NEW d \in Callers PROVE CallKept(d)'
  <2>1. CASE d = c
    BY <1>1, <1>2, <2>1, IdsAssumption DEF CallKept, Creating, Holding, Bringing
  <2>2. CASE d # c
    BY <1>1, <1>2, <2>2 DEF Inv, Kept, CallKept
  <2>. QED
    BY <2>1, <2>2
<1>5. FileUntilForgotten'
  BY <1>1, <1>2 DEF Inv, FileUntilForgotten, At
<1>6. NoOrphan' /\ Booting'
  BY <1>1 DEF Inv, NoOrphan, Booting
<1>. QED
  BY <1>3, <1>4, <1>5, <1>6 DEF Kept

\* At the start nothing is registered and nothing runs.
LEMMA InitInv == Init => Inv
<1>. SUFFICES ASSUME Init PROVE Inv
  OBVIOUS
<1>1. TypeOK
  BY NoCallType DEF Init, TypeOK, Files
<1>2. \A c \in Callers : call[c].id = NoId /\ call[c].at = "idle"
  BY DEF Init, NoCall
<1>3. OneCall /\ Kept
  BY <1>2 DEF OneCall, Kept, CallKept, Creating, Holding, Bringing
<1>4. FileUntilForgotten /\ Booting /\ NoOrphan
  BY DEF Init, FileUntilForgotten, Booting, NoOrphan
<1>. QED
  BY <1>1, <1>3, <1>4 DEF Inv

\* A step of a caller keeps the invariant.
LEMMA CallerKeepsInv ==
    ASSUME Inv, [Next]_vars, NEW c \in Callers, CallerStep(c)
    PROVE  Inv'
<1>. USE DEF diskVars, objVars, frpcVars
<1>1. TypeOK'
  BY TypeStep DEF Inv
<1>2. Local(c) /\ Left(c)
  BY CreateLeaves, UpdateLeaves, RawLeaves, DeleteLeaves, RunLeaves DEF Inv, CallerStep
<1>3. OneCall' /\ Kept' /\ FileUntilForgotten' /\ NoOrphan'
  BY <1>1, <1>2, LocalStep
<1>4. UNCHANGED todo /\ call[c].at # "idle"
  BY DEF CallerStep, CreateStep, UpdateStep, RawStep, DeleteStep, RunStep, CreateOpen,
     CreateFill, CreateRegister, CreateLook, CreateSort, UpdateOpen, UpdateFill,
     UpdateData, UpdateCheck, UpdateReload, UpdateParse, UpdateTell, WriteOpen,
     WriteFill, Apply, Reparse, RawTmp, RawRename, RawData, DeleteStop, DeleteRemove,
     DeleteForget, DeleteMeta, StartRun, StopRun, ReloadApply, ReloadParse, ReorderSet,
     WriteFails, At
<1>5. Booting'
  <2>1. todo = {}
    BY <1>4 DEF Inv, Booting, NoCall
  <2>. QED
    BY <1>4, <2>1 DEF Booting
<1>. QED
  BY <1>1, <1>3, <1>5 DEF Inv

\* Every step keeps the invariant when calls on one id do not overlap.
LEMMA NextInv == ASSUME Exclusive, Inv, [Next]_vars PROVE Inv'
<1>. USE DEF diskVars, objVars, frpcVars
<1>0. TypeOK'
  BY TypeStep DEF Inv
<1>1. ASSUME NEW c \in Callers, NEW x \in Ids, CallOn(c, x) PROVE Inv'
  BY <1>0, <1>1, BeginStep DEF Inv
<1>2. ASSUME NEW c \in Callers, NEW S \in SUBSET Ids, ReorderCall(c, S) PROVE Inv'
  <2>1. /\ UNCHANGED <<file, inst, running, todo>> /\ todo = {} /\ At(c, "idle")
        /\ \A d \in Callers \ {c} : call'[d] = call[d]
        /\ call'[c].at = "reorder" /\ call'[c].id = call[c].id
    BY <1>2 DEF ReorderCall, Inv, TypeOK, Calls
  <2>2. CallKept(c)' /\ call'[c].id = NoId
    BY <2>1 DEF Inv, Kept, CallKept, At, Creating, Holding, Bringing
  <2>3. ASSUME NEW d \in Callers, d # c PROVE CallKept(d)'
    BY <2>1, <2>3 DEF Inv, Kept, CallKept
  <2>4. OneCall' /\ Kept'
    BY <2>1, <2>2, <2>3 DEF Inv, OneCall, Kept
  <2>5. FileUntilForgotten' /\ NoOrphan' /\ Booting'
    BY <2>1 DEF Inv, FileUntilForgotten, NoOrphan, Booting, At
  <2>. QED
    BY <1>0, <2>4, <2>5 DEF Inv
<1>3. ASSUME NEW c \in Callers, CallerStep(c) PROVE Inv'
  BY <1>3, CallerKeepsInv
<1>4. ASSUME NEW x \in Ids, AutoStart(x) PROVE Inv'
  <2>1. /\ UNCHANGED <<file, inst, call>> /\ x \in todo /\ todo' \subseteq todo
        /\ \/ running' = running
           \/ running' = running \cup {<<x, inst[x]>>}
    BY <1>4 DEF AutoStart, Launch
  <2>2. \A c \in Callers : call[c].id = NoId /\ call[c].at = "idle"
    BY <2>1 DEF Inv, Booting, NoCall
  <2>3. OneCall' /\ Kept'
    BY <2>1, <2>2 DEF OneCall, Kept, CallKept, Creating, Holding, Bringing
  <2>4. NoOrphan'
    BY <2>1 DEF Inv, NoOrphan
  <2>5. FileUntilForgotten'
    BY <2>1 DEF Inv, FileUntilForgotten, At
  <2>6. Booting'
    BY <2>1 DEF Inv, Booting, Registered
  <2>. QED
    BY <1>0, <2>3, <2>4, <2>5, <2>6 DEF Inv
<1>5. ASSUME NEW x \in Ids, NEW n \in Numbers, FrpcExit(x, n) PROVE Inv'
  <2>1. /\ UNCHANGED <<file, inst, call, todo>> /\ running' \subseteq running
    BY <1>5 DEF FrpcExit, Halt
  <2>2. OneCall' /\ Kept'
    BY <2>1 DEF Inv, OneCall, Kept, CallKept
  <2>. QED
    BY <1>0, <2>1, <2>2 DEF Inv, NoOrphan, FileUntilForgotten, At, Booting, Registered
<1>6. CASE Restart
  <2>1. \A c \in Callers : call'[c] = NoCall
    BY <1>6 DEF Restart
  <2>2. OneCall' /\ Kept'
    BY <2>1 DEF OneCall, Kept, CallKept, NoCall, Creating, Holding, Bringing
  <2>3. NoOrphan'
    BY <1>6 DEF Restart, NoOrphan
  <2>4. \A x \in Ids : inst'[x] # None => file'[x] # NoFile
    BY <1>6, VersionsAssumption DEF Restart, Parses
  <2>5. FileUntilForgotten'
    BY <2>4 DEF FileUntilForgotten
  <2>6. todo' \subseteq Registered'
    BY <1>6 DEF Restart, Registered, None
  <2>. QED
    BY <1>0, <2>1, <2>2, <2>3, <2>5, <2>6 DEF Inv, Booting
<1>7. CASE UNCHANGED vars
  <2>1. UNCHANGED <<file, inst, running, todo, call>>
    BY <1>7 DEF vars
  <2>. QED
    BY <1>0, <2>1 DEF Inv, OneCall, Kept, CallKept, FileUntilForgotten, Booting, NoOrphan,
       Registered, At
<1>. QED
  BY <1>1, <1>2, <1>3, <1>4, <1>5, <1>6, <1>7 DEF Next

\* The invariant holds for ever.
LEMMA Invariance == ASSUME Exclusive PROVE Spec => []Inv
<1>1. Init => Inv
  BY InitInv
<1>2. Inv /\ [Next]_vars => Inv'
  BY NextInv
<1>. QED
  BY <1>1, <1>2, PTL DEF Spec

-----------------------------------------------------------------------------
(* The second invariant: what is parsed, and what frpc has loaded, against *)
(* the file.                                                               *)

\* A step of c leaves the temporary file, the parsed data and the loaded
\* version of every other id alone, and the descriptors of every other caller.
Elsewhere(c) ==
    /\ \A d \in Callers \ {c} : d \in opened => d \in opened'
    /\ \A y \in Ids \ {call[c].id} :
          tmp'[y] = tmp[y] /\ data'[y] = data[y] /\ applied'[y] = applied[y]

\* What a step of c keeps at its own id.
KeptInStep(c) ==
    /\ WrittenKept(c)' /\ AppliedKept(c)'
    /\ \A x \in Ids : x = call[c].id => WholeOrTorn(x)' /\ LiveUntilWritten(x)'

\* No two callers are on one id, so the descriptors a new file detaches are
\* those of its writer.
LEMMA DetachedFacts ==
    ASSUME TypeOK, OneCall, NEW c \in Callers, call[c].id \in Ids
    PROVE  \A d \in Callers \ {c} : d \in opened => d \in Detached(call[c].id)
BY IdsAssumption DEF OneCall, Detached

LEMMA CallerElsewhere ==
    ASSUME TypeOK, OneCall, Kept, NEW c \in Callers, CallerStep(c)
    PROVE  Elsewhere(c)
<1>. USE DEF diskVars, objVars, frpcVars
<1>1. CASE CreateStep(c)
  BY <1>1 DEF CreateStep, CreateOpen, CreateFill, CreateRegister, CreateLook, CreateSort,
     WriteOpen, WriteFill, Elsewhere, TypeOK
<1>2. CASE UpdateStep(c)
  BY <1>2 DEF UpdateStep, UpdateOpen, UpdateFill, UpdateData, UpdateCheck, UpdateReload,
     UpdateParse, UpdateTell, Apply, Reparse, WriteOpen, WriteFill, Elsewhere, TypeOK
<1>3. CASE RawTmp(c) \/ RawData(c) \/ DeleteStop(c) \/ DeleteForget(c) \/ DeleteMeta(c)
  BY <1>3 DEF RawTmp, RawData, DeleteStop, DeleteForget, DeleteMeta, Halt, Elsewhere, TypeOK
<1>4. CASE RawRename(c) \/ DeleteRemove(c)
  <2>1. call[c].id \in Ids
    BY <1>4, HoldingType DEF RawRename, DeleteRemove, At, Holding
  <2>. QED
    BY <1>4, <2>1, DetachedFacts DEF RawRename, DeleteRemove, Elsewhere, TypeOK
<1>5. CASE RunStep(c) \/ ReorderSet(c) \/ WriteFails(c)
  BY <1>5 DEF RunStep, StartRun, StopRun, ReloadApply, ReloadParse, Apply, Reparse, Launch,
     Halt, ReorderSet, WriteFails, Elsewhere, TypeOK
<1>. QED
  BY <1>1, <1>2, <1>3, <1>4, <1>5 DEF CallerStep, RawStep, DeleteStep

\* A step that leaves file, registry and data as they are, at a label that is
\* none of those that have replaced one of them only.
LEMMA StillInStep ==
    ASSUME TypeOK, Kept, InStep, NEW c \in Callers, UNCHANGED <<file, inst, data>>,
           call[c].at \notin {"createFill", "updateFill", "updateData", "rawData",
                              "deleteForget"},
           \A d \in Callers \ {c} : call'[d] = call[d],
           call'[c].at \notin {"createFill", "createRegister", "updateFill", "updateData",
                               "rawRename", "rawData", "updateParse", "updateTell"}
    PROVE  KeptInStep(c)
BY DEF KeptInStep, InStep, WrittenKept, AppliedKept, WholeOrTorn, Filling, LiveUntilWritten

\* The writes of the file.
LEMMA WriteInStep ==
    ASSUME Inv, InStep, NEW c \in Callers,
           \/ CreateOpen(c) \/ CreateFill(c) \/ UpdateOpen(c) \/ UpdateFill(c)
           \/ WriteFails(c)
    PROVE  KeptInStep(c)
<1>. USE DEF diskVars, objVars, frpcVars
<1>a. TypeOK /\ CallKept(c) /\ (call[c].id # NoId => call[c].id \in Ids)
  BY DEF Inv, Kept, TypeOK, Calls
<1>b. /\ WrittenKept(c)
      /\ \A x \in Ids : x = call[c].id => WholeOrTorn(x) /\ LiveUntilWritten(x)
  BY DEF InStep
<1>1. CASE CreateOpen(c) \/ UpdateOpen(c)
  <2>1. /\ call[c].at \in {"createOpen", "updateOpen"}
        /\ \/ Goto(c, "createFill") /\ call[c].at = "createOpen"
           \/ Goto(c, "updateFill")
        /\ file' = [file EXCEPT ![call[c].id] = Empty]
        /\ opened' = opened \cup {c} /\ UNCHANGED <<inst, data>>
    BY <1>1 DEF CreateOpen, UpdateOpen, WriteOpen, At
  <2>2. call[c].id \in Ids /\ (call[c].at = "createOpen" => inst[call[c].id] = None)
    BY <1>a, <2>1 DEF CallKept, Creating
  <2>3. call'[c].id = call[c].id /\ call'[c].at \in {"createFill", "updateFill"}
        /\ (call'[c].at = "updateFill" \/ inst[call[c].id] = None)
    BY <1>a, <2>1, <2>2, GotoFacts
  <2>4. file'[call[c].id] = Empty
    BY <1>a, <2>1, <2>2 DEF TypeOK
  <2>. QED
    BY <2>1, <2>2, <2>3, <2>4, VersionsAssumption
    DEF KeptInStep, WrittenKept, AppliedKept, WholeOrTorn, Filling, LiveUntilWritten
<1>2. CASE CreateFill(c) \/ UpdateFill(c)
  <2>1. /\ call[c].at \in {"createFill", "updateFill"}
        /\ \/ Goto(c, "createRegister") /\ call[c].at = "createFill"
           \/ Goto(c, "updateData")
        /\ c \in opened => \E f \in {call[c].v} \cup
                 IF file[call[c].id] = Empty THEN {} ELSE {Mixed} :
              file' = [file EXCEPT ![call[c].id] = f]
        /\ UNCHANGED <<inst, data>>
    BY <1>2 DEF CreateFill, UpdateFill, WriteFill, At
  <2>2. /\ call[c].id \in Ids /\ call[c].v \in Versions
        /\ call[c].at = "createFill" => inst[call[c].id] = None
    BY <1>a, <2>1 DEF CallKept, Creating, Bringing
  <2>3. c \in opened /\ file[call[c].id] = Empty
    BY <1>b, <2>1 DEF WrittenKept
  <2>4. file'[call[c].id] = call[c].v
    BY <1>a, <2>1, <2>2, <2>3 DEF TypeOK
  <2>5. /\ call'[c].id = call[c].id /\ call'[c].v = call[c].v
        /\ call'[c].at \in {"createRegister", "updateData"}
        /\ (call'[c].at = "updateData" \/ inst[call[c].id] = None)
    BY <1>a, <2>1, <2>2, GotoFacts
  <2>. QED
    BY <2>1, <2>2, <2>4, <2>5, VersionsAssumption
    DEF KeptInStep, WrittenKept, AppliedKept, WholeOrTorn, Filling, LiveUntilWritten
<1>3. CASE WriteFails(c)
  <2>1. /\ IOFails /\ Return(c) /\ UNCHANGED <<file, inst, data>>
        /\ call[c].at \in {"createOpen", "createFill", "updateOpen", "updateFill",
                           "rawTmp", "rawRename", "deleteRemove"}
    BY <1>3 DEF WriteFails, At
  <2>2. call'[c].at = "idle" /\ \A d \in Callers \ {c} : call'[d] = call[d]
    BY <1>a, <2>1, ReturnFacts
  <2>3. call[c].at = "updateFill" => file[call[c].id] = Empty
    BY <1>b DEF WrittenKept
  <2>. QED
    BY <1>b, <2>1, <2>2, <2>3
    DEF KeptInStep, WrittenKept, AppliedKept, WholeOrTorn, Filling, LiveUntilWritten
<1>. QED
  BY <1>1, <1>2, <1>3

\* The live data follows.
LEMMA DataInStep ==
    ASSUME Inv, InStep, NEW c \in Callers,
           CreateRegister(c) \/ UpdateData(c) \/ RawData(c)
    PROVE  KeptInStep(c)
<1>. USE DEF diskVars, objVars, frpcVars
<1>a. TypeOK /\ CallKept(c) /\ WrittenKept(c)
  BY DEF Inv, Kept, InStep
<1>1. /\ call[c].at \in {"createRegister", "updateData", "rawData"}
      /\ file' = file /\ file[call[c].id] = call[c].v
      /\ call[c].v \in Versions /\ call[c].id \in Ids
  BY <1>a DEF CreateRegister, UpdateData, RawData, At, WrittenKept, CallKept, Bringing,
     TypeOK, Calls
<1>2. /\ inst'[call[c].id] \in Numbers
      /\ data'[call[c].id][inst'[call[c].id]] = call[c].v
  <2>1. CASE CreateRegister(c)
    BY <1>a, <1>1, <2>1 DEF CreateRegister, TypeOK
  <2>2. CASE UpdateData(c) \/ RawData(c)
    <3>1. inst[call[c].id] = call[c].n /\ call[c].n \in Numbers
      BY <2>2, <1>a, HoldingType DEF UpdateData, RawData, At, CallKept, Holding, Inv
    <3>. QED
      BY <1>a, <1>1, <2>2, <3>1 DEF UpdateData, RawData, TypeOK
  <2>. QED
    BY <2>1, <2>2
<1>3. call'[c].at \in {"createLook", "updateCheck", "idle"}
  BY <1>a, GotoFacts, ReturnFacts DEF CreateRegister, UpdateData, RawData
<1>. QED
  BY <1>1, <1>2, <1>3, VersionsAssumption
  DEF KeptInStep, WrittenKept, AppliedKept, WholeOrTorn, Filling, LiveUntilWritten

\* The end of an update: reload, parse and event.
LEMMA ReloadInStep ==
    ASSUME Inv, InStep, NEW c \in Callers,
           UpdateCheck(c) \/ UpdateReload(c) \/ UpdateParse(c) \/ UpdateTell(c)
    PROVE  KeptInStep(c)
<1>. USE DEF diskVars, objVars, frpcVars
<1>a. TypeOK /\ CallKept(c) /\ Kept /\ AppliedKept(c)
  BY DEF Inv, Kept, InStep
<1>b. \A x \in Ids : WholeOrTorn(x) /\ LiveUntilWritten(x)
  BY DEF InStep
<1>1. /\ call[c].at \in {"updateCheck", "updateReload", "updateParse", "updateTell"}
      /\ UNCHANGED <<file, inst, running>>
  BY DEF UpdateCheck, UpdateReload, UpdateParse, UpdateTell, Apply, Reparse, At
<1>2. /\ call[c].id \in Ids /\ call[c].n \in Numbers /\ inst[call[c].id] = call[c].n
  BY <1>a, <1>1, HoldingType DEF CallKept, Holding
<1>3. \A d \in Callers \ {c} : call'[d] = call[d]
  BY <1>a, GotoFacts, ReturnFacts
  DEF UpdateCheck, UpdateReload, UpdateParse, UpdateTell, Apply, Reparse
<1>4. data'[call[c].id][call[c].n] \in {data[call[c].id][call[c].n], file[call[c].id]}
  BY <1>a, <1>2
  DEF UpdateCheck, UpdateReload, UpdateParse, UpdateTell, Apply, Reparse, TypeOK
<1>5. \A x \in Ids : x = call[c].id => WholeOrTorn(x)' /\ LiveUntilWritten(x)'
  BY <1>b, <1>1, <1>2, <1>3, <1>4 DEF WholeOrTorn, Filling, LiveUntilWritten
<1>6. /\ call'[c].at \in {"updateReload", "updateParse", "updateTell", "idle"}
      /\ AppliedKept(c)'
  <2>1. CASE UpdateCheck(c)
    <3>1. PICK l \in {"updateReload", "updateTell"} :
             Goto(c, l) /\ (l = "updateTell" => <<call[c].id, call[c].n>> \notin running)
      BY <2>1 DEF UpdateCheck
    <3>. QED
      BY <1>a, <1>1, <3>1, GotoFacts DEF AppliedKept
  <2>2. CASE UpdateReload(c)
    <3>1. \/ /\ Goto(c, "updateParse")
             /\ <<call[c].id, call[c].n>> \in running =>
                   applied' = [applied EXCEPT ![call[c].id][call[c].n] = file[call[c].id]]
          \/ Goto(c, "updateTell") /\ file[call[c].id] \notin Valid
      BY <2>2, VersionsAssumption DEF UpdateReload, Apply, Loads
    <3>2. CASE Goto(c, "updateTell") /\ file[call[c].id] \notin Valid
      BY <1>a, <1>1, <3>2, GotoFacts DEF AppliedKept
    <3>3. CASE /\ Goto(c, "updateParse")
               /\ <<call[c].id, call[c].n>> \in running =>
                   applied' = [applied EXCEPT ![call[c].id][call[c].n] = file[call[c].id]]
      <4>1. <<call[c].id, call[c].n>> \in running =>
               applied'[call[c].id][call[c].n] = file[call[c].id]
        BY <1>a, <1>2, <3>3 DEF TypeOK
      <4>. QED
        BY <1>a, <1>1, <3>3, <4>1, GotoFacts DEF AppliedKept
    <3>. QED
      BY <3>1, <3>2, <3>3
  <2>3. CASE UpdateParse(c)
    <3>1. Goto(c, "updateTell") /\ call[c].at = "updateParse" /\ applied' = applied
      BY <2>3 DEF UpdateParse, Reparse, At
    <3>. QED
      BY <1>a, <1>1, <3>1, GotoFacts DEF AppliedKept
  <2>4. CASE UpdateTell(c)
    BY <1>a, <2>4, ReturnFacts DEF UpdateTell, AppliedKept
  <2>. QED
    BY <2>1, <2>2, <2>3, <2>4
<1>. QED
  BY <1>5, <1>6 DEF KeptInStep, WrittenKept

\* The rename, and the end of a reload that was asked for.
LEMMA RenameInStep ==
    ASSUME Inv, InStep, NEW c \in Callers,
           RawTmp(c) \/ RawRename(c) \/ ReloadParse(c)
    PROVE  KeptInStep(c)
<1>. USE DEF diskVars, objVars, frpcVars
<1>a. TypeOK /\ CallKept(c) /\ Kept /\ WrittenKept(c)
  BY DEF Inv, Kept, InStep
<1>b. \A x \in Ids : WholeOrTorn(x) /\ LiveUntilWritten(x)
  BY DEF InStep
<1>c. call[c].at \in {"rawTmp", "rawRename", "parse"}
  BY DEF RawTmp, RawRename, ReloadParse, Reparse, At
<1>d. /\ call[c].id \in Ids /\ call[c].n \in Numbers /\ inst[call[c].id] = call[c].n
      /\ call[c].at # "parse" => call[c].v \in Versions
  BY <1>a, <1>c, HoldingType DEF CallKept, Holding, Bringing
<1>1. CASE RawTmp(c)
  <2>1. /\ UNCHANGED <<file, inst, data>> /\ Goto(c, "rawRename")
        /\ tmp' = [tmp EXCEPT ![call[c].id] = call[c].v]
    BY <1>1 DEF RawTmp
  <2>2. /\ call'[c].at = "rawRename" /\ call'[c].id = call[c].id /\ call'[c].v = call[c].v
        /\ \A d \in Callers \ {c} : call'[d] = call[d]
    BY <1>a, <2>1, GotoFacts
  <2>3. tmp'[call[c].id] = call[c].v
    BY <1>a, <1>d, <2>1 DEF TypeOK
  <2>. QED
    BY <1>b, <1>c, <2>1, <2>2, <2>3
    DEF KeptInStep, WrittenKept, AppliedKept, WholeOrTorn, Filling, LiveUntilWritten
<1>2. CASE RawRename(c)
  <2>1. tmp[call[c].id] = call[c].v /\ call[c].at = "rawRename"
    BY <1>a, <1>2 DEF RawRename, At, WrittenKept
  <2>2. /\ file' = [file EXCEPT ![call[c].id] = call[c].v]
        /\ Goto(c, "rawData")
    BY <1>2, <1>d, <2>1, VersionsAssumption DEF RawRename
  <2>3. /\ call'[c].at = "rawData" /\ call'[c].id = call[c].id /\ call'[c].v = call[c].v
        /\ file'[call[c].id] = call[c].v
    BY <1>a, <1>d, <2>2, GotoFacts DEF TypeOK
  <2>. QED
    BY <1>d, <2>1, <2>3, VersionsAssumption
    DEF KeptInStep, WrittenKept, AppliedKept, WholeOrTorn, Filling, LiveUntilWritten
<1>3. CASE ReloadParse(c)
  <2>1. /\ UNCHANGED <<file, inst>> /\ Return(c) /\ call[c].at = "parse"
    BY <1>3 DEF ReloadParse, Reparse, At
  <2>2. call'[c].at = "idle" /\ \A d \in Callers \ {c} : call'[d] = call[d]
    BY <1>a, <2>1, ReturnFacts
  <2>3. data'[call[c].id][call[c].n] \in {data[call[c].id][call[c].n], file[call[c].id]}
    BY <1>a, <1>3, <1>d DEF ReloadParse, Reparse, TypeOK
  <2>. QED
    BY <1>b, <1>d, <2>1, <2>2, <2>3
    DEF KeptInStep, WrittenKept, AppliedKept, WholeOrTorn, Filling, LiveUntilWritten
<1>. QED
  BY <1>1, <1>2, <1>3

\* Deletion, and the steps that touch neither file nor data.
LEMMA OtherInStep ==
    ASSUME Inv, InStep, NEW c \in Callers,
           \/ DeleteStep(c) \/ CreateLook(c) \/ CreateSort(c) \/ StartRun(c)
           \/ StopRun(c) \/ ReloadApply(c) \/ ReorderSet(c)
    PROVE  KeptInStep(c)
<1>. USE DEF diskVars, objVars, frpcVars
<1>a. TypeOK /\ CallKept(c) /\ Kept
  BY DEF Inv, Kept
<1>1. CASE \/ DeleteStop(c) \/ DeleteMeta(c) \/ CreateLook(c) \/ CreateSort(c)
           \/ StartRun(c) \/ StopRun(c) \/ ReloadApply(c) \/ ReorderSet(c)
  <2>1. /\ UNCHANGED <<file, inst, data>>
        /\ call[c].at \in {"deleteStop", "deleteMeta", "createLook", "createSort", "start",
                           "stop", "reload", "reorder"}
    BY <1>1 DEF DeleteStop, DeleteMeta, CreateLook, CreateSort, StartRun, StopRun,
       ReloadApply, Apply, ReorderSet, At
  <2>2. CASE CreateLook(c) /\ ~Return(c)
    <3>1. call' = [call EXCEPT ![c].at = "createSort", ![c].seen = sort]
      BY <2>2 DEF CreateLook
    <3>2. call'[c].at = "createSort" /\ \A d \in Callers \ {c} : call'[d] = call[d]
      BY <1>a, <3>1 DEF TypeOK, Calls
    <3>. QED
      BY <1>a, <2>1, <3>2, StillInStep
  <2>3. CASE ~(CreateLook(c) /\ ~Return(c))
    <3>1. Return(c) \/ Goto(c, "deleteRemove") \/ Goto(c, "parse")
      BY <1>1, <2>3 DEF DeleteStop, DeleteMeta, CreateLook, CreateSort, StartRun, StopRun,
         ReloadApply, Apply, ReorderSet
    <3>2. /\ call'[c].at \in {"idle", "deleteRemove", "parse"}
          /\ \A d \in Callers \ {c} : call'[d] = call[d]
      BY <1>a, <3>1, GotoFacts, ReturnFacts
    <3>. QED
      BY <1>a, <2>1, <3>2, StillInStep
  <2>. QED
    BY <2>2, <2>3
<1>2. CASE DeleteRemove(c) \/ DeleteForget(c)
  <2>1. /\ call[c].at \in {"deleteRemove", "deleteForget"} /\ call[c].id \in Ids
        /\ call[c].id # NoId
    BY <1>a, <1>2, HoldingType, IdsAssumption DEF DeleteRemove, DeleteForget, At, Holding
  <2>2. /\ Goto(c, "deleteForget") \/ Goto(c, "deleteMeta")
        /\ call'[c].id = call[c].id /\ call'[c].at \in {"deleteForget", "deleteMeta"}
        /\ \A d \in Callers \ {c} : call'[d] = call[d]
    BY <1>a, <1>2, GotoFacts DEF DeleteRemove, DeleteForget
  <2>3. CASE DeleteRemove(c)
    <3>1. file'[call[c].id] = NoFile /\ call'[c].at = "deleteForget"
      BY <1>a, <2>1, <2>3, GotoFacts DEF DeleteRemove, TypeOK
    <3>. QED
      BY <2>1, <2>2, <3>1, VersionsAssumption
      DEF KeptInStep, WrittenKept, AppliedKept, WholeOrTorn, Filling, LiveUntilWritten
  <2>4. CASE DeleteForget(c)
    <3>1. inst'[call[c].id] = None /\ file' = file /\ call[c].at = "deleteForget"
      BY <1>a, <2>1, <2>4 DEF DeleteForget, TypeOK, At
    <3>2. \A x \in Ids : WholeOrTorn(x)
      BY DEF InStep
    <3>. QED
      BY <2>1, <2>2, <3>1, <3>2
      DEF KeptInStep, WrittenKept, AppliedKept, WholeOrTorn, Filling, LiveUntilWritten
  <2>. QED
    BY <1>2, <2>3, <2>4
<1>. QED
  BY <1>1, <1>2 DEF DeleteStep

\* A step of a caller keeps files, data and loaded versions in step everywhere.
LEMMA CallerInStep ==
    ASSUME Inv, InStep, NEW c \in Callers, CallerStep(c)
    PROVE  InStep'
<1>1. KeptInStep(c)
  BY WriteInStep, DataInStep, ReloadInStep, RenameInStep, OtherInStep
  DEF CallerStep, CreateStep, UpdateStep, RawStep, RunStep
<1>2. Local(c)
  BY CreateLeaves, UpdateLeaves, RawLeaves, DeleteLeaves, RunLeaves DEF Inv, CallerStep
<1>3. Elsewhere(c)
  BY CallerElsewhere DEF Inv
<1>4. \A d \in Callers : CallKept(d) /\ (call[d].id # NoId => call[d].id \in Ids)
                       /\ (call[d].at \in Holding => call[d].n \in Numbers)
  BY HoldingType DEF Inv, Kept, TypeOK, Calls
<1>5. ASSUME NEW d \in Callers, d # c PROVE WrittenKept(d)' /\ AppliedKept(d)'
  <2>1. call'[d] = call[d] /\ WrittenKept(d) /\ AppliedKept(d)
    BY <1>2, <1>5 DEF Local, InStep
  <2>2. CASE call[d].id = NoId
    BY <1>4, <2>1, <2>2 DEF CallKept, WrittenKept, AppliedKept
  <2>3. CASE call[d].id # NoId
    <3>1. call[d].id \in Ids \ {call[c].id}
      BY <1>4, <1>5, <2>3 DEF Inv, OneCall
    <3>2. /\ Same(call[d].id) /\ tmp'[call[d].id] = tmp[call[d].id]
          /\ applied'[call[d].id] = applied[call[d].id]
          /\ d \in opened => d \in opened'
      BY <1>2, <1>3, <1>5, <3>1 DEF Local, Elsewhere
    <3>3. call[d].at \in {"updateParse", "updateTell"} => call[d].n \in Numbers
      BY <1>4 DEF Holding
    <3>. QED
      BY <2>1, <3>2, <3>3 DEF WrittenKept, AppliedKept, Same
  <2>. QED
    BY <2>2, <2>3
<1>6. ASSUME NEW y \in Ids PROVE WholeOrTorn(y)' /\ LiveUntilWritten(y)'
  <2>1. CASE y = call[c].id
    BY <1>1, <2>1 DEF KeptInStep
  <2>2. CASE y # call[c].id
    <3>1. Same(y) /\ data'[y] = data[y] /\ WholeOrTorn(y) /\ LiveUntilWritten(y)
      BY <1>2, <1>3, <2>2 DEF Local, Elsewhere, InStep
    <3>2. \A d \in Callers : call[d].id = y => call'[d] = call[d]
      BY <1>2, <2>2 DEF Local
    <3>. QED
      BY <3>1, <3>2 DEF Same, WholeOrTorn, Filling, LiveUntilWritten
  <2>. QED
    BY <2>1, <2>2
<1>. QED
  BY <1>1, <1>5, <1>6 DEF InStep, KeptInStep

\* Every other step does too: a call that begins has written nothing, and a
\* boot parses what it finds.
LEMMA NextInStep == ASSUME Exclusive, Inv, InStep, [Next]_vars PROVE InStep'
<1>. USE DEF diskVars, objVars, frpcVars
<1>a. TypeOK
  BY DEF Inv
<1>1. ASSUME NEW c \in Callers, NEW x \in Ids, CallOn(c, x) PROVE InStep'
  <2>1. /\ UNCHANGED <<file, tmp, opened, inst, data, running, applied>> /\ At(c, "idle")
    BY <1>1 DEF CallOn, CreateCall, UpdateCall, RawCall, DeleteCall, StartCall, StopCall,
       ReloadCall, BeginOn, Begin
  <2>2. PICK l \in {"createOpen", "updateOpen", "rawTmp", "deleteStop", "start", "stop",
                    "reload"} : \E n, v : Begin(c, l, x, n, v)
    BY <1>1 DEF CallOn, CreateCall, UpdateCall, RawCall, DeleteCall, StartCall, StopCall,
       ReloadCall, BeginOn
  <2>3. /\ \A d \in Callers \ {c} : call'[d] = call[d]
        /\ call'[c].at = l
    BY <1>a, <2>2 DEF Begin, TypeOK
  <2>. QED
    BY <2>1, <2>3 DEF InStep, WrittenKept, AppliedKept, WholeOrTorn, Filling, LiveUntilWritten, At
<1>2. ASSUME NEW c \in Callers, NEW S \in SUBSET Ids, ReorderCall(c, S) PROVE InStep'
  <2>1. /\ UNCHANGED <<file, tmp, opened, inst, data, running, applied>> /\ At(c, "idle")
        /\ \A d \in Callers \ {c} : call'[d] = call[d]
        /\ call'[c].at = "reorder"
    BY <1>a, <1>2 DEF ReorderCall, TypeOK, Calls
  <2>. QED
    BY <2>1 DEF InStep, WrittenKept, AppliedKept, WholeOrTorn, Filling, LiveUntilWritten, At
<1>3. ASSUME NEW c \in Callers, CallerStep(c) PROVE InStep'
  BY <1>3, CallerInStep
<1>4. ASSUME NEW x \in Ids, AutoStart(x) PROVE InStep'
  <2>1. UNCHANGED <<file, tmp, opened, inst, data, call>> /\ todo # {}
    BY <1>4 DEF AutoStart
  <2>2. \A c \in Callers : call[c].at = "idle"
    BY <2>1 DEF Inv, Booting, NoCall
  <2>. QED
    BY <2>1, <2>2 DEF InStep, WrittenKept, AppliedKept, WholeOrTorn, Filling, LiveUntilWritten
<1>5. ASSUME NEW x \in Ids, NEW n \in Numbers, FrpcExit(x, n) PROVE InStep'
  <2>1. /\ UNCHANGED <<file, tmp, opened, inst, data, call>>
        /\ running' = running \ {<<x, n>>}
        /\ applied' = [applied EXCEPT ![x][n] = NoFile]
    BY <1>5 DEF FrpcExit, Halt
  <2>2. ASSUME NEW c \in Callers PROVE AppliedKept(c)'
    <3>1. AppliedKept(c)
      BY DEF InStep
    <3>2. call[c].at \in {"updateParse", "updateTell"} =>
             call[c].id \in Ids /\ call[c].n \in Numbers
      BY HoldingType DEF Inv, Holding
    <3>. QED
      BY <1>a, <2>1, <3>1, <3>2 DEF AppliedKept, TypeOK
  <2>. QED
    BY <2>1, <2>2 DEF InStep, WrittenKept, WholeOrTorn, Filling, LiveUntilWritten
<1>6. CASE Restart
  <2>1. /\ MayRestart /\ file' = file /\ \A c \in Callers : call'[c].at = "idle"
    BY <1>6 DEF Restart, NoCall
  <2>2. \A x \in Ids : inst'[x] # None => inst'[x] = 1 /\ data'[x][1] = file[x]
    BY <1>6, MaxInstAssumption DEF Restart, Numbers
  <2>3. \A x \in Ids : file[x] # Mixed
    BY DEF InStep, WholeOrTorn
  <2>. QED
    BY <2>1, <2>2, <2>3 DEF InStep, WrittenKept, AppliedKept, WholeOrTorn, Filling, LiveUntilWritten
<1>7. CASE UNCHANGED vars
  BY <1>7 DEF vars, InStep, WrittenKept, AppliedKept, WholeOrTorn, Filling, LiveUntilWritten
<1>. QED
  BY <1>1, <1>2, <1>3, <1>4, <1>5, <1>6, <1>7 DEF Next

\* A caller tears its own file by a write that fails and by nothing else.
LEMMA TornOnly ==
    ASSUME Inv, InStep, NEW c \in Callers, CallerStep(c), NEW x \in Ids, x = call[c].id,
           Torn(x)', ~Torn(x)
    PROVE  Filling(x) /\ WriteFails(c)
<1>. USE DEF diskVars, objVars, frpcVars
<1>a. TypeOK /\ CallKept(c) /\ WrittenKept(c) /\ call[c].id # NoId
  BY IdsAssumption DEF Inv, Kept, InStep
<1>1. Filling(x) <=> call[c].at \in {"createFill", "updateFill"}
  BY <1>a DEF Inv, OneCall, Filling
<1>2. CASE CreateOpen(c) \/ UpdateOpen(c)
  <2>1. Goto(c, "createFill") \/ Goto(c, "updateFill")
    BY <1>2 DEF CreateOpen, UpdateOpen, WriteOpen
  <2>2. call'[c].id = call[c].id /\ call'[c].at \in {"createFill", "updateFill"}
    BY <1>a, <2>1, GotoFacts
  <2>3. Filling(x)'
    BY <2>2 DEF Filling
  <2>. QED
    BY <2>3 DEF Torn
<1>3. CASE CreateFill(c) \/ UpdateFill(c)
  <2>1. /\ call[c].at \in {"createFill", "updateFill"}
        /\ c \in opened => \E f \in {call[c].v} \cup
                 IF file[call[c].id] = Empty THEN {} ELSE {Mixed} :
              file' = [file EXCEPT ![call[c].id] = f]
    BY <1>3 DEF CreateFill, UpdateFill, WriteFill, At
  <2>2. call[c].v \in Versions /\ c \in opened /\ file[x] = Empty
    BY <1>a, <2>1 DEF CallKept, Bringing, WrittenKept
  <2>3. file'[x] \in Versions
    BY <1>a, <2>1, <2>2 DEF TypeOK
  <2>. QED
    BY <2>3, VersionsAssumption DEF Torn
<1>4. CASE RawRename(c) \/ DeleteRemove(c)
  <2>1. /\ call[c].at \in {"rawRename", "deleteRemove"}
        /\ call[c].at = "rawRename" => call[c].v \in Versions /\ tmp[call[c].id] = call[c].v
    BY <1>a, <1>4 DEF RawRename, DeleteRemove, At, CallKept, Bringing, WrittenKept
  <2>2. file'[x] \in Versions \cup {NoFile} \/ file' = file
    BY <1>a, <1>4, <2>1 DEF RawRename, DeleteRemove, At, TypeOK
  <2>. QED
    BY <1>1, <2>1, <2>2, VersionsAssumption DEF Torn
<1>5. CASE WriteFails(c)
  BY <1>5 DEF WriteFails, Torn
<1>6. CASE /\ ~(CreateOpen(c) \/ UpdateOpen(c) \/ CreateFill(c) \/ UpdateFill(c))
           /\ ~(RawRename(c) \/ DeleteRemove(c) \/ WriteFails(c))
  <2>1. file' = file /\ call[c].at \notin {"createFill", "updateFill"}
    BY <1>6 DEF CallerStep, CreateStep, UpdateStep, RawStep, DeleteStep, RunStep,
       CreateRegister, CreateLook, CreateSort, UpdateData, UpdateCheck, UpdateReload,
       UpdateParse, UpdateTell, RawTmp, RawData, DeleteStop, DeleteForget, DeleteMeta,
       StartRun, StopRun, ReloadApply, ReloadParse, Apply, Reparse, ReorderSet, At
  <2>. QED
    BY <1>1, <2>1 DEF Torn
<1>. QED
  BY <1>2, <1>3, <1>4, <1>5, <1>6

LEMMA InStepInvariance == ASSUME Exclusive PROVE Spec => [](Inv /\ InStep)
<1>1. Init => InStep
  BY VersionsAssumption DEF Init, InStep, WrittenKept, AppliedKept, WholeOrTorn,
     Filling, LiveUntilWritten, NoCall
<1>2. Inv /\ InStep /\ [Next]_vars => InStep'
  BY NextInStep
<1>. QED
  BY <1>1, <1>2, Invariance, PTL DEF Spec

-----------------------------------------------------------------------------
(* The theorems.                                                           *)

\* If no two calls on one id overlap, the four places a config lives in hold
\* values of their types: no handler uses an id or an instance it did not find.
THEOREM TypeCorrect == ASSUME Exclusive PROVE Spec => []TypeOK
<1>1. Inv => TypeOK
  BY DEF Inv
<1>. QED
  BY <1>1, Invariance, PTL

\* If no two calls on one id overlap, a frpc that runs belongs to the instance
\* registered for its id, through any number of creations, deletions and boots
\* and with failing file operations: it can always be stopped.
THEOREM ExclusiveNoOrphan == ASSUME Exclusive PROVE Spec => []NoOrphan
<1>1. Inv => NoOrphan
  BY DEF Inv
<1>. QED
  BY <1>1, Invariance, PTL

\* If no two calls on one id overlap, a registered id at which nothing goes on
\* has its file.
THEOREM ExclusiveRegisteredOnDisk == ASSUME Exclusive PROVE Spec => []RegisteredOnDisk
<1>1. Inv => RegisteredOnDisk
  BY DEF Inv, FileUntilForgotten, RegisteredOnDisk, Quiet
<1>. QED
  BY <1>1, Invariance, PTL

\* If no two calls on one id overlap, the parsed data the API shows of an id at
\* rest is its file, after any number of updates, raw writes, reloads and boots,
\* unless a failed write has truncated the file.
THEOREM ExclusiveLiveIsFile == ASSUME Exclusive PROVE Spec => []LiveIsFile
<1>1. InStep => LiveIsFile
  BY DEF InStep, LiveUntilWritten, LiveIsFile, Quiet
<1>. QED
  BY <1>1, InStepInvariance, PTL

\* If no two calls on one id overlap, a file is left torn by a write that fails
\* after it has truncated it, or by a kill at that moment, and by no other step,
\* whatever is killed, fails, or goes on at other ids.
THEOREM ExclusiveTornByCrashOnly == ASSUME Exclusive PROVE Spec => TornByCrashOnly
<1>. USE DEF diskVars, objVars, frpcVars
<1>1. ASSUME Inv, InStep, [Next]_vars, NEW x \in Ids, Torn(x)', ~Torn(x)
      PROVE  /\ Filling(x)
             /\ Restart \/ \E c \in Callers : call[c].id = x /\ WriteFails(c)
  <2>1. CASE \E c \in Callers : CallerStep(c)
    <3>1. PICK c \in Callers : CallerStep(c)
      BY <2>1
    <3>2. Local(c)
      BY <1>1, <3>1, CreateLeaves, UpdateLeaves, RawLeaves, DeleteLeaves, RunLeaves
      DEF Inv, CallerStep
    <3>3. x = call[c].id
      BY <1>1, <3>2, IdsAssumption DEF Local, Same, Torn, Filling
    <3>. QED
      BY <1>1, <3>1, <3>3, TornOnly
  <2>2. CASE \E c \in Callers : (\E y \in Ids : CallOn(c, y)) \/ \E S \in SUBSET Ids : ReorderCall(c, S)
    <3>1. PICK c \in Callers :
             (\E y \in Ids : CallOn(c, y)) \/ \E S \in SUBSET Ids : ReorderCall(c, S)
      BY <2>2
    <3>2. /\ call[c].at = "idle" /\ file' = file
          /\ \A d \in Callers \ {c} : call'[d] = call[d]
      BY <1>1, <3>1 DEF CallOn, CreateCall, UpdateCall, RawCall, DeleteCall, StartCall,
         StopCall, ReloadCall, BeginOn, Begin, ReorderCall, At, Inv, TypeOK
    <3>. QED
      BY <1>1, <3>2 DEF Torn, Filling
  <2>3. CASE UNCHANGED <<file, call>>
    BY <1>1, <2>3 DEF Torn, Filling
  <2>4. CASE Restart
    <3>1. file' = file
      BY <2>4 DEF Restart
    <3>. QED
      BY <1>1, <2>4, <3>1 DEF Torn
  <2>. QED
    BY <1>1, <2>1, <2>2, <2>3, <2>4 DEF Next, AutoStart, FrpcExit, vars
<1>2. Inv /\ InStep /\ [Next]_vars =>
        [\A x \in Ids : Torn(x)' /\ ~Torn(x) =>
          /\ Filling(x)
          /\ Restart \/ \E c \in Callers : call[c].id = x /\ WriteFails(c)]_vars
  BY <1>1
<1>. QED
  BY <1>2, InStepInvariance, PTL DEF Spec, TornByCrashOnly

\* If no two calls on one id overlap, an update that tells of a change has made
\* it: the frpc that runs has loaded the new file, unless frp rejects it; with
\* failing file operations and restarts.
THEOREM ExclusiveChangedIsApplied ==
    ASSUME Exclusive PROVE Spec => []ChangedIsApplied
<1>1. InStep => ChangedIsApplied
  BY DEF InStep, AppliedKept, ChangedIsApplied, At
<1>. QED
  BY <1>1, InStepInvariance, PTL

\* If no two calls on one id overlap, a boot after a kill at any moment registers
\* what the API showed of an id, or what the call that was under way had brought,
\* unless the file was found truncated or its deletion had got that far.
THEOREM ExclusiveRestartKeeps == ASSUME Exclusive PROVE Spec => RestartKeeps
<1>1. ASSUME Inv, InStep, Restart, NEW x \in Ids, inst[x] # None,
             file[x] # Empty, data[x][inst[x]] \in Versions,
             \A c \in Callers : ~(call[c].id = x /\ At(c, "deleteForget"))
      PROVE  inst'[x] = 1 /\ data'[x][1] \in {data[x][inst[x]]} \cup Brought(x)
  <2>1. /\ file[x] \in Versions
        /\ file[x] \in {data[x][inst[x]]} \cup Brought(x)
    <3>1. CASE data[x][inst[x]] = file[x]
      BY <1>1, <3>1
    <3>2. CASE data[x][inst[x]] # file[x]
      <4>1. PICK c \in Callers :
               /\ call[c].id = x
               /\ call[c].at \in {"updateFill", "updateData", "rawData"}
        BY <1>1, <3>2 DEF InStep, LiveUntilWritten, At
      <4>2. file[x] = call[c].v
        BY <1>1, <4>1 DEF InStep, WrittenKept
      <4>3. call[c].v \in Versions /\ call[c].v \in Brought(x)
        BY <1>1, <4>1 DEF Inv, Kept, CallKept, Bringing, Brought
      <4>. QED
        BY <4>2, <4>3
    <3>. QED
      BY <3>1, <3>2
  <2>2. Parses(file[x]) = {TRUE}
    BY <2>1 DEF Parses
  <2>3. 1 \in Numbers
    BY MaxInstAssumption DEF Numbers
  <2>. QED
    BY <1>1, <2>1, <2>2, <2>3 DEF Restart
<1>2. Inv /\ InStep /\ [Next]_vars =>
        [Restart => \A x \in Ids :
          /\ inst[x] # None /\ file[x] # Empty
          /\ data[x][inst[x]] \in Versions
          /\ \A c \in Callers : ~(call[c].id = x /\ At(c, "deleteForget"))
          => inst'[x] = 1 /\ data'[x][1] \in {data[x][inst[x]]} \cup Brought(x)]_vars
  BY <1>1
<1>. QED
  BY <1>2, InStepInvariance, PTL DEF Spec, RestartKeeps

=============================================================================
