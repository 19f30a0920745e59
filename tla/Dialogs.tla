------------------------------- MODULE Dialogs -------------------------------
(***************************************************************************)
(* Three places where the web UI edits what the daemon stores: the visual  *)
(* form of an instance (ConfigForm), the dialog that imports and exports   *)
(* rules (RulesTransfer) and the backup page (BackupPage).  They share no  *)
(* state and are used one at a time: a behaviour chooses one and stays in  *)
(* it.                                                                     *)
(***************************************************************************)
EXTENDS ConfigForm, Sequences

CONSTANTS
    Ids, StoredRules, Pastes, Candidates, FirstPort, LastPort,   \* of RulesTransfer
    MaxOpens, MaxTransferEdits, MaxImports, MaxTransferRequests,
    InitialChannels, InitialSchedules, NewChannel,               \* of BackupPage
    MaxWork, MaxBackupRequests

VARIABLES
    place,        \* "form", "transfer" or "backup"
    rules, active, chosen, open, asked, tab, content, timer, rows, options, output,
    tRequests, refused, spent,
    chans, scheds, job, history, channels, schedules, runs, chModal, scModal, restore,
    bRequests, news, typed, work

tVars == <<rules, active, chosen, open, asked, tab, content, timer, rows, options, output,
           tRequests, refused, spent>>
bVars == <<chans, scheds, job, history, channels, schedules, runs, chModal, scModal, restore,
           bRequests, news, typed, work>>
dialogVars == <<place, vars, tVars, bVars>>

Transfer == INSTANCE RulesTransfer WITH
    InitialRules <- StoredRules, MaxEdits <- MaxTransferEdits,
    MaxRequests <- MaxTransferRequests, requests <- tRequests

Backup == INSTANCE BackupPage WITH
    MaxRequests <- MaxBackupRequests, requests <- bRequests

\* There is an instance, each has its rules, and a text is its items in order.
ASSUME TransferAssumption ==
    /\ Ids # {} /\ DOMAIN StoredRules = Ids
    /\ \A text \in DOMAIN Pastes :
          Pastes[text] \in Seq({Pastes[text][k] : k \in DOMAIN Pastes[text]})

\* A channel is made with an id (newID), and has its fields.
ASSUME BackupAssumption ==
    /\ "" \notin DOMAIN InitialChannels \cup {NewChannel}
    /\ \A i \in DOMAIN InitialChannels :
          {"kind", "addr", "secret"} \subseteq DOMAIN InitialChannels[i]

DialogInit ==
    /\ place \in {"form", "transfer", "backup"}
    /\ Init /\ Transfer!Init /\ Backup!Init
DialogNext ==
    \/ place = "form" /\ Next /\ UNCHANGED <<place, tVars, bVars>>
    \/ place = "transfer" /\ Transfer!Next /\ UNCHANGED <<place, vars, bVars>>
    \/ place = "backup" /\ Backup!Next /\ UNCHANGED <<place, vars, tVars>>
DialogSpec == DialogInit /\ [][DialogNext]_dialogVars

-----------------------------------------------------------------------------
(* The properties of RulesTransfer and BackupPage, in these variables.     *)

\* The types of the three places.
PlacesTypeOK == TypeOK /\ Transfer!TypeOK /\ Backup!TypeOK

\* A visitor that an import adds overlaps none that was stored before, in any
\* instance, and no two of one import have one address and port (addVisitorOK).
BindsDistinct == Transfer!BindsDistinct

\* An import replaces a stored rule only where a row says "overwrite", and
\* removes none (ApplyRuleImport).
OverwriteIsAsked == Transfer!OverwriteIsAsked

\* The secret of a channel is the one last typed for it, through blank fields,
\* changes of kind and restores (MergeChannelSecrets, buildChannelInput).
SecretIsLastTyped == Backup!SecretIsLastTyped
-----------------------------------------------------------------------------
(* What comments and documents say, and the code does not keep.            *)

\* A pasted text is in the box of the dialog it opens (Configs.tsx:171).
PasteIsPrefilled == Transfer!PasteIsPrefilled

\* Rows are imported into the instance they were previewed for.
RowsAreOfConfig == Transfer!RowsAreOfConfig

\* No two visitors of one import overlap (addrsOverlap).
NoOverlap == Transfer!NoOverlap

\* "overwrite" replaces the rule of that name (docs/API.zh-CN.md:805).
OverwriteReplaces == Transfer!OverwriteReplaces

\* What the preview recommends is accepted (rulesio.go:183).
DefaultsApply == Transfer!DefaultsApply

\* The exported text was made with the options on screen.
OutputAgrees == Transfer!OutputAgrees

\* At rest no schedule is shown as running (Backup.tsx, "refreshed at once").
RunningClears == Backup!RunningClears

\* A toggle turns the switch as the user saw it.
ToggleTurnsShown == Backup!ToggleTurnsShown

\* A saved dialog closes itself and not one opened since.
AnswerClosesOwn == Backup!AnswerClosesOwn
=============================================================================
