--------------------------- MODULE RulesTransfer ---------------------------
(***************************************************************************)
(* The dialog that carries rules from one daemon to another                *)
(* (web/src/components/RulesTransferModal.tsx) and what the daemon does     *)
(* with a paste: RulesIOHandler.Parse previews it, ApplyRuleImport applies *)
(* the rows the user confirms (internal/api/rulesio.go,                    *)
(* internal/manager/rulesimport.go).  The dialog's component stays mounted *)
(* while an instance is selected: its props give its state their value     *)
(* once, at mounting, and neither closing nor another instance resets it.  *)
(*                                                                         *)
(* A rule is [kind, addr, port, batch]: a proxy or a visitor, the local    *)
(* address and port a visitor listens on (0 for none), and the import it   *)
(* came with (ghost).  Visitors are of one protocol family.                *)
(***************************************************************************)
EXTENDS Naturals, FiniteSets, SequencesExt

CONSTANTS
    Ids,           \* the instances
    InitialRules,  \* the rules of each at first: name -> rule
    Pastes,        \* name of a text -> its items, as ParseRules lists them
    Candidates,    \* name -> the names uniqueSuggestedName tries for it, in order
    FirstPort,     \* the port suggestions start at (10000 in the code)
    LastPort,      \* the last port there is (65535)
    MaxOpens,      \* bound: times the dialog is opened
    MaxEdits,      \* bound: changes to rows and options
    MaxImports,    \* bound: imports
    MaxRequests    \* bound: requests on their way at once

VARIABLES
    rules,     \* daemon: the rules of each instance
    active,    \* the instance selected
    chosen,    \* the rules checked in the table
    open,      \* the dialog is on screen
    asked,     \* what opening it asked for: a tab and a text (the props)
    tab,       \* tab
    content,   \* the text in the import box, "" for none
    timer,     \* the parse the 400 ms debounce will start: instance and text
    rows,      \* the preview: ParsedRow
    options,   \* format, kind and scope of the export
    output,    \* what the export tab shows: the options it was made with
    requests,  \* requests on their way
    refused,   \* ghost: the entries refused by the last import
    spent      \* opens, edits and imports so far

vars == <<rules, active, chosen, open, asked, tab, content, timer, rows, options, output,
          requests, refused, spent>>

NoTimer == [id |-> "", text |-> ""]
NoOutput == [id |-> "", format |-> "", kind |-> "", names |-> {}]
Spend(what) == spent' = [spent EXCEPT ![what] = @ + 1]
RuleNames(i) == DOMAIN rules[i]
Put(f, x, value) == [y \in DOMAIN f \cup {x} |-> IF y = x THEN value ELSE f[y]]
Ask(more) == requests' = requests \cup more /\ Cardinality(requests') <= MaxRequests

(***************************************************************************)
(* Ports: VisitorBindConflict looks at the visitors of every instance, and *)
(* "any", 0.0.0.0, overlaps every address.                                 *)
(***************************************************************************)
Addresses == {"any", "own"}
Clash(a, b) ==
    /\ a.kind = "visitor" /\ b.kind = "visitor" /\ a.port = b.port /\ a.port > 0
    /\ a.addr = b.addr \/ "any" \in {a.addr, b.addr}
VisitorBindConflict(rule) == \E i \in Ids : \E n \in RuleNames(i) : Clash(rules[i][n], rule)
BoundPorts ==
    {p \in FirstPort..LastPort : VisitorBindConflict([kind |-> "visitor", addr |-> "any", port |-> p])}

\* SuggestVisitorBindPort: the first free port, FirstPort when none is.
Suggest(used) ==
    LET free == (FirstPort..LastPort) \ (used \cup BoundPorts)
    IN  IF free = {} THEN FirstPort ELSE CHOOSE p \in free : \A q \in free : p <= q

\* uniqueSuggestedName: the first candidate that neither a rule nor an earlier
\* suggestion has.
FreshName(n, taken) ==
    LET k == CHOOSE k \in DOMAIN Candidates[n] :
                /\ Candidates[n][k] \notin taken
                /\ \A j \in 1..(k - 1) : Candidates[n][j] \in taken
    IN  Candidates[n][k]

(***************************************************************************)
(* Parse: one row per item, with the default action the dialog gives it.   *)
(* An item is [kind, name, addr, port, pairable]; "for" and "edited" are   *)
(* ghosts.                                                                 *)
(***************************************************************************)
DefaultAction(pairable, conflict) ==
    IF pairable THEN "pair" ELSE IF conflict THEN "skip" ELSE "create"

RowOf(i, item, port, name) ==
    [for |-> i, edited |-> FALSE, item |-> item, conflict |-> item.name \in RuleNames(i),
     action |-> DefaultAction(item.pairable, item.name \in RuleNames(i)),
     name |-> IF item.pairable THEN name ELSE item.name,
     addr |-> "any", port |-> port]

\* What has been suggested once an item is dealt with.
ParseStep(i, done, item) ==
    LET port == Suggest(done.ports)
        name == FreshName(item.name, RuleNames(i) \cup done.names)
    IN  IF item.pairable
        THEN [ports |-> done.ports \cup {port}, names |-> done.names \cup {name},
              port |-> port, name |-> name]
        ELSE [done EXCEPT !.port = 0, !.name = ""]
Parsed(i, text) ==
    LET items == Pastes[text]
        done[k \in 0..Len(items)] ==
            IF k = 0 THEN [ports |-> {}, names |-> {}, port |-> 0, name |-> ""]
            ELSE ParseStep(i, done[k - 1], items[k])
    IN  [k \in DOMAIN items |-> RowOf(i, items[k], done[k].port, done[k].name)]

(***************************************************************************)
(* Import.  runImport makes an entry of a row, ApplyRuleImport applies the *)
(* entries in order, refusing the bad ones.  Rows that are skipped stay on *)
(* the page; here they go along and change nothing.                        *)
(***************************************************************************)
Entry(row, batch) ==
    IF row.action = "pair"
    THEN [row |-> row, action |-> "create", name |-> row.name, newName |-> row.name,
          rule |-> [kind |-> "visitor", addr |-> row.addr, port |-> row.port, batch |-> batch]]
    ELSE [row |-> row, action |-> row.action, name |-> row.item.name, newName |-> row.name,
          rule |-> [kind |-> row.item.kind, addr |-> row.item.addr, port |-> row.item.port,
                    batch |-> batch]]
Entries == [k \in DOMAIN rows |-> Entry(rows[k], spent.imports + 1)]

\* Mutant: the binds of the batch itself are not looked at.
PortFreeStored(rule, binds) == rule.kind = "visitor" => ~VisitorBindConflict(rule)

\* addVisitorOK: against every stored visitor, and against the batch so far,
\* where an address is compared as it is written.
PortFree(rule, binds) ==
    rule.kind = "visitor" => ~VisitorBindConflict(rule) /\ <<rule.addr, rule.port>> \notin binds

\* Mutant: "create" takes any name.
NameFreeRename(entry, next) ==
    entry.action = "rename" => entry.newName # entry.name /\ entry.newName \notin DOMAIN next

NameFree(entry, next) ==
    CASE entry.action = "create" -> entry.name \notin DOMAIN next
      [] entry.action = "rename" -> entry.newName # entry.name /\ entry.newName \notin DOMAIN next
      [] OTHER -> TRUE

Final(entry) == IF entry.action = "rename" THEN entry.newName ELSE entry.name
Refusal(done, entry) ==
    [entry |-> entry, stored |-> entry.name \in DOMAIN done.next,
     same |-> entry.name \in DOMAIN done.next /\ done.next[entry.name].port = entry.rule.port]

ApplyStep(done, entry) ==
    IF entry.action = "skip" THEN done
    ELSE IF NameFree(entry, done.next) /\ PortFree(entry.rule, done.binds)
    THEN [next |-> Put(done.next, Final(entry), entry.rule),
          binds |-> done.binds \cup
              (IF entry.rule.kind = "visitor" THEN {<<entry.rule.addr, entry.rule.port>>} ELSE {}),
          refused |-> done.refused]
    ELSE [done EXCEPT !.refused = @ \cup {Refusal(done, entry)}]

\* What has been applied after so many entries.
Applied(i, entries) ==
    LET done[k \in 0..Len(entries)] ==
            IF k = 0 THEN [next |-> rules[i], binds |-> {}, refused |-> {}]
            ELSE ApplyStep(done[k - 1], entries[k])
    IN  done

-----------------------------------------------------------------------------
Options == [format : {"portable", "toml"}, kind : {"all", "proxy", "visitor"},
            scope : {"all", "selected"}]
Export(o) == [op |-> "export", id |-> active, format |-> o.format, kind |-> o.kind,
              names |-> IF o.scope = "selected" THEN chosen ELSE {}]
ParseOf(i, text) == [op |-> "parse", id |-> i, text |-> text, rows |-> <<>>, phase |-> "sent"]

\* The component mounts with the instances page's first instance, nothing
\* checked and no text pasted: scope "all", tab "export".
Init ==
    /\ rules = InitialRules /\ active = CHOOSE i \in Ids : TRUE
    /\ chosen = {} /\ open = FALSE
    /\ asked = [tab |-> "export", text |-> ""] /\ tab = "export" /\ content = ""
    /\ timer = NoTimer /\ rows = <<>>
    /\ options = [format |-> "portable", kind |-> "all", scope |-> "all"]
    /\ output = NoOutput /\ requests = {} /\ refused = {}
    /\ spent = [opens |-> 0, edits |-> 0, imports |-> 0]

(***************************************************************************)
(* The page around the dialog.                                             *)
(***************************************************************************)
SelectInstance(i) ==
    /\ ~open /\ i # active /\ active' = i /\ chosen' = {}
    /\ UNCHANGED <<rules, open, asked, tab, content, timer, rows, options, output, requests,
                   refused, spent>>

Check(names) ==
    /\ ~open /\ names \subseteq RuleNames(active) /\ names # chosen /\ chosen' = names
    /\ UNCHANGED <<rules, active, open, asked, tab, content, timer, rows, options, output,
                   requests, refused, spent>>

\* "Import and export rules", "export the selection", or a paste on the page.
\* The effect on [open, tab, ...] exports when the tab is "export".
Open(t, text) ==
    /\ ~open /\ spent.opens < MaxOpens /\ open' = TRUE /\ Spend("opens")
    /\ asked' = [tab |-> t, text |-> text]
    /\ Ask(IF tab = "export" THEN {Export(options)} ELSE {})
    /\ UNCHANGED <<rules, active, chosen, tab, content, timer, rows, options, output, refused>>

Close ==
    /\ open /\ open' = FALSE
    /\ UNCHANGED <<rules, active, chosen, asked, tab, content, timer, rows, options, output,
                   requests, refused, spent>>

(***************************************************************************)
(* The dialog.                                                             *)
(***************************************************************************)
\* Another tab or option of the export runs it at once.
Reexport(newTab, newOptions) ==
    /\ tab' = newTab /\ options' = newOptions
    /\ Ask(IF newTab = "export" THEN {Export(newOptions)} ELSE {})

SwitchTab ==
    /\ open /\ spent.edits < MaxEdits /\ Spend("edits")
    /\ Reexport(IF tab = "export" THEN "import" ELSE "export", options)
    /\ UNCHANGED <<rules, active, chosen, open, asked, content, timer, rows, output, refused>>

SetOption(o) ==
    /\ open /\ tab = "export" /\ spent.edits < MaxEdits /\ Spend("edits")
    /\ \E field \in DOMAIN options : o # options /\ o = [options EXCEPT ![field] = o[field]]
    /\ o.scope = "selected" => chosen # {}
    /\ Reexport("export", o)
    /\ UNCHANGED <<rules, active, chosen, open, asked, content, timer, rows, output, refused>>

\* Typing into the box: the effect on [content] restarts the debounce.  A text
\* that is gone clears the preview.
Type(text) ==
    /\ open /\ tab = "import" /\ text # content /\ spent.edits < MaxEdits /\ Spend("edits")
    /\ content' = text
    /\ IF text = ""
       THEN timer' = NoTimer /\ rows' = <<>>
       ELSE timer' = [id |-> active, text |-> text] /\ UNCHANGED rows
    /\ UNCHANGED <<rules, active, chosen, open, asked, tab, options, output, requests, refused>>

TimerFires ==
    /\ timer # NoTimer /\ timer' = NoTimer
    /\ Ask({ParseOf(timer.id, timer.text)})
    /\ UNCHANGED <<rules, active, chosen, open, asked, tab, content, rows, options, output,
                   refused, spent>>

\* The "parse again" button.
Reparse ==
    /\ open /\ tab = "import" /\ content # "" /\ ~\E r \in requests : r.op = "parse"
    /\ spent.edits < MaxEdits /\ Spend("edits")
    /\ Ask({ParseOf(active, content)})
    /\ UNCHANGED <<rules, active, chosen, open, asked, tab, content, timer, rows, options,
                   output, refused>>

\* The actions a row offers.
ActionsOf(row) ==
    {"create", "skip"} \cup (IF row.item.pairable THEN {"pair"} ELSE {})
        \cup (IF row.conflict THEN {"overwrite", "rename"} ELSE {})

\* Its action, the name of a row that has one to give, and where the visitor
\* of a pair listens (0: the port is deleted).
PatchRow(k, row) ==
    /\ open /\ tab = "import" /\ spent.edits < MaxEdits /\ Spend("edits")
    /\ row # rows[k] /\ rows' = [rows EXCEPT ![k] = [row EXCEPT !.edited = TRUE]]
    /\ UNCHANGED <<rules, active, chosen, open, asked, tab, content, timer, options, output,
                   requests, refused>>

PatchAction(k, a) == a \in ActionsOf(rows[k]) /\ PatchRow(k, [rows[k] EXCEPT !.action = a])
PatchName(k, n) ==
    rows[k].action \in {"pair", "rename"} /\ PatchRow(k, [rows[k] EXCEPT !.name = n])
PatchBind(k, addr, port) ==
    rows[k].action = "pair" /\ PatchRow(k, [rows[k] EXCEPT !.addr = addr, !.port = port])

AcceptAll ==
    /\ open /\ tab = "import" /\ rows # <<>>
    /\ rows' = [k \in DOMAIN rows |->
          [rows[k] EXCEPT !.action = DefaultAction(rows[k].item.pairable, rows[k].conflict)]]
    /\ UNCHANGED <<rules, active, chosen, open, asked, tab, content, timer, options, output,
                   requests, refused, spent>>

RunImport ==
    /\ open /\ tab = "import" /\ \E k \in DOMAIN rows : rows[k].action # "skip"
    /\ ~\E r \in requests : r.op = "import"
    /\ spent.imports < MaxImports /\ Spend("imports")
    /\ Ask({[op |-> "import", id |-> active, entries |-> Entries]})
    /\ UNCHANGED <<rules, active, chosen, open, asked, tab, content, timer, rows, options,
                   output, refused>>

(***************************************************************************)
(* The daemon, and its answers.                                            *)
(***************************************************************************)
\* An export is answered with what it was asked for, whenever that is.
DeliverExport(r) ==
    /\ r.op = "export" /\ requests' = requests \ {r}
    /\ output' = [id |-> r.id, format |-> r.format, kind |-> r.kind, names |-> r.names]
    /\ UNCHANGED <<rules, active, chosen, open, asked, tab, content, timer, rows, options,
                   refused, spent>>

ServeParse(r) ==
    /\ r.op = "parse" /\ r.phase = "sent"
    /\ requests' = (requests \ {r}) \cup
          {[r EXCEPT !.phase = "ok", !.rows = Parsed(r.id, r.text)]}
    /\ UNCHANGED <<rules, active, chosen, open, asked, tab, content, timer, rows, options,
                   output, refused, spent>>

DeliverParse(r) ==
    /\ r.op = "parse" /\ r.phase = "ok" /\ requests' = requests \ {r}
    /\ rows' = r.rows
    /\ UNCHANGED <<rules, active, chosen, open, asked, tab, content, timer, options, output,
                   refused, spent>>

\* Served and answered: the dialog closes itself, whatever was refused.
Import(r) ==
    /\ r.op = "import" /\ requests' = requests \ {r}
    /\ LET done == Applied(r.id, r.entries)[Len(r.entries)]
       IN  rules' = [rules EXCEPT ![r.id] = done.next] /\ refused' = done.refused
    /\ open' = FALSE
    /\ UNCHANGED <<active, chosen, asked, tab, content, timer, rows, options, output, spent>>

\* Any request may fail: the dialog says so and stays as it is.
Fail(r) ==
    /\ requests' = requests \ {r}
    /\ UNCHANGED <<rules, active, chosen, open, asked, tab, content, timer, rows, options,
                   output, refused, spent>>

-----------------------------------------------------------------------------
Page ==
    \/ \E i \in Ids : SelectInstance(i) \/ (\E names \in SUBSET RuleNames(active) : Check(names))
    \/ Open("export", "") \/ (\E text \in DOMAIN Pastes : Open("import", text))
    \/ Close
Dialog ==
    \/ SwitchTab \/ (\E o \in Options : SetOption(o))
    \/ (\E text \in DOMAIN Pastes \cup {""} : Type(text)) \/ TimerFires \/ Reparse
    \/ \E k \in DOMAIN rows :
          \/ \E a \in {"create", "skip", "pair", "overwrite", "rename"} : PatchAction(k, a)
          \/ \E n \in UNION {ToSet(Candidates[m]) : m \in DOMAIN Candidates} : PatchName(k, n)
          \/ \E addr \in Addresses, port \in {0} \cup FirstPort..LastPort : PatchBind(k, addr, port)
    \/ AcceptAll \/ RunImport
Daemon ==
    \E r \in requests : DeliverExport(r) \/ ServeParse(r) \/ DeliverParse(r) \/ Import(r) \/ Fail(r)
Next == Page \/ Dialog \/ Daemon
Spec == Init /\ [][Next]_vars

-----------------------------------------------------------------------------
TypeOK ==
    /\ active \in Ids /\ open \in BOOLEAN /\ tab \in {"export", "import"}
    /\ content \in DOMAIN Pastes \cup {""} /\ options \in Options
    /\ \A i \in Ids : \A n \in RuleNames(i) : rules[i][n].kind \in {"proxy", "visitor"}
    /\ \A k \in DOMAIN rows : rows[k].action \in ActionsOf(rows[k])

\* No two visitors, of one instance or of two, listen on one port of the same
\* address or of every address, whatever a stale preview suggested, the user
\* entered or the batch repeats; but the batch itself may hold one that listens
\* on every address and one on a single address.
Apart(all) ==
    \A i, j \in Ids : \A n \in DOMAIN all[i], m \in DOMAIN all[j] :
        Clash(all[i][n], all[j][m])
          => \/ i = j /\ n = m
             \/ all[i][n].addr # all[j][m].addr /\ all[i][n].batch = all[j][m].batch
BindsDistinct == Apart(rules)

\* Nor two of one import ("a wildcard binds every interface so it overlaps any
\* address", addrsOverlap).  Violated: the batch compares addresses as written,
\* and the port suggested for a pair may be that of a visitor of the paste.
NoOverlap ==
    \A i, j \in Ids : \A n \in RuleNames(i), m \in RuleNames(j) :
        Clash(rules[i][n], rules[j][m]) => i = j /\ n = m

\* An import replaces a stored rule only where a row of it says "overwrite",
\* however old the preview is, and removes none.
OverwriteIsAsked ==
    [][\A i \in Ids : \A n \in RuleNames(i) :
          rules'[i] # rules[i] =>
            /\ n \in DOMAIN rules'[i]
            /\ rules'[i][n] = rules[i][n]
                 \/ \E r \in requests : r.op = "import" /\ r.id = i
                      /\ \E k \in DOMAIN r.entries :
                           r.entries[k].action = "overwrite" /\ r.entries[k].name = n]_vars

\* A text pasted on the page is in the import box of the dialog it opens.
\* Violated: the dialog is mounted already and its state ignores new props.
PasteIsPrefilled == open /\ asked.text # "" /\ spent.edits = 0 => tab = "import" /\ content = asked.text

\* Rows imported into an instance were previewed for it.  Violated: another
\* instance selected between two openings of the dialog keeps the rows.
RowsAreOfConfig ==
    \A r \in requests : r.op = "import" =>
        \A k \in DOMAIN r.entries : r.entries[k].row.for = r.id

\* "overwrite" of a stored rule replaces it (docs/API.zh-CN.md:805).  Violated
\* for a visitor that keeps its port: the check finds the visitor itself.
OverwriteReplaces == \A x \in refused : ~(x.entry.action = "overwrite" /\ x.stored /\ x.same)

\* With the actions the preview recommends nothing is refused (Parse: "so the
\* default create action succeeds").  Violated when the paste itself holds a
\* rule with the name or the port suggested for another one.
DefaultsApply ==
    \A x \in refused : x.entry.row.edited \/ x.entry.row.for # active

\* What the export tab shows was made with the options it shows.  Violated by
\* two answers in the other order, and by a new instance.
OutputAgrees ==
    requests = {} /\ open /\ tab = "export" =>
        [output EXCEPT !.names = {}] = [id |-> active, format |-> options.format,
                                        kind |-> options.kind, names |-> {}]
=============================================================================
