---------------------------- MODULE DialogsProofs ----------------------------
(***************************************************************************)
(* What RulesTransfer and BackupPage promise, for every paste, row, edit   *)
(* and order of answers.                                                   *)
(***************************************************************************)
EXTENDS Dialogs, TLAPS, NaturalsInduction, FiniteSetTheorems, SequenceTheorems, WellFoundedInduction

\* A set of naturals has a least element: induction, without an operator
\* parameter.
LEMMA Least ==
    ASSUME NEW T, T \subseteq Nat, T # {}
    PROVE  \E n \in T : \A m \in T : n <= m
<1>1. PICK n \in T : \A m \in T : ~(<<m, n>> \in OpToRel(<, Nat))
  BY NatLessThanWellFounded, WFMin, Zenon
<1>2. \A m \in T : ~(m < n)
  BY <1>1 DEF OpToRel
<1>. QED
  BY <1>2

-----------------------------------------------------------------------------
(* The loop of ApplyRuleImport.                                            *)

\* What it has after k entries, when it had s before the last.
Turn(i, entries, s, k) ==
    IF k = 0 THEN [next |-> rules[i], binds |-> {}, refused |-> {}]
    ELSE Transfer!ApplyStep(s, entries[k])

\* What the loop has after k entries.
LEMMA LoopTurns ==
    ASSUME NEW i, NEW entries, Len(entries) \in Nat, NEW k \in 0..Len(entries)
    PROVE  /\ Transfer!Applied(i, entries)[0] = [next |-> rules[i], binds |-> {}, refused |-> {}]
           /\ k # 0 => Transfer!Applied(i, entries)[k]
                         = Transfer!ApplyStep(Transfer!Applied(i, entries)[k - 1], entries[k])
<1>. DEFINE d == Transfer!Applied(i, entries)
<1>1. d = CHOOSE g : g = [j \in 0..Len(entries) |-> Turn(i, entries, g[j - 1], j)]
  BY DEF Transfer!Applied, Turn
<1>2. \A l \in Nat : \E g : g = [j \in 0..l |-> Turn(i, entries, g[j - 1], j)]
  <2>. HIDE DEF d
  <2>. DEFINE Fails == {m \in Nat : ~\E g : g = [j \in 0..m |-> Turn(i, entries, g[j - 1], j)]}
  <2>1. SUFFICES ASSUME Fails # {} PROVE FALSE
    OBVIOUS
  <2>2. PICK m \in Fails : \A n \in Fails : m <= n
    BY <2>1, Least
  <2>3. CASE m = 0
    <3>. DEFINE g == [j \in 0..0 |-> [next |-> rules[i], binds |-> {}, refused |-> {}]]
    <3>1. g = [j \in 0..0 |-> Turn(i, entries, g[j - 1], j)]
      BY DEF Turn
    <3>. HIDE DEF g
    <3>. QED
      BY <2>2, <2>3, <3>1
  <2>4. CASE m # 0
    <3>1. m \in Nat /\ m - 1 \in Nat /\ m - 1 \notin Fails
      BY <2>2, <2>4
    <3>2. PICK h : h = [j \in 0..(m - 1) |-> Turn(i, entries, h[j - 1], j)]
      BY <3>1
    <3>. DEFINE g == [j \in 0..m |-> IF j = m THEN Turn(i, entries, h[m - 1], m) ELSE h[j]]
    <3>3. ASSUME NEW j \in 0..m PROVE g[j] = Turn(i, entries, g[j - 1], j)
      <4>1. CASE j = 0
        <5>0. 0 \in 0..m /\ 0 \in 0..(m - 1) /\ 0 # m
          BY <2>4, <3>1
        <5>1. g[0] = h[0] /\ h[0] = Turn(i, entries, h[0 - 1], 0)
          BY <3>2, <5>0
        <5>. QED
          BY <4>1, <5>1 DEF Turn
      <4>2. CASE j # 0 /\ j # m
        <5>1. j \in 0..(m - 1) /\ j - 1 \in 0..m /\ j - 1 # m
          BY <3>1, <4>2
        <5>2. g[j] = h[j] /\ g[j - 1] = h[j - 1] /\ h[j] = Turn(i, entries, h[j - 1], j)
          BY <3>1, <3>2, <4>2, <5>1
        <5>. QED
          BY <5>2
      <4>3. CASE j # 0 /\ j = m
        <5>1. m - 1 \in 0..m /\ m - 1 # m
          BY <3>1
        <5>2. g[m - 1] = h[m - 1] /\ g[m] = Turn(i, entries, h[m - 1], m)
          BY <3>1, <5>1
        <5>. QED
          BY <4>3, <5>2
      <4>. QED
        BY <4>1, <4>2, <4>3
    <3>4. g = [j \in 0..m |-> g[j]]
      OBVIOUS
    <3>. HIDE DEF g
    <3>5. g = [j \in 0..m |-> Turn(i, entries, g[j - 1], j)]
      BY <3>3, <3>4
    <3>. QED
      BY <2>2, <3>5
  <2>. QED
    BY <2>3, <2>4
<1>. HIDE DEF d
<1>3. d = [j \in 0..Len(entries) |-> Turn(i, entries, d[j - 1], j)]
  BY <1>1, <1>2
<1>4. d[0] = Turn(i, entries, d[0 - 1], 0) /\ d[k] = Turn(i, entries, d[k - 1], k)
  BY <1>3
<1>. QED
  BY <1>4 DEF d, Turn

\* What RunImport sends: entries with an action the daemon knows, of one batch.
EntriesOf(entries, b) ==
    /\ Len(entries) \in Nat /\ DOMAIN entries = 1..Len(entries)
    /\ \A k \in DOMAIN entries :
          /\ entries[k].action \in {"create", "skip", "overwrite", "rename"}
          /\ entries[k].rule.batch = b

\* A rule this batch has brought, whose address no stored visitor overlaps.
New(rule, binds, b) ==
    /\ rule.batch = b
    /\ rule.kind = "visitor" =>
          ~Transfer!VisitorBindConflict(rule) /\ <<rule.addr, rule.port>> \in binds

\* The loop keeps each stored rule, or replaces it by one that asks for it.
Keeps(i, entries, done) ==
    \A n \in DOMAIN rules[i] :
        /\ n \in DOMAIN done.next
        /\ \/ done.next[n] = rules[i][n]
           \/ \E k \in DOMAIN entries :
                 entries[k].action = "overwrite" /\ entries[k].name = n

\* What it holds is stored or new, and its visitors are apart.
OldOrNew(i, done, b) ==
    \A n \in DOMAIN done.next :
        \/ n \in DOMAIN rules[i] /\ done.next[n] = rules[i][n]
        \/ New(done.next[n], done.binds, b)
OneApart(next) ==
    \A n, m \in DOMAIN next :
        n # m /\ Transfer!Clash(next[n], next[m])
          => next[n].addr # next[m].addr /\ next[n].batch = next[m].batch

LEMMA ClashSymmetric ==
    ASSUME NEW a, NEW b, Transfer!Clash(a, b)
    PROVE  Transfer!Clash(b, a)
BY DEF Transfer!Clash

\* An accepted entry is put into the rules, where it had a right to be.
LEMMA Accepted ==
    ASSUME NEW i \in Ids, NEW entries, NEW b, EntriesOf(entries, b),
           NEW k \in DOMAIN entries, NEW done,
           Keeps(i, entries, done), OldOrNew(i, done, b),
           entries[k].action # "skip",
           Transfer!NameFree(entries[k], done.next), Transfer!PortFree(entries[k].rule, done.binds),
           NEW out, out.next = Transfer!Put(done.next, Transfer!Final(entries[k]), entries[k].rule),
           out.binds = done.binds \cup
               (IF entries[k].rule.kind = "visitor"
                THEN {<<entries[k].rule.addr, entries[k].rule.port>>} ELSE {})
    PROVE  /\ Keeps(i, entries, out) /\ OldOrNew(i, out, b)
           /\ OneApart(done.next) => OneApart(out.next)
<1>. DEFINE e == entries[k]
            f == Transfer!Final(e)
<1>1. /\ DOMAIN out.next = DOMAIN done.next \cup {f}
      /\ out.next[f] = e.rule
      /\ \A n \in DOMAIN done.next : n # f => out.next[n] = done.next[n]
  BY DEF Transfer!Put
<1>2. e.action \in {"create", "overwrite", "rename"} /\ e.rule.batch = b
  BY DEF EntriesOf
<1>3. f \in DOMAIN done.next => e.action = "overwrite" /\ f = e.name
  BY <1>2 DEF Transfer!NameFree, Transfer!Final
<1>. HIDE DEF e, f
<1>4. Keeps(i, entries, out)
  <2>1. ASSUME NEW n \in DOMAIN rules[i]
        PROVE  /\ n \in DOMAIN out.next
               /\ \/ out.next[n] = rules[i][n]
                  \/ \E j \in DOMAIN entries :
                        entries[j].action = "overwrite" /\ entries[j].name = n
    <3>1. n \in DOMAIN done.next
      BY DEF Keeps
    <3>2. CASE n = f
      BY <1>1, <1>3, <3>1, <3>2 DEF e
    <3>3. CASE n # f
      BY <1>1, <3>1, <3>3 DEF Keeps
    <3>. QED
      BY <3>2, <3>3
  <2>. QED
    BY <2>1 DEF Keeps
<1>5. New(e.rule, out.binds, b)
  <2>1. e.rule.kind = "visitor" => <<e.rule.addr, e.rule.port>> \in out.binds
    BY DEF e
  <2>2. e.rule.kind = "visitor" => ~Transfer!VisitorBindConflict(e.rule)
    BY DEF e, Transfer!PortFree
  <2>. QED
    BY <1>2, <2>1, <2>2 DEF New
<1>6. OldOrNew(i, out, b)
  <2>1. done.binds \subseteq out.binds
    OBVIOUS
  <2>2. ASSUME NEW n \in DOMAIN out.next, n # f
        PROVE  \/ n \in DOMAIN rules[i] /\ out.next[n] = rules[i][n]
               \/ New(out.next[n], out.binds, b)
    BY <1>1, <2>1, <2>2 DEF OldOrNew, New
  <2>. QED
    BY <1>1, <1>5, <2>2 DEF OldOrNew
<1>7. ASSUME OneApart(done.next) PROVE OneApart(out.next)
  <2>1. ASSUME NEW n \in DOMAIN done.next, Transfer!Clash(done.next[n], e.rule)
        PROVE  done.next[n].addr # e.rule.addr /\ done.next[n].batch = e.rule.batch
    <3>1. e.rule.kind = "visitor" /\ done.next[n].kind = "visitor" /\ done.next[n].port = e.rule.port
      BY <2>1 DEF Transfer!Clash
    <3>2. ~Transfer!VisitorBindConflict(e.rule) /\ <<e.rule.addr, e.rule.port>> \notin done.binds
      BY <3>1 DEF e, Transfer!PortFree
    <3>3. ~(n \in DOMAIN rules[i] /\ done.next[n] = rules[i][n])
      BY <2>1, <3>2 DEF Transfer!VisitorBindConflict, Transfer!RuleNames
    <3>4. New(done.next[n], done.binds, b)
      BY <3>3 DEF OldOrNew
    <3>. QED
      BY <1>2, <3>1, <3>2, <3>4 DEF New
  <2>2. ASSUME NEW n \in DOMAIN out.next, NEW m \in DOMAIN out.next, n # m,
               Transfer!Clash(out.next[n], out.next[m])
        PROVE  out.next[n].addr # out.next[m].addr /\ out.next[n].batch = out.next[m].batch
    <3>1. CASE n = f
      BY <1>1, <2>1, <2>2, <3>1, ClashSymmetric
    <3>2. CASE m = f
      BY <1>1, <2>1, <2>2, <3>2
    <3>3. CASE n # f /\ m # f
      BY <1>1, <1>7, <2>2, <3>3 DEF OneApart
    <3>. QED
      BY <3>1, <3>2, <3>3
  <2>. QED
    BY <2>2 DEF OneApart
<1>. QED
  BY <1>4, <1>6, <1>7

\* So it is with any entry.
LEMMA OneEntry ==
    ASSUME NEW i \in Ids, NEW entries, NEW b, EntriesOf(entries, b),
           NEW k \in DOMAIN entries, NEW done, "next" \in DOMAIN done, "binds" \in DOMAIN done,
           Keeps(i, entries, done), OldOrNew(i, done, b)
    PROVE  LET out == Transfer!ApplyStep(done, entries[k])
           IN  /\ "next" \in DOMAIN out /\ "binds" \in DOMAIN out
               /\ Keeps(i, entries, out) /\ OldOrNew(i, out, b)
               /\ OneApart(done.next) => OneApart(out.next)
<1>. DEFINE e == entries[k]
            out == Transfer!ApplyStep(done, e)
<1>1. CASE e.action = "skip"
  <2>1. out = done
    BY <1>1 DEF Transfer!ApplyStep
  <2>. QED
    BY <2>1
<1>2. CASE e.action # "skip" /\ Transfer!NameFree(e, done.next) /\ Transfer!PortFree(e.rule, done.binds)
  <2>1. /\ "next" \in DOMAIN out /\ "binds" \in DOMAIN out
        /\ out.next = Transfer!Put(done.next, Transfer!Final(e), e.rule)
        /\ out.binds = done.binds \cup
              (IF e.rule.kind = "visitor" THEN {<<e.rule.addr, e.rule.port>>} ELSE {})
    BY <1>2 DEF Transfer!ApplyStep
  <2>. HIDE DEF out
  <2>2. /\ Keeps(i, entries, out) /\ OldOrNew(i, out, b)
        /\ OneApart(done.next) => OneApart(out.next)
    BY <1>2, <2>1, Accepted
  <2>. QED
    BY <2>1, <2>2 DEF out
<1>3. CASE e.action # "skip" /\ ~(Transfer!NameFree(e, done.next) /\ Transfer!PortFree(e.rule, done.binds))
  <2>1. out = [done EXCEPT !.refused = @ \cup {Transfer!Refusal(done, e)}]
    BY <1>3 DEF Transfer!ApplyStep
  <2>2. /\ "next" \in DOMAIN out /\ "binds" \in DOMAIN out
        /\ out.next = done.next /\ out.binds = done.binds
    BY <2>1
  <2>. HIDE DEF out
  <2>3. Keeps(i, entries, out) /\ OldOrNew(i, out, b)
    BY <2>2 DEF Keeps, OldOrNew
  <2>. QED
    BY <2>2, <2>3 DEF out
<1>. QED
  BY <1>1, <1>2, <1>3

\* So it is at the end of the batch.
LEMMA BatchFacts ==
    ASSUME NEW i \in Ids, NEW entries, NEW b, EntriesOf(entries, b)
    PROVE  LET done == Transfer!Applied(i, entries)[Len(entries)]
           IN  /\ Keeps(i, entries, done) /\ OldOrNew(i, done, b)
               /\ Transfer!Apart(rules) => OneApart(done.next)
<1>. DEFINE At(k) == Transfer!Applied(i, entries)[k]
            Right(k) == /\ "next" \in DOMAIN At(k) /\ "binds" \in DOMAIN At(k)
                        /\ Keeps(i, entries, At(k)) /\ OldOrNew(i, At(k), b)
                        /\ Transfer!Apart(rules) => OneApart(At(k).next)
            Wrong == {k \in 0..Len(entries) : ~Right(k)}
<1>1. Len(entries) \in Nat /\ DOMAIN entries = 1..Len(entries)
  BY DEF EntriesOf
<1>. HIDE DEF At
<1>2. ASSUME Wrong # {} PROVE FALSE
  <2>1. Wrong \subseteq Nat
    BY <1>1
  <2>2. PICK k \in Wrong : \A j \in Wrong : k <= j
    <3>. HIDE DEF Wrong
    <3>. QED
      BY <1>2, <2>1, Least
  <2>3. k \in 0..Len(entries) /\ ~Right(k)
    BY <2>2
  <2>4. CASE k = 0
    <3>1. At(0) = [next |-> rules[i], binds |-> {}, refused |-> {}]
      BY <1>1, <2>3, LoopTurns DEF At
    <3>2. "next" \in DOMAIN At(0) /\ "binds" \in DOMAIN At(0) /\ At(0).next = rules[i]
      BY <3>1
    <3>3. Keeps(i, entries, At(0)) /\ OldOrNew(i, At(0), b)
      BY <3>2 DEF Keeps, OldOrNew
    <3>4. Transfer!Apart(rules) => OneApart(rules[i])
      BY DEF OneApart, Transfer!Apart
    <3>. QED
      BY <2>3, <2>4, <3>2, <3>3, <3>4
  <2>5. CASE k # 0
    <3>1. k - 1 \in 0..Len(entries) /\ k \in DOMAIN entries
      BY <1>1, <2>3, <2>5
    <3>2. k - 1 \notin Wrong
      <4>. HIDE DEF Wrong
      <4>. QED
        BY <2>1, <2>2, <2>3, <1>1
    <3>3. Right(k - 1)
      BY <3>1, <3>2
    <3>4. At(k) = Transfer!ApplyStep(At(k - 1), entries[k])
      BY <1>1, <2>3, <2>5, LoopTurns DEF At
    <3>5. Right(k)
      BY <3>1, <3>3, <3>4, OneEntry
    <3>. QED
      BY <2>3, <3>5
  <2>. QED
    BY <2>4, <2>5
<1>3. Right(Len(entries))
  BY <1>1, <1>2
<1>. QED
  BY <1>3 DEF At

-----------------------------------------------------------------------------
(* The states of RulesTransfer.                                            *)

\* The rows of the preview, in order, each with an action the dialog offers.
Actions == {"create", "skip", "pair", "overwrite", "rename"}
RowsOf(rs) ==
    \E n \in Nat :
        /\ rs = [k \in 1..n |-> rs[k]]
        /\ \A k \in 1..n : "action" \in DOMAIN rs[k] /\ rs[k].action \in Actions

\* What is on its way to the daemon or back.
TransferRequest(r) ==
    /\ r.op = "import" => r.id \in Ids /\ \E b : EntriesOf(r.entries, b)
    /\ r.op = "parse" => /\ {"op", "text", "rows", "phase"} \subseteq DOMAIN r
                         /\ r.text \in DOMAIN Pastes /\ RowsOf(r.rows)

TransferInv ==
    /\ DOMAIN rules = Ids /\ active \in Ids
    /\ content \in DOMAIN Pastes \cup {""}
    /\ timer # Transfer!NoTimer => timer.text \in DOMAIN Pastes
    /\ RowsOf(rows)
    /\ \A r \in tRequests : TransferRequest(r)

LEMMA LenIs ==
    ASSUME NEW n \in Nat, NEW s, s = [k \in 1..n |-> s[k]]
    PROVE  Len(s) = n /\ DOMAIN s = 1..n
<1>1. s \in Seq({s[k] : k \in 1..n})
  BY SeqDef
<1>. QED
  BY <1>1, LenProperties

\* The entries RunImport sends of the rows.
LEMMA EntriesFacts ==
    ASSUME RowsOf(rows)
    PROVE  EntriesOf(Transfer!Entries, spent.imports + 1)
<1>1. PICK n \in Nat : /\ rows = [k \in 1..n |-> rows[k]]
                       /\ \A k \in 1..n : rows[k].action \in Actions
  BY DEF RowsOf
<1>. DEFINE es == Transfer!Entries
<1>2. DOMAIN rows = 1..n
  BY <1>1
<1>3. es = [k \in 1..n |-> Transfer!Entry(rows[k], spent.imports + 1)]
  BY <1>2 DEF Transfer!Entries
<1>4. ASSUME NEW k \in 1..n
      PROVE  /\ es[k].action \in {"create", "skip", "overwrite", "rename"}
             /\ es[k].rule.batch = spent.imports + 1
  <2>. DEFINE row == rows[k]
  <2>1. row.action \in Actions /\ es[k] = Transfer!Entry(row, spent.imports + 1)
    BY <1>1, <1>3, <1>4
  <2>. HIDE DEF row, es
  <2>. QED
    BY <2>1 DEF Transfer!Entry, Actions
<1>. HIDE DEF es
<1>5. Len(es) = n /\ DOMAIN es = 1..n
  BY <1>3, LenIs
<1>. QED
  BY <1>4, <1>5 DEF EntriesOf, es

\* The rows a preview has.
LEMMA ParsedFacts ==
    ASSUME NEW i, NEW text \in DOMAIN Pastes
    PROVE  RowsOf(Transfer!Parsed(i, text))
<1>. DEFINE items == Pastes[text]
            rs == Transfer!Parsed(i, text)
<1>1. Len(items) \in Nat /\ DOMAIN items = 1..Len(items)
  BY TransferAssumption, LenProperties
<1>2. rs = [k \in DOMAIN items |-> rs[k]]
  BY DEF Transfer!Parsed
<1>3. ASSUME NEW k \in DOMAIN items PROVE "action" \in DOMAIN rs[k] /\ rs[k].action \in Actions
  <2>1. /\ "action" \in DOMAIN rs[k]
        /\ rs[k].action = Transfer!DefaultAction(items[k].pairable,
                                                items[k].name \in Transfer!RuleNames(i))
    BY DEF Transfer!Parsed, Transfer!RowOf
  <2>. QED
    BY <2>1 DEF Transfer!DefaultAction, Actions
<1>. HIDE DEF items, rs
<1>. QED
  BY <1>1, <1>2, <1>3 DEF RowsOf, rs

LEMMA TransferInit ==
    ASSUME DialogInit
    PROVE  TransferInv
<1>1. /\ rules = StoredRules /\ active \in Ids /\ content = "" /\ timer = Transfer!NoTimer
      /\ rows = <<>> /\ tRequests = {}
  BY TransferAssumption DEF DialogInit, Transfer!Init
<1>2. RowsOf(<<>>)
  BY DEF RowsOf
<1>. QED
  BY <1>1, <1>2, TransferAssumption DEF TransferInv

\* A row patched is a row still.
LEMMA PatchedRows ==
    ASSUME RowsOf(rows), NEW k \in DOMAIN rows, NEW row, Transfer!PatchRow(k, row),
           "action" \in DOMAIN row, row.action \in Actions
    PROVE  RowsOf(rows')
<1>1. PICK n \in Nat : /\ rows = [j \in 1..n |-> rows[j]]
                       /\ \A j \in 1..n : "action" \in DOMAIN rows[j] /\ rows[j].action \in Actions
  BY DEF RowsOf
<1>2. rows' = [rows EXCEPT ![k] = [row EXCEPT !.edited = TRUE]]
  BY DEF Transfer!PatchRow
<1>3. k \in 1..n /\ rows'[k] = [row EXCEPT !.edited = TRUE]
  BY <1>1, <1>2
<1>4. "action" \in DOMAIN rows'[k] /\ rows'[k].action = row.action
  BY <1>3
<1>5. rows' = [j \in 1..n |-> rows'[j]]
  BY <1>1, <1>2
<1>6. ASSUME NEW j \in 1..n, j # k PROVE rows'[j] = rows[j]
  BY <1>1, <1>2, <1>6
<1>7. ASSUME NEW j \in 1..n PROVE "action" \in DOMAIN rows'[j] /\ rows'[j].action \in Actions
  BY <1>1, <1>4, <1>6
<1>. QED
  BY <1>5, <1>7 DEF RowsOf

\* Accepting every recommendation likewise.
LEMMA AcceptedRows ==
    ASSUME RowsOf(rows), Transfer!AcceptAll
    PROVE  RowsOf(rows')
<1>1. PICK n \in Nat : /\ rows = [j \in 1..n |-> rows[j]]
                       /\ \A j \in 1..n : "action" \in DOMAIN rows[j] /\ rows[j].action \in Actions
  BY DEF RowsOf
<1>2. rows' = [j \in 1..n |-> [rows[j] EXCEPT !.action =
                 Transfer!DefaultAction(rows[j].item.pairable, rows[j].conflict)]]
  BY <1>1 DEF Transfer!AcceptAll
<1>3. \A j \in 1..n : "action" \in DOMAIN rows'[j] /\ rows'[j].action \in Actions
  BY <1>1, <1>2 DEF Transfer!DefaultAction, Actions
<1>. QED
  BY <1>2, <1>3 DEF RowsOf

\* The dialog and the page around it.
LEMMA PageStep ==
    ASSUME TransferInv, Transfer!Page
    PROVE  TransferInv' /\ rules' = rules
<1>1. UNCHANGED <<rules, content, timer, rows>>
  BY DEF Transfer!Page, Transfer!SelectInstance, Transfer!Check, Transfer!Open, Transfer!Close
<1>2. active' \in Ids
  BY DEF TransferInv, Transfer!Page, Transfer!SelectInstance, Transfer!Check, Transfer!Open,
     Transfer!Close
<1>3. Transfer!Export(options).op = "export"
  BY DEF Transfer!Export
<1>4. \A r \in tRequests' : r \in tRequests \/ r = Transfer!Export(options)
  BY DEF Transfer!Page, Transfer!SelectInstance, Transfer!Check, Transfer!Open, Transfer!Close,
     Transfer!Ask
<1>. QED
  BY <1>1, <1>2, <1>3, <1>4 DEF TransferInv, RowsOf, TransferRequest, EntriesOf

LEMMA DialogStep ==
    ASSUME TransferInv, Transfer!Dialog
    PROVE  TransferInv' /\ rules' = rules
<1>1. rules' = rules /\ active' = active
  BY DEF Transfer!Dialog, Transfer!SwitchTab, Transfer!SetOption, Transfer!Type,
     Transfer!TimerFires, Transfer!Reparse, Transfer!PatchAction, Transfer!PatchName,
     Transfer!PatchBind, Transfer!PatchRow, Transfer!AcceptAll, Transfer!RunImport
<1>2. /\ content' \in DOMAIN Pastes \cup {""}
      /\ timer' # Transfer!NoTimer => timer'.text \in DOMAIN Pastes
  <2>1. ASSUME NEW text \in DOMAIN Pastes \cup {""}, Transfer!Type(text)
        PROVE  /\ content' \in DOMAIN Pastes \cup {""}
               /\ timer' # Transfer!NoTimer => timer'.text \in DOMAIN Pastes
    <3>1. content' = text
      BY <2>1 DEF Transfer!Type
    <3>2. CASE text = ""
      BY <2>1, <3>1, <3>2 DEF Transfer!Type
    <3>3. CASE text # ""
      <4>1. timer' = [id |-> active, text |-> text]
        BY <2>1, <3>3 DEF Transfer!Type
      <4>. QED
        BY <3>1, <3>3, <4>1
    <3>. QED
      BY <3>2, <3>3
  <2>2. CASE content' = content /\ (timer' = timer \/ timer' = Transfer!NoTimer)
    BY <2>2 DEF TransferInv
  <2>3. \/ \E text \in DOMAIN Pastes \cup {""} : Transfer!Type(text)
        \/ content' = content /\ (timer' = timer \/ timer' = Transfer!NoTimer)
    BY DEF Transfer!Dialog, Transfer!SwitchTab, Transfer!SetOption,
       Transfer!TimerFires, Transfer!Reparse, Transfer!PatchAction, Transfer!PatchName,
       Transfer!PatchBind, Transfer!PatchRow, Transfer!AcceptAll, Transfer!RunImport
  <2>. QED
    BY <2>1, <2>2, <2>3
<1>3. RowsOf(rows')
  <2>1. \/ rows' = rows \/ rows' = <<>>
        \/ Transfer!AcceptAll
        \/ \E k \in DOMAIN rows : \E row : /\ Transfer!PatchRow(k, row)
                                           /\ "action" \in DOMAIN row /\ row.action \in Actions
    <3>1. CASE \E k \in DOMAIN rows, a \in Actions : Transfer!PatchAction(k, a)
      <4>1. PICK k \in DOMAIN rows, a \in Actions : Transfer!PatchAction(k, a)
        BY <3>1
      <4>2. "action" \in DOMAIN rows[k]
        BY DEF TransferInv, RowsOf
      <4>3. "action" \in DOMAIN [rows[k] EXCEPT !.action = a] /\ [rows[k] EXCEPT !.action = a].action = a
        BY <4>2
      <4>. QED
        BY <4>1, <4>3 DEF Transfer!PatchAction
    <3>2. CASE \E k \in DOMAIN rows : \E n : Transfer!PatchName(k, n)
      <4>1. PICK k \in DOMAIN rows : \E n : Transfer!PatchName(k, n)
        BY <3>2
      <4>0. PICK n : Transfer!PatchName(k, n)
        BY <4>1
      <4>2. "action" \in DOMAIN rows[k] /\ rows[k].action \in Actions
        BY DEF TransferInv, RowsOf
      <4>3. /\ "action" \in DOMAIN [rows[k] EXCEPT !.name = n]
            /\ [rows[k] EXCEPT !.name = n].action = rows[k].action
        BY <4>2
      <4>. QED
        BY <4>0, <4>2, <4>3 DEF Transfer!PatchName
    <3>3. CASE \E k \in DOMAIN rows : \E addr, port : Transfer!PatchBind(k, addr, port)
      <4>1. PICK k \in DOMAIN rows : \E addr, port : Transfer!PatchBind(k, addr, port)
        BY <3>3
      <4>0. PICK addr, port : Transfer!PatchBind(k, addr, port)
        BY <4>1
      <4>2. "action" \in DOMAIN rows[k] /\ rows[k].action \in Actions
        BY DEF TransferInv, RowsOf
      <4>3. /\ "action" \in DOMAIN [rows[k] EXCEPT !.addr = addr, !.port = port]
            /\ [rows[k] EXCEPT !.addr = addr, !.port = port].action = rows[k].action
        BY <4>2
      <4>. QED
        BY <4>0, <4>2, <4>3 DEF Transfer!PatchBind
    <3>4. CASE \/ Transfer!SwitchTab \/ (\E o \in Transfer!Options : Transfer!SetOption(o))
               \/ (\E text \in DOMAIN Pastes \cup {""} : Transfer!Type(text))
               \/ Transfer!TimerFires \/ Transfer!Reparse \/ Transfer!RunImport
      BY <3>4 DEF Transfer!SwitchTab, Transfer!SetOption, Transfer!Type,
         Transfer!TimerFires, Transfer!Reparse, Transfer!RunImport
    <3>. QED
      BY <3>1, <3>2, <3>3, <3>4 DEF Transfer!Dialog, Actions
  <2>2. RowsOf(<<>>)
    BY DEF RowsOf
  <2>. QED
    BY <2>1, <2>2, PatchedRows, AcceptedRows DEF TransferInv
<1>4. \A r \in tRequests' :
         \/ r \in tRequests \/ r.op = "export"
         \/ r.op = "import" /\ r.id = active /\ r.entries = Transfer!Entries
         \/ \E text \in DOMAIN Pastes : \E i : r = Transfer!ParseOf(i, text)
  <2>1. CASE \/ Transfer!SwitchTab \/ (\E o \in Transfer!Options : Transfer!SetOption(o))
    BY <2>1 DEF Transfer!SwitchTab, Transfer!SetOption, Transfer!Reexport, Transfer!Ask, Transfer!Export
  <2>2. CASE Transfer!TimerFires
    BY <2>2 DEF TransferInv, Transfer!TimerFires, Transfer!Ask
  <2>3. CASE Transfer!Reparse
    BY <2>3 DEF TransferInv, Transfer!Reparse, Transfer!Ask
  <2>4. CASE Transfer!RunImport
    BY <2>4 DEF Transfer!RunImport, Transfer!Ask
  <2>5. CASE \/ \E text \in DOMAIN Pastes \cup {""} : Transfer!Type(text)
             \/ Transfer!AcceptAll
             \/ \E k, row : Transfer!PatchRow(k, row)
    BY <2>5 DEF Transfer!Type, Transfer!AcceptAll, Transfer!PatchRow
  <2>. QED
    BY <2>1, <2>2, <2>3, <2>4, <2>5
       DEF Transfer!Dialog, Transfer!PatchAction, Transfer!PatchName, Transfer!PatchBind
<1>5. ASSUME NEW r \in tRequests' PROVE TransferRequest(r)'
  <2>0. TransferRequest(r)
    <3>1. CASE r \in tRequests
      BY <3>1 DEF TransferInv
    <3>2. CASE r.op = "export"
      BY <3>2 DEF TransferRequest
    <3>3. CASE r.op = "import" /\ r.id = active /\ r.entries = Transfer!Entries
      BY <3>3, EntriesFacts DEF TransferInv, TransferRequest
    <3>4. CASE \E text \in DOMAIN Pastes : \E i : r = Transfer!ParseOf(i, text)
      BY <3>4 DEF TransferRequest, Transfer!ParseOf, RowsOf
    <3>. QED
      BY <1>4, <1>5, <3>1, <3>2, <3>3, <3>4
  <2>. QED
    BY <2>0 DEF TransferRequest, RowsOf, EntriesOf
<1>. QED
  BY <1>1, <1>2, <1>3, <1>5 DEF TransferInv, TransferRequest, RowsOf, EntriesOf

\* What an import does to the rules.
ImportOf(r) ==
    /\ r \in tRequests /\ r.op = "import"
    /\ rules' = [rules EXCEPT ![r.id] =
                    Transfer!Applied(r.id, r.entries)[Len(r.entries)].next]

LEMMA DaemonStep ==
    ASSUME TransferInv, Transfer!Daemon
    PROVE  TransferInv' /\ (rules' = rules \/ \E r : ImportOf(r))
<1>1. PICK r \in tRequests :
         \/ Transfer!DeliverExport(r) \/ Transfer!ServeParse(r) \/ Transfer!DeliverParse(r)
         \/ Transfer!Import(r) \/ Transfer!Fail(r)
  BY DEF Transfer!Daemon
<1>2. TransferRequest(r)
  BY DEF TransferInv
<1>3. UNCHANGED <<active, content, timer>>
  BY <1>1 DEF Transfer!DeliverExport, Transfer!ServeParse, Transfer!DeliverParse,
     Transfer!Import, Transfer!Fail
<1>4. rules' = rules \/ ImportOf(r)
  BY <1>1 DEF Transfer!DeliverExport, Transfer!ServeParse, Transfer!DeliverParse,
     Transfer!Import, Transfer!Fail, ImportOf
<1>5. DOMAIN rules' = Ids
  BY <1>4 DEF TransferInv, ImportOf
<1>6. RowsOf(rows')
  BY <1>1, <1>2 DEF Transfer!DeliverExport, Transfer!ServeParse, Transfer!DeliverParse,
     Transfer!Import, Transfer!Fail, TransferInv, TransferRequest, RowsOf
<1>7. ASSUME NEW q \in tRequests' PROVE TransferRequest(q)
  <2>1. CASE q \in tRequests
    BY <2>1 DEF TransferInv
  <2>2. CASE Transfer!ServeParse(r) /\ q = [r EXCEPT !.phase = "ok", !.rows = Transfer!Parsed(r.id, r.text)]
    <3>1. /\ r.op = "parse" /\ {"op", "text", "rows", "phase"} \subseteq DOMAIN r
          /\ r.text \in DOMAIN Pastes
      BY <1>2, <2>2 DEF Transfer!ServeParse, TransferRequest
    <3>2. /\ q.op = r.op /\ q.text = r.text /\ q.rows = Transfer!Parsed(r.id, r.text)
          /\ DOMAIN q = DOMAIN r
      BY <2>2, <3>1
    <3>. QED
      BY <3>1, <3>2, ParsedFacts DEF TransferRequest
  <2>. QED
    BY <1>1, <1>7, <2>1, <2>2 DEF Transfer!DeliverExport, Transfer!ServeParse,
       Transfer!DeliverParse, Transfer!Import, Transfer!Fail
<1>. QED
  BY <1>3, <1>4, <1>5, <1>6, <1>7 DEF TransferInv, TransferRequest, RowsOf, EntriesOf

\* A step of the dialog, or of the other places.
LEMMA TransferStep ==
    ASSUME TransferInv, [DialogNext]_dialogVars
    PROVE  TransferInv' /\ (rules' = rules \/ \E r : ImportOf(r))
<1>1. CASE UNCHANGED tVars
  BY <1>1 DEF tVars, TransferInv, RowsOf, TransferRequest, EntriesOf
<1>2. CASE Transfer!Next
  BY <1>2, PageStep, DialogStep, DaemonStep DEF Transfer!Next
<1>. QED
  BY <1>1, <1>2 DEF DialogNext, dialogVars

LEMMA ImportFacts ==
    ASSUME TransferInv, NEW r, ImportOf(r)
    PROVE  /\ r.id \in Ids /\ DOMAIN rules = Ids
           /\ \A i \in Ids : i # r.id => rules'[i] = rules[i]
           /\ \A n \in DOMAIN rules[r.id] :
                 /\ n \in DOMAIN rules'[r.id]
                 /\ \/ rules'[r.id][n] = rules[r.id][n]
                    \/ \E k \in DOMAIN r.entries :
                          r.entries[k].action = "overwrite" /\ r.entries[k].name = n
           /\ \A n \in DOMAIN rules'[r.id] :
                 \/ n \in DOMAIN rules[r.id] /\ rules'[r.id][n] = rules[r.id][n]
                 \/ rules'[r.id][n].kind = "visitor"
                       => ~Transfer!VisitorBindConflict(rules'[r.id][n])
           /\ Transfer!Apart(rules) => OneApart(rules'[r.id])
<1>1. PICK b : EntriesOf(r.entries, b)
  BY DEF TransferInv, TransferRequest, ImportOf
<1>2. r.id \in Ids /\ DOMAIN rules = Ids
  BY DEF TransferInv, TransferRequest, ImportOf
<1>. DEFINE done == Transfer!Applied(r.id, r.entries)[Len(r.entries)]
<1>3. /\ Keeps(r.id, r.entries, done) /\ OldOrNew(r.id, done, b)
      /\ Transfer!Apart(rules) => OneApart(done.next)
  BY <1>1, <1>2, BatchFacts
<1>4. rules' = [rules EXCEPT ![r.id] = done.next]
  BY DEF ImportOf
<1>. HIDE DEF done
<1>5. rules'[r.id] = done.next /\ \A i \in Ids : i # r.id => rules'[i] = rules[i]
  BY <1>2, <1>4
<1>. QED
  BY <1>2, <1>3, <1>5 DEF Keeps, OldOrNew, New

\* An import leaves visitors apart that were.
LEMMA ApartStep ==
    ASSUME TransferInv, [DialogNext]_dialogVars, Transfer!Apart(rules)
    PROVE  Transfer!Apart(rules')
<1>1. CASE rules' = rules
  BY <1>1
<1>2. ASSUME NEW r, ImportOf(r) PROVE Transfer!Apart(rules')
  <2>1. ASSUME NEW i \in Ids, NEW j \in Ids, NEW n \in DOMAIN rules'[i], NEW m \in DOMAIN rules'[j],
               Transfer!Clash(rules'[i][n], rules'[j][m]), ~(i = j /\ n = m)
        PROVE  /\ rules'[i][n].addr # rules'[j][m].addr
               /\ rules'[i][n].batch = rules'[j][m].batch
    <3>1. rules'[i][n].kind = "visitor" /\ rules'[j][m].kind = "visitor"
          /\ Transfer!Clash(rules'[j][m], rules'[i][n])
      BY <2>1, ClashSymmetric DEF Transfer!Clash
    <3>2. CASE i = r.id /\ j = r.id
      BY <1>2, <2>1, <3>2, ImportFacts DEF OneApart
    <3>3. CASE i # r.id /\ j # r.id
      BY <1>2, <2>1, <3>3, ImportFacts DEF Transfer!Apart
    <3>4. CASE i = r.id /\ j # r.id
      <4>1. rules'[j] = rules[j]
        BY <1>2, <3>4, ImportFacts
      <4>2. Transfer!VisitorBindConflict(rules'[i][n])
        BY <2>1, <3>1, <4>1 DEF Transfer!VisitorBindConflict, Transfer!RuleNames
      <4>3. n \in DOMAIN rules[i] /\ rules'[i][n] = rules[i][n]
        BY <1>2, <2>1, <3>1, <3>4, <4>2, ImportFacts
      <4>. QED
        BY <2>1, <3>4, <4>1, <4>3 DEF Transfer!Apart
    <3>5. CASE i # r.id /\ j = r.id
      <4>1. rules'[i] = rules[i]
        BY <1>2, <3>5, ImportFacts
      <4>2. Transfer!VisitorBindConflict(rules'[j][m])
        BY <2>1, <3>1, <4>1 DEF Transfer!VisitorBindConflict, Transfer!RuleNames
      <4>3. m \in DOMAIN rules[j] /\ rules'[j][m] = rules[j][m]
        BY <1>2, <2>1, <3>1, <3>5, <4>2, ImportFacts
      <4>. QED
        BY <2>1, <3>5, <4>1, <4>3 DEF Transfer!Apart
    <3>. QED
      BY <3>2, <3>3, <3>4, <3>5
  <2>. QED
    BY <2>1 DEF Transfer!Apart
<1>. QED
  BY <1>1, <1>2, TransferStep

LEMMA OverwriteStep ==
    ASSUME TransferInv, [DialogNext]_dialogVars
    PROVE  \A i \in Ids : \A n \in Transfer!RuleNames(i) :
              rules'[i] # rules[i] =>
                /\ n \in DOMAIN rules'[i]
                /\ rules'[i][n] = rules[i][n]
                     \/ \E r \in tRequests : r.op = "import" /\ r.id = i
                          /\ \E k \in DOMAIN r.entries :
                               r.entries[k].action = "overwrite" /\ r.entries[k].name = n
<1>1. CASE rules' = rules
  BY <1>1
<1>2. ASSUME NEW r, ImportOf(r), NEW i \in Ids, NEW n \in DOMAIN rules[i], rules'[i] # rules[i]
      PROVE  /\ n \in DOMAIN rules'[i]
             /\ rules'[i][n] = rules[i][n]
                  \/ \E q \in tRequests : q.op = "import" /\ q.id = i
                       /\ \E k \in DOMAIN q.entries :
                            q.entries[k].action = "overwrite" /\ q.entries[k].name = n
  <2>1. i = r.id
    BY <1>2, ImportFacts
  <2>2. /\ n \in DOMAIN rules'[i]
        /\ \/ rules'[i][n] = rules[i][n]
           \/ \E k \in DOMAIN r.entries :
                 r.entries[k].action = "overwrite" /\ r.entries[k].name = n
    BY <1>2, <2>1, ImportFacts
  <2>. QED
    BY <1>2, <2>1, <2>2 DEF ImportOf
<1>. QED
  BY <1>1, <1>2, TransferStep DEF Transfer!RuleNames

\* The states of RulesTransfer are well formed.
LEMMA AlwaysTransferInv == DialogSpec => []TransferInv
<1>1. DialogInit => TransferInv
  BY TransferInit
<1>2. TransferInv /\ [DialogNext]_dialogVars => TransferInv'
  BY TransferStep
<1>. QED
  BY <1>1, <1>2, PTL DEF DialogSpec

\* For every paste, edit and stale preview: when no two stored visitors overlap
\* at first, a visitor that an import adds overlaps none stored before it, and
\* no two of one import have one address and port (ApplyRuleImport, addVisitorOK).
THEOREM BindsStayDistinct ==
    ASSUME Transfer!Apart(StoredRules)
    PROVE  DialogSpec => []BindsDistinct
<1>1. DialogInit => Transfer!Apart(rules)
  BY DEF DialogInit, Transfer!Init
<1>2. TransferInv /\ Transfer!Apart(rules) /\ [DialogNext]_dialogVars => Transfer!Apart(rules)'
  BY ApartStep DEF Transfer!Apart
<1>3. Transfer!Apart(rules) => BindsDistinct
  BY DEF BindsDistinct, Transfer!BindsDistinct
<1>. QED
  BY <1>1, <1>2, <1>3, AlwaysTransferInv, PTL DEF DialogSpec

\* An import replaces a stored rule only where a row of it says "overwrite",
\* and removes none (ApplyRuleImport).
THEOREM OverwritesAreAsked == DialogSpec => OverwriteIsAsked
<1>1. TransferInv /\ [DialogNext]_dialogVars =>
         \A i \in Ids : \A n \in Transfer!RuleNames(i) :
              rules'[i] # rules[i] =>
                /\ n \in DOMAIN rules'[i]
                /\ rules'[i][n] = rules[i][n]
                     \/ \E r \in tRequests : r.op = "import" /\ r.id = i
                          /\ \E k \in DOMAIN r.entries :
                               r.entries[k].action = "overwrite" /\ r.entries[k].name = n
  BY OverwriteStep
<1>. QED
  BY <1>1, AlwaysTransferInv, PTL DEF DialogSpec, OverwriteIsAsked, Transfer!OverwriteIsAsked

-----------------------------------------------------------------------------
(* The secrets of the channels.                                            *)

\* What is on its way: a channel to be saved has a field for the secret, and
\* so has every channel listed.
BackupRequest(r) ==
    /\ {"op", "phase"} \subseteq DOMAIN r
    /\ r.op = "saveChannel" => "input" \in DOMAIN r /\ "secret" \in DOMAIN r.input
    /\ r.op = "channels" /\ r.phase = "ok" =>
          \A i \in DOMAIN r.channels : "secret" \in DOMAIN r.channels[i]

BackupInv ==
    /\ \A i \in DOMAIN chans :
          /\ i \in Backup!ChanIds /\ "secret" \in DOMAIN chans[i]
          /\ i \in DOMAIN typed /\ chans[i].secret = typed[i]
    /\ \A i \in DOMAIN channels : "secret" \in DOMAIN channels[i]
    /\ "form" \in DOMAIN chModal /\ "secret" \in DOMAIN chModal.form
    /\ \A r \in bRequests : BackupRequest(r)

LEMMA BackupInit ==
    ASSUME DialogInit
    PROVE  BackupInv
<1>1. /\ chans = InitialChannels /\ channels = Backup!Empty /\ chModal = Backup!ClosedChannel
      /\ typed = [i \in DOMAIN InitialChannels |-> InitialChannels[i].secret]
      /\ bRequests = {Backup!Reload("channels"), Backup!Reload("schedules"), Backup!Reload("runs")}
  BY DEF DialogInit, Backup!Init
<1>2. ASSUME NEW i \in DOMAIN chans
      PROVE  /\ i \in Backup!ChanIds /\ "secret" \in DOMAIN chans[i]
             /\ i \in DOMAIN typed /\ chans[i].secret = typed[i]
  BY <1>1, BackupAssumption DEF Backup!ChanIds
<1>3. "form" \in DOMAIN chModal /\ "secret" \in DOMAIN chModal.form /\ DOMAIN channels = {}
  BY <1>1 DEF Backup!ClosedChannel, Backup!NoChannel, Backup!Empty
<1>4. ASSUME NEW r \in bRequests PROVE BackupRequest(r)
  BY <1>1 DEF BackupRequest, Backup!Reload
<1>. QED
  BY <1>2, <1>3, <1>4 DEF BackupInv

\* An answer is well formed, when it is not to a list.
LEMMA Answered ==
    ASSUME NEW r, BackupRequest(r), NEW phase, r.op = "channels" => phase # "ok"
    PROVE  BackupRequest([r EXCEPT !.phase = phase])
<1>. DEFINE q == [r EXCEPT !.phase = phase]
<1>1. /\ DOMAIN q = DOMAIN r /\ q.op = r.op /\ q.phase = phase
      /\ r.op = "saveChannel" => q.input = r.input
  BY DEF BackupRequest
<1>. HIDE DEF q
<1>2. BackupRequest(q)
  BY <1>1 DEF BackupRequest
<1>. QED
  BY <1>2 DEF q

\* Merging the secrets keeps or replaces one.
LEMMA MergedSecret ==
    ASSUME NEW old, NEW input, "secret" \in DOMAIN input
    PROVE  /\ "secret" \in DOMAIN Backup!Merged(old, input)
           /\ Backup!Merged(old, input).secret =
                 IF input.secret = "" /\ old.kind = input.kind THEN old.secret ELSE input.secret
BY DEF Backup!Merged

\* What a step that changes no channel has to show.
LEMMA Frame ==
    ASSUME BackupInv, UNCHANGED <<chans, typed, channels>>,
           "form" \in DOMAIN chModal', "secret" \in DOMAIN chModal'.form,
           \A r \in bRequests' : r \in bRequests \/ BackupRequest(r)
    PROVE  BackupInv'
<1>1. \A r \in bRequests' : BackupRequest(r)
  BY DEF BackupInv
<1>2. \A i \in DOMAIN chans' :
         /\ i \in Backup!ChanIds /\ "secret" \in DOMAIN chans'[i]
         /\ i \in DOMAIN typed' /\ chans'[i].secret = typed'[i]
  BY DEF BackupInv
<1>3. \A i \in DOMAIN channels' : "secret" \in DOMAIN channels'[i]
  BY DEF BackupInv
<1>. QED
  BY <1>1, <1>2, <1>3 DEF BackupInv, BackupRequest, Backup!ChanIds

\* A request sent that saves no channel.
LEMMA PlainRequest ==
    ASSUME NEW r, {"op", "phase"} \subseteq DOMAIN r, r.phase = "sent", r.op # "saveChannel"
    PROVE  BackupRequest(r)
BY DEF BackupRequest

\* What the user does changes no channel.
LEMMA UserStep ==
    ASSUME BackupInv, Backup!User
    PROVE  BackupInv'
<1>1. ASSUME NEW i, NEW f, Backup!OpenChannel(i, f), "secret" \in DOMAIN f
      PROVE  BackupInv'
  <2>1. /\ UNCHANGED <<chans, typed, channels, bRequests>>
        /\ chModal' = [open |-> TRUE, editing |-> i, form |-> f]
    BY <1>1 DEF Backup!OpenChannel, Backup!daemonVars, Backup!listVars
  <2>2. "form" \in DOMAIN chModal' /\ chModal'.form = f
    BY <2>1
  <2>. QED
    BY <1>1, <2>1, <2>2, Frame
<1>2. CASE Backup!CloseChannel
  <2>1. UNCHANGED <<chans, typed, channels, bRequests>> /\ chModal' = Backup!ClosedChannel
    BY <1>2 DEF Backup!CloseChannel, Backup!daemonVars, Backup!listVars
  <2>2. "form" \in DOMAIN chModal' /\ "secret" \in DOMAIN chModal'.form
    BY <2>1 DEF Backup!ClosedChannel, Backup!NoChannel
  <2>. QED
    BY <2>1, <2>2, Frame
<1>3. ASSUME NEW f, Backup!TypeChannel(f), "secret" \in DOMAIN f
      PROVE  BackupInv'
  <2>1. UNCHANGED <<chans, typed, channels, bRequests>> /\ chModal' = [chModal EXCEPT !.form = f]
    BY <1>3 DEF Backup!TypeChannel, Backup!daemonVars, Backup!listVars
  <2>2. "form" \in DOMAIN chModal' /\ chModal'.form = f
    BY <2>1 DEF BackupInv
  <2>. QED
    BY <1>3, <2>1, <2>2, Frame
<1>4. ASSUME NEW r, BackupRequest(r), UNCHANGED <<chans, typed, channels, chModal>>,
             bRequests' = bRequests \cup {r}
      PROVE  BackupInv'
  BY <1>4, Frame DEF BackupInv
<1>5. CASE Backup!SaveChannel
  <2>. DEFINE r == [op |-> "saveChannel", phase |-> "sent", id |-> chModal.editing,
                    input |-> chModal.form]
  <2>1. r.op = "saveChannel" /\ r.phase = "sent" /\ r.input = chModal.form
        /\ {"op", "phase", "input"} \subseteq DOMAIN r
    OBVIOUS
  <2>2. UNCHANGED <<chans, typed, channels, chModal>> /\ bRequests' = bRequests \cup {r}
    BY <1>5 DEF Backup!SaveChannel, Backup!Ask, Backup!daemonVars, Backup!listVars
  <2>. HIDE DEF r
  <2>3. BackupRequest(r)
    BY <2>1 DEF BackupRequest, BackupInv
  <2>. QED
    BY <1>4, <2>2, <2>3
<1>6. ASSUME NEW i, Backup!DeleteChannel(i) PROVE BackupInv'
  <2>. DEFINE r == [op |-> "deleteChannel", phase |-> "sent", id |-> i]
  <2>1. r.op = "deleteChannel" /\ r.phase = "sent" /\ {"op", "phase"} \subseteq DOMAIN r
    OBVIOUS
  <2>2. UNCHANGED <<chans, typed, channels, chModal>> /\ bRequests' = bRequests \cup {r}
    BY <1>6 DEF Backup!DeleteChannel, Backup!Ask, Backup!daemonVars, Backup!listVars
  <2>. HIDE DEF r
  <2>. QED
    BY <1>4, <2>1, <2>2, PlainRequest
<1>7. CASE \/ \E i : Backup!OpenSchedule(i)
           \/ \E c, on : Backup!TypeSchedule(c, on)
           \/ Backup!CloseRestore
  <2>1. UNCHANGED <<chans, typed, channels, chModal, bRequests>>
    BY <1>7 DEF Backup!OpenSchedule, Backup!TypeSchedule, Backup!CloseRestore,
       Backup!daemonVars, Backup!listVars
  <2>. QED
    BY <2>1, Frame DEF BackupInv
<1>8. CASE Backup!SaveSchedule
  <2>. DEFINE r == [op |-> "saveSchedule", phase |-> "sent", id |-> scModal.editing,
                    form |-> scModal.form]
  <2>1. r.op = "saveSchedule" /\ r.phase = "sent" /\ {"op", "phase"} \subseteq DOMAIN r
    OBVIOUS
  <2>2. UNCHANGED <<chans, typed, channels, chModal>> /\ bRequests' = bRequests \cup {r}
    BY <1>8 DEF Backup!SaveSchedule, Backup!Ask, Backup!daemonVars, Backup!listVars
  <2>. HIDE DEF r
  <2>. QED
    BY <1>4, <2>1, <2>2, PlainRequest
<1>9. ASSUME NEW op \in {"toggle", "run", "deleteSchedule"}, NEW i, Backup!OnSchedule(op, i)
      PROVE  BackupInv'
  <2>. DEFINE r == [op |-> op, phase |-> "sent", id |-> i, shown |-> schedules[i].on]
  <2>1. r.op = op /\ r.phase = "sent" /\ {"op", "phase"} \subseteq DOMAIN r
    OBVIOUS
  <2>2. UNCHANGED <<chans, typed, channels, chModal>> /\ bRequests' = bRequests \cup {r}
    BY <1>9 DEF Backup!OnSchedule, Backup!Ask, Backup!daemonVars, Backup!listVars
  <2>. HIDE DEF r
  <2>3. op # "saveChannel"
    OBVIOUS
  <2>. QED
    BY <1>4, <2>1, <2>2, <2>3, PlainRequest
<1>10. ASSUME NEW c, Backup!Load(c) PROVE BackupInv'
  <2>. DEFINE r == [op |-> "objects", phase |-> "sent", id |-> c]
  <2>1. r.op = "objects" /\ r.phase = "sent" /\ {"op", "phase"} \subseteq DOMAIN r
    OBVIOUS
  <2>2. UNCHANGED <<chans, typed, channels, chModal>> /\ bRequests' = bRequests \cup {r}
    BY <1>10 DEF Backup!Load, Backup!Ask, Backup!daemonVars, Backup!listVars
  <2>. HIDE DEF r
  <2>. QED
    BY <1>4, <2>1, <2>2, PlainRequest
<1>11. CASE Backup!Restore
  <2>. DEFINE r == [op |-> "restore", phase |-> "sent", id |-> restore.chan, of |-> restore.objects]
  <2>1. r.op = "restore" /\ r.phase = "sent" /\ {"op", "phase"} \subseteq DOMAIN r
    OBVIOUS
  <2>2. UNCHANGED <<chans, typed, channels, chModal>> /\ bRequests' = bRequests \cup {r}
    BY <1>11 DEF Backup!Restore, Backup!Ask, Backup!daemonVars, Backup!listVars
  <2>. HIDE DEF r
  <2>. QED
    BY <1>4, <2>1, <2>2, PlainRequest
<1>12. CASE Backup!RefreshRuns
  <2>. DEFINE r == [op |-> "runs", phase |-> "sent"]
  <2>1. r.op = "runs" /\ r.phase = "sent" /\ {"op", "phase"} \subseteq DOMAIN r
    OBVIOUS
  <2>2. UNCHANGED <<chans, typed, channels, chModal>> /\ bRequests' = bRequests \cup {r}
    BY <1>12 DEF Backup!RefreshRuns, Backup!Reload, Backup!Ask, Backup!daemonVars,
       Backup!pageVars, Backup!listVars
  <2>. HIDE DEF r
  <2>. QED
    BY <1>4, <2>1, <2>2, PlainRequest
<1>13. "secret" \in DOMAIN Backup!NoChannel
  BY DEF Backup!NoChannel
<1>14. \A i \in DOMAIN channels : "secret" \in DOMAIN Backup!FormOf(channels[i])
  BY DEF Backup!FormOf, BackupInv
<1>15. \A kind, addr, secret : "secret" \in DOMAIN [kind |-> kind, addr |-> addr, secret |-> secret]
  OBVIOUS
<1>. QED
  BY <1>1, <1>2, <1>3, <1>5, <1>6, <1>7, <1>8, <1>9, <1>10, <1>11, <1>12, <1>13, <1>14, <1>15
     DEF Backup!User, Backup!OpenRestore, Backup!PickChannel

\* An answer on its way.
LEMMA AnswerStep ==
    ASSUME BackupInv, NEW r \in bRequests, NEW phase, r.op = "channels" => phase # "ok",
           Backup!Answer(r, phase)
    PROVE  \A q \in bRequests' : q \in bRequests \/ BackupRequest(q)
<1>1. BackupRequest([r EXCEPT !.phase = phase])
  BY Answered DEF BackupInv
<1>. QED
  BY <1>1 DEF Backup!Answer

\* The daemon saves a channel: a blank secret keeps the one typed before.
LEMMA SaveStep ==
    ASSUME BackupInv, NEW r \in bRequests, Backup!ServeSaveChannel(r)
    PROVE  BackupInv'
<1>. DEFINE id == IF r.id = "" THEN NewChannel ELSE r.id
            keeps == r.id \in DOMAIN chans /\ chans[r.id].kind = r.input.kind /\ r.input.secret = ""
            new == IF r.id = "" THEN r.input ELSE Backup!Merged(chans[r.id], r.input)
            last == IF keeps THEN typed[id] ELSE r.input.secret
<1>1. UNCHANGED <<channels, chModal>> /\ r.op = "saveChannel"
  BY DEF Backup!ServeSaveChannel, Backup!pageVars, Backup!listVars
<1>2. \A q \in bRequests' : q \in bRequests \/ BackupRequest(q)
  BY <1>1, AnswerStep DEF Backup!ServeSaveChannel
<1>3. "secret" \in DOMAIN r.input
  BY <1>1 DEF BackupInv, BackupRequest
<1>4. CASE r.id # "" /\ r.id \notin DOMAIN chans
  <2>1. UNCHANGED <<chans, typed>>
    BY <1>4 DEF Backup!ServeSaveChannel
  <2>. QED
    BY <1>1, <1>2, <2>1, Frame DEF BackupInv
<1>5. CASE ~(r.id # "" /\ r.id \notin DOMAIN chans)
  <2>1. chans' = Backup!Put(chans, id, new) /\ typed' = Backup!Put(typed, id, last)
    BY <1>5 DEF Backup!ServeSaveChannel
  <2>2. id \in Backup!ChanIds
    BY <1>5 DEF BackupInv, Backup!ChanIds
  <2>3. "" \notin DOMAIN chans
    BY BackupAssumption DEF BackupInv, Backup!ChanIds
  <2>4. "secret" \in DOMAIN new /\ new.secret = last
    <3>1. CASE r.id = ""
      <4>1. new = r.input /\ ~keeps /\ last = r.input.secret
        BY <2>3, <3>1
      <4>. QED
        BY <1>3, <4>1
    <3>2. CASE r.id # ""
      <4>1. r.id \in DOMAIN chans /\ id = r.id /\ new = Backup!Merged(chans[r.id], r.input)
        BY <1>5, <3>2
      <4>2. chans[r.id].secret = typed[r.id]
        BY <4>1 DEF BackupInv
      <4>3. /\ "secret" \in DOMAIN Backup!Merged(chans[r.id], r.input)
            /\ Backup!Merged(chans[r.id], r.input).secret =
                  IF r.input.secret = "" /\ chans[r.id].kind = r.input.kind
                  THEN chans[r.id].secret ELSE r.input.secret
        BY <1>3, MergedSecret
      <4>4. last = IF r.input.secret = "" /\ chans[r.id].kind = r.input.kind
                   THEN typed[r.id] ELSE r.input.secret
        BY <4>1
      <4>. HIDE DEF new, id, last
      <4>. QED
        BY <4>1, <4>2, <4>3, <4>4
    <3>. QED
      BY <3>1, <3>2
  <2>. HIDE DEF id, new, last
  <2>5. /\ DOMAIN chans' = DOMAIN chans \cup {id} /\ DOMAIN typed' = DOMAIN typed \cup {id}
        /\ chans'[id] = new /\ typed'[id] = last
        /\ \A i \in DOMAIN chans : i # id => chans'[i] = chans[i]
        /\ \A i \in DOMAIN typed : i # id => typed'[i] = typed[i]
    BY <2>1 DEF Backup!Put
  <2>6. ASSUME NEW i \in DOMAIN chans'
        PROVE  /\ i \in Backup!ChanIds /\ "secret" \in DOMAIN chans'[i]
               /\ i \in DOMAIN typed' /\ chans'[i].secret = typed'[i]
    <3>1. CASE i = id
      BY <2>2, <2>4, <2>5, <3>1
    <3>2. CASE i # id
      BY <2>5, <3>2 DEF BackupInv
    <3>. QED
      BY <3>1, <3>2
  <2>7. \A q \in bRequests' : BackupRequest(q)
    BY <1>2 DEF BackupInv
  <2>. QED
    BY <1>1, <2>6, <2>7 DEF BackupInv, BackupRequest, Backup!ChanIds
<1>. QED
  BY <1>4, <1>5

\* The daemon restores the archive: its channels have no secret, and keep the
\* one stored for a channel of the same kind.
LEMMA RestoreStep ==
    ASSUME BackupInv, NEW r \in bRequests, Backup!ServeRestore(r)
    PROVE  BackupInv'
<1>1. UNCHANGED <<channels, chModal>> /\ r.op = "restore"
  BY DEF Backup!ServeRestore, Backup!pageVars, Backup!listVars
<1>2. \A q \in bRequests' : q \in bRequests \/ BackupRequest(q)
  BY <1>1, AnswerStep DEF Backup!ServeRestore
<1>3. CASE r.id \notin DOMAIN chans
  <2>1. UNCHANGED <<chans, typed>>
    BY <1>3 DEF Backup!ServeRestore
  <2>. QED
    BY <1>1, <1>2, <2>1, Frame DEF BackupInv
<1>4. CASE r.id \in DOMAIN chans
  <2>. DEFINE old(i) == Backup!Archived[i]
  <2>1. /\ DOMAIN Backup!Archived = DOMAIN InitialChannels
        /\ \A i \in DOMAIN InitialChannels : "secret" \in DOMAIN old(i) /\ old(i).secret = ""
    BY BackupAssumption DEF Backup!Archived
  <2>. HIDE DEF old
  <2>2. /\ chans' = [i \in DOMAIN Backup!Archived |->
                        IF i \in DOMAIN chans THEN Backup!Merged(chans[i], old(i)) ELSE old(i)]
        /\ typed' = [i \in DOMAIN Backup!Archived |->
                        IF i \in DOMAIN chans /\ chans[i].kind = old(i).kind THEN typed[i] ELSE ""]
    BY <1>4 DEF Backup!ServeRestore, old
  <2>3. ASSUME NEW i \in DOMAIN chans'
        PROVE  /\ i \in Backup!ChanIds /\ "secret" \in DOMAIN chans'[i]
               /\ i \in DOMAIN typed' /\ chans'[i].secret = typed'[i]
    <3>1. i \in DOMAIN InitialChannels /\ i \in DOMAIN typed' /\ i \in Backup!ChanIds
      BY <2>1, <2>2 DEF Backup!ChanIds
    <3>2. CASE i \in DOMAIN chans
      <4>1. /\ chans'[i] = Backup!Merged(chans[i], old(i)) /\ chans[i].secret = typed[i]
            /\ typed'[i] = IF chans[i].kind = old(i).kind THEN typed[i] ELSE ""
        BY <2>1, <2>2, <3>1, <3>2 DEF BackupInv
      <4>2. "secret" \in DOMAIN old(i) /\ old(i).secret = ""
        BY <2>1, <3>1
      <4>3. /\ "secret" \in DOMAIN Backup!Merged(chans[i], old(i))
            /\ Backup!Merged(chans[i], old(i)).secret =
                  IF old(i).secret = "" /\ chans[i].kind = old(i).kind
                  THEN chans[i].secret ELSE old(i).secret
        BY <4>2, MergedSecret
      <4>. QED
        BY <3>1, <4>1, <4>2, <4>3
    <3>3. CASE i \notin DOMAIN chans
      <4>1. chans'[i] = old(i) /\ typed'[i] = ""
        BY <2>1, <2>2, <3>1, <3>3
      <4>. QED
        BY <2>1, <3>1, <4>1
    <3>. QED
      BY <3>2, <3>3
  <2>4. \A q \in bRequests' : BackupRequest(q)
    BY <1>2 DEF BackupInv
  <2>. QED
    BY <1>1, <2>3, <2>4 DEF BackupInv, BackupRequest, Backup!ChanIds
<1>. QED
  BY <1>3, <1>4

\* What else the daemon does changes no secret.
LEMMA BackupDaemonStep ==
    ASSUME BackupInv, Backup!Daemon
    PROVE  BackupInv'
<1>1. ASSUME NEW r \in bRequests, Backup!ServeList(r) PROVE BackupInv'
  <2>1. UNCHANGED <<chans, typed, channels, chModal>> /\ bRequests' = (bRequests \ {r}) \cup {Backup!Listed(r.op)}
    BY <1>1 DEF Backup!ServeList, Backup!daemonVars, Backup!pageVars, Backup!listVars
  <2>. DEFINE q == Backup!Listed(r.op)
  <2>2. {"op", "phase"} \subseteq DOMAIN q /\ q.op = r.op
    BY DEF Backup!Listed
  <2>3. r.op = "channels" => q.channels = [i \in DOMAIN chans |-> [chans[i] EXCEPT !.secret = ""]]
    BY DEF Backup!Listed
  <2>4. r.op # "saveChannel"
    BY <1>1 DEF Backup!ServeList
  <2>. HIDE DEF q
  <2>5. ASSUME r.op = "channels", NEW i \in DOMAIN q.channels
        PROVE  "secret" \in DOMAIN q.channels[i]
    <3>1. i \in DOMAIN chans /\ q.channels[i] = [chans[i] EXCEPT !.secret = ""]
      BY <2>3, <2>5
    <3>2. "secret" \in DOMAIN chans[i]
      BY <3>1 DEF BackupInv
    <3>. QED
      BY <3>1, <3>2
  <2>6. BackupRequest(q)
    BY <2>2, <2>4, <2>5 DEF BackupRequest
  <2>. QED
    BY <2>1, <2>6, Frame DEF BackupInv, q
<1>2. ASSUME NEW r \in bRequests, Backup!ServeDeleteChannel(r) PROVE BackupInv'
  <2>1. UNCHANGED <<typed, channels, chModal>> /\ r.op = "deleteChannel"
    BY <1>2 DEF Backup!ServeDeleteChannel, Backup!pageVars, Backup!listVars
  <2>2. \A q \in bRequests' : q \in bRequests \/ BackupRequest(q)
    BY <1>2, <2>1, AnswerStep DEF Backup!ServeDeleteChannel
  <2>3. chans' = chans \/ chans' = [i \in DOMAIN chans \ {r.id} |-> chans[i]]
    BY <1>2 DEF Backup!ServeDeleteChannel
  <2>4. \A i \in DOMAIN chans' :
           /\ i \in Backup!ChanIds /\ "secret" \in DOMAIN chans'[i]
           /\ i \in DOMAIN typed' /\ chans'[i].secret = typed'[i]
    BY <2>1, <2>3 DEF BackupInv
  <2>5. \A q \in bRequests' : BackupRequest(q)
    BY <2>2 DEF BackupInv
  <2>. QED
    BY <2>1, <2>4, <2>5 DEF BackupInv, BackupRequest, Backup!ChanIds
<1>3. ASSUME NEW r \in bRequests,
             \/ Backup!ServeSchedule(r) \/ Backup!ServeRun(r) \/ Backup!RefuseRun(r)
             \/ Backup!ServeObjects(r) \/ Backup!Lose(r)
      PROVE  BackupInv'
  <2>1. UNCHANGED <<chans, typed, channels, chModal>>
    BY <1>3 DEF Backup!ServeSchedule, Backup!ServeRun, Backup!Launch, Backup!RefuseRun,
       Backup!ServeObjects, Backup!Lose, Backup!daemonVars, Backup!pageVars, Backup!listVars
  <2>2. \E phase : Backup!Answer(r, phase) /\ (r.op = "channels" => phase # "ok")
    BY <1>3 DEF Backup!ServeSchedule, Backup!ServeRun, Backup!RefuseRun,
       Backup!ServeObjects, Backup!Lose
  <2>. QED
    BY <2>1, <2>2, AnswerStep, Frame DEF BackupInv
<1>4. ASSUME NEW i \in Backup!SchedIds, Backup!CronFires(i) \/ Backup!Job(i) PROVE BackupInv'
  <2>1. UNCHANGED <<chans, typed, channels, chModal, bRequests>>
    BY <1>4 DEF Backup!CronFires, Backup!Launch, Backup!Job, Backup!JobStep, Backup!pageVars,
       Backup!listVars
  <2>. QED
    BY <2>1, Frame DEF BackupInv
<1>. QED
  BY <1>1, <1>2, <1>3, <1>4, SaveStep, RestoreStep DEF Backup!Daemon

\* Answers and events on the page.
LEMMA ArriveStep ==
    ASSUME BackupInv, Backup!Arrive
    PROVE  BackupInv'
<1>1. ASSUME NEW list \in {"channels", "schedules", "runs"} PROVE BackupRequest(Backup!Reload(list))
  <2>. DEFINE r == Backup!Reload(list)
  <2>1. r.op = list /\ r.phase = "sent" /\ {"op", "phase"} \subseteq DOMAIN r
    BY DEF Backup!Reload
  <2>. HIDE DEF r
  <2>2. BackupRequest(r)
    BY <2>1, PlainRequest
  <2>. QED
    BY <2>2 DEF r
<1>2. ASSUME NEW r \in bRequests, NEW more, more \subseteq {"channels", "schedules", "runs"},
             Backup!Swap(r, more)
      PROVE  \A q \in bRequests' : q \in bRequests \/ BackupRequest(q)
  BY <1>1, <1>2 DEF Backup!Swap
<1>3. ASSUME NEW r \in bRequests, Backup!DeliverList(r) PROVE BackupInv'
  <2>1. UNCHANGED <<chans, typed, chModal>> /\ Backup!Swap(r, {})
    BY <1>3 DEF Backup!DeliverList, Backup!daemonVars
  <2>2. \A i \in DOMAIN channels' : "secret" \in DOMAIN channels'[i]
    BY <1>3 DEF Backup!DeliverList, BackupInv, BackupRequest
  <2>3. \A q \in bRequests' : BackupRequest(q)
    BY <2>1, <1>2 DEF BackupInv
  <2>4. \A i \in DOMAIN chans' :
           /\ i \in Backup!ChanIds /\ "secret" \in DOMAIN chans'[i]
           /\ i \in DOMAIN typed' /\ chans'[i].secret = typed'[i]
    BY <2>1 DEF BackupInv
  <2>. QED
    BY <2>1, <2>2, <2>3, <2>4 DEF BackupInv, BackupRequest, Backup!ChanIds
<1>4. ASSUME NEW r \in bRequests, Backup!DeliverSave(r) PROVE BackupInv'
  <2>1. /\ UNCHANGED <<chans, typed, channels>>
        /\ chModal' = chModal \/ chModal' = Backup!ClosedChannel
        /\ Backup!Swap(r, {IF r.op = "saveChannel" THEN "channels" ELSE "schedules"})
    BY <1>4 DEF Backup!DeliverSave, Backup!daemonVars, Backup!listVars
  <2>2. LET closed == Backup!ClosedChannel
        IN  "form" \in DOMAIN closed /\ "secret" \in DOMAIN closed.form
    BY DEF Backup!ClosedChannel, Backup!NoChannel
  <2>3. "form" \in DOMAIN chModal' /\ "secret" \in DOMAIN chModal'.form
    BY <2>1, <2>2 DEF BackupInv
  <2>. QED
    BY <1>2, <2>1, <2>3, Frame
<1>5. ASSUME NEW r \in bRequests,
             Backup!DeliverCommand(r) \/ Backup!DeliverObjects(r) \/ Backup!DeliverFailure(r)
      PROVE  BackupInv'
  <2>1. UNCHANGED <<chans, typed, channels, chModal>>
    BY <1>5 DEF Backup!DeliverCommand, Backup!DeliverObjects, Backup!DeliverFailure,
       Backup!daemonVars, Backup!pageVars, Backup!listVars
  <2>2. \E more : more \subseteq {"channels", "schedules", "runs"} /\ Backup!Swap(r, more)
    <3>1. CASE Backup!DeliverCommand(r)
      <4>. DEFINE more == CASE r.op = "deleteChannel" -> {"channels"}
                            [] r.op = "restore" -> {"channels", "schedules", "runs"}
                            [] OTHER -> {"schedules"}
      <4>1. Backup!Swap(r, more)
        BY <3>1 DEF Backup!DeliverCommand
      <4>2. more \subseteq {"channels", "schedules", "runs"}
        OBVIOUS
      <4>. HIDE DEF more
      <4>. QED
        BY <4>1, <4>2
    <3>2. CASE Backup!DeliverObjects(r) \/ Backup!DeliverFailure(r)
      BY <3>2 DEF Backup!DeliverObjects, Backup!DeliverFailure
    <3>. QED
      BY <1>5, <3>1, <3>2
  <2>. QED
    BY <1>2, <2>1, <2>2, Frame DEF BackupInv
<1>6. CASE Backup!HearRun
  <2>1. UNCHANGED <<chans, typed, channels, chModal>>
    BY <1>6 DEF Backup!HearRun, Backup!daemonVars, Backup!pageVars, Backup!listVars
  <2>2. bRequests' = bRequests \cup {Backup!Reload("schedules"), Backup!Reload("runs")}
    BY <1>6 DEF Backup!HearRun, Backup!Ask
  <2>. QED
    BY <1>1, <2>1, <2>2, Frame DEF BackupInv
<1>. QED
  BY <1>3, <1>4, <1>5, <1>6 DEF Backup!Arrive

\* The secret the daemon keeps for a channel is the one last typed for it in
\* its kind, through blank fields, changes of kind and restores
\* (MergeChannelSecrets, buildChannelInput).
THEOREM SecretsAreLastTyped == DialogSpec => []SecretIsLastTyped
<1>1. DialogInit => BackupInv
  BY BackupInit
<1>2. BackupInv /\ [DialogNext]_dialogVars => BackupInv'
  <2>1. ASSUME BackupInv, UNCHANGED bVars PROVE BackupInv'
    BY <2>1 DEF bVars, BackupInv, BackupRequest, Backup!ChanIds
  <2>2. ASSUME BackupInv, Backup!Next PROVE BackupInv'
    BY <2>2, UserStep, BackupDaemonStep, ArriveStep DEF Backup!Next
  <2>. QED
    BY <2>1, <2>2 DEF DialogNext, dialogVars
<1>3. BackupInv => SecretIsLastTyped
  BY DEF BackupInv, SecretIsLastTyped, Backup!SecretIsLastTyped
<1>. QED
  BY <1>1, <1>2, <1>3, PTL DEF DialogSpec
=============================================================================
