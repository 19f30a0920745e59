-------------------------- MODULE EventFeedProofs --------------------------
(***************************************************************************)
(* Theorems about EventFeed, for every number of publishers, connections   *)
(* and events and every capacity, up to the hypotheses each names.         *)
(*                                                                         *)
(* The argument: a subscription is made before the ring is read, so an     *)
(* event the ring takes later is offered to it, and one the ring has       *)
(* already is in the replay.  With one publisher both are in the order of  *)
(* the numbers, so the highest number the client has seen says what it     *)
(* has; with several it does not.                                          *)
(***************************************************************************)
EXTENDS EventFeed, TLAPS, FiniteSetTheorems, SequenceTheorems, WellFoundedInduction

-----------------------------------------------------------------------------
(* Sequences of events.                                                    *)

\* An event has a number.
LEMMA NumberType ==
    ASSUME NEW e \in Event
    PROVE  e[1] \in 1..MaxBoots /\ Number(e) \in 1..MaxSeq /\ e = <<e[1], Number(e)>>
BY DEF Event, Number

\* What is appended is in the sequence, besides what was.
LEMMA RangeAppend ==
    ASSUME NEW S, NEW s \in Seq(S), NEW e \in S
    PROVE  Range(Append(s, e)) = Range(s) \cup {e}
<1>1. /\ Append(s, e) \in Seq(S) /\ Len(Append(s, e)) = Len(s) + 1 /\ Len(s) \in Nat
      /\ \A i \in 1..Len(s) : Append(s, e)[i] = s[i]
      /\ Append(s, e)[Len(s) + 1] = e
  BY AppendProperties, LenProperties
<1>2. /\ Range(s) = {s[i] : i \in 1..Len(s)}
      /\ Range(Append(s, e)) = {Append(s, e)[i] : i \in 1..(Len(s) + 1)}
  BY <1>1, RangeEquality
<1>. QED
  BY <1>1, <1>2

\* A sequence holds its head and what its tail holds.
LEMMA RangeTail ==
    ASSUME NEW S, NEW s \in Seq(S), s # <<>>
    PROVE  /\ Range(s) = {Head(s)} \cup Range(Tail(s))
           /\ Head(s) \in S /\ Tail(s) \in Seq(S) /\ Len(Tail(s)) <= Len(s)
<1>1. /\ Head(s) \in S /\ Tail(s) \in Seq(S) /\ Len(Tail(s)) = Len(s) - 1
      /\ \A i \in 1..Len(Tail(s)) : Tail(s)[i] = s[i + 1]
      /\ Len(s) \in Nat \ {0} /\ Head(s) = s[1]
  BY HeadTailProperties, EmptySeq
<1>2. /\ Range(s) = {s[i] : i \in 1..Len(s)}
      /\ Range(Tail(s)) = {Tail(s)[i] : i \in 1..Len(Tail(s))}
  BY <1>1, RangeEquality
<1>3. \A i \in 1..Len(s) :
         i = 1 \/ (i - 1 \in 1..Len(Tail(s)) /\ s[i] = Tail(s)[i - 1])
  BY <1>1
<1>4. \A i \in 1..Len(Tail(s)) : i + 1 \in 1..Len(s)
  BY <1>1
<1>5. 1 \in 1..Len(s)
  BY <1>1
<1>6. Range(s) \subseteq {Head(s)} \cup Range(Tail(s))
  BY <1>1, <1>2, <1>3
<1>7. {Head(s)} \cup Range(Tail(s)) \subseteq Range(s)
  BY <1>1, <1>2, <1>4, <1>5
<1>. QED
  BY <1>1, <1>6, <1>7

\* Nothing is in the empty sequence.
LEMMA RangeEmpty == Range(<<>>) = {}
BY DEF Range

\* A sequence stays in order when what is appended has a higher number.
LEMMA OrderAppend ==
    ASSUME NEW s \in Seq(Event), NEW e \in Event, InOrder(s),
           \A f \in Range(s) : Number(f) < Number(e)
    PROVE  InOrder(Append(s, e))
<1>1. /\ Len(Append(s, e)) = Len(s) + 1 /\ Len(s) \in Nat
      /\ \A i \in 1..Len(s) : Append(s, e)[i] = s[i]
      /\ Append(s, e)[Len(s) + 1] = e
  BY AppendProperties, LenProperties
<1>2. \A i \in 1..Len(s) : Number(s[i]) < Number(e)
  BY RangeEquality
<1>. QED
  BY <1>1, <1>2 DEF InOrder

\* In a sequence in order the head has the lowest number.
LEMMA OrderTail ==
    ASSUME NEW s \in Seq(Event), s # <<>>, InOrder(s)
    PROVE  InOrder(Tail(s)) /\ \A f \in Range(Tail(s)) : Number(Head(s)) < Number(f)
<1>1. /\ Tail(s) \in Seq(Event) /\ Len(Tail(s)) = Len(s) - 1
      /\ \A i \in 1..Len(Tail(s)) : Tail(s)[i] = s[i + 1]
      /\ Len(s) \in Nat \ {0} /\ Head(s) = s[1]
  BY HeadTailProperties, EmptySeq
<1>2. InOrder(Tail(s))
  BY <1>1 DEF InOrder
<1>3. \A i \in 1..Len(Tail(s)) : Number(Head(s)) < Number(Tail(s)[i])
  BY <1>1 DEF InOrder
<1>4. Range(Tail(s)) = {Tail(s)[i] : i \in 1..Len(Tail(s))}
  BY <1>1, RangeEquality
<1>. QED
  BY <1>2, <1>3, <1>4

-----------------------------------------------------------------------------
(* Bus.Since.                                                              *)

\* A set of naturals has a least element: induction, without an operator
\* parameter.
LEMMA Least ==
    ASSUME NEW T, T \subseteq Nat, T # {}
    PROVE  \E n \in T : \A m \in T : n <= m
<1>1. PICK n \in T : \A m \in T : ~(<<m, n>> \in OpToRel(<, Nat))
  BY NatLessThanWellFounded, WFMin, Zenon
<1>2. \A m \in T : ~(m < n)
  BY <1>1 DEF OpToRel
<1>. QED
  BY <1>2

\* One turn of the loop of Since, which has collected s before.
Turn(n, s, i) ==
    IF i = 0 THEN <<>> ELSE IF Number(ring[i]) > n THEN Append(s, ring[i]) ELSE s

\* The loop can be carried out to its end.
LEMMA LoopExists ==
    ASSUME NEW n, NEW l \in Nat
    PROVE  \E g : g = [i \in 0..l |-> Turn(n, g[i - 1], i)]
<1>. DEFINE Fails == {m \in Nat : ~\E g : g = [i \in 0..m |-> Turn(n, g[i - 1], i)]}
<1>1. SUFFICES ASSUME Fails # {} PROVE FALSE
  OBVIOUS
<1>2. PICK m \in Fails : \A j \in Fails : m <= j
  BY <1>1, Least
<1>3. CASE m = 0
  <2>. DEFINE g == [i \in 0..0 |-> <<>>]
  <2>1. g = [i \in 0..0 |-> Turn(n, g[i - 1], i)]
    BY DEF Turn
  <2>. HIDE DEF g
  <2>. QED
    BY <1>2, <1>3, <2>1
<1>4. CASE m # 0
  <2>1. m \in Nat /\ m - 1 \in Nat /\ m - 1 \notin Fails
    BY <1>2, <1>4
  <2>2. PICK h : h = [i \in 0..(m - 1) |-> Turn(n, h[i - 1], i)]
    BY <2>1
  <2>. DEFINE g == [i \in 0..m |-> IF i = m THEN Turn(n, h[m - 1], m) ELSE h[i]]
  <2>3. \A i \in 0..m : g[i] = Turn(n, g[i - 1], i)
    <3>1. ASSUME NEW i \in 0..m PROVE g[i] = Turn(n, g[i - 1], i)
      <4>1. CASE i = 0
        <5>1. g[0] = h[0] /\ h[0] = Turn(n, h[0 - 1], 0)
          BY <1>4, <2>1, <2>2
        <5>. QED
          BY <4>1, <5>1 DEF Turn
      <4>2. CASE i # 0 /\ i # m
        <5>1. i \in 0..(m - 1) /\ i - 1 \in 0..m /\ i - 1 # m
          BY <2>1, <4>2
        <5>2. g[i] = h[i] /\ g[i - 1] = h[i - 1] /\ h[i] = Turn(n, h[i - 1], i)
          BY <2>1, <2>2, <4>2, <5>1
        <5>. QED
          BY <5>2
      <4>3. CASE i # 0 /\ i = m
        <5>1. m - 1 \in 0..m /\ m - 1 # m
          BY <2>1
        <5>2. g[m - 1] = h[m - 1] /\ g[m] = Turn(n, h[m - 1], m)
          BY <2>1, <5>1
        <5>. QED
          BY <4>3, <5>2
      <4>. QED
        BY <4>1, <4>2, <4>3
    <3>. QED
      BY <3>1
  <2>4. g = [i \in 0..m |-> g[i]]
    OBVIOUS
  <2>. HIDE DEF g
  <2>5. g = [i \in 0..m |-> Turn(n, g[i - 1], i)]
    BY <2>3, <2>4
  <2>. QED
    BY <1>2, <2>5
<1>. QED
  BY <1>3, <1>4

\* What the loop has collected after i turns.
LEMMA LoopTurns ==
    ASSUME NEW n, Len(ring) \in Nat, NEW i \in 0..Len(ring)
    PROVE  Collected(n)[i] = Turn(n, Collected(n)[i - 1], i)
<1>1. Collected(n) = CHOOSE out : out = [j \in 0..Len(ring) |-> Turn(n, out[j - 1], j)]
  BY DEF Collected, Turn
<1>2. \E g : g = [j \in 0..Len(ring) |-> Turn(n, g[j - 1], j)]
  BY LoopExists
<1>3. Collected(n) = [j \in 0..Len(ring) |-> Turn(n, Collected(n)[j - 1], j)]
  BY <1>1, <1>2
<1>. QED
  BY <1>3

\* Since(n) returns the events of the ring beyond n, and no others, in the
\* order of the ring.
LEMMA SinceFacts ==
    ASSUME ring \in Seq(Event), NEW n \in Nat
    PROVE  /\ Since(n) \in Seq(Event) /\ Len(Since(n)) <= Len(ring)
           /\ Range(Since(n)) = {e \in Range(ring) : Number(e) > n}
           /\ InOrder(ring) => InOrder(Since(n))
<1>. DEFINE Taken(i) == {e \in {ring[j] : j \in 1..i} : Number(e) > n}
            Right(i) == /\ Collected(n)[i] \in Seq(Event) /\ Len(Collected(n)[i]) <= i
                        /\ Range(Collected(n)[i]) = Taken(i)
                        /\ InOrder(ring) => InOrder(Collected(n)[i])
            Wrong == {i \in 0..Len(ring) : ~Right(i)}
<1>0. Len(ring) \in Nat /\ \A i \in 1..Len(ring) : ring[i] \in Event
  BY LenProperties, ElementOfSeq
<1>1. ASSUME Wrong # {} PROVE FALSE
  <2>1. Wrong \subseteq Nat
    BY <1>0
  <2>2. PICK i \in Wrong : \A j \in Wrong : i <= j
    BY <1>1, <2>1, Least
  <2>3. Collected(n)[i] = Turn(n, Collected(n)[i - 1], i) /\ i \in 0..Len(ring)
    BY <1>0, <2>2, LoopTurns
  <2>4. CASE i = 0
    <3>1. Collected(n)[0] = <<>>
      BY <2>3, <2>4 DEF Turn
    <3>2. Taken(0) = {}
      OBVIOUS
    <3>3. Right(0)
      BY <3>1, <3>2, EmptySeq, RangeEmpty DEF InOrder
    <3>. QED
      BY <2>2, <2>4, <3>3
  <2>5. CASE i # 0
    <3>1. i - 1 \in 0..Len(ring) /\ i \in 1..Len(ring) /\ ring[i] \in Event
      BY <1>0, <2>3, <2>5
    <3>2. Right(i - 1)
      <4>1. i - 1 \notin Wrong
        <5>. HIDE DEF Wrong
        <5>. QED
          BY <1>0, <2>1, <2>2, <2>3
      <4>. QED
        BY <3>1, <4>1
    <3>. DEFINE s == Collected(n)[i - 1]
    <3>3. s \in Seq(Event) /\ Len(s) <= i - 1 /\ Len(s) \in Nat
          /\ Range(s) = Taken(i - 1) /\ (InOrder(ring) => InOrder(s))
      BY <3>2, LenProperties
    <3>4. Taken(i) = Taken(i - 1) \cup {e \in {ring[i]} : Number(e) > n}
      BY <3>1, <1>0
    <3>5. CASE Number(ring[i]) > n
      <4>1. Collected(n)[i] = Append(s, ring[i])
        BY <2>3, <2>5, <3>5 DEF Turn
      <4>2. /\ Append(s, ring[i]) \in Seq(Event) /\ Len(Append(s, ring[i])) <= i
            /\ Range(Append(s, ring[i])) = Taken(i - 1) \cup {ring[i]}
        BY <3>1, <3>3, AppendProperties, RangeAppend
      <4>3. ASSUME InOrder(ring) PROVE InOrder(Append(s, ring[i]))
        <5>1. \A e \in Range(s) : Number(e) < Number(ring[i])
          <6>1. ASSUME NEW e \in Range(s) PROVE Number(e) < Number(ring[i])
            <7>1. PICK j \in 1..(i - 1) : e = ring[j]
              BY <3>3, <6>1
            <7>2. j \in 1..Len(ring) /\ j < i
              BY <1>0, <3>1
            <7>. QED
              BY <3>1, <4>3, <7>1, <7>2 DEF InOrder
          <6>. QED
            BY <6>1
        <5>. QED
          BY <3>1, <3>3, <4>3, <5>1, OrderAppend
      <4>4. Right(i)
        BY <3>4, <3>5, <4>1, <4>2, <4>3
      <4>. QED
        BY <2>2, <4>4
    <3>6. CASE ~(Number(ring[i]) > n)
      <4>1. Collected(n)[i] = s
        BY <2>3, <2>5, <3>6 DEF Turn
      <4>2. Right(i)
        BY <3>1, <3>3, <3>4, <3>6, <4>1
      <4>. QED
        BY <2>2, <4>2
    <3>. QED
      BY <3>5, <3>6
  <2>. QED
    BY <2>4, <2>5
<1>2. Right(Len(ring))
  BY <1>0, <1>1
<1>3. Range(ring) = {ring[j] : j \in 1..Len(ring)}
  BY RangeEquality
<1>. QED
  BY <1>2, <1>3 DEF Since

-----------------------------------------------------------------------------
(* Types.                                                                  *)

\* A publisher under way has an event.
LEMMA PubFacts ==
    ASSUME TypeOK, NEW p \in Publishers
    PROVE  /\ pub[p].at \in {"idle", "append", "fan"}
           /\ pub[p].at # "idle" => pub[p].e \in Event /\ pub[p].at \in {"append", "fan"}
BY DEF TypeOK, PubStates

\* What publisher p does to itself.
LEMMA PubMoves ==
    ASSUME TypeOK, NEW p \in Publishers,
           \/ TakeNumber(p)
           \/ AppendRing(p)
           \/ FanOut(p)
    PROVE  /\ pub' \in [Publishers -> PubStates]
           /\ \A q \in Publishers \ {p} : pub'[q] = pub[q]
           /\ TakeNumber(p) => /\ pub[p].at = "idle" /\ pub'[p].at = "append"
                               /\ pub'[p].e = <<boot, seq + 1>> /\ seq + 1 \in 1..MaxSeq
           /\ AppendRing(p) => pub[p].at = "append" /\ pub'[p].at = "fan" /\ pub'[p].e = pub[p].e
           /\ FanOut(p) => pub[p].at = "fan" /\ pub'[p].at = "idle"
<1>1. CASE TakeNumber(p)
  <2>1. seq + 1 \in 1..MaxSeq /\ boot \in 1..MaxBoots /\ seq \in Nat
    BY <1>1, CapsAssumption DEF TakeNumber, TypeOK
  <2>2. [at |-> "append", e |-> <<boot, seq + 1>>] \in PubStates
    BY <2>1 DEF PubStates, Event
  <2>. QED
    BY <1>1, <2>1, <2>2 DEF TakeNumber, AppendRing, FanOut, TypeOK
<1>2. CASE AppendRing(p)
  <2>1. pub[p] \in [at : {"append", "fan"}, e : Event] /\ pub[p].at = "append"
    BY <1>2 DEF AppendRing, TypeOK, PubStates
  <2>2. [pub[p] EXCEPT !.at = "fan"] \in PubStates
    BY <2>1 DEF PubStates
  <2>3. pub' = [pub EXCEPT ![p] = [pub[p] EXCEPT !.at = "fan"]]
    BY <1>2 DEF AppendRing
  <2>4. /\ pub'[p].at = "fan" /\ pub'[p].e = pub[p].e
        /\ \A q \in Publishers \ {p} : pub'[q] = pub[q]
    BY <2>1, <2>3 DEF TypeOK
  <2>5. pub' \in [Publishers -> PubStates]
    BY <2>2, <2>3 DEF TypeOK
  <2>. QED
    BY <1>2, <2>1, <2>4, <2>5 DEF TakeNumber, AppendRing, FanOut
<1>3. CASE FanOut(p)
  <2>1. [at |-> "idle"] \in PubStates
    BY DEF PubStates
  <2>. QED
    BY <1>3, <2>1 DEF TakeNumber, AppendRing, FanOut, TypeOK
<1>. QED
  BY <1>1, <1>2, <1>3

\* AppendRing: the ring keeps its size, and gains the event.
LEMMA RingGains ==
    ASSUME TypeOK, NEW p \in Publishers, AppendRing(p)
    PROVE  /\ ring' \in Seq(Event) /\ Len(ring') <= RingCap
           /\ pub[p].e \in Range(ring') /\ Range(ring') \subseteq Range(ring) \cup {pub[p].e}
           /\ excused \subseteq excused' /\ excused' \subseteq Event
           /\ InOrder(ring) /\ (\A f \in Range(ring) : Number(f) < Number(pub[p].e))
              => InOrder(ring')
<1>1. pub[p].e \in Event /\ ring \in Seq(Event) /\ Len(ring) \in Nat /\ excused \subseteq Event
  BY PubFacts, LenProperties DEF AppendRing, TypeOK
<1>2. CASE Len(ring) = RingCap
  <2>1. ring' = Append(Tail(ring), pub[p].e) /\ excused' = excused \cup ({Head(ring)} \ got)
    BY <1>2 DEF AppendRing
  <2>2. ring # <<>>
    BY <1>2, CapsAssumption, EmptySeq
  <2>3. /\ Tail(ring) \in Seq(Event) /\ Len(Tail(ring)) = Len(ring) - 1
        /\ Head(ring) \in Event /\ Range(Tail(ring)) \subseteq Range(ring)
    BY <1>1, <2>2, HeadTailProperties, RangeTail
  <2>4. /\ ring' \in Seq(Event) /\ Len(ring') = Len(ring)
        /\ Range(ring') = Range(Tail(ring)) \cup {pub[p].e}
    <3>1. /\ Append(Tail(ring), pub[p].e) \in Seq(Event)
          /\ Len(Append(Tail(ring), pub[p].e)) = Len(Tail(ring)) + 1
      BY <1>1, <2>3, AppendProperties
    <3>2. Range(Append(Tail(ring), pub[p].e)) = Range(Tail(ring)) \cup {pub[p].e}
      <4>1. \A s \in Seq(Event), e \in Event : Range(Append(s, e)) = Range(s) \cup {e}
        BY RangeAppend
      <4>. QED
        BY <1>1, <2>3, <4>1
    <3>. QED
      BY <1>1, <2>1, <2>3, <3>1, <3>2
  <2>5. ASSUME InOrder(ring), \A f \in Range(ring) : Number(f) < Number(pub[p].e)
        PROVE  InOrder(ring')
    BY <1>1, <2>1, <2>2, <2>3, <2>5, OrderTail, OrderAppend
  <2>. QED
    BY <1>1, <1>2, <2>1, <2>3, <2>4, <2>5, CapsAssumption
<1>3. CASE Len(ring) # RingCap
  <2>1. ring' = Append(ring, pub[p].e) /\ excused' = excused
    BY <1>3 DEF AppendRing
  <2>2. /\ ring' \in Seq(Event) /\ Len(ring') = Len(ring) + 1
        /\ Range(ring') = Range(ring) \cup {pub[p].e}
    BY <1>1, <2>1, AppendProperties, RangeAppend
  <2>3. ASSUME InOrder(ring), \A f \in Range(ring) : Number(f) < Number(pub[p].e)
        PROVE  InOrder(ring')
    BY <1>1, <2>1, <2>3, OrderAppend
  <2>4. Len(ring) + 1 <= RingCap
    BY <1>1, <1>3, CapsAssumption DEF TypeOK
  <2>. QED
    BY <1>1, <2>1, <2>2, <2>3, <2>4
<1>. QED
  BY <1>2, <1>3

\* FanOut: the event joins the channels that have room.
LEMMA ChannelsGain ==
    ASSUME TypeOK, NEW p \in Publishers, FanOut(p)
    PROVE  /\ pub[p].e \in Event
           /\ \A k \in Conns :
                 \/ /\ k \in Subscribers /\ ~Full(k)
                    /\ chan'[k] = Append(chan[k], pub[p].e)
                    /\ Range(chan'[k]) = Range(chan[k]) \cup {pub[p].e}
                 \/ /\ k \notin Subscribers \/ Full(k)
                    /\ chan'[k] = chan[k]
           /\ chan' \in [Conns -> Seq(Event)]
           /\ \A k \in Conns : Len(chan'[k]) <= ChanCap
<1>1. pub[p].e \in Event
  BY PubFacts DEF FanOut
<1>2. chan' = [k \in Conns |-> IF k \in Subscribers /\ ~Full(k)
                               THEN Append(chan[k], pub[p].e) ELSE chan[k]]
  BY DEF FanOut
<1>3. ASSUME NEW k \in Conns
      PROVE  /\ Append(chan[k], pub[p].e) \in Seq(Event)
             /\ Len(Append(chan[k], pub[p].e)) = Len(chan[k]) + 1
             /\ Range(Append(chan[k], pub[p].e)) = Range(chan[k]) \cup {pub[p].e}
             /\ chan[k] \in Seq(Event) /\ Len(chan[k]) \in Nat /\ Len(chan[k]) <= ChanCap
  <2>1. chan[k] \in Seq(Event) /\ Len(chan[k]) <= ChanCap
    BY DEF TypeOK
  <2>. QED
    BY <1>1, <2>1, AppendProperties, RangeAppend, LenProperties
<1>4. \A k \in Conns : ~Full(k) => Len(chan[k]) + 1 <= ChanCap
  BY <1>3, CapsAssumption DEF Full
<1>5. chan' \in [Conns -> Seq(Event)]
  BY <1>2, <1>3
<1>. QED
  BY <1>1, <1>2, <1>3, <1>4, <1>5

\* Send: what a handler sends is taken from the front of its replay, then of
\* its channel; the client takes it if its socket is open.
LEMMA SendCases ==
    ASSUME TypeOK, NEW k \in Conns, Send(k)
    PROVE  /\ \A l \in Conns \ {k} : chan'[l] = chan[l] /\ replay'[l] = replay[l]
           /\ chan' \in [Conns -> Seq(Event)] /\ replay' \in [Conns -> Seq(Event)]
           /\ Len(chan'[k]) <= Len(chan[k]) /\ Len(replay'[k]) <= Len(replay[k])
           /\ \E e \in Event :
                 /\ Receive(k, e)
                 /\ \/ /\ replay[k] # <<>> /\ e = Head(replay[k])
                       /\ replay'[k] = Tail(replay[k])
                       /\ Range(replay[k]) = {e} \cup Range(replay'[k])
                       /\ chan'[k] = chan[k]
                    \/ /\ replay[k] = <<>> /\ chan[k] # <<>> /\ e = Head(chan[k])
                       /\ chan'[k] = Tail(chan[k])
                       /\ Range(chan[k]) = {e} \cup Range(chan'[k])
                       /\ replay'[k] = replay[k]
<1>1. /\ chan[k] \in Seq(Event) /\ replay[k] \in Seq(Event)
      /\ chan \in [Conns -> Seq(Event)] /\ replay \in [Conns -> Seq(Event)]
      /\ Len(chan[k]) \in Nat /\ Len(replay[k]) \in Nat
  BY LenProperties DEF TypeOK
<1>2. CASE /\ replay[k] # <<>> /\ Receive(k, Head(replay[k])) /\ UNCHANGED chan
           /\ replay' = [replay EXCEPT ![k] = Tail(replay[k])]
  <2>1. /\ Head(replay[k]) \in Event /\ Tail(replay[k]) \in Seq(Event)
        /\ Len(Tail(replay[k])) <= Len(replay[k])
        /\ Range(replay[k]) = {Head(replay[k])} \cup Range(Tail(replay[k]))
    BY <1>1, <1>2, RangeTail
  <2>. QED
    BY <1>1, <1>2, <2>1
<1>3. CASE /\ replay[k] = <<>> /\ chan[k] # <<>> /\ Receive(k, Head(chan[k]))
           /\ UNCHANGED replay /\ chan' = [chan EXCEPT ![k] = Tail(chan[k])]
  <2>1. /\ Head(chan[k]) \in Event /\ Tail(chan[k]) \in Seq(Event)
        /\ Len(Tail(chan[k])) <= Len(chan[k])
        /\ Range(chan[k]) = {Head(chan[k])} \cup Range(Tail(chan[k]))
    BY <1>1, <1>3, RangeTail
  <2>. QED
    BY <1>1, <1>3, <2>1
<1>. QED
  BY <1>2, <1>3 DEF Send

\* A client that connects, or stays idle, keeps the types of its sockets.
LEMMA ConnectType ==
    ASSUME TypeOK, NEW s \in [Conns -> SockStates], NEW has, Connect(s, has)
    PROVE  /\ sock' \in [Conns -> SockStates] /\ since' \in [Conns -> 0..MaxSeq]
           /\ ws' \in Conns \cup {None}
           /\ \A k \in Conns :
                 \/ sock'[k] = s[k] /\ since'[k] = since[k]
                 \/ /\ sock'[k] = "connecting" /\ since'[k] = seqRef
                    /\ s[k] = "none" /\ srv[k] = "none"
BY DEF TypeOK, Connect, SockStates

\* Every step keeps the types.
LEMMA TypeStep == TypeOK /\ [Next]_vars => TypeOK'
<1>. SUFFICES ASSUME TypeOK, [Next]_vars PROVE TypeOK'
  OBVIOUS
<1>. USE DEF busVars, srvVars, clientVars, sockVars
<1>1. ASSUME NEW p \in Publishers, TakeNumber(p) PROVE TypeOK'
  <2>1. pub' \in [Publishers -> PubStates]
    BY <1>1, PubMoves
  <2>2. seq' \in 0..MaxSeq
    BY <1>1, CapsAssumption DEF TakeNumber, TypeOK
  <2>. QED
    BY <1>1, <2>1, <2>2 DEF TakeNumber, TypeOK
<1>2. ASSUME NEW p \in Publishers, AppendRing(p) PROVE TypeOK'
  BY <1>2, PubMoves, RingGains DEF AppendRing, TypeOK
<1>3. ASSUME NEW p \in Publishers, FanOut(p) PROVE TypeOK'
  BY <1>3, PubMoves, ChannelsGain DEF FanOut, TypeOK
<1>4. ASSUME NEW k \in Conns, Accept(k) \/ Subscribe(k) \/ Break(k) \/ OnClose(k)
      PROVE  TypeOK'
  <2>1. /\ \A s \in SockStates : [sock EXCEPT ![k] = s] \in [Conns -> SockStates]
        /\ \A s \in SrvStates : [srv EXCEPT ![k] = s] \in [Conns -> SrvStates]
        /\ [since EXCEPT ![k] = 0] \in [Conns -> 0..MaxSeq]
    BY CapsAssumption DEF TypeOK
  <2>2. {"none", "connecting", "open", "closing"} = SockStates
        /\ {"none", "accepted", "subscribed", "serving"} = SrvStates
    BY DEF SockStates, SrvStates
  <2>3. CASE Accept(k)
    BY <2>1, <2>2, <2>3 DEF Accept, TypeOK
  <2>4. CASE Subscribe(k) \/ Break(k)
    BY <2>1, <2>2, <2>4 DEF Subscribe, Break, TypeOK
  <2>5. CASE OnClose(k)
    BY <2>1, <2>2, <2>5 DEF OnClose, TypeOK
  <2>. QED
    BY <1>4, <2>3, <2>4, <2>5
<1>5. ASSUME NEW k \in Conns, Leave(k) PROVE TypeOK'
  <2>1. <<>> \in Seq(Event) /\ Len(<<>>) = 0
    BY EmptySeq
  <2>. QED
    BY <1>5, <2>1, CapsAssumption DEF Leave, TypeOK, SrvStates
<1>6. ASSUME NEW k \in Conns, ReadReplay(k) PROVE TypeOK'
  <2>. DEFINE r == IF since[k] > 0 THEN Since(since[k]) ELSE <<>>
  <2>1. ring \in Seq(Event) /\ Len(ring) <= RingCap /\ since[k] \in Nat /\ Len(ring) \in Nat
    BY LenProperties, CapsAssumption DEF TypeOK
  <2>2. r \in Seq(Event) /\ Len(r) <= RingCap
    <3>1. <<>> \in Seq(Event) /\ Len(<<>>) = 0
      BY EmptySeq
    <3>2. Since(since[k]) \in Seq(Event) /\ Len(Since(since[k])) <= Len(ring)
          /\ Len(Since(since[k])) \in Nat
      BY <2>1, SinceFacts, LenProperties
    <3>. QED
      BY <2>1, <3>1, <3>2, CapsAssumption
  <2>3. replay' = [replay EXCEPT ![k] = r]
    BY <1>6 DEF ReadReplay
  <2>. HIDE DEF r
  <2>. QED
    BY <1>6, <2>2, <2>3 DEF ReadReplay, TypeOK, SrvStates
<1>7. ASSUME NEW k \in Conns, Send(k) PROVE TypeOK'
  <2>1. PICK e \in Event : Receive(k, e)
    BY <1>7, SendCases
  <2>2. /\ got' \subseteq Event /\ seqRef' \in 0..MaxSeq /\ UNCHANGED <<token, ws, timer>>
    BY <2>1, NumberType DEF Receive, TypeOK
  <2>3. /\ \A l \in Conns : Len(chan'[l]) <= ChanCap /\ Len(replay'[l]) <= RingCap
    <3>1. \A l \in Conns : Len(chan[l]) \in Nat /\ Len(replay[l]) \in Nat
                        /\ Len(chan'[l]) \in Nat /\ Len(replay'[l]) \in Nat
                        /\ Len(chan[l]) <= ChanCap /\ Len(replay[l]) <= RingCap
      <4>1. /\ chan \in [Conns -> Seq(Event)] /\ replay \in [Conns -> Seq(Event)]
            /\ chan' \in [Conns -> Seq(Event)] /\ replay' \in [Conns -> Seq(Event)]
        BY <1>7, SendCases DEF TypeOK
      <4>2. \A s \in Seq(Event) : Len(s) \in Nat
        BY LenProperties
      <4>. QED
        BY <4>1, <4>2 DEF TypeOK
    <3>2. /\ \A l \in Conns \ {k} : chan'[l] = chan[l] /\ replay'[l] = replay[l]
          /\ Len(chan'[k]) <= Len(chan[k]) /\ Len(replay'[k]) <= Len(replay[k])
      BY <1>7, SendCases
    <3>3. ASSUME NEW l \in Conns PROVE Len(chan'[l]) <= ChanCap /\ Len(replay'[l]) <= RingCap
      BY <3>1, <3>2, CapsAssumption
    <3>. QED
      BY <3>3
  <2>. QED
    BY <1>7, <2>2, <2>3, SendCases DEF Send, TypeOK
<1>8. CASE TimerFires
  BY <1>8, ConnectType DEF TimerFires, TypeOK
<1>9. ASSUME NEW stored \in BOOLEAN, TokenChange(stored) PROVE TypeOK'
  <2>. DEFINE s == IF ws = None THEN sock ELSE [sock EXCEPT ![ws] = "closing"]
  <2>1. s \in [Conns -> SockStates]
    BY DEF TypeOK, SockStates
  <2>2. Connect(s, stored)
    BY <1>9 DEF TokenChange
  <2>. HIDE DEF s
  <2>. QED
    BY <1>9, <2>1, <2>2, ConnectType DEF TokenChange, TypeOK
<1>10. CASE Login \/ Logout
  BY <1>10 DEF Login, Logout, Log, TypeOK
<1>11. CASE Restart
  <2>1. <<>> \in Seq(Event) /\ Len(<<>>) = 0
    BY EmptySeq
  <2>2. boot' \in 1..MaxBoots
    BY <1>11, CapsAssumption DEF Restart, TypeOK
  <2>3. [at |-> "idle"] \in PubStates
    BY DEF PubStates
  <2>. QED
    BY <1>11, <2>1, <2>2, <2>3, CapsAssumption DEF Restart, TypeOK, SrvStates, SockStates
<1>12. CASE UNCHANGED vars
  BY <1>12 DEF vars, TypeOK
<1>. QED
  BY <1>1, <1>2, <1>3, <1>4, <1>5, <1>6, <1>7, <1>8, <1>9, <1>10, <1>11, <1>12 DEF Next

LEMMA InitType == Init => TypeOK
<1>1. <<>> \in Seq(Event) /\ Len(<<>>) = 0 /\ [at |-> "idle"] \in PubStates
  BY EmptySeq DEF PubStates
<1>2. ASSUME Init PROVE TypeOK
  <2>1. sock \in [Conns -> SockStates] /\ ws \in Conns \cup {None} /\ token \in BOOLEAN
    BY <1>2 DEF Init, SockStates
  <2>2. /\ boot \in 1..MaxBoots /\ seq \in 0..MaxSeq /\ seqRef \in 0..MaxSeq
        /\ since \in [Conns -> 0..MaxSeq] /\ Len(ring) <= RingCap
    BY <1>1, <1>2, CapsAssumption DEF Init
  <2>3. /\ chan \in [Conns -> Seq(Event)] /\ \A k \in Conns : Len(chan[k]) <= ChanCap
        /\ replay \in [Conns -> Seq(Event)] /\ \A k \in Conns : Len(replay[k]) <= RingCap
    BY <1>1, <1>2, CapsAssumption DEF Init
  <2>4. srv \in [Conns -> SrvStates] /\ pub \in [Publishers -> PubStates]
    BY <1>1, <1>2 DEF Init, SrvStates
  <2>. QED
    BY <1>1, <1>2, <2>1, <2>2, <2>3, <2>4 DEF Init, TypeOK
<1>. QED
  BY <1>2

-----------------------------------------------------------------------------
(* The hand-over from the ring to the channel.                             *)

\* A step of a publisher takes nothing away from what is received or excused,
\* and an event that is no longer offered is in the channel of every handler
\* that has subscribed, or excused.
LEMMA ComingGrows ==
    ASSUME TypeOK, NEW p \in Publishers, TakeNumber(p) \/ AppendRing(p) \/ FanOut(p)
    PROVE  /\ UNCHANGED <<boot, srv, replay, clientVars, sockVars>>
           /\ excused \subseteq excused'
           /\ Range(ring') \subseteq Range(ring) \cup BeingOffered'
           /\ \A k \in Conns :
                 /\ Range(chan[k]) \subseteq Range(chan'[k])
                 /\ Range(chan'[k]) \subseteq Range(chan[k]) \cup BeingOffered
                 /\ k \notin Subscribers => chan'[k] = chan[k]
                 /\ k \in Subscribers /\ sock[k] = "open" =>
                       BeingOffered \subseteq BeingOffered' \cup Range(chan'[k]) \cup excused'
<1>. USE DEF busVars, srvVars, clientVars, sockVars
<1>1. CASE TakeNumber(p)
  <2>1. BeingOffered' = BeingOffered
    BY <1>1, PubMoves DEF BeingOffered
  <2>. QED
    BY <1>1, <2>1 DEF TakeNumber
<1>2. CASE AppendRing(p)
  <2>1. BeingOffered' = BeingOffered \cup {pub[p].e}
    BY <1>2, PubMoves DEF BeingOffered
  <2>2. excused \subseteq excused' /\ Range(ring') \subseteq Range(ring) \cup {pub[p].e}
    BY <1>2, RingGains
  <2>. QED
    BY <1>2, <2>1, <2>2 DEF AppendRing
<1>3. CASE FanOut(p)
  <2>1. BeingOffered \subseteq BeingOffered' \cup {pub[p].e} /\ pub[p].e \in BeingOffered
    BY <1>3, PubMoves DEF BeingOffered
  <2>2. excused \subseteq excused'
    BY <1>3 DEF FanOut
  <2>3. ASSUME NEW k \in Conns, k \in Subscribers, sock[k] = "open", Full(k)
        PROVE  pub[p].e \in excused'
    BY <1>3, <2>3 DEF FanOut
  <2>4. UNCHANGED <<boot, ring, srv, replay, clientVars, sockVars>>
    BY <1>3 DEF FanOut
  <2>5. ASSUME NEW k \in Conns
        PROVE  \/ Range(chan'[k]) = Range(chan[k]) \cup {pub[p].e} /\ k \in Subscribers
               \/ chan'[k] = chan[k] /\ (k \notin Subscribers \/ Full(k))
    BY <1>3, ChannelsGain
  <2>. QED
    BY <2>1, <2>2, <2>3, <2>4, <2>5
<1>. QED
  BY <1>1, <1>2, <1>3

\* What the handler of k has sent, or will send, of what lies beyond since.
Handed(k) ==
    got \cup excused \cup Range(replay[k]) \cup Range(chan[k]) \cup BeingOffered

\* Before it has read the ring everything is still to come.
LEMMA HandoverParts ==
    HandoverWhole <=>
       \A k \in Conns : \A e \in Range(ring) :
          sock[k] = "open" /\ srv[k] = "serving" /\ since[k] > 0 /\ Number(e) > since[k]
             => e \in Handed(k)
BY DEF HandoverWhole, Coming, Handed

\* A message goes from what is coming to what was received, if the socket it
\* is sent on is open.
LEMMA SendKeeps ==
    ASSUME TypeOK, NEW k \in Conns, Send(k)
    PROVE  /\ UNCHANGED <<busVars, srv, sockVars, token, ws, timer, excused>>
           /\ BeingOffered' = BeingOffered /\ got \subseteq got'
           /\ sock[k] # "open" => UNCHANGED <<seqRef, got>>
           /\ \A l \in Conns : sock[l] = "open" => Handed(l) \subseteq Handed(l)'
<1>1. PICK e \in Event :
         /\ Receive(k, e)
         /\ \/ Range(replay[k]) = {e} \cup Range(replay'[k]) /\ chan'[k] = chan[k]
            \/ Range(chan[k]) = {e} \cup Range(chan'[k]) /\ replay'[k] = replay[k]
  BY SendCases
<1>2. /\ UNCHANGED <<busVars, srv, sockVars, token, ws, timer, excused>>
      /\ sock[k] # "open" => UNCHANGED <<seqRef, got>>
      /\ sock[k] = "open" => got' = got \cup {e}
  BY <1>1 DEF Send, Receive, clientVars
<1>3. BeingOffered' = BeingOffered
  BY <1>2 DEF BeingOffered, busVars
<1>4. ASSUME NEW l \in Conns, sock[l] = "open" PROVE Handed(l) \subseteq Handed(l)'
  <2>1. CASE l = k
    BY <1>1, <1>2, <1>3, <1>4, <2>1 DEF Handed
  <2>2. CASE l # k
    <3>1. chan'[l] = chan[l] /\ replay'[l] = replay[l]
      BY <2>2, SendCases
    <3>. QED
      BY <1>2, <1>3, <3>1 DEF Handed
  <2>. QED
    BY <2>1, <2>2
<1>. QED
  BY <1>2, <1>3, <1>4

\* A socket that opens, or one that was open and stays so, keeps its since; no
\* step but these of the client touches since.
LEMMA ClientSteps ==
    ASSUME TypeOK,
           \/ TimerFires
           \/ \E stored \in BOOLEAN : TokenChange(stored)
           \/ Login
           \/ Logout
           \/ \E k \in Conns : Break(k) \/ OnClose(k)
    PROVE  /\ UNCHANGED <<busVars, srvVars, seqRef, got, excused>>
           /\ \A k \in Conns : sock'[k] = "open" => sock[k] = "open" /\ since'[k] = since[k]
<1>. USE DEF busVars, srvVars, clientVars, sockVars
<1>1. CASE TimerFires
  <2>1. sock \in [Conns -> SockStates] /\ Connect(sock, token)
    BY <1>1 DEF TimerFires, TypeOK
  <2>. QED
    BY <1>1, <2>1, ConnectType DEF TimerFires
<1>2. ASSUME NEW stored \in BOOLEAN, TokenChange(stored)
      PROVE  /\ UNCHANGED <<busVars, srvVars, seqRef, got, excused>>
             /\ \A k \in Conns : sock'[k] = "open" => sock[k] = "open" /\ since'[k] = since[k]
  <2>. DEFINE s == IF ws = None THEN sock ELSE [sock EXCEPT ![ws] = "closing"]
  <2>1. s \in [Conns -> SockStates] /\ \A k \in Conns : s[k] = "open" => sock[k] = "open"
    BY DEF TypeOK, SockStates
  <2>2. Connect(s, stored)
    BY <1>2 DEF TokenChange
  <2>. HIDE DEF s
  <2>. QED
    BY <1>2, <2>1, <2>2, ConnectType DEF TokenChange
<1>3. CASE Login \/ Logout
  BY <1>3 DEF Login, Logout, Log
<1>4. ASSUME NEW k \in Conns, Break(k) \/ OnClose(k)
      PROVE  /\ UNCHANGED <<busVars, srvVars, seqRef, got, excused>>
             /\ \A l \in Conns : sock'[l] = "open" => sock[l] = "open" /\ since'[l] = since[l]
  BY <1>4 DEF Break, OnClose, TypeOK
<1>. QED
  BY <1>1, <1>2, <1>3, <1>4

\* Every step keeps the hand-over whole.
LEMMA HandoverStep ==
    ASSUME TypeOK, HandoverWhole, [Next]_vars
    PROVE  HandoverWhole'
<1>. USE DEF busVars, srvVars, clientVars, sockVars
<1>. DEFINE Fits(k, e) ==
        sock[k] = "open" /\ srv[k] = "serving" /\ since[k] > 0 /\ Number(e) > since[k]
           => e \in Handed(k)
<1>0. \A k \in Conns : \A e \in Range(ring) : Fits(k, e)
  BY HandoverParts
<1>. SUFFICES \A k \in Conns : \A e \in Range(ring') : Fits(k, e)'
  BY DEF HandoverWhole, Coming, Handed
<1>1. ASSUME NEW p \in Publishers, TakeNumber(p) \/ AppendRing(p) \/ FanOut(p),
             NEW k \in Conns, NEW e \in Range(ring')
      PROVE  Fits(k, e)'
  <2>1. k \in Subscribers /\ sock[k] = "open" => Handed(k) \subseteq Handed(k)'
    BY <1>1, ComingGrows DEF Handed
  <2>2. e \in Range(ring) \/ e \in Handed(k)'
    BY <1>1, ComingGrows DEF Handed
  <2>. QED
    BY <1>0, <1>1, <2>1, <2>2, ComingGrows DEF Subscribers
<1>2. ASSUME NEW j \in Conns, Accept(j) \/ Subscribe(j) \/ Leave(j),
             NEW k \in Conns, NEW e \in Range(ring')
      PROVE  Fits(k, e)'
  <2>1. /\ UNCHANGED <<ring, pub, since, got, excused>>
        /\ srv'[k] = "serving" /\ sock'[k] = "open" =>
              srv[k] = "serving" /\ sock[k] = "open" /\ chan'[k] = chan[k]
              /\ replay'[k] = replay[k]
    BY <1>2 DEF Accept, Subscribe, Leave, TypeOK
  <2>. QED
    BY <1>0, <2>1 DEF Handed, BeingOffered
<1>3. ASSUME NEW j \in Conns, ReadReplay(j), NEW k \in Conns, NEW e \in Range(ring')
      PROVE  Fits(k, e)'
  <2>1. UNCHANGED <<ring, pub, sock, since, got, excused, chan>>
    BY <1>3 DEF ReadReplay
  <2>2. CASE k = j
    <3>1. since[k] > 0 => replay'[k] = Since(since[k])
      BY <1>3, <2>2 DEF ReadReplay, TypeOK
    <3>2. since[k] > 0 => Range(replay'[k]) = {f \in Range(ring) : Number(f) > since[k]}
      <4>1. ring \in Seq(Event) /\ since[k] \in Nat
        BY CapsAssumption DEF TypeOK
      <4>. QED
        BY <3>1, <4>1, SinceFacts
    <3>. QED
      BY <2>1, <3>2 DEF Handed
  <2>3. CASE k # j
    <3>1. replay'[k] = replay[k] /\ srv'[k] = srv[k]
      BY <1>3, <2>3 DEF ReadReplay, TypeOK
    <3>. QED
      BY <1>0, <2>1, <3>1 DEF Handed, BeingOffered
  <2>. QED
    BY <2>2, <2>3
<1>4. ASSUME NEW j \in Conns, Send(j), NEW k \in Conns, NEW e \in Range(ring')
      PROVE  Fits(k, e)'
  BY <1>0, <1>4, SendKeeps
<1>5. ASSUME \/ TimerFires
             \/ \E stored \in BOOLEAN : TokenChange(stored)
             \/ Login
             \/ Logout
             \/ \E k \in Conns : Break(k) \/ OnClose(k),
             NEW k \in Conns, NEW e \in Range(ring')
      PROVE  Fits(k, e)'
  <2>1. /\ UNCHANGED <<busVars, srvVars, seqRef, got, excused>>
        /\ sock'[k] = "open" => sock[k] = "open" /\ since'[k] = since[k]
    BY <1>5, ClientSteps
  <2>. QED
    BY <1>0, <2>1 DEF Handed, BeingOffered
<1>6. CASE Restart
  BY <1>6, RangeEmpty DEF Restart
<1>7. CASE UNCHANGED vars
  BY <1>0, <1>7 DEF vars, Handed, BeingOffered
<1>. QED
  BY <1>1, <1>2, <1>3, <1>4, <1>5, <1>6, <1>7 DEF Next

-----------------------------------------------------------------------------
(* One socket, when no other tab changes the token.                        *)

\* What the client does to its sockets: it drops some, or opens one when the
\* timer fires.
LEMMA ClientMoves ==
    ASSUME TypeOK, ~TokenChanges,
           \/ TimerFires
           \/ \E stored \in BOOLEAN : TokenChange(stored)
           \/ Login
           \/ Logout
           \/ \E k \in Conns : Break(k) \/ OnClose(k)
    PROVE  \A k \in Conns :
              \/ sock'[k] = sock[k] /\ since'[k] = since[k]
              \/ sock'[k] = "connecting" /\ since'[k] = seqRef /\ srv[k] = "none"
              \/ sock'[k] \in {"closing", "none"}
<1>. USE DEF clientVars, sockVars
<1>1. CASE TimerFires
  <2>1. sock \in [Conns -> SockStates] /\ Connect(sock, token)
    BY <1>1 DEF TimerFires, TypeOK
  <2>. QED
    BY <2>1, ConnectType
<1>2. ~\E stored \in BOOLEAN : TokenChange(stored)
  BY DEF TokenChange
<1>3. CASE Login \/ Logout
  BY <1>3 DEF Login, Logout, Log
<1>4. CASE \E k \in Conns : Break(k) \/ OnClose(k)
  BY <1>4 DEF Break, OnClose, TypeOK
<1>. QED
  BY <1>1, <1>2, <1>3, <1>4

\* Every step keeps the client to one socket.
LEMMA OneSlotStep ==
    ASSUME TypeOK, OneSlot, ~TokenChanges, [Next]_vars
    PROVE  OneSlot'
<1>. USE DEF busVars, srvVars, clientVars, sockVars
<1>1. ASSUME NEW p \in Publishers, TakeNumber(p) \/ AppendRing(p) \/ FanOut(p) PROVE OneSlot'
  BY <1>1, ComingGrows DEF OneSlot
<1>2. ASSUME NEW k \in Conns, Accept(k) \/ Subscribe(k) \/ ReadReplay(k) \/ Leave(k)
      PROVE  OneSlot'
  <2>1. timer' = timer /\ \A j \in Conns : sock'[j] # "none" => sock[j] # "none"
    BY <1>2 DEF Accept, Subscribe, ReadReplay, Leave, TypeOK
  <2>. QED
    BY <2>1 DEF OneSlot
<1>3. ASSUME NEW k \in Conns, Send(k) PROVE OneSlot'
  BY <1>3, SendKeeps DEF OneSlot
<1>4. ASSUME NEW k \in Conns, Break(k) PROVE OneSlot'
  <2>1. /\ timer' = timer /\ sock[k] # "none"
        /\ \A j \in Conns : sock'[j] # "none" => sock[j] # "none"
    BY <1>4 DEF Break, TypeOK
  <2>2. timer' => \A j \in Conns : sock'[j] = "none"
    BY <2>1 DEF OneSlot
  <2>3. \A i, j \in Conns : sock'[i] # "none" /\ sock'[j] # "none" => i = j
    BY <2>1 DEF OneSlot
  <2>. QED
    BY <2>2, <2>3 DEF OneSlot
<1>5. ASSUME NEW k \in Conns, OnClose(k) PROVE OneSlot'
  <2>1. \A j \in Conns : sock'[j] = "none"
    BY <1>5 DEF OnClose, OneSlot, TypeOK
  <2>. QED
    BY <2>1 DEF OneSlot
<1>6. CASE TimerFires
  <2>1. \A j \in Conns : sock[j] = "none"
    BY <1>6 DEF TimerFires, OneSlot
  <2>2. timer' = FALSE
    BY <1>6 DEF TimerFires
  <2>3. sock' = sock \/ \E k \in Conns : sock' = [sock EXCEPT ![k] = "connecting"]
    BY <1>6 DEF TimerFires, Connect
  <2>. QED
    BY <2>1, <2>2, <2>3 DEF OneSlot, TypeOK
<1>7. CASE Login \/ Logout
  <2>1. UNCHANGED <<sock, timer>>
    BY <1>7 DEF Login, Logout, Log
  <2>. QED
    BY <2>1 DEF OneSlot
<1>8. CASE Restart
  <2>1. timer' = timer /\ \A j \in Conns : sock'[j] # "none" => sock[j] # "none"
    BY <1>8 DEF Restart
  <2>2. (\A j \in Conns : sock[j] = "none") => \A j \in Conns : sock'[j] = "none"
    BY <1>8 DEF Restart
  <2>. QED
    BY <2>1, <2>2 DEF OneSlot
<1>9. CASE UNCHANGED vars
  BY <1>9 DEF vars, OneSlot
<1>. QED
  BY <1>1, <1>2, <1>3, <1>4, <1>5, <1>6, <1>7, <1>8, <1>9 DEF Next, TokenChange

LEMMA InitSlot == Init => OneSlot
BY DEF Init, OneSlot

\* One slot in use is one connection, or a timer.
LEMMA SlotIsSocket == TypeOK /\ OneSlot => OneSocket
<1>. SUFFICES ASSUME TypeOK, OneSlot PROVE OneSocket
  OBVIOUS
<1>1. CASE Live = {}
  BY <1>1, FS_EmptySet DEF OneSocket
<1>2. CASE Live # {}
  <2>1. PICK k \in Conns : k \in Live
    BY <1>2 DEF Live
  <2>2. Live = {k} /\ ~timer
    BY <2>1 DEF Live, OneSlot
  <2>3. Cardinality({k}) = 1
    BY FS_Singleton
  <2>. QED
    BY <2>2, <2>3 DEF OneSocket
<1>. QED
  BY <1>1, <1>2

-----------------------------------------------------------------------------
(* Nothing is forgotten, with one publisher, during one boot.              *)

\* There is one publisher, and the daemon is not restarted.
Alone == MaxBoots = 1 /\ \A p, q \in Publishers : p = q

\* During one boot an event is its number.
LEMMA EventIsNumber ==
    ASSUME MaxBoots = 1, NEW e \in Event, NEW f \in Event, Number(e) = Number(f)
    PROVE  e = f
BY NumberType

\* Everything in a ring, a channel or a replay is an event.
LEMMA AllEvents ==
    ASSUME TypeOK
    PROVE  /\ Range(ring) \subseteq Event /\ got \subseteq Event
           /\ \A k \in Conns : Range(chan[k]) \subseteq Event /\ Range(replay[k]) \subseteq Event
           /\ BeingOffered \subseteq Event
           /\ seq \in Nat /\ seqRef \in Nat /\ \A k \in Conns : since[k] \in Nat
           /\ \A e \in Event : Number(e) \in Nat /\ Number(e) > 0
<1>1. /\ Range(ring) \subseteq Event
      /\ \A k \in Conns : Range(chan[k]) \subseteq Event /\ Range(replay[k]) \subseteq Event
  <2>1. \A s \in Seq(Event) : Range(s) \subseteq Event
    BY RangeOfSeq
  <2>. QED
    BY <2>1 DEF TypeOK
<1>2. BeingOffered \subseteq Event
  BY PubFacts DEF BeingOffered
<1>3. \A e \in Event : Number(e) \in Nat /\ Number(e) > 0
  BY NumberType, CapsAssumption
<1>4. got \subseteq Event /\ seq \in Nat /\ seqRef \in Nat /\ \A k \in Conns : since[k] \in Nat
  BY CapsAssumption DEF TypeOK
<1>. QED
  BY <1>1, <1>2, <1>3, <1>4

\* What is being offered has the last number that was given.
LEMMA OfferedIsLast ==
    ASSUME TypeOK, Ordered, NEW e \in BeingOffered
    PROVE  Number(e) = seq /\ \E p \in Publishers : pub[p].at = "fan"
BY DEF Ordered, BeingOffered, Number

\* Numbers that were appended or offered stay so, as long as the publisher only
\* moves on.
LEMMA NumbersStay ==
    ASSUME TypeOK, Alone, NEW p \in Publishers, TakeNumber(p) \/ AppendRing(p) \/ FanOut(p),
           NEW n \in Nat
    PROVE  (Appended(n) => Appended(n)') /\ (Offered(n) => Offered(n)')
<1>. USE DEF busVars
<1>0. \A q \in Publishers : q = p
  BY DEF Alone
<1>1. CASE TakeNumber(p)
  <2>1. seq' = seq + 1 /\ seq \in Nat
    BY <1>1, AllEvents DEF TakeNumber
  <2>. QED
    BY <2>1 DEF Appended, Offered
<1>2. CASE AppendRing(p)
  <2>1. seq' = seq /\ pub[p].at = "append" /\ pub'[p].at = "fan"
    BY <1>2, PubMoves DEF AppendRing
  <2>. QED
    BY <1>0, <2>1 DEF Appended, Offered
<1>3. CASE FanOut(p)
  <2>1. seq' = seq /\ pub[p].at = "fan" /\ pub'[p].at = "idle"
    BY <1>3, PubMoves DEF FanOut
  <2>. QED
    BY <1>0, <2>1 DEF Appended, Offered
<1>. QED
  BY <1>1, <1>2, <1>3

\* A publisher under way keeps everything in order.
LEMMA PublishOrdered ==
    ASSUME TypeOK, Alone, Ordered, NEW p \in Publishers,
           TakeNumber(p) \/ AppendRing(p) \/ FanOut(p)
    PROVE  Ordered'
<1>. USE DEF busVars, srvVars, clientVars, sockVars
<1>0. (\A q \in Publishers : q = p) /\ seq \in Nat /\ seqRef \in Nat
  BY AllEvents DEF Alone
<1>a. UNCHANGED <<boot, replay, seqRef, got>>
  BY ComingGrows
<1>b. \A n \in Nat : (Appended(n) => Appended(n)') /\ (Offered(n) => Offered(n)')
  BY NumbersStay
<1>1. \A q \in Publishers : pub'[q].at # "idle" => pub'[q].e = <<boot', seq'>>
  BY <1>0, PubMoves DEF Ordered, TakeNumber, AppendRing, FanOut
<1>2. InOrder(ring') /\ \A e \in Range(ring') : Appended(Number(e))'
  <2>1. CASE AppendRing(p)
    <3>a. seq' = seq /\ pub[p].at = "append" /\ pub'[p].at = "fan"
      BY <2>1, PubMoves DEF AppendRing
    <3>b. pub[p].e = <<boot, seq>>
      BY <3>a DEF Ordered
    <3>1. Number(pub[p].e) = seq /\ seq' = seq /\ pub[p].at = "append" /\ pub'[p].at = "fan"
      BY <3>a, <3>b DEF Number
    <3>2. \A f \in Range(ring) : Number(f) < Number(pub[p].e) /\ Number(f) \in Nat
      BY <3>1, AllEvents DEF Ordered, Appended
    <3>3. InOrder(ring') /\ Range(ring') \subseteq Range(ring) \cup {pub[p].e}
      BY <2>1, <3>2, RingGains DEF Ordered
    <3>4. Appended(seq)'
      BY <1>0, <3>1 DEF Appended
    <3>. QED
      BY <1>b, <3>1, <3>2, <3>3, <3>4 DEF Ordered
  <2>2. CASE ~AppendRing(p)
    <3>1. ring' = ring
      BY <2>2 DEF TakeNumber, FanOut
    <3>. QED
      BY <1>b, <3>1, AllEvents DEF Ordered
  <2>. QED
    BY <2>1, <2>2
<1>3. \A k \in Conns : InOrder(chan'[k]) /\ \A e \in Range(chan'[k]) : Offered(Number(e))'
  <2>1. CASE FanOut(p)
    <3>a. seq' = seq /\ pub[p].at = "fan" /\ pub'[p].at = "idle"
      BY <2>1, PubMoves DEF FanOut
    <3>b. pub[p].e = <<boot, seq>>
      BY <3>a DEF Ordered
    <3>1. Number(pub[p].e) = seq /\ seq' = seq /\ pub[p].at = "fan" /\ pub'[p].at = "idle"
      BY <3>a, <3>b DEF Number
    <3>2. Offered(seq)'
      BY <1>0, <3>1 DEF Offered
    <3>3. ASSUME NEW k \in Conns
          PROVE  InOrder(chan'[k]) /\ \A e \in Range(chan'[k]) : Offered(Number(e))'
      <4>1. /\ chan[k] \in Seq(Event) /\ pub[p].e \in Event /\ InOrder(chan[k])
            /\ \A e \in Range(chan[k]) : Offered(Number(e)) /\ Number(e) \in Nat
        BY <2>1, AllEvents, ChannelsGain DEF Ordered, TypeOK
      <4>2. \A e \in Range(chan[k]) : Number(e) < Number(pub[p].e)
        BY <3>1, <4>1 DEF Offered
      <4>3. InOrder(Append(chan[k], pub[p].e))
        BY <4>1, <4>2, OrderAppend
      <4>. QED
        BY <1>b, <2>1, <3>1, <3>2, <4>1, <4>3, ChannelsGain
    <3>. QED
      BY <3>3
  <2>2. CASE ~FanOut(p)
    <3>1. chan' = chan
      BY <2>2 DEF TakeNumber, AppendRing
    <3>. QED
      BY <1>b, <3>1, AllEvents DEF Ordered
  <2>. QED
    BY <2>1, <2>2
<1>4. \A k \in Conns : InOrder(replay'[k]) /\ \A e \in Range(replay'[k]) : Appended(Number(e))'
  BY <1>a, <1>b, AllEvents DEF Ordered
<1>5. /\ Appended(seqRef)' /\ \A e \in got' : Number(e) <= seqRef'
      /\ seqRef' > 0 => \E e \in got' : Number(e) = seqRef'
  BY <1>0, <1>a, <1>b DEF Ordered, Appended
<1>. QED
  BY <1>1, <1>2, <1>3, <1>4, <1>5 DEF Ordered

\* What a handler sends was appended and offered before, and what comes after
\* it has a higher number.
LEMMA SendOrdered ==
    ASSUME TypeOK, Ordered, NEW k \in Conns, Send(k)
    PROVE  Ordered'
<1>. USE DEF busVars, srvVars, clientVars, sockVars
<1>1. PICK e \in Event :
         /\ Receive(k, e)
         /\ \/ /\ replay[k] # <<>> /\ replay'[k] = Tail(replay[k]) /\ chan'[k] = chan[k]
               /\ Range(replay[k]) = {e} \cup Range(replay'[k])
            \/ /\ chan[k] # <<>> /\ chan'[k] = Tail(chan[k]) /\ replay'[k] = replay[k]
               /\ Range(chan[k]) = {e} \cup Range(chan'[k])
  BY SendCases
<1>2. UNCHANGED <<boot, seq, ring, pub>>
  BY SendKeeps
<1>3. \A n : (Appended(n)' <=> Appended(n)) /\ (Offered(n)' <=> Offered(n))
  BY <1>2 DEF Appended, Offered
<1>4. Appended(Number(e)) /\ Number(e) \in Nat /\ Number(e) > 0 /\ seqRef \in Nat
      /\ \A f \in got : Number(f) \in Nat
  <2>1. e \in Range(replay[k]) \/ e \in Range(chan[k])
    BY <1>1
  <2>2. e \in Range(chan[k]) => Appended(Number(e))
    BY DEF Ordered, Offered, Appended
  <2>. QED
    BY <2>1, <2>2, AllEvents DEF Ordered
<1>5. /\ Appended(seqRef') /\ \A f \in got' : Number(f) <= seqRef'
      /\ seqRef' > 0 => \E f \in got' : Number(f) = seqRef'
  BY <1>1, <1>4 DEF Ordered, Receive
<1>6. ASSUME NEW l \in Conns
      PROVE  /\ InOrder(replay'[l]) /\ \A f \in Range(replay'[l]) : Appended(Number(f))
             /\ InOrder(chan'[l]) /\ \A f \in Range(chan'[l]) : Offered(Number(f))
  <2>1. CASE l # k
    BY <2>1, SendCases DEF Ordered
  <2>2. CASE l = k
    <3>1. chan[k] \in Seq(Event) /\ replay[k] \in Seq(Event)
      BY DEF TypeOK
    <3>2. replay[k] # <<>> => InOrder(Tail(replay[k]))
      BY <3>1, OrderTail DEF Ordered
    <3>3. chan[k] # <<>> => InOrder(Tail(chan[k]))
      BY <3>1, OrderTail DEF Ordered
    <3>. QED
      BY <1>1, <2>2, <3>2, <3>3 DEF Ordered
  <2>. QED
    BY <2>1, <2>2
<1>. QED
  BY <1>2, <1>3, <1>5, <1>6 DEF Ordered

\* The steps of a connection that send nothing.
LEMMA QuietOrdered ==
    ASSUME TypeOK, Ordered,
           \/ \E k \in Conns : Accept(k) \/ Subscribe(k) \/ ReadReplay(k) \/ Leave(k)
           \/ UNCHANGED <<busVars, srvVars, seqRef, got>>
    PROVE  Ordered'
<1>. USE DEF busVars, srvVars, clientVars, sockVars
<1>1. UNCHANGED <<boot, seq, ring, pub, seqRef, got>>
  BY DEF Accept, Subscribe, ReadReplay, Leave
<1>2. \A n : (Appended(n)' <=> Appended(n)) /\ (Offered(n)' <=> Offered(n))
  BY <1>1 DEF Appended, Offered
<1>3. InOrder(<<>>)
  BY EmptySeq DEF InOrder
<1>4. ASSUME NEW l \in Conns
      PROVE  /\ chan'[l] = chan[l] \/ chan'[l] = <<>>
             /\ \/ replay'[l] = replay[l] \/ replay'[l] = <<>>
                \/ since[l] \in Nat /\ replay'[l] = Since(since[l])
  BY AllEvents DEF Accept, Subscribe, ReadReplay, Leave, TypeOK
<1>5. \A n \in Nat : InOrder(Since(n)) /\ Range(Since(n)) \subseteq Range(ring)
  <2>1. ring \in Seq(Event) /\ InOrder(ring)
    BY DEF TypeOK, Ordered
  <2>. QED
    BY <2>1, SinceFacts
<1>6. ASSUME NEW l \in Conns
      PROVE  /\ InOrder(replay'[l]) /\ \A f \in Range(replay'[l]) : Appended(Number(f))
             /\ InOrder(chan'[l]) /\ \A f \in Range(chan'[l]) : Offered(Number(f))
  BY <1>3, <1>4, <1>5, RangeEmpty DEF Ordered
<1>. QED
  BY <1>1, <1>2, <1>6 DEF Ordered

\* What the steps of a connection that send nothing leave of the others.
LEMMA ConnectionSteps ==
    ASSUME TypeOK, NEW j \in Conns, Accept(j) \/ Subscribe(j) \/ ReadReplay(j) \/ Leave(j)
    PROVE  /\ UNCHANGED <<busVars, clientVars, since, excused>>
           /\ \A k \in Conns \ {j} :
                 /\ srv'[k] = srv[k] /\ chan'[k] = chan[k]
                 /\ replay'[k] = replay[k] /\ sock'[k] = sock[k]
           /\ \/ /\ sock[j] = "connecting" /\ srv[j] = "none" /\ sock'[j] = "open"
                 /\ srv'[j] = "accepted" /\ chan'[j] = chan[j] /\ replay'[j] = replay[j]
              \/ /\ srv[j] = "accepted" /\ srv'[j] = "subscribed" /\ chan'[j] = chan[j]
                 /\ replay'[j] = replay[j] /\ sock'[j] = sock[j]
              \/ /\ srv[j] = "subscribed" /\ srv'[j] = "serving" /\ chan'[j] = chan[j]
                 /\ sock'[j] = sock[j]
                 /\ replay'[j] = IF since[j] > 0 THEN Since(since[j]) ELSE <<>>
              \/ /\ sock[j] \in {"none", "closing"} /\ sock'[j] = sock[j]
                 /\ srv'[j] = "none" /\ chan'[j] = <<>>
<1>. USE DEF busVars, srvVars, clientVars, sockVars
<1>1. CASE Accept(j)
  BY <1>1 DEF Accept, TypeOK
<1>2. CASE Subscribe(j)
  BY <1>2 DEF Subscribe, TypeOK
<1>3. CASE ReadReplay(j)
  BY <1>3 DEF ReadReplay, TypeOK
<1>4. CASE Leave(j)
  BY <1>4 DEF Leave, TypeOK
<1>. QED
  BY <1>1, <1>2, <1>3, <1>4

\* The client's own steps, and none.
Idle ==
    /\ UNCHANGED <<busVars, srvVars, seqRef, got, excused>>
    /\ \A k \in Conns :
          \/ sock'[k] = sock[k] /\ since'[k] = since[k]
          \/ sock'[k] = "connecting" /\ since'[k] = seqRef /\ srv[k] = "none"
          \/ sock'[k] \in {"closing", "none"}

\* When the daemon stays up and no other tab interferes, a step is one of a
\* publisher, of a handler, or of the client.
LEMMA StepCases ==
    ASSUME TypeOK, Alone, ~TokenChanges, [Next]_vars
    PROVE  \/ \E p \in Publishers : TakeNumber(p) \/ AppendRing(p) \/ FanOut(p)
           \/ \E k \in Conns : Accept(k) \/ Subscribe(k) \/ ReadReplay(k) \/ Leave(k)
           \/ \E k \in Conns : Send(k)
           \/ Idle
<1>1. ~Restart
  BY DEF Alone, Restart, TypeOK
<1>2. CASE UNCHANGED vars
  BY <1>2 DEF vars, Idle, busVars, srvVars, clientVars, sockVars
<1>3. ASSUME \/ TimerFires
             \/ \E stored \in BOOLEAN : TokenChange(stored)
             \/ Login
             \/ Logout
             \/ \E k \in Conns : Break(k) \/ OnClose(k)
      PROVE  Idle
  BY <1>3, ClientSteps, ClientMoves DEF Idle
<1>. QED
  BY <1>1, <1>2, <1>3 DEF Next

\* Every step keeps the sessions.
LEMMA SessionStep ==
    ASSUME TypeOK, OneSlot, Alone, ~TokenChanges, [Next]_vars,
           \A k \in Conns : Session(k)
    PROVE  \A k \in Conns : Session(k)'
<1>. USE DEF busVars, srvVars, clientVars, sockVars
<1>1. ASSUME NEW p \in Publishers, TakeNumber(p) \/ AppendRing(p) \/ FanOut(p),
             NEW k \in Conns
      PROVE  Session(k)'
  <2>1. UNCHANGED <<srv, sock, since, seqRef>> /\ (k \notin Subscribers => chan'[k] = chan[k])
    BY <1>1, ComingGrows
  <2>. QED
    BY <2>1 DEF Session, Live, Subscribers
<1>2. ASSUME NEW j \in Conns, Accept(j) \/ Subscribe(j) \/ ReadReplay(j) \/ Leave(j),
             NEW k \in Conns
      PROVE  Session(k)'
  <2>1. CASE k # j
    BY <1>2, <2>1, ConnectionSteps DEF Session, Live
  <2>2. CASE k = j
    BY <1>2, <2>2, ConnectionSteps DEF Session, Live
  <2>. QED
    BY <2>1, <2>2
<1>3. ASSUME NEW j \in Conns, Send(j), NEW k \in Conns PROVE Session(k)'
  <2>1. /\ UNCHANGED <<srv, sock, since>> /\ srv[j] = "serving"
        /\ sock[j] # "open" => seqRef' = seqRef
    BY <1>3, SendKeeps DEF Send
  <2>2. seqRef <= seqRef' /\ since[k] \in Nat /\ seqRef \in Nat /\ seqRef' \in Nat
    <3>1. PICK e \in Event : Receive(j, e)
      BY <1>3, SendCases
    <3>. QED
      BY <3>1, AllEvents DEF Receive
  <2>3. k # j => chan'[k] = chan[k]
    BY <1>3, SendCases
  <2>4. k \in Live /\ srv[k] # "serving" => sock[j] # "open"
    BY <2>1 DEF OneSlot, Live
  <2>. QED
    BY <2>1, <2>2, <2>3, <2>4 DEF Session, Live
<1>4. ASSUME Idle, NEW k \in Conns PROVE Session(k)'
  BY <1>4, AllEvents DEF Idle, Session, Live
<1>. QED
  BY <1>1, <1>2, <1>3, <1>4, StepCases

\* Every step keeps the replay in turn.
LEMMA ReplayStep ==
    ASSUME TypeOK, OneSlot, Alone, ~TokenChanges, [Next]_vars, Ordered,
           \A k \in Conns : ReplayInTurn(k)
    PROVE  \A k \in Conns : ReplayInTurn(k)'
<1>. USE DEF busVars, srvVars, clientVars, sockVars
<1>1. ASSUME NEW p \in Publishers, TakeNumber(p) \/ AppendRing(p) \/ FanOut(p),
             NEW k \in Conns
      PROVE  ReplayInTurn(k)'
  <2>1. UNCHANGED <<srv, sock, since, replay, got>>
    BY <1>1, ComingGrows
  <2>2. CASE AppendRing(p)
    <3>1. /\ Range(ring') \subseteq Range(ring) \cup {pub[p].e}
          /\ pub[p].at = "append"
      BY <2>2, RingGains DEF AppendRing
    <3>2. pub[p].e = <<boot, seq>>
      BY <3>1 DEF Ordered
    <3>3. \A r \in Range(replay[k]) : Number(r) \in Nat /\ Number(r) < seq /\ seq \in Nat
      BY <3>1, AllEvents DEF Ordered, Appended
    <3>4. Number(pub[p].e) = seq
      BY <3>2 DEF Number
    <3>5. \A r \in Range(replay[k]) : ~(Number(pub[p].e) < Number(r))
      BY <3>3, <3>4
    <3>. QED
      BY <2>1, <3>1, <3>5 DEF ReplayInTurn
  <2>3. CASE ~AppendRing(p)
    <3>1. ring' = ring
      BY <1>1, <2>3 DEF TakeNumber, FanOut
    <3>. QED
      BY <2>1, <3>1 DEF ReplayInTurn
  <2>. QED
    BY <2>2, <2>3
<1>2. ASSUME NEW j \in Conns, Accept(j) \/ Subscribe(j) \/ ReadReplay(j) \/ Leave(j),
             NEW k \in Conns
      PROVE  ReplayInTurn(k)'
  <2>0. UNCHANGED <<ring, since, got>>
    BY <1>2, ConnectionSteps
  <2>1. CASE \/ k # j
             \/ srv'[k] # "serving"
             \/ sock'[k] # "open"
    BY <1>2, <2>0, <2>1, ConnectionSteps DEF ReplayInTurn
  <2>2. CASE k = j /\ srv'[k] = "serving" /\ sock'[k] = "open"
    <3>1. replay'[k] = IF since[k] > 0 THEN Since(since[k]) ELSE <<>>
      BY <1>2, <2>2, ConnectionSteps
    <3>2. ring \in Seq(Event) /\ since[k] \in Nat
      BY AllEvents DEF TypeOK
    <3>3. since[k] > 0 => Range(replay'[k]) = {f \in Range(ring) : Number(f) > since[k]}
      BY <3>1, <3>2, SinceFacts
    <3>4. since[k] = 0 => replay'[k] = <<>>
      BY <3>1
    <3>5. \A e \in Range(ring) : Number(e) \in Nat
      BY AllEvents
    <3>. QED
      BY <2>0, <3>2, <3>3, <3>4, <3>5, RangeEmpty DEF ReplayInTurn
  <2>. QED
    BY <2>1, <2>2
<1>3. ASSUME NEW j \in Conns, Send(j), NEW k \in Conns PROVE ReplayInTurn(k)'
  <2>1. UNCHANGED <<ring, srv, sock, since>> /\ got \subseteq got'
    BY <1>3, SendKeeps
  <2>2. CASE k # j
    <3>1. replay'[k] = replay[k]
      BY <1>3, <2>2, SendCases
    <3>. QED
      BY <2>1, <3>1 DEF ReplayInTurn
  <2>3. CASE k = j /\ sock[k] = "open" /\ srv[k] = "serving"
    <3>1. PICK e \in Event :
             /\ Receive(k, e)
             /\ \/ replay[k] # <<>> /\ Range(replay[k]) = {e} \cup Range(replay'[k])
                \/ replay'[k] = replay[k]
      BY <1>3, <2>3, SendCases
    <3>2. e \in got'
      BY <2>3, <3>1 DEF Receive
    <3>. QED
      BY <2>1, <2>3, <3>1, <3>2 DEF ReplayInTurn
  <2>. QED
    BY <2>1, <2>2, <2>3 DEF ReplayInTurn
<1>4. ASSUME Idle, NEW k \in Conns PROVE ReplayInTurn(k)'
  BY <1>4 DEF Idle, ReplayInTurn
<1>. QED
  BY <1>1, <1>2, <1>3, <1>4, StepCases

\* Every step keeps the channels in turn.
LEMMA ChannelStep ==
    ASSUME TypeOK, OneSlot, Alone, ~TokenChanges, [Next]_vars, Ordered,
           \A k \in Conns : Session(k) /\ ReplayInTurn(k) /\ ChannelInTurn(k)
    PROVE  \A k \in Conns : ChannelInTurn(k)'
<1>. USE DEF busVars, srvVars, clientVars, sockVars
<1>0. /\ seq \in Nat /\ seqRef \in Nat
      /\ \A f \in got : Number(f) \in Nat /\ Number(f) > 0
      /\ \A k \in Conns : since[k] \in Nat /\ \A f \in Range(chan[k]) : Number(f) \in Nat
  BY AllEvents
<1>1. ASSUME NEW p \in Publishers, TakeNumber(p) \/ AppendRing(p) \/ FanOut(p),
             NEW k \in Conns, k \in Live
      PROVE  ChannelInTurn(k)'
  <2>1. /\ UNCHANGED <<sock, since, got>> /\ seqRef <= seq
        /\ Range(chan'[k]) \subseteq Range(chan[k]) \cup BeingOffered
    BY <1>1, ComingGrows DEF Ordered, Appended
  <2>2. \A e \in BeingOffered : Number(e) = seq /\ \E q \in Publishers : pub[q].at # "idle"
    BY OfferedIsLast
  <2>3. \A n \in Nat : Offered(n) => Offered(n)' /\ n <= seq
    BY <1>1, NumbersStay DEF Offered
  <2>4. \A n \in Nat, e \in BeingOffered : Offered(n) => n < Number(e)
    BY <2>2 DEF Offered
  <2>5. since[k] <= seqRef
    BY <1>1 DEF Session
  <2>6. \A e \in Range(chan'[k]) : since[k] <= Number(e)
    BY <1>0, <1>1, <2>1, <2>2, <2>5 DEF ChannelInTurn
  <2>7. since[k] > 0 => \E f \in got : Number(f) = since[k]
    BY <1>1 DEF ChannelInTurn
  <2>8. since[k] = 0 => \A f \in got :
           Offered(Number(f))' /\ \A e \in Range(chan'[k]) : Number(f) < Number(e)
    BY <1>0, <1>1, <2>1, <2>3, <2>4 DEF ChannelInTurn
  <2>. QED
    BY <2>1, <2>6, <2>7, <2>8 DEF ChannelInTurn
<1>2. ASSUME NEW j \in Conns, Accept(j) \/ Subscribe(j) \/ ReadReplay(j) \/ Leave(j),
             NEW k \in Conns, (k \in Live)'
      PROVE  ChannelInTurn(k)'
  <2>1. UNCHANGED <<seq, pub, since, got>> /\ k \in Live /\ chan'[k] = chan[k]
    BY <1>2, ConnectionSteps DEF Live
  <2>2. \A n : Offered(n)' <=> Offered(n)
    BY <2>1 DEF Offered
  <2>. QED
    BY <2>1, <2>2 DEF ChannelInTurn
<1>3. ASSUME NEW j \in Conns, Send(j), NEW k \in Conns, k \in Live
      PROVE  ChannelInTurn(k)'
  <2>1. /\ UNCHANGED <<seq, pub, sock, since>> /\ got \subseteq got' /\ srv[j] = "serving"
        /\ sock[j] # "open" => got' = got
    BY <1>3, SendKeeps DEF Send
  <2>2. \A n : Offered(n)' <=> Offered(n)
    BY <2>1 DEF Offered
  <2>3. CASE k # j
    <3>1. chan'[k] = chan[k] /\ got' = got
      BY <1>3, <2>1, <2>3, SendCases DEF OneSlot, Live
    <3>. QED
      BY <1>3, <2>1, <2>2, <3>1 DEF ChannelInTurn
  <2>4. CASE k = j
    <3>1. sock[k] = "open"
      BY <1>3, <2>1, <2>4 DEF Session, Live
    <3>2. PICK e \in Event :
             /\ Receive(k, e)
             /\ \/ replay[k] # <<>> /\ chan'[k] = chan[k]
                \/ /\ chan[k] # <<>> /\ e = Head(chan[k]) /\ chan'[k] = Tail(chan[k])
                   /\ Range(chan[k]) = {e} \cup Range(chan'[k])
      BY <1>3, <2>4, SendCases
    <3>3. got' = got \cup {e} /\ Range(chan'[k]) \subseteq Range(chan[k])
      BY <3>1, <3>2 DEF Receive
    <3>4. /\ \A f \in Range(chan'[k]) : since[k] <= Number(f)
          /\ since[k] > 0 => \E f \in got' : Number(f) = since[k]
      BY <1>3, <3>3 DEF ChannelInTurn
    <3>5. ASSUME since[k] = 0
          PROVE  /\ e \in Range(chan[k])
                 /\ \A f \in Range(chan'[k]) : Number(e) < Number(f)
      <4>1. replay[k] = <<>>
        BY <2>1, <2>4, <3>1, <3>5 DEF ReplayInTurn
      <4>2. chan[k] \in Seq(Event) /\ InOrder(chan[k])
        BY DEF TypeOK, Ordered
      <4>. QED
        BY <3>2, <4>1, <4>2, OrderTail
    <3>6. since[k] = 0 => \A f \in got' :
             Offered(Number(f)) /\ \A g \in Range(chan'[k]) : Number(f) < Number(g)
      BY <1>3, <3>3, <3>5 DEF ChannelInTurn, Ordered
    <3>. QED
      BY <2>1, <2>2, <3>4, <3>6 DEF ChannelInTurn
  <2>. QED
    BY <2>3, <2>4
<1>4. ASSUME Idle, NEW k \in Conns, (k \in Live)' PROVE ChannelInTurn(k)'
  <2>1. UNCHANGED <<seq, pub, chan, got, seqRef>>
    BY <1>4 DEF Idle
  <2>2. \A n : Offered(n)' <=> Offered(n)
    BY <2>1 DEF Offered
  <2>3. CASE k \in Live /\ since'[k] = since[k]
    BY <2>1, <2>2, <2>3 DEF ChannelInTurn
  <2>4. CASE srv[k] = "none" /\ since'[k] = seqRef
    <3>1. Range(chan'[k]) = {}
      BY <2>1, <2>4, RangeEmpty DEF Session
    <3>2. seqRef = 0 => got = {}
      BY <1>0 DEF Ordered
    <3>3. seqRef > 0 => \E f \in got : Number(f) = seqRef
      BY DEF Ordered
    <3>. QED
      BY <2>1, <2>4, <3>1, <3>2, <3>3 DEF ChannelInTurn
  <2>. QED
    BY <1>4, <2>3, <2>4 DEF Idle, Live
<1>5. \A k \in Conns : (k \notin Live)' => ChannelInTurn(k)'
  BY DEF ChannelInTurn
<1>6. ASSUME NEW p \in Publishers, TakeNumber(p) \/ AppendRing(p) \/ FanOut(p),
             NEW k \in Conns
      PROVE  ChannelInTurn(k)'
  <2>1. (k \in Live)' => k \in Live
    BY <1>6, ComingGrows DEF Live
  <2>. QED
    BY <1>1, <1>5, <1>6, <2>1
<1>7. ASSUME NEW j \in Conns, Send(j), NEW k \in Conns PROVE ChannelInTurn(k)'
  <2>1. (k \in Live)' => k \in Live
    BY <1>7, SendKeeps DEF Live
  <2>. QED
    BY <1>3, <1>5, <1>7, <2>1
<1>. QED
  BY <1>2, <1>4, <1>5, <1>6, <1>7, StepCases

\* During one boot, wanted is what comes after something received.
LEMMA WantedIsLater ==
    ASSUME TypeOK, Alone, NEW e \in Event
    PROVE  Wanted(e) <=> \E f \in got : Number(f) < Number(e)
<1>1. \A f \in Event : f[1] = 1
  BY NumberType DEF Alone
<1>. QED
  BY <1>1, AllEvents DEF Wanted, Number

\* Every step keeps the first connection whole.
LEMMA FirstStep ==
    ASSUME TypeOK, OneSlot, Alone, ~TokenChanges, [Next]_vars, Ordered,
           \A k \in Conns : Session(k) /\ ReplayInTurn(k) /\ FirstWhole(k)
    PROVE  \A k \in Conns : FirstWhole(k)'
<1>. USE DEF busVars, srvVars, clientVars, sockVars
<1>0. /\ seq \in Nat /\ seqRef \in Nat
      /\ \A f \in got : Number(f) \in Nat /\ Number(f) > 0 /\ Number(f) <= seqRef
  BY AllEvents DEF Ordered
<1>1. \A k \in Conns :
         k \in Live /\ since[k] = 0 /\ srv[k] \in {"none", "accepted"} =>
            got = {} /\ Range(chan[k]) = {}
  BY <1>0, RangeEmpty DEF Session
<1>2. ASSUME NEW p \in Publishers, TakeNumber(p) \/ AppendRing(p) \/ FanOut(p),
             NEW k \in Conns
      PROVE  FirstWhole(k)'
  <2>. SUFFICES ASSUME sock[k] = "open", since[k] = 0, NEW e \in Range(ring'),
                       NEW f \in got \cup Range(chan'[k]), Number(f) < Number(e)
                PROVE  e \in got \cup excused' \cup Range(chan'[k]) \cup BeingOffered'
    BY <1>2, ComingGrows DEF FirstWhole
  <2>1. e \in BeingOffered' \/ e \in Range(ring)
    BY <1>2, ComingGrows
  <2>2. CASE e \in Range(ring)
    <3>1. Number(e) <= seq /\ Number(e) \in Nat
      BY <2>2, AllEvents DEF Ordered, Appended
    <3>2. f \notin BeingOffered
      BY <1>0, <3>1, OfferedIsLast
    <3>3. f \in got \cup Range(chan[k])
      BY <1>2, <3>2, ComingGrows
    <3>4. e \in got \cup excused \cup Range(chan[k]) \cup BeingOffered
      BY <2>2, <3>3 DEF FirstWhole
    <3>5. k \in Subscribers
      BY <1>1, <3>3 DEF Session, Live, Subscribers, TypeOK, SrvStates
    <3>. QED
      BY <1>2, <3>4, <3>5, ComingGrows
  <2>. QED
    BY <2>1, <2>2
<1>3. ASSUME NEW j \in Conns, Accept(j) \/ Subscribe(j) \/ ReadReplay(j) \/ Leave(j),
             NEW k \in Conns
      PROVE  FirstWhole(k)'
  <2>1. UNCHANGED <<ring, pub, since, got, excused>>
    BY <1>3, ConnectionSteps
  <2>2. CASE sock[k] = "open"
    <3>1. sock'[k] = sock[k] /\ chan'[k] = chan[k]
      BY <1>3, <2>2, ConnectionSteps
    <3>. QED
      BY <2>1, <3>1 DEF FirstWhole, BeingOffered
  <2>3. CASE sock[k] # "open" /\ sock'[k] = "open" /\ since[k] = 0
    <3>1. k \in Live /\ srv[k] = "none" /\ chan'[k] = chan[k]
      BY <1>3, <2>3, ConnectionSteps DEF Live
    <3>. QED
      BY <1>1, <2>1, <2>3, <3>1 DEF FirstWhole
  <2>. QED
    BY <2>1, <2>2, <2>3 DEF FirstWhole
<1>4. ASSUME NEW j \in Conns, Send(j), NEW k \in Conns PROVE FirstWhole(k)'
  <2>1. /\ UNCHANGED <<ring, sock, since, excused>> /\ BeingOffered' = BeingOffered
        /\ sock[j] # "open" => got' = got
        /\ srv[j] = "serving"
    BY <1>4, SendKeeps DEF Send
  <2>2. CASE k # j /\ sock[k] = "open"
    <3>1. got' = got /\ chan'[k] = chan[k]
      BY <1>4, <2>1, <2>2, SendCases DEF OneSlot
    <3>. QED
      BY <2>1, <3>1 DEF FirstWhole
  <2>3. CASE k = j /\ sock[k] = "open" /\ since[k] = 0
    <3>1. replay[k] = <<>>
      BY <2>1, <2>3 DEF ReplayInTurn
    <3>2. PICK e \in Event :
             Receive(k, e) /\ Range(chan[k]) = {e} \cup Range(chan'[k])
      BY <1>4, <2>3, <3>1, SendCases
    <3>3. got' = got \cup {e}
      BY <2>3, <3>2 DEF Receive
    <3>4. got' \cup Range(chan'[k]) = got \cup Range(chan[k])
      BY <3>2, <3>3
    <3>. QED
      BY <2>1, <2>3, <3>4 DEF FirstWhole
  <2>. QED
    BY <2>1, <2>2, <2>3 DEF FirstWhole
<1>5. ASSUME Idle, NEW k \in Conns PROVE FirstWhole(k)'
  BY <1>5 DEF Idle, FirstWhole, BeingOffered
<1>. QED
  BY <1>2, <1>3, <1>4, <1>5, StepCases

\* A message that reaches the client leaves nothing behind it that the client
\* will not ask for.
LEMMA ReceiveSeen ==
    ASSUME TypeOK, OneSlot, Alone, HandoverWhole, Whole, NEW j \in Conns, Send(j),
           sock[j] = "open",
           NEW e \in Range(ring), Wanted(e)', Number(e) <= seqRef', e \notin excused
    PROVE  e \in got'
<1>. SUFFICES ASSUME e \notin got' PROVE FALSE
  OBVIOUS
<1>1. PICK d \in Event :
         /\ Receive(j, d)
         /\ \/ replay[j] # <<>> /\ d = Head(replay[j])
            \/ replay[j] = <<>> /\ chan[j] # <<>> /\ d = Head(chan[j])
  BY SendCases
<1>2. /\ srv[j] = "serving" /\ got' = got \cup {d}
      /\ seqRef' = IF Number(d) > seqRef THEN Number(d) ELSE seqRef
  BY <1>1 DEF Send, Receive
<1>3. /\ e \in Event /\ seq \in Nat /\ seqRef \in Nat /\ since[j] \in Nat
      /\ Number(e) \in Nat /\ Number(d) \in Nat /\ Number(e) > 0
      /\ \A f \in got : Number(f) \in Nat
  BY AllEvents
<1>4. Number(e) # Number(d)
  BY <1>2, <1>3, EventIsNumber DEF Alone
<1>5. PICK f \in got' : Number(f) < Number(e)
  <2>1. Wanted(e)' => \E f \in got' : f[1] = e[1] /\ f[2] < e[2]
    BY DEF Wanted
  <2>. QED
    BY <2>1 DEF Number
<1>6. /\ Session(j) /\ ReplayInTurn(j) /\ ChannelInTurn(j) /\ FirstWhole(j) /\ Ordered
      /\ SeenWhole /\ j \in Live
  BY DEF Whole, Live
<1>7. ASSUME e \in Range(replay[j]), d = Head(replay[j]), replay[j] # <<>>
      PROVE  Number(d) < Number(e)
  <2>1. replay[j] \in Seq(Event) /\ InOrder(replay[j])
    BY <1>6 DEF Ordered, TypeOK
  <2>. QED
    BY <1>2, <1>7, <2>1, RangeTail, OrderTail
<1>8. ASSUME e \in Range(chan[j]) \cup BeingOffered, d = Head(chan[j]), chan[j] # <<>>
      PROVE  Number(d) < Number(e)
  <2>1. chan[j] \in Seq(Event) /\ InOrder(chan[j])
    BY <1>6 DEF Ordered, TypeOK
  <2>2. CASE e \in Range(chan[j])
    BY <1>2, <1>8, <2>1, <2>2, RangeTail, OrderTail
  <2>3. CASE e \in BeingOffered
    <3>1. Number(e) = seq /\ \E p \in Publishers : pub[p].at = "fan"
      BY <1>6, <2>3, OfferedIsLast
    <3>2. Offered(Number(d))
      BY <1>6, <1>8, <2>1, RangeTail DEF Ordered
    <3>. QED
      BY <3>1, <3>2 DEF Offered
  <2>. QED
    BY <1>8, <2>2, <2>3
<1>9. CASE Number(e) <= seqRef
  <2>1. ~Wanted(e)
    BY <1>2, <1>6, <1>9 DEF SeenWhole
  <2>2. \A g \in got : ~(Number(g) < Number(e))
    BY <1>3, <2>1, WantedIsLater
  <2>3. Number(d) < Number(e)
    BY <1>2, <1>5, <2>2
  <2>4. CASE since[j] > 0
    <3>1. since[j] <= Number(d)
      <4>1. replay[j] # <<>> => Head(replay[j]) \in Range(replay[j])
        BY RangeTail DEF TypeOK
      <4>2. chan[j] # <<>> => Head(chan[j]) \in Range(chan[j])
        BY RangeTail DEF TypeOK
      <4>. QED
        BY <1>1, <1>2, <1>3, <1>6, <4>1, <4>2 DEF ReplayInTurn, ChannelInTurn
    <3>2. PICK g \in got : Number(g) = since[j]
      BY <1>6, <2>4 DEF ChannelInTurn
    <3>. QED
      BY <1>3, <2>2, <2>3, <3>1, <3>2
  <2>5. CASE since[j] = 0
    <3>1. d = Head(chan[j]) /\ chan[j] # <<>>
      BY <1>1, <1>2, <1>6, <2>5 DEF ReplayInTurn
    <3>2. d \in Range(chan[j])
      BY <3>1, RangeTail DEF TypeOK
    <3>3. PICK g \in got : Number(g) = seqRef
      BY <1>3, <1>6, <1>9 DEF Ordered
    <3>4. Number(g) < Number(d)
      BY <1>6, <2>5, <3>2 DEF ChannelInTurn
    <3>. QED
      BY <1>3, <1>9, <2>3, <3>3, <3>4
  <2>. QED
    BY <1>3, <2>4, <2>5
<1>10. CASE Number(e) > seqRef
  <2>1. Number(e) < Number(d) /\ since[j] < Number(e)
    BY <1>2, <1>3, <1>4, <1>6, <1>10 DEF Session
  <2>2. CASE since[j] > 0
    <3>1. e \in Range(replay[j]) \cup Range(chan[j]) \cup BeingOffered
      BY <1>2, <2>1, <2>2 DEF HandoverWhole, Coming
    <3>2. CASE replay[j] # <<>> /\ d = Head(replay[j])
      <4>1. d \in Range(replay[j])
        BY <3>2, RangeTail DEF TypeOK
      <4>2. e \in Range(replay[j])
        BY <1>2, <1>6, <2>1, <4>1 DEF ReplayInTurn
      <4>. QED
        BY <1>3, <1>7, <2>1, <3>2, <4>2
    <3>3. CASE replay[j] = <<>> /\ chan[j] # <<>> /\ d = Head(chan[j])
      BY <1>3, <1>8, <2>1, <3>1, <3>3, RangeEmpty
    <3>. QED
      BY <1>1, <3>2, <3>3
  <2>3. CASE since[j] = 0
    <3>1. d = Head(chan[j]) /\ chan[j] # <<>>
      BY <1>1, <1>2, <1>6, <2>3 DEF ReplayInTurn
    <3>2. f \in got
      BY <1>2, <1>3, <1>5, <2>1
    <3>3. e \in Range(chan[j]) \cup BeingOffered
      BY <1>2, <1>5, <1>6, <2>3, <3>2 DEF FirstWhole
    <3>. QED
      BY <1>3, <1>8, <2>1, <3>1, <3>3
  <2>. QED
    BY <1>3, <2>2, <2>3
<1>. QED
  BY <1>3, <1>9, <1>10

\* Every step keeps what was seen whole.
LEMMA SeenStep ==
    ASSUME TypeOK, OneSlot, Alone, ~TokenChanges, HandoverWhole, Whole, [Next]_vars
    PROVE  SeenWhole'
<1>. USE DEF busVars, srvVars, clientVars, sockVars
<1>1. ASSUME NEW p \in Publishers, TakeNumber(p) \/ AppendRing(p) \/ FanOut(p)
      PROVE  SeenWhole'
  <2>1. UNCHANGED <<got, seqRef>> /\ excused \subseteq excused'
    BY <1>1, ComingGrows
  <2>2. \A e : Wanted(e)' <=> Wanted(e)
    BY <2>1 DEF Wanted
  <2>3. \A e \in Range(ring') : e \in Range(ring) \/ ~(Number(e) <= seqRef)
    <3>1. CASE AppendRing(p)
      <4>1. Range(ring') \subseteq Range(ring) \cup {pub[p].e} /\ pub[p].at = "append"
        BY <3>1, RingGains DEF AppendRing
      <4>2. pub[p].e = <<boot, seq>> /\ seqRef < seq /\ seq \in Nat /\ seqRef \in Nat
        BY <4>1, AllEvents DEF Whole, Ordered, Appended
      <4>3. Number(pub[p].e) = seq
        BY <4>2 DEF Number
      <4>. QED
        BY <4>1, <4>2, <4>3
    <3>2. CASE ~AppendRing(p)
      <4>1. ring' = ring
        BY <1>1, <3>2 DEF TakeNumber, FanOut
      <4>. QED
        BY <4>1
    <3>. QED
      BY <3>1, <3>2
  <2>. QED
    BY <2>1, <2>2, <2>3 DEF Whole, SeenWhole
<1>2. ASSUME UNCHANGED <<ring, got, seqRef, excused>> PROVE SeenWhole'
  <2>1. \A e : Wanted(e)' <=> Wanted(e)
    BY <1>2 DEF Wanted
  <2>. QED
    BY <1>2, <2>1 DEF Whole, SeenWhole
<1>3. ASSUME NEW j \in Conns, Accept(j) \/ Subscribe(j) \/ ReadReplay(j) \/ Leave(j)
      PROVE  SeenWhole'
  BY <1>2, <1>3, ConnectionSteps
<1>4. ASSUME NEW j \in Conns, Send(j) PROVE SeenWhole'
  <2>1. UNCHANGED <<ring, excused>> /\ (sock[j] # "open" => UNCHANGED <<seqRef, got>>)
    BY <1>4, SendKeeps
  <2>2. CASE sock[j] = "open"
    BY <1>4, <2>1, <2>2, ReceiveSeen DEF SeenWhole
  <2>. QED
    BY <1>2, <2>1, <2>2
<1>5. CASE Idle
  BY <1>2, <1>5 DEF Idle
<1>. QED
  BY <1>1, <1>3, <1>4, <1>5, StepCases

\* Every step keeps the strengthening.
LEMMA WholeStep ==
    ASSUME TypeOK, OneSlot, Alone, ~TokenChanges, HandoverWhole, Whole, [Next]_vars
    PROVE  Whole'
<1>1. Ordered'
  <2>1. Idle => UNCHANGED <<busVars, srvVars, seqRef, got>>
    BY DEF Idle
  <2>. QED
    BY <2>1, StepCases, PublishOrdered, SendOrdered, QuietOrdered DEF Whole
<1>2. \A k \in Conns : Session(k)' /\ ReplayInTurn(k)' /\ ChannelInTurn(k)' /\ FirstWhole(k)'
  BY SessionStep, ReplayStep, ChannelStep, FirstStep DEF Whole
<1>3. SeenWhole'
  BY SeenStep
<1>. QED
  BY <1>1, <1>2, <1>3 DEF Whole

LEMMA InitWhole == Init => Whole /\ HandoverWhole
<1>. SUFFICES ASSUME Init PROVE Whole /\ HandoverWhole
  OBVIOUS
<1>1. /\ Range(ring) = {} /\ InOrder(<<>>) /\ got = {} /\ seq = 0 /\ seqRef = 0
      /\ \A p \in Publishers : pub[p].at = "idle"
      /\ \A k \in Conns : /\ chan[k] = <<>> /\ replay[k] = <<>> /\ srv[k] = "none"
                          /\ Range(chan[k]) = {} /\ Range(replay[k]) = {}
                          /\ since[k] = 0 /\ sock[k] # "open"
      /\ ring = <<>>
  BY RangeEmpty, EmptySeq DEF Init, InOrder
<1>2. Ordered
  BY <1>1 DEF Ordered, Appended
<1>3. \A k \in Conns : Session(k) /\ ReplayInTurn(k) /\ ChannelInTurn(k) /\ FirstWhole(k)
  BY <1>1 DEF Session, ReplayInTurn, ChannelInTurn, FirstWhole
<1>4. SeenWhole /\ HandoverWhole
  BY <1>1 DEF SeenWhole, HandoverWhole
<1>. QED
  BY <1>2, <1>3, <1>4 DEF Whole

\* What the strengthening says of every event in the ring.
LEMMA WholeForgetsNothing ==
    ASSUME TypeOK, OneSlot, Alone, HandoverWhole, Whole
    PROVE  NothingForgotten
<1>. SUFFICES ASSUME NEW e \in Range(ring), Wanted(e), e \notin got \cup excused
              PROVE  \/ \E k \in Live : e \in Coming(k)
                     \/ Live = {} /\ e \in Asked
  BY DEF NothingForgotten
<1>1. /\ e \in Event /\ Number(e) \in Nat /\ seqRef \in Nat
      /\ \A f \in got : Number(f) \in Nat /\ Number(f) > 0
      /\ \A k \in Conns : since[k] \in Nat
  BY AllEvents
<1>2. PICK f \in got : Number(f) < Number(e)
  BY <1>1, WantedIsLater
<1>3. Number(e) > seqRef /\ seqRef > 0
  BY <1>1, <1>2 DEF Whole, SeenWhole, Ordered
<1>4. CASE Live = {}
  BY <1>3, <1>4 DEF Asked
<1>5. ASSUME NEW k \in Live PROVE e \in Coming(k)
  <2>1. k \in Conns /\ Session(k) /\ FirstWhole(k) /\ since[k] <= seqRef
    BY <1>5 DEF Whole, Session, Live
  <2>2. CASE srv[k] # "serving"
    BY <1>3, <1>5, <2>1, <2>2 DEF Session, Coming
  <2>3. CASE srv[k] = "serving"
    <3>1. sock[k] = "open"
      BY <1>5, <2>1, <2>3 DEF Session, Live
    <3>2. CASE since[k] > 0
      BY <1>1, <1>3, <2>1, <3>1, <3>2 DEF HandoverWhole
    <3>3. CASE since[k] = 0
      BY <1>2, <2>1, <2>3, <3>1, <3>3 DEF FirstWhole, Coming
    <3>. QED
      BY <1>1, <2>1, <3>2, <3>3
  <2>. QED
    BY <2>2, <2>3
<1>. QED
  BY <1>4, <1>5

-----------------------------------------------------------------------------
(* The theorems.                                                           *)

\* The types of EventFeed hold for any number of publishers, connections,
\* events and boots: no channel and no replay outgrows its capacity.
THEOREM TypeCorrect == Spec => []TypeOK
<1>1. Init => TypeOK
  BY InitType
<1>2. TypeOK /\ [Next]_vars => TypeOK'
  BY TypeStep
<1>. QED
  BY <1>1, <1>2, PTL DEF Spec

\* Subscribe before Since leaves no hole between the ring and the channel
\* (events.go 50-60), for any number of publishers, whatever order their events
\* enter the ring in, and whatever connections and daemons fail.
THEOREM HandoverIsWhole == Spec => []HandoverWhole
<1>1. Init => HandoverWhole
  BY InitWhole
<1>2. TypeOK /\ HandoverWhole /\ [Next]_vars => HandoverWhole'
  BY HandoverStep
<1>. QED
  BY <1>1, <1>2, TypeCorrect, PTL DEF Spec

\* As long as no other tab changes the token, the client has one connection or
\* one timer armed: onclose lets go of a socket before the timer makes the next
\* (EventStreamContext.tsx, connect and scheduleReconnect).
THEOREM OneConnection ==
    ASSUME ~TokenChanges
    PROVE  Spec => []OneSocket
<1>1. TypeOK /\ OneSlot /\ [Next]_vars => OneSlot'
  BY OneSlotStep
<1>2. TypeOK /\ OneSlot => OneSocket
  BY SlotIsSocket
<1>. QED
  BY <1>1, <1>2, InitSlot, TypeCorrect, PTL DEF Spec

\* With one publisher, during one boot, the client misses no event from the
\* first it has received on, over any number of reconnections, except those that
\* a full channel dropped or the ring lost.  With two publishers, or after a
\* restart, it may.
THEOREM NothingIsForgotten ==
    ASSUME Alone, ~TokenChanges
    PROVE  Spec => []NothingForgotten
<1>1. TypeOK /\ OneSlot /\ [Next]_vars => OneSlot'
  BY OneSlotStep
<1>2. TypeOK /\ OneSlot /\ HandoverWhole /\ Whole /\ [Next]_vars => Whole'
  BY WholeStep
<1>3. TypeOK /\ OneSlot /\ HandoverWhole /\ Whole => NothingForgotten
  BY WholeForgetsNothing
<1>. QED
  BY <1>1, <1>2, <1>3, InitSlot, InitWhole, TypeCorrect, HandoverIsWhole, PTL DEF Spec

=============================================================================
