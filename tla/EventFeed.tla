----------------------------- MODULE EventFeed -----------------------------
(***************************************************************************)
(* The event feed from end to end: the publishers and the ring of          *)
(* internal/eventbus/bus.go, the WebSocket handler of internal/api/        *)
(* events.go, and the client of the web UI, EventStreamContext.tsx.        *)
(*                                                                         *)
(* Any goroutine of the daemon publishes.  An event gets its number, goes  *)
(* into the ring of recent events and is offered to every subscription, in *)
(* three steps with nothing held across them.  A client that reconnects    *)
(* asks for what it missed with since=<highest number it has seen>; the    *)
(* handler subscribes first and reads the ring then, so that what lies     *)
(* between the two is seen twice rather than never.                        *)
(*                                                                         *)
(* One browser tab is modelled.  Its sockets are slots that are used again *)
(* once both ends have let go of them.  A message the server sends while   *)
(* the client's socket is no longer open is lost, which stands for what is *)
(* in flight when a connection breaks.  Filters are left out: the UI sets  *)
(* none.                                                                   *)
(***************************************************************************)
EXTENDS Naturals, Sequences, FiniteSets, Functions

CONSTANTS
    Publishers,       \* goroutines that publish
    Conns,            \* slots for WebSocket connections
    RingCap,          \* capacity of the ring (1024 in main.go)
    ChanCap,          \* capacity of a subscription's channel (128 in events.go)
    MaxSeq,           \* bound on the events of one boot
    MaxBoots,         \* bound on the boots of the daemon
    UserLogs,         \* TRUE if the user logs in and out in this tab
    TokenChanges,     \* TRUE if another tab changes the stored token
    None              \* no connection

ASSUME NoneAssumption == None \notin Conns
ASSUME CapsAssumption ==
    /\ RingCap \in Nat \ {0} /\ ChanCap \in Nat \ {0}
    /\ MaxSeq \in Nat /\ MaxBoots \in Nat \ {0}
ASSUME SwitchesAssumption == UserLogs \in BOOLEAN /\ TokenChanges \in BOOLEAN

VARIABLES
    boot,       \* which boot of the daemon this is
    seq,        \* Bus.seq
    ring,       \* Bus.ring
    pub,        \* pub[p]: where publisher p is in Publish, and its event
    srv,        \* srv[k]: where the handler of connection k is
    chan,       \* chan[k]: the channel of its subscription
    replay,     \* replay[k]: what it has read from the ring and not sent
    sock,       \* sock[k]: the client's socket
    since,      \* since[k]: the since parameter it was opened with
    token,      \* whether localStorage holds a token
    ws,         \* wsRef
    timer,      \* whether reconnectTimerRef is armed
    seqRef,     \* seqRef: the highest number received
    got,        \* history: the events received
    excused     \* history: events dropped on a full channel, or pushed out
                \* of the ring before they were received

busVars    == <<boot, seq, ring, pub>>
srvVars    == <<srv, chan, replay>>
clientVars == <<token, ws, timer, seqRef, got>>
sockVars   == <<sock, since>>
vars == <<busVars, srvVars, clientVars, sockVars, excused>>

Event    == (1..MaxBoots) \X (1..MaxSeq)
Number(e) == e[2]

PubStates  == [at : {"idle"}] \cup [at : {"append", "fan"}, e : Event]
SrvStates  == {"none", "accepted", "subscribed", "serving"}
SockStates == {"none", "connecting", "open", "closing"}

TypeOK ==
    /\ boot \in 1..MaxBoots
    /\ seq \in 0..MaxSeq
    /\ ring \in Seq(Event) /\ Len(ring) <= RingCap
    /\ pub \in [Publishers -> PubStates]
    /\ srv \in [Conns -> SrvStates]
    /\ chan \in [Conns -> Seq(Event)] /\ \A k \in Conns : Len(chan[k]) <= ChanCap
    /\ replay \in [Conns -> Seq(Event)] /\ \A k \in Conns : Len(replay[k]) <= RingCap
    /\ sock \in [Conns -> SockStates]
    /\ since \in [Conns -> 0..MaxSeq]
    /\ token \in BOOLEAN
    /\ ws \in Conns \cup {None}
    /\ timer \in BOOLEAN
    /\ seqRef \in 0..MaxSeq
    /\ got \subseteq Event
    /\ excused \subseteq Event

\* The page has been loaded and has called connect(), which found a token,
\* or none if it is in this tab that users log in.
Init ==
    /\ boot = 1 /\ seq = 0 /\ ring = <<>>
    /\ pub = [p \in Publishers |-> [at |-> "idle"]]
    /\ srv = [k \in Conns |-> "none"]
    /\ chan = [k \in Conns |-> <<>>]
    /\ replay = [k \in Conns |-> <<>>]
    /\ since = [k \in Conns |-> 0]
    /\ \/ /\ token = TRUE
          /\ ws \in Conns
          /\ sock = [k \in Conns |-> IF k = ws THEN "connecting" ELSE "none"]
       \/ /\ token = FALSE /\ UserLogs
          /\ ws = None
          /\ sock = [k \in Conns |-> "none"]
    /\ timer = FALSE /\ seqRef = 0
    /\ got = {} /\ excused = {}

-----------------------------------------------------------------------------
(* Bus.Publish.                                                            *)

\* seq.Add(1).
TakeNumber(p) ==
    /\ pub[p].at = "idle"
    /\ seq < MaxSeq
    /\ seq' = seq + 1
    /\ pub' = [pub EXCEPT ![p] = [at |-> "append", e |-> <<boot, seq + 1>>]]
    /\ UNCHANGED <<boot, ring, srvVars, clientVars, sockVars, excused>>

\* appendRing: a full ring loses its first event.
AppendRing(p) ==
    /\ pub[p].at = "append"
    /\ LET full == Len(ring) = RingCap
       IN  /\ ring' = Append(IF full THEN Tail(ring) ELSE ring, pub[p].e)
           /\ excused' = IF full THEN excused \cup ({Head(ring)} \ got)
                                 ELSE excused
    /\ pub' = [pub EXCEPT ![p].at = "fan"]
    /\ UNCHANGED <<boot, seq, srvVars, clientVars, sockVars>>

\* Mutant: the handler subscribes after it has read and sent the ring.
SubscribersLate == {k \in Conns : srv[k] = "serving" /\ replay[k] = <<>>}

Subscribers == {k \in Conns : srv[k] \in {"subscribed", "serving"}}
Full(k)     == Len(chan[k]) = ChanCap

\* Mutant: Publish sends to a full channel.
FanOutBlindly(p) ==
    /\ pub[p].at = "fan"
    /\ chan' = [k \in Conns |-> IF k \in Subscribers
                                THEN Append(chan[k], pub[p].e) ELSE chan[k]]
    /\ pub' = [pub EXCEPT ![p] = [at |-> "idle"]]
    /\ UNCHANGED <<boot, seq, ring, srv, replay, clientVars, sockVars, excused>>

\* The loop over b.subs, under the read lock of b.mu, which Subscribe and
\* remove exclude: the event is dropped where the channel is full.
FanOut(p) ==
    /\ pub[p].at = "fan"
    /\ chan' = [k \in Conns |-> IF k \in Subscribers /\ ~Full(k)
                                THEN Append(chan[k], pub[p].e) ELSE chan[k]]
    /\ excused' = IF \E k \in Subscribers : Full(k) /\ sock[k] = "open"
                  THEN excused \cup {pub[p].e} ELSE excused
    /\ pub' = [pub EXCEPT ![p] = [at |-> "idle"]]
    /\ UNCHANGED <<boot, seq, ring, srv, replay, clientVars, sockVars>>

-----------------------------------------------------------------------------
(* EventsHandler.Subscribe.                                                *)

\* The upgrade; the client's onopen follows.
Accept(k) ==
    /\ sock[k] = "connecting" /\ srv[k] = "none"
    /\ sock' = [sock EXCEPT ![k] = "open"]
    /\ srv' = [srv EXCEPT ![k] = "accepted"]
    /\ UNCHANGED <<busVars, chan, replay, clientVars, since, excused>>

Subscribe(k) ==
    /\ srv[k] = "accepted"
    /\ srv' = [srv EXCEPT ![k] = "subscribed"]
    /\ UNCHANGED <<busVars, chan, replay, clientVars, sockVars, excused>>

\* The loop of Bus.Since: what it has collected of the first i events.
Collected(n) ==
    LET out[i \in 0..Len(ring)] ==
          IF i = 0 THEN <<>>
          ELSE IF Number(ring[i]) > n THEN Append(out[i - 1], ring[i]) ELSE out[i - 1]
    IN  out

\* Mutant: Since leaves out the first event after n.
SinceOffByOne(n) == Collected(n + 1)[Len(ring)]

\* Bus.Since(n): in the order of the ring, whatever order that is.
Since(n) == Collected(n)[Len(ring)]

\* since=0 is the same as no since: nothing is replayed.
ReadReplay(k) ==
    /\ srv[k] = "subscribed"
    /\ replay' = [replay EXCEPT ![k] = IF since[k] > 0 THEN Since(since[k])
                                                       ELSE <<>>]
    /\ srv' = [srv EXCEPT ![k] = "serving"]
    /\ UNCHANGED <<busVars, chan, clientVars, sockVars, excused>>

\* The client's onmessage: every event is dispatched, and only a higher
\* number is remembered.  A socket that is not open delivers nothing.
Receive(k, e) ==
    IF sock[k] = "open"
    THEN /\ got' = got \cup {e}
         /\ seqRef' = IF Number(e) > seqRef THEN Number(e) ELSE seqRef
         /\ UNCHANGED <<token, ws, timer>>
    ELSE UNCHANGED clientVars

\* The replay is written out before the channel is looked at.
Send(k) ==
    /\ srv[k] = "serving"
    /\ \/ /\ replay[k] # <<>>
          /\ Receive(k, Head(replay[k]))
          /\ replay' = [replay EXCEPT ![k] = Tail(@)]
          /\ UNCHANGED chan
       \/ /\ replay[k] = <<>> /\ chan[k] # <<>>
          /\ Receive(k, Head(chan[k]))
          /\ chan' = [chan EXCEPT ![k] = Tail(@)]
          /\ UNCHANGED replay
    /\ UNCHANGED <<busVars, srv, sockVars, excused>>

\* A write or a ping fails, or the request's context is done: the handler
\* returns and its deferred Unsubscribe drops the channel.
Leave(k) ==
    /\ srv[k] # "none" /\ sock[k] \in {"none", "closing"}
    /\ srv' = [srv EXCEPT ![k] = "none"]
    /\ chan' = [chan EXCEPT ![k] = <<>>]
    /\ replay' = [replay EXCEPT ![k] = <<>>]
    /\ UNCHANGED <<busVars, clientVars, sockVars, excused>>

-----------------------------------------------------------------------------
(* EventStreamProvider.                                                    *)

\* Mutant: connect() does not say what it has seen.
ConnectFromZero(s, has) ==
    IF has
    THEN \E k \in Conns :
            /\ s[k] = "none" /\ srv[k] = "none"
            /\ sock' = [s EXCEPT ![k] = "connecting"]
            /\ since' = [since EXCEPT ![k] = 0]
            /\ ws' = k
    ELSE sock' = s /\ UNCHANGED <<ws, since>>

\* connect(), where s is what the sockets are when it is called and has says
\* whether a token is stored.  Without one the client stays idle.
Connect(s, has) ==
    \/ /\ ~has
       /\ sock' = s
       /\ UNCHANGED <<ws, since>>
    \/ /\ has
       /\ \E k \in Conns :
             /\ s[k] = "none" /\ srv[k] = "none"
             /\ sock' = [s EXCEPT ![k] = "connecting"]
             /\ since' = [since EXCEPT ![k] = seqRef]
             /\ ws' = k

\* The reconnect timer: its handle is cleared, then connect() is called.
TimerFires ==
    /\ timer
    /\ timer' = FALSE
    /\ Connect(sock, token)
    /\ UNCHANGED <<busVars, srvVars, token, seqRef, got, excused>>

\* The connection fails or is lost, seen by the client.
Break(k) ==
    /\ sock[k] \in {"connecting", "open"}
    /\ sock' = [sock EXCEPT ![k] = "closing"]
    /\ UNCHANGED <<busVars, srvVars, clientVars, since, excused>>

\* Mutant: onclose connects at once, and arms the timer too.
OnCloseEager(k) ==
    /\ sock[k] = "closing"
    /\ timer' = TRUE
    /\ Connect([sock EXCEPT ![k] = "none"], token)
    /\ UNCHANGED <<busVars, srvVars, token, seqRef, got, excused>>

\* Mutant: onclose does not schedule a reconnection.
OnCloseGivesUp(k) ==
    /\ sock[k] = "closing"
    /\ sock' = [sock EXCEPT ![k] = "none"]
    /\ ws' = None
    /\ UNCHANGED <<busVars, srvVars, token, timer, seqRef, got, since, excused>>

\* onclose clears wsRef, whichever socket that names by now, and arms the
\* timer unless it is armed already.  The slot's since has no meaning after.
OnClose(k) ==
    /\ sock[k] = "closing"
    /\ sock' = [sock EXCEPT ![k] = "none"]
    /\ since' = [since EXCEPT ![k] = 0]
    /\ ws' = None
    /\ timer' = TRUE
    /\ UNCHANGED <<busVars, srvVars, token, seqRef, got, excused>>

\* Another tab stores a token or removes it: the storage handler closes the
\* socket wsRef names and calls connect() at once.
TokenChange(stored) ==
    /\ TokenChanges
    /\ token' = stored
    /\ Connect(IF ws = None THEN sock ELSE [sock EXCEPT ![ws] = "closing"],
               stored)
    /\ UNCHANGED <<busVars, srvVars, timer, seqRef, got, excused>>

\* Login and logout in this tab store and remove the token, and nothing
\* else: the browser sends storage events to the other tabs only.
Log(stored) ==
    /\ UserLogs
    /\ token # stored
    /\ token' = stored
    /\ UNCHANGED <<busVars, srvVars, ws, timer, seqRef, got, sockVars, excused>>

Login  == Log(TRUE)
Logout == Log(FALSE)

-----------------------------------------------------------------------------
\* The daemon ends and starts again: numbers and ring begin anew, the
\* connections are lost, and the client keeps what it has.
Restart ==
    /\ boot < MaxBoots
    /\ boot' = boot + 1 /\ seq' = 0 /\ ring' = <<>>
    /\ pub' = [p \in Publishers |-> [at |-> "idle"]]
    /\ srv' = [k \in Conns |-> "none"]
    /\ chan' = [k \in Conns |-> <<>>]
    /\ replay' = [k \in Conns |-> <<>>]
    /\ sock' = [k \in Conns |-> IF sock[k] = "none" THEN "none" ELSE "closing"]
    /\ UNCHANGED <<clientVars, since, excused>>

Next ==
    \/ \E p \in Publishers : TakeNumber(p) \/ AppendRing(p) \/ FanOut(p)
    \/ \E k \in Conns :
          \/ Accept(k) \/ Subscribe(k) \/ ReadReplay(k) \/ Send(k) \/ Leave(k)
          \/ Break(k) \/ OnClose(k)
    \/ TimerFires
    \/ \E stored \in BOOLEAN : TokenChange(stored)
    \/ Login \/ Logout
    \/ Restart

Spec == Init /\ [][Next]_vars

-----------------------------------------------------------------------------
(* Fairness.  Goroutines and callbacks that can run do run.  The network   *)
(* owes nothing to one connection, but if the client tries for ever, some  *)
(* attempts succeed, and some connections last until the handler has       *)
(* subscribed, read the ring and got a message through.                    *)

FairSpec ==
    /\ Spec
    /\ \A p \in Publishers : WF_vars(AppendRing(p) \/ FanOut(p))
    /\ \A k \in Conns : /\ WF_vars(Subscribe(k) \/ ReadReplay(k))
                       /\ WF_vars(Leave(k))
                       /\ WF_vars(OnClose(k))
    /\ WF_vars(TimerFires)
    /\ SF_vars(\E k \in Conns : Accept(k))
    /\ SF_vars(\E k \in Conns : sock[k] = "open" /\ Subscribe(k))
    /\ SF_vars(\E k \in Conns : sock[k] = "open" /\ ReadReplay(k))
    /\ SF_vars(\E k \in Conns : sock[k] = "open" /\ Send(k))

-----------------------------------------------------------------------------
(* Properties.                                                             *)

Live == {k \in Conns : sock[k] \in {"connecting", "open"}}

BeingOffered == {pub[p].e : p \in {q \in Publishers : pub[q].at = "fan"}}

\* What the handler of k has still to read, or to send.
Coming(k) ==
    IF srv[k] = "serving"
    THEN Range(replay[k]) \cup Range(chan[k]) \cup BeingOffered
    ELSE {e \in Range(ring) : Number(e) > since[k] /\ since[k] > 0}

\* What the client would ask for if it connected now.
Asked == {e \in Range(ring) : Number(e) > seqRef /\ seqRef > 0}

\* The hand-over of a connection from the ring to its channel leaves no hole:
\* what the ring holds beyond the since it was opened with has been received,
\* is on its way, or was dropped on a full channel (Subscribe before Since,
\* events.go 50-60).
HandoverWhole ==
    \A k \in Conns : \A e \in Range(ring) :
        sock[k] = "open" /\ since[k] > 0 /\ Number(e) > since[k]
            => e \in got \cup excused \cup Coming(k)

\* The client has received an event of the boot of e with a lower number.
Wanted(e) == \E f \in got : f[1] = e[1] /\ f[2] < e[2]

\* From the first event it has received, the client misses none over any
\* number of reconnections: each is received, or excused, or on its way on a
\* live connection, or would be asked for by the next one.
NothingForgotten ==
    \A e \in Range(ring) :
        Wanted(e) => \/ e \in got \cup excused
                     \/ \E k \in Live : e \in Coming(k)
                     \/ Live = {} /\ e \in Asked

\* The client has one connection, or is waiting for the timer to make one:
\* no event is dispatched over two, and none is left behind by a reconnection.
OneSocket ==
    Cardinality(Live) + (IF timer THEN 1 ELSE 0) <= 1

\* A client with a token is connected again and again, whatever connections
\* and daemons fail (scheduleReconnect).
Reconnects == []<>(\E k \in Conns : sock[k] = "open")

\* What the ring holds beyond what the client has seen reaches it.
CatchesUp ==
    \A e \in Event :
        e \in Range(ring) /\ Wanted(e) ~> e \in got \cup excused

\* "Without a token, wait for the login and connect then", says connect():
\* once a token is stored for good the client connects.
ConnectsAfterLogin == <>[]token => <>(\E k \in Conns : sock[k] = "open")

-----------------------------------------------------------------------------
(* Strengthenings.                                                         *)

\* The client lets go of a socket before it makes another, and waits for the
\* timer without one.
OneSlot ==
    /\ \A j, k \in Conns : sock[j] # "none" /\ sock[k] # "none" => j = k
    /\ timer => \A k \in Conns : sock[k] = "none"

\* The remaining ones hold with one publisher and during one boot.

InOrder(s) == \A i, j \in 1..Len(s) : i < j => Number(s[i]) < Number(s[j])

\* Number n was given to an event that is in the ring, or has been.
Appended(n) == n <= seq /\ \A p \in Publishers : pub[p].at = "append" => n < seq

\* Number n was given to an event that was offered.
Offered(n) == n <= seq /\ \A p \in Publishers : pub[p].at # "idle" => n < seq

\* Events are numbered, put into the ring and sent in one order, and the client
\* knows no number that is still to come.
Ordered ==
    /\ \A p \in Publishers : pub[p].at # "idle" => pub[p].e = <<boot, seq>>
    /\ InOrder(ring) /\ \A e \in Range(ring) : Appended(Number(e))
    /\ \A k \in Conns :
          /\ InOrder(replay[k]) /\ \A e \in Range(replay[k]) : Appended(Number(e))
          /\ InOrder(chan[k]) /\ \A e \in Range(chan[k]) : Offered(Number(e))
    /\ Appended(seqRef)
    /\ \A e \in got : Number(e) <= seqRef
    /\ seqRef > 0 => \E e \in got : Number(e) = seqRef

\* A connection begins with what the client has seen, and with an empty channel.
Session(k) ==
    /\ sock[k] = "connecting" => srv[k] = "none"
    /\ sock[k] = "open" => srv[k] # "none"
    /\ srv[k] \in {"none", "accepted"} => chan[k] = <<>>
    /\ k \in Live => since[k] <= seqRef
    /\ k \in Live /\ srv[k] # "serving" => since[k] = seqRef

\* The replay is sent in the order of the ring: what it has yet to send comes
\* after what the client has.
ReplayInTurn(k) ==
    sock[k] = "open" /\ srv[k] = "serving" =>
       /\ since[k] = 0 => replay[k] = <<>>
       /\ \A r \in Range(replay[k]) : since[k] < Number(r)
       /\ \A e \in Range(ring), r \in Range(replay[k]) :
             since[k] < Number(e) /\ Number(e) < Number(r) => e \in Range(replay[k]) \cup got

\* The channel takes nothing below the event the client asked from; on the first
\* connection it is all the client gets, in order.
ChannelInTurn(k) ==
    k \in Live =>
       /\ \A e \in Range(chan[k]) : since[k] <= Number(e)
       /\ since[k] > 0 => \E f \in got : Number(f) = since[k]
       /\ since[k] = 0 => \A f \in got :
             Offered(Number(f)) /\ \A e \in Range(chan[k]) : Number(f) < Number(e)

\* On the first connection, which asks for no replay, nothing is missed from
\* the first event on that its channel took.
FirstWhole(k) ==
    sock[k] = "open" /\ since[k] = 0 =>
       \A e \in Range(ring), f \in got \cup Range(chan[k]) :
          Number(f) < Number(e) =>
             e \in got \cup excused \cup Range(chan[k]) \cup BeingOffered

\* Of what the client will not ask for again it misses nothing.
SeenWhole ==
    \A e \in Range(ring) :
        Wanted(e) /\ Number(e) <= seqRef => e \in got \cup excused

Whole ==
    /\ Ordered
    /\ \A k \in Conns : Session(k) /\ ReplayInTurn(k) /\ ChannelInTurn(k) /\ FirstWhole(k)
    /\ SeenWhole

=============================================================================
