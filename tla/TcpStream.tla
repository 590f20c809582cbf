------------------------------ MODULE TcpStream ------------------------------
(***************************************************************************)
(* The TCP variant of network/epoll/epoll.hpp: NetworkIO<tcp::server>      *)
(* sends the frames of its queue to the one client it has, from a thread   *)
(* that polls.  Epoll is edge-triggered: an event is reported once, and    *)
(* several are reported together.  A frame is sent in up to two parts.     *)
(***************************************************************************)
EXTENDS Naturals, Sequences, SequencesExt

CONSTANTS
    Clients,        \* the clients, each connects once (model bound)
    MaxFrames       \* frames the encoder makes (model bound)

NoSocket == "none"
Listener == "lisk"

ASSUME ClientsAssumption == IsFiniteSet(Clients) /\ Clients \intersect {NoSocket, Listener} = {}
ASSUME FramesAssumption == MaxFrames \in Nat

VARIABLES
    peer,       \* the clients' state: "away", "backlog", "open", "closed"
    inbox,      \* the clients whose data has not been read by the server
    space,      \* the clients to which the kernel takes another part
    starved,    \* the clients of whose next room the kernel tells
    edge,       \* the descriptors with an event that was not reported
    at,         \* where xpoll is: "prewait", "wait", "events", "end"
    todo,       \* the events epoll_wait has returned, [of, evts]
    sk,         \* the client to whose descriptor lisk.xbuf() is set, or NoSocket
    events,     \* its events_
    added,      \* the clients whose descriptors are in the epoll set
    xbuf,       \* where its receive buffer is: "own", or "stack" once it was reset
    filling,    \* the encoder holds a buffer of the ring
    queue,      \* the frames that wait in the ring, oldest first
    tx,         \* the parts of txq_iter_ that tx_p_ is before, <<>>: tx_p_ is 0
    encoded,    \* frames made so far
    got,        \* history: the parts each client was sent
    knocked,    \* history: the clients that were there when lisk was not served
    doubled,    \* history: a client was accepted over another one
    overtaken,  \* history: frames that waited when a newer one was taken
    thread      \* of the Thread object: "runs", "stopped", "joined"; "dead": a crash

netVars == <<peer, inbox, space, starved, edge>>
sockVars == <<sk, events, added>>
ringVars == <<filling, queue, overtaken>>
tcpVars == <<netVars, at, todo, sockVars, xbuf, ringVars, tx, encoded, got, knocked, doubled, thread>>

TcpInit ==
    /\ peer = [c \in Clients |-> "away"]
    /\ inbox = {} /\ space = Clients /\ starved = {} /\ edge = {}
    /\ at = "prewait" /\ todo = <<>>
    /\ sk = NoSocket /\ events = {} /\ added = {}
    /\ xbuf = "own"
    /\ filling = TRUE /\ queue = <<>> /\ tx = <<>> /\ encoded = 0
    /\ got = [c \in Clients |-> <<>>]
    /\ knocked = {} /\ doubled = FALSE /\ overtaken = {} /\ thread = "runs"

Parts(f) == <<<<f, 1>>, <<f, 2>>>>

-----------------------------------------------------------------------------
(* The socket                                                              *)

\* NetworkIO::error with l2close and l1close: the socket is taken out of epoll and
\* closed, and the frame that was being sent is given back; the descriptor is NoSocket
\* already when the event was an old one.  Assigned a temporary, the receive buffer
\* points into it from then on.  ErrorKeeps forgets about the frame.
ErrorKeeps ==
    /\ sk' = NoSocket
    /\ events' = IF sk = NoSocket THEN events \ {"in"} ELSE {}
    /\ added' = added \ {sk}
    /\ edge' = edge \ {sk}
    /\ xbuf' = "stack"
    /\ UNCHANGED tx

error ==
    /\ sk' = NoSocket
    /\ events' = IF sk = NoSocket THEN events \ {"in"} ELSE {}
    /\ added' = added \ {sk}
    /\ edge' = edge \ {sk}
    /\ xbuf' = "stack"
    /\ tx' = <<>>

\* send_ret_: after a short send the socket is not writable until epoll says so.
send_ret_(evts, n, xlen) == IF n < xlen THEN evts \ {"out"} ELSE evts

\* l1send with the events evts: one call of send, for the loop ends when the frame
\* is done and when the send was short.  The kernel has room for one part; to a client
\* that is gone it fails, or the part is lost.
l1send(evts, now) ==
    IF "out" \notin evts \/ now = <<>>
    THEN /\ events' = evts
         /\ tx' = now
         /\ UNCHANGED <<sk, added, edge, xbuf, space, starved, got>>
    ELSE \/ /\ IF sk = NoSocket THEN TRUE ELSE peer[sk] = "closed"
            /\ error
            /\ UNCHANGED <<space, starved, got>>
         \/ \E n \in IF sk \in space THEN {1, Len(now)} ELSE {0} :
            /\ sk # NoSocket
            /\ events' = send_ret_(evts, n, Len(now))
            /\ tx' = SubSeq(now, n + 1, Len(now))
            /\ got' = [got EXCEPT ![sk] = @ \o SubSeq(now, 1, n)]
            /\ starved' = IF n < Len(now) THEN starved \union {sk} ELSE starved
            /\ space' = IF n > 0 THEN space \ {sk} ELSE space
            /\ UNCHANGED <<sk, added, edge, xbuf>>

\* recv_ret_: less than was asked for means that no more is there.  RecvRetAll is the
\* slip of taking the other events away with it.
RecvRetAll(evts) == {}

recv_ret_(evts) == evts \ {"in"}

-----------------------------------------------------------------------------
(* The thread                                                              *)

\* wait() in a ring of two: the oldest frame, or, when the scan meets the stores of a
\* done(), the frame that is being finished; it may then overlook the other one, too.
Overlooked == filling /\ encoded < MaxFrames

\* trysendx: the next frame is begun when none is being sent.
trysendx ==
    \/ /\ tx # <<>> \/ queue = <<>> \/ Overlooked
       /\ l1send(events, tx)
       /\ UNCHANGED ringVars
    \/ /\ tx = <<>>
       /\ \E i \in DOMAIN queue :
             /\ i = 1 \/ (i = Len(queue) /\ ~filling)
             /\ queue' = RemoveAt(queue, i)
             /\ overtaken' = overtaken \union {queue[j] : j \in 1 .. (i - 1)}
             /\ l1send(events, Parts(queue[i]))
       /\ UNCHANGED filling

\* xpoll, the head of the loop: it looks at the flag of the thread.
prewait ==
    /\ at = "prewait" /\ thread = "runs"
    /\ at' = "wait"
    /\ IF sk = NoSocket
       THEN UNCHANGED <<sockVars, edge, xbuf, space, starved, got, ringVars, tx>>
       ELSE trysendx
    /\ UNCHANGED <<peer, inbox, todo, encoded, knocked, doubled, thread>>

End ==
    /\ at = "prewait" /\ thread = "stopped"
    /\ at' = "end"
    /\ UNCHANGED <<netVars, todo, sockVars, xbuf, ringVars, tx, encoded, got, knocked, doubled, thread>>

\* What epoll says of a descriptor: all that is true of it now.
Readiness(d) ==
    IF d = Listener THEN {"in"}
    ELSE (IF d \in inbox \/ peer[d] = "closed" THEN {"in"} ELSE {})
         \union (IF d \in space \/ peer[d] = "closed" THEN {"out"} ELSE {})

\* epoll_wait: the events since the last call, in any order, or the time is up.  Where
\* it finds no room the kernel remembers to tell when there is some.
Wait ==
    /\ at = "wait"
    /\ \E order \in SetToSeqs(edge) :
        todo' = [i \in DOMAIN order |-> [of |-> order[i], evts |-> Readiness(order[i])]]
    /\ starved' = starved \union {d \in edge : "out" \notin Readiness(d) /\ d # Listener}
    /\ edge' = {}
    /\ at' = IF edge = {} THEN "prewait" ELSE "events"
    /\ UNCHANGED <<peer, inbox, space, sockVars, xbuf, ringVars, tx, encoded, got, knocked, doubled, thread>>

Next1 ==
    /\ todo' = Tail(todo)
    /\ at' = IF Len(todo) = 1 THEN "prewait" ELSE "events"

Backlog == {c \in Clients : peer[c] = "backlog"}

\* accept, until there is no more: the descriptor of the socket is overwritten.
\* AcceptOne is the slip of calling it once, which loses the event for the others.
AcceptOne(order) ==
    /\ sk' = order[1]
    /\ events' = {}
    /\ added' = added \union {order[1]}
    /\ edge' = edge \union {order[1]}
    /\ peer' = [peer EXCEPT ![order[1]] = "open"]
    /\ UNCHANGED <<knocked, doubled>>

Accept(order) ==
    /\ sk' = order[Len(order)]
    /\ events' = {}
    /\ added' = added \union Range(order)
    /\ edge' = edge \union Range(order)
    /\ peer' = [c \in Clients |-> IF peer[c] = "backlog" THEN "open" ELSE peer[c]]
    /\ doubled' = (doubled \/ Len(order) > 1)
    /\ UNCHANGED knocked

\* process_io(lisk): nothing is accepted as long as there is a client, and the event
\* is over.
ListenerEvent ==
    /\ at = "events" /\ todo # <<>> /\ Head(todo).of = Listener
    /\ Next1
    /\ IF sk # NoSocket
       THEN /\ knocked' = knocked \union Backlog
            /\ UNCHANGED <<sk, events, added, edge, peer, doubled>>
       ELSE IF Backlog = {}
       THEN UNCHANGED <<sk, events, added, edge, peer, knocked, doubled>>
       ELSE \E order \in SetToSeqs(Backlog) : Accept(order)
    /\ UNCHANGED <<inbox, space, starved, xbuf, ringVars, tx, encoded, got, thread>>

\* l1recv: a client that has closed is read to its end, which is an error, as it is to
\* read from a descriptor that is closed; but what it sent before may end the loop
\* before the end is seen.
l1recv(evts) ==
    \/ /\ IF sk = NoSocket THEN TRUE ELSE peer[sk] = "closed"
       /\ error /\ inbox' = inbox \ {sk} /\ UNCHANGED <<space, starved, got>>
    \/ /\ sk # NoSocket /\ (sk \in inbox \/ peer[sk] # "closed")
       /\ inbox' = inbox \ {sk} /\ l1send(recv_ret_(evts), tx)

\* StreamIO::process_io after on_events: l1recv, then l1send.  The event may be of a
\* descriptor that is not the socket's any more.
process_io ==
    LET evts == Head(todo).evts
    IN  /\ at = "events" /\ todo # <<>> /\ Head(todo).of # Listener
        /\ Next1
        /\ IF "in" \in evts
           THEN l1recv(evts)
           ELSE l1send(evts, tx) /\ UNCHANGED inbox
        /\ UNCHANGED <<peer, ringVars, encoded, knocked, doubled, thread>>

\* What is received once the buffer was reset is written over the stack: process_io has
\* the behaviours that survive it.
Smashed ==
    /\ at = "events" /\ todo # <<>> /\ Head(todo).of # Listener
    /\ "in" \in Head(todo).evts /\ xbuf = "stack" /\ sk \in inbox
    /\ at' = "end" /\ thread' = "dead"
    /\ UNCHANGED <<netVars, todo, sockVars, xbuf, ringVars, tx, encoded, got, knocked, doubled>>

-----------------------------------------------------------------------------
(* The rest of the system                                                  *)

\* The encoder: done() with a frame, and alloc() for the next one, in a ring of two.  It
\* is given the buffer of the older frame, or, when that one is being sent, the buffer
\* of the frame it has just finished.
Encode ==
    /\ filling /\ encoded < MaxFrames /\ thread # "dead"
    /\ filling' = FALSE
    /\ encoded' = encoded + 1
    /\ queue' = Append(queue, encoded + 1)
    /\ UNCHANGED <<netVars, at, todo, sockVars, xbuf, tx, got, knocked, doubled, overtaken, thread>>

Alloc ==
    /\ ~filling /\ thread # "dead"
    /\ filling' = TRUE
    /\ queue' = IF tx = <<>> /\ encoded \in Range(queue) THEN <<encoded>> ELSE <<>>
    /\ UNCHANGED <<netVars, at, todo, sockVars, xbuf, tx, encoded, got, knocked, doubled, overtaken, thread>>

\* tcp::client: open and connect.
Connect(c) ==
    /\ peer[c] = "away"
    /\ peer' = [peer EXCEPT ![c] = "backlog"]
    /\ edge' = edge \union {Listener}
    /\ UNCHANGED <<inbox, space, starved, at, todo, sockVars, xbuf, ringVars, tx, encoded, got, knocked, doubled, thread>>

\* A client writes, reads what it was sent, or closes: events for the server.
ClientSends(c) ==
    /\ peer[c] = "open" /\ c \notin inbox
    /\ inbox' = inbox \union {c}
    /\ edge' = IF c \in added THEN edge \union {c} ELSE edge
    /\ UNCHANGED <<peer, space, starved, at, todo, sockVars, xbuf, ringVars, tx, encoded, got, knocked, doubled, thread>>

ClientReads(c) ==
    /\ peer[c] = "open" /\ c \notin space
    /\ space' = space \union {c}
    /\ starved' = starved \ {c}
    /\ edge' = IF c \in added /\ c \in starved THEN edge \union {c} ELSE edge
    /\ UNCHANGED <<peer, inbox, at, todo, sockVars, xbuf, ringVars, tx, encoded, got, knocked, doubled, thread>>

ClientCloses(c) ==
    /\ peer[c] = "open"
    /\ peer' = [peer EXCEPT ![c] = "closed"]
    /\ edge' = IF c \in added THEN edge \union {c} ELSE edge
    /\ UNCHANGED <<inbox, space, starved, at, todo, sockVars, xbuf, ringVars, tx, encoded, got, knocked, doubled, thread>>

\* Thread::stop, from another thread.
stop ==
    /\ thread = "runs"
    /\ thread' = "stopped"
    /\ UNCHANGED <<netVars, at, todo, sockVars, xbuf, ringVars, tx, encoded, got, knocked, doubled>>

\* Thread::join returns when run() has, and the NetworkIO is destroyed: l2close closes
\* both sockets.
join ==
    /\ thread = "stopped" /\ at = "end"
    /\ thread' = "joined"
    /\ sk' = NoSocket /\ events' = {} /\ added' = {} /\ edge' = {} /\ xbuf' = "stack"
    /\ UNCHANGED <<peer, inbox, space, starved, at, todo, ringVars, tx, encoded, got, knocked, doubled>>

xpoll == prewait \/ Wait \/ ListenerEvent \/ process_io \/ Smashed \/ End

TcpNext ==
    \/ xpoll
    \/ stop \/ join
    \/ Encode \/ Alloc
    \/ \E c \in Clients : Connect(c) \/ ClientSends(c) \/ ClientReads(c) \/ ClientCloses(c)

-----------------------------------------------------------------------------
(* Properties                                                              *)

\* Whole frames one after the other, the last one perhaps in part; each one once, and
\* after the ones before it but for those that were overtaken.
Framed(s) ==
    /\ \A i \in DOMAIN s : IF i % 2 = 1 THEN s[i][2] = 1 ELSE s[i] = <<s[i - 1][1], 2>>
    /\ \A i, j \in DOMAIN s :
          (i < j /\ s[i][2] = 1 /\ s[j][2] = 1) =>
              s[i][1] < s[j][1] \/ (s[i][1] # s[j][1] /\ s[j][1] \in overtaken)

\* Whatever connection breaks in the middle of whatever frame, also when a client is
\* accepted over another one, and whatever the scan of the ring and the encoder do to each
\* other: what a client is sent are whole frames, none of them twice, in their order
\* unless a newer one was taken first.
WholeFrames == \A c \in Clients : Framed(got[c])

\* A client that connects is accepted, unless it comes while the server has another
\* one, of whose end it may not have heard: its event is lost then.  (A thread that does
\* not run has been stopped, or has died of its receive buffer.)
Accepted ==
    \A c \in Clients : peer[c] = "backlog" ~> (peer[c] # "backlog" \/ c \in knocked \/ thread # "runs")

\* An event tells once that a client can be written to, and what it told is forgotten
\* at the first short send only: as long as the client stays the queue is sent, up to
\* the last frame.
LastFrameSent ==
    \A c \in Clients :
        (sk = c /\ encoded = MaxFrames) ~>
            \/ peer[c] = "closed"
            \/ doubled
            \/ thread # "runs"
            \/ got[c] # <<>> /\ got[c][Len(got[c])] = <<MaxFrames, 2>>
            \/ queue = <<>> /\ tx = <<>>

\* stop() does not wake the thread; still, whether anything is ever sent or not, it
\* ends and join() returns, unless the program dies first.
StopJoins == (thread = "stopped") ~> (thread \in {"joined", "dead"})

\* Both of these: what was queued is sent, and stop() ends it.
Served == LastFrameSent /\ StopJoins
=============================================================================
