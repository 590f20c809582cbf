----------------------------- MODULE UdpStream -----------------------------
(***************************************************************************)
(* Video frames from the server to the client over UDP and the client's    *)
(* time-stamp echoes back: udp::io_basic and NetworkIO of                  *)
(* network/epoll/epoll.hpp with the unpack functions of main.cpp.  Server  *)
(* and client run the same network code, so every variable is a function   *)
(* of the node.  Frames travel in fragments numbered from 0; datagrams may *)
(* be lost or duplicated but not reordered.                                *)
(***************************************************************************)
EXTENDS Naturals, Sequences, FiniteSets, Functions

CONSTANTS
    MaxFrames,  \* the encoder produces at most this many frames (model bound)
    FragCounts, \* the possible numbers of fragments of a frame
    QueueLen,   \* buffers of the client's ring of echoes; the server's has two
    ChanCap,    \* datagrams under way to one node (model bound)
    MaxGap,     \* fragments lost in a row
    MaxLost,    \* datagrams lost in all (model bound)
    MaxDups,    \* datagrams duplicated in all (model bound)
    MaxErrors   \* failing socket calls in all (model bound)

ASSUME FragAssumption == FragCounts \subseteq Nat \ {0}
ASSUME BoundAssumption ==
    /\ {MaxFrames, MaxGap, MaxLost, MaxDups, MaxErrors} \subseteq Nat
    /\ {QueueLen, ChanCap} \subseteq Nat \ {0}

VARIABLES
    pc,         \* where the node's network thread is
    open,       \* its socket is open
    peer,       \* it has a peer address (l2xdata().sin_port # 0)
    out,        \* ok(EPOLLOUT)
    stale,      \* more than 4 seconds since atime_
    queue,      \* the frames of txque_ that wait to be sent
    filling,    \* the encoder holds a buffer: FALSE from its done() to its alloc()
    txbuf,      \* the frame being sent, NoFrame for txque_->end()
    txpos,      \* the number of its next fragment (txpos_, xh_.u16[0])
    exp,        \* the fragment number expected (xh_.u16[1])
    xbuf,       \* the fragments received of an incomplete frame
    chan,       \* the datagrams under way to the node
    encoded,    \* number of frames encoded
    gap,        \* history: fragments lost since the last one received
    hurt,       \* history: frames with a lost or a duplicated fragment
    complete,   \* history: frames of the server sent to the last fragment
    written,    \* history: frames the client wrote to its file
    echoed,     \* history: frames whose time stamp came back to the server
    glued,      \* history: unpack() was given something else than one frame
    overtaken,  \* history: frames that waited when a newer one was taken
    reclaimed,  \* history: frames the encoder took back as soon as it had finished them
    budget      \* what is left of MaxLost, MaxDups and MaxErrors

txVars == <<queue, txbuf, txpos>>
rxVars == <<exp, xbuf>>
order == <<overtaken, reclaimed>>
history == <<gap, hurt, complete, written, echoed, glued, order>>
vars == <<pc, open, peer, out, stale, txVars, rxVars, chan, filling, encoded, history, budget>>

Node == {"srv", "cli"}
Other(n) == CHOOSE m \in Node : m # n

NoFrame == [by |-> "none", id |-> 0, frags |-> 0]
Frame == [by : Node, id : 1 .. MaxFrames, frags : FragCounts \union {1}]

Fragment(f, i) == [frame |-> f, idx |-> i]
Keepalive == Fragment(NoFrame, 0)   \* 0xffffffff
IsLast(d) == d.idx + 1 = d.frame.frags

Init ==
    /\ pc = [n \in Node |-> "prewait"]
    /\ open = [n \in Node |-> TRUE]
    /\ peer = [n \in Node |-> n = "cli"]    \* the client is given the address
    /\ out = [n \in Node |-> FALSE]
    /\ stale = [n \in Node |-> TRUE]        \* atime_ = 0
    /\ queue = [n \in Node |-> <<>>]
    /\ txbuf = [n \in Node |-> NoFrame]
    /\ txpos = [n \in Node |-> 0]
    /\ exp = [n \in Node |-> 0]
    /\ xbuf = [n \in Node |-> <<>>]
    /\ chan = [n \in Node |-> <<>>]
    /\ filling = TRUE
    /\ encoded = 0
    /\ gap = [n \in Node |-> 0]
    /\ hurt = {}
    /\ complete = {}
    /\ written = {}
    /\ echoed = {}
    /\ glued = FALSE
    /\ overtaken = {}
    /\ reclaimed = {}
    /\ budget = [lost |-> MaxLost, dups |-> MaxDups, errors |-> MaxErrors]

-----------------------------------------------------------------------------
(* Sending                                                                 *)

\* What l2send may work on, each with what goes on waiting: the frame under way, or
\* one that wait() returns.  That is the oldest one; while the encoder is between its
\* done() and its alloc() the scan may begin at the newest one.
Taken(f, rest) == [frame |-> f, rest |-> rest]

NextFrames(n) ==
    LET q == queue[n]
    IN  IF txbuf[n] # NoFrame THEN {Taken(txbuf[n], q)}
        ELSE IF q = <<>> THEN {}
        ELSE {Taken(Head(q), Tail(q))} \union
             (IF n = "srv" /\ ~filling THEN {Taken(q[Len(q)], SubSeq(q, 1, Len(q) - 1))} ELSE {})

\* A scan that meets the stores of a done() may begin and end at its own buffer, and
\* overlook the frame that waits in the other one.
Overlooked(n) == n = "srv" /\ txbuf[n] = NoFrame /\ filling /\ encoded < MaxFrames

\* The client's ring: all of alloc(), done() and wait() in the network thread, and a
\* buffer is never being sent meanwhile.  EnqueueFirst is the slip of putting the new
\* one in front of those that wait.
EnqueueFirst(q, f) == <<f>> \o (IF Len(q) < QueueLen THEN q ELSE Tail(q))

Enqueue(q, f) == Append(IF Len(q) < QueueLen THEN q ELSE Tail(q), f)

Room(n) == Len(chan[Other(n)]) < ChanCap

\* Into the network; a datagram for a closed socket is gone.
Arriving(n, d) ==
    [chan EXCEPT ![Other(n)] = IF open[Other(n)] THEN Append(@, d) ELSE @]

\* l2send: the next fragment of the frame of t; after the last one the buffer is given
\* back.  A datagram socket is taken to be not writable after every send.
L2Send(n, t) ==
    LET f == t.frame
        i == IF txbuf[n] = NoFrame THEN 0 ELSE txpos[n]
        last == IsLast(Fragment(f, i))
    IN  /\ chan' = Arriving(n, Fragment(f, i))
        /\ txbuf' = [txbuf EXCEPT ![n] = IF last THEN NoFrame ELSE f]
        /\ txpos' = [txpos EXCEPT ![n] = i + 1]
        /\ queue' = [queue EXCEPT ![n] = t.rest]
        /\ overtaken' = IF n = "srv"
                        THEN overtaken \union {g.id : g \in {h \in Range(t.rest) : h.id < f.id}}
                        ELSE overtaken
        /\ complete' = IF last /\ n = "srv" THEN complete \union {f} ELSE complete
        /\ out' = [out EXCEPT ![n] = FALSE]
        /\ stale' = [stale EXCEPT ![n] = FALSE]

\* l2close: the frame under way stays in the ring unsent.  On the client the
\* assignment to xbuf() recurses in malloc_buf::operator= without end.
L2Close(n, then) ==
    /\ pc' = [pc EXCEPT ![n] = IF n = "cli" THEN "dead" ELSE then]
    /\ open' = [open EXCEPT ![n] = FALSE]
    /\ peer' = [peer EXCEPT ![n] = FALSE]
    /\ out' = [out EXCEPT ![n] = FALSE]
    /\ queue' = [queue EXCEPT ![n] = IF txbuf[n] = NoFrame THEN @ ELSE <<txbuf[n]>> \o @]
    /\ txbuf' = [txbuf EXCEPT ![n] = NoFrame]
    /\ xbuf' = [xbuf EXCEPT ![n] = <<>>]
    /\ chan' = [chan EXCEPT ![n] = <<>>]
    /\ stale' = [stale EXCEPT ![n] = FALSE]
    /\ UNCHANGED <<txpos, exp, filling, encoded, history>>

Goto(n, label) == pc' = [pc EXCEPT ![n] = label]

\* prewait: at most one fragment, because sending one takes EPOLLOUT away.
PrewaitSend(n) ==
    /\ pc[n] = "prewait"
    /\ peer[n]
    /\ out[n]
    /\ \E t \in NextFrames(n) : L2Send(n, t)
    /\ Goto(n, "poll")
    /\ UNCHANGED <<open, peer, rxVars, filling, encoded, gap, hurt, written, echoed, glued,
                   reclaimed, budget>>

\* prewait without lines 941-948
PrewaitQuiet(n) ==
    /\ pc[n] = "prewait"
    /\ ~(peer[n] /\ out[n] /\ NextFrames(n) # {}) \/ Overlooked(n)
    /\ Goto(n, "poll")
    /\ UNCHANGED <<open, peer, out, stale, txVars, rxVars, chan, filling, encoded, history, budget>>

\* prewait without anything to send: a keepalive when the node was silent.
PrewaitIdle(n) ==
    /\ pc[n] = "prewait"
    /\ ~(peer[n] /\ out[n] /\ NextFrames(n) # {}) \/ Overlooked(n)
    /\ IF peer[n] /\ stale[n]
       THEN /\ chan' = IF Room(n) THEN Arriving(n, Keepalive) ELSE chan
            /\ out' = [out EXCEPT ![n] = FALSE]
            /\ stale' = [stale EXCEPT ![n] = FALSE]
       ELSE UNCHANGED <<chan, out, stale>>
    /\ Goto(n, "poll")
    /\ UNCHANGED <<open, peer, txVars, rxVars, filling, encoded, history, budget>>

\* prewait: sending the fragment fails or is cut short.
PrewaitFail(n) ==
    /\ pc[n] = "prewait"
    /\ peer[n]
    /\ out[n]
    /\ NextFrames(n) # {}
    /\ budget.errors > 0
    /\ budget' = [budget EXCEPT !.errors = @ - 1]
    /\ L2Close(n, "poll")

-----------------------------------------------------------------------------
(* epoll_wait and process_io                                               *)

\* Datagrams are there: EPOLLIN, with EPOLLOUT when the socket is writable too.
PollIn(n) ==
    /\ pc[n] = "poll"
    /\ chan[n] # <<>>
    /\ out' = [out EXCEPT ![n] = Room(n)]
    /\ Goto(n, "recv")
    /\ UNCHANGED <<open, peer, stale, txVars, rxVars, chan, filling, encoded, history, budget>>

\* The socket has become writable: EPOLLOUT alone.  A frame under way goes on.
PollOut(n) ==
    /\ pc[n] = "poll"
    /\ open[n]
    /\ ~out[n]
    /\ chan[n] = <<>>
    /\ Room(n)
    /\ Goto(n, "prewait")
    /\ IF txbuf[n] # NoFrame
       THEN \E t \in NextFrames(n) : L2Send(n, t)
       ELSE /\ out' = [out EXCEPT ![n] = TRUE]
            /\ UNCHANGED <<chan, txVars, complete, overtaken, stale>>
    /\ UNCHANGED <<open, peer, rxVars, filling, encoded, gap, hurt, written, echoed, glued,
                   reclaimed, budget>>

\* The fragment sent there fails or is cut short.
PollOutFail(n) ==
    /\ pc[n] = "poll"
    /\ ~out[n]
    /\ chan[n] = <<>>
    /\ txbuf[n] # NoFrame
    /\ budget.errors > 0
    /\ budget' = [budget EXCEPT !.errors = @ - 1]
    /\ L2Close(n, "prewait")

\* 6 ms passed without an event.
PollTimeout(n) ==
    /\ pc[n] = "poll"
    /\ chan[n] = <<>>
    /\ Goto(n, "prewait")
    /\ UNCHANGED <<open, peer, out, stale, txVars, rxVars, chan, filling, encoded, history, budget>>

\* recv returned EAGAIN: l2recv is over, and so is process_io but for EPOLLOUT.
RecvEnd(n) ==
    /\ pc[n] = "recv"
    /\ chan[n] = <<>>
    /\ Goto(n, "prewait")
    /\ IF out[n] /\ txbuf[n] # NoFrame
       THEN \E t \in NextFrames(n) : L2Send(n, t)
       ELSE /\ stale' = [stale EXCEPT ![n] = FALSE]
            /\ UNCHANGED <<chan, txVars, complete, overtaken, out>>
    /\ UNCHANGED <<open, peer, rxVars, filling, encoded, gap, hurt, written, echoed, glued,
                   reclaimed, budget>>

\* The fragments of one frame, all of them and in order.
Whole(s) ==
    LET f == Head(s).frame
    IN  s = [i \in 1 .. f.frags |-> Fragment(f, i - 1)]

\* unpack: the client writes the frame and queues its time stamp as an echo, the
\* server measures the round trip.  Of anything but one frame the lengths are
\* wrong: it is used up or left in xbuf.
Unpack(n, s) ==
    IF Whole(s)
    THEN LET f == Head(s).frame
             echo == [by |-> "cli", id |-> f.id, frags |-> 1]
         IN  /\ xbuf' = [xbuf EXCEPT ![n] = <<>>]
             /\ written' = IF n = "cli" THEN written \union {f} ELSE written
             /\ echoed' = IF n = "srv" THEN echoed \union {f.id} ELSE echoed
             /\ queue' = IF n = "cli" THEN [queue EXCEPT ![n] = Enqueue(@, echo)] ELSE queue
             /\ UNCHANGED glued
    ELSE /\ \E rest \in {<<>>, s} : xbuf' = [xbuf EXCEPT ![n] = rest]
         /\ glued' = TRUE
         /\ UNCHANGED <<queue, written, echoed>>

\* What xbuf holds once fragment d was put behind it: a fragment out of turn
\* throws away the ones before it, and itself too unless it begins a frame.
\* KeptStale forgets to throw the earlier ones away, KeptNone throws away the
\* first fragment of the next frame with them.
KeptStale(n, d) ==
    IF d.idx = exp[n] \/ d.idx = 0 THEN Append(xbuf[n], d) ELSE <<>>

KeptNone(n, d) == IF d.idx = exp[n] THEN Append(xbuf[n], d) ELSE <<>>

Kept(n, d) ==
    IF d.idx = exp[n] THEN Append(xbuf[n], d)
    ELSE IF d.idx = 0 THEN <<d>> ELSE <<>>

\* The number expected next.
NextExp(n, d) == IF Kept(n, d) = <<>> \/ IsLast(d) THEN 0 ELSE d.idx + 1

\* l2recv_one: the source of every datagram becomes the peer; a keepalive says
\* nothing else.  A duplicate of the datagram may follow it.
RecvOne(n) ==
    LET d == Head(chan[n])
    IN  /\ pc[n] = "recv"
        /\ chan[n] # <<>>
        /\ peer' = [peer EXCEPT ![n] = TRUE]
        /\ \/ /\ chan' = [chan EXCEPT ![n] = Tail(@)]
              /\ UNCHANGED <<hurt, budget>>
           \/ /\ budget.dups > 0
              /\ budget' = [budget EXCEPT !.dups = @ - 1]
              /\ hurt' = hurt \union {d.frame}
              /\ UNCHANGED chan
        /\ IF d = Keepalive
           THEN UNCHANGED <<rxVars, queue, gap, written, echoed, glued>>
           ELSE /\ gap' = [gap EXCEPT ![n] = 0]
                /\ exp' = [exp EXCEPT ![n] = NextExp(n, d)]
                /\ IF Kept(n, d) # <<>> /\ IsLast(d)
                   THEN Unpack(n, Kept(n, d))
                   ELSE /\ xbuf' = [xbuf EXCEPT ![n] = Kept(n, d)]
                        /\ UNCHANGED <<queue, written, echoed, glued>>
        /\ UNCHANGED <<pc, open, out, stale, txbuf, txpos, filling, encoded, complete, order>>

\* recvmsg fails, the datagram is too short, or sending the next fragment after
\* the last datagram fails: l2close, and the thread goes on.
RecvFail(n) ==
    /\ pc[n] = "recv"
    /\ budget.errors > 0
    /\ budget' = [budget EXCEPT !.errors = @ - 1]
    /\ L2Close(n, "prewait")

-----------------------------------------------------------------------------
(* The rest of the world                                                   *)

\* The encoder finishes a frame: done().  CycleBufferQueue has the details of the ring.
Encode ==
    /\ filling /\ encoded < MaxFrames
    /\ filling' = FALSE
    /\ encoded' = encoded + 1
    /\ \E k \in FragCounts :
           queue' = [queue EXCEPT !["srv"] =
                        Append(@, [by |-> "srv", id |-> encoded + 1, frags |-> k])]
    /\ UNCHANGED <<pc, open, peer, out, stale, txbuf, txpos, rxVars, chan, history, budget>>

\* ... and allocates the next buffer, in a ring of two: the other one with the older
\* frame, or, when that one is being sent, the one it has just finished.
NewestWaits ==
    LET q == queue["srv"] IN q # <<>> /\ q[Len(q)].id = encoded

Alloc ==
    LET q == queue["srv"]
        sending == txbuf["srv"] # NoFrame
    IN  /\ ~filling
        /\ filling' = TRUE
        /\ queue' = [queue EXCEPT !["srv"] =
                        IF NewestWaits /\ ~sending THEN <<q[Len(q)]>> ELSE <<>>]
        /\ reclaimed' = IF NewestWaits /\ sending THEN reclaimed \union {encoded} ELSE reclaimed
        /\ UNCHANGED <<pc, open, peer, out, stale, txbuf, txpos, rxVars, chan, encoded, gap, hurt,
                       complete, written, echoed, glued, overtaken, budget>>

\* The network drops a datagram, at most MaxGap fragments in a row.
Lose(n) ==
    /\ chan[n] # <<>>
    /\ budget.lost > 0
    /\ budget' = [budget EXCEPT !.lost = @ - 1]
    /\ chan' = [chan EXCEPT ![n] = Tail(@)]
    /\ IF Head(chan[n]) = Keepalive
       THEN UNCHANGED <<gap, hurt>>
       ELSE /\ gap[n] < MaxGap
            /\ gap' = [gap EXCEPT ![n] = @ + 1]
            /\ hurt' = hurt \union {Head(chan[n]).frame}
    /\ UNCHANGED <<pc, open, peer, out, stale, txVars, rxVars, filling, encoded,
                   complete, written, echoed, glued, order>>

\* Four seconds pass without traffic: a datagram under way, or one being
\* received, does not take that long.
Silence(n) ==
    /\ ~stale[n]
    /\ \A m \in Node : chan[m] = <<>> /\ pc[m] # "recv"
    /\ stale' = [stale EXCEPT ![n] = TRUE]
    /\ UNCHANGED <<pc, open, peer, out, txVars, rxVars, chan, filling, encoded, history, budget>>

\* The user ends the program: xpoll returns and ~NetworkIO calls l2close, which
\* asserts that the socket is open; with assertions compiled out the epoll_ctl
\* on descriptor -1 exits instead.
Stop(n) ==
    /\ pc[n] = "prewait"
    /\ IF open[n]
       THEN L2Close(n, "ended") /\ UNCHANGED budget
       ELSE /\ Goto(n, "assert")
            /\ UNCHANGED <<open, peer, out, stale, txVars, rxVars, chan, filling, encoded,
                           history, budget>>

-----------------------------------------------------------------------------
ThreadStep(n) ==
    \/ PrewaitSend(n) \/ PrewaitIdle(n)
    \/ PollIn(n) \/ PollOut(n) \/ PollTimeout(n)
    \/ RecvOne(n) \/ RecvEnd(n)

Failure(n) == PrewaitFail(n) \/ PollOutFail(n) \/ RecvFail(n)

Terminated ==
    /\ \A n \in Node : pc[n] \in {"ended", "dead", "assert"}
    /\ encoded = MaxFrames /\ filling
    /\ UNCHANGED vars

Next ==
    \/ Encode \/ Alloc
    \/ \E n \in Node :
          ThreadStep(n) \/ Failure(n) \/ Lose(n) \/ Silence(n) \/ Stop(n)
    \/ Terminated

\* xpoll loops until it is stopped, the kernel reports a writable socket again
\* and again, and time passes.  Nothing is assumed of the encoder, and the
\* network stops losing datagrams because MaxLost bounds what it loses.
Fairness ==
    \A n \in Node :
        /\ WF_vars(ThreadStep(n))
        /\ SF_vars(PollOut(n))
        /\ SF_vars(Silence(n))

Spec == Init /\ [][Next]_vars /\ Fairness

-----------------------------------------------------------------------------
(* Properties                                                              *)

Datagram == [frame : Frame \union {NoFrame}, idx : Nat]

TypeOK ==
    /\ pc \in [Node -> {"prewait", "poll", "recv", "ended", "dead", "assert"}]
    /\ {open, peer, out, stale} \subseteq [Node -> BOOLEAN]
    /\ queue \in [Node -> Seq(Frame)]
    /\ txbuf \in [Node -> Frame \union {NoFrame}]
    /\ txpos \in [Node -> Nat]
    /\ exp \in [Node -> Nat]
    /\ \A n \in Node : \E k \in FragCounts \union {1} : exp[n] < k
    /\ xbuf \in [Node -> Seq(Datagram)]
    /\ chan \in [Node -> Seq(Datagram)]
    /\ filling \in BOOLEAN
    /\ encoded \in 0 .. MaxFrames
    /\ gap \in [Node -> 0 .. MaxGap]
    /\ hurt \subseteq Frame \union {NoFrame}
    /\ complete \subseteq Frame
    /\ written \subseteq Frame
    /\ echoed \subseteq 1 .. MaxFrames
    /\ glued \in BOOLEAN
    /\ {overtaken, reclaimed} \subseteq SUBSET (1 .. MaxFrames)

\* The fragments carry no frame number, yet unpack() is only ever given one whole
\* frame: the fragment numbers tell frames apart as long as fewer fragments are
\* lost in a row than the shortest frame has.
NeverGlued == ~glued

\* A loss costs the frames it hits and no other one: the receiver is back in step
\* with the next frame's first fragment.
UnhurtWritten ==
    open["cli"] =>
        \A f \in complete :
            \/ f \in hurt \union written
            \/ \E i \in DOMAIN chan["cli"] : chan["cli"][i].frame = f

\* What the client writes, whatever the network does: the types, and both of these.
FramesSound == TypeOK /\ NeverGlued /\ UnhurtWritten

\* The echoes reach the server in the order of the frames, although both rings throw
\* frames away: a round trip is never measured after that of a newer frame, unless the
\* server's unlocked scan let the newer frame overtake this one.
EchoInOrder ==
    [][\A i \in echoed' \ echoed : \A j \in echoed : j < i \/ i \in overtaken]_vars

\* The keepalives make the server know its client although it is only told by
\* what it receives, whichever datagrams are lost.
ServerLearnsPeer ==
    <>(peer["srv"] \/ \E n \in Node : ~open[n])

\* Once the encoder is through, its last frame reaches the client's file, unless the
\* network hurt it, a socket was closed, or the encoder took its buffer back at once
\* because the other one was being sent.
LastFrameWritten ==
    encoded = MaxFrames ~>
        \/ \E f \in written \union hurt : f.id = MaxFrames
        \/ MaxFrames \in reclaimed
        \/ \E n \in Node : ~open[n]
=============================================================================
