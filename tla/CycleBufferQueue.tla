-------------------------- MODULE CycleBufferQueue --------------------------
(***************************************************************************)
(* The ring of frame buffers between the encoder thread (enc.hpp) and the  *)
(* network thread (epoll.hpp, namespace udp): cycle_buffer_queue of        *)
(* network/epoll/buffer.hpp.                                               *)
(*                                                                         *)
(* alloc() and wait() take the queue's mutex, done() and fail() do not, so *)
(* the stores of done() race with a scan that is under way.  Every store   *)
(* and every read of a shared variable made outside the mutex, or against  *)
(* an unlocked store, is a step of its own.                                *)
(***************************************************************************)
EXTENDS Naturals, FiniteSets

CONSTANTS
    BufCount,   \* number of buffers of the ring
    MaxFrames,  \* the encoder produces at most this many frames (model bound)
    WeakOrder,  \* TRUE: the plain stores of done() may become visible in any
                \* order; FALSE: in program order
    Blocking    \* TRUE: wait(millis) with millis > 0; FALSE: wait(0)

ASSUME BufCountAssumption == BufCount \in Nat /\ BufCount >= 2
ASSUME MaxFramesAssumption == MaxFrames \in Nat
ASSUME ModeAssumption == WeakOrder \in BOOLEAN /\ Blocking \in BOOLEAN

VARIABLES
    buf,        \* slot -> the frame in bufs_[slot], Empty when its size is 0
    ip,         \* ip_
    ialloc,     \* ialloc_, End when no buffer is being filled
    iusing,     \* iusing_, End when no buffer is being sent
    locked,     \* the network thread holds mutex_
    enc,        \* where the encoder thread is
    ebuf,       \* its bufs[0], the iterator alloc() returned
    made,       \* number of frames it completed
    stores,     \* its stores of commit()/done() that are not visible yet
    net,        \* where the network thread is
    txbuf,      \* its txbuf_, End when it has none
    cur,        \* the frame that was in txbuf_ when wait() returned it
    p, eop,     \* the arguments of _findusable, End while not read yet
    retried,    \* this scan is the one after cond_.wait
    late,       \* its stores of done() that are not visible yet
    delivered   \* history: frames whose last fragment was sent

queueVars == <<buf, ip, ialloc, iusing, locked>>
encVars == <<enc, ebuf, made, stores>>
netVars == <<net, txbuf, cur, p, eop, retried, late, delivered>>
vars == <<queueVars, encVars, netVars>>

Slots == 0 .. BufCount - 1
End == BufCount
Empty == 0

incr(i) == IF i + 1 = End THEN 0 ELSE i + 1

\* Forms with a plausible slip stand before the definition they are a slip of;
\* the specification does not use them.
DecrNone(i) == i

decr(i) == IF i = 0 THEN End - 1 ELSE i - 1

Init ==
    /\ buf = [i \in Slots |-> Empty]
    /\ ip = 0
    /\ ialloc = End
    /\ iusing = End
    /\ locked = FALSE
    /\ enc = "alloc"
    /\ ebuf = End
    /\ made = 0
    /\ stores = {}
    /\ net = "idle"
    /\ txbuf = End
    /\ cur = Empty
    /\ p = End
    /\ eop = End
    /\ retried = FALSE
    /\ late = {}
    /\ delivered = {}

-----------------------------------------------------------------------------
(* The encoder thread: alloc, { receive a frame, commit, done, alloc }.    *)

\* alloc's body when the network thread does not hold the mutex.  iusing_ can
\* only become End under it, which is as if that had happened before or after.
AllocAt(i) ==
    /\ enc = "alloc"
    /\ ~locked
    /\ ip' = i
    /\ buf' = [buf EXCEPT ![i] = Empty]
    /\ ialloc' = i
    /\ ebuf' = i
    /\ enc' = "fill"
    /\ UNCHANGED <<iusing, locked, made, stores, netVars>>

\* alloc() without the test of lines 121-126
AllocNoSkip == AllocAt(ip)

Alloc == AllocAt(IF ip = iusing THEN incr(ip) ELSE ip)

\* A frame arrived in the buffer; done() finds ip_ where alloc() left it, or
\* exits the process.
Commit ==
    /\ enc = "fill"
    /\ made < MaxFrames
    /\ made' = made + 1
    /\ enc' = IF ebuf = ialloc /\ ip = ialloc THEN "done" ELSE "fatal"
    /\ stores' = {"size", "ip", "ialloc"}
    /\ UNCHANGED <<queueVars, ebuf, netVars>>

\* A store of S may become visible although those of before have not.
Reorderable(S, before) == WeakOrder \/ S \intersect before = {}

Landed(s) ==
    /\ enc = "done"
    /\ s \in stores
    /\ stores' = stores \ {s}
    /\ enc' = IF stores' = {} THEN "alloc" ELSE "done"
    /\ UNCHANGED <<iusing, locked, ebuf, made, netVars>>

\* the size of the buffer: commit() of the bitstream and put() of the PadInfo
StoreFrame ==
    /\ Landed("size")
    /\ buf' = [buf EXCEPT ![ebuf] = made]
    /\ UNCHANGED <<ip, ialloc>>

\* done() without line 151
StoreIpLost ==
    /\ Reorderable(stores, {"size"})
    /\ Landed("ip")
    /\ ip' = ebuf
    /\ UNCHANGED <<buf, ialloc>>

\* ip_ = j + 1, without incr
StoreIpNoWrap ==
    /\ Reorderable(stores, {"size"})
    /\ Landed("ip")
    /\ ip' = ebuf + 1
    /\ UNCHANGED <<buf, ialloc>>

\* ip_ = incr(j)
StoreIp ==
    /\ Reorderable(stores, {"size"})
    /\ Landed("ip")
    /\ ip' = incr(ebuf)
    /\ UNCHANGED <<buf, ialloc>>

\* ialloc_ = end(); the signal that follows wakes a waiter that may wake by
\* its timeout anyway
StoreIalloc ==
    /\ Reorderable(stores, {"size", "ip"})
    /\ Landed("ialloc")
    /\ ialloc' = End
    /\ UNCHANGED <<buf, ip>>

\* thread.stopped was set: the loop ends, the buffer stays allocated.
EncStop ==
    /\ enc = "fill"
    /\ enc' = "stopped"
    /\ UNCHANGED <<queueVars, ebuf, made, stores, netVars>>

EncStep == Alloc \/ Commit \/ StoreFrame \/ StoreIp \/ StoreIalloc \/ EncStop

-----------------------------------------------------------------------------
(* The network thread: wait(), send the frame's fragments, done() or, when *)
(* the socket fails, fail().                                               *)

\* wait() enters its critical section; the thread's own stores are done.
WaitLock ==
    /\ net = "idle"
    /\ late = {}
    /\ ~locked
    /\ locked' = TRUE
    /\ net' = "read"
    /\ retried' = FALSE
    /\ UNCHANGED <<buf, ip, ialloc, iusing, encVars, txbuf, cur, p, eop, late, delivered>>

\* _findusable(ip_, decr(ip_)): the two arguments are evaluated in either order.
Read ==
    /\ net = "read"
    /\ \/ p = End /\ p' = ip /\ UNCHANGED eop
       \/ eop = End /\ eop' = decr(ip) /\ UNCHANGED p
    /\ net' = IF p' # End /\ eop' # End THEN "scan" ELSE "read"
    /\ UNCHANGED <<queueVars, encVars, txbuf, cur, retried, late, delivered>>

\* _findusable without its test of ialloc_
UsableFilled(i) == buf[i] # Empty

Usable(i) == i # ialloc /\ buf[i] # Empty

Found ==
    /\ net = "scan"
    /\ Usable(p)
    /\ iusing' = p
    /\ txbuf' = p
    /\ cur' = buf[p]
    /\ net' = "use"
    /\ locked' = FALSE
    /\ p' = End /\ eop' = End
    /\ UNCHANGED <<buf, ip, ialloc, encVars, retried, late, delivered>>

ScanNext ==
    /\ net = "scan"
    /\ ~Usable(p)
    /\ p # eop
    /\ p' = incr(p)
    /\ UNCHANGED <<queueVars, encVars, net, txbuf, cur, eop, retried, late, delivered>>

\* Nothing usable: wait() returns end(), or first blocks on cond_ (once).
NotFound ==
    /\ net = "scan"
    /\ ~Usable(p)
    /\ p = eop
    /\ net' = IF Blocking /\ ~retried THEN "cond" ELSE "idle"
    /\ locked' = FALSE
    /\ p' = End /\ eop' = End
    /\ UNCHANGED <<buf, ip, ialloc, iusing, encVars, txbuf, cur, retried, late, delivered>>

\* cond_.wait returns, signalled or timed out, with the mutex taken again.
CondWake ==
    /\ net = "cond"
    /\ ~locked
    /\ locked' = TRUE
    /\ retried' = TRUE
    /\ net' = "read"
    /\ UNCHANGED <<buf, ip, ialloc, iusing, encVars, txbuf, cur, p, eop, late, delivered>>

\* done() without line 155
UseDoneKeep ==
    /\ net = "use"
    /\ delivered' = delivered \union {cur}
    /\ cur' = Empty
    /\ net' = IF txbuf # ialloc /\ txbuf = iusing THEN "done" ELSE "fatal"
    /\ late' = {"iusing"}
    /\ UNCHANGED <<queueVars, encVars, txbuf, p, eop, retried>>

\* The last fragment was sent: done(txbuf_).  With txbuf_ = ialloc_ it would run
\* the encoder's branch, and with neither it exits the process.
UseDone ==
    /\ net = "use"
    /\ delivered' = delivered \union {cur}
    /\ cur' = Empty
    /\ net' = IF txbuf # ialloc /\ txbuf = iusing THEN "done" ELSE "fatal"
    /\ late' = {"size", "iusing"}
    /\ UNCHANGED <<queueVars, encVars, txbuf, p, eop, retried>>

LandedLate(s) ==
    /\ net = "done"
    /\ s \in late
    /\ late' = late \ {s}
    /\ net' = IF late' = {} THEN "idle" ELSE "done"
    /\ txbuf' = IF late' = {} THEN End ELSE txbuf
    /\ UNCHANGED <<ip, ialloc, locked, encVars, cur, p, eop, retried, delivered>>

\* j->consume(j->size())
StoreConsumed ==
    /\ LandedLate("size")
    /\ buf' = [buf EXCEPT ![txbuf] = Empty]
    /\ UNCHANGED iusing

\* iusing_ = end()
StoreIusing ==
    /\ Reorderable(late, {"size"})
    /\ LandedLate("iusing")
    /\ iusing' = End
    /\ UNCHANGED buf

\* l2close: fail(txbuf_) gives the buffer back unsent; the socket is never
\* opened again, so the network thread has no further use for the queue.
UseFail ==
    /\ net = "use"
    /\ net' = IF txbuf # ialloc /\ txbuf = iusing THEN "closed" ELSE "fatal"
    /\ iusing' = End
    /\ txbuf' = End
    /\ cur' = Empty
    /\ UNCHANGED <<buf, ip, ialloc, locked, encVars, p, eop, retried, late, delivered>>

\* l2close without a txbuf_: an error while receiving, or the destructor.
Close ==
    /\ net = "idle"
    /\ late = {}
    /\ net' = "closed"
    /\ UNCHANGED <<queueVars, encVars, txbuf, cur, p, eop, retried, late, delivered>>

NetStep ==
    \/ WaitLock \/ Read \/ Found \/ ScanNext \/ NotFound \/ CondWake
    \/ UseDone \/ StoreConsumed \/ StoreIusing

-----------------------------------------------------------------------------
\* Both threads are through with the queue.
Terminated ==
    /\ enc = "stopped"
    /\ net = "closed"
    /\ UNCHANGED vars

Next == EncStep \/ NetStep \/ UseFail \/ Close \/ Terminated

\* The network thread's loop (xpoll) calls wait() again and again while it runs;
\* nothing is assumed of the encoder, which may stop or get no frame.
Spec == Init /\ [][Next]_vars /\ WF_vars(NetStep)
-----------------------------------------------------------------------------
(* Properties                                                              *)

TypeOK ==
    /\ buf \in [Slots -> 0 .. MaxFrames]
    /\ ip \in Slots
    /\ ialloc \in Slots \union {End}
    /\ iusing \in Slots \union {End}
    /\ locked \in BOOLEAN
    /\ enc \in {"alloc", "fill", "done", "stopped", "fatal"}
    /\ ebuf \in Slots \union {End}
    /\ made \in 0 .. MaxFrames
    /\ stores \subseteq {"size", "ip", "ialloc"}
    /\ net \in {"idle", "read", "scan", "cond", "use", "done", "closed", "fatal"}
    /\ txbuf \in Slots \union {End}
    /\ cur \in 0 .. MaxFrames
    /\ p \in Slots \union {End}
    /\ eop \in Slots \union {End}
    /\ retried \in BOOLEAN
    /\ late \subseteq {"size", "iusing"}
    /\ delivered \subseteq 1 .. MaxFrames

\* None of the ERR_EXITs of done(), fail() (buffer.hpp:149,158,172) is reached:
\* each thread finds the iterators where it left them, although done() and
\* fail() compare and change them without the mutex.
NeverFatal == enc # "fatal" /\ net # "fatal"

\* The frame that is being sent is not touched: the encoder is not writing to
\* its buffer, and the buffer still holds the frame wait() returned.
SendingIntact ==
    net = "use" => /\ iusing = txbuf
                   /\ iusing # ialloc
                   /\ buf[iusing] = cur
                   /\ cur # Empty

\* No frame is sent twice, whatever the order in which the two threads' stores
\* become visible.
SentOnce == net = "use" => cur \notin delivered

\* The slots whose frame waits to be sent: not the one being filled and not the
\* one the network thread has or is giving back.
Waiting == {i \in Slots \ {ialloc, iusing} : buf[i] # Empty}

Pending == {buf[i] : i \in Waiting}

\* A step of the encoder never throws away the newest frame it finished, unless
\* the ring has two buffers and the other one is being sent: with the server's
\* two buffers (main.cpp:40) the alloc() after done() then takes back the very
\* frame that was just finished.
EncoderDropsNewest ==
    /\ UNCHANGED netVars
    /\ made \in Pending
    /\ made \notin Pending'

NewestSurvives == [][EncoderDropsNewest => BufCount = 2 /\ iusing # End]_vars

\* After the encoder stopped, the last frame it finished is sent, unless the
\* socket fails: no reading of ip_ against the stores of done() hides it for good.
LastFrameSent ==
    enc = "stopped" ~> (made \in delivered \/ made = 0 \/ net = "closed")

\* The ring implements the mailbox: a frame is handed over when ialloc_ = end()
\* becomes visible and dropped when alloc() takes its buffer.
Channel == INSTANCE FrameChannel WITH
    finished <- IF enc = "done" THEN made - 1 ELSE made,
    pending <- Pending,
    sending <- IF net = "use" THEN cur ELSE Empty,
    sent <- delivered,
    open <- net # "closed"

ChannelSpec == Channel!Spec
=============================================================================
