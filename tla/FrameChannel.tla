---------------------------- MODULE FrameChannel ----------------------------
(***************************************************************************)
(* What cycle_buffer_queue (network/epoll/buffer.hpp) promises the encoder *)
(* and the network thread, without slots, iterators or locks: a mailbox of *)
(* encoded frames that never blocks the encoder.  Frames are numbered in   *)
(* the order in which they are finished.  When the mailbox is full the     *)
(* oldest frame waiting in it is thrown away, never the newest one.        *)
(***************************************************************************)
EXTENDS Naturals

VARIABLES
    finished,   \* number of frames handed over so far
    pending,    \* the frames waiting to be sent
    sending,    \* the frame being sent, or None
    sent,       \* the frames sent completely
    open        \* FALSE once the network thread gave up (l2close)

vars == <<finished, pending, sending, sent, open>>

None == 0

Oldest(S) == {f \in S : \A g \in S : f <= g}
Newest(S) == {f \in S : \A g \in S : g <= f}

Init ==
    /\ finished = 0
    /\ pending = {}
    /\ sending = None
    /\ sent = {}
    /\ open = TRUE

\* The encoder hands over its next frame.
Finish ==
    /\ finished' = finished + 1
    /\ pending' = pending \union {finished + 1}
    /\ UNCHANGED <<sending, sent, open>>

\* The encoder needs the room of the oldest waiting frame.  A frame given back
\* by Abort keeps its place among newer ones, so the order is lost from then on.
Drop ==
    /\ \E f \in pending \ {finished} :
           /\ open => f \in Oldest(pending)
           /\ pending' = pending \ {f}
    /\ UNCHANGED <<finished, sending, sent, open>>

\* The network thread picks the oldest frame, or, when it looks while a frame
\* is being handed over, that newest frame.
Take ==
    /\ open
    /\ sending = None
    /\ \E f \in Oldest(pending) \union Newest(pending) :
           /\ sending' = f
           /\ pending' = pending \ {f}
    /\ UNCHANGED <<finished, sent, open>>

\* The last fragment of the frame was sent.
Deliver ==
    /\ sending # None
    /\ sent' = sent \union {sending}
    /\ sending' = None
    /\ UNCHANGED <<finished, pending, open>>

\* The socket failed in the middle of a frame.
Abort ==
    /\ sending # None
    /\ pending' = pending \union {sending}
    /\ sending' = None
    /\ open' = FALSE
    /\ UNCHANGED <<finished, sent>>

\* The socket failed, or the program ends, with no frame being sent.
Close ==
    /\ sending = None
    /\ open' = FALSE
    /\ UNCHANGED <<finished, pending, sending, sent>>

Next == Finish \/ Drop \/ Take \/ Deliver \/ Abort \/ Close

Spec == Init /\ [][Next]_vars
=============================================================================
