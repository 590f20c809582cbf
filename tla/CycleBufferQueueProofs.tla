----------------------- MODULE CycleBufferQueueProofs -----------------------
(***************************************************************************)
(* Proofs about CycleBufferQueue for every number of buffers, every number *)
(* of frames, both orders in which stores may become visible, and with or  *)
(* without a blocking wait().                                              *)
(***************************************************************************)
EXTENDS CycleBufferQueue, TLAPS

USE DEF Slots, End, Empty

-----------------------------------------------------------------------------
(* The inductive invariant, one part per idea.                             *)

\* The encoder's iterator, ip_ and ialloc_ agree as far as its own stores have
\* become visible, and the buffer it fills is empty until its size is stored.
EncoderView ==
    /\ enc = "alloc" => ialloc = End
    /\ enc \in {"fill", "stopped"} =>
           /\ ebuf \in Slots
           /\ ialloc = ebuf
           /\ ip = ebuf
           /\ buf[ebuf] = Empty
    /\ enc = "done" =>
           /\ ebuf \in Slots
           /\ made # Empty
           /\ ialloc = IF "ialloc" \in stores THEN ebuf ELSE End
           /\ ip = IF "ip" \in stores THEN ebuf ELSE incr(ebuf)
           /\ "size" \in stores => buf[ebuf] = Empty

\* iusing_ is what the network thread's progress says, and a buffer it is
\* sending holds the frame it took.
NetworkView ==
    /\ net = "scan" => p \in Slots /\ eop \in Slots
    /\ net \in {"read", "scan"} => locked
    /\ net \in {"use", "done"} => txbuf \in Slots
    /\ net = "use" => iusing = txbuf /\ buf[txbuf] = cur /\ cur # Empty
    /\ net = "done" => iusing = IF "iusing" \in late THEN txbuf ELSE End
    /\ net \notin {"use", "done"} => iusing = End

\* No buffer is filled and sent at the same time.
NotShared == ialloc = End \/ ialloc # iusing

Inv == TypeOK /\ EncoderView /\ NetworkView /\ NotShared /\ NeverFatal

-----------------------------------------------------------------------------
\* ip_ = incr(j) stays in the ring and moves.
LEMMA IncrInRing ==
    ASSUME NEW i \in Slots
    PROVE  incr(i) \in Slots /\ incr(i) # i
  BY BufCountAssumption DEF incr

\* Only a ring of two comes back to the same buffer after two.
LEMMA IncrTwice ==
    ASSUME NEW i \in Slots, incr(incr(i)) = i
    PROVE  BufCount = 2
  BY BufCountAssumption DEF incr

\* decr stays in the ring too.
LEMMA DecrInRing ==
    ASSUME NEW i \in Slots
    PROVE  decr(i) \in Slots
  BY BufCountAssumption DEF decr

\* Initially no buffer is in anybody's hands.
LEMMA InitInv == Init => Inv
  <1> SUFFICES ASSUME Init
               PROVE  Inv
    OBVIOUS
  <1>1. 0 \in Slots /\ Empty \in 0 .. MaxFrames
    BY BufCountAssumption, MaxFramesAssumption
  <1>2. TypeOK
    <2>1. buf \in [Slots -> 0 .. MaxFrames]
      BY <1>1 DEF Init
    <2> QED
      BY <1>1, <2>1 DEF Init, TypeOK
  <1>3. EncoderView /\ NetworkView /\ NotShared /\ NeverFatal
    BY DEF Init, EncoderView, NetworkView, NotShared, NeverFatal
  <1> QED
    BY <1>2, <1>3 DEF Inv

\* Each step of the encoder thread preserves the invariant.
LEMMA EncStepInv == Inv /\ EncStep => Inv'
  <1> SUFFICES ASSUME Inv, EncStep
               PROVE  Inv'
    OBVIOUS
  <1> USE BufCountAssumption, MaxFramesAssumption, ModeAssumption
  <1> USE DEF Inv, TypeOK, encVars, netVars, queueVars
  <1>1. CASE Alloc
    <2> DEFINE i == IF ip = iusing THEN incr(ip) ELSE ip
    <2>1. i \in Slots /\ i # iusing
      BY IncrInRing
    <2>2. AllocAt(i)
      BY <1>1 DEF Alloc
    <2> HIDE DEF i
    <2>3. TypeOK'
      BY <2>1, <2>2 DEF AllocAt
    <2>4. EncoderView'
      BY <2>1, <2>2 DEF AllocAt, EncoderView
    <2>5. NetworkView'
      BY <2>1, <2>2 DEF AllocAt, NetworkView
    <2>6. NotShared' /\ NeverFatal'
      BY <2>1, <2>2 DEF AllocAt, NotShared, NeverFatal
    <2> QED
      BY <2>3, <2>4, <2>5, <2>6
  <1>2. CASE Commit
    BY <1>2 DEF Commit, EncoderView, NetworkView, NotShared, NeverFatal
  <1>3. CASE StoreFrame
    <2>1. ebuf \in Slots /\ buf[ebuf] = Empty /\ made # Empty
      BY <1>3 DEF StoreFrame, Landed, EncoderView
    <2>2. TypeOK'
      BY <1>3, <2>1 DEF StoreFrame, Landed
    <2>3. EncoderView'
      BY <1>3, <2>1 DEF StoreFrame, Landed, EncoderView
    <2>4. NetworkView'
      BY <1>3, <2>1 DEF StoreFrame, Landed, NetworkView
    <2>5. NotShared' /\ NeverFatal'
      BY <1>3 DEF StoreFrame, Landed, NotShared, NeverFatal
    <2> QED
      BY <2>2, <2>3, <2>4, <2>5
  <1>4. CASE StoreIp
    <2>1. ebuf \in Slots /\ incr(ebuf) \in Slots
      BY <1>4, IncrInRing DEF StoreIp, Landed, EncoderView
    <2> QED
      BY <1>4, <2>1
         DEF StoreIp, Landed, EncoderView, NetworkView, NotShared, NeverFatal
  <1>5. CASE StoreIalloc
    BY <1>5 DEF StoreIalloc, Landed, EncoderView, NetworkView, NotShared, NeverFatal
  <1>6. CASE EncStop
    BY <1>6 DEF EncStop, EncoderView, NetworkView, NotShared, NeverFatal
  <1> QED
    BY <1>1, <1>2, <1>3, <1>4, <1>5, <1>6 DEF EncStep

\* Each step of the network thread preserves the invariant.
LEMMA NetStepInv == Inv /\ (NetStep \/ UseFail \/ Close) => Inv'
  <1> SUFFICES ASSUME Inv, NetStep \/ UseFail \/ Close
               PROVE  Inv'
    OBVIOUS
  <1> USE BufCountAssumption, MaxFramesAssumption, ModeAssumption
  <1> USE DEF Inv, TypeOK, encVars, netVars, queueVars
  <1>1. CASE WaitLock
    BY <1>1 DEF WaitLock, EncoderView, NetworkView, NotShared, NeverFatal
  <1>2. CASE Read
    <2>1. decr(ip) \in Slots
      BY DecrInRing
    <2> QED
      BY <1>2, <2>1 DEF Read, EncoderView, NetworkView, NotShared, NeverFatal
  <1>3. CASE Found
    <2>1. p \in Slots /\ p # ialloc /\ buf[p] # Empty
      BY <1>3 DEF Found, Usable, NetworkView
    <2> QED
      BY <1>3, <2>1 DEF Found, EncoderView, NetworkView, NotShared, NeverFatal
  <1>4. CASE ScanNext
    <2>1. incr(p) \in Slots
      BY <1>4, IncrInRing DEF ScanNext, NetworkView
    <2> QED
      BY <1>4, <2>1 DEF ScanNext, EncoderView, NetworkView, NotShared, NeverFatal
  <1>5. CASE NotFound
    BY <1>5 DEF NotFound, EncoderView, NetworkView, NotShared, NeverFatal
  <1>6. CASE CondWake
    BY <1>6 DEF CondWake, EncoderView, NetworkView, NotShared, NeverFatal
  <1>7. CASE UseDone
    BY <1>7 DEF UseDone, EncoderView, NetworkView, NotShared, NeverFatal
  <1>8. CASE StoreConsumed
    BY <1>8 DEF StoreConsumed, LandedLate, EncoderView, NetworkView, NotShared, NeverFatal
  <1>9. CASE StoreIusing
    BY <1>9 DEF StoreIusing, LandedLate, EncoderView, NetworkView, NotShared, NeverFatal
  <1>10. CASE UseFail
    BY <1>10 DEF UseFail, EncoderView, NetworkView, NotShared, NeverFatal
  <1>11. CASE Close
    BY <1>11 DEF Close, EncoderView, NetworkView, NotShared, NeverFatal
  <1> QED
    BY <1>1, <1>2, <1>3, <1>4, <1>5, <1>6, <1>7, <1>8, <1>9, <1>10, <1>11 DEF NetStep

\* The invariant holds throughout, for every value of the constants.
THEOREM Invariance == Spec => []Inv
  <1>1. Inv /\ UNCHANGED vars => Inv'
    BY DEF Inv, TypeOK, EncoderView, NetworkView, NotShared, NeverFatal,
           vars, encVars, netVars, queueVars
  <1>2. Inv /\ [Next]_vars => Inv'
    BY <1>1, EncStepInv, NetStepInv DEF Next, Terminated
  <1> QED
    BY InitInv, <1>2, PTL DEF Spec

\* Every variable of the ring keeps its type: in particular ip_ never leaves the
\* array, whatever the order of done()'s stores.
THEOREM TypeCorrect == Spec => []TypeOK
  BY Invariance, PTL DEF Inv

\* No ERR_EXIT of done() or fail() is reached.
THEOREM NoFatalExit == Spec => []NeverFatal
  BY Invariance, PTL DEF Inv

\* The buffer being sent is never filled, emptied or replaced meanwhile.
THEOREM SendingStaysIntact == Spec => []SendingIntact
  <1>1. Inv => SendingIntact
    BY DEF Inv, TypeOK, NetworkView, NotShared, SendingIntact
  <1> QED
    BY Invariance, <1>1, PTL

-----------------------------------------------------------------------------
(* Where frames are: each in one buffer at most, and a frame already sent    *)
(* only in the buffer whose size the network thread is about to clear.       *)

FramesOnce ==
    /\ \A i \in Slots : buf[i] <= made
    /\ \A i, j \in Slots : i # j /\ buf[i] = buf[j] => buf[i] = Empty
    /\ \A f \in delivered : f <= made
    /\ enc = "done" /\ "size" \in stores =>
           made \notin delivered /\ \A i \in Slots : buf[i] # made
    /\ \A i \in Slots :
           buf[i] \in delivered => net = "done" /\ "size" \in late /\ i = txbuf

\* The newest frame is right behind ip_ when the next alloc() is due.
NewestPlace ==
    /\ enc = "alloc" =>
           \A k \in Slots : buf[k] = made /\ made # Empty => ip = incr(k)
    /\ enc = "done" /\ "size" \notin stores =>
           \A k \in Slots : buf[k] = made => k = ebuf

FrameInv == FramesOnce /\ NewestPlace

\* The first frames of the ring: there are none.
LEMMA InitFrameInv == Init => FrameInv
  BY DEF Init, FrameInv, FramesOnce, NewestPlace

\* Each step of the encoder keeps frames apart and the newest one behind ip_.
LEMMA EncStepFrameInv == Inv /\ FrameInv /\ EncStep => FrameInv'
  <1> SUFFICES ASSUME Inv, FrameInv, EncStep
               PROVE  FrameInv'
    OBVIOUS
  <1> USE BufCountAssumption, MaxFramesAssumption, ModeAssumption
  <1> USE DEF Inv, TypeOK, FrameInv, encVars, netVars, queueVars
  <1>1. CASE Alloc
    <2> DEFINE i == IF ip = iusing THEN incr(ip) ELSE ip
    <2>1. i \in Slots
      BY IncrInRing
    <2>2. AllocAt(i)
      BY <1>1 DEF Alloc
    <2> HIDE DEF i
    <2>3. FramesOnce'
      BY <2>1, <2>2 DEF AllocAt, FramesOnce
    <2>4. NewestPlace'
      BY <2>2 DEF AllocAt, NewestPlace
    <2> QED
      BY <2>3, <2>4
  <1>2. CASE Commit
    BY <1>2 DEF Commit, FramesOnce, NewestPlace
  <1>3. CASE StoreFrame
    <2>1. ebuf \in Slots
      BY <1>3 DEF StoreFrame, Landed, EncoderView
    <2>2. FramesOnce'
      BY <1>3, <2>1 DEF StoreFrame, Landed, FramesOnce
    <2>3. NewestPlace'
      BY <1>3, <2>1 DEF StoreFrame, Landed, FramesOnce, NewestPlace, EncoderView
    <2> QED
      BY <2>2, <2>3
  <1>4. CASE StoreIp
    BY <1>4 DEF StoreIp, Landed, FramesOnce, NewestPlace
  <1>5. CASE StoreIalloc
    BY <1>5 DEF StoreIalloc, Landed, FramesOnce, NewestPlace, EncoderView
  <1>6. CASE EncStop
    BY <1>6 DEF EncStop, FramesOnce, NewestPlace
  <1> QED
    BY <1>1, <1>2, <1>3, <1>4, <1>5, <1>6 DEF EncStep

\* The network thread only empties the buffer whose frame it has sent.
LEMMA NetStepFrameInv == Inv /\ FrameInv /\ (NetStep \/ UseFail \/ Close) => FrameInv'
  <1> SUFFICES ASSUME Inv, FrameInv, NetStep \/ UseFail \/ Close
               PROVE  FrameInv'
    OBVIOUS
  <1> USE BufCountAssumption, MaxFramesAssumption, ModeAssumption
  <1> USE DEF Inv, TypeOK, FrameInv, encVars, netVars, queueVars
  <1>1. CASE WaitLock
    BY <1>1 DEF WaitLock, FramesOnce, NewestPlace
  <1>2. CASE Read
    BY <1>2 DEF Read, FramesOnce, NewestPlace
  <1>3. CASE Found
    BY <1>3 DEF Found, FramesOnce, NewestPlace
  <1>4. CASE ScanNext
    BY <1>4 DEF ScanNext, FramesOnce, NewestPlace
  <1>5. CASE NotFound
    BY <1>5 DEF NotFound, FramesOnce, NewestPlace
  <1>6. CASE CondWake
    BY <1>6 DEF CondWake, FramesOnce, NewestPlace
  <1>7. CASE UseDone
    <2>1. txbuf \in Slots /\ buf[txbuf] = cur /\ cur # Empty /\ net' = "done"
      BY <1>7 DEF UseDone, NetworkView, NotShared
    <2>2. FramesOnce'
      BY <1>7, <2>1 DEF UseDone, FramesOnce
    <2>3. NewestPlace'
      BY <1>7 DEF UseDone, NewestPlace
    <2> QED
      BY <2>2, <2>3
  <1>8. CASE StoreConsumed
    <2>1. txbuf \in Slots
      BY <1>8 DEF StoreConsumed, LandedLate, NetworkView
    <2>2. FramesOnce'
      BY <1>8, <2>1 DEF StoreConsumed, LandedLate, FramesOnce
    <2>3. NewestPlace'
      BY <1>8, <2>1 DEF StoreConsumed, LandedLate, NewestPlace, EncoderView
    <2> QED
      BY <2>2, <2>3
  <1>9. CASE StoreIusing
    BY <1>9 DEF StoreIusing, LandedLate, FramesOnce, NewestPlace
  <1>10. CASE UseFail
    BY <1>10 DEF UseFail, FramesOnce, NewestPlace
  <1>11. CASE Close
    BY <1>11 DEF Close, FramesOnce, NewestPlace
  <1> QED
    BY <1>1, <1>2, <1>3, <1>4, <1>5, <1>6, <1>7, <1>8, <1>9, <1>10, <1>11 DEF NetStep

\* Where frames are, throughout.
THEOREM FrameInvariance == Spec => []FrameInv
  <1>1. FrameInv /\ UNCHANGED vars => FrameInv'
    BY DEF FrameInv, FramesOnce, NewestPlace, vars, encVars, netVars, queueVars
  <1>2. Inv /\ FrameInv /\ [Next]_vars => FrameInv'
    BY <1>1, EncStepFrameInv, NetStepFrameInv DEF Next, Terminated
  <1> QED
    BY InitFrameInv, Invariance, <1>2, PTL DEF Spec

\* No frame is sent twice, in either order of done()'s stores.
THEOREM FrameSentOnce == Spec => []SentOnce
  <1>1. Inv /\ FrameInv => SentOnce
    BY DEF Inv, NetworkView, FrameInv, FramesOnce, SentOnce
  <1> QED
    BY Invariance, FrameInvariance, <1>1, PTL

\* With a ring of three or more buffers alloc() never takes back the frame that
\* was just finished; with two it does so only while the other one is being sent.
THEOREM NewestFrameSurvives == Spec => NewestSurvives
  <1>1. Inv /\ FrameInv /\ [Next]_vars
           => [EncoderDropsNewest => BufCount = 2 /\ iusing # End]_vars
    <2> SUFFICES ASSUME Inv, FrameInv, [Next]_vars, EncoderDropsNewest
                 PROVE  BufCount = 2 /\ iusing # End
      OBVIOUS
    <2> USE BufCountAssumption, MaxFramesAssumption
    <2> USE DEF Inv, TypeOK, encVars, netVars, queueVars, vars
    <2>1. PICK k \in Slots \ {ialloc, iusing} : buf[k] = made /\ made # Empty
      BY DEF EncoderDropsNewest, Pending, Waiting
    <2>2. ~(k # ialloc' /\ k # iusing' /\ buf'[k] = made)
      BY <2>1 DEF EncoderDropsNewest, Pending, Waiting
    <2>3. UNCHANGED netVars
      BY DEF EncoderDropsNewest
    <2>4. CASE Alloc
      <3> DEFINE i == IF ip = iusing THEN incr(ip) ELSE ip
      <3>0. i \in Slots
        BY IncrInRing
      <3>1. AllocAt(i)
        BY <2>4 DEF Alloc
      <3>2. k = i
        <4> HIDE DEF i
        <4> QED
          BY <2>1, <2>2, <3>0, <3>1 DEF AllocAt
      <3>3. ip = incr(k)
        BY <2>1, <3>1 DEF AllocAt, FrameInv, NewestPlace
      <3>4. ip = iusing /\ incr(incr(k)) = k
        BY <3>2, <3>3, <2>1, IncrInRing
      <3>5. BufCount = 2
        BY <3>4, <2>1, IncrTwice
      <3>6. iusing # End
        BY <3>4
      <3> QED
        BY <3>5, <3>6
    <2>5. CASE Commit \/ StoreFrame \/ StoreIp \/ StoreIalloc \/ EncStop
      <3>1. CASE Commit \/ EncStop
        BY <2>1, <2>2, <3>1 DEF Commit, EncStop
      <3>2. CASE StoreFrame
        <4>1. ebuf \in Slots
          BY <3>2 DEF StoreFrame, Landed, EncoderView
        <4> QED
          BY <2>1, <2>2, <3>2, <4>1 DEF StoreFrame, Landed
      <3>3. CASE StoreIp
        BY <2>1, <2>2, <3>3 DEF StoreIp, Landed
      <3>4. CASE StoreIalloc
        BY <2>1, <2>2, <3>4 DEF StoreIalloc, Landed
      <3> QED
        BY <2>5, <3>1, <3>2, <3>3, <3>4
    <2>6. CASE NetStep \/ UseFail \/ Close
      <3>1. CASE WaitLock \/ Found \/ NotFound \/ CondWake \/ UseDone \/ UseFail \/ Close
        BY <2>3, <3>1 DEF WaitLock, Found, NotFound, CondWake, UseDone, UseFail, Close
      <3>2. CASE Read
        BY <2>3, <3>2, DecrInRing DEF Read
      <3>3. CASE ScanNext
        BY <2>3, <3>3, IncrInRing DEF ScanNext, NetworkView
      <3>4. CASE StoreConsumed \/ StoreIusing
        BY <2>3, <3>4 DEF StoreConsumed, StoreIusing, LandedLate
      <3> QED
        BY <2>6, <3>1, <3>2, <3>3, <3>4 DEF NetStep
    <2>7. CASE UNCHANGED vars
      BY <2>1, <2>2, <2>7
    <2>8. EncStep \/ NetStep \/ UseFail \/ Close \/ UNCHANGED vars
      BY DEF Next, Terminated
    <2>9. CASE EncStep
      BY <2>4, <2>5, <2>9 DEF EncStep
    <2> QED
      BY <2>6, <2>7, <2>8, <2>9
  <1> QED
    BY Invariance, FrameInvariance, <1>1, PTL DEF NewestSurvives, Spec

-----------------------------------------------------------------------------
(* The ring implements the mailbox of FrameChannel, when done()'s stores     *)
(* become visible in program order and the ring has three buffers or more.   *)

\* The buffer the encoder takes next, once it has finished the one it fills.
Base == IF enc = "alloc" THEN ip ELSE incr(ebuf)

\* How far buffer i is from buffer b along the ring.
Dist(b, i) == IF i >= b THEN i - b ELSE (i + BufCount) - b

\* What the stores that are visible say of the ones that are not.
StoresInOrder ==
    /\ enc = "done" =>
           /\ "ialloc" \in stores
           /\ "size" \in stores => "ip" \in stores
           /\ "size" \notin stores => buf[ebuf] = made
    /\ net = "done" =>
           /\ "iusing" \in late
           /\ "size" \notin late => buf[txbuf] = Empty

\* Frames lie along the ring from Base in the order in which they were made,
\* but for the one that is being sent.
AgeOrder ==
    net # "closed" =>
        \A i, j \in Slots \ {iusing} :
            buf[i] # Empty /\ buf[j] # Empty /\ Dist(Base, i) < Dist(Base, j)
                => buf[i] < buf[j]

\* A scan has left nothing behind it, unless it is at the buffer just before
\* Base, where it starts when it read ip_ before done() moved it.
ScanView ==
    /\ net \notin {"read", "scan"} => p = End
    /\ p # End /\ Dist(Base, p) # BufCount - 1 =>
           \A i \in Slots : Dist(Base, i) < Dist(Base, p) => buf[i] = Empty

OrderInv == StoresInOrder /\ AgeOrder /\ ScanView

\* Distances stay in the ring and tell buffers apart.
LEMMA DistRange ==
    ASSUME NEW b \in Slots, NEW i \in Slots
    PROVE  /\ Dist(b, i) \in Nat
           /\ Dist(b, i) <= BufCount - 1
           /\ Dist(b, b) = 0
           /\ Dist(b, i) = 0 => i = b
  BY BufCountAssumption DEF Dist

\* Distances tell buffers apart.
LEMMA DistDistinct ==
    ASSUME NEW b \in Slots, NEW i \in Slots, NEW j \in Slots, Dist(b, i) = Dist(b, j)
    PROVE  i = j
  BY BufCountAssumption DEF Dist

\* One step along the ring is one step away, until the ring closes.
LEMMA DistNext ==
    ASSUME NEW b \in Slots, NEW i \in Slots
    PROVE  /\ Dist(b, i) # BufCount - 1 => Dist(b, incr(i)) = Dist(b, i) + 1
           /\ Dist(b, i) = BufCount - 1 => incr(i) = b
  BY BufCountAssumption DEF Dist, incr

\* Moving the origin by one brings every buffer one nearer, and the old origin
\* to the far end.
LEMMA DistShift ==
    ASSUME NEW b \in Slots, NEW i \in Slots
    PROVE  /\ i # b => Dist(incr(b), i) = Dist(b, i) - 1
           /\ Dist(incr(b), b) = BufCount - 1
  BY BufCountAssumption DEF Dist, incr

\* Base is a buffer of the ring.
LEMMA BaseInRing == Inv => Base \in Slots
  BY IncrInRing DEF Inv, TypeOK, EncoderView, NeverFatal, Base

\* At the start the ring is empty.
LEMMA InitOrderInv == Init => OrderInv
  BY DEF Init, OrderInv, StoresInOrder, AgeOrder, ScanView

\* alloc() moves Base by one, or by two over the buffer that is being sent.
LEMMA AllocOrderInv ==
    ASSUME Inv, FrameInv, OrderInv, Alloc
    PROVE  OrderInv'
  <1> USE DEF Inv, TypeOK, encVars, netVars, queueVars
  <1> DEFINE i == IF ip = iusing THEN incr(ip) ELSE ip
  <1>1. i \in Slots /\ i # iusing /\ ip \in Slots
    BY IncrInRing
  <1>2. AllocAt(i)
    BY DEF Alloc
  <1>3. Base = ip /\ Base' = incr(i) /\ Base' \in Slots
    BY <1>1, <1>2, IncrInRing DEF AllocAt, Base
  <1>4. ip = iusing => i = incr(ip)
    OBVIOUS
  <1>5. ip # iusing => i = ip
    OBVIOUS
  <1> HIDE DEF i
  <1>6. StoresInOrder'
    <2>1. enc' # "done" /\ iusing' = iusing /\ late' = late /\ txbuf' = txbuf /\ net' = net
      BY <1>2 DEF AllocAt
    <2>2. net = "done" => txbuf \in Slots /\ txbuf = iusing
      BY DEF OrderInv, StoresInOrder, NetworkView
    <2>3. net = "done" => buf'[txbuf] = buf[txbuf]
      BY <1>1, <1>2, <2>2 DEF AllocAt
    <2> QED
      BY <2>1, <2>3 DEF OrderInv, StoresInOrder
  <1>7. AgeOrder'
    <2> SUFFICES ASSUME net # "closed", NEW j \in Slots \ {iusing}, NEW k \in Slots \ {iusing},
                        buf'[j] # Empty, buf'[k] # Empty,
                        Dist(Base', j) < Dist(Base', k)
                 PROVE  buf'[j] < buf'[k]
      BY <1>2 DEF AllocAt, AgeOrder
    <2>1. j # i /\ k # i /\ buf'[j] = buf[j] /\ buf'[k] = buf[k]
      BY <1>1, <1>2 DEF AllocAt
    <2>2. Dist(ip, j) < Dist(ip, k)
      <3>1. CASE ip # iusing
        <4>1. Dist(Base', j) = Dist(ip, j) - 1 /\ Dist(Base', k) = Dist(ip, k) - 1
          BY <1>1, <1>3, <1>5, <2>1, <3>1, DistShift
        <4>2. Dist(ip, j) \in Nat /\ Dist(ip, k) \in Nat
          BY <1>1, DistRange
        <4> QED
          BY <4>1, <4>2
      <3>2. CASE ip = iusing
        <4>1. i = incr(ip) /\ j # ip /\ k # ip
          BY <1>4, <3>2
        <4>2. Dist(i, j) = Dist(ip, j) - 1 /\ Dist(i, k) = Dist(ip, k) - 1
          BY <4>1, <1>1, DistShift
        <4>3. Dist(Base', j) = Dist(i, j) - 1 /\ Dist(Base', k) = Dist(i, k) - 1
          BY <1>1, <1>3, <2>1, DistShift
        <4>4. Dist(ip, j) \in Nat /\ Dist(ip, k) \in Nat
          BY <1>1, DistRange
        <4> QED
          BY <4>2, <4>3, <4>4
      <3> QED
        BY <3>1, <3>2
    <2> QED
      BY <1>3, <2>1, <2>2 DEF OrderInv, AgeOrder
  <1>8. ScanView'
    BY <1>2 DEF AllocAt, OrderInv, ScanView, NetworkView
  <1> QED
    BY <1>6, <1>7, <1>8 DEF OrderInv

\* The other steps of the encoder leave Base where it is; only the youngest
\* place, right before it, receives a frame.
LEMMA StoresOrderInv ==
    ASSUME ~WeakOrder, Inv, FrameInv, OrderInv,
           Commit \/ StoreFrame \/ StoreIp \/ StoreIalloc \/ EncStop
    PROVE  OrderInv'
  <1> USE BufCountAssumption, MaxFramesAssumption
  <1> USE DEF Inv, TypeOK, encVars, netVars, queueVars, OrderInv
  <1>0. Base \in Slots /\ ebuf \in Slots /\ Base = incr(ebuf) /\ UNCHANGED <<iusing, ebuf, netVars>>
    BY BaseInRing DEF Base, Commit, StoreFrame, StoreIp, StoreIalloc, EncStop, Landed, EncoderView
  <1>1. Base' = Base
    <2>1. CASE Commit \/ StoreFrame \/ StoreIp \/ EncStop
      BY <1>0, <2>1 DEF Base, Commit, StoreFrame, StoreIp, EncStop, Landed, Reorderable, StoresInOrder
    <2>2. CASE StoreIalloc
      BY <1>0, <2>2 DEF Base, StoreIalloc, Landed, Reorderable, EncoderView
    <2> QED
      BY <2>1, <2>2
  <1>2. CASE ~StoreFrame
    <2>1. buf' = buf
      BY <1>2 DEF Commit, StoreIp, StoreIalloc, EncStop
    <2>2. StoresInOrder'
      BY <1>0, <1>2, <2>1 DEF Commit, StoreIp, StoreIalloc, EncStop, Landed, Reorderable,
                        StoresInOrder
    <2>3. AgeOrder'
      BY <1>0, <1>1, <2>1 DEF AgeOrder
    <2>4. ScanView'
      BY <1>0, <1>1, <2>1 DEF ScanView
    <2> QED
      BY <2>2, <2>3, <2>4
  <1>3. CASE StoreFrame
    <2>1. /\ buf' = [buf EXCEPT ![ebuf] = made]
          /\ enc = "done" /\ "size" \in stores /\ buf[ebuf] = Empty
      BY <1>3 DEF StoreFrame, Landed, EncoderView
    <2>2. Dist(Base, ebuf) = BufCount - 1
      BY <1>0, DistShift
    <2>3. ialloc = ebuf
      BY <2>1 DEF EncoderView, StoresInOrder
    <2>4. StoresInOrder'
      <3>1. net = "done" => txbuf \in Slots /\ txbuf # ebuf
        BY <2>3 DEF NetworkView, NotShared, StoresInOrder
      <3> QED
        BY <1>0, <1>3, <2>1, <3>1 DEF StoreFrame, Landed, StoresInOrder
    <2>5. AgeOrder'
      <3> SUFFICES ASSUME net # "closed", NEW j \in Slots \ {iusing}, NEW k \in Slots \ {iusing},
                          buf'[j] # Empty, buf'[k] # Empty,
                          Dist(Base, j) < Dist(Base, k)
                   PROVE  buf'[j] < buf'[k]
        BY <1>0, <1>1 DEF AgeOrder
      <3>0. /\ Dist(Base, j) \in Nat /\ Dist(Base, k) \in Nat
            /\ Dist(Base, k) <= BufCount - 1
        BY <1>0, DistRange
      <3>1. j # ebuf
        BY <2>2, <3>0
      <3>2. CASE k = ebuf
        <4>1. buf[j] <= made /\ buf[j] # made
          BY <2>1 DEF FrameInv, FramesOnce
        <4> QED
          BY <2>1, <3>1, <3>2, <4>1
      <3>3. CASE k # ebuf
        BY <2>1, <3>1, <3>3 DEF AgeOrder
      <3> QED
        BY <3>2, <3>3
    <2>6. ScanView'
      <3>1. ASSUME NEW j \in Slots, p \in Slots, Dist(Base, j) < Dist(Base, p)
            PROVE  j # ebuf
        <4>1. /\ Dist(Base, j) \in Nat /\ Dist(Base, p) \in Nat
              /\ Dist(Base, p) <= BufCount - 1
          BY <1>0, <3>1, DistRange
        <4> QED
          BY <2>2, <3>1, <4>1
      <3> QED
        BY <1>0, <1>1, <2>1, <3>1 DEF ScanView
    <2> QED
      BY <2>4, <2>5, <2>6
  <1> QED
    BY <1>2, <1>3

\* The network thread's reads, its scan and its own stores.
LEMMA NetStepOrderInv ==
    ASSUME ~WeakOrder, Inv, FrameInv, OrderInv, NetStep \/ UseFail \/ Close
    PROVE  OrderInv'
  <1> USE BufCountAssumption, MaxFramesAssumption
  <1> USE DEF Inv, TypeOK, encVars, netVars, queueVars, OrderInv
  <1>0. Base \in Slots /\ Base' = Base
    BY BaseInRing DEF Base, NetStep, WaitLock, Read, Found, ScanNext, NotFound, CondWake,
                      UseDone, StoreConsumed, StoreIusing, LandedLate, UseFail, Close
  <1>1. CASE WaitLock \/ CondWake \/ Close \/ NotFound
    <2>1. /\ UNCHANGED <<buf, iusing, enc, ebuf, made, stores, late, txbuf>>
          /\ p' = End
          /\ net # "done" /\ net' # "done" /\ net # "closed"
      BY <1>1 DEF WaitLock, CondWake, Close, NotFound, ScanView
    <2>2. StoresInOrder'
      BY <2>1 DEF StoresInOrder
    <2>3. AgeOrder'
      BY <1>0, <2>1 DEF AgeOrder
    <2>4. ScanView'
      BY <2>1 DEF ScanView
    <2> QED
      BY <2>2, <2>3, <2>4
  <1>2. CASE Read
    <2>1. /\ UNCHANGED <<buf, iusing, enc, ebuf, made, stores, late, txbuf>>
          /\ net = "read" /\ net' \in {"read", "scan"}
      BY <1>2 DEF Read
    <2>2. StoresInOrder' /\ AgeOrder'
      BY <1>0, <2>1 DEF StoresInOrder, AgeOrder
    <2>3. CASE p' = p
      BY <1>0, <2>1, <2>2, <2>3 DEF ScanView
    <2>4. CASE p' = ip
      <3>1. ip = Base \/ Base = incr(ip)
        BY DEF Base, EncoderView, NeverFatal
      <3>2. Dist(Base, ip) = 0 \/ Dist(Base, ip) = BufCount - 1
        BY <1>0, <3>1, DistRange, DistShift
      <3>3. \A i \in Slots : ~(Dist(Base, i) < 0)
        <4> TAKE i \in Slots
        <4>1. Dist(Base, i) \in Nat
          BY <1>0, DistRange
        <4> QED
          BY <4>1
      <3> QED
        BY <1>0, <2>1, <2>2, <2>4, <3>2, <3>3 DEF ScanView
    <2> QED
      BY <1>2, <2>2, <2>3, <2>4 DEF Read
  <1>3. CASE Found
    <2>1. /\ UNCHANGED <<buf, enc, ebuf, made, stores, late>>
          /\ p' = End /\ net = "scan" /\ net' = "use" /\ iusing = End /\ iusing' = p
      BY <1>3 DEF Found, NetworkView
    <2>2. StoresInOrder' /\ ScanView'
      BY <2>1 DEF StoresInOrder, ScanView
    <2>3. AgeOrder'
      BY <1>0, <2>1 DEF AgeOrder
    <2> QED
      BY <2>2, <2>3
  <1>4. CASE ScanNext
    <2>1. /\ UNCHANGED <<buf, iusing, enc, ebuf, made, stores, late, txbuf, net>>
          /\ net = "scan" /\ p \in Slots /\ ~Usable(p) /\ p' = incr(p)
      BY <1>4 DEF ScanNext, NetworkView
    <2>2. StoresInOrder' /\ AgeOrder'
      BY <1>0, <2>1 DEF StoresInOrder, AgeOrder
    <2>3. ASSUME Dist(Base, incr(p)) # BufCount - 1,
                 NEW i \in Slots, Dist(Base, i) < Dist(Base, incr(p))
          PROVE  buf[i] = Empty
      <3>0. Dist(Base, i) \in Nat /\ Dist(Base, p) \in Nat
        BY <1>0, <2>1, DistRange
      <3>1. Dist(Base, p) # BufCount - 1
        <4>1. SUFFICES ASSUME Dist(Base, p) = BufCount - 1
                       PROVE  FALSE
          OBVIOUS
        <4>2. incr(p) = Base
          BY <1>0, <2>1, <4>1, DistNext
        <4>3. Dist(Base, incr(p)) = 0
          BY <1>0, <4>2, DistRange
        <4> QED
          BY <2>3, <3>0, <4>3
      <3>2. Dist(Base, incr(p)) = Dist(Base, p) + 1
        BY <1>0, <2>1, <3>1, DistNext
      <3>3. CASE Dist(Base, i) < Dist(Base, p)
        BY <2>1, <3>1, <3>3 DEF ScanView
      <3>4. CASE Dist(Base, i) = Dist(Base, p)
        <4>1. i = p
          BY <1>0, <2>1, <3>4, DistDistinct
        <4>2. p # ialloc
          <5>1. ASSUME p = ialloc
                PROVE  FALSE
            <6>1. Base = incr(p)
              BY <2>1, <5>1 DEF Base, EncoderView, NeverFatal
            <6>2. Dist(Base, p) = BufCount - 1
              BY <2>1, <6>1, DistShift
            <6> QED
              BY <3>1, <6>2
          <5> QED
            BY <5>1
        <4> QED
          BY <2>1, <4>1, <4>2 DEF Usable
      <3> QED
        BY <2>3, <3>0, <3>2, <3>3, <3>4
    <2>4. ScanView'
      BY <1>0, <2>1, <2>3 DEF ScanView
    <2> QED
      BY <2>2, <2>4
  <1>5. CASE UseDone
    <2>1. UNCHANGED <<buf, iusing, enc, ebuf, made, stores, txbuf, p>> /\ net = "use" /\ net' = "done"
          /\ late' = {"size", "iusing"}
      BY <1>5 DEF UseDone, NetworkView, NotShared
    <2>2. StoresInOrder' /\ ScanView'
      BY <1>0, <2>1 DEF StoresInOrder, ScanView
    <2>3. AgeOrder'
      BY <1>0, <2>1 DEF AgeOrder
    <2> QED
      BY <2>2, <2>3
  <1>6. CASE StoreConsumed
    <2>1. /\ UNCHANGED <<iusing, enc, ebuf, made, stores, p>>
          /\ net = "done" /\ "iusing" \in late /\ late' = late \ {"size"}
          /\ net' = "done" /\ txbuf' = txbuf
          /\ txbuf \in Slots /\ iusing = txbuf
          /\ buf' = [buf EXCEPT ![txbuf] = Empty]
      BY <1>6 DEF StoreConsumed, LandedLate, StoresInOrder, NetworkView
    <2>2. StoresInOrder'
      <3>1. enc = "done" => ebuf \in Slots /\ ebuf # txbuf
        BY <2>1 DEF EncoderView, NotShared, StoresInOrder
      <3> QED
        BY <2>1, <3>1 DEF StoresInOrder
    <2>3. AgeOrder' /\ ScanView'
      BY <1>0, <2>1 DEF AgeOrder, ScanView
    <2> QED
      BY <2>2, <2>3
  <1>7. CASE StoreIusing
    <2>1. /\ UNCHANGED <<buf, enc, ebuf, made, stores, p>>
          /\ net = "done" /\ "size" \notin late
          /\ net' = "idle" /\ iusing = txbuf /\ iusing' = End
          /\ txbuf \in Slots /\ buf[txbuf] = Empty
      BY <1>7 DEF StoreIusing, LandedLate, Reorderable, StoresInOrder, NetworkView
    <2>2. StoresInOrder' /\ ScanView'
      BY <1>0, <2>1 DEF StoresInOrder, ScanView
    <2>3. AgeOrder'
      BY <1>0, <2>1 DEF AgeOrder
    <2> QED
      BY <2>2, <2>3
  <1>8. CASE UseFail
    <2>1. UNCHANGED <<buf, enc, ebuf, made, stores, p>> /\ net = "use" /\ net' = "closed"
      BY <1>8 DEF UseFail, NetworkView, NotShared
    <2> QED
      BY <1>0, <2>1 DEF StoresInOrder, AgeOrder, ScanView
  <1> QED
    BY <1>1, <1>2, <1>3, <1>4, <1>5, <1>6, <1>7, <1>8 DEF NetStep

\* With done()'s stores visible in program order, age follows the ring throughout.
THEOREM OrderInvariance == ~WeakOrder => (Spec => []OrderInv)
  <1> SUFFICES ASSUME ~WeakOrder
               PROVE  Spec => []OrderInv
    OBVIOUS
  <1>1. Base' = Base /\ OrderInv /\ UNCHANGED vars => OrderInv'
    BY DEF OrderInv, StoresInOrder, AgeOrder, ScanView, vars, encVars, netVars, queueVars
  <1>2. UNCHANGED vars => Base' = Base
    BY DEF Base, vars, encVars, netVars, queueVars
  <1>3. Inv /\ FrameInv /\ OrderInv /\ [Next]_vars => OrderInv'
    BY <1>1, <1>2, AllocOrderInv, StoresOrderInv, NetStepOrderInv DEF Next, EncStep, Terminated
  <1> QED
    BY InitOrderInv, Invariance, FrameInvariance, <1>3, PTL DEF Spec

\* The number of frames handed over, as the refinement mapping counts them.
Finished == IF enc = "done" THEN made - 1 ELSE made

\* alloc() drops the oldest waiting frame, or finds an empty buffer.
LEMMA AllocDrops ==
    ASSUME BufCount >= 3, Inv, FrameInv, OrderInv, Alloc
    PROVE  Channel!Drop \/ UNCHANGED Channel!vars
  <1> USE DEF Inv, TypeOK, encVars, netVars, queueVars
  <1> DEFINE i == IF ip = iusing THEN incr(ip) ELSE ip
  <1>1. i \in Slots /\ i # iusing /\ ip \in Slots
    BY IncrInRing
  <1>2. AllocAt(i)
    BY DEF Alloc
  <1>3. ip = iusing => i = incr(ip)
    OBVIOUS
  <1>4. ip # iusing => i = ip
    OBVIOUS
  <1> HIDE DEF i
  <1>5. ialloc = End /\ Base = ip /\ enc = "alloc"
    BY <1>2 DEF AllocAt, EncoderView, Base
  <1>6. UNCHANGED <<iusing, net, cur, delivered, made>> /\ enc' = "fill" /\ ialloc' = i
        /\ buf' = [buf EXCEPT ![i] = Empty]
    BY <1>2 DEF AllocAt
  <1>7. Waiting' = Waiting \ {i}
    BY <1>1, <1>5, <1>6 DEF Waiting
  <1>8. \A k \in Waiting' : buf'[k] = buf[k]
    BY <1>1, <1>6, <1>7 DEF Waiting
  <1>9. CASE buf[i] = Empty
    <2>1. Waiting' = Waiting
      BY <1>7, <1>9 DEF Waiting
    <2>2. Pending' = Pending
      BY <1>8, <2>1 DEF Pending
    <2> QED
      BY <1>5, <1>6, <2>2 DEF Channel!vars
  <1>10. CASE buf[i] # Empty
    <2>1. i \in Waiting
      BY <1>1, <1>5, <1>10 DEF Waiting
    <2>2. \A j, k \in Waiting : buf[j] = buf[k] => j = k
      BY DEF Waiting, FrameInv, FramesOnce
    <2>3. Pending' = Pending \ {buf[i]}
      BY <1>7, <1>8, <2>1, <2>2 DEF Pending
    <2>4. buf[i] # made
      <3>1. SUFFICES ASSUME buf[i] = made
                     PROVE  FALSE
        OBVIOUS
      <3>2. ip = incr(i)
        BY <1>1, <1>5, <1>10, <3>1 DEF FrameInv, NewestPlace
      <3>3. incr(incr(i)) = i
        BY <1>1, <1>3, <1>4, <3>2, IncrInRing
      <3> QED
        BY <1>1, <3>3, IncrTwice
    <2>5. net # "closed" => \A k \in Waiting : buf[i] <= buf[k]
      <3> SUFFICES ASSUME net # "closed", NEW k \in Waiting, k # i
                   PROVE  buf[i] <= buf[k]
        BY <2>1, MaxFramesAssumption DEF Waiting
      <3>1. k \in Slots \ {iusing} /\ buf[k] # Empty
        BY DEF Waiting
      <3>2. Dist(ip, i) < Dist(ip, k)
        <4>0. Dist(ip, k) \in Nat /\ Dist(ip, i) \in Nat
          BY <1>1, <3>1, DistRange
        <4>1. CASE ip # iusing
          <5>1. i = ip /\ Dist(ip, i) = 0
            BY <1>1, <1>4, <4>1, DistRange
          <5>2. Dist(ip, k) # 0
            BY <1>1, <3>1, <5>1, DistRange
          <5> QED
            BY <4>0, <5>1, <5>2
        <4>2. CASE ip = iusing
          <5>1. Dist(ip, ip) = 0 /\ ip # k
            BY <1>1, <3>1, <4>2, DistRange
          <5>2. Dist(ip, i) = 1
            BY <1>1, <1>3, <4>2, <5>1, DistNext
          <5>3. Dist(ip, k) # 0 /\ Dist(ip, k) # 1
            BY <1>1, <3>1, <5>1, <5>2, DistRange, DistDistinct
          <5> QED
            BY <4>0, <5>2, <5>3
        <4> QED
          BY <4>1, <4>2
      <3> QED
        BY <1>1, <1>5, <1>10, <3>1, <3>2, MaxFramesAssumption DEF OrderInv, AgeOrder
    <2>6. buf[i] \in Pending \ {Finished}
      BY <1>5, <2>1, <2>4 DEF Pending, Finished
    <2>7. net # "closed" => buf[i] \in Channel!Oldest(Pending)
      BY <2>1, <2>5 DEF Pending, Channel!Oldest
    <2> QED
      BY <1>5, <1>6, <2>3, <2>6, <2>7 DEF Channel!Drop, Finished
  <1> QED
    BY <1>9, <1>10

\* Of the encoder's other steps only ialloc_ = end() shows: it hands the frame over.
LEMMA StoresFinish ==
    ASSUME ~WeakOrder, Inv, FrameInv, OrderInv,
           Commit \/ StoreFrame \/ StoreIp \/ StoreIalloc \/ EncStop
    PROVE  Channel!Finish \/ UNCHANGED Channel!vars
  <1> USE DEF Inv, TypeOK, encVars, netVars, queueVars, OrderInv
  <1> USE MaxFramesAssumption, BufCountAssumption
  <1>0. ebuf \in Slots /\ ialloc = ebuf /\ UNCHANGED <<iusing, net, cur, delivered>>
    BY DEF Commit, StoreFrame, StoreIp, StoreIalloc, EncStop, Landed, EncoderView, StoresInOrder
  <1>1. CASE Commit \/ StoreFrame \/ StoreIp \/ EncStop
    <2>1. ialloc' = ialloc /\ \A k \in Slots \ {ebuf} : buf'[k] = buf[k]
      BY <1>0, <1>1 DEF Commit, StoreFrame, StoreIp, EncStop, Landed
    <2>2. Waiting' = Waiting /\ \A k \in Waiting : buf'[k] = buf[k]
      BY <1>0, <2>1 DEF Waiting
    <2>3. Pending' = Pending
      BY <2>2 DEF Pending
    <2>4. Finished' = Finished
      BY <1>1 DEF Finished, Commit, StoreFrame, StoreIp, EncStop, Landed, Reorderable,
                  StoresInOrder, EncoderView, NeverFatal
    <2> QED
      BY <1>0, <2>3, <2>4 DEF Channel!vars, Finished
  <1>2. CASE StoreIalloc
    <2>1. /\ enc = "done" /\ enc' = "alloc" /\ ialloc' = End
          /\ UNCHANGED <<buf, made>> /\ buf[ebuf] = made /\ made # Empty
      BY <1>2 DEF StoreIalloc, Landed, Reorderable, StoresInOrder, EncoderView
    <2>2. Waiting' = Waiting \union {ebuf}
      BY <1>0, <2>1 DEF Waiting, NotShared
    <2>3. Pending' = Pending \union {made}
      BY <2>1, <2>2 DEF Pending
    <2>4. Finished = made - 1 /\ Finished' = Finished + 1 /\ Finished + 1 = made
      BY <2>1 DEF Finished
    <2> QED
      BY <1>0, <2>3, <2>4 DEF Channel!Finish, Finished
  <1> QED
    BY <1>1, <1>2

\* The scan takes the oldest waiting frame, or the newest when it starts there.
LEMMA FoundTakes ==
    ASSUME Inv, FrameInv, OrderInv, Found
    PROVE  Channel!Take
  <1> USE DEF Inv, TypeOK, encVars, netVars, queueVars, OrderInv
  <1> USE MaxFramesAssumption, BufCountAssumption
  <1>1. /\ p \in Slots /\ iusing = End /\ iusing' = p /\ p # ialloc /\ buf[p] # Empty
        /\ net = "scan" /\ net' = "use" /\ cur' = buf[p]
        /\ UNCHANGED <<buf, ialloc, enc, made, delivered>>
    BY DEF Found, Usable, NetworkView
  <1>2. Base \in Slots
    BY BaseInRing
  <1>3. p \in Waiting /\ Waiting' = Waiting \ {p}
    BY <1>1 DEF Waiting
  <1>4. \A j, k \in Waiting : buf[j] = buf[k] => j = k
    BY DEF Waiting, FrameInv, FramesOnce
  <1>5. Pending' = Pending \ {buf[p]} /\ buf[p] \in Pending
    BY <1>1, <1>3, <1>4 DEF Pending
  <1>6. CASE Dist(Base, p) # BufCount - 1
    <2>1. \A k \in Waiting : buf[p] <= buf[k]
      <3> SUFFICES ASSUME NEW k \in Waiting, k # p
                   PROVE  buf[p] <= buf[k]
        BY <1>1
      <3>1. k \in Slots /\ buf[k] # Empty
        BY DEF Waiting
      <3>2. ~(Dist(Base, k) < Dist(Base, p))
        BY <1>1, <1>6, <3>1 DEF ScanView
      <3>3. Dist(Base, k) \in Nat /\ Dist(Base, p) \in Nat
        BY <1>1, <1>2, <3>1, DistRange
      <3>4. Dist(Base, k) # Dist(Base, p)
        BY <1>1, <1>2, <3>1, DistDistinct
      <3>5. Dist(Base, p) < Dist(Base, k)
        BY <3>2, <3>3, <3>4
      <3> QED
        BY <1>1, <3>1, <3>5 DEF AgeOrder
    <2>2. buf[p] \in Channel!Oldest(Pending)
      BY <1>5, <2>1 DEF Pending, Channel!Oldest
    <2> QED
      BY <1>1, <1>5, <2>2 DEF Channel!Take, Channel!None, Finished
  <1>7. CASE Dist(Base, p) = BufCount - 1
    <2>1. \A k \in Waiting : buf[k] <= buf[p]
      <3> SUFFICES ASSUME NEW k \in Waiting, k # p
                   PROVE  buf[k] <= buf[p]
        BY <1>1
      <3>1. k \in Slots /\ buf[k] # Empty
        BY DEF Waiting
      <3>3. Dist(Base, k) \in Nat /\ Dist(Base, k) <= BufCount - 1
        BY <1>2, <3>1, DistRange
      <3>4. Dist(Base, k) # Dist(Base, p)
        BY <1>1, <1>2, <3>1, DistDistinct
      <3>5. Dist(Base, k) < Dist(Base, p)
        BY <1>7, <3>3, <3>4
      <3> QED
        BY <1>1, <3>1, <3>5 DEF AgeOrder
    <2>2. buf[p] \in Channel!Newest(Pending)
      BY <1>5, <2>1 DEF Pending, Channel!Newest
    <2> QED
      BY <1>1, <1>5, <2>2 DEF Channel!Take, Channel!None, Finished
  <1> QED
    BY <1>6, <1>7

\* The network thread takes, delivers, gives back or closes; the rest is hidden.
LEMMA NetStepMaps ==
    ASSUME ~WeakOrder, Inv, FrameInv, OrderInv, NetStep \/ UseFail \/ Close
    PROVE  [Channel!Next]_Channel!vars
  <1> USE DEF Inv, TypeOK, encVars, netVars, queueVars, OrderInv
  <1> USE MaxFramesAssumption, BufCountAssumption
  <1>1. CASE WaitLock \/ Read \/ ScanNext \/ NotFound \/ CondWake
    <2>1. /\ UNCHANGED <<buf, ialloc, iusing, enc, made, delivered>>
          /\ net \notin {"use", "closed"} /\ net' \notin {"use", "closed"}
      BY <1>1 DEF WaitLock, Read, ScanNext, NotFound, CondWake
    <2>2. Pending' = Pending
      BY <2>1 DEF Pending, Waiting
    <2> QED
      BY <2>1, <2>2 DEF Channel!vars
  <1>2. CASE Found
    BY <1>2, FoundTakes DEF Channel!Next
  <1>3. CASE UseDone
    <2>1. /\ UNCHANGED <<buf, ialloc, iusing, enc, made>>
          /\ net = "use" /\ net' = "done" /\ delivered' = delivered \union {cur} /\ cur # Empty
      BY <1>3 DEF UseDone, NetworkView, NotShared
    <2>2. Pending' = Pending
      BY <2>1 DEF Pending, Waiting
    <2> QED
      BY <2>1, <2>2 DEF Channel!Next, Channel!Deliver, Channel!None
  <1>4. CASE StoreConsumed
    <2>1. /\ UNCHANGED <<ialloc, iusing, enc, made, delivered>>
          /\ net = "done" /\ net' = "done" /\ iusing = txbuf /\ txbuf \in Slots
          /\ buf' = [buf EXCEPT ![txbuf] = Empty]
      BY <1>4 DEF StoreConsumed, LandedLate, NetworkView, StoresInOrder
    <2>2. Waiting' = Waiting /\ \A k \in Waiting : buf'[k] = buf[k]
      BY <2>1 DEF Waiting
    <2>3. Pending' = Pending
      BY <2>2 DEF Pending
    <2> QED
      BY <2>1, <2>3 DEF Channel!vars
  <1>5. CASE StoreIusing
    <2>1. /\ UNCHANGED <<buf, ialloc, enc, made, delivered>>
          /\ net = "done" /\ net' = "idle" /\ iusing = txbuf /\ txbuf \in Slots
          /\ iusing' = End /\ buf[txbuf] = Empty
      BY <1>5 DEF StoreIusing, LandedLate, NetworkView, StoresInOrder, Reorderable
    <2>2. Waiting' = Waiting
      BY <2>1 DEF Waiting
    <2>3. Pending' = Pending
      BY <2>1, <2>2 DEF Pending
    <2> QED
      BY <2>1, <2>3 DEF Channel!vars
  <1>6. CASE UseFail
    <2>1. /\ UNCHANGED <<buf, ialloc, enc, made, delivered>>
          /\ net = "use" /\ net' = "closed" /\ iusing = txbuf /\ txbuf \in Slots
          /\ txbuf # ialloc /\ iusing' = End /\ buf[txbuf] = cur /\ cur # Empty
      BY <1>6 DEF UseFail, NetworkView, NotShared
    <2>2. Waiting' = Waiting \union {txbuf}
      BY <2>1 DEF Waiting
    <2>3. Pending' = Pending \union {cur}
      BY <2>1, <2>2 DEF Pending
    <2> QED
      BY <2>1, <2>3 DEF Channel!Next, Channel!Abort, Channel!None
  <1>7. CASE Close
    <2>1. /\ UNCHANGED <<buf, ialloc, iusing, enc, made, delivered>>
          /\ net = "idle" /\ net' = "closed"
      BY <1>7 DEF Close
    <2>2. Pending' = Pending
      BY <2>1 DEF Pending, Waiting
    <2> QED
      BY <2>1, <2>2 DEF Channel!Next, Channel!Close, Channel!None
  <1> QED
    BY <1>1, <1>2, <1>3, <1>4, <1>5, <1>6, <1>7 DEF NetStep

\* Seen as a mailbox, a ring of three or more buffers hands every frame over once,
\* throws away only the oldest waiting one and sends the oldest or the newest, for
\* every number of buffers and frames, when done()'s stores keep their order.
THEOREM RingIsMailbox == BufCount >= 3 /\ ~WeakOrder => (Spec => ChannelSpec)
  <1> SUFFICES ASSUME BufCount >= 3, ~WeakOrder
               PROVE  Spec => ChannelSpec
    OBVIOUS
  <1>1. Init => Channel!Init
    BY DEF Init, Channel!Init, Pending, Waiting, Channel!None
  <1>2. Inv /\ FrameInv /\ OrderInv /\ [Next]_vars => [Channel!Next]_Channel!vars
    <2> SUFFICES ASSUME Inv, FrameInv, OrderInv, [Next]_vars
                 PROVE  [Channel!Next]_Channel!vars
      OBVIOUS
    <2>1. CASE EncStep
      BY <2>1, AllocDrops, StoresFinish DEF EncStep, Channel!Next
    <2>2. CASE NetStep \/ UseFail \/ Close
      BY <2>2, NetStepMaps
    <2>3. CASE UNCHANGED vars
      <3>1. UNCHANGED <<buf, ialloc, iusing, enc, made, net, cur, delivered>>
        BY <2>3 DEF vars, queueVars, encVars, netVars
      <3>2. Pending' = Pending
        BY <3>1 DEF Pending, Waiting
      <3> QED
        BY <3>1, <3>2 DEF Channel!vars
    <2> QED
      BY <2>1, <2>2, <2>3 DEF Next, Terminated
  <1> QED
    BY <1>1, <1>2, Invariance, FrameInvariance, OrderInvariance, PTL
       DEF Spec, ChannelSpec, Channel!Spec
=============================================================================
