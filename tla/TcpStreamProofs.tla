--------------------------- MODULE TcpStreamProofs ---------------------------
(***************************************************************************)
(* Proofs about what the TCP programs read and write: that the TCP variant *)
(* of the video server sends whole frames, each once and in their order    *)
(* but for those that were overtaken in the ring, for every finite set of  *)
(* clients and every number of frames;                                     *)
(* that the HTTP server as.cpp writes whole replies in the order of their  *)
(* requests, for every number of requests; and that the four HTTP readers  *)
(* hand over each message with what is its own, wherever the stream is cut *)
(* and however many messages a connection carries.                         *)
(***************************************************************************)
EXTENDS TcpStream, HttpReader, SequenceTheorems, FiniteSetTheorems, WellFoundedInduction, TLAPS

-----------------------------------------------------------------------------
(* Frames, their parts, and what send() leaves of them.                     *)

Part == Nat \X {1, 2}

First(f) == <<<<f, 1>>>>
Second(f) == <<<<f, 2>>>>

\* The parts of a frame are parts.
LEMMA PartsAreParts ==
    ASSUME NEW f \in Nat
    PROVE  /\ Parts(f) \in Seq(Part) /\ Len(Parts(f)) = 2
           /\ Parts(f)[1] = <<f, 1>> /\ Parts(f)[2] = <<f, 2>>
           /\ First(f) \in Seq(Part) /\ Len(First(f)) = 1 /\ First(f)[1] = <<f, 1>>
           /\ Second(f) \in Seq(Part) /\ Len(Second(f)) = 1 /\ Second(f)[1] = <<f, 2>>
  <1>1. <<f, 1>> \in Part /\ <<f, 2>> \in Part
    BY DEF Part
  <1> HIDE DEF Part
  <1> QED
    BY <1>1 DEF Parts, First, Second

\* Concatenation and equality of what is sent.
LEMMA PartConcat ==
    ASSUME NEW s \in Seq(Part), NEW t \in Seq(Part)
    PROVE  /\ s \o t \in Seq(Part)
           /\ Len(s \o t) = Len(s) + Len(t)
           /\ \A i \in 1 .. Len(s) + Len(t) :
                  (s \o t)[i] = IF i <= Len(s) THEN s[i] ELSE t[i - Len(s)]
  <1> HIDE DEF Part
  <1> QED
    BY ConcatProperties, Zenon

\* What is sent is equal when it is so part by part.
LEMMA PartEqual ==
    ASSUME NEW s \in Seq(Part), NEW t \in Seq(Part), Len(s) = Len(t),
           \A i \in 1 .. Len(s) : s[i] = t[i]
    PROVE  s = t
  BY SeqEqual, Zenon

\* A piece of one part.
LEMMA SubSeqOne ==
    ASSUME NEW s \in Seq(Part), NEW i \in 1 .. Len(s), NEW t \in Seq(Part),
           Len(t) = 1, t[1] = s[i]
    PROVE  SubSeq(s, i, i) = t
  <1>1. s[i] \in Part /\ i \in Nat
    BY ElementOfSeq
  <1>2. /\ SubSeq(s, i, i) \in Seq(Part) /\ Len(SubSeq(s, i, i)) = 1
        /\ SubSeq(s, i, i)[1] = s[i]
    BY <1>1, SubSeqProperties, Z3
  <1>3. \A j \in 1 .. Len(SubSeq(s, i, i)) : SubSeq(s, i, i)[j] = t[j]
    BY <1>2
  <1> QED
    BY <1>2, <1>3, PartEqual

\* What is sent of a frame and what is left of it: nothing, the first part, or both.
LEMMA SubParts ==
    ASSUME NEW f \in Nat
    PROVE  /\ SubSeq(Parts(f), 1, 0) = <<>> /\ SubSeq(Parts(f), 1, 2) = Parts(f)
           /\ SubSeq(Parts(f), 1, 1) = First(f)
           /\ SubSeq(Parts(f), 2, 2) = Second(f) /\ SubSeq(Parts(f), 3, 2) = <<>>
  <1> USE PartsAreParts
  <1>1. SubSeq(Parts(f), 1, 0) = <<>> /\ SubSeq(Parts(f), 3, 2) = <<>>
    BY SubSeqEmpty
  <1>2. SubSeq(Parts(f), 1, 2) = Parts(f)
    BY SubSeqFull
  <1>3. SubSeq(Parts(f), 1, 1) = First(f) /\ SubSeq(Parts(f), 2, 2) = Second(f)
    <2>1. 1 \in 1 .. Len(Parts(f)) /\ 2 \in 1 .. Len(Parts(f))
      OBVIOUS
    <2>2. SubSeq(Parts(f), 1, 1) = First(f)
      BY <2>1, SubSeqOne, Zenon
    <2>3. SubSeq(Parts(f), 2, 2) = Second(f)
      <3>1. Second(f)[1] = Parts(f)[2]
        OBVIOUS
      <3> QED
        BY <2>1, <3>1, SubSeqOne, Zenon
    <2> QED
      BY <2>2, <2>3
  <1> QED
    BY <1>1, <1>2, <1>3

\* The same of the rest of a frame.
LEMMA SubRest ==
    ASSUME NEW f \in Nat
    PROVE  /\ SubSeq(Second(f), 1, 0) = <<>> /\ SubSeq(Second(f), 1, 1) = Second(f)
           /\ SubSeq(Second(f), 2, 1) = <<>>
  <1> USE PartsAreParts
  <1>1. SubSeq(Second(f), 1, 0) = <<>> /\ SubSeq(Second(f), 2, 1) = <<>>
    BY SubSeqEmpty
  <1>2. SubSeq(Second(f), 1, 1) = Second(f)
    BY SubSeqFull
  <1> QED
    BY <1>1, <1>2

\* Frame f may be begun after frame k: it is newer, or k was taken while f waited.
MayFollow(k, f, o) == k < f \/ (k # f /\ f \in o)

\* Framed, for the set o of the frames that were overtaken.
FramedIn(s, o) ==
    /\ \A i \in DOMAIN s : IF i % 2 = 1 THEN s[i][2] = 1 ELSE s[i] = <<s[i - 1][1], 2>>
    /\ \A i, j \in DOMAIN s :
          (i < j /\ s[i][2] = 1 /\ s[j][2] = 1) => MayFollow(s[i][1], s[j][1], o)

\* All that was sent is of frames that f may follow, or of frames up to e.
Behind(s, f, o) == \A i \in DOMAIN s : MayFollow(s[i][1], f, o)
AtMost(s, e) == \A i \in DOMAIN s : s[i][1] <= e

\* t has parts of frame f and of the frames of s.
Adds(t, s, f) == \A i \in DOMAIN t : t[i][1] = f \/ \E j \in DOMAIN s : t[i][1] = s[j][1]

\* What was sent ends with a whole frame, or with the first part of f.
EndsWhole(s) == Len(s) % 2 = 0
EndsIn(s, f) == Len(s) % 2 = 1 /\ s[Len(s)] = <<f, 1>>

LEMMA EvenOdd ==
    ASSUME NEW n \in Nat
    PROVE  /\ n % 2 = 0 => (n + 1) % 2 = 1
           /\ n % 2 = 1 => (n + 1) % 2 = 0 /\ n >= 1
  BY SMTT(60)

\* A part that is put after what was sent.
LEMMA PartAfter ==
    ASSUME NEW s \in Seq(Part), NEW f \in Nat, NEW p \in Seq(Part), Len(p) = 1, p[1][1] = f
    PROVE  /\ s \o p \in Seq(Part) /\ Len(s \o p) = Len(s) + 1
           /\ Len(s) \in Nat /\ DOMAIN s = 1 .. Len(s) /\ DOMAIN (s \o p) = 1 .. Len(s) + 1
           /\ \A i \in 1 .. Len(s) : (s \o p)[i] = s[i] /\ s[i] \in Part
           /\ (s \o p)[Len(s) + 1] = p[1]
           /\ Adds(s \o p, s, f)
  <1> DEFINE t == s \o p
             n == Len(s)
  <1>1. n \in Nat /\ DOMAIN s = 1 .. n /\ \A i \in 1 .. n : s[i] \in Part
    BY LenProperties, ElementOfSeq
  <1>2. /\ t \in Seq(Part) /\ Len(t) = n + Len(p)
        /\ \A i \in 1 .. n + Len(p) : t[i] = IF i <= n THEN s[i] ELSE p[i - n]
    BY PartConcat, Zenon
  <1> HIDE DEF t, n
  <1>3. /\ Len(t) = n + 1 /\ t[n + 1] = p[1]
        /\ \A i \in 1 .. n : t[i] = s[i]
    BY <1>1, <1>2
  <1>4. DOMAIN t = 1 .. n + 1
    BY <1>2, <1>3, LenProperties
  <1>5. Adds(t, s, f)
    <2> SUFFICES ASSUME NEW i \in 1 .. n + 1
                 PROVE  t[i][1] = f \/ \E j \in DOMAIN s : t[i][1] = s[j][1]
      BY <1>4 DEF Adds
    <2>1. CASE i \in 1 .. n
      BY <1>1, <1>3, <2>1
    <2>2. CASE i = n + 1
      BY <1>3, <2>2
    <2> QED
      BY <1>1, <2>1, <2>2
  <1> QED
    BY <1>1, <1>2, <1>3, <1>4, <1>5 DEF t, n

\* The first part of a frame may follow whole frames that it may follow.
LEMMA FramedBegin ==
    ASSUME NEW o, NEW s \in Seq(Part), FramedIn(s, o), EndsWhole(s), NEW f \in Nat, Behind(s, f, o)
    PROVE  /\ s \o First(f) \in Seq(Part)
           /\ FramedIn(s \o First(f), o) /\ EndsIn(s \o First(f), f)
           /\ Adds(s \o First(f), s, f)
  <1> DEFINE t == s \o First(f)
             n == Len(s)
  <1>0. First(f) \in Seq(Part) /\ Len(First(f)) = 1 /\ First(f)[1] = <<f, 1>>
    BY PartsAreParts
  <1>1. /\ t \in Seq(Part) /\ Len(t) = n + 1 /\ n \in Nat
        /\ DOMAIN s = 1 .. n /\ DOMAIN t = 1 .. n + 1
        /\ \A i \in 1 .. n : t[i] = s[i] /\ s[i] \in Part
        /\ t[n + 1] = <<f, 1>> /\ Adds(t, s, f)
    BY <1>0, PartAfter
  <1> HIDE DEF t, n
  <1>2. n % 2 = 0 /\ (n + 1) % 2 = 1
    <2>1. n % 2 = 0
      BY DEF EndsWhole, n
    <2> QED
      BY <1>1, <2>1, EvenOdd, Zenon
  <1>3. ASSUME NEW i \in 1 .. n + 1
        PROVE  IF i % 2 = 1 THEN t[i][2] = 1 ELSE t[i] = <<t[i - 1][1], 2>>
    <2>1. CASE i \in 1 .. n
      <3>1. t[i] = s[i]
        BY <1>1, <2>1
      <3>2. i % 2 # 1 => t[i - 1] = s[i - 1]
        BY <1>1, <2>1
      <3> QED
        BY <1>1, <2>1, <3>1, <3>2 DEF FramedIn
    <2>2. CASE i = n + 1
      <3>1. i % 2 = 1
        BY <1>2, <2>2, Zenon
      <3> QED
        BY <1>1, <2>2, <3>1
    <2> QED
      BY <1>1, <2>1, <2>2
  <1>4. ASSUME NEW i \in 1 .. n + 1, NEW j \in 1 .. n + 1, i < j, t[i][2] = 1, t[j][2] = 1
        PROVE  MayFollow(t[i][1], t[j][1], o)
    <2>1. i \in 1 .. n /\ t[i] = s[i]
      BY <1>1, <1>4
    <2>2. CASE j \in 1 .. n
      <3>1. t[j] = s[j]
        BY <1>1, <2>2
      <3> QED
        BY <1>1, <1>4, <2>1, <2>2, <3>1 DEF FramedIn
    <2>3. CASE j = n + 1
      <3>1. t[j][1] = f
        BY <1>1, <2>3
      <3> QED
        BY <1>1, <2>1, <3>1, Zenon DEF Behind
    <2> QED
      BY <1>1, <2>2, <2>3
  <1>5. FramedIn(t, o)
    BY <1>1, <1>3, <1>4, Zenon DEF FramedIn
  <1>6. EndsIn(t, f)
    BY <1>1, <1>2, Zenon DEF EndsIn
  <1> QED
    BY <1>1, <1>5, <1>6 DEF t

\* The rest of the frame that was begun may follow.
LEMMA FramedRest ==
    ASSUME NEW o, NEW s \in Seq(Part), FramedIn(s, o), NEW f \in Nat, EndsIn(s, f)
    PROVE  /\ s \o Second(f) \in Seq(Part)
           /\ FramedIn(s \o Second(f), o) /\ EndsWhole(s \o Second(f))
           /\ Adds(s \o Second(f), s, f)
  <1> DEFINE t == s \o Second(f)
             n == Len(s)
  <1>0. Second(f) \in Seq(Part) /\ Len(Second(f)) = 1 /\ Second(f)[1] = <<f, 2>>
    BY PartsAreParts
  <1>1. /\ t \in Seq(Part) /\ Len(t) = n + 1 /\ n \in Nat
        /\ DOMAIN s = 1 .. n /\ DOMAIN t = 1 .. n + 1
        /\ \A i \in 1 .. n : t[i] = s[i] /\ s[i] \in Part
        /\ t[n + 1] = <<f, 2>> /\ Adds(t, s, f)
    BY <1>0, PartAfter
  <1> HIDE DEF t, n
  <1>2. n % 2 = 1 /\ s[n] = <<f, 1>> /\ (n + 1) % 2 = 0 /\ n >= 1
    <2>1. n % 2 = 1 /\ s[n] = <<f, 1>>
      BY DEF EndsIn, n
    <2> QED
      BY <1>1, <2>1, EvenOdd, Zenon
  <1>3. ASSUME NEW i \in 1 .. n + 1
        PROVE  IF i % 2 = 1 THEN t[i][2] = 1 ELSE t[i] = <<t[i - 1][1], 2>>
    <2>1. CASE i \in 1 .. n
      <3>1. t[i] = s[i]
        BY <1>1, <2>1
      <3>2. i % 2 # 1 => t[i - 1] = s[i - 1]
        BY <1>1, <2>1
      <3> QED
        BY <1>1, <2>1, <3>1, <3>2 DEF FramedIn
    <2>2. CASE i = n + 1
      <3>1. i % 2 = 0 /\ n >= 1
        BY <1>2, <2>2, Zenon
      <3>2. t[i - 1] = <<f, 1>> /\ t[i] = <<f, 2>>
        BY <1>1, <1>2, <2>2, <3>1
      <3> QED
        BY <3>1, <3>2
    <2> QED
      BY <1>1, <2>1, <2>2
  <1>4. ASSUME NEW i \in 1 .. n + 1, NEW j \in 1 .. n + 1, i < j, t[i][2] = 1, t[j][2] = 1
        PROVE  MayFollow(t[i][1], t[j][1], o)
    <2>1. j # n + 1
      BY <1>1, <1>4
    <2>2. i \in 1 .. n /\ j \in 1 .. n
      BY <1>1, <1>4, <2>1
    <2>3. t[i] = s[i] /\ t[j] = s[j]
      BY <1>1, <2>2
    <2> QED
      BY <1>1, <1>4, <2>2, <2>3 DEF FramedIn
  <1>5. FramedIn(t, o)
    BY <1>1, <1>3, <1>4, Zenon DEF FramedIn
  <1>6. EndsWhole(t)
    BY <1>1, <1>2, Zenon DEF EndsWhole
  <1> QED
    BY <1>1, <1>5, <1>6 DEF t

\* Both parts are the first and then the rest.
LEMMA PartsSplit ==
    ASSUME NEW s \in Seq(Part), NEW f \in Nat
    PROVE  s \o Parts(f) = (s \o First(f)) \o Second(f)
  <1>1. Parts(f) = First(f) \o Second(f)
    <2> DEFINE t == First(f) \o Second(f)
    <2>0. /\ First(f) \in Seq(Part) /\ Len(First(f)) = 1 /\ First(f)[1] = <<f, 1>>
          /\ Second(f) \in Seq(Part) /\ Len(Second(f)) = 1 /\ Second(f)[1] = <<f, 2>>
          /\ Parts(f) \in Seq(Part) /\ Len(Parts(f)) = 2
          /\ Parts(f)[1] = <<f, 1>> /\ Parts(f)[2] = <<f, 2>>
      BY PartsAreParts
    <2>1. /\ t \in Seq(Part) /\ Len(t) = Len(First(f)) + Len(Second(f))
          /\ \A i \in 1 .. Len(First(f)) + Len(Second(f)) :
                 t[i] = IF i <= Len(First(f)) THEN First(f)[i] ELSE Second(f)[i - Len(First(f))]
      BY <2>0, PartConcat, Zenon
    <2> HIDE DEF t
    <2>2. Len(t) = 2 /\ t[1] = <<f, 1>> /\ t[2] = <<f, 2>>
      BY <2>0, <2>1
    <2>3. \A i \in 1 .. Len(Parts(f)) : Parts(f)[i] = t[i]
      <3> SUFFICES ASSUME NEW i \in 1 .. 2
                   PROVE  Parts(f)[i] = t[i]
        BY <2>0, Zenon
      <3>1. i = 1 \/ i = 2
        OBVIOUS
      <3> QED
        BY <2>0, <2>2, <3>1, Zenon
    <2>4. Parts(f) = t
      BY <2>0, <2>1, <2>2, <2>3, PartEqual, Zenon
    <2> QED
      BY <2>4 DEF t
  <1>2. First(f) \in Seq(Part) /\ Second(f) \in Seq(Part)
    BY PartsAreParts
  <1>3. (s \o First(f)) \o Second(f) = s \o (First(f) \o Second(f))
    BY <1>2, ConcatAssociative
  <1> QED
    BY <1>1, <1>3, Zenon

-----------------------------------------------------------------------------
(* What was sent (g), what waits (q) and what is being sent (t) to client s, *)
(* when e frames were made and those of o were overtaken.                    *)

Sent(g, e, o) ==
    /\ g \in [Clients -> Seq(Part)]
    /\ \A c \in Clients : FramedIn(g[c], o) /\ AtMost(g[c], e)

\* Frames wait in their order, and each may follow all that was sent.
Queue(q, g, e, o) ==
    /\ q \in Seq(Nat)
    /\ \A i, j \in DOMAIN q : i < j => q[i] < q[j]
    /\ \A i \in DOMAIN q : q[i] \in 1 .. e /\ \A c \in Clients : Behind(g[c], q[i], o)

Ahead(f, q, o) == \A i \in DOMAIN q : MayFollow(f, q[i], o)

\* Nothing is being sent, or the whole of a frame f that may follow all that was sent to
\* the client, or its rest, and then the client was sent its first part last.
InHand(t, q, s, g, e, o) ==
    \/ t = <<>> /\ (s # NoSocket => EndsWhole(g[s]))
    \/ \E f \in 1 .. e :
           /\ s # NoSocket /\ Ahead(f, q, o)
           /\ \/ t = Parts(f) /\ EndsWhole(g[s]) /\ Behind(g[s], f, o)
              \/ t = Second(f) /\ EndsIn(g[s], f)

\* Parts of one frame are added one after the other.
LEMMA AddsMore ==
    ASSUME NEW s, NEW t, NEW u, NEW f, Adds(t, s, f), Adds(u, t, f)
    PROVE  Adds(u, s, f)
  <1> SUFFICES ASSUME NEW i \in DOMAIN u
               PROVE  u[i][1] = f \/ \E k \in DOMAIN s : u[i][1] = s[k][1]
    BY Zenon DEF Adds
  <1>1. CASE u[i][1] = f
    BY <1>1
  <1>2. ASSUME NEW j \in DOMAIN t, u[i][1] = t[j][1]
        PROVE  u[i][1] = f \/ \E k \in DOMAIN s : u[i][1] = s[k][1]
    <2>1. t[j][1] = f \/ \E k \in DOMAIN s : t[j][1] = s[k][1]
      BY Zenon DEF Adds
    <2> QED
      BY <1>2, <2>1, Zenon
  <1> QED
    BY <1>1, <1>2, Zenon DEF Adds

\* A frame may follow what was added when it may follow what was there and the frame.
LEMMA BehindMore ==
    ASSUME NEW s, NEW t, NEW f, NEW k, NEW o, Adds(t, s, f), Behind(s, k, o), MayFollow(f, k, o)
    PROVE  Behind(t, k, o)
  BY Zenon DEF Adds, Behind

\* Parts of frame f are sent to s.
LEMMA Grow ==
    ASSUME NEW g, NEW s \in Clients, NEW e \in Nat, NEW q, NEW o, Sent(g, e, o), Queue(q, g, e, o),
           NEW x \in Seq(Part), FramedIn(x, o), NEW f \in 1 .. e, Adds(x, g[s], f), Ahead(f, q, o)
    PROVE  Sent([g EXCEPT ![s] = x], e, o) /\ Queue(q, [g EXCEPT ![s] = x], e, o)
  <1> DEFINE h == [g EXCEPT ![s] = x]
  <1>1. h \in [Clients -> Seq(Part)] /\ h[s] = x /\ \A c \in Clients : c # s => h[c] = g[c]
    BY DEF Sent
  <1> HIDE DEF h
  <1>2. AtMost(x, e)
    <2>1. f <= e /\ AtMost(g[s], e)
      BY DEF Sent
    <2> QED
      BY <2>1, Zenon DEF AtMost, Adds
  <1>3. \A c \in Clients : FramedIn(h[c], o) /\ AtMost(h[c], e)
    BY <1>1, <1>2, Zenon DEF Sent
  <1>4. ASSUME NEW i \in DOMAIN q, NEW c \in Clients
        PROVE  Behind(h[c], q[i], o)
    <2>1. Behind(g[c], q[i], o) /\ MayFollow(f, q[i], o)
      BY Zenon DEF Queue, Ahead
    <2>2. CASE c = s
      BY <1>1, <2>1, <2>2, BehindMore, Zenon
    <2>3. CASE c # s
      BY <1>1, <2>1, <2>3, Zenon
    <2> QED
      BY <2>2, <2>3
  <1>5. Sent(h, e, o)
    BY <1>1, <1>3, Zenon DEF Sent
  <1>6. Queue(q, h, e, o)
    BY <1>4, Zenon DEF Queue
  <1> QED
    BY <1>5, <1>6 DEF h

\* One call of send takes n parts of what is in hand.
LEMMA Sending ==
    ASSUME NEW g, NEW s \in Clients, s # NoSocket, NEW e \in Nat, NEW q, NEW o, NEW t, t # <<>>,
           NEW n \in {0, 1, Len(t)},
           Sent(g, e, o), Queue(q, g, e, o), InHand(t, q, s, g, e, o)
    PROVE  LET h == [g EXCEPT ![s] = @ \o SubSeq(t, 1, n)]
           IN  /\ Sent(h, e, o) /\ Queue(q, h, e, o)
               /\ InHand(SubSeq(t, n + 1, Len(t)), q, s, h, e, o)
  <1> DEFINE x == g[s] \o SubSeq(t, 1, n)
             h == [g EXCEPT ![s] = x]
             r == SubSeq(t, n + 1, Len(t))
  <1>1. g[s] \in Seq(Part) /\ FramedIn(g[s], o)
    BY DEF Sent
  <1>2. h[s] = x /\ \A c \in Clients : c # s => h[c] = g[c]
    BY DEF Sent
  <1>3. PICK f \in 1 .. e :
            /\ Ahead(f, q, o)
            /\ \/ t = Parts(f) /\ EndsWhole(g[s]) /\ Behind(g[s], f, o)
               \/ t = Second(f) /\ EndsIn(g[s], f)
    BY Zenon DEF InHand
  <1>4. f \in Nat
    OBVIOUS
  <1>5. CASE t = Parts(f) /\ EndsWhole(g[s]) /\ Behind(g[s], f, o)
    <2>0. Len(t) = 2
      BY <1>4, <1>5, PartsAreParts
    <2>1. CASE n = 0
      <3>1. x = g[s] /\ r = t
        <4>1. SubSeq(t, 1, 0) = <<>> /\ SubSeq(t, 1, 2) = t
          BY <1>4, <1>5, SubParts
        <4> QED
          BY <1>1, <2>0, <2>1, <4>1, ConcatEmptySeq
      <3>2. h = g
        BY <3>1 DEF Sent
      <3> QED
        BY <3>1, <3>2
    <2>2. CASE n = 1
      <3>1. x = g[s] \o First(f) /\ r = Second(f)
        <4>1. SubSeq(t, 1, 1) = First(f) /\ SubSeq(t, 2, 2) = Second(f)
          BY <1>4, <1>5, SubParts, Zenon
        <4>2. n = 1 /\ n + 1 = 2 /\ Len(t) = 2
          BY <2>0, <2>2
        <4> QED
          BY <4>1, <4>2, Zenon
      <3> HIDE DEF x, r
      <3>2. x \in Seq(Part) /\ FramedIn(x, o) /\ EndsIn(x, f) /\ Adds(x, g[s], f)
        BY <1>1, <1>4, <1>5, <3>1, FramedBegin, Zenon
      <3>3. Sent(h, e, o) /\ Queue(q, h, e, o)
        BY <1>3, <3>2, Grow, Zenon
      <3>4. InHand(r, q, s, h, e, o)
        BY <1>2, <1>3, <3>1, <3>2, Zenon DEF InHand
      <3> QED
        BY <3>3, <3>4 DEF x, r
    <2>3. CASE n = 2
      <3>1. x = (g[s] \o First(f)) \o Second(f) /\ r = <<>>
        <4>1. SubSeq(t, 1, 2) = Parts(f) /\ SubSeq(t, 3, 2) = <<>>
          BY <1>4, <1>5, SubParts, Zenon
        <4>2. n = 2 /\ n + 1 = 3 /\ Len(t) = 2
          BY <2>0, <2>3
        <4>3. g[s] \o Parts(f) = (g[s] \o First(f)) \o Second(f)
          BY <1>1, <1>4, PartsSplit, Zenon
        <4> QED
          BY <4>1, <4>2, <4>3, Zenon
      <3> DEFINE y == g[s] \o First(f)
      <3>2. y \in Seq(Part) /\ FramedIn(y, o) /\ EndsIn(y, f) /\ Adds(y, g[s], f)
        BY <1>1, <1>4, <1>5, FramedBegin, Zenon
      <3> HIDE DEF x, r, y
      <3>3. x = y \o Second(f)
        BY <3>1 DEF y
      <3>4. x \in Seq(Part) /\ FramedIn(x, o) /\ EndsWhole(x) /\ Adds(x, y, f)
        BY <1>4, <3>2, <3>3, FramedRest, Zenon
      <3>5. Adds(x, g[s], f)
        BY <3>2, <3>4, AddsMore, Zenon
      <3>6. Sent(h, e, o) /\ Queue(q, h, e, o)
        BY <1>3, <3>4, <3>5, Grow, Zenon
      <3>7. InHand(r, q, s, h, e, o)
        BY <1>2, <3>1, <3>4, Zenon DEF InHand
      <3> QED
        BY <3>6, <3>7 DEF x, r
    <2> QED
      BY <2>0, <2>1, <2>2, <2>3
  <1>6. CASE t = Second(f) /\ EndsIn(g[s], f)
    <2>0. Len(t) = 1
      BY <1>4, <1>6, PartsAreParts
    <2>1. CASE n = 0
      <3>1. x = g[s] /\ r = t
        <4>1. SubSeq(t, 1, 0) = <<>> /\ SubSeq(t, 1, 1) = t
          BY <1>4, <1>6, SubRest
        <4> QED
          BY <1>1, <2>0, <2>1, <4>1, ConcatEmptySeq
      <3>2. h = g
        BY <3>1 DEF Sent
      <3> QED
        BY <3>1, <3>2
    <2>2. CASE n = 1
      <3>1. x = g[s] \o Second(f) /\ r = <<>>
        <4>1. SubSeq(t, 1, 1) = Second(f) /\ SubSeq(t, 2, 1) = <<>>
          BY <1>4, <1>6, SubRest, Zenon
        <4>2. n = 1 /\ n + 1 = 2 /\ Len(t) = 1
          BY <2>0, <2>2
        <4> QED
          BY <4>1, <4>2, Zenon
      <3> HIDE DEF x, r
      <3>2. x \in Seq(Part) /\ FramedIn(x, o) /\ EndsWhole(x) /\ Adds(x, g[s], f)
        BY <1>1, <1>4, <1>6, <3>1, FramedRest, Zenon
      <3>3. Sent(h, e, o) /\ Queue(q, h, e, o)
        BY <1>3, <3>2, Grow, Zenon
      <3>4. InHand(r, q, s, h, e, o)
        BY <1>2, <3>1, <3>2, Zenon DEF InHand
      <3> QED
        BY <3>3, <3>4 DEF x, r
    <2> QED
      BY <2>0, <2>1, <2>2
  <1> QED
    BY <1>3, <1>5, <1>6

-----------------------------------------------------------------------------
(* The ring                                                                 *)

LEMMA PastTheHole ==
    ASSUME NEW n \in Nat, NEW i \in 1 .. n, NEW k \in 1 .. n - 1, ~(k < i)
    PROVE  /\ k - (i - 1) \in 1 .. n - i /\ i + (k - (i - 1)) = k + 1
           /\ ~(k <= i - 1)
  OBVIOUS

\* A sequence without its i-th element.
LEMMA RemoveAtIs ==
    ASSUME NEW q \in Seq(Nat), NEW i \in DOMAIN q
    PROVE  /\ RemoveAt(q, i) \in Seq(Nat)
           /\ DOMAIN RemoveAt(q, i) = 1 .. Len(q) - 1
           /\ \A k \in 1 .. Len(q) - 1 : RemoveAt(q, i)[k] = IF k < i THEN q[k] ELSE q[k + 1]
  <1> DEFINE n == Len(q)
             a == SubSeq(q, 1, i - 1)
             b == SubSeq(q, i + 1, n)
  <1>1. n \in Nat /\ DOMAIN q = 1 .. n /\ i \in 1 .. n /\ \A k \in 1 .. n : q[k] \in Nat
    BY LenProperties, ElementOfSeq
  <1> HIDE DEF n
  <1>2. /\ 1 \in Int /\ i - 1 \in Int /\ \A k \in 1 .. i - 1 : q[k] \in Nat
        /\ i + 1 \in Int /\ n \in Int /\ \A k \in i + 1 .. n : q[k] \in Nat
    BY <1>1
  <1>3. /\ a \in Seq(Nat) /\ Len(a) = i - 1
        /\ \A k \in 1 .. i - 1 : a[k] = q[k]
    <2>1. /\ a \in Seq(Nat) /\ Len(a) = IF 1 <= i - 1 THEN i - 1 - 1 + 1 ELSE 0
          /\ \A k \in 1 .. i - 1 - 1 + 1 : a[k] = q[1 + k - 1]
      BY <1>2, SubSeqProperties
    <2> HIDE DEF a
    <2> QED
      BY <1>1, <2>1
  <1>4. /\ b \in Seq(Nat) /\ Len(b) = n - i
        /\ \A k \in 1 .. n - i : b[k] = q[i + k]
    <2>1. /\ b \in Seq(Nat) /\ Len(b) = IF i + 1 <= n THEN n - (i + 1) + 1 ELSE 0
          /\ \A k \in 1 .. n - (i + 1) + 1 : b[k] = q[i + 1 + k - 1]
      BY <1>2, SubSeqProperties
    <2>2. n - (i + 1) + 1 = n - i /\ \A k \in 1 .. n - i : i + 1 + k - 1 = i + k
      BY <1>1
    <2>3. Len(b) = n - i
      <3>1. i + 1 <= n \/ n - i = 0
        BY <1>1
      <3> HIDE DEF b
      <3> QED
        BY <1>1, <2>1, <3>1
    <2> HIDE DEF b
    <2>4. ASSUME NEW k \in 1 .. n - i
          PROVE  b[k] = q[i + k]
      BY <2>1, <2>2
    <2> QED
      BY <2>1, <2>3, <2>4, Zenon
  <1>5. /\ a \o b \in Seq(Nat) /\ Len(a \o b) = Len(a) + Len(b)
        /\ \A k \in 1 .. Len(a) + Len(b) : (a \o b)[k] = IF k <= Len(a) THEN a[k] ELSE b[k - Len(a)]
    BY <1>3, <1>4, ConcatProperties, Zenon
  <1> DEFINE r == a \o b
  <1>6. RemoveAt(q, i) = r
    BY DEF RemoveAt, n
  <1>7. r \in Seq(Nat) /\ DOMAIN r = 1 .. Len(r) /\ Len(r) = Len(a) + Len(b)
    BY <1>5, LenProperties
  <1> HIDE DEF a, b
  <1>8. Len(r) = n - 1 /\ Len(a) + Len(b) = n - 1
    <2>1. Len(a) = i - 1 /\ Len(b) = n - i
      BY <1>3, <1>4, Zenon
    <2> HIDE DEF r
    <2> QED
      BY <1>1, <1>7, <2>1
  <1> HIDE DEF r
  <1>9. ASSUME NEW k \in 1 .. n - 1
        PROVE  r[k] = IF k < i THEN q[k] ELSE q[k + 1]
    <2>1. r[k] = IF k <= i - 1 THEN a[k] ELSE b[k - (i - 1)]
      BY <1>3, <1>5, <1>8, Zenon DEF r
    <2>2. CASE k < i
      BY <1>1, <1>3, <2>1, <2>2
    <2>3. CASE ~(k < i)
      <3>1. /\ k - (i - 1) \in 1 .. n - i /\ i + (k - (i - 1)) = k + 1
            /\ ~(k <= i - 1)
        BY <1>1, <2>3, PastTheHole, Zenon
      <3>2. b[k - (i - 1)] = q[k + 1]
        BY <1>4, <3>1
      <3> QED
        BY <2>1, <2>3, <3>1, <3>2, Zenon
    <2> QED
      BY <2>2, <2>3
  <1> QED
    BY <1>6, <1>7, <1>8, <1>9 DEF n

\* What was in its order stays so when more frames are overtaken.
LEMMA Overtake ==
    ASSUME NEW g, NEW q, NEW e, NEW o, NEW p, o \subseteq p, Sent(g, e, o), Queue(q, g, e, o)
    PROVE  Sent(g, e, p) /\ Queue(q, g, e, p)
  <1>1. \A k, f : MayFollow(k, f, o) => MayFollow(k, f, p)
    BY Zenon DEF MayFollow
  <1>2. \A s, f : Behind(s, f, o) => Behind(s, f, p)
    BY <1>1, Zenon DEF Behind
  <1>3. \A s : FramedIn(s, o) => FramedIn(s, p)
    BY <1>1, Zenon DEF FramedIn
  <1> QED
    BY <1>2, <1>3, Zenon DEF Sent, Queue

\* A frame is taken, and the older ones that wait are overtaken: it may follow all that
\* was sent, and what still waits may follow it.
LEMMA TakeOut ==
    ASSUME NEW g, NEW q, NEW e \in Nat, NEW o, NEW i \in DOMAIN q, Sent(g, e, o), Queue(q, g, e, o),
           NEW p, p = o \union {q[j] : j \in 1 .. (i - 1)}
    PROVE  /\ Sent(g, e, p) /\ Queue(RemoveAt(q, i), g, e, p)
           /\ q[i] \in 1 .. e /\ Ahead(q[i], RemoveAt(q, i), p)
           /\ \A c \in Clients : Behind(g[c], q[i], p)
  <1>0. q \in Seq(Nat)
    BY DEF Queue
  <1> DEFINE r == RemoveAt(q, i)
             n == Len(q)
  <1>1. n \in Nat /\ DOMAIN q = 1 .. n /\ i \in 1 .. n
    BY <1>0, LenProperties
  <1>2. /\ r \in Seq(Nat) /\ DOMAIN r = 1 .. n - 1
        /\ \A k \in 1 .. n - 1 : r[k] = IF k < i THEN q[k] ELSE q[k + 1]
    BY <1>0, RemoveAtIs, Zenon
  <1> HIDE DEF r, n
  <1>3. o \subseteq p
    OBVIOUS
  <1>4. Sent(g, e, p) /\ Queue(q, g, e, p)
    BY <1>3, Overtake
  <1>5. \A j, k \in 1 .. n : j < k => q[j] < q[k]
    BY <1>1, <1>4, Zenon DEF Queue
  <1>6. \A k \in 1 .. n - 1 : \E j \in 1 .. n : j # i /\ r[k] = q[j]
    <2> TAKE k \in 1 .. n - 1
    <2>1. CASE k < i
      BY <1>1, <1>2, <2>1
    <2>2. CASE ~(k < i)
      <3>1. k + 1 \in 1 .. n /\ k + 1 # i /\ r[k] = q[k + 1]
        BY <1>1, <1>2, <2>2
      <3> QED
        BY <3>1
    <2> QED
      BY <2>1, <2>2
  <1>7. \A j, k \in DOMAIN r : j < k => r[j] < r[k]
    <2> SUFFICES ASSUME NEW j \in 1 .. n - 1, NEW k \in 1 .. n - 1, j < k
                 PROVE  r[j] < r[k]
      BY <1>2
    <2>1. j \in 1 .. n /\ k \in 1 .. n /\ j + 1 \in 1 .. n /\ k + 1 \in 1 .. n
      BY <1>1
    <2> QED
      BY <1>1, <1>2, <1>5, <2>1
  <1>8. \A k \in DOMAIN r : r[k] \in 1 .. e /\ \A c \in Clients : Behind(g[c], r[k], p)
    BY <1>1, <1>2, <1>4, <1>6, Zenon DEF Queue
  <1>9. Queue(r, g, e, p)
    BY <1>2, <1>7, <1>8, Zenon DEF Queue
  <1>10. q[i] \in 1 .. e /\ \A c \in Clients : Behind(g[c], q[i], p)
    BY <1>4, Zenon DEF Queue
  <1>11. ASSUME NEW k \in DOMAIN r
         PROVE  MayFollow(q[i], r[k], p)
    <2>1. PICK j \in 1 .. n : j # i /\ r[k] = q[j]
      BY <1>2, <1>6
    <2>2. q[i] \in Nat /\ q[j] \in Nat
      BY <1>0, <1>1, ElementOfSeq DEF n
    <2>3. CASE j < i
      <3>1. j \in 1 .. (i - 1)
        BY <1>1, <2>3
      <3>2. q[j] \in p
        BY <3>1
      <3>3. q[j] < q[i]
        BY <1>1, <1>5, <2>3
      <3> QED
        BY <2>1, <2>2, <3>2, <3>3 DEF MayFollow
    <2>4. CASE j > i
      <3>1. q[i] < q[j]
        BY <1>1, <1>5, <2>4
      <3> QED
        BY <2>1, <3>1 DEF MayFollow
    <2> QED
      BY <1>1, <2>1, <2>3, <2>4
  <1>12. Ahead(q[i], r, p)
    BY <1>11, Zenon DEF Ahead
  <1> QED
    BY <1>4, <1>9, <1>10, <1>12 DEF r

\* A new frame is newer than all that wait, were sent or are being sent.
LEMMA QueueAppend ==
    ASSUME NEW q, NEW g, NEW e \in Nat, NEW o, NEW t, NEW s,
           Sent(g, e, o), Queue(q, g, e, o), InHand(t, q, s, g, e, o)
    PROVE  /\ Sent(g, e + 1, o) /\ Queue(Append(q, e + 1), g, e + 1, o)
           /\ InHand(t, Append(q, e + 1), s, g, e + 1, o)
  <1>1. q \in Seq(Nat)
    BY DEF Queue
  <1> DEFINE n == Len(q)
             r == Append(q, e + 1)
  <1>2. n \in Nat /\ DOMAIN q = 1 .. n /\ e + 1 \in Nat
    BY <1>1, LenProperties
  <1>3. /\ r \in Seq(Nat) /\ Len(r) = n + 1 /\ r[n + 1] = e + 1
        /\ \A i \in 1 .. n : r[i] = q[i]
    BY <1>1, <1>2, AppendProperties
  <1>4. DOMAIN r = 1 .. n + 1
    BY <1>2, <1>3, LenProperties
  <1> HIDE DEF n, r
  <1>5. \A i \in 1 .. n : q[i] \in 1 .. e /\ \A c \in Clients : Behind(g[c], q[i], o)
    BY <1>2, Zenon DEF Queue
  <1>6. ASSUME NEW c \in Clients
        PROVE  AtMost(g[c], e + 1) /\ Behind(g[c], e + 1, o)
    <2> SUFFICES ASSUME NEW i \in DOMAIN g[c]
                 PROVE  g[c][i][1] <= e + 1 /\ MayFollow(g[c][i][1], e + 1, o)
      BY Zenon DEF AtMost, Behind
    <2>1. g[c] \in Seq(Part) /\ g[c][i][1] <= e
      BY DEF Sent, AtMost
    <2>2. g[c][i] \in Part
      BY <2>1, ElementOfSeq, LenProperties
    <2>3. g[c][i][1] \in Nat
      BY <2>2 DEF Part
    <2> QED
      BY <2>1, <2>3 DEF MayFollow
  <1>7. Sent(g, e + 1, o)
    BY <1>6, Zenon DEF Sent
  <1>8. \A i, j \in DOMAIN r : i < j => r[i] < r[j]
    <2> SUFFICES ASSUME NEW i \in 1 .. n + 1, NEW j \in 1 .. n + 1, i < j
                 PROVE  r[i] < r[j]
      BY <1>4
    <2>1. i \in 1 .. n /\ r[i] = q[i] /\ q[i] \in 1 .. e
      BY <1>2, <1>3, <1>5
    <2>2. CASE j \in 1 .. n
      BY <1>2, <1>3, <2>1, <2>2 DEF Queue
    <2>3. CASE j = n + 1
      BY <1>3, <2>1, <2>3
    <2> QED
      BY <1>2, <2>2, <2>3
  <1>9. \A i \in DOMAIN r : r[i] \in 1 .. e + 1 /\ \A c \in Clients : Behind(g[c], r[i], o)
    <2> SUFFICES ASSUME NEW i \in 1 .. n + 1
                 PROVE  r[i] \in 1 .. e + 1 /\ \A c \in Clients : Behind(g[c], r[i], o)
      BY <1>4
    <2>1. CASE i \in 1 .. n
      <3>1. r[i] = q[i] /\ q[i] \in 1 .. e
        BY <1>3, <1>5, <2>1
      <3>2. r[i] \in 1 .. e + 1
        BY <3>1
      <3> QED
        BY <1>5, <2>1, <3>1, <3>2
    <2>2. CASE i = n + 1
      <3>1. r[i] = e + 1
        BY <1>3, <2>2
      <3> QED
        BY <1>2, <1>6, <3>1
    <2> QED
      BY <1>2, <2>1, <2>2
  <1>10. ASSUME NEW f \in 1 .. e, Ahead(f, q, o)
         PROVE  Ahead(f, r, o)
    <2>1. MayFollow(f, e + 1, o)
      BY DEF MayFollow
    <2>2. \A i \in 1 .. n + 1 : i \in 1 .. n \/ i = n + 1
      BY <1>2
    <2> QED
      BY <1>2, <1>3, <1>4, <1>10, <2>1, <2>2, Zenon DEF Ahead
  <1>11. InHand(t, r, s, g, e + 1, o)
    <2>1. 1 .. e \subseteq 1 .. e + 1
      OBVIOUS
    <2> QED
      BY <1>10, <2>1, Zenon DEF InHand
  <1>12. Queue(r, g, e + 1, o)
    BY <1>3, <1>8, <1>9, Zenon DEF Queue
  <1> QED
    BY <1>7, <1>11, <1>12 DEF r

\* alloc() leaves the newest frame, when it waits and none is being sent, or none.
LEMMA QueueAlloc ==
    ASSUME NEW q, NEW g, NEW e \in Nat, NEW o, NEW r, Queue(q, g, e, o),
           r = <<>> \/ (e \in Range(q) /\ r = <<e>>)
    PROVE  Queue(r, g, e, o)
  <1>1. CASE e \in Range(q) /\ r = <<e>>
    <2>1. PICK i \in DOMAIN q : e = q[i]
      BY <1>1, Zenon DEF Range
    <2>2. e \in 1 .. e /\ \A c \in Clients : Behind(g[c], e, o)
      BY <2>1, Zenon DEF Queue
    <2>3. r \in Seq(Nat) /\ DOMAIN r = {1} /\ r[1] = e
      BY <1>1
    <2> QED
      BY <2>2, <2>3 DEF Queue
  <1>2. CASE r = <<>>
    <2>1. r \in Seq(Nat) /\ DOMAIN r = {}
      BY <1>2
    <2> QED
      BY <2>1, Zenon DEF Queue
  <1> QED
    BY <1>1, <1>2

LEMMA HandAlloc ==
    ASSUME NEW q, NEW g, NEW e \in Nat, NEW o, NEW t, NEW s, NEW r,
           InHand(t, q, s, g, e, o), t = <<>> \/ r = <<>>
    PROVE  InHand(t, r, s, g, e, o)
  <1>1. CASE r = <<>>
    <2>1. DOMAIN r = {}
      BY <1>1
    <2>2. \A f : Ahead(f, r, o)
      BY <2>1, Zenon DEF Ahead
    <2> QED
      BY <2>2, Zenon DEF InHand
  <1>2. CASE t = <<>>
    <2>1. ASSUME NEW f \in 1 .. e
          PROVE  t # Parts(f) /\ t # Second(f)
      <3>1. f \in Nat
        OBVIOUS
      <3>2. Len(Parts(f)) = 2 /\ Len(Second(f)) = 1 /\ Len(<<>>) = 0
        BY <3>1, PartsAreParts
      <3> QED
        BY <1>2, <3>2
    <2> QED
      BY <2>1, Zenon DEF InHand
  <1> QED
    BY <1>1, <1>2

-----------------------------------------------------------------------------
(* The inductive invariant                                                  *)

TcpTypeOK ==
    /\ encoded \in Nat
    /\ peer \in [Clients -> {"away", "backlog", "open", "closed"}]
    /\ sk \in Clients \union {NoSocket}

\* A client that is connected was accepted, and one that is not was sent nothing.
Connected ==
    /\ sk # NoSocket => peer[sk] \in {"open", "closed"}
    /\ \A c \in Clients : peer[c] \in {"away", "backlog"} => got[c] = <<>>

TcpInv ==
    /\ TcpTypeOK /\ Connected
    /\ Sent(got, encoded, overtaken) /\ Queue(queue, got, encoded, overtaken)
    /\ IF thread = "joined" THEN at = "end" ELSE InHand(tx, queue, sk, got, encoded, overtaken)

TcpSpec == TcpInit /\ [][TcpNext]_tcpVars

\* No client and no event is taken for a missing socket.
LEMMA NoSocketDiffers == \A c \in Clients : c # NoSocket /\ c # Listener
  BY ClientsAssumption

\* The program starts with nothing queued and nothing sent.
LEMMA InitTcpInv == TcpInit => TcpInv
  <1> SUFFICES ASSUME TcpInit
               PROVE  TcpInv
    OBVIOUS
  <1> USE DEF TcpInit
  <1>1. TcpTypeOK /\ Connected
    BY DEF TcpTypeOK, Connected
  <1>2. /\ <<>> \in Seq(Part) /\ <<>> \in Seq(Nat)
        /\ DOMAIN <<>> = {}
    <2> HIDE DEF Part
    <2> QED
      BY EmptySeq, LenProperties
  <1>3. Sent(got, encoded, overtaken)
    BY <1>2 DEF Sent, FramedIn, AtMost
  <1>4. Queue(queue, got, encoded, overtaken)
    BY <1>2 DEF Queue
  <1>5. InHand(tx, queue, sk, got, encoded, overtaken)
    BY DEF InHand
  <1> QED
    BY <1>1, <1>3, <1>4, <1>5 DEF TcpInv

\* l1send, whatever is in hand: what is sent, and what then is in hand.
LEMMA L1Send ==
    ASSUME NEW q, NEW evts, NEW now, NEW e \in Nat, NEW o,
           Sent(got, e, o), Queue(q, got, e, o), InHand(now, q, sk, got, e, o),
           sk \in Clients \union {NoSocket}, l1send(evts, now)
    PROVE  /\ Sent(got', e, o) /\ Queue(q, got', e, o) /\ InHand(tx', q, sk', got', e, o)
           /\ sk' \in {sk, NoSocket}
           /\ \A c \in Clients : c # sk => got'[c] = got[c]
  <1>1. CASE tx' = now /\ UNCHANGED <<sk, got>>
    BY <1>1
  <1>2. CASE error /\ UNCHANGED got
    BY <1>2 DEF error, InHand
  <1>3. ASSUME NEW n \in IF sk \in space THEN {1, Len(now)} ELSE {0},
               sk # NoSocket, now # <<>>,
               tx' = SubSeq(now, n + 1, Len(now)),
               got' = [got EXCEPT ![sk] = @ \o SubSeq(now, 1, n)],
               sk' = sk
        PROVE  /\ Sent(got', e, o) /\ Queue(q, got', e, o) /\ InHand(tx', q, sk', got', e, o)
               /\ \A c \in Clients : c # sk => got'[c] = got[c]
    <2>1. sk \in Clients /\ n \in {0, 1, Len(now)}
      BY <1>3
    <2>2. Sent(got', e, o) /\ Queue(q, got', e, o) /\ InHand(tx', q, sk, got', e, o)
      BY <1>3, <2>1, Sending, Zenon
    <2> QED
      BY <1>3, <2>2 DEF Sent
  <1>4. \/ tx' = now /\ UNCHANGED <<sk, got>>
        \/ error /\ UNCHANGED got
        \/ \E n \in IF sk \in space THEN {1, Len(now)} ELSE {0} :
               /\ sk # NoSocket /\ now # <<>>
               /\ tx' = SubSeq(now, n + 1, Len(now))
               /\ got' = [got EXCEPT ![sk] = @ \o SubSeq(now, 1, n)]
               /\ sk' = sk
    BY Zenon DEF l1send
  <1> QED
    BY <1>1, <1>2, <1>3, <1>4 DEF error

\* What a step of the network loop leaves: all of the invariant that it can disturb.
Kept(e) ==
    /\ Sent(got', e, overtaken') /\ Queue(queue', got', e, overtaken')
    /\ InHand(tx', queue', sk', got', e, overtaken')
    /\ sk' \in {sk, NoSocket}
    /\ \A c \in Clients : c # sk => got'[c] = got[c]

\* trysendx: the next frame is begun only when the last one is done.
LEMMA TrySendX ==
    ASSUME TcpInv, thread # "joined", sk # NoSocket, trysendx
    PROVE  Kept(encoded)
  <1>1. /\ encoded \in Nat /\ sk \in Clients
        /\ Sent(got, encoded, overtaken) /\ Queue(queue, got, encoded, overtaken)
        /\ InHand(tx, queue, sk, got, encoded, overtaken)
    BY DEF TcpInv, TcpTypeOK
  <1>2. CASE UNCHANGED ringVars /\ l1send(events, tx)
    <2>1. queue' = queue /\ overtaken' = overtaken
      BY <1>2 DEF ringVars
    <2> QED
      BY <1>1, <1>2, <2>1, L1Send DEF Kept
  <1>3. ASSUME NEW i \in DOMAIN queue, tx = <<>>, queue' = RemoveAt(queue, i),
               overtaken' = overtaken \union {queue[j] : j \in 1 .. (i - 1)},
               l1send(events, Parts(queue[i]))
        PROVE  Kept(encoded)
    <2> DEFINE f == queue[i]
               now == Parts(f)
    <2>1. PICK p : p = overtaken'
      OBVIOUS
    <2>2. PICK q : q = queue'
      OBVIOUS
    <2>3. /\ Sent(got, encoded, p) /\ Queue(q, got, encoded, p)
          /\ f \in 1 .. encoded /\ Ahead(f, q, p)
          /\ Behind(got[sk], f, p)
      BY <1>1, <1>3, <2>1, <2>2, TakeOut
    <2>4. EndsWhole(got[sk])
      <3>1. CASE tx = <<>> /\ EndsWhole(got[sk])
        BY <3>1
      <3>2. CASE \E k \in 1 .. encoded : tx = Parts(k) \/ tx = Second(k)
        <4>1. PICK k \in 1 .. encoded : tx = Parts(k) \/ tx = Second(k)
          BY <3>2
        <4>2. k \in Nat
          BY <1>1
        <4>3. tx # <<>>
          BY <4>1, <4>2, PartsAreParts
        <4> QED
          BY <1>3, <4>3
      <3> QED
        BY <1>1, <3>1, <3>2, Zenon DEF InHand
    <2> HIDE DEF f
    <2>5. InHand(now, q, sk, got, encoded, p)
      BY <2>3, <2>4, Zenon DEF InHand
    <2>6. l1send(events, now)
      BY <1>3 DEF f
    <2> HIDE DEF now
    <2>7. /\ Sent(got', encoded, p) /\ Queue(q, got', encoded, p)
          /\ InHand(tx', q, sk', got', encoded, p)
          /\ sk' \in {sk, NoSocket}
          /\ \A c \in Clients : c # sk => got'[c] = got[c]
      BY <1>1, <2>3, <2>5, <2>6, L1Send
    <2> QED
      BY <2>1, <2>2, <2>7, Zenon DEF Kept
  <1> QED
    BY <1>2, <1>3, Zenon DEF trysendx

\* The client that is accepted last was waiting.
LEMMA LastAccepted ==
    ASSUME NEW order \in SetToSeqs(Backlog), Backlog # {}
    PROVE  order[Len(order)] \in Backlog
  <1> DEFINE n == Cardinality(Backlog)
  <1>1. IsFiniteSet(Backlog)
    BY ClientsAssumption, FS_Subset DEF Backlog
  <1>2. n \in Nat /\ n # 0
    BY <1>1, FS_CardinalityType, FS_EmptySet
  <1>3. order \in [1 .. n -> Backlog]
    BY DEF SetToSeqs
  <1> HIDE DEF n
  <1>4. order \in Seq(Backlog) /\ Len(order) = n
    BY <1>2, <1>3
  <1> QED
    BY <1>2, <1>3, <1>4

\* Accepting a client begins nothing: it was sent nothing, and nothing is in hand.
LEMMA ListenerTcpInv ==
    ASSUME TcpInv, thread # "joined", ListenerEvent
    PROVE  TcpInv'
  <1> USE DEF TcpInv
  <1>1. CASE sk # NoSocket \/ Backlog = {}
    <2>1. UNCHANGED <<sk, peer, got, queue, overtaken, tx, encoded, thread>>
      BY <1>1 DEF ListenerEvent, ringVars
    <2> QED
      BY <2>1 DEF TcpTypeOK, Connected
  <1>2. CASE sk = NoSocket /\ Backlog # {}
    <2>1. PICK order \in SetToSeqs(Backlog) : Accept(order)
      BY <1>2 DEF ListenerEvent
    <2>2. sk' \in Clients /\ peer[sk'] = "backlog"
      BY <1>2, <2>1, LastAccepted DEF Accept, Backlog
    <2>3. /\ peer' = [c \in Clients |-> IF peer[c] = "backlog" THEN "open" ELSE peer[c]]
          /\ UNCHANGED <<got, queue, overtaken, tx, encoded, thread>>
      BY <2>1 DEF Accept, ListenerEvent, ringVars
    <2>4. TcpTypeOK'
      BY <2>2, <2>3 DEF TcpTypeOK
    <2>5. Connected'
      BY <2>2, <2>3 DEF TcpTypeOK, Connected
    <2>6. tx = <<>>
      BY <1>2 DEF InHand
    <2>7. EndsWhole(got[sk'])
      <3>1. got[sk'] = <<>>
        BY <2>2 DEF Connected
      <3>2. EndsWhole(<<>>)
        BY DEF EndsWhole
      <3> QED
        BY <3>1, <3>2, Zenon
    <2>8. InHand(tx', queue', sk', got', encoded', overtaken')
      BY <2>3, <2>6, <2>7 DEF InHand
    <2> QED
      BY <2>3, <2>4, <2>5, <2>8
  <1> QED
    BY <1>1, <1>2

\* A step of the network loop that sends keeps the invariant.
LEMMA SentTcpInv ==
    ASSUME TcpInv, thread # "joined", UNCHANGED <<peer, encoded, thread>>, Kept(encoded)
    PROVE  TcpInv'
  <1> USE DEF TcpInv, Kept
  <1>1. TcpTypeOK'
    BY DEF TcpTypeOK
  <1>2. Connected'
    <2>1. sk' # NoSocket => peer'[sk'] \in {"open", "closed"}
      BY DEF Connected
    <2>2. ASSUME NEW c \in Clients, peer'[c] \in {"away", "backlog"}
          PROVE  got'[c] = <<>>
      <3>1. c # sk
        BY <2>2, NoSocketDiffers DEF Connected
      <3> QED
        BY <2>2, <3>1 DEF Connected
    <2> QED
      BY <2>1, <2>2 DEF Connected
  <1> QED
    BY <1>1, <1>2

\* done() and alloc() keep it, too.
LEMMA RingTcpInv ==
    ASSUME TcpInv, Encode \/ Alloc
    PROVE  TcpInv'
  <1>1. /\ UNCHANGED <<sk, peer, got, tx, at, overtaken, thread>>
        /\ \/ encoded' = encoded + 1 /\ queue' = Append(queue, encoded + 1)
           \/ /\ encoded' = encoded
              /\ queue' = IF tx = <<>> /\ encoded \in Range(queue) THEN <<encoded>> ELSE <<>>
    BY DEF Encode, Alloc, sockVars, netVars
  <1>2. encoded \in Nat
    BY DEF TcpInv, TcpTypeOK
  <1>3. (TcpTypeOK /\ Connected)'
    BY <1>1, <1>2 DEF TcpInv, TcpTypeOK, Connected
  <1>4. /\ Sent(got, encoded, overtaken) /\ Queue(queue, got, encoded, overtaken)
        /\ thread = "joined" => at = "end"
        /\ thread # "joined" => InHand(tx, queue, sk, got, encoded, overtaken)
    BY DEF TcpInv
  <1>5. CASE encoded' = encoded + 1 /\ queue' = Append(queue, encoded + 1)
    <2>1. InHand(<<>>, queue, NoSocket, got, encoded, overtaken)
      BY Zenon DEF InHand
    <2>2. /\ Sent(got, encoded + 1, overtaken)
          /\ Queue(Append(queue, encoded + 1), got, encoded + 1, overtaken)
      BY <1>2, <1>4, <2>1, QueueAppend
    <2>3. thread # "joined" =>
              InHand(tx, Append(queue, encoded + 1), sk, got, encoded + 1, overtaken)
      BY <1>2, <1>4, QueueAppend
    <2> QED
      BY <1>1, <1>3, <1>4, <1>5, <2>2, <2>3, Zenon DEF TcpInv
  <1>6. CASE /\ encoded' = encoded
             /\ queue' = IF tx = <<>> /\ encoded \in Range(queue) THEN <<encoded>> ELSE <<>>
    <2>1. PICK r : r = queue'
      OBVIOUS
    <2>2. /\ r = <<>> \/ (encoded \in Range(queue) /\ r = <<encoded>>)
          /\ tx = <<>> \/ r = <<>>
      BY <1>6, <2>1
    <2>3. Queue(r, got, encoded, overtaken)
      BY <1>2, <1>4, <2>2, QueueAlloc
    <2>4. thread # "joined" => InHand(tx, r, sk, got, encoded, overtaken)
      BY <1>2, <1>4, <2>2, HandAlloc
    <2> QED
      BY <1>1, <1>3, <1>4, <1>6, <2>1, <2>3, <2>4, Zenon DEF TcpInv
  <1> QED
    BY <1>1, <1>5, <1>6

\* Every step keeps the invariant.
LEMMA NextTcpInv == TcpInv /\ [TcpNext]_tcpVars => TcpInv'
  <1> SUFFICES ASSUME TcpInv, [TcpNext]_tcpVars
               PROVE  TcpInv'
    OBVIOUS
  <1> USE DEF TcpInv
  <1>0. encoded \in Nat /\ sk \in Clients \union {NoSocket}
    BY DEF TcpTypeOK
  <1>1. CASE prewait
    <2>0. thread # "joined" /\ UNCHANGED <<peer, encoded, thread>>
      BY <1>1 DEF prewait
    <2>1. CASE sk = NoSocket
      <3>1. UNCHANGED <<sk, peer, got, queue, overtaken, tx, encoded, thread>>
        BY <1>1, <2>1 DEF prewait, sockVars, ringVars
      <3> QED
        BY <2>0, <3>1 DEF TcpTypeOK, Connected
    <2>2. CASE sk # NoSocket
      <3>1. trysendx
        BY <1>1, <2>2 DEF prewait
      <3>2. Kept(encoded)
        BY <2>0, <2>2, <3>1, TrySendX
      <3> QED
        BY <2>0, <3>2, SentTcpInv
    <2> QED
      BY <2>1, <2>2
  <1>2. CASE Wait \/ End
    <2>1. UNCHANGED <<sk, peer, got, queue, overtaken, tx, encoded, thread>> /\ thread # "joined"
      BY <1>2 DEF Wait, End, sockVars, netVars, ringVars
    <2> QED
      BY <2>1 DEF TcpTypeOK, Connected
  <1>3. CASE ListenerEvent
    <2>1. thread # "joined"
      BY <1>3 DEF ListenerEvent
    <2> QED
      BY <1>3, <2>1, ListenerTcpInv
  <1>4. CASE process_io
    <2>1. /\ thread # "joined" /\ UNCHANGED <<peer, encoded, thread, queue, overtaken>>
          /\ \/ error /\ UNCHANGED got
             \/ \E evts : l1send(evts, tx)
      BY <1>4 DEF process_io, l1recv, ringVars
    <2>2. /\ Sent(got, encoded, overtaken) /\ Queue(queue, got, encoded, overtaken)
          /\ InHand(tx, queue, sk, got, encoded, overtaken)
      BY <2>1
    <2>3. CASE error /\ UNCHANGED got
      <3>1. Kept(encoded)
        BY <2>1, <2>2, <2>3 DEF error, InHand, Kept
      <3> QED
        BY <2>1, <3>1, SentTcpInv
    <2>4. CASE \E evts : l1send(evts, tx)
      <3>1. PICK evts : l1send(evts, tx)
        BY <2>4
      <3>2. /\ Sent(got', encoded, overtaken) /\ Queue(queue, got', encoded, overtaken)
            /\ InHand(tx', queue, sk', got', encoded, overtaken)
            /\ sk' \in {sk, NoSocket}
            /\ \A c \in Clients : c # sk => got'[c] = got[c]
        BY <1>0, <2>2, <3>1, L1Send
      <3>3. Kept(encoded)
        BY <2>1, <3>2, Zenon DEF Kept
      <3> QED
        BY <2>1, <3>3, SentTcpInv
    <2> QED
      BY <2>1, <2>3, <2>4
  <1>5. CASE Smashed
    <2>1. UNCHANGED <<sk, peer, got, queue, overtaken, tx, encoded>> /\ thread' = "dead"
      BY <1>5 DEF Smashed, sockVars, netVars, ringVars
    <2>2. thread # "joined"
      BY <1>5 DEF Smashed
    <2> QED
      BY <2>1, <2>2 DEF TcpTypeOK, Connected
  <1>6. CASE Encode \/ Alloc
    BY <1>6, RingTcpInv
  <1>7. ASSUME NEW c \in Clients, Connect(c) \/ ClientSends(c) \/ ClientReads(c) \/ ClientCloses(c)
        PROVE  TcpInv'
    <2>1. UNCHANGED <<sk, got, queue, overtaken, tx, encoded, at, thread>>
      BY <1>7 DEF Connect, ClientSends, ClientReads, ClientCloses, sockVars, ringVars
    <2>2. \/ UNCHANGED peer
          \/ peer[c] = "away" /\ peer' = [peer EXCEPT ![c] = "backlog"]
          \/ peer[c] = "open" /\ peer' = [peer EXCEPT ![c] = "closed"]
      BY <1>7 DEF Connect, ClientSends, ClientReads, ClientCloses
    <2>3. TcpTypeOK' /\ Connected'
      BY <2>1, <2>2 DEF TcpTypeOK, Connected
    <2> QED
      BY <2>1, <2>3
  <1>8. CASE stop
    <2>1. /\ UNCHANGED <<sk, peer, got, queue, overtaken, tx, encoded>>
          /\ thread # "joined" /\ thread' # "joined"
      BY <1>8 DEF stop, sockVars, netVars, ringVars
    <2> QED
      BY <2>1 DEF TcpTypeOK, Connected
  <1>9. CASE join
    <2>1. /\ UNCHANGED <<peer, got, queue, overtaken, encoded>>
          /\ sk' = NoSocket /\ thread' = "joined" /\ at' = "end"
      BY <1>9 DEF join, ringVars
    <2> QED
      BY <2>1 DEF TcpTypeOK, Connected
  <1>10. CASE UNCHANGED tcpVars
    <2>1. UNCHANGED <<sk, peer, got, queue, overtaken, tx, encoded, at, thread>>
      BY <1>10 DEF tcpVars, netVars, sockVars, ringVars
    <2> QED
      BY <2>1 DEF TcpTypeOK, Connected
  <1> QED
    BY <1>1, <1>2, <1>3, <1>4, <1>5, <1>6, <1>7, <1>8, <1>9, <1>10 DEF TcpNext, xpoll

\* Whatever connection breaks in the middle of whatever frame, and whatever the encoder
\* and the scan of the ring do to each other: what each client is sent are whole frames,
\* the last one perhaps in part, none of them twice, and one follows a newer one only
\* when it waited while that one was taken.
THEOREM FramesWhole == TcpSpec => []WholeFrames
  <1>1. TcpInv => WholeFrames
    <2>1. \A s : FramedIn(s, overtaken) => Framed(s)
      BY Zenon DEF FramedIn, Framed, MayFollow
    <2> QED
      BY <2>1 DEF TcpInv, Sent, WholeFrames
  <1> QED
    BY <1>1, InitTcpInv, NextTcpInv, PTL DEF TcpSpec

-----------------------------------------------------------------------------
(* The replies of as.cpp                                                    *)

Piece == Nat \X {1, 2}

\* The i-th piece on the socket when replies are written in their order
PieceAt(i) == <<(i + 1) \div 2, 2 - (i % 2)>>

Reply(m) == <<<<m, 1>>, <<m, 2>>>>

\* s continues what was written after n pieces.
Continues(s, n) == s \in Seq(Piece) /\ \A i \in 1 .. Len(s) : s[i] = PieceAt(n + i)

\* As long as at most two replies were given out since the socket had no writer: there is
\* one writer at most, and its list is what is missing on the socket.
OneWriter ==
    /\ Continues(written, 0)
    /\ \/ /\ DOMAIN writers = {} /\ hired = None
          /\ Len(written) = 2 * Len(handed)
       \/ \E w \in Nat \ {None} :
              /\ DOMAIN writers = {w}
              /\ Continues(writers[w], Len(written)) /\ writers[w] # <<>>
              /\ Len(written) + Len(writers[w]) = 2 * Len(handed)
              /\ (burst = 1 /\ hired = w) \/ (burst = 2 /\ hired = None)

RepliesInv ==
    /\ prog # "as" => written = <<>> /\ DOMAIN writers = {}
    /\ prog = "as" =>
           /\ \E S : handed \in Seq(S)
           /\ burst \in 0 .. 3
           /\ burst # 3 => OneWriter

\* One more reply at the end of what is to be written continues it.
LEMMA ReplyContinues ==
    ASSUME NEW n \in Nat
    PROVE  Continues(Reply(n + 1), 2 * n) /\ Len(Reply(n + 1)) = 2
  <1>1. Reply(n + 1) \in Seq(Piece) /\ Len(Reply(n + 1)) = 2
    BY DEF Reply, Piece
  <1>2. (2 * n + 1 + 1) \div 2 = n + 1 /\ 2 - ((2 * n + 1) % 2) = 1
    OBVIOUS
  <1>3. (2 * n + 2 + 1) \div 2 = n + 1 /\ 2 - ((2 * n + 2) % 2) = 2
    OBVIOUS
  <1>4. Reply(n + 1)[1] = PieceAt(2 * n + 1) /\ Reply(n + 1)[2] = PieceAt(2 * n + 2)
    BY <1>2, <1>3 DEF Reply, PieceAt
  <1> QED
    BY <1>1, <1>4 DEF Continues

\* One list of pieces after the other continues as well.
LEMMA ContinuesOn ==
    ASSUME NEW n \in Nat, NEW s, Continues(s, n), NEW t, Continues(t, n + Len(s))
    PROVE  Continues(s \o t, n) /\ Len(s \o t) = Len(s) + Len(t)
  <1>1. s \in Seq(Piece) /\ t \in Seq(Piece)
    BY DEF Continues
  <1>2. /\ s \o t \in Seq(Piece) /\ Len(s \o t) = Len(s) + Len(t)
        /\ Len(s) \in Nat /\ Len(t) \in Nat
        /\ \A i \in 1 .. Len(s) + Len(t) : (s \o t)[i] = IF i <= Len(s) THEN s[i] ELSE t[i - Len(s)]
    BY <1>1
  <1>3. ASSUME NEW i \in 1 .. Len(s) + Len(t)
        PROVE  (s \o t)[i] = PieceAt(n + i)
    <2>1. CASE i <= Len(s)
      BY <1>2, <2>1 DEF Continues
    <2>2. CASE ~(i <= Len(s))
      <3>1. i - Len(s) \in 1 .. Len(t) /\ n + Len(s) + (i - Len(s)) = n + i
        BY <1>2, <2>2
      <3> QED
        BY <1>2, <2>2, <3>1 DEF Continues
    <2> QED
      BY <2>1, <2>2
  <1> QED
    BY <1>2, <1>3 DEF Continues

\* No reply is under way at the beginning.
LEMMA InitRepliesInv == HttpInit => RepliesInv
  <1> SUFFICES ASSUME HttpInit
               PROVE  RepliesInv
    OBVIOUS
  <1>1. /\ handed = <<>> /\ written = <<>> /\ hired = None /\ burst = 0 /\ DOMAIN writers = {}
    BY DEF HttpInit
  <1>2. OneWriter
    BY <1>1 DEF OneWriter, Continues
  <1>3. handed \in Seq({})
    BY <1>1
  <1> QED
    BY <1>1, <1>2, <1>3 DEF RepliesInv

\* Sender::associate, with at most one writer there.
LEMMA WorkRepliesInv ==
    ASSUME RepliesInv, handle_content
    PROVE  RepliesInv'
  <1>1. /\ prog = "as" /\ prog' = "as"
        /\ work(Len(handed) + 1) /\ UNCHANGED written
    BY DEF handle_content, work
  <1>2. PICK S : handed \in Seq(S)
    BY <1>1 DEF RepliesInv
  <1> DEFINE e == [line |-> params, body |-> Taken(rsbuf, size)]
             n == Len(handed)
             r == Reply(n + 1)
  <1>3. handed' = Append(handed, e)
    BY DEF handle_content, Hand
  <1> HIDE DEF e
  <1>4. handed' \in Seq(S \union {e}) /\ Len(handed') = n + 1 /\ n \in Nat
    BY <1>2, <1>3
  <1>5. /\ burst \in 0 .. 3
        /\ burst' = IF burst = 3 THEN 3 ELSE IF DOMAIN writers = {} THEN 1 ELSE burst + 1
    BY <1>1 DEF RepliesInv, work
  <1>6. ASSUME burst' # 3
        PROVE  OneWriter'
    <2>1. burst # 3 /\ OneWriter
      BY <1>1, <1>5, <1>6 DEF RepliesInv
    <2>2. Continues(r, 2 * n) /\ Len(r) = 2
      BY <1>4, ReplyContinues
    <2>3. r # <<>>
      BY <2>2
    <2>4. associate(n + 1)
      BY <1>1 DEF work
    <2> HIDE DEF n
    <2>5. CASE DOMAIN writers = {} /\ hired = None
      <3>1. writers' = send(writers, n + 1, n + 1) /\ hired' = n + 1
        BY <2>4, <2>5 DEF associate
      <3>2. DOMAIN writers' = {n + 1} /\ writers'[n + 1] = r
        BY <2>5, <3>1 DEF send, Reply
      <3> HIDE DEF r
      <3>3. n + 1 \in Nat \ {None} /\ burst' = 1
        BY <1>4, <1>5, <2>1, <2>5 DEF None
      <3>4. Continues(written, 0) /\ Len(written) = 2 * n
        BY <2>1, <2>5 DEF OneWriter, n
      <3>5. Len(written) + Len(r) = 2 * (n + 1)
        BY <1>4, <2>2, <3>4
      <3> DEFINE w == n + 1
      <3>6. /\ Continues(written', 0) /\ w \in Nat \ {None}
            /\ DOMAIN writers' = {w} /\ Continues(writers'[w], Len(written'))
            /\ writers'[w] # <<>> /\ Len(written') + Len(writers'[w]) = 2 * Len(handed')
            /\ burst' = 1 /\ hired' = w
        BY <1>1, <1>4, <2>2, <2>3, <3>1, <3>2, <3>3, <3>4, <3>5
      <3> HIDE DEF w
      <3>7. \E v \in Nat \ {None} :
                /\ DOMAIN writers' = {v}
                /\ Continues(writers'[v], Len(written')) /\ writers'[v] # <<>>
                /\ Len(written') + Len(writers'[v]) = 2 * Len(handed')
                /\ (burst' = 1 /\ hired' = v) \/ (burst' = 2 /\ hired' = None)
        BY <3>6, Zenon
      <3> QED
        BY <3>6, <3>7, Zenon DEF OneWriter
    <2>6. CASE ~(DOMAIN writers = {} /\ hired = None)
      <3>1. PICK w \in Nat \ {None} :
                /\ DOMAIN writers = {w}
                /\ Continues(writers[w], Len(written)) /\ writers[w] # <<>>
                /\ Len(written) + Len(writers[w]) = 2 * n
                /\ (burst = 1 /\ hired = w) \/ (burst = 2 /\ hired = None)
        BY <2>1, <2>6 DEF OneWriter, n
      <3>2. burst = 1 /\ hired = w /\ burst' = 2
        BY <1>5, <1>6, <3>1
      <3>3. writers' = send(writers, w, n + 1) /\ hired' = None
        BY <2>4, <3>1, <3>2 DEF associate
      <3>4. DOMAIN writers' = {w} /\ writers'[w] = writers[w] \o r
        BY <3>1, <3>3 DEF send, Reply
      <3> HIDE DEF r
      <3> DEFINE s == writers[w]
      <3>5. Continues(written, 0) /\ s \in Seq(Piece) /\ written \in Seq(Piece)
        BY <2>1, <3>1 DEF OneWriter, Continues
      <3> HIDE DEF s
      <3>6. Continues(s, Len(written)) /\ Len(written) + Len(s) = 2 * n
        BY <3>1 DEF s
      <3>7. Len(written) \in Nat /\ Len(s) \in Nat
        BY <3>5
      <3>8. Continues(s \o r, Len(written)) /\ Len(s \o r) = Len(s) + Len(r)
        <4>1. Continues(r, Len(written) + Len(s))
          BY <2>2, <3>6 DEF r
        <4> QED
          BY <3>6, <3>7, <4>1, ContinuesOn
      <3>9. s \o r # <<>> /\ Len(written) + Len(s \o r) = 2 * (n + 1)
        BY <1>4, <2>2, <3>6, <3>7, <3>8
      <3>10. /\ Continues(written', 0)
             /\ DOMAIN writers' = {w} /\ Continues(writers'[w], Len(written'))
             /\ writers'[w] # <<>> /\ Len(written') + Len(writers'[w]) = 2 * Len(handed')
             /\ burst' = 2 /\ hired' = None
        BY <1>1, <1>4, <3>2, <3>3, <3>4, <3>5, <3>8, <3>9 DEF s
      <3> QED
        BY <3>10 DEF OneWriter
    <2> QED
      BY <2>5, <2>6
  <1>7. burst' \in 0 .. 3
    BY <1>5
  <1> QED
    BY <1>1, <1>4, <1>6, <1>7 DEF RepliesInv

\* A piece is on the socket.
LEMMA WritebRepliesInv ==
    ASSUME RepliesInv, writeb
    PROVE  RepliesInv'
  <1>1. PICK w \in DOMAIN writers :
            /\ written' = Append(written, Head(writers[w]))
            /\ IF Len(writers[w]) > 1
               THEN writers' = [writers EXCEPT ![w] = Tail(@)] /\ UNCHANGED hired
               ELSE /\ writers' = [i \in DOMAIN writers \ {w} |-> writers[i]]
                    /\ hired' = None
    BY DEF writeb
  <1>2. UNCHANGED <<prog, handed, burst>>
    BY DEF writeb, readVars
  <1>3. prog = "as"
    BY <1>1 DEF RepliesInv
  <1>4. ASSUME burst # 3
        PROVE  OneWriter'
    <2>1. OneWriter /\ DOMAIN writers # {}
      BY <1>1, <1>3, <1>4 DEF RepliesInv
    <2>2. /\ DOMAIN writers = {w} /\ w \in Nat \ {None}
          /\ Continues(writers[w], Len(written)) /\ writers[w] # <<>>
          /\ Len(written) + Len(writers[w]) = 2 * Len(handed)
          /\ (burst = 1 /\ hired = w) \/ (burst = 2 /\ hired = None)
      BY <2>1 DEF OneWriter
    <2> DEFINE s == writers[w]
               n == Len(written)
    <2>3. /\ s \in Seq(Piece) /\ s # <<>> /\ \A i \in 1 .. Len(s) : s[i] = PieceAt(n + i)
          /\ written \in Seq(Piece) /\ \A i \in 1 .. n : written[i] = PieceAt(0 + i)
      BY <2>1, <2>2 DEF OneWriter, Continues
    <2> HIDE DEF s
    <2>4. n \in Nat /\ Len(s) \in Nat /\ Len(s) > 0 /\ Head(s) = s[1] /\ s[1] \in Piece
      BY <2>3
    <2>5. written' = Append(written, s[1]) /\ s[1] = PieceAt(n + 1)
      BY <1>1, <2>3, <2>4 DEF s
    <2>6. written' \in Seq(Piece) /\ Len(written') = n + 1 /\ Continues(written', 0)
      <3>1. /\ written' \in Seq(Piece) /\ Len(written') = n + 1
            /\ \A i \in 1 .. n + 1 : written'[i] = IF i <= n THEN written[i] ELSE s[1]
        BY <2>3, <2>4, <2>5
      <3>2. \A i \in 1 .. n + 1 : written'[i] = PieceAt(0 + i)
        BY <2>3, <2>4, <2>5, <3>1
      <3> QED
        BY <3>1, <3>2 DEF Continues
    <2>7. CASE Len(s) > 1
      <3>1. writers' = [writers EXCEPT ![w] = Tail(s)] /\ hired' = hired
        BY <1>1, <2>7 DEF s
      <3>2. /\ Tail(s) \in Seq(Piece) /\ Len(Tail(s)) = Len(s) - 1 /\ Tail(s) # <<>>
            /\ \A i \in 1 .. Len(s) - 1 : Tail(s)[i] = s[i + 1]
        <4>1. Tail(s) \in Seq(Piece) /\ Len(Tail(s)) = Len(s) - 1
          BY <2>3
        <4>2. \A i \in 1 .. Len(s) - 1 : Tail(s)[i] = s[i + 1]
          BY <2>3
        <4>3. Len(Tail(s)) # 0
          BY <2>4, <2>7, <4>1
        <4> QED
          BY <4>1, <4>2, <4>3
      <3>3. Continues(Tail(s), n + 1)
        <4>1. ASSUME NEW i \in 1 .. Len(s) - 1
              PROVE  Tail(s)[i] = PieceAt(n + 1 + i)
          <5>1. i + 1 \in 1 .. Len(s) /\ n + (i + 1) = n + 1 + i
            BY <2>4
          <5> QED
            BY <2>3, <3>2, <5>1
        <4> QED
          BY <3>2, <4>1 DEF Continues
      <3>4. DOMAIN writers' = {w} /\ writers'[w] = Tail(s)
        BY <2>2, <3>1
      <3>5. Len(written') + Len(Tail(s)) = 2 * Len(handed')
        <4>1. n + Len(s) = 2 * Len(handed)
          BY <2>2 DEF s
        <4> HIDE DEF n
        <4> QED
          BY <1>2, <2>4, <2>6, <3>2, <4>1
      <3>6. /\ Continues(written', 0)
            /\ DOMAIN writers' = {w} /\ Continues(writers'[w], Len(written'))
            /\ writers'[w] # <<>> /\ Len(written') + Len(writers'[w]) = 2 * Len(handed')
            /\ (burst' = 1 /\ hired' = w) \/ (burst' = 2 /\ hired' = None)
        BY <1>2, <2>2, <2>6, <3>1, <3>2, <3>3, <3>4, <3>5
      <3> QED
        BY <2>2, <3>6 DEF OneWriter
    <2>8. CASE ~(Len(s) > 1)
      <3>1. writers' = [i \in DOMAIN writers \ {w} |-> writers[i]] /\ hired' = None
        BY <1>1, <2>8 DEF s
      <3>2. DOMAIN writers' = {}
        BY <2>2, <3>1
      <3>3. Len(written') = 2 * Len(handed')
        <4>1. n + Len(s) = 2 * Len(handed)
          BY <2>2 DEF s
        <4> HIDE DEF n
        <4> QED
          BY <1>2, <2>4, <2>6, <2>8, <4>1
      <3> QED
        BY <2>6, <3>1, <3>2, <3>3 DEF OneWriter
    <2> QED
      BY <2>7, <2>8
  <1> QED
    BY <1>2, <1>3, <1>4 DEF RepliesInv

\* Everything else reads.
LEMMA NextRepliesInv == RepliesInv /\ [HttpNext]_httpVars => RepliesInv'
  <1> SUFFICES ASSUME RepliesInv, [HttpNext]_httpVars
               PROVE  RepliesInv'
    OBVIOUS
  <1>1. \/ handle_content \/ writeb
        \/ /\ UNCHANGED <<prog, writers, hired, written, burst>>
           /\ UNCHANGED handed \/ prog # "as"
    BY DEF HttpNext, Handlers, Receive, error_, handle_accept, ready, connection, handle_resolve,
       handle_connect, handle_write_request, handle_method_line, handle_read_status_line,
       MethodLineOfProxy, handle_headers, handle_read_headers, HeadersOfProxy,
       handle_read_content, ContentOfProxy, makereq, writeVars, readVars, httpVars
  <1>2. CASE /\ UNCHANGED <<prog, writers, hired, written, burst>>
             /\ UNCHANGED handed \/ prog # "as"
    BY <1>2 DEF RepliesInv, OneWriter, Continues
  <1> QED
    BY <1>1, <1>2, WorkRepliesInv, WritebRepliesInv

HttpSpec == HttpInit /\ [][HttpNext]_httpVars

\* However requests and replies interleave: as long as no third reply is given out while
\* the writer of the first is at work, the replies are on the socket whole and in the order
\* of their requests.
THEOREM RepliesKeepOrder == HttpSpec => []RepliesInOrder
  <1>1. RepliesInv => RepliesInOrder
    <2> SUFFICES ASSUME RepliesInv, burst # 3, NEW i \in DOMAIN written
                 PROVE  written[i] = PieceAt(i)
      BY DEF RepliesInOrder, PieceAt
    <2>1. CASE prog # "as"
      BY <2>1 DEF RepliesInv
    <2>2. CASE prog = "as"
      <3>1. written \in Seq(Piece) /\ \A j \in 1 .. Len(written) : written[j] = PieceAt(0 + j)
        BY <2>2 DEF RepliesInv, OneWriter, Continues
      <3>2. i \in 1 .. Len(written) /\ 0 + i = i
        BY <3>1
      <3> QED
        BY <3>1, <3>2
    <2> QED
      BY <2>1, <2>2
  <1> QED
    BY <1>1, InitRepliesInv, NextRepliesInv, PTL DEF HttpSpec

-----------------------------------------------------------------------------
(* Where the messages are in the stream of an HTTP peer                     *)

Kind == {"blank", "line", "head", "byte"}
TokenSet == [kind : Kind, of : Nat, bare : BOOLEAN, length : Int, cut : BOOLEAN]

\* How many tokens there are before the first line of a message, and of its body
Blanks(shape) == IF shape.blank THEN 1 ELSE 0
BodyLen(shape) == IF shape.length > 0 THEN shape.length ELSE 0

LineToken(shape, m) == [Token("line", m) EXCEPT !.cut = (shape.line = "bad")]
Headed(t, v, w) == [t EXCEPT !.bare = v, !.length = w]
HeadToken(shape, m) == Headed(Token("head", m), shape.length = Bare, shape.length)

\* The tokens of message m follow position a of the stream F.
PlacedAt(F, a, shape, m) ==
    /\ shape.blank => F[a + 1] = Token("blank", m)
    /\ F[a + Blanks(shape) + 1] = LineToken(shape, m)
    /\ F[a + Blanks(shape) + 2] = HeadToken(shape, m)
    /\ \A j \in 1 .. BodyLen(shape) : F[a + Blanks(shape) + 2 + j] = Token("byte", m)

\* F is the stream of the first n messages of sc; message k follows position start[k].
Laid(F, sc, start, n) ==
    /\ F \in Seq(TokenSet)
    /\ start \in [1 .. n + 1 -> Nat]
    /\ start[1] = 0 /\ start[n + 1] = Len(F)
    /\ \A k \in 1 .. n :
           /\ start[k + 1] = start[k] + Blanks(sc[k]) + 2 + BodyLen(sc[k])
           /\ start[k + 1] <= Len(F)
           /\ PlacedAt(F, start[k], sc[k], k)

\* The shapes of messages, by which a message has one first line and one head.
LEMMA ShapeFacts ==
    ASSUME NEW shape \in Shapes
    PROVE  /\ shape.blank \in BOOLEAN /\ shape.line \in {"GET", "POST", "bad"}
           /\ shape.length \in -2 .. 2
           /\ Blanks(shape) \in 0 .. 1 /\ (shape.blank <=> Blanks(shape) = 1)
           /\ BodyLen(shape) \in Nat
           /\ shape.length >= 0 => BodyLen(shape) = shape.length
           /\ shape.length <= 0 => BodyLen(shape) = 0
  <1>1. shape \in [blank : BOOLEAN, line : {"GET", "POST", "bad"}, length : Bare .. 2]
    BY ShapesAssumption
  <1>2. /\ shape.blank \in BOOLEAN /\ shape.line \in {"GET", "POST", "bad"}
        /\ shape.length \in -2 .. 2
    BY <1>1 DEF Bare
  <1> QED
    BY <1>2 DEF Blanks, BodyLen

\* A token of which one part is changed.
LEMMA TokenCut ==
    ASSUME NEW t \in TokenSet, NEW v \in BOOLEAN
    PROVE  LET u == [t EXCEPT !.cut = v]
           IN  u \in TokenSet /\ u.kind = t.kind /\ u.of = t.of /\ u.bare = t.bare /\ u.length = t.length
  BY DEF TokenSet

\* A token that gets what a header has told.
LEMMA TokenHead ==
    ASSUME NEW t \in TokenSet, NEW v \in BOOLEAN, NEW w \in Int
    PROVE  /\ Headed(t, v, w) \in TokenSet
           /\ Headed(t, v, w).kind = t.kind /\ Headed(t, v, w).of = t.of
           /\ Headed(t, v, w).bare = v /\ Headed(t, v, w).length = w
  BY DEF Headed, TokenSet

\* A token as Token makes it.
LEMMA TokenType ==
    ASSUME NEW k \in Kind, NEW m \in Nat
    PROVE  Token(k, m) \in TokenSet /\ Token(k, m).kind = k /\ Token(k, m).of = m
  BY DEF Token, TokenSet, NoLength

\* What the tokens of a message are.
LEMMA TokenFacts ==
    ASSUME NEW m \in Nat, NEW shape \in Shapes
    PROVE  /\ LineToken(shape, m) \in TokenSet /\ HeadToken(shape, m) \in TokenSet
           /\ Token("blank", m) \in TokenSet /\ Token("byte", m) \in TokenSet
           /\ LineToken(shape, m).kind = "line" /\ LineToken(shape, m).of = m
           /\ HeadToken(shape, m).kind = "head" /\ HeadToken(shape, m).of = m
           /\ HeadToken(shape, m).bare = (shape.length = Bare)
           /\ HeadToken(shape, m).length = shape.length
           /\ Token("blank", m).kind = "blank" /\ Token("blank", m).of = m
           /\ Token("byte", m).kind = "byte" /\ Token("byte", m).of = m
  <1>1. shape.length \in Int /\ (shape.line = "bad") \in BOOLEAN /\ (shape.length = Bare) \in BOOLEAN
    BY ShapeFacts
  <1>2. \A k \in Kind : Token(k, m) \in TokenSet /\ Token(k, m).kind = k /\ Token(k, m).of = m
    BY TokenType
  <1>3. {"blank", "line", "head", "byte"} \subseteq Kind
    BY DEF Kind
  <1>4. /\ LineToken(shape, m) \in TokenSet
        /\ LineToken(shape, m).kind = "line" /\ LineToken(shape, m).of = m
    <2> DEFINE v == shape.line = "bad"
               u == Token("line", m)
    <2>1. v \in BOOLEAN /\ u \in TokenSet /\ u.kind = "line" /\ u.of = m
      BY <1>1, <1>2, <1>3
    <2>2. LineToken(shape, m) = [u EXCEPT !.cut = v]
      BY DEF LineToken
    <2> HIDE DEF u, v
    <2> QED
      BY <2>1, <2>2, TokenCut
  <1>5. /\ HeadToken(shape, m) \in TokenSet
        /\ HeadToken(shape, m).kind = "head" /\ HeadToken(shape, m).of = m
        /\ HeadToken(shape, m).bare = (shape.length = Bare)
        /\ HeadToken(shape, m).length = shape.length
    <2> DEFINE v == shape.length = Bare
               w == shape.length
    <2>1. v \in BOOLEAN /\ w \in Int
      BY <1>1
    <2>2. HeadToken(shape, m) = Headed(Token("head", m), v, w)
      BY DEF HeadToken
    <2>3. Token("head", m) \in TokenSet /\ Token("head", m).kind = "head" /\ Token("head", m).of = m
      BY <1>2, <1>3
    <2> HIDE DEF v, w
    <2>4. /\ HeadToken(shape, m) \in TokenSet
          /\ HeadToken(shape, m).kind = "head" /\ HeadToken(shape, m).of = m
          /\ HeadToken(shape, m).bare = v /\ HeadToken(shape, m).length = w
      BY <2>1, <2>2, <2>3, TokenHead
    <2> QED
      BY <2>4 DEF v, w
  <1> QED
    BY <1>2, <1>3, <1>4, <1>5

\* Concatenation of what is sent.
LEMMA TokenConcat ==
    ASSUME NEW s \in Seq(TokenSet), NEW t \in Seq(TokenSet)
    PROVE  /\ s \o t \in Seq(TokenSet)
           /\ Len(s \o t) = Len(s) + Len(t)
           /\ \A i \in 1 .. Len(s) + Len(t) :
                  (s \o t)[i] = IF i <= Len(s) THEN s[i] ELSE t[i - Len(s)]
  BY ConcatProperties, Zenon

\* The tokens of one message.
LEMMA TokensPlaced ==
    ASSUME NEW m \in Nat, NEW shape \in Shapes
    PROVE  /\ Tokens(shape, m) \in Seq(TokenSet)
           /\ Len(Tokens(shape, m)) = Blanks(shape) + 2 + BodyLen(shape)
           /\ PlacedAt(Tokens(shape, m), 0, shape, m)
  <1> DEFINE b == IF shape.blank THEN <<Token("blank", m)>> ELSE <<>>
             l == <<LineToken(shape, m)>>
             h == <<HeadToken(shape, m)>>
             y == [i \in 1 .. BodyLen(shape) |-> Token("byte", m)]
  <1>1. Tokens(shape, m) = b \o l \o h \o y
    BY DEF Tokens, LineToken, HeadToken, Headed, BodyLen
  <1>2. /\ b \in Seq(TokenSet) /\ Len(b) = Blanks(shape)
        /\ shape.blank => b[1] = Token("blank", m)
    BY TokenFacts DEF Blanks
  <1>3. l \in Seq(TokenSet) /\ Len(l) = 1 /\ l[1] = LineToken(shape, m)
    BY TokenFacts
  <1>4. h \in Seq(TokenSet) /\ Len(h) = 1 /\ h[1] = HeadToken(shape, m)
    BY TokenFacts
  <1>5. /\ y \in Seq(TokenSet) /\ Len(y) = BodyLen(shape)
        /\ \A j \in 1 .. BodyLen(shape) : y[j] = Token("byte", m)
    BY TokenFacts, ShapeFacts
  <1> HIDE DEF b, l, h, y
  <1>6. PICK n \in 0 .. 1 : n = Blanks(shape) /\ (shape.blank => n = 1)
    BY ShapeFacts
  <1> DEFINE len == BodyLen(shape)
  <1>7. len \in Nat
    BY ShapeFacts
  <1> HIDE DEF len
  <1> DEFINE bl == b \o l
             t == bl \o h
  <1>8. /\ bl \in Seq(TokenSet) /\ Len(bl) = n + 1
        /\ shape.blank => bl[1] = Token("blank", m)
        /\ bl[n + 1] = LineToken(shape, m)
    <2>1. /\ bl \in Seq(TokenSet) /\ Len(bl) = n + 1
          /\ \A i \in 1 .. n + 1 : bl[i] = IF i <= n THEN b[i] ELSE l[i - n]
      <3>1. Len(b) = n /\ Len(l) = 1 /\ b \in Seq(TokenSet) /\ l \in Seq(TokenSet)
        BY <1>2, <1>3, <1>6
      <3>2. /\ bl \in Seq(TokenSet) /\ Len(bl) = Len(b) + Len(l)
            /\ \A i \in 1 .. Len(b) + Len(l) : bl[i] = IF i <= Len(b) THEN b[i] ELSE l[i - Len(b)]
        BY <3>1, TokenConcat
      <3> HIDE DEF bl
      <3> QED
        BY <3>1, <3>2
    <2>2. n + 1 \in 1 .. n + 1 /\ ~(n + 1 <= n) /\ n + 1 - n = 1 /\ 1 \in 1 .. n + 1
      BY <1>6
    <2> HIDE DEF bl
    <2> QED
      BY <1>2, <1>3, <1>6, <2>1, <2>2
  <1> HIDE DEF bl
  <1>9. /\ t \in Seq(TokenSet) /\ Len(t) = n + 2
        /\ shape.blank => t[1] = Token("blank", m)
        /\ t[n + 1] = LineToken(shape, m)
        /\ t[n + 2] = HeadToken(shape, m)
    <2>1. /\ t \in Seq(TokenSet) /\ Len(t) = n + 1 + 1
          /\ \A i \in 1 .. n + 1 + 1 : t[i] = IF i <= n + 1 THEN bl[i] ELSE h[i - (n + 1)]
      <3>1. Len(bl) = n + 1 /\ Len(h) = 1 /\ bl \in Seq(TokenSet) /\ h \in Seq(TokenSet)
        BY <1>4, <1>8
      <3>2. /\ t \in Seq(TokenSet) /\ Len(t) = Len(bl) + Len(h)
            /\ \A i \in 1 .. Len(bl) + Len(h) : t[i] = IF i <= Len(bl) THEN bl[i] ELSE h[i - Len(bl)]
        BY <3>1, TokenConcat
      <3> HIDE DEF t
      <3> QED
        BY <3>1, <3>2
    <2>2. /\ n + 1 \in 1 .. n + 1 + 1 /\ n + 2 \in 1 .. n + 1 + 1 /\ 1 \in 1 .. n + 1 + 1
          /\ n + 1 <= n + 1 /\ ~(n + 2 <= n + 1) /\ n + 2 - (n + 1) = 1 /\ n + 1 + 1 = n + 2
          /\ 1 <= n + 1
      BY <1>6
    <2> HIDE DEF t
    <2> QED
      BY <1>4, <1>8, <2>1, <2>2
  <1> HIDE DEF t
  <1>10. /\ t \o y \in Seq(TokenSet) /\ Len(t \o y) = n + 2 + len
         /\ shape.blank => (t \o y)[1] = Token("blank", m)
         /\ (t \o y)[n + 1] = LineToken(shape, m)
         /\ (t \o y)[n + 2] = HeadToken(shape, m)
         /\ \A j \in 1 .. len : (t \o y)[n + 2 + j] = Token("byte", m)
    <2>1. /\ t \o y \in Seq(TokenSet) /\ Len(t \o y) = n + 2 + len
          /\ \A i \in 1 .. n + 2 + len :
                 (t \o y)[i] = IF i <= n + 2 THEN t[i] ELSE y[i - (n + 2)]
      BY <1>5, <1>9, TokenConcat DEF len
    <2> DEFINE z == t \o y
    <2> HIDE DEF z
    <2>2. ASSUME NEW j \in 1 .. len
          PROVE  z[n + 2 + j] = Token("byte", m)
      <3>1. n + 2 + j \in 1 .. n + 2 + len /\ ~(n + 2 + j <= n + 2)
            /\ n + 2 + j - (n + 2) = j
        BY <1>6, <1>7
      <3>2. z[n + 2 + j] = y[j]
        BY <2>1, <3>1 DEF z
      <3> QED
        BY <1>5, <3>2 DEF len
    <2>3. \A i \in 1 .. n + 2 : i \in 1 .. n + 2 + len /\ i <= n + 2
      BY <1>6, <1>7
    <2>4. \A i \in 1 .. n + 2 : z[i] = t[i]
      BY <2>1, <2>3 DEF z
    <2>5. n + 1 \in 1 .. n + 2 /\ n + 2 \in 1 .. n + 2 /\ 1 \in 1 .. n + 2
      BY <1>6
    <2> QED
      BY <1>9, <2>1, <2>2, <2>4, <2>5 DEF z
  <1>11. Tokens(shape, m) = t \o y
    BY <1>1 DEF t, bl
  <1> DEFINE z == t \o y
  <1> HIDE DEF z
  <1>12. 0 + 1 = 1 /\ 0 + n + 1 = n + 1 /\ 0 + n + 2 = n + 2 /\ \A j \in 1 .. len : 0 + n + 2 + j = n + 2 + j
    BY <1>6, <1>7
  <1>13. PlacedAt(z, 0, shape, m)
    <2>1. /\ shape.blank => z[0 + 1] = Token("blank", m)
          /\ z[0 + n + 1] = LineToken(shape, m)
          /\ z[0 + n + 2] = HeadToken(shape, m)
          /\ \A j \in 1 .. len : z[0 + n + 2 + j] = Token("byte", m)
      <3>1. ASSUME NEW j \in 1 .. len
            PROVE  z[0 + n + 2 + j] = Token("byte", m)
        BY <1>10, <1>12 DEF z
      <3> QED
        <4>1. z[0 + 1] = z[1] /\ z[0 + n + 1] = z[n + 1] /\ z[0 + n + 2] = z[n + 2]
          BY <1>6
        <4> QED
          BY <1>10, <3>1, <4>1 DEF z
    <2> QED
      BY <1>6, <2>1 DEF PlacedAt, len
  <1> QED
    BY <1>6, <1>10, <1>11, <1>13 DEF z, len

\* The least of a set of numbers, by which what holds of every number is shown below.
LEMMA LeastNumber ==
    ASSUME NEW T \in SUBSET Nat, T # {}
    PROVE  \E x \in T : \A y \in T : ~(y < x)
  <1>1. PICK x \in T : \A y \in T : ~(<<y, x>> \in OpToRel(<, Nat))
    BY NatLessThanWellFounded, WFMin
  <1> QED
    BY <1>1 DEF OpToRel

\* What follows position a of F and position b of G is the same message.
LEMMA PlacedKeep ==
    ASSUME NEW F, NEW G, NEW a \in Nat, NEW b \in Nat, NEW shape \in Shapes, NEW m \in Nat,
           PlacedAt(F, a, shape, m),
           \A i \in 1 .. Blanks(shape) + 2 + BodyLen(shape) : G[b + i] = F[a + i]
    PROVE  PlacedAt(G, b, shape, m)
  <1>1. PICK n \in 0 .. 1 : n = Blanks(shape) /\ (shape.blank => n = 1)
    BY ShapeFacts
  <1> DEFINE len == BodyLen(shape)
  <1>2. len \in Nat
    BY ShapeFacts
  <1> HIDE DEF len
  <1>3. /\ shape.blank => F[a + 1] = Token("blank", m)
        /\ F[a + n + 1] = LineToken(shape, m)
        /\ F[a + n + 2] = HeadToken(shape, m)
        /\ \A j \in 1 .. len : F[a + n + 2 + j] = Token("byte", m)
    BY <1>1 DEF PlacedAt, len
  <1>4. \A i \in 1 .. n + 2 + len : G[b + i] = F[a + i]
    BY <1>1 DEF len
  <1>5. G[b + 1] = F[a + 1]
    BY <1>1, <1>2, <1>4
  <1>6. G[b + n + 1] = F[a + n + 1]
    <2>1. n + 1 \in 1 .. n + 2 + len /\ b + n + 1 = b + (n + 1) /\ a + n + 1 = a + (n + 1)
      BY <1>1, <1>2
    <2> QED
      BY <1>4, <2>1
  <1>7. G[b + n + 2] = F[a + n + 2]
    <2>1. n + 2 \in 1 .. n + 2 + len /\ b + n + 2 = b + (n + 2) /\ a + n + 2 = a + (n + 2)
      BY <1>1, <1>2
    <2> QED
      BY <1>4, <2>1
  <1>8. ASSUME NEW j \in 1 .. len
        PROVE  G[b + n + 2 + j] = F[a + n + 2 + j]
    <2>1. /\ n + 2 + j \in 1 .. n + 2 + len /\ b + n + 2 + j = b + (n + 2 + j)
          /\ a + n + 2 + j = a + (n + 2 + j)
      BY <1>1, <1>2
    <2> QED
      BY <1>4, <2>1
  <1>9. /\ shape.blank => G[b + 1] = Token("blank", m)
        /\ G[b + n + 1] = LineToken(shape, m)
        /\ G[b + n + 2] = HeadToken(shape, m)
        /\ \A j \in 1 .. len : G[b + n + 2 + j] = Token("byte", m)
    BY <1>3, <1>5, <1>6, <1>7, <1>8
  <1> QED
    BY <1>1, <1>9 DEF PlacedAt, len

\* One more message at the end of the stream.
LEMMA LaidNext ==
    ASSUME NEW n \in Nat, NEW N \in Nat, n + 1 <= N, NEW sc \in [1 .. N -> Shapes],
           NEW F, NEW start, Laid(F, sc, start, n)
    PROVE  \E last : Laid(F \o Tokens(sc[n + 1], n + 1), sc, last, n + 1)
  <1> DEFINE T == Tokens(sc[n + 1], n + 1)
             G == F \o T
             end == Len(F) + Blanks(sc[n + 1]) + 2 + BodyLen(sc[n + 1])
             last == [k \in 1 .. n + 2 |-> IF k = n + 2 THEN end ELSE start[k]]
  <1>1. sc[n + 1] \in Shapes /\ n + 1 \in Nat
    OBVIOUS
  <1>2. /\ F \in Seq(TokenSet) /\ Len(F) \in Nat
        /\ start \in [1 .. n + 1 -> Nat] /\ start[1] = 0 /\ start[n + 1] = Len(F)
    BY DEF Laid
  <1>3. /\ T \in Seq(TokenSet) /\ Len(T) = Blanks(sc[n + 1]) + 2 + BodyLen(sc[n + 1])
        /\ PlacedAt(T, 0, sc[n + 1], n + 1)
    BY <1>1, TokensPlaced
  <1>4. Blanks(sc[n + 1]) \in Nat /\ BodyLen(sc[n + 1]) \in Nat
    BY <1>1, ShapeFacts
  <1> HIDE DEF T
  <1>5. /\ G \in Seq(TokenSet) /\ Len(G) = end
        /\ \A i \in 1 .. end : G[i] = IF i <= Len(F) THEN F[i] ELSE T[i - Len(F)]
    <2> DEFINE x == Blanks(sc[n + 1])
               y == BodyLen(sc[n + 1])
    <2>1. Len(F) + Len(T) = end
      <3>1. Len(F) \in Nat /\ x \in Nat /\ y \in Nat /\ Len(T) = x + 2 + y /\ end = Len(F) + x + 2 + y
        BY <1>2, <1>3, <1>4
      <3> HIDE DEF x, y, end
      <3> QED
        BY <3>1
    <2> QED
      BY <1>2, <1>3, <2>1, TokenConcat
  <1>6. end \in Nat /\ Len(F) <= end
    BY <1>2, <1>4
  <1> HIDE DEF G, end
  <1>7. /\ last \in [1 .. n + 2 -> Nat] /\ last[1] = 0 /\ last[n + 2] = end
        /\ \A k \in 1 .. n + 1 : last[k] = start[k]
    BY <1>2, <1>6
  <1> HIDE DEF last
  <1>8. ASSUME NEW k \in 1 .. n
        PROVE  /\ last[k + 1] = last[k] + Blanks(sc[k]) + 2 + BodyLen(sc[k])
               /\ last[k + 1] <= end
               /\ PlacedAt(G, last[k], sc[k], k)
    <2>1. /\ start[k + 1] = start[k] + Blanks(sc[k]) + 2 + BodyLen(sc[k])
          /\ start[k + 1] <= Len(F)
          /\ PlacedAt(F, start[k], sc[k], k)
      BY DEF Laid
    <2>2. last[k + 1] = start[k + 1] /\ last[k] = start[k] /\ start[k] \in Nat
      BY <1>2, <1>7
    <2>3. sc[k] \in Shapes /\ k \in Nat
      OBVIOUS
    <2>4. Blanks(sc[k]) \in Nat /\ BodyLen(sc[k]) \in Nat
      BY <2>3, ShapeFacts
    <2>5. ASSUME NEW i \in 1 .. Blanks(sc[k]) + 2 + BodyLen(sc[k])
          PROVE  G[start[k] + i] = F[start[k] + i]
      <3>1. start[k] + i <= start[k + 1] /\ 1 <= start[k] + i /\ start[k] + i \in Nat
        <4> DEFINE x == Blanks(sc[k])
                   y == BodyLen(sc[k])
                   a == start[k]
                   b == start[k + 1]
        <4>1. a \in Nat /\ x \in Nat /\ y \in Nat /\ b = a + x + 2 + y /\ i \in 1 .. x + 2 + y
          BY <2>1, <2>2, <2>4
        <4> HIDE DEF a, b, x, y
        <4>2. a + i <= b /\ 1 <= a + i /\ a + i \in Nat
          BY <4>1
        <4> QED
          BY <4>2 DEF a, b
      <3>2. start[k + 1] \in Nat
        BY <1>2
      <3>3. start[k] + i \in 1 .. end /\ start[k] + i <= Len(F)
        BY <1>2, <1>6, <2>1, <3>1, <3>2
      <3> QED
        BY <1>5, <3>3
    <2>6. PlacedAt(G, start[k], sc[k], k)
      BY <2>1, <2>2, <2>3, <2>5, PlacedKeep
    <2>7. start[k + 1] \in Nat
      BY <1>2
    <2> QED
      BY <1>2, <1>6, <2>1, <2>2, <2>6, <2>7
  <1>9. /\ last[n + 2] = last[n + 1] + Blanks(sc[n + 1]) + 2 + BodyLen(sc[n + 1])
        /\ PlacedAt(G, last[n + 1], sc[n + 1], n + 1)
    <2>1. last[n + 1] = Len(F)
      BY <1>2, <1>7
    <2>2. ASSUME NEW i \in 1 .. Blanks(sc[n + 1]) + 2 + BodyLen(sc[n + 1])
          PROVE  G[Len(F) + i] = T[0 + i]
      <3>1. /\ Len(F) + i \in 1 .. end /\ ~(Len(F) + i <= Len(F))
            /\ Len(F) + i - Len(F) = 0 + i
        BY <1>2, <1>4 DEF end
      <3> QED
        BY <1>5, <3>1
    <2>3. PlacedAt(G, Len(F), sc[n + 1], n + 1)
      <3>1. PICK z \in Nat : z = 0
        OBVIOUS
      <3> DEFINE shape == sc[n + 1]
                 a == Len(F)
                 k == n + 1
      <3>2. \A i \in 1 .. Blanks(shape) + 2 + BodyLen(shape) : G[a + i] = T[z + i]
        BY <2>2, <3>1
      <3>3. shape \in Shapes /\ a \in Nat /\ k \in Nat /\ PlacedAt(T, z, shape, k)
        BY <1>1, <1>2, <1>3, <3>1
      <3> HIDE DEF shape, a, k
      <3>4. PlacedAt(G, a, shape, k)
        BY <3>2, <3>3, PlacedKeep
      <3> QED
        BY <3>4 DEF shape, a, k
    <2> QED
      BY <1>7, <2>1, <2>3 DEF end
  <1>10. Laid(G, sc, last, n + 1)
    <2>1. n + 1 + 1 = n + 2
      OBVIOUS
    <2>2. ASSUME NEW k \in 1 .. n + 1
          PROVE  /\ last[k + 1] = last[k] + Blanks(sc[k]) + 2 + BodyLen(sc[k])
                 /\ last[k + 1] <= end
                 /\ PlacedAt(G, last[k], sc[k], k)
      <3>1. CASE k = n + 1
        BY <1>6, <1>7, <1>9, <2>1, <3>1
      <3>2. CASE k \in 1 .. n
        BY <1>8, <3>2
      <3> QED
        BY <3>1, <3>2
    <2> QED
      BY <1>5, <1>7, <2>1, <2>2 DEF Laid
  <1> QED
    BY <1>10 DEF G, T

\* The stream of no message.
LEMMA LaidNone ==
    ASSUME NEW sc
    PROVE  Laid(<<>>, sc, [k \in 1 .. 1 |-> 0], 0)
  BY DEF Laid

\* What FlattenSeq computes: f[i] is the first i sequences, one after another.
Flattens(f, seqs, n) == f = [i \in 1 .. n |-> IF i = 1 THEN seqs[i] ELSE f[i - 1] \o seqs[i]]

\* There is such an f for every number of sequences.
LEMMA FlattenComputed ==
    ASSUME NEW seqs, NEW n \in Nat
    PROVE  \E f : Flattens(f, seqs, n)
  <1> DEFINE T == {m \in Nat : ~ \E f : Flattens(f, seqs, m)}
  <1>1. SUFFICES ASSUME T # {} PROVE FALSE
    OBVIOUS
  <1>2. PICK m \in T : \A y \in T : ~(y < m)
    <2>1. T \in SUBSET Nat
      OBVIOUS
    <2> HIDE DEF T
    <2> QED
      BY <1>1, <2>1, LeastNumber
  <1>3. m # 0
    <2>1. Flattens([i \in 1 .. 0 |-> <<>>], seqs, 0)
      BY DEF Flattens
    <2> QED
      BY <2>1
  <1>4. PICK f : Flattens(f, seqs, m - 1)
    BY <1>2, <1>3
  <1> DEFINE g == [i \in 1 .. m |-> IF i = 1 THEN seqs[i] ELSE f[i - 1] \o seqs[i]]
  <1>5. \A i \in 1 .. m - 1 : g[i] = f[i]
    <2>1. \A i \in 1 .. m - 1 : f[i] = IF i = 1 THEN seqs[i] ELSE f[i - 1] \o seqs[i]
      BY <1>4 DEF Flattens
    <2> QED
      BY <2>1
  <1>6. \A i \in 1 .. m : i # 1 => g[i - 1] = f[i - 1]
    <2>1. \A i \in 1 .. m : i # 1 => i - 1 \in 1 .. m - 1
      OBVIOUS
    <2> HIDE DEF g
    <2> QED
      BY <1>5, <2>1
  <1>7. Flattens(g, seqs, m)
    <2>1. \A i \in 1 .. m : (IF i = 1 THEN seqs[i] ELSE g[i - 1] \o seqs[i])
                            = (IF i = 1 THEN seqs[i] ELSE f[i - 1] \o seqs[i])
      <3> HIDE DEF g
      <3> QED
        BY <1>6
    <2> QED
      BY <2>1 DEF Flattens
  <1> QED
    BY <1>7

\* FlattenSeq is the last of what f computes.
LEMMA FlattenIs ==
    ASSUME NEW n \in Nat, n > 0, NEW seqs, seqs \in Seq(Seq(TokenSet)), Len(seqs) = n
    PROVE  \E f : Flattens(f, seqs, n) /\ FlattenSeq(seqs) = f[n]
  <1> DEFINE F == CHOOSE f : Flattens(f, seqs, n)
  <1>1. Flattens(F, seqs, n)
    BY FlattenComputed
  <1>2. FlattenSeq(seqs) = F[n]
    BY DEF FlattenSeq, Flattens
  <1> QED
    BY <1>1, <1>2

\* The stream of all messages.
Stream(sc) == FlattenSeq([m \in DOMAIN sc |-> Tokens(sc[m], m)])

\* The messages of a script follow one another in its stream.
LEMMA StreamLaid ==
    ASSUME NEW N \in Nat, N > 0, NEW sc \in [1 .. N -> Shapes]
    PROVE  \E start : Laid(Stream(sc), sc, start, N)
  <1> DEFINE seqs == [m \in 1 .. N |-> Tokens(sc[m], m)]
  <1>1. seqs \in Seq(Seq(TokenSet)) /\ Len(seqs) = N
    BY TokensPlaced
  <1>2. Stream(sc) = FlattenSeq(seqs)
    BY DEF Stream
  <1>3. \A m \in 1 .. N : seqs[m] = Tokens(sc[m], m)
    OBVIOUS
  <1> HIDE DEF seqs
  <1>4. PICK f : Flattens(f, seqs, N) /\ FlattenSeq(seqs) = f[N]
    BY <1>1, FlattenIs
  <1>5. \A i \in 1 .. N : f[i] = IF i = 1 THEN seqs[i] ELSE f[i - 1] \o seqs[i]
    BY <1>4 DEF Flattens
  <1> DEFINE Bad == {m \in Nat : m \in 1 .. N /\ ~ \E start : Laid(f[m], sc, start, m)}
  <1>6. SUFFICES ASSUME Bad # {} PROVE FALSE
    BY <1>2, <1>4
  <1>7. PICK m \in Bad : \A y \in Bad : ~(y < m)
    <2>1. Bad \in SUBSET Nat
      OBVIOUS
    <2> HIDE DEF Bad
    <2> QED
      BY <1>6, <2>1, LeastNumber
  <1>8. CASE m = 1
    <2> DEFINE none == [k \in 1 .. 1 |-> 0]
    <2>1. Laid(<<>>, sc, none, 0)
      BY LaidNone
    <2> HIDE DEF none, Bad
    <2>2. \E last : Laid(<<>> \o Tokens(sc[0 + 1], 0 + 1), sc, last, 0 + 1)
      <3>1. 0 \in Nat /\ 0 + 1 <= N
        OBVIOUS
      <3> QED
        BY <2>1, <3>1, LaidNext, Zenon
    <2>3. sc[1] \in Shapes /\ Tokens(sc[1], 1) \in Seq(TokenSet)
      BY TokensPlaced
    <2>4. <<>> \o Tokens(sc[1], 1) = Tokens(sc[1], 1) /\ 0 + 1 = 1
      BY <2>3
    <2>5. f[1] = Tokens(sc[1], 1)
      BY <1>3, <1>5
    <2>6. \E start : Laid(f[1], sc, start, 1)
      BY <2>2, <2>4, <2>5
    <2> QED
      BY <1>7, <1>8, <2>6 DEF Bad
  <1>9. CASE m # 1
    <2>1. m - 1 \in Nat /\ m - 1 \in 1 .. N /\ m - 1 < m /\ m - 1 + 1 = m /\ m <= N
      BY <1>9
    <2>2. PICK start : Laid(f[m - 1], sc, start, m - 1)
      BY <1>7, <2>1
    <2>3. \E last : Laid(f[m - 1] \o Tokens(sc[m - 1 + 1], m - 1 + 1), sc, last, m - 1 + 1)
      <3> HIDE DEF Bad
      <3> QED
        BY <2>1, <2>2, LaidNext
    <2>4. f[m] = f[m - 1] \o Tokens(sc[m], m)
      BY <1>3, <1>5, <1>9
    <2> QED
      BY <2>1, <2>3, <2>4
  <1> QED
    BY <1>8, <1>9

-----------------------------------------------------------------------------
(* A piece of the stream                                                    *)

\* t is token u of the stream; of a line, bytes may have been taken.
Like(t, u) ==
    /\ t.kind = u.kind /\ t.of = u.of /\ t.bare = u.bare /\ t.length = u.length
    /\ t.kind = "byte" => t = u

\* s is what follows position c of the stream.
Aligned(F, c, s) ==
    /\ s \in Seq(TokenSet)
    /\ c \in Nat /\ c + Len(s) <= Len(F)
    /\ \A i \in 1 .. Len(s) : Like(s[i], F[c + i])

\* A piece of a piece.
LEMMA AlignedSub ==
    ASSUME NEW F \in Seq(TokenSet), NEW c, NEW s, Aligned(F, c, s),
           NEW d \in 0 .. Len(s), NEW e \in d .. Len(s)
    PROVE  /\ Aligned(F, c + d, SubSeq(s, d + 1, e))
           /\ Len(SubSeq(s, d + 1, e)) = e - d
           /\ \A i \in 1 .. e - d : SubSeq(s, d + 1, e)[i] = s[d + i]
  <1>1. s \in Seq(TokenSet) /\ c \in Nat /\ c + Len(s) <= Len(F) /\ Len(s) \in Nat /\ Len(F) \in Nat
    BY DEF Aligned
  <1>2. d \in Nat /\ e \in Nat /\ d + 1 \in Int /\ e \in Int
    BY <1>1
  <1>3. \A i \in d + 1 .. e : s[i] \in TokenSet
    BY <1>1, <1>2, ElementOfSeq
  <1> DEFINE z == SubSeq(s, d + 1, e)
  <1>4. /\ z \in Seq(TokenSet)
        /\ Len(z) = IF d + 1 <= e THEN e - (d + 1) + 1 ELSE 0
        /\ \A i \in 1 .. e - (d + 1) + 1 : z[i] = s[d + 1 + i - 1]
    BY <1>2, <1>3, SubSeqProperties, Z3
  <1> HIDE DEF z
  <1>5. Len(z) = e - d
    BY <1>2, <1>4
  <1>6. ASSUME NEW i \in 1 .. e - d
        PROVE  z[i] = s[d + i] /\ Like(z[i], F[c + d + i])
    <2>1. i \in 1 .. e - (d + 1) + 1 /\ d + 1 + i - 1 = d + i /\ d + i \in 1 .. Len(s)
          /\ c + (d + i) = c + d + i
      BY <1>1, <1>2
    <2>2. z[i] = s[d + i]
      BY <1>4, <2>1
    <2>3. Like(s[d + i], F[c + (d + i)])
      BY <2>1 DEF Aligned
    <2> QED
      BY <2>1, <2>2, <2>3
  <1>7. c + d \in Nat /\ c + d + (e - d) <= Len(F)
    BY <1>1, <1>2
  <1> QED
    BY <1>4, <1>5, <1>6, <1>7 DEF Aligned, z

\* One piece after another.
LEMMA AlignedConcat ==
    ASSUME NEW F \in Seq(TokenSet), NEW c, NEW s, Aligned(F, c, s),
           NEW t, Aligned(F, c + Len(s), t)
    PROVE  Aligned(F, c, s \o t) /\ Len(s \o t) = Len(s) + Len(t)
  <1>1. /\ s \in Seq(TokenSet) /\ c \in Nat /\ Len(s) \in Nat /\ Len(F) \in Nat
        /\ t \in Seq(TokenSet) /\ Len(t) \in Nat
        /\ c + Len(s) + Len(t) <= Len(F)
    BY DEF Aligned
  <1> DEFINE z == s \o t
  <1>2. /\ z \in Seq(TokenSet) /\ Len(z) = Len(s) + Len(t)
        /\ \A i \in 1 .. Len(s) + Len(t) : z[i] = IF i <= Len(s) THEN s[i] ELSE t[i - Len(s)]
    BY <1>1, TokenConcat
  <1> HIDE DEF z
  <1>3. ASSUME NEW i \in 1 .. Len(s) + Len(t)
        PROVE  Like(z[i], F[c + i])
    <2>1. CASE i <= Len(s)
      <3>1. i \in 1 .. Len(s)
        BY <1>1, <2>1
      <3>2. Like(s[i], F[c + i])
        BY <3>1 DEF Aligned
      <3> QED
        BY <1>2, <2>1, <3>2
    <2>2. CASE ~(i <= Len(s))
      <3>1. i - Len(s) \in 1 .. Len(t) /\ c + Len(s) + (i - Len(s)) = c + i
        BY <1>1, <2>2
      <3>2. Like(t[i - Len(s)], F[c + Len(s) + (i - Len(s))])
        BY <3>1 DEF Aligned
      <3> QED
        BY <1>2, <2>2, <3>1, <3>2
    <2> QED
      BY <2>1, <2>2
  <1> QED
    BY <1>1, <1>2, <1>3 DEF Aligned, z

\* A piece without its first token.
LEMMA AlignedTail ==
    ASSUME NEW F \in Seq(TokenSet), NEW c, NEW s, Aligned(F, c, s), s # <<>>
    PROVE  /\ Aligned(F, c + 1, Tail(s)) /\ Len(Tail(s)) = Len(s) - 1 /\ Len(s) > 0
           /\ Tail(s) = SubSeq(s, 2, Len(s))
  <1>1. s \in Seq(TokenSet)
    BY DEF Aligned
  <1>2. Len(s) \in Nat /\ Len(s) # 0
    BY <1>1
  <1>3. Tail(s) = SubSeq(s, 2, Len(s))
    BY <1>1, TailIsSubSeq, Zenon
  <1>4. PICK d \in 0 .. Len(s) : d = 1
    BY <1>2
  <1>5. Len(s) \in d .. Len(s) /\ d + 1 = 2
    BY <1>2, <1>4
  <1>6. Aligned(F, c + d, SubSeq(s, d + 1, Len(s))) /\ Len(SubSeq(s, d + 1, Len(s))) = Len(s) - d
    <2> DEFINE e == Len(s)
    <2>1. d \in 0 .. Len(s) /\ e \in d .. Len(s)
      BY <1>4, <1>5
    <2> HIDE DEF e
    <2>2. Aligned(F, c + d, SubSeq(s, d + 1, e)) /\ Len(SubSeq(s, d + 1, e)) = e - d
      BY <2>1, AlignedSub
    <2> QED
      BY <2>2 DEF e
  <1>7. c + d = c + 1 /\ SubSeq(s, d + 1, Len(s)) = Tail(s) /\ Len(s) - d = Len(s) - 1
    BY <1>3, <1>4, <1>5
  <1>8. Aligned(F, c + 1, Tail(s)) /\ Len(Tail(s)) = Len(s) - 1
    BY <1>6, <1>7
  <1>9. Len(s) > 0
    BY <1>2
  <1> QED
    BY <1>3, <1>8, <1>9

\* A piece whose first line was cut.
LEMMA AlignedCut ==
    ASSUME NEW F \in Seq(TokenSet), NEW c, NEW s, Aligned(F, c, s), s # <<>>, s[1].kind # "byte"
    PROVE  Aligned(F, c, <<[s[1] EXCEPT !.cut = TRUE]>> \o Tail(s))
  <1>1. s \in Seq(TokenSet) /\ c \in Nat /\ c + Len(s) <= Len(F) /\ Len(s) \in Nat /\ Len(F) \in Nat
    BY DEF Aligned
  <1>2. Aligned(F, c + 1, Tail(s)) /\ Len(Tail(s)) = Len(s) - 1 /\ Len(s) > 0
    BY AlignedTail
  <1> DEFINE t == [s[1] EXCEPT !.cut = TRUE]
  <1>3. s[1] \in TokenSet /\ 1 \in 1 .. Len(s)
    BY <1>1, <1>2
  <1>4. t \in TokenSet /\ t.kind = s[1].kind /\ t.of = s[1].of /\ t.bare = s[1].bare /\ t.length = s[1].length
    BY <1>3, TokenCut
  <1> HIDE DEF t
  <1>5. Like(s[1], F[c + 1])
    BY <1>3 DEF Aligned
  <1>6. Like(t, F[c + 1])
    BY <1>4, <1>5 DEF Like
  <1>7. <<t>> \in Seq(TokenSet) /\ Len(<<t>>) = 1 /\ <<t>>[1] = t
    BY <1>4
  <1>8. Aligned(F, c, <<t>>)
    <2>1. \A i \in 1 .. 1 : Like(<<t>>[i], F[c + i])
      BY <1>6, <1>7
    <2>2. c + 1 <= Len(F)
      BY <1>1, <1>2
    <2> QED
      BY <1>1, <1>7, <2>1, <2>2 DEF Aligned
  <1>9. Aligned(F, c + Len(<<t>>), Tail(s))
    BY <1>2, <1>7
  <1>10. Aligned(F, c, <<t>> \o Tail(s))
    BY <1>8, <1>9, AlignedConcat
  <1> QED
    BY <1>10 DEF t

\* Nothing is a piece everywhere.
LEMMA AlignedEmpty ==
    ASSUME NEW F \in Seq(TokenSet), NEW c \in Nat, c <= Len(F)
    PROVE  Aligned(F, c, <<>>)
  BY DEF Aligned

-----------------------------------------------------------------------------
(* How many bytes there are                                                 *)

Lines(s) == {i \in DOMAIN s : s[i].kind # "byte"}

\* The lines of a buffer can be counted, and so can its bytes.
LEMMA LinesFinite ==
    ASSUME NEW s \in Seq(TokenSet)
    PROVE  /\ IsFiniteSet(Lines(s)) /\ Cardinality(Lines(s)) \in Nat
           /\ Bytes(s) = Len(s) + Cardinality(Lines(s))
           /\ Bytes(s) \in Nat
  <1>1. Lines(s) \in SUBSET (1 .. Len(s)) /\ 1 \in Int /\ Len(s) \in Int /\ Len(s) \in Nat
    BY DEF Lines
  <1>2. IsFiniteSet(1 .. Len(s))
    BY <1>1, FS_Interval
  <1>3. IsFiniteSet(Lines(s))
    BY <1>1, <1>2, FS_Subset
  <1>4. Cardinality(Lines(s)) \in Nat
    BY <1>3, FS_CardinalityType
  <1> QED
    BY <1>1, <1>3, <1>4 DEF Bytes, Lines

\* A piece that is as long as a body and has as many bytes: the body is there.
LEMMA BytesOfBody ==
    ASSUME NEW s \in Seq(TokenSet), NEW n \in Nat, Bytes(s) >= n,
           \A i \in 1 .. Len(s) : i <= n => s[i].kind = "byte"
    PROVE  Len(s) >= n
  <1>1. Len(s) \in Nat
    OBVIOUS
  <1>2. CASE Len(s) < n
    <2>1. Lines(s) = {}
      BY <1>1, <1>2 DEF Lines
    <2>2. Cardinality(Lines(s)) = 0
      BY <2>1, FS_EmptySet
    <2> QED
      BY <1>1, <1>2, <2>2, LinesFinite
  <1> QED
    BY <1>1, <1>2

\* More that arrives counts on its own.
LEMMA BytesConcat ==
    ASSUME NEW s \in Seq(TokenSet), NEW t \in Seq(TokenSet)
    PROVE  Bytes(s \o t) = Bytes(s) + Bytes(t)
  <1> DEFINE n == Len(s)
             z == s \o t
             More == {i \in n + 1 .. n + Len(t) : t[i - n].kind # "byte"}
  <1>1. n \in Nat /\ Len(t) \in Nat /\ DOMAIN s = 1 .. n /\ DOMAIN t = 1 .. Len(t)
    OBVIOUS
  <1>2. /\ z \in Seq(TokenSet) /\ Len(z) = n + Len(t)
        /\ \A i \in 1 .. n + Len(t) : z[i] = IF i <= n THEN s[i] ELSE t[i - n]
    BY TokenConcat
  <1> HIDE DEF n, z
  <1>3. DOMAIN z = 1 .. n + Len(t)
    BY <1>2
  <1>4. Lines(z) = Lines(s) \union More
    BY <1>1, <1>2, <1>3 DEF Lines
  <1>5. Lines(s) \intersect More = {}
    BY <1>1 DEF Lines
  <1> DEFINE f == [i \in Lines(t) |-> i + n]
  <1>6. f \in Bijection(Lines(t), More)
    <2>1. f \in [Lines(t) -> More]
      <3> SUFFICES ASSUME NEW i \in Lines(t) PROVE i + n \in More
        OBVIOUS
      <3>1. i \in 1 .. Len(t) /\ t[i].kind # "byte"
        BY <1>1 DEF Lines
      <3>2. i + n - n = i /\ i + n \in n + 1 .. n + Len(t)
        BY <1>1, <3>1
      <3>3. t[i + n - n].kind # "byte"
        BY <3>1, <3>2
      <3> DEFINE y == i + n
      <3>4. y \in n + 1 .. n + Len(t) /\ t[y - n].kind # "byte"
        BY <1>1, <3>1, <3>2, <3>3
      <3> HIDE DEF y
      <3>5. y \in More
        BY <3>4
      <3> QED
        BY <3>5 DEF y
    <2>2. \A a, b \in Lines(t) : f[a] = f[b] => a = b
      BY <1>1 DEF Lines
    <2>3. ASSUME NEW y \in More
          PROVE  \E i \in Lines(t) : f[i] = y
      <3>1. y - n \in 1 .. Len(t) /\ t[y - n].kind # "byte" /\ y - n + n = y
        BY <1>1
      <3>2. y - n \in Lines(t)
        BY <1>1, <3>1 DEF Lines
      <3> QED
        BY <3>1, <3>2
    <2> HIDE DEF f, More
    <2> QED
      BY <2>1, <2>2, <2>3 DEF Bijection, Injection, Surjection, IsInjective
  <1> HIDE DEF f, More
  <1>7. ExistsBijection(Lines(t), More)
    BY <1>6 DEF ExistsBijection
  <1>8. IsFiniteSet(Lines(t)) /\ IsFiniteSet(Lines(s))
    BY LinesFinite
  <1>9. IsFiniteSet(More) /\ Cardinality(More) = Cardinality(Lines(t))
    BY <1>7, <1>8, FS_Bijection
  <1>10. Cardinality(Lines(z)) = Cardinality(Lines(s)) + Cardinality(More) - Cardinality(Lines(s) \intersect More)
    BY <1>4, <1>8, <1>9, FS_Union
  <1>11. Cardinality(Lines(s) \intersect More) = 0
    BY <1>5, FS_EmptySet
  <1>12. /\ Bytes(s) = n + Cardinality(Lines(s)) /\ Bytes(t) = Len(t) + Cardinality(Lines(t))
         /\ Bytes(z) = n + Len(t) + Cardinality(Lines(z))
         /\ Cardinality(Lines(s)) \in Nat /\ Cardinality(Lines(t)) \in Nat
    BY <1>2, LinesFinite DEF n
  <1> QED
    BY <1>1, <1>9, <1>10, <1>11, <1>12 DEF z

-----------------------------------------------------------------------------
(* Where the reader is in the stream                                        *)

\* The position of the first line and of the head of message k.
LineOf(sc, start, k) == start[k] + Blanks(sc[k]) + 1
HeadOf(sc, start, k) == start[k] + Blanks(sc[k]) + 2

\* What the stream has of message k, whose first line is at L and whose head is at H.
Here(F, sc, start, k, L, H) ==
    /\ F \in Seq(TokenSet) /\ start[k] \in Nat /\ start[k + 1] \in Nat
    /\ L \in Nat /\ H \in Nat /\ H = L + 1
    /\ start[k] < L /\ L <= start[k] + 2
    /\ start[k + 1] = H + BodyLen(sc[k]) /\ H <= start[k + 1] /\ start[k + 1] <= Len(F)
    /\ F[L].kind = "line" /\ F[L].of = k
    /\ F[H].kind = "head" /\ F[H].of = k
    /\ F[H].length = sc[k].length /\ F[H].bare = (sc[k].length = Bare)
    /\ \A p \in start[k] + 1 .. L - 1 : F[p].kind = "blank" /\ F[p].of = k
    /\ \A p \in H + 1 .. start[k + 1] : F[p] = Token("byte", k)

\* What the layout of the stream says of message k.
LEMMA Positions ==
    ASSUME NEW N \in Nat, NEW sc \in [1 .. N -> Shapes], NEW F, NEW start, Laid(F, sc, start, N),
           NEW k \in 1 .. N
    PROVE  Here(F, sc, start, k, LineOf(sc, start, k), HeadOf(sc, start, k))
  <1>1. sc[k] \in Shapes /\ k \in Nat
    OBVIOUS
  <1>2. PICK n \in 0 .. 1 : n = Blanks(sc[k]) /\ (sc[k].blank <=> n = 1)
    BY <1>1, ShapeFacts
  <1>3. PICK len \in Nat : len = BodyLen(sc[k])
    BY <1>1, ShapeFacts
  <1>4. /\ F \in Seq(TokenSet) /\ start[k] \in Nat /\ start[k + 1] \in Nat
        /\ start[k + 1] = start[k] + Blanks(sc[k]) + 2 + BodyLen(sc[k])
        /\ start[k + 1] <= Len(F)
        /\ PlacedAt(F, start[k], sc[k], k)
    BY DEF Laid
  <1> DEFINE a == start[k]
             L == a + n + 1
             H == a + n + 2
  <1>5. /\ a \in Nat /\ L \in Nat /\ H \in Nat
        /\ L = LineOf(sc, start, k) /\ H = HeadOf(sc, start, k) /\ start[k + 1] = H + len
        /\ a < L /\ L <= a + 2 /\ H = L + 1 /\ H <= start[k + 1]
        /\ L > a + 1 => n = 1 /\ L = a + 2
    <2>1. n \in 0 .. 1
      BY <1>2
    <2>2. a \in Nat
      BY <1>4
    <2>3. L = LineOf(sc, start, k) /\ H = HeadOf(sc, start, k) /\ start[k + 1] = H + len
      BY <1>2, <1>3, <1>4 DEF LineOf, HeadOf
    <2> HIDE DEF a
    <2>4. L \in Nat /\ H \in Nat /\ a < L /\ L <= a + 2 /\ H = L + 1 /\ (L > a + 1 => n = 1 /\ L = a + 2)
      BY <2>1, <2>2
    <2>5. H <= start[k + 1]
      <3> HIDE DEF H
      <3> QED
        BY <1>3, <2>3, <2>4
    <2> QED
      BY <2>2, <2>3, <2>4, <2>5
  <1>6. /\ sc[k].blank => F[a + 1] = Token("blank", k)
        /\ F[L] = LineToken(sc[k], k)
        /\ F[H] = HeadToken(sc[k], k)
        /\ \A j \in 1 .. len : F[H + j] = Token("byte", k)
    BY <1>2, <1>3, <1>4, <1>5 DEF PlacedAt
  <1> HIDE DEF a, L, H
  <1>7. ASSUME NEW p \in a + 1 .. L - 1
        PROVE  F[p].kind = "blank" /\ F[p].of = k
    <2>1. a \in Nat /\ L \in Nat /\ (L > a + 1 => n = 1 /\ L = a + 2)
      BY <1>5
    <2>2. n = 1 /\ p = a + 1
      BY <2>1
    <2> QED
      BY <1>1, <1>2, <1>6, <2>2, TokenFacts
  <1>8. ASSUME NEW p \in H + 1 .. start[k + 1]
        PROVE  F[p] = Token("byte", k)
    <2>1. H \in Nat /\ len \in Nat
      BY <1>3, <1>5
    <2>2. p \in H + 1 .. H + len
      BY <1>5
    <2>3. p - H \in 1 .. len /\ H + (p - H) = p
      BY <2>1, <2>2
    <2> QED
      BY <1>6, <2>3
  <1>9. /\ F[L].kind = "line" /\ F[L].of = k
        /\ F[H].kind = "head" /\ F[H].of = k
        /\ F[H].length = sc[k].length /\ F[H].bare = (sc[k].length = Bare)
    BY <1>1, <1>6, TokenFacts
  <1>10. /\ L \in Nat /\ H \in Nat /\ H = L + 1
         /\ a < L /\ L <= a + 2
         /\ start[k + 1] = H + BodyLen(sc[k]) /\ H <= start[k + 1]
    BY <1>3, <1>5
  <1>11. Here(F, sc, start, k, L, H)
    BY <1>4, <1>5, <1>7, <1>8, <1>9, <1>10 DEF a, Here
  <1> QED
    BY <1>5, <1>11

\* async_read_until the gap: the header that ends there is that of the message under way.
LEMMA HeadFound ==
    ASSUME NEW N \in Nat, NEW sc \in [1 .. N -> Shapes], NEW F, NEW start, Laid(F, sc, start, N),
           NEW k \in 1 .. N, NEW H, H = HeadOf(sc, start, k),
           NEW c, NEW s, Aligned(F, c, s), start[k] <= c, c < H, HasGap(s)
    PROVE  /\ HeadAt(s) = H - c /\ H - c \in 1 .. Len(s)
           /\ s[H - c].of = k /\ s[H - c].length = sc[k].length
           /\ s[H - c].bare = (sc[k].length = Bare)
           /\ Aligned(F, H, AfterHead(s)) /\ H + Len(AfterHead(s)) = c + Len(s)
  <1> DEFINE L == LineOf(sc, start, k)
  <1>0. Here(F, sc, start, k, L, H)
    BY Positions
  <1> HIDE DEF L
  <1>1. /\ F \in Seq(TokenSet) /\ start[k] \in Nat /\ start[k + 1] \in Nat
        /\ L \in Nat /\ H \in Nat /\ H = L + 1
        /\ start[k] < L /\ L <= start[k] + 2
        /\ H <= start[k + 1] /\ start[k + 1] <= Len(F)
        /\ F[L].kind = "line"
        /\ F[H].kind = "head" /\ F[H].of = k
        /\ F[H].length = sc[k].length /\ F[H].bare = (sc[k].length = Bare)
        /\ \A p \in start[k] + 1 .. L - 1 : F[p].kind = "blank"
    BY <1>0 DEF Here
  <1>2. /\ start[k] \in Nat /\ L \in Nat /\ H \in Nat /\ H = L + 1
        /\ start[k] < L /\ L <= start[k] + 2 /\ start[k] <= c
    BY <1>1
  <1>3. c \in Nat /\ Len(s) \in Nat
    BY DEF Aligned
  <1>4. s \in Seq(TokenSet) /\ c \in Nat /\ Len(s) \in Nat /\ DOMAIN s = 1 .. Len(s)
    BY DEF Aligned
  <1>5. \A i \in 1 .. Len(s) : Like(s[i], F[c + i])
    BY DEF Aligned
  <1>6. ASSUME NEW i \in 1 .. Len(s), c + i < H
        PROVE  s[i].kind \in {"blank", "line"} /\ (c + i = L => s[i].kind = "line")
    <2>1. CASE c + i # L
      <3>1. c + i < L /\ c + i >= start[k] + 1
        BY <1>2, <1>3, <1>6, <2>1
      <3>2. c + i \in start[k] + 1 .. L - 1
        BY <1>2, <1>3, <3>1
      <3> QED
        BY <1>1, <1>5, <2>1, <3>2 DEF Like
    <2>2. CASE c + i = L
      BY <1>1, <1>5, <2>2 DEF Like
    <2> QED
      BY <2>1, <2>2
  <1>7. H - c <= Len(s)
    <2>1. ASSUME NEW i \in 1 .. Len(s), s[i].kind = "head"
          PROVE  H - c <= Len(s)
      <3>1. ~(c + i < H)
        BY <1>6, <2>1
      <3> QED
        BY <1>2, <1>3, <3>1
    <2>2. ASSUME NEW i \in 1 .. Len(s), i < Len(s), s[i + 1].kind = "blank"
          PROVE  H - c <= Len(s)
      <3>1. i + 1 \in 1 .. Len(s)
        BY <1>3, <2>2
      <3>2. CASE ~(c + (i + 1) < H)
        BY <1>2, <1>3, <3>1, <3>2
      <3>3. CASE c + (i + 1) < H
        <4>1. c + (i + 1) = L
          <5>1. i >= 1
            OBVIOUS
          <5> QED
            BY <1>2, <1>3, <3>3, <5>1
        <4> QED
          BY <1>6, <2>2, <3>1, <3>3, <4>1
      <3> QED
        BY <3>2, <3>3
    <2>3. PICK i \in 1 .. Len(s) :
              \/ s[i].kind = "head"
              \/ i < Len(s) /\ s[i + 1].kind = "blank"
              \/ i < Len(s) /\ s[i + 1].kind = "head"
      BY <1>4 DEF HasGap
    <2>4. i < Len(s) => i + 1 \in 1 .. Len(s)
      BY <1>4
    <2> QED
      BY <2>1, <2>2, <2>3, <2>4
  <1> DEFINE h == H - c
  <1>8. h \in 1 .. Len(s) /\ c + h = H
    BY <1>1, <1>4, <1>7
  <1> HIDE DEF h
  <1>9. Like(s[h], F[H])
    BY <1>5, <1>8
  <1>10. \A j \in 1 .. h - 1 : s[j].kind # "head"
    <2> SUFFICES ASSUME NEW j \in 1 .. h - 1 PROVE s[j].kind # "head"
      OBVIOUS
    <2>1. j \in 1 .. Len(s) /\ c + j < H
      BY <1>1, <1>4, <1>8
    <2> QED
      BY <1>6, <2>1
  <1>11. HeadAt(s) = h
    <2>1. h \in DOMAIN s /\ s[h].kind = "head" /\ \A j \in 1 .. h - 1 : s[j].kind # "head"
      BY <1>1, <1>4, <1>8, <1>9, <1>10 DEF Like
    <2>2. ASSUME NEW i \in DOMAIN s, s[i].kind = "head", \A j \in 1 .. i - 1 : s[j].kind # "head"
          PROVE  i = h
      <3>1. i \in 1 .. Len(s) /\ h \in 1 .. Len(s)
        BY <1>4, <1>8
      <3>2. ~(i < h)
        <4>1. i < h => i \in 1 .. h - 1
          BY <1>4, <3>1
        <4> QED
          BY <2>1, <2>2, <4>1
      <3>3. ~(h < i)
        <4>1. h < i => h \in 1 .. i - 1
          BY <1>4, <3>1
        <4> QED
          BY <2>1, <2>2, <4>1
      <3> QED
        BY <1>4, <3>1, <3>2, <3>3
    <2> QED
      BY <2>1, <2>2 DEF HeadAt
  <1>12. Aligned(F, H, AfterHead(s)) /\ H + Len(AfterHead(s)) = c + Len(s)
    <2>1. h \in 0 .. Len(s)
      BY <1>3, <1>8
    <2> DEFINE e == Len(s)
    <2>2. e \in h .. Len(s) /\ Aligned(F, c, s) /\ F \in Seq(TokenSet)
      BY <1>1, <1>3, <1>8
    <2> HIDE DEF e
    <2>3. Aligned(F, c + h, SubSeq(s, h + 1, e)) /\ Len(SubSeq(s, h + 1, e)) = e - h
      BY <2>1, <2>2, AlignedSub
    <2>4. AfterHead(s) = SubSeq(s, h + 1, e)
      BY <1>11 DEF AfterHead, e
    <2>5. H + (e - h) = c + Len(s)
      BY <1>4, <1>8 DEF e
    <2> QED
      BY <1>8, <2>3, <2>4, <2>5
  <1> QED
    BY <1>1, <1>8, <1>9, <1>11, <1>12 DEF Like, h

\* >> and parse_status_line: either there were blank lines only, or the first line they
\* find is that of the message under way.
LEMMA LineFound ==
    ASSUME NEW N \in Nat, NEW sc \in [1 .. N -> Shapes], NEW F, NEW start, Laid(F, sc, start, N),
           NEW k \in 1 .. N, NEW L, L = LineOf(sc, start, k),
           NEW c, NEW s, Aligned(F, c, s), start[k] <= c, c < L
    PROVE  \/ Skipped(s) = <<>> /\ c + Len(s) < L
           \/ /\ Skipped(s) # <<>> /\ Head(Skipped(s)).of = k
              /\ Aligned(F, L, Tail(Skipped(s))) /\ L + Len(Tail(Skipped(s))) = c + Len(s)
  <1>2. /\ F \in Seq(TokenSet) /\ start[k] \in Nat /\ L \in Nat
        /\ F[L].kind = "line" /\ F[L].of = k
        /\ \A p \in start[k] + 1 .. L - 1 : F[p].kind = "blank"
    <2>1. Here(F, sc, start, k, L, HeadOf(sc, start, k))
      BY Positions
    <2> QED
      BY <2>1 DEF Here
  <1>3. s \in Seq(TokenSet) /\ c \in Nat /\ Len(s) \in Nat /\ DOMAIN s = 1 .. Len(s)
    BY DEF Aligned
  <1>4. \A i \in 1 .. Len(s) : Like(s[i], F[c + i])
    BY DEF Aligned
  <1> DEFINE first == {i \in DOMAIN s : s[i].kind # "blank"}
             d == L - c
  <1>5. d \in Nat /\ d > 0 /\ c + d = L
    BY <1>2, <1>3
  <1> HIDE DEF d
  <1>6. ASSUME NEW i \in 1 .. Len(s), i < d
        PROVE  s[i].kind = "blank"
    <2>1. c + i \in start[k] + 1 .. L - 1
      BY <1>2, <1>3, <1>5, <1>6
    <2> QED
      BY <1>2, <1>4, <2>1 DEF Like
  <1>7. CASE Len(s) < d
    <2>1. first = {}
      BY <1>3, <1>5, <1>6, <1>7
    <2>2. Skipped(s) = <<>>
      BY <2>1 DEF Skipped
    <2> QED
      BY <1>2, <1>3, <1>5, <1>7, <2>2
  <1>8. CASE ~(Len(s) < d)
    <2>1. d \in 1 .. Len(s)
      BY <1>3, <1>5, <1>8
    <2>2. Like(s[d], F[L])
      BY <1>4, <1>5, <2>1
    <2>3. s[d].kind = "line" /\ s[d].of = k
      BY <1>2, <2>2 DEF Like
    <2>4. d \in first /\ \A j \in first : d <= j
      BY <1>3, <1>5, <1>6, <2>1, <2>3
    <2>5. ASSUME NEW i \in first, \A j \in first : i <= j
          PROVE  i = d
      <3>1. i <= d /\ d <= i /\ i \in Nat
        BY <1>3, <2>4, <2>5
      <3> QED
        BY <1>5, <3>1
    <2> HIDE DEF first
    <2>6. (CHOOSE i \in first : \A j \in first : i <= j) = d
      BY <2>4, <2>5
    <2>7. first # {}
      BY <2>4
    <2>8. Skipped(s) = SubSeq(s, d, Len(s))
      BY <2>6, <2>7 DEF Skipped, first
    <2> DEFINE e == Len(s)
    <2>9. d \in 1 .. Len(s) /\ e \in d .. Len(s) /\ e \in Nat
      BY <1>3, <2>1
    <2> HIDE DEF e
    <2>10. /\ Head(SubSeq(s, d, e)) = s[d]
           /\ Tail(SubSeq(s, d, e)) = SubSeq(s, d + 1, e)
      BY <1>3, <2>9, HeadTailOfSubSeq
    <2>11. SubSeq(s, d, e) # <<>>
      <3>1. \A i \in d .. e : s[i] \in TokenSet
        BY <1>3, <2>9, ElementOfSeq
      <3>2. Len(SubSeq(s, d, e)) = e - d + 1
        BY <1>3, <2>9, <3>1, SubSeqProperties
      <3> QED
        BY <1>5, <2>9, <3>2
    <2>12. Aligned(F, c + d, SubSeq(s, d + 1, e)) /\ Len(SubSeq(s, d + 1, e)) = e - d
      <3>1. d \in 0 .. Len(s)
        BY <1>3, <2>9
      <3> QED
        BY <1>2, <2>9, <3>1, AlignedSub
    <2>13. L + (e - d) = c + Len(s)
      BY <1>3, <1>5 DEF e
    <2>14. Skipped(s) = SubSeq(s, d, e)
      BY <2>8 DEF e
    <2> QED
      BY <1>5, <2>3, <2>10, <2>11, <2>12, <2>13, <2>14
  <1> QED
    BY <1>7, <1>8

-----------------------------------------------------------------------------
(* The readers between two steps                                            *)

BetweenMessages == {"start", "connect", "write", "line", "more", "try"}

\* Position c is before the first line of message k, or all messages are read.
BeforeLine(F, sc, start, c, k) ==
    \/ k \in 1 .. Len(sc) /\ start[k] <= c /\ c < LineOf(sc, start, k)
    \/ k = Len(sc) + 1 /\ c = Len(F)

\* Reader p waits for the first line, for the header, for the body of message k.
AtStart(F, sc, start, c, k, p, sz) ==
    /\ BeforeLine(F, sc, start, c, k)
    /\ p = "ac" /\ k \in 1 .. Len(sc) => sz = 0

AtHead(sc, start, c, k, p, sz, par) ==
    /\ k \in 1 .. Len(sc) /\ start[k] <= c /\ c < HeadOf(sc, start, k)
    /\ p # "proxy" => par = k /\ sz = 0

AtBody(sc, start, c, k, p, buf, sz, nd, par) ==
    /\ k \in 1 .. Len(sc) /\ c = HeadOf(sc, start, k)
    /\ p # "proxy" => par = k
    /\ Bytes(buf) + nd >= sz
    /\ sc[k].length >= 0 => sz = sc[k].length
    /\ sc[k].length < 0 /\ p # "proxy" => sz = 0

\* Where reader p is, which waits for o, when message k of sc is under way: buf follows
\* position c of the stream F and w follows buf.
Reading(F, sc, start, c, k, p, o, buf, w, sz, nd, par) ==
    /\ Aligned(F, c, buf) /\ Aligned(F, c + Len(buf), w)
    /\ sz \in Nat /\ nd \in Nat /\ par \in Nat
    /\ o \in BetweenMessages \union {"head", "body"}
    /\ p = "proxy" => par <= k
    /\ o \in {"connect", "write"} => p = "ac"
    /\ o \in {"more", "try"} => p = "chs"
    /\ o \in {"line", "head", "body"} => p # "chs"
    /\ p = "chs" => c = 0 /\ k = 1
    /\ o \in BetweenMessages => AtStart(F, sc, start, c, k, p, sz)
    /\ o = "head" => AtHead(sc, start, c, k, p, sz, par)
    /\ o = "body" => AtBody(sc, start, c, k, p, buf, sz, nd, par)

Handed == [line : Nat, body : Seq(TokenSet)]

\* What was handed over of message i is its own.
OwnOf(p, sc, i, h) ==
    LET own == h.body = [j \in 1 .. BodyLen(sc[i]) |-> Token("byte", i)]
    IN  IF p = "proxy" THEN h.line <= i /\ (sc[i].length >= 0 => own) ELSE h.line = i /\ own

OwnTypeOK ==
    /\ prog \in {"as", "ac", "proxy", "chs"}
    /\ script \in Seq(Shapes) /\ Len(script) > 0
    /\ prog \in {"ac", "chs"} => Len(script) = 1
    /\ handed \in Seq(Handed)

\* The one message to chs is a GET with a body, of which size_ok takes what has come.
GetHasBody == prog = "chs" /\ script[1].line = "GET" /\ script[1].length > 0

\* A reader that has not given up is somewhere in the stream.
OwnInv ==
    /\ OwnTypeOK
    /\ OwnRequest \/ GetHasBody
    /\ op # "none" =>
           \E start, c :
               /\ Laid(Stream(script), script, start, Len(script))
               /\ Reading(Stream(script), script, start, c, Len(handed) + 1,
                          prog, op, rsbuf, wire, size, need, params)

\* A script that is a sequence of messages.
LEMMA ScriptDomain ==
    ASSUME NEW sc \in Seq(Shapes), Len(sc) > 0
    PROVE  Len(sc) \in Nat /\ sc \in [1 .. Len(sc) -> Shapes] /\ DOMAIN sc = 1 .. Len(sc)
  OBVIOUS

\* After the body of a message, the reader is before the first line of the next one.
LEMMA NextBefore ==
    ASSUME NEW sc \in Seq(Shapes), Len(sc) > 0, NEW F, NEW start, Laid(F, sc, start, Len(sc)),
           NEW k \in 1 .. Len(sc)
    PROVE  BeforeLine(F, sc, start, start[k + 1], k + 1)
  <1>1. Len(sc) \in Nat /\ sc \in [1 .. Len(sc) -> Shapes]
    BY ScriptDomain
  <1>2. CASE k = Len(sc)
    <2>1. start[k + 1] = Len(F)
      BY <1>2 DEF Laid
    <2> QED
      BY <1>2, <2>1 DEF BeforeLine
  <1>3. CASE k # Len(sc)
    <2>0. Len(sc) \in Nat
      BY <1>1
    <2>1. k + 1 \in 1 .. Len(sc)
      BY <1>3, <2>0
    <2>2. Here(F, sc, start, k + 1, LineOf(sc, start, k + 1), HeadOf(sc, start, k + 1))
      BY <1>1, <2>1, Positions
    <2>3. start[k + 1] \in Nat /\ start[k + 1] < LineOf(sc, start, k + 1)
      BY <2>2 DEF Here
    <2> QED
      BY <2>1, <2>3 DEF BeforeLine
  <1> QED
    BY <1>2, <1>3

\* After a message that has no body: the next token, if there is one, is a blank line or the
\* first line of the next message.
LEMMA NextToken ==
    ASSUME NEW sc \in Seq(Shapes), Len(sc) > 0, NEW F, NEW start, Laid(F, sc, start, Len(sc)),
           NEW k \in 1 .. Len(sc), start[k + 1] < Len(F)
    PROVE  /\ k + 1 \in 1 .. Len(sc)
           /\ F[start[k + 1] + 1].kind \in {"blank", "line"}
           /\ F[start[k + 1] + 1].kind = "blank" =>
                  start[k + 1] + 1 < LineOf(sc, start, k + 1)
  <1>1. Len(sc) \in Nat /\ sc \in [1 .. Len(sc) -> Shapes]
    BY ScriptDomain
  <1>2. start[Len(sc) + 1] = Len(F) /\ Len(F) \in Nat
    BY DEF Laid
  <1>3. k # Len(sc)
    BY <1>2
  <1>4. k + 1 \in 1 .. Len(sc)
    <2>1. Len(sc) \in Nat
      BY <1>1
    <2> QED
      BY <1>3, <2>1
  <1> DEFINE a == start[k + 1]
             L == LineOf(sc, start, k + 1)
  <1>5. Here(F, sc, start, k + 1, L, HeadOf(sc, start, k + 1))
    BY <1>1, <1>4, Positions
  <1>6. /\ a \in Nat /\ L \in Nat /\ a < L /\ F[L].kind = "line"
        /\ \A p \in a + 1 .. L - 1 : F[p].kind = "blank"
    BY <1>5 DEF Here
  <1> HIDE DEF a, L
  <1>7. CASE a + 1 = L
    BY <1>4, <1>6, <1>7 DEF a, L
  <1>8. CASE a + 1 # L
    <2>1. a + 1 \in a + 1 .. L - 1 /\ a + 1 < L
      BY <1>6, <1>8
    <2>2. F[a + 1].kind = "blank"
      BY <1>6, <2>1
    <2> QED
      BY <1>4, <2>1, <2>2 DEF a, L
  <1> QED
    BY <1>7, <1>8

\* async_read_until, async_read and recvbuf.
LEMMA ReceiveReading ==
    ASSUME NEW F, NEW sc, NEW start, NEW c, NEW k, NEW p, NEW o, NEW buf, NEW w,
           NEW sz, NEW nd, NEW par, F \in Seq(TokenSet),
           Reading(F, sc, start, c, k, p, o, buf, w, sz, nd, par),
           NEW j \in 1 .. Len(w), NEW left, left = nd - Bytes(SubSeq(w, 1, j)),
           NEW o2, o2 = IF o = "more" THEN "try" ELSE o
    PROVE  Reading(F, sc, start, c, k, p, o2, buf \o SubSeq(w, 1, j), SubSeq(w, j + 1, Len(w)),
                   sz, IF left > 0 THEN left ELSE 0, par)
  <1>1. Aligned(F, c, buf) /\ Aligned(F, c + Len(buf), w)
    BY DEF Reading
  <1>2. Len(w) \in Nat /\ w \in Seq(TokenSet) /\ buf \in Seq(TokenSet) /\ c \in Nat /\ Len(buf) \in Nat
    BY <1>1 DEF Aligned
  <1> DEFINE x == SubSeq(w, 1, j)
             y == SubSeq(w, j + 1, Len(w))
             z == buf \o x
             nd2 == IF left > 0 THEN left ELSE 0
  <1>3. Aligned(F, c + Len(buf), x) /\ Len(x) = j
    <2>1. PICK d \in Nat : d = 0
      OBVIOUS
    <2>2. d \in 0 .. Len(w) /\ j \in d .. Len(w) /\ d + 1 = 1 /\ j - d = j
      BY <1>2, <2>1
    <2>3. Aligned(F, c + Len(buf) + d, SubSeq(w, d + 1, j)) /\ Len(SubSeq(w, d + 1, j)) = j - d
      BY <1>1, <2>2, AlignedSub
    <2>4. c + Len(buf) + d = c + Len(buf)
      BY <1>2, <2>1
    <2> QED
      BY <2>2, <2>3, <2>4
  <1>4. Aligned(F, c + Len(buf) + j, y)
    <2> DEFINE e == Len(w)
    <2>1. j \in 0 .. Len(w) /\ e \in j .. Len(w)
      BY <1>2
    <2> HIDE DEF e
    <2>2. Aligned(F, c + Len(buf) + j, SubSeq(w, j + 1, e))
      BY <1>1, <2>1, AlignedSub
    <2> QED
      BY <2>2 DEF e
  <1> HIDE DEF x, y
  <1>5. Aligned(F, c, z) /\ Len(z) = Len(buf) + Len(x)
    BY <1>1, <1>3, AlignedConcat
  <1>6. Aligned(F, c + Len(z), y)
    <2>1. c + Len(z) = c + Len(buf) + j
      BY <1>2, <1>3, <1>5
    <2> QED
      BY <1>4, <2>1
  <1>7. x \in Seq(TokenSet)
    BY <1>3 DEF Aligned
  <1>8. Bytes(z) = Bytes(buf) + Bytes(x) /\ Bytes(buf) \in Nat /\ Bytes(x) \in Nat
    BY <1>2, <1>7, BytesConcat, LinesFinite
  <1> HIDE DEF z
  <1>9. nd \in Nat /\ sz \in Nat
    BY DEF Reading
  <1>10. nd2 \in Nat /\ (Bytes(buf) + nd >= sz => Bytes(z) + nd2 >= sz)
    BY <1>8, <1>9 DEF x
  <1> HIDE DEF nd2
  <1>11. o2 \in BetweenMessages <=> o \in BetweenMessages
    BY DEF BetweenMessages
  <1>12. /\ o2 = "head" <=> o = "head"
         /\ o2 = "body" <=> o = "body"
         /\ o2 = "line" <=> o = "line"
         /\ o2 \in {"connect", "write"} <=> o \in {"connect", "write"}
         /\ o2 \in {"more", "try"} => o \in {"more", "try"}
         /\ o2 \in BetweenMessages \union {"head", "body"} <=> o \in BetweenMessages \union {"head", "body"}
    BY DEF BetweenMessages
  <1>13. AtBody(sc, start, c, k, p, buf, sz, nd, par) => AtBody(sc, start, c, k, p, z, sz, nd2, par)
    BY <1>10 DEF AtBody
  <1>14. Reading(F, sc, start, c, k, p, o2, z, y, sz, nd2, par)
    BY <1>5, <1>6, <1>10, <1>11, <1>12, <1>13 DEF Reading
  <1> QED
    BY <1>14 DEF x, y, z, nd2

\* The reader waits for something else, between two messages as before.
LEMMA StartReading ==
    ASSUME NEW F, NEW sc, NEW start, NEW c, NEW k, NEW p, NEW o, NEW buf, NEW w,
           NEW sz, NEW nd, NEW par,
           Reading(F, sc, start, c, k, p, o, buf, w, sz, nd, par), o \in BetweenMessages,
           NEW o2 \in BetweenMessages,
           o2 \in {"connect", "write"} => p = "ac",
           o2 \in {"more", "try"} => p = "chs",
           o2 = "line" => p # "chs"
    PROVE  Reading(F, sc, start, c, k, p, o2, buf, w, sz, nd, par)
  BY DEF Reading, BetweenMessages

\* There is a line in the buffer: a message is under way.
LEMMA LineUnderWay ==
    ASSUME NEW F, NEW sc, NEW start, NEW c, NEW k, NEW p, NEW buf, NEW w,
           NEW sz, NEW nd, NEW par, F \in Seq(TokenSet),
           Reading(F, sc, start, c, k, p, "line", buf, w, sz, nd, par), HasLine(buf)
    PROVE  /\ k \in 1 .. Len(sc) /\ start[k] <= c /\ c < LineOf(sc, start, k)
           /\ p # "chs" /\ (p = "ac" => sz = 0)
           /\ Aligned(F, c, buf) /\ Aligned(F, c + Len(buf), w)
           /\ sz \in Nat /\ nd \in Nat /\ par \in Nat /\ (p = "proxy" => par <= k)
  <1>1. "line" \in BetweenMessages
    BY DEF BetweenMessages
  <1>2. /\ BeforeLine(F, sc, start, c, k) /\ (p = "ac" /\ k \in 1 .. Len(sc) => sz = 0)
        /\ p # "chs"
        /\ Aligned(F, c, buf) /\ Aligned(F, c + Len(buf), w)
        /\ sz \in Nat /\ nd \in Nat /\ par \in Nat /\ (p = "proxy" => par <= k)
    <2>1. BeforeLine(F, sc, start, c, k) /\ (p = "ac" /\ k \in 1 .. Len(sc) => sz = 0)
      <3>1. AtStart(F, sc, start, c, k, p, sz)
        BY <1>1 DEF Reading
      <3> QED
        BY <3>1 DEF AtStart
    <2>2. p # "chs"
      BY DEF Reading
    <2>3. /\ Aligned(F, c, buf) /\ Aligned(F, c + Len(buf), w)
          /\ sz \in Nat /\ nd \in Nat /\ par \in Nat /\ (p = "proxy" => par <= k)
      BY DEF Reading
    <2> QED
      BY <2>1, <2>2, <2>3
  <1>3. c \in Nat /\ Len(buf) \in Nat /\ c + Len(buf) <= Len(F) /\ Len(F) \in Nat /\ buf \in Seq(TokenSet)
    BY <1>2 DEF Aligned
  <1>4. Len(buf) > 0
    BY <1>3 DEF HasLine
  <1>5. c # Len(F)
    BY <1>3, <1>4
  <1>6. k \in 1 .. Len(sc) /\ start[k] <= c /\ c < LineOf(sc, start, k)
    BY <1>2, <1>5 DEF BeforeLine
  <1> QED
    BY <1>2, <1>6

\* The reader takes blank lines and waits for the first line, or for the header (par2 is
\* the message of which it has the first line).
LEMMA LineReading ==
    ASSUME NEW sc \in Seq(Shapes), Len(sc) > 0, NEW F, NEW start, Laid(F, sc, start, Len(sc)),
           NEW c, NEW k, NEW p, NEW buf, NEW w, NEW sz, NEW nd, NEW par,
           Reading(F, sc, start, c, k, p, "line", buf, w, sz, nd, par), HasLine(buf)
    PROVE  /\ k \in 1 .. Len(sc) /\ p # "chs" /\ (p = "ac" => sz = 0)
           /\ sz \in Nat /\ nd \in Nat /\ par \in Nat /\ (p = "proxy" => par <= k)
           /\ \/ /\ Skipped(buf) = <<>>
                 /\ \A sz2 \in Nat, par2 \in Nat :
                        (p = "proxy" => par2 <= k) /\ (p = "ac" => sz2 = 0) =>
                            Reading(F, sc, start, c + Len(buf), k, p, "line", <<>>, w, sz2, nd, par2)
                 /\ \A par2 \in Nat :
                        p = "proxy" /\ par2 <= k =>
                            Reading(F, sc, start, c + Len(buf), k, p, "head", <<>>, w, sz, nd, par2)
              \/ /\ Skipped(buf) # <<>> /\ Head(Skipped(buf)).of = k
                 /\ \A sz2 \in Nat, par2 \in Nat :
                        (p = "proxy" => par2 <= k) /\ (p # "proxy" => par2 = k /\ sz2 = 0) =>
                            Reading(F, sc, start, LineOf(sc, start, k), k, p, "head",
                                    Tail(Skipped(buf)), w, sz2, nd, par2)
  <1>1. Len(sc) \in Nat /\ sc \in [1 .. Len(sc) -> Shapes]
    BY ScriptDomain
  <1>2. F \in Seq(TokenSet)
    BY DEF Laid
  <1> DEFINE L == LineOf(sc, start, k)
             H == HeadOf(sc, start, k)
  <1>3. /\ k \in 1 .. Len(sc) /\ start[k] <= c /\ c < L
        /\ p # "chs" /\ (p = "ac" => sz = 0)
        /\ Aligned(F, c, buf) /\ Aligned(F, c + Len(buf), w)
        /\ sz \in Nat /\ nd \in Nat /\ par \in Nat /\ (p = "proxy" => par <= k)
    BY <1>2, LineUnderWay
  <1>4. Here(F, sc, start, k, L, H)
    BY <1>1, <1>3, Positions
  <1> HIDE DEF L, H
  <1>5. L \in Nat /\ H = L + 1 /\ start[k] \in Nat /\ start[k] < L /\ c \in Nat /\ Len(buf) \in Nat
        /\ c + Len(buf) <= Len(F) /\ Len(F) \in Nat
    <2>1. L \in Nat /\ H = L + 1 /\ start[k] \in Nat /\ start[k] < L
      BY <1>4 DEF Here
    <2>2. Aligned(F, c, buf) /\ Len(F) \in Nat
      BY <1>2, <1>3
    <2>3. c \in Nat /\ Len(buf) \in Nat /\ c + Len(buf) <= Len(F)
      BY <2>2 DEF Aligned
    <2> QED
      BY <2>1, <2>2, <2>3
  <1>6. CASE Skipped(buf) = <<>> /\ c + Len(buf) < L
    <2> DEFINE d == c + Len(buf)
    <2>1. d \in Nat /\ d <= Len(F) /\ start[k] <= d /\ d < L /\ d < H
      BY <1>3, <1>5, <1>6
    <2>2. Aligned(F, d, <<>>) /\ Len(<<>>) = 0 /\ d + 0 = d
      BY <1>2, <2>1, AlignedEmpty
    <2>3. Aligned(F, d + Len(<<>>), w)
      BY <1>3, <2>2
    <2> HIDE DEF d
    <2>4. BeforeLine(F, sc, start, d, k)
      BY <1>3, <2>1 DEF BeforeLine, L
    <2>5. d < HeadOf(sc, start, k)
      BY <2>1 DEF H
    <2>6. ASSUME NEW sz2 \in Nat, NEW par2 \in Nat, p = "proxy" => par2 <= k, p = "ac" => sz2 = 0
          PROVE  Reading(F, sc, start, d, k, p, "line", <<>>, w, sz2, nd, par2)
      <3>1. AtStart(F, sc, start, d, k, p, sz2)
        BY <2>4, <2>6 DEF AtStart
      <3> QED
        BY <1>3, <2>2, <2>3, <2>6, <3>1 DEF Reading, BetweenMessages
    <2>7. ASSUME NEW par2 \in Nat, p = "proxy", par2 <= k
          PROVE  Reading(F, sc, start, d, k, p, "head", <<>>, w, sz, nd, par2)
      <3>1. AtHead(sc, start, d, k, p, sz, par2)
        BY <1>3, <2>1, <2>5, <2>7 DEF AtHead
      <3> QED
        BY <1>3, <2>2, <2>3, <2>7, <3>1 DEF Reading, BetweenMessages
    <2> QED
      BY <1>3, <1>6, <2>6, <2>7 DEF d
  <1> DEFINE rest == Tail(Skipped(buf))
  <1>7. CASE /\ Skipped(buf) # <<>> /\ Head(Skipped(buf)).of = k
             /\ Aligned(F, L, rest) /\ L + Len(rest) = c + Len(buf)
    <2>1. L < HeadOf(sc, start, k) /\ start[k] <= L
      BY <1>5 DEF H
    <2>2. Aligned(F, L + Len(rest), w)
      BY <1>3, <1>7
    <2> HIDE DEF rest
    <2>3. ASSUME NEW sz2 \in Nat, NEW par2 \in Nat, p = "proxy" => par2 <= k,
                 p # "proxy" => par2 = k /\ sz2 = 0
          PROVE  Reading(F, sc, start, L, k, p, "head", rest, w, sz2, nd, par2)
      <3>1. AtHead(sc, start, L, k, p, sz2, par2)
        BY <1>3, <2>1, <2>3 DEF AtHead
      <3> QED
        BY <1>3, <1>7, <2>2, <2>3, <3>1 DEF Reading, BetweenMessages
    <2> QED
      BY <1>3, <1>7, <2>3 DEF L, rest
  <1>8. \/ Skipped(buf) = <<>> /\ c + Len(buf) < L
        \/ /\ Skipped(buf) # <<>> /\ Head(Skipped(buf)).of = k
           /\ Aligned(F, L, rest) /\ L + Len(rest) = c + Len(buf)
    BY <1>1, <1>3, LineFound DEF L
  <1> QED
    BY <1>6, <1>7, <1>8

\* The header is there: the body follows, and what is to come of it is waited for.
LEMMA HeadReading ==
    ASSUME NEW sc \in Seq(Shapes), Len(sc) > 0, NEW F, NEW start, Laid(F, sc, start, Len(sc)),
           NEW c, NEW k, NEW p, NEW buf, NEW w, NEW sz, NEW nd, NEW par,
           Reading(F, sc, start, c, k, p, "head", buf, w, sz, nd, par), HasGap(buf)
    PROVE  LET t == buf[HeadAt(buf)]
               sz2 == IF t.length >= 0 THEN t.length ELSE sz
           IN  /\ t.of = k /\ sz2 \in Nat
               /\ AfterHead(buf) \in Seq(TokenSet)
               /\ \A nd2 \in Nat : Bytes(AfterHead(buf)) + nd2 >= sz2 =>
                      Reading(F, sc, start, HeadOf(sc, start, k), k, p, "body",
                              AfterHead(buf), w, sz2, nd2, par)
  <1>1. Len(sc) \in Nat /\ sc \in [1 .. Len(sc) -> Shapes]
    BY ScriptDomain
  <1> DEFINE H == HeadOf(sc, start, k)
             after == AfterHead(buf)
             t == buf[HeadAt(buf)]
             sz2 == IF t.length >= 0 THEN t.length ELSE sz
  <1>2. /\ k \in 1 .. Len(sc) /\ start[k] <= c /\ c < H
        /\ p # "proxy" => par = k /\ sz = 0
        /\ p # "chs"
        /\ Aligned(F, c, buf) /\ Aligned(F, c + Len(buf), w)
        /\ sz \in Nat /\ nd \in Nat /\ par \in Nat /\ (p = "proxy" => par <= k)
    BY DEF Reading, AtHead
  <1>3. /\ t.of = k /\ t.length = sc[k].length
        /\ Aligned(F, H, after) /\ H + Len(after) = c + Len(buf)
    BY <1>1, <1>2, HeadFound
  <1>4. sc[k].length \in -2 .. 2
    <2>1. sc[k] \in Shapes
      BY <1>1, <1>2
    <2> QED
      BY <2>1, ShapeFacts
  <1>5. Aligned(F, H + Len(after), w)
    BY <1>2, <1>3
  <1>6. sz2 \in Nat /\ (sc[k].length >= 0 => sz2 = sc[k].length)
        /\ (sc[k].length < 0 /\ p # "proxy" => sz2 = 0)
    BY <1>2, <1>3, <1>4
  <1>7. after \in Seq(TokenSet)
    BY <1>3 DEF Aligned
  <1> HIDE DEF H, after, t, sz2
  <1>8. ASSUME NEW nd2 \in Nat, Bytes(after) + nd2 >= sz2
        PROVE  Reading(F, sc, start, H, k, p, "body", after, w, sz2, nd2, par)
    <2>1. AtBody(sc, start, H, k, p, after, sz2, nd2, par)
      BY <1>2, <1>6, <1>8 DEF AtBody, H
    <2> QED
      BY <1>2, <1>3, <1>5, <1>6, <1>8, <2>1 DEF Reading, BetweenMessages
  <1> QED
    BY <1>3, <1>6, <1>7, <1>8 DEF H, after, t, sz2

OwnBody(shape, k) == [j \in 1 .. BodyLen(shape) |-> Token("byte", k)]

\* The body of a message.
LEMMA OwnBodyType ==
    ASSUME NEW shape \in Shapes, NEW k \in Nat
    PROVE  /\ OwnBody(shape, k) \in Seq(TokenSet) /\ Len(OwnBody(shape, k)) = BodyLen(shape)
           /\ BodyLen(shape) \in Nat
           /\ \A j \in 1 .. BodyLen(shape) : OwnBody(shape, k)[j] = Token("byte", k)
  <1>1. BodyLen(shape) \in Nat /\ Token("byte", k) \in TokenSet
    BY ShapeFacts, TokenFacts
  <1> QED
    BY <1>1 DEF OwnBody

\* async_read has transferred the bytes of the body: it is in the buffer.
LEMMA BodyArrived ==
    ASSUME NEW N \in Nat, NEW sc \in [1 .. N -> Shapes], NEW F, NEW start, Laid(F, sc, start, N),
           NEW k \in 1 .. N, NEW s, Aligned(F, HeadOf(sc, start, k), s),
           Bytes(s) >= BodyLen(sc[k])
    PROVE  /\ BodyLen(sc[k]) \in Nat /\ Len(s) \in Nat /\ BodyLen(sc[k]) <= Len(s)
           /\ \A j \in 1 .. BodyLen(sc[k]) : s[j] = Token("byte", k)
  <1> DEFINE H == HeadOf(sc, start, k)
             L == LineOf(sc, start, k)
             n == BodyLen(sc[k])
  <1>1. Here(F, sc, start, k, L, H)
    BY Positions
  <1>2. sc[k] \in Shapes /\ k \in Nat
    OBVIOUS
  <1>3. n \in Nat
    BY <1>2, ShapeFacts
  <1>4. Aligned(F, H, s) /\ Bytes(s) >= n
    OBVIOUS
  <1> HIDE DEF H, L, n
  <1>5. /\ H \in Nat /\ start[k + 1] = H + n
        /\ \A p \in H + 1 .. start[k + 1] : F[p] = Token("byte", k)
    BY <1>1 DEF Here, n
  <1>6. s \in Seq(TokenSet) /\ Len(s) \in Nat /\ \A i \in 1 .. Len(s) : Like(s[i], F[H + i])
    BY <1>4 DEF Aligned
  <1>7. Token("byte", k).kind = "byte"
    BY <1>2, TokenFacts
  <1>8. ASSUME NEW j \in 1 .. Len(s), j <= n
        PROVE  s[j].kind = "byte" /\ s[j] = Token("byte", k)
    <2>1. H + j \in H + 1 .. H + n
      BY <1>3, <1>5, <1>6, <1>8
    <2>2. F[H + j] = Token("byte", k)
      BY <1>5, <2>1
    <2> QED
      BY <1>6, <1>7, <2>2 DEF Like
  <1>9. Len(s) >= n
    BY <1>3, <1>4, <1>6, <1>8, BytesOfBody
  <1>10. \A j \in 1 .. n : j \in 1 .. Len(s) /\ j <= n
    BY <1>3, <1>6, <1>9
  <1> QED
    BY <1>3, <1>6, <1>8, <1>9, <1>10 DEF n

\* sgetn of as much as the body has: it takes the body, and what follows is left.
LEMMA BodyTaken ==
    ASSUME NEW N \in Nat, NEW sc \in [1 .. N -> Shapes], NEW F, NEW start, Laid(F, sc, start, N),
           NEW k \in 1 .. N, NEW s, Aligned(F, HeadOf(sc, start, k), s),
           NEW n, n = BodyLen(sc[k]), Bytes(s) >= n
    PROVE  /\ Taken(s, n) = OwnBody(sc[k], k)
           /\ Aligned(F, start[k + 1], Rest(s, n))
           /\ start[k + 1] + Len(Rest(s, n)) = HeadOf(sc, start, k) + Len(s)
  <1> DEFINE H == HeadOf(sc, start, k)
             L == LineOf(sc, start, k)
  <1>1. Here(F, sc, start, k, L, H)
    BY Positions
  <1>2. sc[k] \in Shapes /\ k \in Nat
    OBVIOUS
  <1>3. /\ n \in Nat /\ Len(s) \in Nat /\ n <= Len(s)
        /\ \A j \in 1 .. n : s[j] = Token("byte", k)
    BY BodyArrived
  <1>4. Aligned(F, H, s)
    OBVIOUS
  <1> HIDE DEF H, L
  <1>5. H \in Nat /\ start[k + 1] = H + n /\ F \in Seq(TokenSet)
    BY <1>1 DEF Here
  <1>6. s \in Seq(TokenSet)
    BY <1>4 DEF Aligned
  <1>7. CASE n = 0
    <2>1. Taken(s, n) = <<>> /\ Rest(s, n) = s
      BY <1>7 DEF Taken, Rest
    <2>2. OwnBody(sc[k], k) = <<>>
      BY <1>7 DEF OwnBody
    <2>3. start[k + 1] = H
      BY <1>5, <1>7
    <2> QED
      BY <1>4, <2>1, <2>2, <2>3 DEF H
  <1>8. CASE n # 0
    <2>1. n > 0 /\ 1 \in 1 .. n /\ s # <<>>
      BY <1>3, <1>6, <1>8
    <2>2. s[1].kind = "byte"
      BY <1>2, <1>3, <2>1, TokenFacts
    <2>3. Taken(s, n) = SubSeq(s, 1, n) /\ Rest(s, n) = SubSeq(s, n + 1, Len(s))
      BY <1>8, <2>1, <2>2 DEF Taken, Rest
    <2>4. SubSeq(s, 1, n) = OwnBody(sc[k], k)
      <3> DEFINE x == SubSeq(s, 1, n)
                 y == OwnBody(sc[k], k)
      <3>1. PICK d \in Nat : d = 0
        OBVIOUS
      <3>2. d \in 0 .. Len(s) /\ n \in d .. Len(s) /\ d + 1 = 1 /\ n - d = n
        BY <1>3, <3>1
      <3>3. /\ Aligned(F, H + d, SubSeq(s, d + 1, n)) /\ Len(SubSeq(s, d + 1, n)) = n - d
            /\ \A i \in 1 .. n - d : SubSeq(s, d + 1, n)[i] = s[d + i]
        BY <1>4, <1>5, <3>2, AlignedSub
      <3>4. Aligned(F, H + d, x) /\ Len(x) = n /\ \A i \in 1 .. n : x[i] = s[d + i]
        BY <3>2, <3>3
      <3>5. x \in Seq(TokenSet)
        BY <3>4 DEF Aligned
      <3>6. \A i \in 1 .. n : x[i] = Token("byte", k)
        <4>1. \A i \in 1 .. n : d + i = i
          BY <1>3, <3>1
        <4> QED
          BY <1>3, <3>4, <4>1
      <3>7. y \in Seq(TokenSet) /\ Len(y) = n /\ \A j \in 1 .. n : y[j] = Token("byte", k)
        BY <1>2, OwnBodyType
      <3> HIDE DEF x, y
      <3>8. \A i \in 1 .. Len(x) : x[i] = y[i]
        BY <3>4, <3>6, <3>7
      <3>9. x = y
        BY <3>4, <3>5, <3>7, <3>8, SeqEqual
      <3> QED
        BY <3>9 DEF x, y
    <2>5. /\ Aligned(F, H + n, SubSeq(s, n + 1, Len(s)))
          /\ H + n + Len(SubSeq(s, n + 1, Len(s))) = H + Len(s)
      <3> DEFINE e == Len(s)
      <3>1. n \in 0 .. Len(s) /\ e \in n .. Len(s) /\ e \in Nat
        BY <1>3
      <3> HIDE DEF e
      <3>2. Aligned(F, H + n, SubSeq(s, n + 1, e)) /\ Len(SubSeq(s, n + 1, e)) = e - n
        BY <1>4, <1>5, <3>1, AlignedSub
      <3>3. H + n + (e - n) = H + e
        BY <1>3, <1>5, <3>1
      <3> QED
        BY <3>2, <3>3 DEF e
    <2> QED
      BY <1>5, <2>3, <2>4, <2>5 DEF H
  <1> QED
    BY <1>7, <1>8

\* sgetn after a message without a body, of a size that is left over: a blank line is taken,
\* or the line of the next message is cut, and it is still before that line.
LEMMA StaleTaken ==
    ASSUME NEW sc \in Seq(Shapes), Len(sc) > 0, NEW F, NEW start, Laid(F, sc, start, Len(sc)),
           NEW k \in 1 .. Len(sc), NEW s, Aligned(F, start[k + 1], s), NEW n \in Nat
    PROVE  /\ Taken(s, n) \in Seq(TokenSet)
           /\ \E c : /\ Aligned(F, c, Rest(s, n)) /\ c + Len(Rest(s, n)) = start[k + 1] + Len(s)
                     /\ BeforeLine(F, sc, start, c, k + 1)
  <1> DEFINE a == start[k + 1]
  <1>1. F \in Seq(TokenSet)
    BY DEF Laid
  <1>2. Aligned(F, a, s) /\ BeforeLine(F, sc, start, a, k + 1)
    BY NextBefore
  <1>3. s \in Seq(TokenSet) /\ a \in Nat /\ Len(s) \in Nat /\ Len(F) \in Nat /\ a + Len(s) <= Len(F)
    BY <1>1, <1>2 DEF Aligned
  <1>4. CASE n = 0 \/ s = <<>>
    <2>1. Taken(s, n) = <<>> /\ Rest(s, n) = s
      BY <1>4 DEF Taken, Rest
    <2>2. <<>> \in Seq(TokenSet)
      OBVIOUS
    <2> QED
      BY <1>2, <2>1, <2>2
  <1>5. CASE ~(n = 0 \/ s = <<>>)
    <2>1. Len(s) > 0 /\ 1 \in 1 .. Len(s) /\ s # <<>>
      BY <1>3, <1>5
    <2>2. s[1] \in TokenSet /\ Like(s[1], F[a + 1])
      BY <1>2, <1>3, <2>1 DEF Aligned
    <2>3. a < Len(F)
      BY <1>3, <2>1
    <2>4. /\ k + 1 \in 1 .. Len(sc)
          /\ F[a + 1].kind \in {"blank", "line"}
          /\ F[a + 1].kind = "blank" => a + 1 < LineOf(sc, start, k + 1)
      BY <2>3, NextToken
    <2>5. s[1].kind = F[a + 1].kind
      BY <2>2 DEF Like
    <2> HIDE DEF a
    <2>6. Taken(s, n) = <<s[1]>>
      BY <1>5, <2>4, <2>5 DEF Taken
    <2>7. Taken(s, n) \in Seq(TokenSet)
      BY <2>2, <2>6
    <2>8. CASE s[1].kind = "blank"
      <3>1. Rest(s, n) = Tail(s)
        BY <1>5, <2>8 DEF Rest
      <3>2. Aligned(F, a + 1, Tail(s)) /\ Len(Tail(s)) = Len(s) - 1
        BY <1>1, <1>2, <2>1, AlignedTail DEF a
      <3>3. BeforeLine(F, sc, start, a + 1, k + 1)
        <4>1. start[k + 1] <= a + 1
          BY <1>3 DEF a
        <4> QED
          BY <2>4, <2>5, <2>8, <4>1 DEF BeforeLine
      <3>4. a + 1 + (Len(s) - 1) = a + Len(s)
        BY <1>3
      <3> QED
        BY <2>7, <3>1, <3>2, <3>3, <3>4 DEF a
    <2>9. CASE s[1].kind = "line"
      <3>1. Rest(s, n) = <<[s[1] EXCEPT !.cut = TRUE]>> \o Tail(s)
        BY <1>5, <2>9 DEF Rest
      <3>2. Aligned(F, a, Rest(s, n))
        BY <1>1, <1>2, <2>1, <2>9, <3>1, AlignedCut DEF a
      <3>3. Len(Rest(s, n)) = Len(s)
        <4> DEFINE t == [s[1] EXCEPT !.cut = TRUE]
        <4>1. t \in TokenSet
          BY <2>2, TokenCut
        <4> HIDE DEF t
        <4>2. <<t>> \in Seq(TokenSet) /\ Len(<<t>>) = 1
          BY <4>1
        <4>3. Tail(s) \in Seq(TokenSet) /\ Len(Tail(s)) = Len(s) - 1
          BY <1>3, <2>1
        <4>4. Len(<<t>> \o Tail(s)) = 1 + (Len(s) - 1)
          BY <4>2, <4>3, TokenConcat
        <4> QED
          BY <1>3, <3>1, <4>4 DEF t
      <3> QED
        BY <1>2, <2>7, <3>2, <3>3 DEF a
    <2> QED
      BY <2>4, <2>5, <2>8, <2>9
  <1> QED
    BY <1>4, <1>5

\* What is left of the buffer follows the body, and the next message's line is waited for.
LEMMA NextReading ==
    ASSUME NEW sc, NEW F, NEW start, NEW c \in Nat, NEW m \in Nat, NEW p, p # "chs",
           NEW buf, NEW w, NEW sz \in Nat, NEW nd \in Nat, NEW par \in Nat, NEW e,
           Aligned(F, c, buf), Aligned(F, e, w), e = c + Len(buf),
           BeforeLine(F, sc, start, c, m), p = "proxy" => par <= m,
           p = "ac" => ~(m \in 1 .. Len(sc))
    PROVE  Reading(F, sc, start, c, m, p, "line", buf, w, sz, nd, par)
  <1>1. AtStart(F, sc, start, c, m, p, sz)
    BY DEF AtStart
  <1> QED
    BY <1>1 DEF Reading, BetweenMessages

\* What a reader knows that has the bytes it waited for.
LEMMA BodyReading ==
    ASSUME NEW sc \in Seq(Shapes), Len(sc) > 0, NEW F, NEW start, Laid(F, sc, start, Len(sc)),
           NEW c, NEW k, NEW p, NEW buf, NEW w, NEW sz, NEW par,
           Reading(F, sc, start, c, k, p, "body", buf, w, sz, 0, par)
    PROVE  /\ k \in 1 .. Len(sc) /\ c = HeadOf(sc, start, k)
           /\ Aligned(F, c, buf) /\ Aligned(F, c + Len(buf), w)
           /\ sz \in Nat /\ par \in Nat /\ (p = "proxy" => par <= k) /\ (p # "proxy" => par = k)
           /\ buf \in Seq(TokenSet) /\ Bytes(buf) >= sz
           /\ p # "proxy" \/ sc[k].length >= 0 => sz = BodyLen(sc[k])
           /\ start[k + 1] = c + BodyLen(sc[k]) /\ c \in Nat /\ BodyLen(sc[k]) \in Nat
  <1>1. AtBody(sc, start, c, k, p, buf, sz, 0, par)
    BY DEF Reading
  <1>2. /\ Aligned(F, c, buf) /\ Aligned(F, c + Len(buf), w)
        /\ sz \in Nat /\ par \in Nat /\ (p = "proxy" => par <= k)
    BY DEF Reading
  <1>3. /\ k \in 1 .. Len(sc) /\ c = HeadOf(sc, start, k)
        /\ (p # "proxy" => par = k)
        /\ Bytes(buf) + 0 >= sz
        /\ (sc[k].length >= 0 => sz = sc[k].length)
        /\ (sc[k].length < 0 /\ p # "proxy" => sz = 0)
    BY <1>1 DEF AtBody
  <1>4. buf \in Seq(TokenSet)
    BY <1>2 DEF Aligned
  <1>5. Bytes(buf) >= sz
    <2>1. Bytes(buf) \in Nat
      BY <1>4, LinesFinite
    <2> QED
      BY <1>3, <2>1
  <1>6. sc \in [1 .. Len(sc) -> Shapes] /\ Len(sc) \in Nat
    BY ScriptDomain
  <1>7. sc[k] \in Shapes
    BY <1>3, <1>6
  <1>8. /\ sc[k].length \in -2 .. 2 /\ BodyLen(sc[k]) \in Nat
        /\ (sc[k].length >= 0 => BodyLen(sc[k]) = sc[k].length)
        /\ (sc[k].length <= 0 => BodyLen(sc[k]) = 0)
    BY <1>7, ShapeFacts
  <1>9. p # "proxy" \/ sc[k].length >= 0 => sz = BodyLen(sc[k])
    BY <1>3, <1>8
  <1>10. start[k + 1] = c + BodyLen(sc[k]) /\ c \in Nat
    <2>1. Here(F, sc, start, k, LineOf(sc, start, k), HeadOf(sc, start, k))
      BY <1>3, <1>6, Positions
    <2> QED
      BY <1>3, <2>1 DEF Here
  <1> QED
    BY <1>2, <1>3, <1>4, <1>5, <1>8, <1>9, <1>10

\* as and the proxies: the body is taken, that of the message if its header has told how
\* long it is, and the next message is waited for.
LEMMA TakenReading ==
    ASSUME NEW sc \in Seq(Shapes), Len(sc) > 0, NEW F, NEW start, Laid(F, sc, start, Len(sc)),
           NEW c, NEW k, NEW p, p = "as" \/ p = "proxy", NEW buf, NEW w, NEW sz,
           NEW nd, nd = 0, NEW par,
           Reading(F, sc, start, c, k, p, "body", buf, w, sz, nd, par)
    PROVE  /\ k \in 1 .. Len(sc) /\ par \in Nat
           /\ p = "proxy" => par <= k
           /\ p = "as" => par = k
           /\ Taken(buf, sz) \in Seq(TokenSet)
           /\ p = "as" \/ sc[k].length >= 0 => Taken(buf, sz) = OwnBody(sc[k], k)
           /\ \E c2 : Reading(F, sc, start, c2, k + 1, p, "line", Rest(buf, sz), w, sz, nd, par)
  <1>1. /\ k \in 1 .. Len(sc) /\ c = HeadOf(sc, start, k)
        /\ Aligned(F, c, buf) /\ Aligned(F, c + Len(buf), w)
        /\ sz \in Nat /\ par \in Nat /\ (p = "proxy" => par <= k) /\ (p # "proxy" => par = k)
        /\ buf \in Seq(TokenSet) /\ Bytes(buf) >= sz
        /\ (p # "proxy" \/ sc[k].length >= 0 => sz = BodyLen(sc[k]))
        /\ start[k + 1] = c + BodyLen(sc[k]) /\ c \in Nat /\ BodyLen(sc[k]) \in Nat
    BY BodyReading
  <1>2. Len(sc) \in Nat /\ sc \in [1 .. Len(sc) -> Shapes]
    BY ScriptDomain
  <1>3. sc[k] \in Shapes /\ k \in Nat
    BY <1>1, <1>2
  <1> DEFINE left == Rest(buf, sz)
             body == Taken(buf, sz)
             m == k + 1
             e == c + Len(buf)
  <1>4. m \in Nat /\ (p = "proxy" => par <= m) /\ Aligned(F, e, w)
    BY <1>1, <1>3
  <1>5. /\ body \in Seq(TokenSet)
        /\ p = "as" \/ sc[k].length >= 0 => body = OwnBody(sc[k], k)
        /\ \E d : Aligned(F, d, left) /\ e = d + Len(left) /\ BeforeLine(F, sc, start, d, m)
    <2>1. CASE p = "as" \/ sc[k].length >= 0
      <3>1. sz = BodyLen(sc[k]) /\ Aligned(F, HeadOf(sc, start, k), buf)
            /\ Bytes(buf) >= sz /\ k \in 1 .. Len(sc)
        BY <1>1, <2>1
      <3>2. /\ body = OwnBody(sc[k], k)
            /\ Aligned(F, start[k + 1], left)
            /\ start[k + 1] + Len(left) = HeadOf(sc, start, k) + Len(buf)
        BY <1>2, <3>1, BodyTaken
      <3>3. BeforeLine(F, sc, start, start[k + 1], m)
        BY <1>1, NextBefore
      <3>4. body \in Seq(TokenSet)
        BY <1>3, <3>2, OwnBodyType
      <3>5. start[k + 1] + Len(left) = e
        BY <1>1, <3>2
      <3> HIDE DEF left, body, m, e
      <3> QED
        BY <3>2, <3>3, <3>4, <3>5
    <2>2. CASE ~(p = "as" \/ sc[k].length >= 0)
      <3>1. sc[k].length <= 0
        <4>1. sc[k].length \in -2 .. 2
          BY <1>3, ShapeFacts
        <4> QED
          BY <2>2, <4>1
      <3>2. BodyLen(sc[k]) = 0
        BY <1>3, <3>1, ShapeFacts
      <3>3. start[k + 1] = c
        BY <1>1, <3>2
      <3>4. /\ body \in Seq(TokenSet)
            /\ \E d : /\ Aligned(F, d, left) /\ d + Len(left) = start[k + 1] + Len(buf)
                      /\ BeforeLine(F, sc, start, d, k + 1)
        BY <1>1, <3>3, StaleTaken
      <3> HIDE DEF left, body
      <3> QED
        BY <2>2, <3>3, <3>4
    <2> QED
      BY <2>1, <2>2
  <1> HIDE DEF left, body, m, e
  <1>6. PICK d : Aligned(F, d, left) /\ e = d + Len(left) /\ BeforeLine(F, sc, start, d, m)
    BY <1>5
  <1>7. Reading(F, sc, start, d, m, p, "line", left, w, sz, nd, par)
    <2>1. /\ nd \in Nat /\ p # "chs" /\ (p = "ac" => ~(m \in 1 .. Len(sc)))
          /\ sz \in Nat /\ par \in Nat
      BY <1>1
    <2>2. d \in Nat
      BY <1>6 DEF Aligned
    <2> QED
      BY <1>4, <1>6, <2>1, <2>2, NextReading
  <1>8. p = "proxy" => par <= k
    BY <1>1
  <1>9. p = "as" => par = k
    BY <1>1
  <1> QED
    BY <1>1, <1>5, <1>7, <1>8, <1>9 DEF left, body, m

\* What follows the head of the last message and has its bytes is its body.
LEMMA LastBody ==
    ASSUME NEW N \in Nat, NEW sc \in [1 .. N -> Shapes], NEW F, NEW start, Laid(F, sc, start, N),
           NEW k \in 1 .. N, k = N, NEW s, Aligned(F, HeadOf(sc, start, k), s),
           Bytes(s) >= BodyLen(sc[k])
    PROVE  /\ s = OwnBody(sc[k], k)
           /\ HeadOf(sc, start, k) + Len(s) = Len(F)
  <1> DEFINE H == HeadOf(sc, start, k)
             n == BodyLen(sc[k])
             y == OwnBody(sc[k], k)
  <1>1. n \in Nat /\ Len(s) \in Nat /\ n <= Len(s) /\ \A j \in 1 .. n : s[j] = Token("byte", k)
    BY BodyArrived
  <1>2. Here(F, sc, start, k, LineOf(sc, start, k), H)
    BY Positions
  <1>3. H \in Nat /\ start[k + 1] = H + n
    BY <1>2 DEF Here
  <1>4. start[k + 1] = Len(F)
    BY DEF Laid
  <1>5. s \in Seq(TokenSet) /\ H + Len(s) <= Len(F)
    BY DEF Aligned
  <1>6. y \in Seq(TokenSet) /\ Len(y) = n /\ \A j \in 1 .. n : y[j] = Token("byte", k)
    <2>1. sc[k] \in Shapes /\ k \in Nat
      OBVIOUS
    <2> QED
      BY <2>1, OwnBodyType
  <1> HIDE DEF H, n, y
  <1>7. Len(s) = n /\ H + Len(s) = Len(F)
    BY <1>1, <1>3, <1>4, <1>5
  <1>8. \A i \in 1 .. Len(s) : s[i] = y[i]
    BY <1>1, <1>6, <1>7
  <1>9. s = y
    BY <1>5, <1>6, <1>7, <1>8, SeqEqual
  <1> QED
    BY <1>7, <1>9 DEF H, n, y

\* ac: all that is in the buffer is the body of the one message.
LEMMA PrintedReading ==
    ASSUME NEW sc \in Seq(Shapes), Len(sc) > 0, NEW F, NEW start, Laid(F, sc, start, Len(sc)),
           NEW c, NEW k, k = Len(sc), NEW p, p = "ac", NEW buf, NEW w, NEW sz, NEW nd, nd = 0, NEW par,
           Reading(F, sc, start, c, k, p, "body", buf, w, sz, nd, par)
    PROVE  /\ k \in 1 .. Len(sc) /\ par = k
           /\ buf \in Seq(TokenSet) /\ buf = OwnBody(sc[k], k)
           /\ \E c2 : Reading(F, sc, start, c2, k + 1, p, "line", <<>>, w, sz, nd, par)
  <1>1. /\ k \in 1 .. Len(sc) /\ c = HeadOf(sc, start, k)
        /\ Aligned(F, c, buf) /\ Aligned(F, c + Len(buf), w)
        /\ sz \in Nat /\ par \in Nat /\ par = k
        /\ buf \in Seq(TokenSet) /\ Bytes(buf) >= sz
        /\ sz = BodyLen(sc[k])
        /\ c \in Nat
    BY BodyReading
  <1>2. Len(sc) \in Nat /\ sc \in [1 .. Len(sc) -> Shapes]
    BY ScriptDomain
  <1>3. buf = OwnBody(sc[k], k) /\ c + Len(buf) = Len(F)
    <2>1. Aligned(F, HeadOf(sc, start, k), buf) /\ Bytes(buf) >= BodyLen(sc[k])
      BY <1>1
    <2>2. buf = OwnBody(sc[k], k) /\ HeadOf(sc, start, k) + Len(buf) = Len(F)
      BY <1>1, <1>2, <2>1, LastBody
    <2> QED
      BY <1>1, <2>2
  <1> DEFINE d == Len(F)
             m == k + 1
             x == <<>>
             e == c + Len(buf)
  <1>4. d \in Nat /\ F \in Seq(TokenSet)
    BY DEF Laid
  <1>5. e = d + Len(x)
    <2>1. Len(x) = 0 /\ d + 0 = d
      BY <1>4
    <2> QED
      BY <1>3, <2>1
  <1>6. Aligned(F, d, x)
    BY <1>4, AlignedEmpty
  <1>7. Aligned(F, e, w)
    BY <1>1
  <1>8. m \in Nat /\ BeforeLine(F, sc, start, d, m) /\ ~(m \in 1 .. Len(sc))
    BY <1>2 DEF BeforeLine
  <1> HIDE DEF d, m, x, e
  <1>9. Reading(F, sc, start, d, m, p, "line", x, w, sz, nd, par)
    <2>1. p # "chs" /\ p # "proxy" /\ nd \in Nat
      OBVIOUS
    <2> QED
      BY <1>1, <1>4, <1>5, <1>6, <1>7, <1>8, <2>1, NextReading
  <1> QED
    BY <1>1, <1>3, <1>9 DEF m, x

\* chs: the first token is of the one message, and what a request is made of is its body.
LEMMA RequestReading ==
    ASSUME NEW sc \in Seq(Shapes), Len(sc) > 0, NEW k, k = Len(sc),
           NEW F, NEW start, Laid(F, sc, start, Len(sc)),
           NEW c, NEW p, p = "chs", NEW o, NEW buf, NEW w, NEW sz, NEW nd, NEW par,
           Reading(F, sc, start, c, k, p, o, buf, w, sz, nd, par), HasGap(buf)
    PROVE  LET t == buf[HeadAt(buf)]
               body == AfterHead(buf)
               line == IF buf[1].kind = "blank" THEN "bad" ELSE sc[buf[1].of].line
           IN  /\ k \in 1 .. Len(sc) /\ body \in Seq(TokenSet)
               /\ t.of = k
               /\ /\ body # <<>> /\ ~(line = "POST" /\ t.length < 0) /\ size_ok(line, Len(body), t)
                  /\ ~(sc[k].line = "GET" /\ sc[k].length > 0)
                  => body = OwnBody(sc[k], k)
  <1> DEFINE t == buf[HeadAt(buf)]
             body == AfterHead(buf)
             line == IF buf[1].kind = "blank" THEN "bad" ELSE sc[buf[1].of].line
             H == HeadOf(sc, start, k)
             L == LineOf(sc, start, k)
  <1>1. Len(sc) \in Nat /\ sc \in [1 .. Len(sc) -> Shapes] /\ k \in 1 .. Len(sc)
    BY ScriptDomain
  <1>2. Here(F, sc, start, k, L, H)
    BY <1>1, Positions
  <1>3. k = 1 /\ c = 0 /\ Aligned(F, c, buf)
    BY DEF Reading
  <1>4. start[k] = c /\ start[k + 1] = Len(F) /\ Len(F) \in Nat /\ c \in Nat
    <2>1. start[1] = 0 /\ start[Len(sc) + 1] = Len(F) /\ Len(F) \in Nat
      BY DEF Laid
    <2> QED
      BY <1>3, <2>1
  <1> HIDE DEF H, L
  <1>5. /\ H \in Nat /\ L \in Nat /\ L >= c + 1 /\ H = L + 1 /\ start[k + 1] = H + BodyLen(sc[k])
        /\ F[L].of = k /\ \A q \in start[k] + 1 .. L - 1 : F[q].of = k
    BY <1>2, <1>4 DEF Here
  <1>6. /\ HeadAt(buf) = H - c /\ H - c \in 1 .. Len(buf)
        /\ buf[H - c].of = k /\ buf[H - c].length = sc[k].length
        /\ Aligned(F, H, body) /\ H + Len(body) = c + Len(buf)
    <2>1. start[k] <= c /\ c < H /\ H = HeadOf(sc, start, k) /\ Aligned(F, c, buf)
      BY <1>3, <1>4, <1>5 DEF H
    <2> QED
      BY <1>1, <2>1, HeadFound
  <1>7. /\ sc[k].length \in -2 .. 2 /\ BodyLen(sc[k]) \in Nat
        /\ (sc[k].length >= 0 => BodyLen(sc[k]) = sc[k].length)
        /\ (sc[k].length <= 0 => BodyLen(sc[k]) = 0)
    <2>1. sc[k] \in Shapes
      BY <1>1
    <2> QED
      BY <2>1, ShapeFacts
  <1>8. t.of = k /\ t.length = sc[k].length
    BY <1>6
  <1> HIDE DEF body
  <1>9. body \in Seq(TokenSet) /\ Len(body) \in Nat /\ H + Len(body) <= Len(F)
    BY <1>6 DEF Aligned
  <1>10. buf[1].of = k
    <2>1. 1 \in 1 .. Len(buf)
      <3>1. Len(buf) \in Nat
        BY <1>3 DEF Aligned
      <3> QED
        BY <1>6, <3>1
    <2>2. Like(buf[1], F[c + 1])
      BY <1>3, <2>1 DEF Aligned
    <2>3. F[c + 1].of = k
      <3>1. CASE L = c + 1
        BY <1>5, <3>1
      <3>2. CASE L # c + 1
        <4>1. c + 1 \in start[k] + 1 .. L - 1
          BY <1>4, <1>5, <3>2
        <4> QED
          BY <1>5, <4>1
      <3> QED
        BY <3>1, <3>2
    <2> QED
      BY <2>2, <2>3 DEF Like
  <1>11. ASSUME body # <<>>, ~(line = "POST" /\ t.length < 0), size_ok(line, Len(body), t),
                ~(sc[k].line = "GET" /\ sc[k].length > 0)
         PROVE  body = OwnBody(sc[k], k)
    <2>1. Len(body) > 0
      BY <1>9, <1>11
    <2>2. line \in {"GET", "POST"}
      BY <1>11 DEF size_ok
    <2>3. line = sc[k].line
      BY <1>10, <2>2
    <2>4. line # "GET"
      <3>1. ASSUME line = "GET" PROVE FALSE
        <4>1. sc[k].length <= 0
          BY <1>7, <1>11, <2>3, <3>1
        <4>2. BodyLen(sc[k]) = 0
          BY <1>7, <4>1
        <4> QED
          BY <1>4, <1>5, <1>9, <2>1, <4>2
      <3> QED
        BY <3>1
    <2>5. line = "POST"
      BY <2>2, <2>4
    <2>6. headval(t) <= Len(body)
      BY <1>11, <2>5 DEF size_ok
    <2> HIDE DEF line, t
    <2>7. BodyLen(sc[k]) <= Len(body)
      BY <1>7, <1>8, <1>11, <2>5, <2>6 DEF headval
    <2>8. Bytes(body) >= Len(body) /\ Bytes(body) \in Nat
      <3>1. Bytes(body) = Len(body) + Cardinality(Lines(body)) /\ Cardinality(Lines(body)) \in Nat
        BY <1>9, LinesFinite
      <3> QED
        BY <1>9, <3>1
    <2>9. Bytes(body) >= BodyLen(sc[k])
      BY <1>7, <1>9, <2>7, <2>8
    <2>10. Aligned(F, HeadOf(sc, start, k), body)
      BY <1>6 DEF H
    <2> QED
      BY <1>1, <2>9, <2>10, LastBody
  <1> QED
    BY <1>1, <1>8, <1>9, <1>11 DEF body

-----------------------------------------------------------------------------
(* What every step keeps                                                    *)

\* The property in terms of what is handed over of one message.
OwnAll(p, sc, hd) == \A i \in DOMAIN hd : OwnOf(p, sc, i, hd[i])

\* OwnRequest is OwnOf of every message that was handed over.
LEMMA OwnRequestIs == OwnRequest <=> OwnAll(prog, script, handed)
  BY DEF OwnRequest, OwnAll, OwnOf, BodyLen

\* OwnRequest after a step.
LEMMA OwnRequestIsNext == OwnRequest' <=> OwnAll(prog', script', handed')
  BY DEF OwnRequest, OwnAll, OwnOf, BodyLen

\* Where the reader is, of the message after those that were handed over.
Somewhere(p, sc, hd, o, buf, w, sz, nd, par) ==
    \E start, c : /\ Laid(Stream(sc), sc, start, Len(sc))
                  /\ Reading(Stream(sc), sc, start, c, Len(hd) + 1, p, o, buf, w, sz, nd, par)

\* A step that hands nothing over.
LEMMA OwnKeep ==
    ASSUME OwnInv, UNCHANGED <<prog, script, handed>>,
           op' # "none" => Somewhere(prog, script, handed, op', rsbuf', wire', size', need', params')
    PROVE  OwnInv'
  <1>1. OwnTypeOK /\ (OwnRequest \/ GetHasBody)
    BY DEF OwnInv
  <1>2. OwnTypeOK'
    BY <1>1 DEF OwnTypeOK
  <1>3. OwnRequest' \/ GetHasBody'
    <2>1. GetHasBody => GetHasBody'
      BY DEF GetHasBody
    <2>2. OwnRequest => OwnRequest'
      BY DEF OwnRequest
    <2> QED
      BY <1>1, <2>1, <2>2
  <1> QED
    BY <1>2, <1>3 DEF OwnInv, Somewhere

\* A step that hands over what belongs to the message under way.
LEMMA OwnHand ==
    ASSUME OwnInv, UNCHANGED <<prog, script>>,
           NEW m \in Nat, NEW b \in Seq(TokenSet), Hand(m, b),
           OwnOf(prog, script, Len(handed) + 1, [line |-> m, body |-> b]) \/ GetHasBody,
           op' # "none" => Somewhere(prog, script, handed', op', rsbuf', wire', size', need', params')
    PROVE  OwnInv'
  <1> DEFINE h == [line |-> m, body |-> b]
  <1>1. OwnTypeOK /\ (OwnRequest \/ GetHasBody)
    BY DEF OwnInv
  <1>2. handed \in Seq(Handed) /\ h \in Handed /\ handed' = Append(handed, h)
    BY <1>1 DEF OwnTypeOK, Handed, Hand
  <1> HIDE DEF h
  <1>3. /\ handed' \in Seq(Handed) /\ Len(handed') = Len(handed) + 1 /\ Len(handed) \in Nat
        /\ DOMAIN handed = 1 .. Len(handed) /\ DOMAIN handed' = 1 .. Len(handed) + 1
        /\ \A i \in 1 .. Len(handed) : handed'[i] = handed[i]
        /\ handed'[Len(handed) + 1] = h
    BY <1>2, AppendProperties
  <1>4. OwnTypeOK'
    BY <1>1, <1>3 DEF OwnTypeOK
  <1>5. OwnRequest' \/ GetHasBody'
    <2>1. GetHasBody => GetHasBody'
      BY DEF GetHasBody
    <2>2. CASE ~GetHasBody
      <3>1. OwnAll(prog, script, handed)
        BY <1>1, <2>2, OwnRequestIs
      <3>2. OwnOf(prog, script, Len(handed) + 1, h)
        BY <2>2 DEF h
      <3>3. ASSUME NEW i \in DOMAIN handed'
            PROVE  OwnOf(prog, script, i, handed'[i])
        <4>1. CASE i = Len(handed) + 1
          BY <1>3, <3>2, <4>1
        <4>2. CASE i # Len(handed) + 1
          <5>1. i \in 1 .. Len(handed)
            BY <1>3, <4>2
          <5>2. OwnOf(prog, script, i, handed[i]) /\ handed'[i] = handed[i]
            BY <1>3, <3>1, <5>1 DEF OwnAll
          <5> QED
            BY <5>2
        <4> QED
          BY <4>1, <4>2
      <3>4. OwnAll(prog, script, handed')
        BY <3>3 DEF OwnAll
      <3>5. OwnAll(prog', script', handed')
        BY <3>4
      <3> QED
        BY <3>5, OwnRequestIsNext
    <2> QED
      BY <2>1, <2>2
  <1> QED
    BY <1>4, <1>5 DEF OwnInv, Somewhere

\* Where a reader is that has not given up.
LEMMA OwnSomewhere ==
    ASSUME OwnInv, op # "none"
    PROVE  \E start, c :
               /\ Laid(Stream(script), script, start, Len(script))
               /\ Reading(Stream(script), script, start, c, Len(handed) + 1,
                          prog, op, rsbuf, wire, size, need, params)
               /\ Stream(script) \in Seq(TokenSet)
               /\ script \in Seq(Shapes) /\ Len(script) > 0
               /\ prog \in {"ac", "chs"} => Len(script) = 1
  BY DEF OwnInv, OwnTypeOK, Laid

\* Where the reader is at the beginning.
LEMMA OwnInit == HttpInit => OwnInv
  <1> SUFFICES ASSUME HttpInit PROVE OwnInv
    OBVIOUS
  <1>1. PICK N \in Nat : /\ N > 0 /\ script \in [1 .. N -> Shapes]
                         /\ prog \in {"ac", "chs"} => N = 1
    <2>1. CASE prog \in {"ac", "chs"}
      BY <2>1 DEF HttpInit
    <2>2. CASE ~(prog \in {"ac", "chs"})
      <3>1. PICK n \in 1 .. MaxMessages : script \in [1 .. n -> Shapes]
        BY <2>2 DEF HttpInit
      <3>2. n \in Nat /\ n > 0
        OBVIOUS
      <3> QED
        BY <2>2, <3>1, <3>2
    <2> QED
      BY <2>1, <2>2
  <1>2. script \in Seq(Shapes) /\ Len(script) = N
    BY <1>1
  <1>3. /\ prog \in {"as", "ac", "proxy", "chs"}
        /\ rsbuf = <<>> /\ op = "start" /\ need = 0 /\ size = 0 /\ params = 0 /\ handed = <<>>
        /\ wire = Stream(script)
    BY DEF HttpInit, None, Stream
  <1>4. OwnTypeOK
    <2>1. handed \in Seq(Handed)
      BY <1>3
    <2> QED
      BY <1>1, <1>2, <1>3, <2>1 DEF OwnTypeOK
  <1>5. OwnRequest
    BY <1>3 DEF OwnRequest
  <1>6. PICK start : Laid(Stream(script), script, start, Len(script))
    BY <1>1, <1>2, StreamLaid
  <1> DEFINE F == Stream(script)
             c == 0
             k == 1
             o == "start"
             buf == <<>>
  <1>7. F \in Seq(TokenSet) /\ Len(F) \in Nat
    BY <1>6 DEF Laid
  <1>8. Aligned(F, c, buf) /\ Len(buf) = 0 /\ c + Len(buf) = c
    BY <1>7, AlignedEmpty
  <1>9. Aligned(F, c, F)
    <2>1. \A i \in 1 .. Len(F) : Like(F[i], F[0 + i])
      BY <1>7 DEF Like
    <2> QED
      BY <1>7, <2>1 DEF Aligned
  <1>10. BeforeLine(F, script, start, c, k)
    <2>1. k \in 1 .. Len(script) /\ Len(script) \in Nat /\ script \in [1 .. Len(script) -> Shapes]
      BY <1>1, <1>2
    <2>2. start[1] = 0
      BY <1>6 DEF Laid
    <2>3. Here(F, script, start, k, LineOf(script, start, k), HeadOf(script, start, k))
      <3> HIDE DEF k
      <3> QED
        BY <1>6, <2>1, Positions
    <2>4. start[k] \in Nat /\ start[k] < LineOf(script, start, k)
      BY <2>3 DEF Here
    <2> QED
      BY <2>1, <2>2, <2>4 DEF BeforeLine
  <1>11. AtStart(F, script, start, c, k, prog, size)
    BY <1>3, <1>10 DEF AtStart
  <1>12. o \in BetweenMessages /\ o \notin {"connect", "write", "more", "try", "line", "head", "body"}
    BY DEF BetweenMessages
  <1>13. c = 0 /\ k = 1 /\ params <= k /\ size \in Nat /\ need \in Nat /\ params \in Nat
    BY <1>3
  <1>14. op = o /\ rsbuf = buf /\ wire = F /\ Len(handed) + 1 = k
    BY <1>3
  <1>15. Aligned(F, c + Len(buf), wire)
    BY <1>8, <1>9, <1>14
  <1> HIDE DEF F, c, k, o, buf
  <1>16. Reading(F, script, start, c, k, prog, o, buf, wire, size, need, params)
    BY <1>8, <1>11, <1>12, <1>13, <1>15 DEF Reading
  <1>17. Reading(F, script, start, c, Len(handed) + 1, prog, op, rsbuf, wire, size, need, params)
    BY <1>14, <1>16
  <1> QED
    BY <1>4, <1>5, <1>6, <1>17 DEF OwnInv, F

-----------------------------------------------------------------------------
(* The steps of the readers                                                 *)

\* A piece of the stream arrives.
LEMMA ReceiveOwn == OwnInv /\ Receive => OwnInv'
  <1> SUFFICES ASSUME OwnInv, Receive PROVE OwnInv'
    OBVIOUS
  <1>1. /\ op \in {"line", "head", "body", "more"} /\ op # "none"
        /\ UNCHANGED <<prog, script, handed, size, params>>
    BY DEF Receive
  <1>2. PICK start, c :
            /\ Laid(Stream(script), script, start, Len(script))
            /\ Reading(Stream(script), script, start, c, Len(handed) + 1,
                       prog, op, rsbuf, wire, size, need, params)
            /\ Stream(script) \in Seq(TokenSet)
    BY <1>1, OwnSomewhere
  <1>3. PICK j \in 1 .. Len(wire) :
            /\ rsbuf' = rsbuf \o SubSeq(wire, 1, j)
            /\ wire' = SubSeq(wire, j + 1, Len(wire))
            /\ need' = LET left == need - Bytes(SubSeq(wire, 1, j)) IN IF left > 0 THEN left ELSE 0
            /\ op' = IF op = "more" THEN "try" ELSE op
    BY DEF Receive
  <1>4. Reading(Stream(script), script, start, c, Len(handed) + 1,
                prog, op', rsbuf', wire', size, need', params)
    BY <1>2, <1>3, ReceiveReading
  <1> QED
    BY <1>1, <1>2, <1>4, OwnKeep DEF Somewhere

\* The reader gives up.
LEMMA GiveUpOwn ==
    ASSUME OwnInv, UNCHANGED <<prog, script, handed>>, op' = "none"
    PROVE  OwnInv'
  BY OwnKeep

\* Nothing of the reader changes.
LEMMA StillOwn ==
    ASSUME OwnInv, UNCHANGED <<prog, script, handed, op, rsbuf, wire, size, need, params>>
    PROVE  OwnInv'
  <1>1. ASSUME op # "none"
        PROVE  Somewhere(prog, script, handed, op', rsbuf', wire', size', need', params')
    BY <1>1, OwnSomewhere DEF Somewhere
  <1> QED
    BY <1>1, OwnKeep

\* The starts: the reader waits for something else.
LEMMA StartOwn ==
    ASSUME OwnInv, UNCHANGED <<prog, script, handed, rsbuf, wire, size, need, params>>,
           op \in BetweenMessages, op # "none", op' \in BetweenMessages,
           op' \in {"connect", "write"} => prog = "ac",
           op' \in {"more", "try"} => prog = "chs",
           op' = "line" => prog # "chs"
    PROVE  OwnInv'
  <1>1. PICK start, c :
            /\ Laid(Stream(script), script, start, Len(script))
            /\ Reading(Stream(script), script, start, c, Len(handed) + 1,
                       prog, op, rsbuf, wire, size, need, params)
    BY OwnSomewhere
  <1>2. Reading(Stream(script), script, start, c, Len(handed) + 1,
                prog, op', rsbuf, wire, size, need, params)
    BY <1>1, StartReading
  <1> QED
    BY <1>1, <1>2, OwnKeep DEF Somewhere

\* The handlers that come before the first read.
LEMMA StartsOwn ==
    OwnInv /\ (\/ handle_accept \/ ready \/ connection
               \/ handle_resolve \/ handle_connect \/ handle_write_request) => OwnInv'
  <1> SUFFICES ASSUME OwnInv, \/ handle_accept \/ ready \/ connection
                              \/ handle_resolve \/ handle_connect \/ handle_write_request
               PROVE  OwnInv'
    OBVIOUS
  <1>0. {"start", "connect", "write", "line", "more"} \subseteq BetweenMessages
    BY DEF BetweenMessages
  <1>1. CASE handle_accept
    BY <1>0, <1>1, StartOwn DEF handle_accept, writeVars
  <1>2. CASE ready
    BY <1>0, <1>2, StartOwn DEF ready, writeVars
  <1>3. CASE connection
    BY <1>0, <1>3, StartOwn DEF connection, writeVars
  <1>4. CASE handle_resolve
    BY <1>0, <1>4, StartOwn, GiveUpOwn DEF handle_resolve, writeVars
  <1>5. ASSUME op \in {"connect", "write"} PROVE prog = "ac"
    <2>1. op # "none"
      BY <1>5
    <2> QED
      BY <1>5, <2>1, OwnSomewhere DEF Reading
  <1>6. CASE handle_connect
    BY <1>0, <1>5, <1>6, StartOwn, GiveUpOwn DEF handle_connect, writeVars
  <1>7. CASE handle_write_request
    BY <1>0, <1>5, <1>7, StartOwn, GiveUpOwn DEF handle_write_request, writeVars
  <1> QED
    BY <1>1, <1>2, <1>3, <1>4, <1>6, <1>7

\* A line is in the buffer: either there were blank lines only, or the first line is that
\* of the message under way.
LEMMA LineOwn ==
    ASSUME OwnInv, op = "line", Satisfied
    PROVE  /\ size \in Nat /\ params \in Nat /\ Len(handed) + 1 \in Nat /\ (prog = "ac" => size = 0)
           /\ prog = "proxy" => params <= Len(handed) + 1
           /\ \/ /\ Skipped(rsbuf) = <<>>
                 /\ \A sz2 \in Nat, par2 \in Nat :
                        (prog = "proxy" => par2 <= Len(handed) + 1) /\ (prog = "ac" => sz2 = 0) =>
                            Somewhere(prog, script, handed, "line", <<>>, wire, sz2, need, par2)
                 /\ prog = "proxy" =>
                        Somewhere(prog, script, handed, "head", <<>>, wire, size, need, params)
              \/ /\ Skipped(rsbuf) # <<>> /\ Head(Skipped(rsbuf)).of = Len(handed) + 1
                 /\ \A sz2 \in Nat, par2 \in Nat :
                        /\ prog = "proxy" => par2 <= Len(handed) + 1
                        /\ prog # "proxy" => par2 = Len(handed) + 1 /\ sz2 = 0
                        => Somewhere(prog, script, handed, "head", Tail(Skipped(rsbuf)), wire,
                                     sz2, need, par2)
  <1> DEFINE k == Len(handed) + 1
             F == Stream(script)
  <1>1. PICK start, c :
            /\ Laid(F, script, start, Len(script))
            /\ Reading(F, script, start, c, k, prog, "line", rsbuf, wire, size, need, params)
            /\ script \in Seq(Shapes) /\ Len(script) > 0
    BY OwnSomewhere
  <1>2. HasLine(rsbuf)
    BY DEF Satisfied
  <1>3. k \in Nat
    BY DEF OwnInv, OwnTypeOK
  <1> HIDE DEF k, F
  <1>4. /\ k \in 1 .. Len(script) /\ prog # "chs" /\ (prog = "ac" => size = 0)
        /\ size \in Nat /\ need \in Nat /\ params \in Nat /\ (prog = "proxy" => params <= k)
        /\ \/ /\ Skipped(rsbuf) = <<>>
              /\ \A sz2 \in Nat, par2 \in Nat :
                     (prog = "proxy" => par2 <= k) /\ (prog = "ac" => sz2 = 0) =>
                         Reading(F, script, start, c + Len(rsbuf), k, prog, "line", <<>>, wire,
                                 sz2, need, par2)
              /\ \A par2 \in Nat :
                     prog = "proxy" /\ par2 <= k =>
                         Reading(F, script, start, c + Len(rsbuf), k, prog, "head", <<>>, wire,
                                 size, need, par2)
           \/ /\ Skipped(rsbuf) # <<>> /\ Head(Skipped(rsbuf)).of = k
              /\ \A sz2 \in Nat, par2 \in Nat :
                     (prog = "proxy" => par2 <= k) /\ (prog # "proxy" => par2 = k /\ sz2 = 0) =>
                         Reading(F, script, start, LineOf(script, start, k), k, prog, "head",
                                 Tail(Skipped(rsbuf)), wire, sz2, need, par2)
    BY <1>1, <1>2, LineReading
  <1>5. \A d, o, buf, sz2, par2 :
            Reading(F, script, start, d, k, prog, o, buf, wire, sz2, need, par2)
            => Somewhere(prog, script, handed, o, buf, wire, sz2, need, par2)
    BY <1>1 DEF Somewhere, k, F
  <1>6. CASE /\ Skipped(rsbuf) = <<>>
             /\ \A sz2 \in Nat, par2 \in Nat :
                    (prog = "proxy" => par2 <= k) /\ (prog = "ac" => sz2 = 0) =>
                        Reading(F, script, start, c + Len(rsbuf), k, prog, "line", <<>>, wire,
                                sz2, need, par2)
             /\ \A par2 \in Nat :
                    prog = "proxy" /\ par2 <= k =>
                        Reading(F, script, start, c + Len(rsbuf), k, prog, "head", <<>>, wire,
                                size, need, par2)
    <2>1. \A sz2 \in Nat, par2 \in Nat :
              (prog = "proxy" => par2 <= k) /\ (prog = "ac" => sz2 = 0) =>
                  Somewhere(prog, script, handed, "line", <<>>, wire, sz2, need, par2)
      BY <1>5, <1>6
    <2>2. prog = "proxy" => Somewhere(prog, script, handed, "head", <<>>, wire, size, need, params)
      BY <1>4, <1>5, <1>6
    <2> QED
      BY <1>3, <1>4, <1>6, <2>1, <2>2 DEF k
  <1>7. CASE /\ Skipped(rsbuf) # <<>> /\ Head(Skipped(rsbuf)).of = k
             /\ \A sz2 \in Nat, par2 \in Nat :
                    (prog = "proxy" => par2 <= k) /\ (prog # "proxy" => par2 = k /\ sz2 = 0) =>
                        Reading(F, script, start, LineOf(script, start, k), k, prog, "head",
                                Tail(Skipped(rsbuf)), wire, sz2, need, par2)
    <2>1. \A sz2 \in Nat, par2 \in Nat :
              (prog = "proxy" => par2 <= k) /\ (prog # "proxy" => par2 = k /\ sz2 = 0) =>
                  Somewhere(prog, script, handed, "head", Tail(Skipped(rsbuf)), wire, sz2, need, par2)
      BY <1>5, <1>7
    <2> QED
      BY <1>3, <1>4, <1>7, <2>1 DEF k
  <1> QED
    BY <1>4, <1>6, <1>7

\* as: the request that starts has nothing of the one before.
LEMMA MethodLineOwn == OwnInv /\ handle_method_line => OwnInv'
  <1> SUFFICES ASSUME OwnInv, handle_method_line PROVE OwnInv'
    OBVIOUS
  <1>1. /\ prog = "as" /\ op = "line" /\ Satisfied /\ size' = 0
        /\ rsbuf' = IF Skipped(rsbuf) = <<>> THEN <<>> ELSE Tail(Skipped(rsbuf))
        /\ IF Skipped(rsbuf) = <<>>
           THEN op' = "line" /\ UNCHANGED params
           ELSE op' = "head" /\ params' = Head(Skipped(rsbuf)).of
        /\ UNCHANGED <<prog, script, handed, wire, need>>
    BY DEF handle_method_line, http_request
  <1>2. 0 \in Nat /\ params \in Nat /\ Len(handed) + 1 \in Nat
    BY <1>1, LineOwn
  <1>3. CASE Skipped(rsbuf) = <<>>
    <2>1. Somewhere(prog, script, handed, "line", <<>>, wire, 0, need, params)
      BY <1>1, <1>2, <1>3, LineOwn
    <2> QED
      BY <1>1, <1>3, <2>1, OwnKeep
  <1>4. CASE Skipped(rsbuf) # <<>>
    <2>1. params' = Len(handed) + 1
      BY <1>1, <1>4, LineOwn
    <2>2. Somewhere(prog, script, handed, "head", Tail(Skipped(rsbuf)), wire, 0, need, params')
      BY <1>1, <1>2, <1>4, <2>1, LineOwn
    <2> QED
      BY <1>1, <1>4, <2>2, OwnKeep
  <1> QED
    BY <1>3, <1>4

\* ac: the first line of the one message.
LEMMA StatusLineOwn == OwnInv /\ handle_read_status_line => OwnInv'
  <1> SUFFICES ASSUME OwnInv, handle_read_status_line PROVE OwnInv'
    OBVIOUS
  <1>1. /\ prog = "ac" /\ op = "line" /\ Satisfied /\ size' = size
        /\ rsbuf' = IF Skipped(rsbuf) = <<>> THEN <<>> ELSE Tail(Skipped(rsbuf))
        /\ IF Skipped(rsbuf) = <<>> \/ Head(Skipped(rsbuf)).cut
           THEN op' = "none" /\ UNCHANGED params
           ELSE op' = "head" /\ params' = Head(Skipped(rsbuf)).of
        /\ UNCHANGED <<prog, script, handed, wire, need>>
    BY DEF handle_read_status_line
  <1>2. size \in Nat /\ size = 0 /\ Len(handed) + 1 \in Nat
    BY <1>1, LineOwn
  <1>3. CASE Skipped(rsbuf) = <<>> \/ Head(Skipped(rsbuf)).cut
    BY <1>1, <1>3, GiveUpOwn
  <1>4. CASE ~(Skipped(rsbuf) = <<>> \/ Head(Skipped(rsbuf)).cut)
    <2>1. params' = Len(handed) + 1
      BY <1>1, <1>4, LineOwn
    <2>2. Somewhere(prog, script, handed, "head", Tail(Skipped(rsbuf)), wire, size, need, params')
      BY <1>1, <1>2, <1>4, <2>1, LineOwn
    <2> QED
      BY <1>1, <1>4, <2>2, OwnKeep
  <1> QED
    BY <1>3, <1>4

\* proxy: the parameters are those it has had, or those of the message under way.
LEMMA MethodLineOfProxyOwn == OwnInv /\ MethodLineOfProxy => OwnInv'
  <1> SUFFICES ASSUME OwnInv, MethodLineOfProxy PROVE OwnInv'
    OBVIOUS
  <1>1. /\ prog = "proxy" /\ op = "line" /\ Satisfied /\ op' = "head"
        /\ UNCHANGED <<prog, script, handed, wire, size, need>>
        /\ rsbuf' = parse_status_line(rsbuf).rsbuf
        /\ params' = parse_status_line(rsbuf).params
    BY DEF MethodLineOfProxy
  <1>2. size \in Nat /\ params \in Nat /\ Len(handed) + 1 \in Nat /\ params <= Len(handed) + 1
    BY <1>1, LineOwn
  <1>3. CASE Skipped(rsbuf) = <<>>
    <2>1. rsbuf' = <<>> /\ params' = params
      BY <1>1, <1>3 DEF parse_status_line
    <2>2. Somewhere(prog, script, handed, "head", <<>>, wire, size, need, params)
      BY <1>1, <1>3, LineOwn
    <2> QED
      BY <1>1, <2>1, <2>2, OwnKeep
  <1>4. CASE Skipped(rsbuf) # <<>>
    <2>1. /\ rsbuf' = Tail(Skipped(rsbuf))
          /\ params' = params \/ params' = Head(Skipped(rsbuf)).of
      BY <1>1, <1>4 DEF parse_status_line, path_params
    <2>2. Head(Skipped(rsbuf)).of = Len(handed) + 1
      BY <1>1, <1>4, LineOwn
    <2>3. params' \in Nat /\ params' <= Len(handed) + 1
      BY <1>2, <2>1, <2>2
    <2>4. Somewhere(prog, script, handed, "head", Tail(Skipped(rsbuf)), wire, size, need, params')
      BY <1>1, <1>2, <1>4, <2>3, LineOwn
    <2> QED
      BY <1>1, <2>1, <2>4, OwnKeep
  <1> QED
    BY <1>3, <1>4

\* The header is in the buffer: the body follows, and what is to come of it is waited for.
LEMMA HeadOwn ==
    ASSUME OwnInv, op = "head", Satisfied
    PROVE  LET sz2 == parse_header_line(rsbuf[HeadAt(rsbuf)])
           IN  /\ sz2 \in Nat /\ AfterHead(rsbuf) \in Seq(TokenSet) /\ Bytes(AfterHead(rsbuf)) \in Nat
               /\ \A nd2 \in Nat : Bytes(AfterHead(rsbuf)) + nd2 >= sz2 =>
                      Somewhere(prog, script, handed, "body", AfterHead(rsbuf), wire, sz2, nd2, params)
  <1> DEFINE k == Len(handed) + 1
             F == Stream(script)
             t == rsbuf[HeadAt(rsbuf)]
             sz2 == parse_header_line(t)
  <1>1. PICK start, c :
            /\ Laid(F, script, start, Len(script))
            /\ Reading(F, script, start, c, k, prog, "head", rsbuf, wire, size, need, params)
            /\ script \in Seq(Shapes) /\ Len(script) > 0
    BY OwnSomewhere
  <1>2. HasGap(rsbuf)
    BY DEF Satisfied
  <1>3. sz2 = IF t.length >= 0 THEN t.length ELSE size
    BY DEF parse_header_line
  <1> HIDE DEF k, F, sz2
  <1>4. /\ sz2 \in Nat /\ AfterHead(rsbuf) \in Seq(TokenSet)
        /\ \A nd2 \in Nat : Bytes(AfterHead(rsbuf)) + nd2 >= sz2 =>
               Reading(F, script, start, HeadOf(script, start, k), k, prog, "body",
                       AfterHead(rsbuf), wire, sz2, nd2, params)
    BY <1>1, <1>2, <1>3, HeadReading
  <1>5. Bytes(AfterHead(rsbuf)) \in Nat
    BY <1>4, LinesFinite
  <1>6. \A d, buf, nd2 :
            Reading(F, script, start, d, k, prog, "body", buf, wire, sz2, nd2, params)
            => Somewhere(prog, script, handed, "body", buf, wire, sz2, nd2, params)
    BY <1>1 DEF Somewhere, k, F
  <1>7. \A nd2 \in Nat : Bytes(AfterHead(rsbuf)) + nd2 >= sz2 =>
            Somewhere(prog, script, handed, "body", AfterHead(rsbuf), wire, sz2, nd2, params)
    BY <1>4, <1>6
  <1> QED
    BY <1>4, <1>5, <1>7 DEF sz2

\* as waits for the whole body, ac and the proxies for what is missing of it.
LEMMA HeadersOwn == OwnInv /\ (handle_headers \/ handle_read_headers \/ HeadersOfProxy) => OwnInv'
  <1> SUFFICES ASSUME OwnInv, handle_headers \/ handle_read_headers \/ HeadersOfProxy PROVE OwnInv'
    OBVIOUS
  <1> DEFINE after == AfterHead(rsbuf)
             t == rsbuf[HeadAt(rsbuf)]
  <1>1. /\ op = "head" /\ Satisfied
        /\ rsbuf' = after /\ size' = parse_header_line(t)
        /\ UNCHANGED <<prog, script, handed, wire, params>>
        /\ \/ op' = "none"
           \/ /\ op' = "body"
              /\ \/ need' = size'
                 \/ need' = 0 /\ Bytes(after) >= size'
                 \/ need' = Need(size', after)
    BY DEF handle_headers, handle_read_headers, HeadersOfProxy
  <1>2. /\ size' \in Nat /\ Bytes(after) \in Nat
        /\ \A nd2 \in Nat : Bytes(after) + nd2 >= size' =>
               Somewhere(prog, script, handed, "body", after, wire, size', nd2, params)
    BY <1>1, HeadOwn
  <1> HIDE DEF after, t
  <1>3. CASE op' = "none"
    BY <1>1, <1>3, GiveUpOwn
  <1>4. CASE op' # "none"
    <2>1. op' = "body"
      BY <1>1, <1>4
    <2>2. need' \in Nat /\ Bytes(after) + need' >= size'
      <3>1. CASE need' = size'
        BY <1>2, <3>1
      <3>2. CASE need' = 0 /\ Bytes(after) >= size'
        BY <1>2, <3>2
      <3>3. CASE need' = Need(size', after)
        BY <1>2, <3>3 DEF Need
      <3> QED
        BY <1>1, <1>4, <3>1, <3>2, <3>3
    <2>3. Somewhere(prog, script, handed, "body", after, wire, size', need', params)
      BY <1>2, <2>2
    <2> QED
      BY <1>1, <2>1, <2>3, OwnKeep
  <1> QED
    BY <1>3, <1>4

\* as and the proxies: the bytes of the body are there.
LEMMA BodyOwn ==
    ASSUME OwnInv, op = "body", Satisfied, prog \in {"as", "proxy"}
    PROVE  /\ params \in Nat /\ Taken(rsbuf, size) \in Seq(TokenSet)
           /\ OwnOf(prog, script, Len(handed) + 1, [line |-> params, body |-> Taken(rsbuf, size)])
           /\ \A hd : Len(hd) = Len(handed) + 1 =>
                  Somewhere(prog, script, hd, "line", Rest(rsbuf, size), wire, size, need, params)
  <1> DEFINE k == Len(handed) + 1
             F == Stream(script)
             b == Taken(rsbuf, size)
             left == Rest(rsbuf, size)
  <1>1. PICK start, c :
            /\ Laid(F, script, start, Len(script))
            /\ Reading(F, script, start, c, k, prog, "body", rsbuf, wire, size, need, params)
            /\ script \in Seq(Shapes) /\ Len(script) > 0
    BY OwnSomewhere
  <1>2. need = 0
    BY DEF Satisfied
  <1> HIDE DEF k, F
  <1>3. Reading(F, script, start, c, k, prog, "body", rsbuf, wire, size, need, params)
    BY <1>1
  <1>4. /\ params \in Nat /\ (prog = "proxy" => params <= k) /\ (prog = "as" => params = k)
        /\ b \in Seq(TokenSet)
        /\ prog = "as" \/ script[k].length >= 0 => b = OwnBody(script[k], k)
        /\ \E c2 : Reading(F, script, start, c2, k + 1, prog, "line", left, wire, size, need, params)
    <2>1. /\ Laid(F, script, start, Len(script))
          /\ script \in Seq(Shapes) /\ Len(script) > 0 /\ (prog = "as" \/ prog = "proxy")
      BY <1>1
    <2> HIDE DEF b, left
    <2>2. /\ params \in Nat /\ (prog = "proxy" => params <= k) /\ (prog = "as" => params = k)
          /\ Taken(rsbuf, size) \in Seq(TokenSet)
          /\ prog = "as" \/ script[k].length >= 0 => Taken(rsbuf, size) = OwnBody(script[k], k)
          /\ \E c2 : Reading(F, script, start, c2, k + 1, prog, "line", Rest(rsbuf, size),
                             wire, size, need, params)
      BY <1>2, <1>3, <2>1, TakenReading
    <2> QED
      BY <2>2 DEF b, left
  <1> HIDE DEF b, left
  <1>5. OwnOf(prog, script, k, [line |-> params, body |-> b])
    BY <1>4 DEF OwnOf, OwnBody
  <1>6. ASSUME NEW hd, Len(hd) = k
        PROVE  Somewhere(prog, script, hd, "line", left, wire, size, need, params)
    BY <1>1, <1>4, <1>6 DEF Somewhere, F
  <1> QED
    BY <1>4, <1>5, <1>6 DEF b, left, k

\* One more message that is handed over.
LEMMA HandCounts ==
    ASSUME OwnInv, NEW m \in Nat, NEW b \in Seq(TokenSet), Hand(m, b)
    PROVE  Len(handed') = Len(handed) + 1
  <1>1. handed \in Seq(Handed) /\ [line |-> m, body |-> b] \in Handed
    BY DEF OwnInv, OwnTypeOK, Handed
  <1> QED
    BY <1>1, AppendProperties DEF Hand

\* as: the request is handed over with its own body.
LEMMA ContentOwn == OwnInv /\ handle_content => OwnInv'
  <1> SUFFICES ASSUME OwnInv, handle_content PROVE OwnInv'
    OBVIOUS
  <1>1. /\ prog = "as" /\ op = "body" /\ Satisfied /\ op' = "line"
        /\ Hand(params, Taken(rsbuf, size)) /\ rsbuf' = Rest(rsbuf, size)
        /\ UNCHANGED <<prog, script, wire, need, size, params>>
    BY DEF handle_content
  <1>2. /\ params \in Nat /\ Taken(rsbuf, size) \in Seq(TokenSet)
        /\ OwnOf(prog, script, Len(handed) + 1, [line |-> params, body |-> Taken(rsbuf, size)])
        /\ \A hd : Len(hd) = Len(handed) + 1 =>
               Somewhere(prog, script, hd, "line", Rest(rsbuf, size), wire, size, need, params)
    BY <1>1, BodyOwn
  <1>3. Len(handed') = Len(handed) + 1
    BY <1>1, <1>2, HandCounts
  <1>4. Somewhere(prog, script, handed', "line", Rest(rsbuf, size), wire, size, need, params)
    BY <1>2, <1>3
  <1> QED
    BY <1>1, <1>2, <1>4, OwnHand

\* proxy: without parameters on_REQUEST throws.
LEMMA ContentOfProxyOwn == OwnInv /\ ContentOfProxy => OwnInv'
  <1> SUFFICES ASSUME OwnInv, ContentOfProxy PROVE OwnInv'
    OBVIOUS
  <1>1. /\ prog = "proxy" /\ op = "body" /\ Satisfied /\ rsbuf' = Rest(rsbuf, size)
        /\ \/ op' = "none" /\ UNCHANGED handed
           \/ op' = "line" /\ Hand(params, Taken(rsbuf, size))
        /\ UNCHANGED <<prog, script, wire, need, size, params>>
    BY DEF ContentOfProxy
  <1>2. CASE op' = "none" /\ UNCHANGED handed
    BY <1>1, <1>2, GiveUpOwn
  <1>3. CASE op' = "line" /\ Hand(params, Taken(rsbuf, size))
    <2>1. /\ params \in Nat /\ Taken(rsbuf, size) \in Seq(TokenSet)
          /\ OwnOf(prog, script, Len(handed) + 1, [line |-> params, body |-> Taken(rsbuf, size)])
          /\ \A hd : Len(hd) = Len(handed) + 1 =>
                 Somewhere(prog, script, hd, "line", Rest(rsbuf, size), wire, size, need, params)
      BY <1>1, BodyOwn
    <2>2. Len(handed') = Len(handed) + 1
      BY <1>3, <2>1, HandCounts
    <2>3. Somewhere(prog, script, handed', "line", Rest(rsbuf, size), wire, size, need, params)
      BY <2>1, <2>2
    <2> QED
      BY <1>1, <1>3, <2>1, <2>3, OwnHand
  <1> QED
    BY <1>1, <1>2, <1>3

\* ac: the content is that of the one message.
LEMMA ReadContentOwn == OwnInv /\ handle_read_content => OwnInv'
  <1> SUFFICES ASSUME OwnInv, handle_read_content PROVE OwnInv'
    OBVIOUS
  <1>1. /\ prog = "ac" /\ op = "body" /\ Satisfied /\ op' = "line"
        /\ Hand(params, rsbuf) /\ rsbuf' = <<>>
        /\ UNCHANGED <<prog, script, wire, need, size, params>>
    BY DEF handle_read_content
  <1> DEFINE k == Len(handed) + 1
             F == Stream(script)
  <1>2. PICK start, c :
            /\ Laid(F, script, start, Len(script))
            /\ Reading(F, script, start, c, k, prog, "body", rsbuf, wire, size, need, params)
            /\ script \in Seq(Shapes) /\ Len(script) > 0 /\ Len(script) = 1
    BY <1>1, OwnSomewhere
  <1>3. need = 0
    BY <1>1 DEF Satisfied
  <1> HIDE DEF k, F
  <1>4. k = Len(script)
    <2>1. k \in 1 .. Len(script)
      BY <1>2 DEF Reading, AtBody
    <2> QED
      BY <1>2, <2>1
  <1>5. script \in Seq(Shapes) /\ Len(script) > 0 /\ Laid(F, script, start, Len(script))
    BY <1>2
  <1>6. Reading(F, script, start, c, k, prog, "body", rsbuf, wire, size, need, params)
    BY <1>2
  <1>7. /\ k \in 1 .. Len(script) /\ params = k
        /\ rsbuf \in Seq(TokenSet) /\ rsbuf = OwnBody(script[k], k)
        /\ \E c2 : Reading(F, script, start, c2, k + 1, prog, "line", <<>>, wire, size, need, params)
    BY <1>1, <1>3, <1>4, <1>5, <1>6, PrintedReading
  <1>8. params \in Nat
    BY <1>6 DEF Reading
  <1>9. Len(handed') = k
    BY <1>1, <1>7, <1>8, HandCounts DEF k
  <1>10. Somewhere(prog, script, handed', "line", <<>>, wire, size, need, params)
    BY <1>5, <1>7, <1>9 DEF Somewhere, F
  <1>11. OwnOf(prog, script, k, [line |-> params, body |-> rsbuf])
    BY <1>1, <1>7 DEF OwnOf, OwnBody
  <1> QED
    BY <1>1, <1>7, <1>8, <1>10, <1>11, OwnHand DEF k

\* chs: what size_ok takes is the body of the one message, unless that is a GET with a body.
LEMMA MakereqOwn == OwnInv /\ makereq => OwnInv'
  <1> SUFFICES ASSUME OwnInv, makereq PROVE OwnInv'
    OBVIOUS
  <1> DEFINE t == rsbuf[HeadAt(rsbuf)]
             body == AfterHead(rsbuf)
             line == IF rsbuf[1].kind = "blank" THEN "bad" ELSE script[rsbuf[1].of].line
             k == Len(handed) + 1
             F == Stream(script)
  <1>1. /\ prog = "chs" /\ op = "try"
        /\ UNCHANGED <<prog, script, wire, rsbuf, need, size, params>>
    BY DEF makereq
  <1>2. \/ op' = "more" /\ UNCHANGED handed
        \/ op' = "none" /\ UNCHANGED handed
        \/ /\ op' = "none" /\ HasGap(rsbuf) /\ ~(line = "POST" /\ t.length < 0)
           /\ size_ok(line, Len(body), t) /\ body # <<>> /\ Hand(t.of, body)
    BY DEF makereq, method_line_parse, headval
  <1> HIDE DEF t, body, line
  <1>3. CASE op' = "more" /\ UNCHANGED handed
    <2>1. {"try", "more"} \subseteq BetweenMessages
      BY DEF BetweenMessages
    <2> QED
      BY <1>1, <1>3, <2>1, StartOwn
  <1>4. CASE op' = "none" /\ UNCHANGED handed
    BY <1>1, <1>4, GiveUpOwn
  <1>5. CASE /\ op' = "none" /\ HasGap(rsbuf) /\ ~(line = "POST" /\ t.length < 0)
             /\ size_ok(line, Len(body), t) /\ body # <<>> /\ Hand(t.of, body)
    <2>1. PICK start, c :
              /\ Laid(F, script, start, Len(script))
              /\ Reading(F, script, start, c, k, prog, op, rsbuf, wire, size, need, params)
              /\ script \in Seq(Shapes) /\ Len(script) > 0 /\ Len(script) = 1
      BY <1>1, OwnSomewhere
    <2> HIDE DEF k, F
    <2>2. k = Len(script) /\ k = 1
      <3>1. k = 1
        BY <1>1, <2>1 DEF Reading
      <3> QED
        BY <2>1, <3>1
    <2>3. /\ script \in Seq(Shapes) /\ Len(script) > 0 /\ k = Len(script)
          /\ Laid(F, script, start, Len(script))
          /\ Reading(F, script, start, c, k, prog, op, rsbuf, wire, size, need, params)
      BY <2>1, <2>2
    <2>4. /\ k \in 1 .. Len(script) /\ body \in Seq(TokenSet) /\ t.of = k
          /\ /\ body # <<>> /\ ~(line = "POST" /\ t.length < 0) /\ size_ok(line, Len(body), t)
             /\ ~(script[k].line = "GET" /\ script[k].length > 0)
             => body = OwnBody(script[k], k)
      BY <1>1, <1>5, <2>3, RequestReading DEF t, body, line
    <2>5. k \in Nat
      BY <2>4
    <2>6. OwnOf(prog, script, k, [line |-> k, body |-> body]) \/ GetHasBody
      <3>1. CASE script[k].line = "GET" /\ script[k].length > 0
        BY <1>1, <2>2, <3>1 DEF GetHasBody
      <3>2. CASE ~(script[k].line = "GET" /\ script[k].length > 0)
        <4>1. body = OwnBody(script[k], k)
          BY <1>5, <2>4, <3>2
        <4> QED
          BY <1>1, <4>1 DEF OwnOf, OwnBody
      <3> QED
        BY <3>1, <3>2
    <2>7. Hand(k, body)
      BY <1>5, <2>4
    <2> QED
      BY <1>1, <1>5, <2>4, <2>5, <2>6, <2>7, OwnHand DEF k
  <1> QED
    BY <1>2, <1>3, <1>4, <1>5

\* A reply of as and the end of the stream concern no reader.
LEMMA OwnNext == OwnInv /\ [HttpNext]_httpVars => OwnInv'
  <1> SUFFICES ASSUME OwnInv, [HttpNext]_httpVars PROVE OwnInv'
    OBVIOUS
  <1>1. CASE writeb
    BY <1>1, StillOwn DEF writeb, readVars
  <1>2. CASE error_
    BY <1>2, GiveUpOwn DEF error_
  <1>3. CASE UNCHANGED httpVars
    BY <1>3, StillOwn DEF httpVars, readVars
  <1>4. CASE Receive
    BY <1>4, ReceiveOwn
  <1>5. CASE Handlers
    BY <1>5, StartsOwn, MethodLineOwn, StatusLineOwn, MethodLineOfProxyOwn, HeadersOwn, ContentOwn,
       ReadContentOwn, ContentOfProxyOwn, MakereqOwn DEF Handlers
  <1> QED
    BY <1>1, <1>2, <1>3, <1>4, <1>5 DEF HttpNext

\* Wherever the stream is cut and however many messages came before on the connection: what
\* is handed over of a message is its own, with the one exception that chs takes a GET with
\* whatever has come of its body.
THEOREM RequestsOwn == HttpSpec => [](OwnRequest \/ GetHasBody)
  <1>1. OwnInv => OwnRequest \/ GetHasBody
    BY DEF OwnInv
  <1> QED
    BY <1>1, OwnInit, OwnNext, PTL DEF HttpSpec

\* So the property holds of peers that send no body with a GET.
THEOREM RequestsOwnBodiless ==
    ASSUME \A shape \in Shapes : shape.line = "GET" => shape.length <= 0
    PROVE  HttpSpec => []OwnRequest
  <1>1. OwnInv => OwnRequest
    <2> SUFFICES ASSUME OwnInv, GetHasBody PROVE FALSE
      BY DEF OwnInv
    <2>1. script[1] \in Shapes
      BY DEF OwnInv, OwnTypeOK
    <2>2. script[1].length \in -2 .. 2
      BY <2>1, ShapeFacts
    <2> QED
      BY <2>1, <2>2 DEF GetHasBody
  <1> QED
    BY <1>1, OwnInit, OwnNext, PTL DEF HttpSpec
=============================================================================
