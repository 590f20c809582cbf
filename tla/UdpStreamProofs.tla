--------------------------- MODULE UdpStreamProofs ---------------------------
(***************************************************************************)
(* Proofs that unpack() is only ever given one whole frame and that a loss *)
(* costs no frame but those it hits, as long as fewer fragments are lost   *)
(* in a row than the shortest frame has, and that time stamps come back in *)
(* the order of the frames whatever is lost, but for frames that the       *)
(* server's ring let a newer one overtake, for every number of frames,     *)
(* fragments and faults.                                                   *)
(***************************************************************************)
EXTENDS UdpStream, SequenceTheorems, WellFoundedInduction, TLAPS

-----------------------------------------------------------------------------
(* What is on its way.                                                      *)

\* The fragments there are, and all that is sent.
Piece == {d \in [frame : Frame, idx : Nat] : d.idx < d.frame.frags}
Sendable == Piece \union {Keepalive}

\* Two fragments sent one after the other.
Follows(d, next) ==
    IF IsLast(d) THEN next.idx = 0 ELSE next = Fragment(d.frame, d.idx + 1)

\* The first e fragments of f.
Pieces(f, e) == [i \in 1 .. e |-> Fragment(f, i - 1)]

\* A receiver expects fragment e and holds x; g fragments were lost since the last one
\* it received.  The next fragment d of a frame it holds a part of comes at most g
\* too early, and before one of another frame it missed the rest of that part; of
\* a frame that was not hurt it comes in turn.
Due(e, x, g, h, d) ==
    /\ x # <<>> =>
          IF d.frame = x[1].frame THEN d.idx <= e + g ELSE x[1].frame.frags + d.idx <= e + g
    /\ d.frame \notin h => d.idx = 0 \/ (x # <<>> /\ x[1].frame = d.frame /\ d.idx = e)

\* The datagrams s: the first fragment is due, each other one follows the one before.
FirstDue(s, e, x, g, h) ==
    \A j \in DOMAIN s :
        (s[j] # Keepalive /\ \A i \in 1 .. j - 1 : s[i] = Keepalive) => Due(e, x, g, h, s[j])

InRow(s) ==
    \A i, j \in DOMAIN s :
        (i < j /\ s[i] # Keepalive /\ s[j] # Keepalive /\ \A k \in i + 1 .. j - 1 : s[k] = Keepalive)
            => Follows(s[i], s[j])

\* The datagrams s on their way, and one of next after them.
Along(s, next, e, x, g, h) ==
    /\ FirstDue(s, e, x, g, h) /\ InRow(s)
    /\ \A d \in next : FirstDue(Append(s, d), e, x, g, h) /\ InRow(Append(s, d))

\* What node n sends next.
Nexts(n) ==
    IF ~open[n] THEN {}
    ELSE IF txbuf[n] = NoFrame THEN {Fragment(f, 0) : f \in Frame}
    ELSE {Fragment(txbuf[n], txpos[n])}

-----------------------------------------------------------------------------
(* Lemmas about the datagrams on their way.                                 *)

\* A keepalive is no fragment of a frame.
LEMMA KeepaliveDiffers == Keepalive \notin Piece
  <1>1. NoFrame \notin Frame
    <2>1. NoFrame.by \notin Node
      BY DEF NoFrame, Node
    <2> QED
      BY <2>1 DEF Frame
  <1> QED
    BY <1>1 DEF Keepalive, Piece, Fragment

\* One more datagram at the end.
LEMMA AppendIs ==
    ASSUME NEW s \in Seq(Sendable), NEW d \in Sendable
    PROVE  /\ Append(s, d) \in Seq(Sendable) /\ Len(s) \in Nat
           /\ DOMAIN s = 1 .. Len(s) /\ DOMAIN Append(s, d) = 1 .. Len(s) + 1
           /\ \A i \in 1 .. Len(s) : Append(s, d)[i] = s[i]
           /\ Append(s, d)[Len(s) + 1] = d
  <1> HIDE DEF Sendable
  <1>1. /\ Append(s, d) \in Seq(Sendable) /\ Len(Append(s, d)) = Len(s) + 1
        /\ \A i \in 1 .. Len(s) : Append(s, d)[i] = s[i]
        /\ Append(s, d)[Len(s) + 1] = d
    BY AppendProperties
  <1> QED
    BY <1>1, LenProperties

\* One datagram less at the front.
LEMMA TailIs ==
    ASSUME NEW s \in Seq(Sendable), s # <<>>
    PROVE  /\ Tail(s) \in Seq(Sendable) /\ Len(s) \in Nat /\ Len(s) > 0
           /\ Head(s) = s[1] /\ s[1] \in Sendable
           /\ DOMAIN s = 1 .. Len(s) /\ DOMAIN Tail(s) = 1 .. Len(s) - 1
           /\ Len(Tail(s)) = Len(s) - 1
           /\ \A i \in 1 .. Len(s) - 1 : Tail(s)[i] = s[i + 1]
  <1> HIDE DEF Sendable
  <1>1. Len(s) \in Nat /\ Len(s) > 0 /\ DOMAIN s = 1 .. Len(s)
    BY EmptySeq, LenProperties
  <1>2. /\ Tail(s) \in Seq(Sendable) /\ Len(Tail(s)) = Len(s) - 1 /\ Head(s) = s[1]
        /\ \A i \in 1 .. Len(s) - 1 : Tail(s)[i] = s[i + 1]
    BY <1>1, HeadTailProperties
  <1>3. s[1] \in Sendable
    BY <1>1, ElementOfSeq
  <1> QED
    BY <1>1, <1>2, <1>3, LenProperties

\* Both of them.
LEMMA TailAppend ==
    ASSUME NEW s \in Seq(Sendable), s # <<>>, NEW d \in Sendable
    PROVE  Tail(Append(s, d)) = Append(Tail(s), d) /\ Append(s, d) # <<>> /\ Append(s, d)[1] = s[1]
  <1> HIDE DEF Sendable
  <1> QED
    BY TailIs, AppendIs

\* A fragment follows the last one.
LEMMA RowAppend ==
    ASSUME NEW s \in Seq(Sendable), NEW d \in Piece, NEW next \in Piece,
           InRow(Append(s, d)), Follows(d, next)
    PROVE  InRow(Append(Append(s, d), next))
  <1> DEFINE n == Len(s)
             t == Append(s, d)
             u == Append(t, next)
  <1>0. d \in Sendable /\ next \in Sendable /\ d # Keepalive
    BY KeepaliveDiffers DEF Sendable
  <1>1. /\ t \in Seq(Sendable) /\ n \in Nat /\ DOMAIN t = 1 .. n + 1 /\ t[n + 1] = d
    BY <1>0, AppendIs
  <1>2. Len(t) = n + 1
    BY <1>1, LenProperties
  <1> HIDE DEF t, n
  <1>3. DOMAIN u = 1 .. n + 2 /\ u[n + 2] = next /\ \A i \in 1 .. n + 1 : u[i] = t[i]
    <2>1. /\ DOMAIN u = 1 .. Len(t) + 1 /\ u[Len(t) + 1] = next
          /\ \A i \in 1 .. Len(t) : u[i] = t[i]
      BY <1>0, <1>1, AppendIs
    <2> QED
      BY <1>1, <1>2, <2>1
  <1> HIDE DEF u
  <1> SUFFICES ASSUME NEW i \in 1 .. n + 2, NEW j \in 1 .. n + 2, i < j,
                      u[i] # Keepalive, u[j] # Keepalive,
                      \A k \in i + 1 .. j - 1 : u[k] = Keepalive
               PROVE  Follows(u[i], u[j])
    BY <1>3 DEF InRow, u, t
  <1>4. CASE j \in 1 .. n + 1
    <2>1. i \in 1 .. n + 1 /\ \A k \in i + 1 .. j - 1 : k \in 1 .. n + 1
      BY <1>1, <1>4
    <2>2. u[i] = t[i] /\ u[j] = t[j] /\ \A k \in i + 1 .. j - 1 : t[k] = Keepalive
      BY <1>3, <1>4, <2>1
    <2> QED
      BY <1>1, <1>4, <2>1, <2>2 DEF InRow, t
  <1>5. CASE j = n + 2
    <2>1. i = n + 1
      <3>1. i < n + 1 => n + 1 \in i + 1 .. j - 1
        BY <1>1, <1>5
      <3>2. u[n + 1] # Keepalive
        BY <1>0, <1>1, <1>3
      <3> QED
        BY <1>1, <1>5, <3>1, <3>2
    <2> QED
      BY <1>1, <1>3, <1>5, <2>1
  <1> QED
    BY <1>1, <1>4, <1>5

\* A keepalive does not come between fragments.
LEMMA RowKeepalive ==
    ASSUME NEW s \in Seq(Sendable)
    PROVE  /\ InRow(s) => InRow(Append(s, Keepalive))
           /\ \A d \in Piece : InRow(Append(s, d)) => InRow(Append(Append(s, Keepalive), d))
  <1> DEFINE n == Len(s)
             t == Append(s, Keepalive)
  <1>1. /\ t \in Seq(Sendable) /\ n \in Nat /\ DOMAIN s = 1 .. n /\ DOMAIN t = 1 .. n + 1
        /\ t[n + 1] = Keepalive /\ \A i \in 1 .. n : t[i] = s[i]
    BY AppendIs DEF Sendable
  <1>2. Len(t) = n + 1
    BY <1>1, LenProperties
  <1> HIDE DEF t, n
  <1>3. ASSUME InRow(s)
        PROVE  InRow(t)
    <2> SUFFICES ASSUME NEW i \in 1 .. n + 1, NEW j \in 1 .. n + 1, i < j,
                        t[i] # Keepalive, t[j] # Keepalive,
                        \A k \in i + 1 .. j - 1 : t[k] = Keepalive
                 PROVE  Follows(t[i], t[j])
      BY <1>1 DEF InRow
    <2>1. i \in 1 .. n /\ j \in 1 .. n /\ \A k \in i + 1 .. j - 1 : k \in 1 .. n
      BY <1>1
    <2>2. t[i] = s[i] /\ t[j] = s[j] /\ \A k \in i + 1 .. j - 1 : s[k] = Keepalive
      BY <1>1, <2>1
    <2> QED
      BY <1>1, <1>3, <2>1, <2>2 DEF InRow
  <1>4. ASSUME NEW d \in Piece, InRow(Append(s, d))
        PROVE  InRow(Append(t, d))
    <2> DEFINE w == Append(s, d)
               v == Append(t, d)
    <2>0. d \in Sendable
      BY DEF Sendable
    <2>1. DOMAIN w = 1 .. n + 1 /\ w[n + 1] = d /\ \A i \in 1 .. n : w[i] = s[i]
      BY <2>0, AppendIs DEF n
    <2>2. DOMAIN v = 1 .. n + 2 /\ v[n + 2] = d /\ v[n + 1] = Keepalive
          /\ \A i \in 1 .. n : v[i] = s[i]
      <3>1. /\ DOMAIN v = 1 .. Len(t) + 1 /\ v[Len(t) + 1] = d
            /\ \A i \in 1 .. Len(t) : v[i] = t[i]
        BY <1>1, <2>0, AppendIs
      <3> QED
        BY <1>1, <1>2, <3>1
    <2> HIDE DEF w, v
    <2> SUFFICES ASSUME NEW i \in 1 .. n + 2, NEW j \in 1 .. n + 2, i < j,
                        v[i] # Keepalive, v[j] # Keepalive,
                        \A k \in i + 1 .. j - 1 : v[k] = Keepalive
                 PROVE  Follows(v[i], v[j])
      BY <2>2 DEF InRow, v
    <2>3. i \in 1 .. n /\ j \in 1 .. n \union {n + 2}
      BY <1>1, <2>2
    <2>4. CASE j \in 1 .. n
      <3>1. \A k \in i + 1 .. j - 1 : k \in 1 .. n
        BY <1>1, <2>3, <2>4
      <3>2. v[i] = w[i] /\ v[j] = w[j] /\ \A k \in i + 1 .. j - 1 : w[k] = Keepalive
        BY <2>1, <2>2, <2>3, <2>4, <3>1
      <3>3. i \in 1 .. n + 1 /\ j \in 1 .. n + 1
        BY <1>1, <2>3, <2>4
      <3> QED
        BY <1>4, <2>1, <3>2, <3>3 DEF InRow, w
    <2>5. CASE j = n + 2
      <3>1. \A k \in i + 1 .. n : k \in 1 .. n /\ k \in i + 1 .. j - 1
        BY <1>1, <2>3, <2>5
      <3>2. v[i] = w[i] /\ v[j] = w[n + 1] /\ \A k \in i + 1 .. n : w[k] = Keepalive
        BY <2>1, <2>2, <2>3, <2>5, <3>1
      <3>3. i \in 1 .. n + 1 /\ n + 1 \in 1 .. n + 1 /\ i < n + 1 /\ (n + 1) - 1 = n
        BY <1>1, <2>3
      <3>4. InRow(w)
        BY <1>4 DEF w
      <3>5. w[i] # Keepalive /\ w[n + 1] # Keepalive
        BY <3>2
      <3>6. \A k \in i + 1 .. (n + 1) - 1 : w[k] = Keepalive
        BY <3>2, <3>3
      <3>7. Follows(w[i], w[n + 1])
        BY <2>1, <3>3, <3>4, <3>5, <3>6 DEF InRow
      <3> QED
        BY <3>2, <3>7
    <2> QED
      BY <2>3, <2>4, <2>5
  <1> QED
    BY <1>3, <1>4 DEF t

\* What follows the first datagram is in a row as well.
LEMMA RowTail ==
    ASSUME NEW s \in Seq(Sendable), s # <<>>, InRow(s)
    PROVE  InRow(Tail(s))
  <1> DEFINE n == Len(s)
             r == Tail(s)
  <1>1. /\ n \in Nat /\ n > 0 /\ DOMAIN s = 1 .. n /\ DOMAIN r = 1 .. n - 1
        /\ \A i \in 1 .. n - 1 : r[i] = s[i + 1]
    BY TailIs
  <1> HIDE DEF n, r
  <1> SUFFICES ASSUME NEW i \in 1 .. n - 1, NEW j \in 1 .. n - 1, i < j,
                      r[i] # Keepalive, r[j] # Keepalive,
                      \A k \in i + 1 .. j - 1 : r[k] = Keepalive
               PROVE  Follows(r[i], r[j])
    BY <1>1 DEF InRow, r
  <1>2. r[i] = s[i + 1] /\ r[j] = s[j + 1]
    BY <1>1
  <1>3. ASSUME NEW k \in (i + 1) + 1 .. (j + 1) - 1
        PROVE  s[k] = Keepalive
    <2>1. k - 1 \in i + 1 .. j - 1 /\ k - 1 \in 1 .. n - 1 /\ (k - 1) + 1 = k
      BY <1>1
    <2>2. r[k - 1] = s[k]
      BY <1>1, <2>1
    <2> QED
      BY <2>1, <2>2
  <1>4. i + 1 \in 1 .. n /\ j + 1 \in 1 .. n /\ i + 1 < j + 1
    BY <1>1
  <1>5. s[i + 1] # Keepalive /\ s[j + 1] # Keepalive
    BY <1>2
  <1>6. Follows(s[i + 1], s[j + 1])
    BY <1>1, <1>3, <1>4, <1>5 DEF InRow
  <1> QED
    BY <1>2, <1>6

\* The first fragment stays the first behind whatever is appended to it.
LEMMA DueAppend ==
    ASSUME NEW s \in Seq(Sendable), NEW d \in Piece, NEW next \in Piece,
           NEW e, NEW x, NEW g, NEW h, FirstDue(Append(s, d), e, x, g, h)
    PROVE  FirstDue(Append(Append(s, d), next), e, x, g, h)
  <1> DEFINE n == Len(s)
             t == Append(s, d)
             u == Append(t, next)
  <1>0. d \in Sendable /\ next \in Sendable /\ d # Keepalive
    BY KeepaliveDiffers DEF Sendable
  <1>1. /\ t \in Seq(Sendable) /\ n \in Nat /\ DOMAIN t = 1 .. n + 1 /\ t[n + 1] = d
    BY <1>0, AppendIs
  <1>2. Len(t) = n + 1
    BY <1>1, LenProperties
  <1> HIDE DEF t, n
  <1>3. DOMAIN u = 1 .. n + 2 /\ \A i \in 1 .. n + 1 : u[i] = t[i]
    <2>1. DOMAIN u = 1 .. Len(t) + 1 /\ \A i \in 1 .. Len(t) : u[i] = t[i]
      BY <1>0, <1>1, AppendIs
    <2> QED
      BY <1>1, <1>2, <2>1
  <1> HIDE DEF u
  <1> SUFFICES ASSUME NEW j \in 1 .. n + 2, u[j] # Keepalive,
                      \A i \in 1 .. j - 1 : u[i] = Keepalive
               PROVE  Due(e, x, g, h, u[j])
    BY <1>3 DEF FirstDue, u, t
  <1>4. j \in 1 .. n + 1
    <2>1. j = n + 2 => n + 1 \in 1 .. j - 1
      BY <1>1
    <2>2. u[n + 1] # Keepalive
      BY <1>0, <1>1, <1>3
    <2> QED
      BY <1>1, <2>1, <2>2
  <1>5. u[j] = t[j] /\ \A i \in 1 .. j - 1 : t[i] = Keepalive
    <2>1. \A i \in 1 .. j - 1 : i \in 1 .. n + 1
      BY <1>1, <1>4
    <2> QED
      BY <1>3, <1>4, <2>1
  <1> QED
    BY <1>1, <1>4, <1>5 DEF FirstDue, t

\* A keepalive is not the first fragment.
LEMMA DueKeepalive ==
    ASSUME NEW s \in Seq(Sendable), NEW e, NEW x, NEW g, NEW h
    PROVE  /\ FirstDue(s, e, x, g, h) => FirstDue(Append(s, Keepalive), e, x, g, h)
           /\ \A d \in Piece : FirstDue(Append(s, d), e, x, g, h)
                                  => FirstDue(Append(Append(s, Keepalive), d), e, x, g, h)
  <1> DEFINE n == Len(s)
             t == Append(s, Keepalive)
  <1>1. /\ t \in Seq(Sendable) /\ n \in Nat /\ DOMAIN s = 1 .. n /\ DOMAIN t = 1 .. n + 1
        /\ t[n + 1] = Keepalive /\ \A i \in 1 .. n : t[i] = s[i]
    BY AppendIs DEF Sendable
  <1>2. Len(t) = n + 1
    BY <1>1, LenProperties
  <1> HIDE DEF t, n
  <1>3. ASSUME FirstDue(s, e, x, g, h)
        PROVE  FirstDue(t, e, x, g, h)
    <2> SUFFICES ASSUME NEW j \in 1 .. n + 1, t[j] # Keepalive,
                        \A i \in 1 .. j - 1 : t[i] = Keepalive
                 PROVE  Due(e, x, g, h, t[j])
      BY <1>1 DEF FirstDue
    <2>1. j \in 1 .. n /\ \A i \in 1 .. j - 1 : i \in 1 .. n
      BY <1>1
    <2>2. t[j] = s[j] /\ \A i \in 1 .. j - 1 : s[i] = Keepalive
      BY <1>1, <2>1
    <2> QED
      BY <1>1, <1>3, <2>1, <2>2 DEF FirstDue
  <1>4. ASSUME NEW d \in Piece, FirstDue(Append(s, d), e, x, g, h)
        PROVE  FirstDue(Append(t, d), e, x, g, h)
    <2> DEFINE w == Append(s, d)
               v == Append(t, d)
    <2>0. d \in Sendable
      BY DEF Sendable
    <2>1. DOMAIN w = 1 .. n + 1 /\ w[n + 1] = d /\ \A i \in 1 .. n : w[i] = s[i]
      BY <2>0, AppendIs DEF n
    <2>2. DOMAIN v = 1 .. n + 2 /\ v[n + 2] = d /\ v[n + 1] = Keepalive
          /\ \A i \in 1 .. n : v[i] = s[i]
      <3>1. /\ DOMAIN v = 1 .. Len(t) + 1 /\ v[Len(t) + 1] = d
            /\ \A i \in 1 .. Len(t) : v[i] = t[i]
        BY <1>1, <2>0, AppendIs
      <3> QED
        BY <1>1, <1>2, <3>1
    <2>3. FirstDue(w, e, x, g, h)
      BY <1>4
    <2> HIDE DEF w, v
    <2> SUFFICES ASSUME NEW j \in 1 .. n + 2, v[j] # Keepalive,
                        \A i \in 1 .. j - 1 : v[i] = Keepalive
                 PROVE  Due(e, x, g, h, v[j])
      BY <2>2 DEF FirstDue, v
    <2>4. j \in 1 .. n \union {n + 2}
      BY <1>1, <2>2
    <2>5. CASE j \in 1 .. n
      <3>1. \A i \in 1 .. j - 1 : i \in 1 .. n
        BY <1>1, <2>5
      <3>2. v[j] = w[j] /\ j \in 1 .. n + 1 /\ \A i \in 1 .. j - 1 : w[i] = Keepalive
        BY <1>1, <2>1, <2>2, <2>5, <3>1
      <3> QED
        BY <2>1, <2>3, <3>2 DEF FirstDue
    <2>6. CASE j = n + 2
      <3>1. \A i \in 1 .. (n + 1) - 1 : i \in 1 .. n /\ i \in 1 .. j - 1
        BY <1>1, <2>6
      <3>2. v[j] = w[n + 1] /\ n + 1 \in 1 .. n + 1
            /\ \A i \in 1 .. (n + 1) - 1 : w[i] = Keepalive
        BY <1>1, <2>1, <2>2, <2>6, <3>1
      <3> QED
        BY <2>1, <2>3, <3>2 DEF FirstDue
    <2> QED
      BY <2>4, <2>5, <2>6
  <1> QED
    BY <1>3, <1>4 DEF t

\* The first datagram is gone: a keepalive, or a fragment after which the next one is due.
LEMMA DueTail ==
    ASSUME NEW s \in Seq(Sendable), s # <<>>, InRow(s),
           NEW e, NEW x, NEW g, NEW h,
           \/ s[1] = Keepalive /\ FirstDue(s, e, x, g, h)
           \/ /\ s[1] # Keepalive
              /\ \A next \in Piece : Follows(s[1], next) => Due(e, x, g, h, next)
    PROVE  FirstDue(Tail(s), e, x, g, h)
  <1> DEFINE n == Len(s)
             r == Tail(s)
  <1>1. /\ n \in Nat /\ n > 0 /\ DOMAIN s = 1 .. n /\ DOMAIN r = 1 .. n - 1
        /\ \A i \in 1 .. n - 1 : r[i] = s[i + 1] /\ s[i + 1] \in Sendable
    <2>1. /\ n \in Nat /\ n > 0 /\ DOMAIN s = 1 .. n /\ DOMAIN r = 1 .. n - 1
          /\ \A i \in 1 .. n - 1 : r[i] = s[i + 1]
      BY TailIs
    <2>2. \A i \in 1 .. n : s[i] \in Sendable
      <3> HIDE DEF Sendable
      <3> QED
        BY ElementOfSeq
    <2> HIDE DEF n, r
    <2>3. \A i \in 1 .. n - 1 : i + 1 \in 1 .. n
      BY <2>1
    <2> QED
      BY <2>1, <2>2, <2>3
  <1> HIDE DEF n, r
  <1> SUFFICES ASSUME NEW j \in 1 .. n - 1, r[j] # Keepalive,
                      \A i \in 1 .. j - 1 : r[i] = Keepalive
               PROVE  Due(e, x, g, h, r[j])
    BY <1>1 DEF FirstDue, r
  <1>2. r[j] = s[j + 1] /\ j + 1 \in 1 .. n /\ 1 \in 1 .. n /\ s[j + 1] \in Piece
    BY <1>1 DEF Sendable
  <1>3. ASSUME NEW k \in 2 .. (j + 1) - 1
        PROVE  s[k] = Keepalive
    <2>1. k - 1 \in 1 .. j - 1 /\ k - 1 \in 1 .. n - 1 /\ (k - 1) + 1 = k
      BY <1>1
    <2>2. r[k - 1] = s[k]
      BY <1>1, <2>1
    <2> QED
      BY <2>1, <2>2
  <1>4. CASE s[1] = Keepalive /\ FirstDue(s, e, x, g, h)
    <2>1. \A k \in 1 .. (j + 1) - 1 : k = 1 \/ k \in 2 .. (j + 1) - 1
      OBVIOUS
    <2>2. \A k \in 1 .. (j + 1) - 1 : s[k] = Keepalive
      BY <1>3, <1>4, <2>1
    <2>3. s[j + 1] # Keepalive
      BY <1>2
    <2> QED
      BY <1>1, <1>2, <1>4, <2>2, <2>3 DEF FirstDue
  <1>5. CASE /\ s[1] # Keepalive
             /\ \A next \in Piece : Follows(s[1], next) => Due(e, x, g, h, next)
    <2>1. 1 < j + 1 /\ s[j + 1] # Keepalive
      BY <1>2
    <2>2. \A k \in 1 + 1 .. (j + 1) - 1 : s[k] = Keepalive
      BY <1>3
    <2>3. Follows(s[1], s[j + 1])
      BY <1>1, <1>2, <1>5, <2>1, <2>2 DEF InRow
    <2> QED
      BY <1>2, <1>5, <2>3
  <1> QED
    BY <1>4, <1>5

\* The first datagram stays, as a fragment that is due anyway, and more frames are hurt.
LEMMA DueAgain ==
    ASSUME NEW s \in Seq(Sendable), s # <<>>, s[1] # Keepalive,
           NEW e, NEW x, NEW g, NEW h, Due(e, x, g, h, s[1])
    PROVE  FirstDue(s, e, x, g, h)
  <1> SUFFICES ASSUME NEW j \in DOMAIN s, \A i \in 1 .. j - 1 : s[i] = Keepalive
               PROVE  j = 1
    BY DEF FirstDue
  <1>1. j \in Nat /\ j >= 1
    BY TailIs
  <1>2. j > 1 => 1 \in 1 .. j - 1
    BY <1>1
  <1> QED
    BY <1>1, <1>2

\* More frames are hurt.
LEMMA DueHurt ==
    ASSUME NEW s, NEW e, NEW x, NEW g, NEW h, NEW k, FirstDue(s, e, x, g, h), h \subseteq k
    PROVE  FirstDue(s, e, x, g, k)
  BY DEF FirstDue, Due

\* A fragment is sent: it is on its way, and those that follow it are sent next.
LEMMA AlongPiece ==
    ASSUME NEW s \in Seq(Sendable), NEW now \in SUBSET Piece, NEW next \in SUBSET Piece,
           NEW e, NEW x, NEW g, NEW h, Along(s, now, e, x, g, h),
           NEW d \in now, \A f \in next : Follows(d, f)
    PROVE  Along(Append(s, d), next, e, x, g, h)
  <1>1. FirstDue(Append(s, d), e, x, g, h) /\ InRow(Append(s, d))
    BY DEF Along
  <1>2. ASSUME NEW f \in next
        PROVE  /\ FirstDue(Append(Append(s, d), f), e, x, g, h)
               /\ InRow(Append(Append(s, d), f))
    <2>1. d \in Piece /\ f \in Piece /\ Follows(d, f)
      OBVIOUS
    <2> QED
      BY <1>1, <2>1, DueAppend, RowAppend
  <1> QED
    BY <1>1, <1>2 DEF Along

\* A keepalive is sent.
LEMMA AlongKeepalive ==
    ASSUME NEW s \in Seq(Sendable), NEW next \in SUBSET Piece,
           NEW e, NEW x, NEW g, NEW h, Along(s, next, e, x, g, h)
    PROVE  Along(Append(s, Keepalive), next, e, x, g, h)
  <1>1. FirstDue(Append(s, Keepalive), e, x, g, h) /\ InRow(Append(s, Keepalive))
    BY DueKeepalive, RowKeepalive DEF Along
  <1>2. ASSUME NEW f \in next
        PROVE  /\ FirstDue(Append(Append(s, Keepalive), f), e, x, g, h)
               /\ InRow(Append(Append(s, Keepalive), f))
    <2>1. f \in Piece /\ FirstDue(Append(s, f), e, x, g, h) /\ InRow(Append(s, f))
      BY DEF Along
    <2> QED
      BY <2>1, DueKeepalive, RowKeepalive
  <1> QED
    BY <1>1, <1>2 DEF Along

\* The first datagram is lost or received: the receiver is then as e1, x1 and g1 say.
LEMMA AlongTail ==
    ASSUME NEW s \in Seq(Sendable), s # <<>>, NEW next \in SUBSET Piece,
           NEW e, NEW x, NEW g, NEW h, Along(s, next, e, x, g, h),
           NEW e1, NEW x1, NEW g1, NEW h1,
           \/ s[1] = Keepalive /\ e1 = e /\ x1 = x /\ g1 = g /\ h1 = h
           \/ /\ s[1] # Keepalive
              /\ \A f \in Piece : Follows(s[1], f) => Due(e1, x1, g1, h1, f)
    PROVE  Along(Tail(s), next, e1, x1, g1, h1)
  <1>1. FirstDue(s, e, x, g, h) /\ InRow(s)
    BY DEF Along
  <1>2. FirstDue(Tail(s), e1, x1, g1, h1)
    <2>1. CASE s[1] = Keepalive /\ e1 = e /\ x1 = x /\ g1 = g /\ h1 = h
      BY <1>1, <2>1, DueTail
    <2>2. CASE /\ s[1] # Keepalive
               /\ \A f \in Piece : Follows(s[1], f) => Due(e1, x1, g1, h1, f)
      BY <1>1, <2>2, DueTail
    <2> QED
      BY <2>1, <2>2
  <1>3. InRow(Tail(s))
    BY <1>1, RowTail
  <1>4. ASSUME NEW d \in next
        PROVE  FirstDue(Append(Tail(s), d), e1, x1, g1, h1) /\ InRow(Append(Tail(s), d))
    <2> DEFINE t == Append(s, d)
    <2>1. FirstDue(t, e, x, g, h) /\ InRow(t)
      BY DEF Along
    <2>2. d \in Sendable
      BY DEF Sendable
    <2>3. t \in Seq(Sendable) /\ t # <<>> /\ t[1] = s[1] /\ Tail(t) = Append(Tail(s), d)
      BY <2>2, AppendIs, TailAppend
    <2> HIDE DEF t
    <2>4. InRow(Tail(t))
      BY <2>1, <2>3, RowTail
    <2>5. FirstDue(Tail(t), e1, x1, g1, h1)
      <3>1. CASE s[1] = Keepalive /\ e1 = e /\ x1 = x /\ g1 = g /\ h1 = h
        BY <2>1, <2>3, <3>1, DueTail
      <3>2. CASE /\ s[1] # Keepalive
                 /\ \A f \in Piece : Follows(s[1], f) => Due(e1, x1, g1, h1, f)
        BY <2>1, <2>3, <3>2, DueTail
      <3> QED
        BY <3>1, <3>2
    <2> QED
      BY <2>3, <2>4, <2>5
  <1> QED
    BY <1>2, <1>3, <1>4 DEF Along

\* The first datagram is received and comes again.
LEMMA AlongAgain ==
    ASSUME NEW s \in Seq(Sendable), s # <<>>, s[1] # Keepalive, NEW next \in SUBSET Piece,
           NEW e, NEW x, NEW g, NEW h, Along(s, next, e, x, g, h),
           NEW e1, NEW x1, NEW g1, NEW h1, Due(e1, x1, g1, h1, s[1])
    PROVE  Along(s, next, e1, x1, g1, h1)
  <1>1. FirstDue(s, e1, x1, g1, h1)
    BY DueAgain
  <1>2. ASSUME NEW d \in next
        PROVE  FirstDue(Append(s, d), e1, x1, g1, h1)
    <2> DEFINE t == Append(s, d)
    <2>1. d \in Sendable
      BY DEF Sendable
    <2>2. t \in Seq(Sendable) /\ t # <<>> /\ t[1] = s[1]
      BY <2>1, AppendIs, TailAppend
    <2> HIDE DEF t
    <2>3. FirstDue(t, e1, x1, g1, h1)
      BY <2>2, DueAgain
    <2> QED
      BY <2>3 DEF t
  <1> QED
    BY <1>1, <1>2 DEF Along

\* More frames are hurt, and less may be sent.
LEMMA AlongLess ==
    ASSUME NEW s, NEW now, NEW next \in SUBSET now,
           NEW e, NEW x, NEW g, NEW h, NEW k, h \subseteq k, Along(s, now, e, x, g, h)
    PROVE  Along(s, next, e, x, g, k)
  BY DueHurt DEF Along

-----------------------------------------------------------------------------
(* Lemmas about the receiver                                                *)

\* What a receiver that expects fragment e may hold.
Held(e, x) ==
    \/ x = <<>> /\ e = 0
    \/ \E f \in Frame : e \in 1 .. f.frags - 1 /\ x = Pieces(f, e)

\* Kept for a receiver that expects fragment e and holds x.
Keeping(e, x, d) ==
    IF d.idx = e THEN Append(x, d) ELSE IF d.idx = 0 THEN <<d>> ELSE <<>>

\* The state after it, when d is used.
HeldNext(e, x, d) ==
    \/ x = <<>> /\ e = 0
    \/ ~IsLast(d) /\ x = Pieces(d.frame, d.idx + 1) /\ e = d.idx + 1

\* The numbers of fragments.
LEMMA FragsAre ==
    ASSUME NEW f \in Frame
    PROVE  f.frags \in FragCounts \union {1} /\ f.frags \in Nat \ {0}
  <1>1. f.frags \in FragCounts \union {1}
    BY DEF Frame
  <1>2. CASE f.frags \in FragCounts
    <2>1. f.frags \in Nat \ {0}
      BY <1>2, FragAssumption, Zenon
    <2> QED
      BY <1>2, <2>1
  <1>3. CASE f.frags = 1
    BY <1>3
  <1> QED
    BY <1>1, <1>2, <1>3

\* The numbers of frames and fragments.
LEMMA PieceIs ==
    ASSUME NEW d \in Piece
    PROVE  /\ d = Fragment(d.frame, d.idx) /\ d.frame \in Frame
           /\ d.frame.frags \in Nat \ {0} /\ d.idx \in 0 .. d.frame.frags - 1
           /\ d.frame.frags # 1 => d.frame.frags \in FragCounts
  <1>1. d.frame \in Frame /\ d.idx \in Nat /\ d.idx < d.frame.frags /\ d = Fragment(d.frame, d.idx)
    BY DEF Piece, Fragment
  <1>2. d.frame.frags \in FragCounts \union {1} /\ d.frame.frags \in Nat \ {0}
    BY <1>1, FragsAre
  <1> QED
    BY <1>1, <1>2

\* The first fragments of a frame.
LEMMA PiecesAre ==
    ASSUME NEW f \in Frame, NEW k \in 1 .. f.frags
    PROVE  /\ Pieces(f, k) \in Seq(Piece) /\ Pieces(f, k) # <<>>
           /\ Len(Pieces(f, k)) = k
           /\ Pieces(f, k)[1] = Fragment(f, 0) /\ Head(Pieces(f, k)) = Fragment(f, 0)
           /\ Pieces(f, k)[1].frame = f
           /\ Pieces(f, 1) = <<Fragment(f, 0)>>
           /\ k < f.frags => Append(Pieces(f, k), Fragment(f, k)) = Pieces(f, k + 1)
  <1>1. f.frags \in Nat /\ k \in Nat /\ k >= 1
    BY FragsAre
  <1>2. \A i \in 1 .. k : Fragment(f, i - 1) \in Piece
    BY <1>1 DEF Piece, Fragment
  <1>3. Pieces(f, k) \in Seq(Piece) /\ Len(Pieces(f, k)) = k
    <2> HIDE DEF Piece
    <2> QED
      BY <1>1, <1>2 DEF Pieces
  <1>4. Pieces(f, k)[1] = Fragment(f, 0)
    BY <1>1 DEF Pieces
  <1>5. Pieces(f, 1) = <<Fragment(f, 0)>>
    BY DEF Pieces
  <1>6. Append(Pieces(f, k), Fragment(f, k)) = Pieces(f, k + 1)
    BY <1>1 DEF Pieces
  <1>7. Fragment(f, 0).frame = f
    BY DEF Fragment
  <1> QED
    BY <1>1, <1>3, <1>4, <1>5, <1>6, <1>7

\* What is kept of a fragment that is due: nothing, and then its frame was hurt, or all
\* of its frame up to it.
LEMMA KeptIs ==
    ASSUME \A k \in FragCounts : k > MaxGap,
           NEW e \in Nat, NEW x, Held(e, x), NEW g \in 0 .. MaxGap, NEW h,
           NEW d \in Piece, Due(e, x, g, h, d)
    PROVE  \/ Keeping(e, x, d) = <<>> /\ d.frame \in h
           \/ Keeping(e, x, d) = Pieces(d.frame, d.idx + 1)
  <1> DEFINE f == d.frame
  <1>0. /\ d = Fragment(f, d.idx) /\ f \in Frame /\ f.frags \in Nat \ {0}
        /\ d.idx \in 0 .. f.frags - 1 /\ d.idx + 1 \in 1 .. f.frags
    BY PieceIs
  <1>1. <<Fragment(f, 0)>> = Pieces(f, 1)
    <2>1. 1 \in 1 .. f.frags
      BY <1>0
    <2> QED
      BY <1>0, <2>1, PiecesAre
  <1>2. CASE d.idx = e /\ x = <<>>
    <2>1. e = 0
      <3>1. ASSUME NEW c \in Frame, e \in 1 .. c.frags - 1, x = Pieces(c, e)
            PROVE  FALSE
        <4>1. e \in 1 .. c.frags
          BY <3>1, FragsAre
        <4> QED
          BY <1>2, <3>1, <4>1, PiecesAre
      <3> QED
        BY <3>1 DEF Held
    <2>2. Keeping(e, x, d) = <<d>> /\ d = Fragment(f, 0)
      BY <1>0, <1>2, <2>1 DEF Keeping
    <2>3. d.idx + 1 = 1
      BY <1>2, <2>1
    <2> QED
      BY <1>1, <2>2, <2>3
  <1>3. CASE d.idx = e /\ x # <<>>
    <2>1. PICK c \in Frame : e \in 1 .. c.frags - 1 /\ x = Pieces(c, e)
      BY <1>3 DEF Held
    <2>2. c.frags \in FragCounts \union {1} /\ c.frags \in Nat /\ e \in 1 .. c.frags /\ e < c.frags
      BY <2>1, FragsAre
    <2>3. x[1].frame = c /\ Append(x, Fragment(c, e)) = Pieces(c, e + 1)
      BY <2>1, <2>2, PiecesAre
    <2>4. f = c
      <3>1. c.frags # 1
        BY <2>2
      <3>2. c.frags > MaxGap /\ MaxGap \in Nat
        BY <2>2, <3>1, BoundAssumption
      <3>3. f # c => c.frags + e <= e + g
        BY <1>3, <2>3 DEF Due
      <3> QED
        BY <2>2, <3>2, <3>3
    <2>5. Keeping(e, x, d) = Append(x, Fragment(c, e))
      BY <1>0, <1>3, <2>4 DEF Keeping
    <2> QED
      BY <1>3, <2>3, <2>4, <2>5
  <1>4. CASE d.idx # e /\ d.idx = 0
    <2>1. Keeping(e, x, d) = <<Fragment(f, 0)>>
      BY <1>0, <1>4 DEF Keeping
    <2> QED
      BY <1>1, <1>4, <2>1
  <1>5. CASE d.idx # e /\ d.idx # 0
    BY <1>5 DEF Keeping, Due
  <1> QED
    BY <1>2, <1>3, <1>4, <1>5

\* The fragment after one that is lost is due all the same.
LEMMA DueLost ==
    ASSUME NEW e \in Nat, NEW x, Held(e, x), NEW g \in Nat, NEW h,
           NEW d \in Piece, Due(e, x, g, h, d), NEW next \in Piece, Follows(d, next)
    PROVE  Due(e, x, g + 1, h \union {d.frame}, next)
  <1>1. /\ d.frame.frags \in Nat \ {0} /\ d.idx \in 0 .. d.frame.frags - 1
        /\ next.idx \in Nat
    BY PieceIs
  <1>2. x # <<>> => x[1].frame.frags \in Nat
    <2>1. ASSUME NEW c \in Frame, e \in 1 .. c.frags - 1, x = Pieces(c, e)
          PROVE  x[1].frame.frags \in Nat
      <3>1. e \in 1 .. c.frags /\ c.frags \in Nat
        BY <2>1, FragsAre
      <3> QED
        BY <2>1, <3>1, PiecesAre
    <2> QED
      BY <2>1 DEF Held
  <1>3. CASE IsLast(d)
    <2>1. next.idx = 0 /\ d.idx + 1 = d.frame.frags
      BY <1>3 DEF Follows, IsLast
    <2> QED
      BY <1>1, <1>2, <2>1 DEF Due
  <1>4. CASE ~IsLast(d)
    <2>1. next.frame = d.frame /\ next.idx = d.idx + 1
      BY <1>4 DEF Follows, Fragment
    <2> QED
      BY <1>1, <1>2, <2>1 DEF Due
  <1> QED
    BY <1>3, <1>4

\* The fragment after one that was received is due, and so is the same one again if its
\* frame counts as hurt.
LEMMA DueReceived ==
    ASSUME NEW e, NEW x, NEW h, NEW d \in Piece, HeldNext(e, x, d),
           x = <<>> => IsLast(d) \/ d.frame \in h
    PROVE  /\ Held(e, x)
           /\ \A next \in Piece : Follows(d, next) => Due(e, x, 0, h, next)
           /\ Due(e, x, 0, h \union {d.frame}, d)
  <1> DEFINE f == d.frame
  <1>1. /\ f \in Frame /\ f.frags \in Nat \ {0} /\ d.idx \in 0 .. f.frags - 1
        /\ d.idx + 1 \in 1 .. f.frags
    BY PieceIs
  <1>2. CASE x = <<>> /\ e = 0
    <2>1. ASSUME NEW next \in Piece, Follows(d, next)
          PROVE  Due(e, x, 0, h, next)
      BY <1>2, <2>1 DEF Due, Follows, Fragment
    <2> QED
      BY <1>2, <2>1 DEF Held, Due
  <1>3. CASE ~IsLast(d) /\ x = Pieces(f, d.idx + 1) /\ e = d.idx + 1
    <2>1. x # <<>> /\ x[1].frame = f
      BY <1>1, <1>3, PiecesAre
    <2>2. e \in 1 .. f.frags - 1
      BY <1>1, <1>3 DEF IsLast
    <2>3. ASSUME NEW next \in Piece, Follows(d, next)
          PROVE  Due(e, x, 0, h, next)
      <3>1. next.frame = f /\ next.idx = e
        BY <1>3, <2>3 DEF Follows, Fragment
      <3> QED
        BY <2>1, <2>2, <3>1 DEF Due
    <2>4. Due(e, x, 0, h \union {f}, d)
      BY <1>1, <1>3, <2>1, <2>2 DEF Due
    <2> QED
      BY <1>1, <1>3, <2>2, <2>3, <2>4 DEF Held
  <1> QED
    BY <1>2, <1>3 DEF HeldNext

-----------------------------------------------------------------------------
(* The inductive invariant                                                  *)

Types ==
    /\ pc \in [Node -> {"prewait", "poll", "recv", "ended", "dead", "assert"}]
    /\ {open, peer, out, stale} \subseteq [Node -> BOOLEAN]
    /\ queue \in [Node -> Seq(Frame)]
    /\ txbuf \in [Node -> Frame \union {NoFrame}]
    /\ txpos \in [Node -> Nat]
    /\ exp \in [Node -> Nat]
    /\ \A n \in Node : \E k \in FragCounts \union {1} : exp[n] < k
    /\ xbuf \in [Node -> Seq(Piece)]
    /\ chan \in [Node -> Seq(Sendable)]
    /\ filling \in BOOLEAN
    /\ encoded \in 0 .. MaxFrames
    /\ gap \in [Node -> 0 .. MaxGap]
    /\ hurt \subseteq Frame \union {NoFrame}
    /\ complete \subseteq Frame
    /\ written \subseteq Frame
    /\ echoed \subseteq 1 .. MaxFrames
    /\ overtaken \subseteq 1 .. MaxFrames
    /\ reclaimed \subseteq 1 .. MaxFrames

\* Nothing comes to a closed socket and nothing goes out of it.
Shut(n) == ~open[n] => chan[n] = <<>> /\ ~peer[n] /\ txbuf[n] = NoFrame

\* A frame is being sent: some fragments are out and some are not.
Sends(n) == txbuf[n] # NoFrame => txpos[n] \in 1 .. txbuf[n].frags - 1

\* The receiver holds the first fragments of one frame.
Holds(n) == open[n] => Held(exp[n], xbuf[n])

\* What is on its way to node n, with what is sent next.
Way(n) == open[n] => Along(chan[n], Nexts(Other(n)), exp[n], xbuf[n], gap[n], hurt)

\* The server sends each of its frames once: those that wait, the one being sent and the
\* complete ones have different numbers.
ServerOnce ==
    LET q == queue["srv"] IN
    /\ \A i, j \in DOMAIN q : i # j => q[i].id # q[j].id
    /\ \A i \in DOMAIN q :
           /\ q[i].id <= encoded
           /\ txbuf["srv"] # NoFrame => txbuf["srv"].id # q[i].id
           /\ \A f \in complete : f.id # q[i].id
    /\ \A f \in complete : f.id <= encoded /\ (txbuf["srv"] # NoFrame => f.id # txbuf["srv"].id)
    /\ txbuf["srv"] # NoFrame => txbuf["srv"].id <= encoded

\* A frame of which the rest is not on its way yet is not complete.
CutShort ==
    LET s == chan["cli"] IN
    \A j \in DOMAIN s :
        (s[j] # Keepalive /\ ~IsLast(s[j]) /\ \A k \in j + 1 .. Len(s) : s[k] = Keepalive)
            => s[j].frame \notin complete

UdpInv ==
    /\ Types /\ glued = FALSE
    /\ \A n \in Node : Shut(n) /\ Sends(n) /\ Holds(n) /\ Way(n)
    /\ ServerOnce
    /\ open["cli"] => CutShort /\ UnhurtWritten

\* There are two nodes.
LEMMA Nodes ==
    /\ Other("srv") = "cli" /\ Other("cli") = "srv" /\ "srv" \in Node /\ "cli" \in Node
    /\ \A n \in Node : Other(n) \in Node /\ Other(n) # n /\ Other(Other(n)) = n
    /\ \A n, m \in Node : m = n \/ m = Other(n)
  <1>1. Other("srv") = "cli" /\ Other("cli") = "srv"
    BY DEF Other, Node
  <1> QED
    BY <1>1 DEF Node

\* There are no frames without a number of fragments.
LEMMA NoFrameDiffers == NoFrame \notin Frame
  <1>1. NoFrame.by \notin Node
    BY DEF NoFrame, Node
  <1> QED
    BY <1>1 DEF Frame

\* What is sent next are fragments.
LEMMA NextsArePieces ==
    ASSUME Types, NEW n \in Node, Sends(n)
    PROVE  Nexts(n) \subseteq Piece
  <1>1. CASE txbuf[n] = NoFrame
    <2>1. ASSUME NEW f \in Frame
          PROVE  Fragment(f, 0) \in Piece
      BY FragsAre DEF Piece, Fragment
    <2> QED
      BY <1>1, <2>1 DEF Nexts
  <1>2. CASE txbuf[n] # NoFrame
    <2>1. txbuf[n] \in Frame /\ txpos[n] \in 1 .. txbuf[n].frags - 1
      BY <1>2 DEF Types, Sends
    <2>2. txbuf[n].frags \in Nat
      BY <2>1, FragsAre
    <2>3. Fragment(txbuf[n], txpos[n]) \in Piece
      BY <2>1, <2>2 DEF Piece, Fragment
    <2> QED
      BY <1>2, <2>3 DEF Nexts
  <1> QED
    BY <1>1, <1>2

\* The program starts with nothing on its way.
LEMMA InitUdpInv == Init => UdpInv
  <1> SUFFICES ASSUME Init
               PROVE  UdpInv
    OBVIOUS
  <1> USE DEF Init
  <1>0. /\ <<>> \in Seq(Frame) /\ <<>> \in Seq(Piece) /\ <<>> \in Seq(Sendable)
        /\ DOMAIN <<>> = {} /\ MaxFrames \in Nat /\ MaxGap \in Nat
    <2> HIDE DEF Frame, Piece, Sendable
    <2> QED
      BY EmptySeq, LenProperties, BoundAssumption
  <1>1. Types
    <2>1. /\ pc \in [Node -> {"prewait", "poll", "recv", "ended", "dead", "assert"}]
          /\ {open, peer, out, stale} \subseteq [Node -> BOOLEAN]
          /\ txbuf \in [Node -> Frame \union {NoFrame}]
          /\ txpos \in [Node -> Nat] /\ exp \in [Node -> Nat]
          /\ encoded \in 0 .. MaxFrames /\ gap \in [Node -> 0 .. MaxGap]
          /\ hurt \subseteq Frame \union {NoFrame} /\ complete \subseteq Frame
          /\ written \subseteq Frame /\ echoed \subseteq 1 .. MaxFrames
          /\ filling \in BOOLEAN /\ overtaken \subseteq 1 .. MaxFrames
          /\ reclaimed \subseteq 1 .. MaxFrames
      BY <1>0
    <2>2. queue \in [Node -> Seq(Frame)] /\ xbuf \in [Node -> Seq(Piece)] /\ chan \in [Node -> Seq(Sendable)]
      BY <1>0
    <2>3. \A n \in Node : \E k \in FragCounts \union {1} : exp[n] < k
      <3>1. \A n \in Node : exp[n] < 1
        OBVIOUS
      <3> QED
        BY <3>1
    <2> QED
      BY <2>1, <2>2, <2>3 DEF Types
  <1>2. ASSUME NEW n \in Node
        PROVE  Shut(n) /\ Sends(n) /\ Holds(n) /\ Way(n)
    <2>1. Shut(n) /\ Sends(n) /\ Holds(n)
      BY <1>2 DEF Shut, Sends, Holds, Held
    <2>2. FirstDue(<<>>, 0, <<>>, 0, {}) /\ InRow(<<>>)
      BY <1>0 DEF FirstDue, InRow
    <2>3. ASSUME NEW d \in Nexts(Other(n))
          PROVE  FirstDue(Append(<<>>, d), 0, <<>>, 0, {}) /\ InRow(Append(<<>>, d))
      <3>1. d.idx = 0
        BY <2>3, Nodes DEF Nexts, Fragment
      <3>2. Append(<<>>, d) = <<d>>
        OBVIOUS
      <3>3. FirstDue(<<d>>, 0, <<>>, 0, {})
        BY <3>1 DEF FirstDue, Due
      <3>4. InRow(<<d>>)
        BY DEF InRow
      <3> QED
        BY <3>2, <3>3, <3>4
    <2> QED
      BY <1>2, <2>1, <2>2, <2>3, Nodes DEF Way, Along
  <1>3. ServerOnce /\ CutShort /\ UnhurtWritten /\ glued = FALSE
    BY <1>0, Nodes DEF ServerOnce, CutShort, UnhurtWritten
  <1> QED
    BY <1>1, <1>2, <1>3 DEF UdpInv

-----------------------------------------------------------------------------
(* Sending keeps the invariant.                                             *)

\* The first frame of a queue and the others.
LEMMA QueueIs ==
    ASSUME NEW q \in Seq(Frame), q # <<>>
    PROVE  /\ Tail(q) \in Seq(Frame) /\ Len(q) \in Nat /\ Len(q) > 0
           /\ Head(q) = q[1] /\ Head(q) \in Frame
           /\ DOMAIN q = 1 .. Len(q) /\ DOMAIN Tail(q) = 1 .. Len(q) - 1
           /\ \A i \in 1 .. Len(q) - 1 : Tail(q)[i] = q[i + 1]
  <1> HIDE DEF Frame
  <1>1. Len(q) \in Nat /\ Len(q) > 0 /\ DOMAIN q = 1 .. Len(q)
    BY EmptySeq, LenProperties
  <1>2. /\ Tail(q) \in Seq(Frame) /\ Len(Tail(q)) = Len(q) - 1 /\ Head(q) = q[1] /\ Head(q) \in Frame
        /\ \A i \in 1 .. Len(q) - 1 : Tail(q)[i] = q[i + 1]
    BY <1>1, HeadTailProperties
  <1> QED
    BY <1>1, <1>2, LenProperties

\* A queue q without the frame f that is taken: the oldest one, up = 1, or the newest.
Without(q, f, r, up) ==
    /\ Len(q) \in Nat \ {0} /\ DOMAIN q = 1 .. Len(q) /\ DOMAIN r = 1 .. Len(q) - 1
    /\ f = q[IF up = 1 THEN 1 ELSE Len(q)]
    /\ \A i \in 1 .. Len(q) - 1 : r[i] = q[i + up]

\* What l2send may work on.
LEMMA TakenIs ==
    ASSUME NEW n \in Node, queue[n] \in Seq(Frame), txbuf[n] \in Frame \union {NoFrame},
           NEW t \in NextFrames(n)
    PROVE  /\ t.frame \in Frame /\ t.rest \in Seq(Frame)
           /\ \/ txbuf[n] # NoFrame /\ t.frame = txbuf[n] /\ t.rest = queue[n]
              \/ /\ txbuf[n] = NoFrame
                 /\ \E up \in {0, 1} : /\ Without(queue[n], t.frame, t.rest, up)
                                       /\ n = "cli" => up = 1
  <1> DEFINE q == queue[n]
             k == Len(q)
  <1>1. CASE txbuf[n] # NoFrame
    <2>1. t = Taken(txbuf[n], q)
      BY <1>1 DEF NextFrames
    <2> QED
      BY <1>1, <2>1 DEF Taken
  <1>2. CASE txbuf[n] = NoFrame
    <2>1. /\ q # <<>>
          /\ \/ t = Taken(Head(q), Tail(q))
             \/ n = "srv" /\ t = Taken(q[k], SubSeq(q, 1, k - 1))
      BY <1>2 DEF NextFrames
    <2>2. /\ Tail(q) \in Seq(Frame) /\ k \in Nat /\ k > 0
          /\ Head(q) = q[1] /\ Head(q) \in Frame
          /\ DOMAIN q = 1 .. k /\ DOMAIN Tail(q) = 1 .. k - 1
          /\ \A i \in 1 .. k - 1 : Tail(q)[i] = q[i + 1]
      BY <2>1, QueueIs
    <2>3. CASE t = Taken(Head(q), Tail(q))
      <3>1. t.frame = Head(q) /\ t.rest = Tail(q)
        BY <2>3 DEF Taken
      <3> HIDE DEF q, k, Frame
      <3>2. Without(q, t.frame, t.rest, 1)
        BY <2>2, <3>1 DEF Without, k
      <3> QED
        BY <1>2, <2>2, <3>1, <3>2 DEF q
    <2>4. CASE n = "srv" /\ t = Taken(q[k], SubSeq(q, 1, k - 1))
      <3> DEFINE r == SubSeq(q, 1, k - 1)
      <3>1. t.frame = q[k] /\ t.rest = r
        BY <2>4 DEF Taken
      <3> HIDE DEF q, Frame
      <3>2. \A i \in 1 .. k : q[i] \in Frame
        BY <2>2, ElementOfSeq DEF q
      <3>3. /\ r \in Seq(Frame) /\ Len(r) = k - 1
            /\ \A i \in 1 .. k - 1 : r[i] = q[i]
        <4> HIDE DEF k
        <4>1. 1 \in Int /\ k - 1 \in Int /\ \A i \in 1 .. k - 1 : q[i] \in Frame
          BY <2>2, <3>2
        <4>2. /\ SubSeq(q, 1, k - 1) \in Seq(Frame)
              /\ Len(SubSeq(q, 1, k - 1)) = IF 1 <= k - 1 THEN k - 1 - 1 + 1 ELSE 0
              /\ \A i \in 1 .. k - 1 - 1 + 1 : SubSeq(q, 1, k - 1)[i] = q[1 + i - 1]
          BY <4>1, SubSeqProperties
        <4> QED
          BY <2>2, <4>2
      <3>4. DOMAIN r = 1 .. k - 1
        BY <3>3, LenProperties
      <3> HIDE DEF r, k
      <3>5. Without(q, t.frame, t.rest, 0)
        BY <2>2, <3>1, <3>3, <3>4 DEF Without, k
      <3>6. t.frame \in Frame
        BY <2>2, <3>1, <3>2
      <3> QED
        BY <1>2, <2>4, <3>1, <3>3, <3>5, <3>6 DEF q
    <2> QED
      BY <2>1, <2>3, <2>4
  <1> QED
    BY <1>1, <1>2

\* What L2Send sends, and what it sends next.
LEMMA SendIs ==
    ASSUME Types, NEW n \in Node, Sends(n), open[n], NEW t \in NextFrames(n), L2Send(n, t),
           UNCHANGED open, NEW f, f = t.frame
    PROVE  /\ f \in Frame /\ queue' = [queue EXCEPT ![n] = t.rest]
           /\ \E d \in Nexts(n) :
                  /\ d \in Piece /\ d.frame = f
                  /\ chan' = [chan EXCEPT ![Other(n)] = IF open[Other(n)] THEN Append(@, d) ELSE @]
                  /\ complete' = IF IsLast(d) /\ n = "srv" THEN complete \union {f} ELSE complete
                  /\ Nexts(n)' \subseteq Piece /\ \A next \in Nexts(n)' : Follows(d, next)
                  /\ txbuf' = [txbuf EXCEPT ![n] = IF IsLast(d) THEN NoFrame ELSE f]
                  /\ txpos' = [txpos EXCEPT ![n] = d.idx + 1]
           /\ Sends(n)'
  <1> DEFINE i == IF txbuf[n] = NoFrame THEN 0 ELSE txpos[n]
             d == Fragment(f, i)
  <1>1. f \in Frame /\ (txbuf[n] # NoFrame => f = txbuf[n])
    <2>1. queue[n] \in Seq(Frame) /\ txbuf[n] \in Frame \union {NoFrame}
      BY DEF Types
    <2> QED
      BY <2>1, TakenIs, Zenon
  <1>2. f.frags \in Nat \ {0}
    BY <1>1, FragsAre
  <1>3. d \in Nexts(n) /\ i \in 0 .. f.frags - 1
    <2>1. CASE txbuf[n] = NoFrame
      BY <1>1, <1>2, <2>1 DEF Nexts
    <2>2. CASE txbuf[n] # NoFrame
      <3>1. f = txbuf[n] /\ i = txpos[n]
        BY <1>1, <2>2
      <3> QED
        BY <1>2, <2>2, <3>1 DEF Sends, Nexts
    <2> QED
      BY <2>1, <2>2
  <1>4. d \in Piece /\ d.frame = f /\ d.idx = i
    BY <1>1, <1>2, <1>3 DEF Piece, Fragment
  <1>5. /\ chan' = [chan EXCEPT ![Other(n)] = IF open[Other(n)] THEN Append(@, d) ELSE @]
        /\ complete' = IF IsLast(d) /\ n = "srv" THEN complete \union {f} ELSE complete
        /\ txbuf' = [txbuf EXCEPT ![n] = IF IsLast(d) THEN NoFrame ELSE f]
        /\ txpos' = [txpos EXCEPT ![n] = i + 1]
        /\ queue' = [queue EXCEPT ![n] = t.rest]
    BY DEF L2Send, Arriving
  <1>6. txbuf'[n] = (IF IsLast(d) THEN NoFrame ELSE f) /\ txpos'[n] = i + 1 /\ f # NoFrame
    BY <1>1, <1>5, NoFrameDiffers DEF Types
  <1> HIDE DEF i
  <1>7. Nexts(n)' = IF IsLast(d) THEN {Fragment(c, 0) : c \in Frame} ELSE {Fragment(f, i + 1)}
    BY <1>6 DEF Nexts
  <1>8. Nexts(n)' \subseteq Piece
    <2>1. ASSUME NEW c \in Frame
          PROVE  Fragment(c, 0) \in Piece
      BY FragsAre DEF Piece, Fragment
    <2>2. ASSUME ~IsLast(d)
          PROVE  Fragment(f, i + 1) \in Piece
      <3>1. i + 1 # f.frags
        BY <1>4, <2>2 DEF IsLast
      <3> QED
        BY <1>1, <1>2, <1>3, <3>1 DEF Piece, Fragment
    <2> QED
      BY <1>7, <2>1, <2>2
  <1>9. \A next \in Nexts(n)' : Follows(d, next)
    <2>1. CASE IsLast(d)
      BY <1>7, <2>1 DEF Follows, Fragment
    <2>2. CASE ~IsLast(d)
      BY <1>4, <1>7, <2>2 DEF Follows
    <2> QED
      BY <2>1, <2>2
  <1>10. Sends(n)'
    <2>1. ~IsLast(d) => i + 1 # f.frags
      BY <1>4 DEF IsLast
    <2> QED
      BY <1>2, <1>3, <1>6, <2>1 DEF Sends
  <1> HIDE DEF d
  <1> QED
    BY <1>1, <1>3, <1>4, <1>5, <1>8, <1>9, <1>10

\* The server's frames keep their different numbers when it sends.
LEMMA SendOnce ==
    ASSUME Types, ServerOnce, NEW n \in Node, n = "srv", NEW t \in NextFrames(n), L2Send(n, t),
           UNCHANGED encoded, NEW f, f = t.frame
    PROVE  ServerOnce' /\ f \notin complete
  <1> DEFINE q == queue["srv"]
             r == queue'["srv"]
  <1>1. q \in Seq(Frame) /\ "srv" \in Node /\ txbuf["srv"] \in Frame \union {NoFrame}
        /\ r = t.rest
    BY Nodes DEF Types, L2Send
  <1>2. /\ f \in Frame /\ f.id \in Nat
        /\ \/ txbuf["srv"] # NoFrame /\ f = txbuf["srv"] /\ r = q
           \/ txbuf["srv"] = NoFrame /\ \E up \in {0, 1} : Without(q, f, r, up)
    <2>1. /\ f \in Frame
          /\ \/ txbuf["srv"] # NoFrame /\ f = txbuf["srv"] /\ r = q
             \/ txbuf["srv"] = NoFrame /\ \E up \in {0, 1} : Without(q, f, r, up)
      <3>1. /\ t.frame \in Frame
            /\ \/ txbuf[n] # NoFrame /\ t.frame = txbuf[n] /\ t.rest = queue[n]
               \/ /\ txbuf[n] = NoFrame
                  /\ \E up \in {0, 1} : Without(queue[n], t.frame, t.rest, up)
        BY <1>1, TakenIs, Zenon
      <3> QED
        BY <1>1, <3>1
    <2>2. f.id \in 1 .. MaxFrames /\ MaxFrames \in Nat
      BY <2>1, BoundAssumption DEF Frame
    <2> QED
      BY <2>1, <2>2
  <1>3. f # NoFrame
    BY <1>2, NoFrameDiffers
  <1>4. /\ \A i, j \in DOMAIN q : i # j => q[i].id # q[j].id
        /\ \A i \in DOMAIN q :
               /\ q[i].id <= encoded
               /\ txbuf["srv"] # NoFrame => txbuf["srv"].id # q[i].id
               /\ \A c \in complete : c.id # q[i].id
        /\ \A c \in complete : c.id <= encoded /\ (txbuf["srv"] # NoFrame => c.id # txbuf["srv"].id)
        /\ txbuf["srv"] # NoFrame => txbuf["srv"].id <= encoded
    BY DEF ServerOnce
  <1> HIDE DEF q, r
  <1>5. /\ f.id <= encoded /\ \A c \in complete : c.id # f.id
        /\ \A i, j \in DOMAIN r : i # j => r[i].id # r[j].id
        /\ \A i \in DOMAIN r : r[i].id <= encoded /\ f.id # r[i].id /\ \A c \in complete : c.id # r[i].id
    <2>1. CASE txbuf["srv"] # NoFrame /\ f = txbuf["srv"] /\ r = q
      BY <1>4, <2>1
    <2>2. ASSUME NEW up \in {0, 1}, Without(q, f, r, up)
          PROVE  /\ f.id <= encoded /\ \A c \in complete : c.id # f.id
                 /\ \A i, j \in DOMAIN r : i # j => r[i].id # r[j].id
                 /\ \A i \in DOMAIN r : /\ r[i].id <= encoded /\ f.id # r[i].id
                                       /\ \A c \in complete : c.id # r[i].id
      <3> DEFINE l == Len(q)
                 a == IF up = 1 THEN 1 ELSE l
      <3>1. /\ l \in Nat \ {0} /\ DOMAIN q = 1 .. l /\ DOMAIN r = 1 .. l - 1 /\ f = q[a]
            /\ \A i \in 1 .. l - 1 : r[i] = q[i + up]
        BY <2>2 DEF Without
      <3> HIDE DEF l
      <3>2. a \in DOMAIN q /\ \A i \in DOMAIN r : i + up \in DOMAIN q /\ i + up # a /\ r[i] = q[i + up]
        BY <3>1
      <3>3. \A i, j \in DOMAIN r : i # j => i + up # j + up
        BY <3>1
      <3> HIDE DEF a
      <3> QED
        BY <1>4, <3>1, <3>2, <3>3
    <2> QED
      BY <1>2, <2>1, <2>2
  <1>6. /\ complete' \subseteq complete \union {f}
        /\ txbuf'["srv"] = NoFrame \/ (txbuf'["srv"] = f /\ complete' = complete)
    BY <1>1 DEF L2Send, Types
  <1>7. r = queue'["srv"]
    BY DEF r
  <1>8. /\ \A i \in DOMAIN r : \A c \in complete' : c.id # r[i].id
        /\ \A c \in complete' : c.id <= encoded
    BY <1>4, <1>5, <1>6
  <1> QED
    BY <1>3, <1>5, <1>6, <1>7, <1>8 DEF ServerOnce

\* All that L2Send leaves alone.
Beside ==
    <<open, peer, rxVars, filling, encoded, gap, hurt, written, echoed, glued, reclaimed>>

PcOK == pc \in [Node -> {"prewait", "poll", "recv", "ended", "dead", "assert"}]

\* One step of sending.
LEMMA SendKeeps ==
    ASSUME UdpInv, NEW n \in Node, open[n], NEW t \in NextFrames(n), L2Send(n, t),
           UNCHANGED Beside, PcOK'
    PROVE  UdpInv'
  <1> DEFINE m == Other(n)
             f == t.frame
  <1> USE DEF UdpInv
  <1>1. m \in Node /\ m # n /\ Other(m) = n /\ \A k \in Node : k = n \/ k = m
    BY Nodes
  <1>2. UNCHANGED <<open, peer, exp, xbuf, filling, encoded, gap, hurt, written, echoed, glued,
                    reclaimed>>
    BY DEF Beside, rxVars
  <1>3. PICK d \in Nexts(n) :
            /\ d \in Piece /\ d.frame = f
            /\ chan' = [chan EXCEPT ![m] = IF open[m] THEN Append(@, d) ELSE @]
            /\ complete' = IF IsLast(d) /\ n = "srv" THEN complete \union {f} ELSE complete
            /\ Nexts(n)' \subseteq Piece /\ \A next \in Nexts(n)' : Follows(d, next)
            /\ txbuf' = [txbuf EXCEPT ![n] = IF IsLast(d) THEN NoFrame ELSE f]
            /\ txpos' = [txpos EXCEPT ![n] = d.idx + 1]
    BY <1>2, SendIs
  <1>4. f \in Frame /\ Sends(n)' /\ queue' = [queue EXCEPT ![n] = t.rest]
    BY <1>2, SendIs
  <1> HIDE DEF m, f
  <1>5. chan \in [Node -> Seq(Sendable)] /\ d \in Sendable
    BY <1>3 DEF Types, Sendable
  <1>6. /\ chan'[n] = chan[n]
        /\ chan'[m] = IF open[m] THEN Append(chan[m], d) ELSE chan[m]
        /\ chan[m] \in Seq(Sendable) /\ chan[n] \in Seq(Sendable)
    BY <1>1, <1>3, <1>5
  <1>7. Types'
    <2>1. chan' \in [Node -> Seq(Sendable)]
      <3>1. Append(chan[m], d) \in Seq(Sendable)
        BY <1>5, <1>6, AppendIs
      <3> QED
        BY <1>1, <1>3, <1>5, <3>1
    <2>2. queue' \in [Node -> Seq(Frame)]
      <3>1. /\ queue[n] \in Seq(Frame) /\ queue \in [Node -> Seq(Frame)]
            /\ txbuf[n] \in Frame \union {NoFrame}
        BY DEF Types
      <3>2. t.rest \in Seq(Frame)
        BY <3>1, TakenIs
      <3> QED
        BY <1>4, <3>1, <3>2
    <2>3. txbuf' \in [Node -> Frame \union {NoFrame}] /\ complete' \subseteq Frame
      BY <1>3, <1>4 DEF Types
    <2>4. txpos' \in [Node -> Nat]
      <3>1. d.idx \in Nat
        BY <1>3 DEF Piece
      <3> QED
        BY <1>3, <3>1 DEF Types
    <2>5. {open, peer, out, stale}' \subseteq [Node -> BOOLEAN]
      <3>1. out' = [out EXCEPT ![n] = FALSE] /\ stale' = [stale EXCEPT ![n] = FALSE]
        BY DEF L2Send
      <3> QED
        BY <1>2, <3>1 DEF Types
    <2>6. overtaken' \subseteq 1 .. MaxFrames
      <3>1. queue[n] \in Seq(Frame) /\ txbuf[n] \in Frame \union {NoFrame} /\ overtaken \subseteq 1 .. MaxFrames
        BY DEF Types
      <3>2. t.rest \in Seq(Frame)
        BY <3>1, TakenIs
      <3>3. \A h \in Range(t.rest) : h.id \in 1 .. MaxFrames
        <4>1. \A h \in Range(t.rest) : h \in Frame
          <5> HIDE DEF Frame
          <5> QED
            BY <3>2, LenProperties, ElementOfSeq DEF Range
        <4> QED
          BY <4>1 DEF Frame
      <3>4. overtaken' \subseteq overtaken \union {g.id : g \in {h \in Range(t.rest) : h.id < f.id}}
        BY DEF L2Send, f
      <3> QED
        BY <3>1, <3>3, <3>4
    <2> QED
      BY <1>2, <2>1, <2>2, <2>3, <2>4, <2>5, <2>6 DEF Types, PcOK
  <1>8. txbuf'[m] = txbuf[m] /\ txpos'[m] = txpos[m]
    BY <1>1, <1>3 DEF Types
  <1>9. Shut(n)' /\ Shut(m)' /\ Sends(m)' /\ Holds(n)' /\ Holds(m)'
    BY <1>1, <1>2, <1>6, <1>8 DEF Shut, Sends, Holds
  <1>10. Way(n)'
    <2>1. Nexts(m)' = Nexts(m)
      BY <1>2, <1>8 DEF Nexts
    <2>2. Way(n)
      OBVIOUS
    <2> QED
      BY <1>1, <1>2, <1>6, <2>1, <2>2 DEF Way, m
  <1>11. Way(m)'
    <2>1. CASE ~open[m]
      BY <1>2, <2>1 DEF Way
    <2>2. CASE open[m]
      <3>1. Along(chan[m], Nexts(n), exp[m], xbuf[m], gap[m], hurt)
        BY <1>1, <2>2 DEF Way
      <3>2. Nexts(n) \in SUBSET Piece
        BY NextsArePieces
      <3>3. Along(Append(chan[m], d), Nexts(n)', exp[m], xbuf[m], gap[m], hurt)
        BY <1>3, <1>6, <3>1, <3>2, AlongPiece
      <3> QED
        BY <1>1, <1>2, <1>6, <2>2, <3>3 DEF Way
    <2> QED
      BY <2>1, <2>2
  <1>12. ServerOnce'
    <2>1. CASE n = "srv"
      BY <1>2, <2>1, SendOnce
    <2>2. CASE n # "srv"
      <3>1. queue'["srv"] = queue["srv"] /\ txbuf'["srv"] = txbuf["srv"] /\ complete' = complete
        BY <1>3, <1>4, <2>2, Nodes DEF Types
      <3> QED
        BY <1>2, <3>1 DEF ServerOnce
    <2> QED
      BY <2>1, <2>2
  <1>13. ASSUME open["cli"]
         PROVE  CutShort' /\ UnhurtWritten'
    <2>1. CASE n # "srv"
      <3>1. chan'["cli"] = chan["cli"] /\ complete' = complete
        BY <1>3, <1>6, <2>1 DEF Node
      <3> QED
        BY <1>2, <1>13, <3>1 DEF CutShort, UnhurtWritten
    <2>2. CASE n = "srv"
      <3> DEFINE s == chan["cli"]
                 r == chan'["cli"]
      <3>1. m = "cli" /\ s \in Seq(Sendable) /\ r = Append(s, d)
        BY <1>6, <1>13, <2>2, Nodes DEF m
      <3>2. /\ Len(s) \in Nat /\ DOMAIN s = 1 .. Len(s) /\ DOMAIN r = 1 .. Len(s) + 1
            /\ \A i \in 1 .. Len(s) : r[i] = s[i]
            /\ r[Len(s) + 1] = d /\ r \in Seq(Sendable)
        BY <1>5, <3>1, AppendIs
      <3>3. Len(r) = Len(s) + 1
        BY <3>2, LenProperties
      <3>4. f \notin complete
        BY <1>2, <2>2, SendOnce DEF f
      <3>5. d # Keepalive
        BY <1>3, KeepaliveDiffers
      <3>6. CutShort /\ UnhurtWritten
        BY <1>13
      <3> HIDE DEF s, r
      <3>7. CutShort'
        <4> SUFFICES ASSUME NEW j \in DOMAIN r, ~IsLast(r[j]),
                            \A k \in j + 1 .. Len(r) : r[k] = Keepalive
                     PROVE  r[j].frame \notin complete'
          BY DEF CutShort, r
        <4>1. j = Len(s) + 1
          <5>1. j # Len(s) + 1 => Len(s) + 1 \in j + 1 .. Len(r)
            BY <3>2, <3>3
          <5> QED
            BY <3>2, <3>5, <5>1
        <4>2. r[j] = d /\ complete' = complete
          BY <1>3, <3>2, <4>1
        <4> QED
          BY <1>3, <3>4, <4>2
      <3>8. UnhurtWritten'
        <4> SUFFICES ASSUME NEW c \in complete'
                     PROVE  c \in hurt \union written \/ \E i \in DOMAIN r : r[i].frame = c
          BY <1>2 DEF UnhurtWritten, r
        <4>1. CASE c = f
          <5>1. Len(s) + 1 \in DOMAIN r /\ r[Len(s) + 1].frame = f
            BY <1>3, <3>2
          <5> QED
            BY <4>1, <5>1
        <4>2. CASE c # f
          <5>1. c \in complete
            BY <1>3, <4>2
          <5>2. c \in hurt \union written \/ \E i \in DOMAIN s : s[i].frame = c
            BY <1>13, <3>6, <5>1 DEF UnhurtWritten, s
          <5> QED
            BY <3>2, <5>2
        <4> QED
          BY <4>1, <4>2
      <3> QED
        BY <3>7, <3>8
    <2> QED
      BY <2>1, <2>2
  <1> QED
    BY <1>1, <1>2, <1>4, <1>7, <1>9, <1>10, <1>11, <1>12, <1>13

-----------------------------------------------------------------------------
(* The other steps keep the invariant.                                      *)

\* Where a thread is and what its socket last reported does not matter.
LEMMA Undisturbed ==
    ASSUME UdpInv, PcOK', {out, stale}' \subseteq [Node -> BOOLEAN],
           UNCHANGED <<open, peer, txVars, rxVars, chan, filling, encoded, history>>
    PROVE  UdpInv'
  <1> USE DEF UdpInv
  <1>1. UNCHANGED <<open, peer, queue, txbuf, txpos, exp, xbuf, chan, filling, encoded, gap, hurt,
                    complete, written, echoed, glued, overtaken, reclaimed>>
    BY DEF txVars, rxVars, history, order
  <1>2. Types'
    BY <1>1 DEF Types, PcOK
  <1>3. ASSUME NEW n \in Node
        PROVE  Shut(n)' /\ Sends(n)' /\ Holds(n)' /\ Way(n)'
    <2>1. Shut(n) /\ Sends(n) /\ Holds(n) /\ Way(n)
      OBVIOUS
    <2> QED
      BY <1>1, <2>1 DEF Shut, Sends, Holds, Way, Nexts
  <1>4. ServerOnce'
    BY <1>1 DEF ServerOnce
  <1>5. open["cli"]' => CutShort' /\ UnhurtWritten'
    BY <1>1 DEF CutShort, UnhurtWritten
  <1> QED
    BY <1>1, <1>2, <1>3, <1>4, <1>5

\* A keepalive goes between the fragments.
LEMMA IdleKeeps ==
    ASSUME UdpInv, NEW n \in Node, PrewaitIdle(n)
    PROVE  UdpInv'
  <1> DEFINE m == Other(n)
             s == chan[m]
  <1> USE DEF UdpInv
  <1>1. m \in Node /\ m # n /\ Other(m) = n /\ \A k \in Node : k = n \/ k = m
    BY Nodes
  <1>2. /\ UNCHANGED <<open, peer, queue, txbuf, txpos, exp, xbuf, filling, encoded, gap, hurt,
                       complete, written, echoed, glued, overtaken, reclaimed>>
        /\ pc' = [pc EXCEPT ![n] = "poll"]
        /\ out' \in {out, [out EXCEPT ![n] = FALSE]}
        /\ stale' \in {stale, [stale EXCEPT ![n] = FALSE]}
    BY DEF PrewaitIdle, Goto, txVars, rxVars, history, order
  <1>3. PcOK' /\ {out, stale}' \subseteq [Node -> BOOLEAN]
    BY <1>2 DEF Types, PcOK
  <1>4. CASE chan' = chan
    BY <1>2, <1>3, <1>4, Undisturbed DEF txVars, rxVars, history, order
  <1>5. CASE chan' # chan
    <2>1. open[m] /\ chan' = [chan EXCEPT ![m] = Append(@, Keepalive)]
      BY <1>1, <1>5 DEF PrewaitIdle, Arriving, Types
    <2> HIDE DEF m
    <2>2. /\ s \in Seq(Sendable) /\ Keepalive \in Sendable /\ chan \in [Node -> Seq(Sendable)]
          /\ chan'[n] = chan[n] /\ chan'[m] = Append(s, Keepalive)
      BY <1>1, <2>1 DEF Types, Sendable
    <2> DEFINE t == chan'[m]
    <2>3. /\ t \in Seq(Sendable) /\ Len(s) \in Nat
          /\ DOMAIN s = 1 .. Len(s) /\ DOMAIN t = 1 .. Len(s) + 1
          /\ \A i \in 1 .. Len(s) : t[i] = s[i]
          /\ t[Len(s) + 1] = Keepalive
      BY <2>2, AppendIs
    <2>4. Len(t) = Len(s) + 1
      BY <2>3, LenProperties
    <2>5. Types'
      <3>1. chan' \in [Node -> Seq(Sendable)]
        BY <1>1, <2>1, <2>2, <2>3
      <3> QED
        BY <1>2, <1>3, <3>1 DEF Types, PcOK
    <2>6. Shut(n)' /\ Shut(m)' /\ Sends(n)' /\ Sends(m)' /\ Holds(n)' /\ Holds(m)'
      BY <1>1, <1>2, <2>1, <2>2 DEF Shut, Sends, Holds
    <2>7. Nexts(n)' = Nexts(n) /\ Nexts(m)' = Nexts(m)
      BY <1>2 DEF Nexts
    <2>8. Way(n)'
      <3>1. Way(n)
        OBVIOUS
      <3> QED
        BY <1>1, <1>2, <2>2, <2>7, <3>1 DEF Way, m
    <2>9. Way(m)'
      <3>1. Along(s, Nexts(n), exp[m], xbuf[m], gap[m], hurt)
        BY <1>1, <2>1 DEF Way
      <3>2. Nexts(n) \in SUBSET Piece
        BY NextsArePieces
      <3>3. Along(Append(s, Keepalive), Nexts(n), exp[m], xbuf[m], gap[m], hurt)
        BY <2>2, <3>1, <3>2, AlongKeepalive
      <3> QED
        BY <1>1, <1>2, <2>2, <2>7, <3>3 DEF Way
    <2>10. ServerOnce'
      BY <1>2 DEF ServerOnce
    <2>11. ASSUME open["cli"]
           PROVE  CutShort' /\ UnhurtWritten'
      <3>1. CutShort /\ UnhurtWritten
        BY <2>11
      <3>2. CASE m = "cli"
        <4> HIDE DEF s, t
        <4>1. CutShort'
          <5> SUFFICES ASSUME NEW j \in DOMAIN t, t[j] # Keepalive, ~IsLast(t[j]),
                              \A k \in j + 1 .. Len(t) : t[k] = Keepalive
                       PROVE  t[j].frame \notin complete
            BY <1>2, <3>2 DEF CutShort, t
          <5>1. j \in 1 .. Len(s) /\ t[j] = s[j]
            BY <2>3
          <5>2. \A k \in j + 1 .. Len(s) : s[k] = Keepalive
            <6>1. \A k \in j + 1 .. Len(s) : k \in 1 .. Len(s) /\ k \in j + 1 .. Len(t)
              BY <2>3, <2>4
            <6> QED
              BY <2>3, <6>1
          <5> QED
            BY <2>3, <3>1, <3>2, <5>1, <5>2 DEF CutShort, s
        <4>2. UnhurtWritten'
          <5> SUFFICES ASSUME NEW c \in complete
                       PROVE  c \in hurt \union written \/ \E i \in DOMAIN t : t[i].frame = c
            BY <1>2, <3>2 DEF UnhurtWritten, t
          <5>1. c \in hurt \union written \/ \E i \in DOMAIN s : s[i].frame = c
            BY <2>11, <3>1, <3>2 DEF UnhurtWritten, s
          <5> QED
            BY <2>3, <5>1
        <4> QED
          BY <4>1, <4>2
      <3>3. CASE m # "cli"
        <4>1. chan'["cli"] = chan["cli"]
          BY <1>1, <2>2, <3>3, Nodes
        <4> QED
          BY <1>2, <3>1, <4>1 DEF CutShort, UnhurtWritten
      <3> QED
        BY <3>2, <3>3
    <2> QED
      BY <1>1, <1>2, <2>5, <2>6, <2>8, <2>9, <2>10, <2>11
  <1> QED
    BY <1>4, <1>5

\* Closing a socket throws away what was on its way to it; the frame under way waits again.
LEMMA CloseKeeps ==
    ASSUME UdpInv, NEW n \in Node, NEW then, L2Close(n, then), PcOK'
    PROVE  UdpInv'
  <1> DEFINE m == Other(n)
  <1> USE DEF UdpInv
  <1>1. m \in Node /\ m # n /\ Other(m) = n /\ \A k \in Node : k = n \/ k = m
    BY Nodes
  <1>2. UNCHANGED <<txpos, exp, filling, encoded, gap, hurt, complete, written, echoed, glued,
                    overtaken, reclaimed>>
    BY DEF L2Close, history, order
  <1> HIDE DEF m
  <1>3. /\ open' = [open EXCEPT ![n] = FALSE] /\ peer' = [peer EXCEPT ![n] = FALSE]
        /\ out' = [out EXCEPT ![n] = FALSE] /\ stale' = [stale EXCEPT ![n] = FALSE]
        /\ queue' = [queue EXCEPT ![n] = IF txbuf[n] = NoFrame THEN @ ELSE <<txbuf[n]>> \o @]
        /\ txbuf' = [txbuf EXCEPT ![n] = NoFrame] /\ xbuf' = [xbuf EXCEPT ![n] = <<>>]
        /\ chan' = [chan EXCEPT ![n] = <<>>]
    BY DEF L2Close
  <1>4. /\ chan \in [Node -> Seq(Sendable)] /\ xbuf \in [Node -> Seq(Piece)]
        /\ queue \in [Node -> Seq(Frame)] /\ txbuf \in [Node -> Frame \union {NoFrame}]
        /\ {open, peer, out, stale} \subseteq [Node -> BOOLEAN]
    BY DEF Types
  <1>5. txbuf[n] # NoFrame => <<txbuf[n]>> \o queue[n] \in Seq(Frame)
    <2>1. queue[n] \in Seq(Frame) /\ (txbuf[n] # NoFrame => txbuf[n] \in Frame)
      BY <1>4
    <2> HIDE DEF Frame
    <2> QED
      BY <2>1, ConcatProperties
  <1>6. Types'
    <2>1. <<>> \in Seq(Sendable) /\ <<>> \in Seq(Piece)
      <3> HIDE DEF Sendable, Piece
      <3> QED
        BY EmptySeq
    <2>2. chan' \in [Node -> Seq(Sendable)] /\ xbuf' \in [Node -> Seq(Piece)]
      BY <1>3, <1>4, <2>1
    <2>3. queue' \in [Node -> Seq(Frame)]
      BY <1>3, <1>4, <1>5
    <2>4. txbuf' \in [Node -> Frame \union {NoFrame}] /\ {open, peer, out, stale}' \subseteq [Node -> BOOLEAN]
      BY <1>3, <1>4
    <2> QED
      BY <1>2, <2>2, <2>3, <2>4 DEF Types, PcOK
  <1>7. /\ ~open'[n] /\ open'[m] = open[m] /\ chan'[m] = chan[m] /\ chan'[n] = <<>> /\ ~peer'[n]
        /\ peer'[m] = peer[m] /\ txbuf'[n] = NoFrame /\ txbuf'[m] = txbuf[m] /\ xbuf'[m] = xbuf[m]
    BY <1>1, <1>3, <1>4
  <1>8. Shut(n)' /\ Shut(m)' /\ Sends(n)' /\ Sends(m)' /\ Holds(n)' /\ Holds(m)'
    BY <1>1, <1>2, <1>7 DEF Shut, Sends, Holds
  <1>9. Way(n)' /\ Way(m)'
    <2>1. Nexts(n)' = {}
      BY <1>7 DEF Nexts
    <2>2. ASSUME open[m]
          PROVE  Along(chan[m], {}, exp[m], xbuf[m], gap[m], hurt)
      <3>1. Along(chan[m], Nexts(n), exp[m], xbuf[m], gap[m], hurt)
        BY <1>1, <2>2 DEF Way
      <3> QED
        BY <3>1, AlongLess
    <2> QED
      BY <1>1, <1>2, <1>7, <2>1, <2>2 DEF Way
  <1>10. ServerOnce'
    <2>1. CASE n # "srv"
      <3>1. queue'["srv"] = queue["srv"] /\ txbuf'["srv"] = txbuf["srv"]
        BY <1>3, <1>4, <2>1, Nodes
      <3> QED
        BY <1>2, <3>1 DEF ServerOnce
    <2>2. CASE n = "srv" /\ txbuf["srv"] = NoFrame
      <3>1. queue'["srv"] = queue["srv"] /\ txbuf'["srv"] = txbuf["srv"]
        BY <1>3, <1>4, <2>2, Nodes
      <3> QED
        BY <1>2, <3>1 DEF ServerOnce
    <2>3. CASE n = "srv" /\ txbuf["srv"] # NoFrame
      <3> DEFINE q == queue["srv"]
                 f == txbuf["srv"]
                 r == queue'["srv"]
      <3>1. r = <<f>> \o q /\ q \in Seq(Frame) /\ f \in Frame /\ txbuf'["srv"] = NoFrame
        BY <1>3, <1>4, <2>3, Nodes
      <3>2. /\ Len(q) \in Nat /\ DOMAIN q = 1 .. Len(q) /\ DOMAIN r = 1 .. Len(q) + 1 /\ r[1] = f
            /\ \A i \in 2 .. Len(q) + 1 : r[i] = q[i - 1]
        <4> HIDE DEF Frame, q, f, r
        <4>1. <<f>> \in Seq(Frame) /\ Len(<<f>>) = 1 /\ <<f>>[1] = f
          BY <3>1
        <4>2. /\ r \in Seq(Frame) /\ Len(r) = 1 + Len(q)
              /\ \A i \in 1 .. 1 + Len(q) : r[i] = IF i <= 1 THEN <<f>>[i] ELSE q[i - 1]
          BY <3>1, <4>1, ConcatProperties
        <4>3. Len(q) \in Nat /\ DOMAIN q = 1 .. Len(q) /\ DOMAIN r = 1 .. Len(q) + 1
          BY <3>1, <4>2, LenProperties
        <4> QED
          BY <4>1, <4>2, <4>3
      <3>3. /\ \A i, j \in DOMAIN q : i # j => q[i].id # q[j].id
            /\ \A i \in DOMAIN q : q[i].id <= encoded /\ f.id # q[i].id /\ \A c \in complete : c.id # q[i].id
            /\ \A c \in complete : c.id <= encoded /\ c.id # f.id
            /\ f.id <= encoded
        BY <2>3 DEF ServerOnce
      <3> HIDE DEF q, f
      <3>4. \A i \in DOMAIN r : \/ i = 1 /\ r[i] = f
                                \/ i - 1 \in DOMAIN q /\ r[i] = q[i - 1]
        BY <3>2
      <3>5. ASSUME NEW i \in DOMAIN r, NEW j \in DOMAIN r, i # j
            PROVE  \/ i = 1 /\ r[i] = f /\ j - 1 \in DOMAIN q /\ r[j] = q[j - 1]
                   \/ j = 1 /\ r[j] = f /\ i - 1 \in DOMAIN q /\ r[i] = q[i - 1]
                   \/ /\ i - 1 \in DOMAIN q /\ r[i] = q[i - 1] /\ i - 1 # j - 1
                      /\ j - 1 \in DOMAIN q /\ r[j] = q[j - 1]
        BY <3>2, <3>5
      <3>6. \A i, j \in DOMAIN r : i # j => r[i].id # r[j].id
        BY <3>3, <3>5
      <3>7. \A i \in DOMAIN r : r[i].id <= encoded /\ \A c \in complete : c.id # r[i].id
        BY <3>3, <3>4
      <3> QED
        BY <1>2, <3>1, <3>3, <3>6, <3>7 DEF ServerOnce
    <2> QED
      BY <2>1, <2>2, <2>3
  <1>11. ASSUME open'["cli"]
         PROVE  CutShort' /\ UnhurtWritten'
    <2>1. m = "cli" /\ open["cli"]
      BY <1>1, <1>7, <1>11, Nodes
    <2> QED
      BY <1>2, <1>7, <2>1 DEF CutShort, UnhurtWritten
  <1> QED
    BY <1>1, <1>2, <1>6, <1>8, <1>9, <1>10, <1>11

-----------------------------------------------------------------------------
(* Receiving and losing a datagram keeps the invariant.                     *)

\* A set of numbers has a least one.
LEMMA LeastOf ==
    ASSUME NEW T \in SUBSET Nat, T # {}
    PROVE  \E x \in T : \A y \in T : x <= y
  <1>1. PICK x \in T : \A y \in T : ~ (<<y, x>> \in OpToRel(<, Nat))
    BY NatLessThanWellFounded, WFMin, Zenon
  <1>2. ASSUME NEW y \in T
        PROVE  x <= y
    <2>1. <<y, x>> \notin {ss \in Nat \X Nat : ss[1] < ss[2]}
      BY <1>1 DEF OpToRel
    <2> QED
      BY <2>1
  <1> QED
    BY <1>2

\* The first datagram is a fragment: more of its frame comes, or nothing but keepalives.
LEMMA MoreComes ==
    ASSUME NEW s \in Seq(Sendable), s # <<>>, InRow(s), s[1] # Keepalive, ~IsLast(s[1])
    PROVE  \/ \E j \in 2 .. Len(s) : s[j].frame = s[1].frame
           \/ \A k \in 2 .. Len(s) : s[k] = Keepalive
  <1> SUFFICES ASSUME NEW i \in 2 .. Len(s), s[i] # Keepalive
               PROVE  \E j \in 2 .. Len(s) : s[j].frame = s[1].frame
    OBVIOUS
  <1> DEFINE T == {j \in 2 .. Len(s) : s[j] # Keepalive}
  <1>1. Len(s) \in Nat /\ DOMAIN s = 1 .. Len(s)
    BY TailIs
  <1>2. T \in SUBSET Nat /\ T # {}
    BY <1>1
  <1>3. PICK j \in T : \A k \in T : j <= k
    BY <1>2, LeastOf, Zenon
  <1>4. j \in 2 .. Len(s) /\ s[j] # Keepalive
    BY <1>3
  <1>5. ASSUME NEW k \in 1 + 1 .. j - 1
        PROVE  s[k] = Keepalive
    <2>1. k \in 2 .. Len(s) /\ ~(j <= k)
      BY <1>1, <1>4
    <2> QED
      BY <1>3, <2>1
  <1>6. 1 \in DOMAIN s /\ j \in DOMAIN s /\ 1 < j
    BY <1>1, <1>4
  <1>7. Follows(s[1], s[j])
    BY <1>4, <1>5, <1>6 DEF InRow
  <1>8. s[j].frame = s[1].frame
    BY <1>7 DEF Follows, Fragment
  <1> QED
    BY <1>4, <1>8

\* The first datagram for node n is received or lost.
LEMMA TakeKeeps ==
    ASSUME UdpInv, NEW n \in Node, chan[n] # <<>>, Types', glued' = FALSE,
           UNCHANGED <<open, txbuf, txpos, encoded, complete>>, queue'["srv"] = queue["srv"],
           NEW m \in Node, m = Other(n), peer'[m] = peer[m],
           exp'[m] = exp[m], xbuf'[m] = xbuf[m], gap'[m] = gap[m], chan'[m] = chan[m],
           chan'[n] \in {chan[n], Tail(chan[n])},
           hurt \subseteq hurt', written \subseteq written', Holds(n)', Way(n)',
           \/ n = "srv" \/ chan'[n] = chan[n] \/ chan[n][1] = Keepalive \/ ~IsLast(chan[n][1])
           \/ chan[n][1].frame \in hurt' \union written'
    PROVE  UdpInv'
  <1> USE DEF UdpInv
  <1> DEFINE s == chan[n]
             t == chan'[n]
  <1>1. m # n /\ Other(m) = n /\ \A k \in Node : k = n \/ k = m
    BY Nodes
  <1>2. open[n]
    BY DEF Shut
  <1>3. Shut(n)' /\ Shut(m)' /\ Sends(n)' /\ Sends(m)' /\ Holds(m)'
    BY <1>1, <1>2 DEF Shut, Sends, Holds
  <1>4. Way(m)'
    <2>1. Nexts(n)' = Nexts(n) /\ Nexts(n) \in SUBSET Nexts(n)
      BY DEF Nexts
    <2>2. ASSUME open[m]
          PROVE  Along(chan[m], Nexts(n), exp[m], xbuf[m], gap[m], hurt')
      <3>1. Along(chan[m], Nexts(n), exp[m], xbuf[m], gap[m], hurt)
        BY <1>1, <2>2 DEF Way
      <3> QED
        BY <2>1, <3>1, AlongLess
    <2> QED
      BY <1>1, <2>1, <2>2 DEF Way
  <1>5. ServerOnce'
    BY DEF ServerOnce
  <1>6. ASSUME open["cli"]
        PROVE  CutShort' /\ UnhurtWritten'
    <2>1. CutShort /\ UnhurtWritten
      BY <1>6
    <2>2. CASE chan'["cli"] = chan["cli"]
      BY <2>1, <2>2 DEF CutShort, UnhurtWritten
    <2>3. CASE chan'["cli"] # chan["cli"]
      <3>1. n = "cli" /\ t = Tail(s) /\ s \in Seq(Sendable) /\ s # <<>>
        BY <1>1, <2>3, Nodes DEF Types
      <3>2. /\ Tail(s) \in Seq(Sendable) /\ Len(s) \in Nat /\ Len(s) > 0
            /\ DOMAIN s = 1 .. Len(s) /\ DOMAIN t = 1 .. Len(s) - 1 /\ Len(t) = Len(s) - 1
            /\ \A i \in 1 .. Len(s) - 1 : t[i] = s[i + 1]
        BY <3>1, TailIs
      <3>3. InRow(s)
        BY <1>2 DEF Way, Along
      <3> HIDE DEF s, t
      <3>4. CutShort'
        <4> SUFFICES ASSUME NEW j \in DOMAIN t, t[j] # Keepalive, ~IsLast(t[j]),
                            \A k \in j + 1 .. Len(t) : t[k] = Keepalive
                     PROVE  t[j].frame \notin complete
          BY <3>1 DEF CutShort, t
        <4>1. j + 1 \in DOMAIN s /\ t[j] = s[j + 1]
          BY <3>2
        <4>2. ASSUME NEW k \in (j + 1) + 1 .. Len(s)
              PROVE  s[k] = Keepalive
          <5>1. k - 1 \in j + 1 .. Len(t) /\ k - 1 \in 1 .. Len(s) - 1 /\ (k - 1) + 1 = k
            BY <3>2
          <5>2. t[k - 1] = s[k]
            BY <3>2, <5>1
          <5> QED
            BY <5>1, <5>2
        <4>3. s[j + 1] # Keepalive /\ ~IsLast(s[j + 1])
          BY <4>1
        <4> QED
          BY <2>1, <3>1, <4>1, <4>2, <4>3 DEF CutShort, s
      <3>5. UnhurtWritten'
        <4> SUFFICES ASSUME NEW c \in complete, c \notin hurt' \union written'
                     PROVE  \E i \in DOMAIN t : t[i].frame = c
          BY <3>1 DEF UnhurtWritten, t
        <4>1. PICK i \in DOMAIN s : s[i].frame = c
          BY <1>6, <2>1, <3>1 DEF UnhurtWritten, s
        <4>2. \A j \in 2 .. Len(s) : j - 1 \in DOMAIN t /\ t[j - 1] = s[j]
          BY <3>2
        <4>3. CASE i # 1
          <5>1. i \in 2 .. Len(s)
            BY <3>2, <4>3
          <5> QED
            BY <4>1, <4>2, <5>1
        <4>4. CASE i = 1
          <5>1. s[1] # Keepalive
            <6>1. c \in Frame /\ Keepalive.frame = NoFrame
              BY DEF Types, Keepalive, Fragment
            <6> QED
              BY <4>1, <4>4, <6>1, NoFrameDiffers
          <5>2. ~IsLast(s[1])
            BY <2>3, <3>1, <4>1, <4>4, <5>1 DEF s
          <5>3. CASE \E j \in 2 .. Len(s) : s[j].frame = s[1].frame
            BY <4>1, <4>2, <4>4, <5>3
          <5>4. CASE \A k \in 2 .. Len(s) : s[k] = Keepalive
            <6>1. \A k \in 1 + 1 .. Len(s) : s[k] = Keepalive
              BY <5>4
            <6>2. s[1].frame \notin complete
              BY <2>1, <3>1, <4>4, <5>1, <5>2, <6>1 DEF CutShort, s
            <6> QED
              BY <4>1, <4>4, <6>2
          <5> QED
            BY <3>1, <3>3, <5>1, <5>2, <5>3, <5>4, MoreComes
        <4> QED
          BY <4>3, <4>4
      <3> QED
        BY <3>4, <3>5
    <2> QED
      BY <2>2, <2>3
  <1> QED
    BY <1>1, <1>3, <1>4, <1>5, <1>6

\* The first datagram for n is a keepalive: it only tells the peer.
LEMMA KeepaliveTaken ==
    ASSUME UdpInv, NEW n \in Node, chan[n] # <<>>, Head(chan[n]) = Keepalive,
           UNCHANGED <<pc, open, out, stale, txVars, rxVars, filling, encoded, gap, complete,
                       written, echoed, glued, order>>,
           peer' \in {peer, [peer EXCEPT ![n] = TRUE]},
           hurt' \in {hurt, hurt \union {NoFrame}},
           \/ chan' = [chan EXCEPT ![n] = Tail(@)] /\ hurt' = hurt
           \/ chan' = chan
    PROVE  UdpInv'
  <1> DEFINE s == chan[n]
             m == Other(n)
  <1> USE DEF UdpInv
  <1>1. m \in Node /\ m # n /\ \A k \in Node : k = n \/ k = m
    BY Nodes
  <1>2. UNCHANGED <<queue, txbuf, txpos, exp, xbuf, overtaken, reclaimed>>
    BY DEF txVars, rxVars, order
  <1>3. /\ s \in Seq(Sendable) /\ s # <<>> /\ Tail(s) \in Seq(Sendable) /\ s[1] = Keepalive
        /\ chan \in [Node -> Seq(Sendable)]
    <2>1. chan \in [Node -> Seq(Sendable)]
      BY DEF Types
    <2>2. s \in Seq(Sendable)
      BY <2>1
    <2> HIDE DEF s
    <2> QED
      BY <2>1, <2>2, TailIs DEF s
  <1> HIDE DEF m
  <1>4. Types'
    <2>1. chan' \in [Node -> Seq(Sendable)]
      BY <1>3
    <2>2. hurt' \subseteq Frame \union {NoFrame}
      <3>1. hurt \subseteq Frame \union {NoFrame}
        BY DEF Types
      <3> QED
        BY <3>1
    <2>3. {open, peer, out, stale}' \subseteq [Node -> BOOLEAN]
      <3>1. {open, peer, out, stale} \subseteq [Node -> BOOLEAN]
        BY DEF Types
      <3>2. [peer EXCEPT ![n] = TRUE] \in [Node -> BOOLEAN]
        BY <3>1
      <3> QED
        BY <3>1, <3>2
    <2> QED
      BY <1>2, <2>1, <2>2, <2>3 DEF Types
  <1>5. Holds(n)' /\ Holds(n)
    BY <1>2 DEF Holds
  <1>6. Way(n)'
    <2>1. CASE ~open[n]
      BY <2>1 DEF Way
    <2>2. CASE open[n]
      <3>1. Along(s, Nexts(m), exp[n], xbuf[n], gap[n], hurt)
        BY <2>2 DEF Way, m
      <3>2. Nexts(m) \in SUBSET Piece /\ Nexts(m)' = Nexts(m)
        BY <1>1, <1>2, NextsArePieces DEF Nexts
      <3>3. CASE chan' = [chan EXCEPT ![n] = Tail(@)] /\ hurt' = hurt
        <4>1. Along(Tail(s), Nexts(m), exp[n], xbuf[n], gap[n], hurt)
          BY <1>3, <3>1, <3>2, AlongTail
        <4>2. chan'[n] = Tail(s)
          BY <1>3, <3>3
        <4> QED
          BY <1>2, <3>2, <3>3, <4>1, <4>2 DEF Way, m
      <3>4. CASE chan' = chan
        <4>1. Along(s, Nexts(m), exp[n], xbuf[n], gap[n], hurt')
          BY <3>1, AlongLess
        <4> QED
          BY <1>2, <3>2, <3>4, <4>1 DEF Way, m
      <3> QED
        BY <3>3, <3>4
    <2> QED
      BY <2>1, <2>2
  <1>7. /\ peer'[m] = peer[m] /\ chan'[m] = chan[m] /\ chan'[n] \in {chan[n], Tail(chan[n])}
        /\ hurt \subseteq hurt' /\ written \subseteq written'
    BY <1>1, <1>3 DEF Types
  <1>8. /\ queue'["srv"] = queue["srv"] /\ exp'[m] = exp[m] /\ xbuf'[m] = xbuf[m] /\ gap'[m] = gap[m]
        /\ UNCHANGED <<open, txbuf, txpos, encoded, complete>> /\ glued' = FALSE
    BY <1>2
  <1>9. m = Other(n)
    BY DEF m
  <1> QED
    BY <1>1, <1>3, <1>4, <1>5, <1>6, <1>7, <1>8, <1>9, TakeKeeps

\* A fragment is lost.
LEMMA LoseKeeps ==
    ASSUME UdpInv, NEW n \in Node, Lose(n)
    PROVE  UdpInv'
  <1> DEFINE s == chan[n]
             m == Other(n)
             d == s[1]
  <1> USE DEF UdpInv
  <1>1. m \in Node /\ m # n /\ \A k \in Node : k = n \/ k = m
    BY Nodes
  <1>2. /\ UNCHANGED <<pc, open, peer, out, stale, queue, txbuf, txpos, exp, xbuf, filling, encoded,
                       complete, written, echoed, glued, overtaken, reclaimed>>
        /\ chan' = [chan EXCEPT ![n] = Tail(@)] /\ s # <<>>
    BY DEF Lose, txVars, rxVars, order
  <1>3. /\ s \in Seq(Sendable) /\ Tail(s) \in Seq(Sendable) /\ d \in Sendable /\ Head(s) = d
        /\ chan \in [Node -> Seq(Sendable)]
    <2>1. chan \in [Node -> Seq(Sendable)]
      BY DEF Types
    <2>2. s \in Seq(Sendable) /\ s # <<>>
      BY <1>2, <2>1
    <2> HIDE DEF s
    <2> QED
      BY <2>1, <2>2, TailIs
  <1>4. CASE d = Keepalive
    <2>1. gap' = gap /\ hurt' = hurt
      BY <1>3, <1>4 DEF Lose
    <2> QED
      BY <1>2, <1>3, <1>4, <2>1, KeepaliveTaken DEF txVars, rxVars, order
  <1>5. CASE d # Keepalive
    <2>1. /\ gap[n] < MaxGap /\ gap' = [gap EXCEPT ![n] = @ + 1]
          /\ hurt' = hurt \union {d.frame} /\ d \in Piece
      BY <1>3, <1>5 DEF Lose, Sendable
    <2>2. d.frame \in Frame
      BY <2>1, PieceIs
    <2>3. /\ exp[n] \in Nat /\ gap \in [Node -> 0 .. MaxGap] /\ gap[n] \in Nat /\ gap[n] + 1 \in 0 .. MaxGap
      BY <2>1, BoundAssumption, SMTT(30) DEF Types
    <2> HIDE DEF m, s, d
    <2>4. s = chan[n] /\ chan'[n] = Tail(s) /\ chan'[m] = chan[m] /\ gap'[n] = gap[n] + 1 /\ gap'[m] = gap[m]
      BY <1>1, <1>2, <1>3, <2>1, <2>3 DEF s
    <2>5. Types'
      <3>1. chan' \in [Node -> Seq(Sendable)]
        BY <1>2, <1>3, <2>4
      <3>2. gap' \in [Node -> 0 .. MaxGap] /\ hurt' \subseteq Frame \union {NoFrame}
        BY <2>1, <2>2, <2>3 DEF Types
      <3> QED
        BY <1>2, <3>1, <3>2 DEF Types
    <2>6. Holds(n)' /\ Holds(n) /\ open[n]
      <3>1. open[n]
        BY <1>2, <2>4 DEF Shut
      <3> QED
        BY <1>2, <3>1 DEF Holds
    <2>7. Way(n)'
      <3>1. Along(s, Nexts(m), exp[n], xbuf[n], gap[n], hurt)
        BY <2>4, <2>6 DEF Way, m
      <3>2. Nexts(m) \in SUBSET Piece /\ Nexts(m)' = Nexts(m)
        BY <1>1, <1>2, NextsArePieces DEF Nexts
      <3>3. Due(exp[n], xbuf[n], gap[n], hurt, d)
        <4>1. 1 \in DOMAIN s
          BY <1>2, <1>3, <2>4, TailIs
        <4> QED
          BY <1>5, <3>1, <4>1 DEF Along, FirstDue, d
      <3>4. \A f \in Piece : Follows(d, f) => Due(exp[n], xbuf[n], gap[n] + 1, hurt', f)
        BY <2>1, <2>3, <2>6, <3>3, DueLost DEF Holds
      <3>5. Along(Tail(s), Nexts(m), exp[n], xbuf[n], gap[n] + 1, hurt')
        BY <1>2, <1>3, <1>5, <2>4, <3>1, <3>2, <3>4, AlongTail DEF d
      <3> QED
        BY <1>2, <2>4, <3>2, <3>5 DEF Way, m
    <2>8. /\ peer'[m] = peer[m] /\ chan'[n] \in {chan[n], Tail(chan[n])}
          /\ hurt \subseteq hurt' /\ written \subseteq written' /\ chan[n][1].frame \in hurt' \union written'
          /\ queue'["srv"] = queue["srv"] /\ exp'[m] = exp[m] /\ xbuf'[m] = xbuf[m]
          /\ UNCHANGED <<open, txbuf, txpos, encoded, complete>> /\ glued' = FALSE /\ chan[n] # <<>>
      BY <1>2, <2>1, <2>4 DEF s, d
    <2>9. m = Other(n)
      BY DEF m
    <2> QED
      BY <1>1, <2>4, <2>5, <2>6, <2>7, <2>8, <2>9, TakeKeeps
  <1> QED
    BY <1>4, <1>5

\* Queue r is q with f behind the others, of which the oldest may have made room.
Behind(q, f, r) ==
    \E k \in Nat, up \in 0 .. 1 :
        /\ DOMAIN r = 1 .. k + 1 /\ r[k + 1] = f
        /\ \A i \in 1 .. k : i + up \in DOMAIN q /\ r[i] = q[i + up]

\* So it is in the client's ring.
LEMMA EnqueueIs ==
    ASSUME NEW q \in Seq(Frame), NEW f \in Frame
    PROVE  Enqueue(q, f) \in Seq(Frame) /\ Behind(q, f, Enqueue(q, f))
  <1> DEFINE r == IF Len(q) < QueueLen THEN q ELSE Tail(q)
  <1>1. Len(q) \in Nat /\ DOMAIN q = 1 .. Len(q) /\ (Len(q) > 0 => q # <<>>)
    <2> HIDE DEF Frame
    <2> QED
      BY LenProperties, EmptySeq
  <1>2. QueueLen \in Nat \ {0}
    BY BoundAssumption
  <1>3. /\ r \in Seq(Frame)
        /\ \E up \in 0 .. 1 : \A i \in 1 .. Len(r) : i + up \in DOMAIN q /\ r[i] = q[i + up]
    <2>1. CASE Len(q) < QueueLen
      <3>1. r = q
        BY <2>1
      <3> HIDE DEF r
      <3>2. \A i \in 1 .. Len(r) : i + 0 \in DOMAIN q /\ r[i] = q[i + 0]
        BY <1>1, <3>1
      <3>3. 0 \in 0 .. 1
        OBVIOUS
      <3> QED
        BY <3>1, <3>2, <3>3, Zenon
    <2>2. CASE ~(Len(q) < QueueLen)
      <3>1. r = Tail(q) /\ q # <<>>
        BY <1>1, <1>2, <2>2
      <3>2. /\ r \in Seq(Frame) /\ DOMAIN r = 1 .. Len(q) - 1 /\ Len(q) > 0
            /\ \A i \in 1 .. Len(q) - 1 : r[i] = q[i + 1]
        BY <3>1, QueueIs
      <3> HIDE DEF Frame, r
      <3>3. Len(r) = Len(q) - 1
        <4>1. Len(Tail(q)) = Len(q) - 1
          BY <3>1, HeadTailProperties
        <4> QED
          BY <3>1, <4>1
      <3>5. \A i \in 1 .. Len(r) : i + 1 \in DOMAIN q /\ r[i] = q[i + 1]
        BY <1>1, <3>2, <3>3
      <3>6. 1 \in 0 .. 1
        OBVIOUS
      <3> QED
        BY <3>2, <3>5, <3>6, Zenon
    <2> QED
      BY <2>1, <2>2
  <1>4. Enqueue(q, f) = Append(r, f)
    BY DEF Enqueue
  <1> HIDE DEF Frame, r
  <1>5. /\ Append(r, f) \in Seq(Frame) /\ Len(Append(r, f)) = Len(r) + 1 /\ Len(r) \in Nat
        /\ \A i \in 1 .. Len(r) : Append(r, f)[i] = r[i]
        /\ Append(r, f)[Len(r) + 1] = f
    BY <1>3, AppendProperties, LenProperties
  <1>6. DOMAIN Append(r, f) = 1 .. Len(r) + 1
    BY <1>5, LenProperties
  <1>7. PICK up \in 0 .. 1 : \A i \in 1 .. Len(r) : i + up \in DOMAIN q /\ r[i] = q[i + up]
    BY <1>3
  <1>8. \A i \in 1 .. Len(r) : i + up \in DOMAIN q /\ Append(r, f)[i] = q[i + up]
    BY <1>5, <1>7
  <1> QED
    BY <1>4, <1>5, <1>6, <1>8, ZenonT(60) DEF Behind

\* So it is in the server's, which makes no room then.
LEMMA AppendBehind ==
    ASSUME NEW q \in Seq(Frame), NEW f \in Frame
    PROVE  Append(q, f) \in Seq(Frame) /\ Behind(q, f, Append(q, f))
  <1> HIDE DEF Frame
  <1>1. /\ Append(q, f) \in Seq(Frame) /\ Len(Append(q, f)) = Len(q) + 1 /\ Len(q) \in Nat
        /\ \A i \in 1 .. Len(q) : Append(q, f)[i] = q[i]
        /\ Append(q, f)[Len(q) + 1] = f
    BY AppendProperties, LenProperties
  <1>2. DOMAIN Append(q, f) = 1 .. Len(q) + 1 /\ DOMAIN q = 1 .. Len(q)
    BY <1>1, LenProperties
  <1>3. 0 \in 0 .. 1 /\ \A i \in 1 .. Len(q) : i + 0 \in DOMAIN q /\ Append(q, f)[i] = q[i + 0]
    BY <1>1, <1>2
  <1> QED
    BY <1>1, <1>2, <1>3, ZenonT(60) DEF Behind

\* All the fragments of a frame are whole.
LEMMA WholeIs ==
    ASSUME NEW f \in Frame
    PROVE  Whole(Pieces(f, f.frags)) /\ Head(Pieces(f, f.frags)).frame = f
  <1>1. f.frags \in 1 .. f.frags
    BY FragsAre
  <1>2. Head(Pieces(f, f.frags)) = Fragment(f, 0)
    BY <1>1, PiecesAre
  <1>3. Head(Pieces(f, f.frags)).frame = f
    BY <1>2 DEF Fragment
  <1>4. Pieces(f, f.frags) = [i \in 1 .. f.frags |-> Fragment(f, i - 1)]
    BY DEF Pieces
  <1> QED
    BY <1>3, <1>4, Zenon DEF Whole

\* What receiving fragment d does.
Receives(n, d) ==
    /\ gap' = [gap EXCEPT ![n] = 0]
    /\ exp' = [exp EXCEPT ![n] = NextExp(n, d)]
    /\ IF Kept(n, d) # <<>> /\ IsLast(d)
       THEN Unpack(n, Kept(n, d))
       ELSE /\ xbuf' = [xbuf EXCEPT ![n] = Kept(n, d)]
            /\ UNCHANGED <<queue, written, echoed, glued>>

LEMMA ReceiveIs ==
    ASSUME \A k \in FragCounts : k > MaxGap, Types, NEW n \in Node, NEW d \in Piece,
           Held(exp[n], xbuf[n]), Due(exp[n], xbuf[n], gap[n], hurt, d), Receives(n, d)
    PROVE  /\ HeldNext(exp'[n], xbuf'[n], d)
           /\ xbuf'[n] = <<>> => IsLast(d) \/ d.frame \in hurt
           /\ \E e \in Nat, x \in Seq(Piece) :
                  /\ exp' = [exp EXCEPT ![n] = e] /\ xbuf' = [xbuf EXCEPT ![n] = x]
                  /\ \E k \in FragCounts \union {1} : e < k
           /\ queue' \in [Node -> Seq(Frame)] /\ queue'["srv"] = queue["srv"]
           /\ written' \in {written, written \union {d.frame}}
           /\ echoed' \in {echoed, echoed \union {d.frame.id}}
           /\ glued' = glued
           /\ n = "cli" /\ IsLast(d) => d.frame \in hurt \union written'
  <1> DEFINE f == d.frame
             kept == Kept(n, d)
  <1>1. /\ exp \in [Node -> Nat] /\ xbuf \in [Node -> Seq(Piece)] /\ queue \in [Node -> Seq(Frame)]
        /\ gap[n] \in 0 .. MaxGap
    BY DEF Types
  <1>2. /\ f \in Frame /\ f.frags \in Nat \ {0} /\ d.idx \in 0 .. f.frags - 1
        /\ f.frags # 1 => f.frags \in FragCounts
    BY PieceIs
  <1>3. kept = Keeping(exp[n], xbuf[n], d)
    BY DEF Kept, Keeping
  <1>4. \/ kept = <<>> /\ f \in hurt
        \/ kept = Pieces(f, d.idx + 1)
    <2> HIDE DEF kept
    <2>1. exp[n] \in Nat
      BY <1>1
    <2> QED
      BY <1>1, <1>3, <2>1, KeptIs
  <1> HIDE DEF kept
  <1>5. exp' = [exp EXCEPT ![n] = IF kept = <<>> \/ IsLast(d) THEN 0 ELSE d.idx + 1]
    BY DEF Receives, NextExp, kept
  <1>6. /\ kept # <<>> /\ IsLast(d) => Unpack(n, kept)
        /\ kept = <<>> \/ ~IsLast(d) =>
               xbuf' = [xbuf EXCEPT ![n] = kept] /\ UNCHANGED <<queue, written, echoed, glued>>
    BY DEF Receives, kept
  <1>7. <<>> \in Seq(Piece) /\ 0 \in Nat
    <2> HIDE DEF Piece
    <2> QED
      BY EmptySeq
  <1>8. \E k \in FragCounts \union {1} : 0 < k
    OBVIOUS
  <1>9. CASE kept = <<>>
    <2>1. /\ exp' = [exp EXCEPT ![n] = 0] /\ xbuf' = [xbuf EXCEPT ![n] = <<>>] /\ f \in hurt
          /\ UNCHANGED <<queue, written, echoed, glued>>
      <3>1. Pieces(f, d.idx + 1) # <<>>
        <4>1. d.idx + 1 \in 1 .. f.frags
          BY <1>2
        <4> QED
          BY <1>2, <4>1, PiecesAre
      <3> QED
        BY <1>4, <1>5, <1>6, <1>9, <3>1
    <2>2. exp'[n] = 0 /\ xbuf'[n] = <<>>
      BY <1>1, <2>1
    <2> QED
      BY <1>1, <1>7, <1>8, <2>1, <2>2 DEF HeldNext
  <1>10. CASE kept # <<>> /\ ~IsLast(d)
    <2>1. d.idx + 1 \in 1 .. f.frags - 1 /\ d.idx + 1 \in 1 .. f.frags /\ d.idx + 1 \in Nat
      BY <1>2, <1>10 DEF IsLast
    <2>2. /\ exp' = [exp EXCEPT ![n] = d.idx + 1] /\ xbuf' = [xbuf EXCEPT ![n] = kept]
          /\ UNCHANGED <<queue, written, echoed, glued>> /\ kept = Pieces(f, d.idx + 1)
      BY <1>4, <1>5, <1>6, <1>10
    <2>3. kept \in Seq(Piece)
      BY <1>2, <2>1, <2>2, PiecesAre
    <2>4. f.frags \in FragCounts \union {1} /\ d.idx + 1 < f.frags
      BY <1>2, <2>1
    <2>5. exp'[n] = d.idx + 1 /\ xbuf'[n] = kept
      BY <1>1, <2>2
    <2>6. HeldNext(exp'[n], xbuf'[n], d)
      BY <1>10, <2>2, <2>5 DEF HeldNext
    <2> QED
      BY <1>1, <1>10, <2>1, <2>2, <2>3, <2>4, <2>5, <2>6
  <1>11. CASE kept # <<>> /\ IsLast(d)
    <2>1. kept = Pieces(f, f.frags)
      <3>1. d.idx + 1 = f.frags
        BY <1>11 DEF IsLast
      <3> QED
        BY <1>4, <1>11, <3>1
    <2>2. Whole(kept) /\ Head(kept).frame = f
      BY <1>2, <2>1, WholeIs
    <2> DEFINE echo == [by |-> "cli", id |-> f.id, frags |-> 1]
    <2>3. /\ xbuf' = [xbuf EXCEPT ![n] = <<>>]
          /\ written' = IF n = "cli" THEN written \union {f} ELSE written
          /\ echoed' = IF n = "srv" THEN echoed \union {f.id} ELSE echoed
          /\ queue' = IF n = "cli" THEN [queue EXCEPT ![n] = Enqueue(@, echo)] ELSE queue
          /\ UNCHANGED glued
      BY <1>6, <1>11, <2>2 DEF Unpack
    <2>4. echo \in Frame
      BY <1>2 DEF Frame, Node
    <2> HIDE DEF echo
    <2>5. queue' \in [Node -> Seq(Frame)] /\ queue'["srv"] = queue["srv"]
      <3>1. Enqueue(queue[n], echo) \in Seq(Frame)
        BY <1>1, <2>4, EnqueueIs
      <3> QED
        BY <1>1, <2>3, <3>1
    <2>6. exp' = [exp EXCEPT ![n] = 0] /\ exp'[n] = 0 /\ xbuf'[n] = <<>>
      BY <1>1, <1>5, <1>11, <2>3
    <2>7. HeldNext(exp'[n], xbuf'[n], d)
      BY <2>6 DEF HeldNext
    <2>8. /\ written' \in {written, written \union {f}} /\ echoed' \in {echoed, echoed \union {f.id}}
          /\ n = "cli" => f \in written'
      BY <2>3
    <2> QED
      BY <1>7, <1>8, <1>11, <2>3, <2>5, <2>6, <2>7, <2>8
  <1> QED
    BY <1>9, <1>10, <1>11

\* A datagram is received.
LEMMA RecvKeeps ==
    ASSUME \A k \in FragCounts : k > MaxGap, UdpInv, NEW n \in Node, RecvOne(n)
    PROVE  UdpInv'
  <1> DEFINE s == chan[n]
             m == Other(n)
             d == s[1]
  <1> USE DEF UdpInv
  <1>1. m \in Node /\ m # n /\ \A k \in Node : k = n \/ k = m
    BY Nodes
  <1>2. /\ UNCHANGED <<pc, open, out, stale, txbuf, txpos, filling, encoded, complete,
                       overtaken, reclaimed>>
        /\ s # <<>> /\ peer' = [peer EXCEPT ![n] = TRUE]
    BY DEF RecvOne, order
  <1>3. /\ s \in Seq(Sendable) /\ Tail(s) \in Seq(Sendable) /\ d \in Sendable /\ Head(s) = d
        /\ chan \in [Node -> Seq(Sendable)] /\ 1 \in DOMAIN s
    <2>1. chan \in [Node -> Seq(Sendable)]
      BY DEF Types
    <2>2. s \in Seq(Sendable) /\ s # <<>>
      BY <1>2, <2>1
    <2> HIDE DEF s
    <2> QED
      BY <2>1, <2>2, TailIs
  <1>4. \/ chan' = [chan EXCEPT ![n] = Tail(@)] /\ hurt' = hurt
        \/ chan' = chan /\ hurt' = hurt \union {d.frame}
    BY <1>3 DEF RecvOne
  <1>5. CASE d = Keepalive
    <2>1. /\ UNCHANGED <<rxVars, queue, gap, written, echoed, glued>>
          /\ hurt' \in {hurt, hurt \union {NoFrame}}
      BY <1>3, <1>4, <1>5 DEF RecvOne, Keepalive, Fragment
    <2> QED
      BY <1>2, <1>3, <1>4, <1>5, <2>1, KeepaliveTaken DEF txVars, order
  <1>6. CASE d # Keepalive
    <2>1. Receives(n, d) /\ d \in Piece
      BY <1>3, <1>6 DEF RecvOne, Receives, Sendable
    <2>2. d.frame \in Frame
      BY <2>1, PieceIs
    <2>3. open[n] /\ Held(exp[n], xbuf[n])
      BY <1>2 DEF Shut, Holds
    <2> HIDE DEF m, s, d
    <2>4. Along(s, Nexts(m), exp[n], xbuf[n], gap[n], hurt)
      BY <2>3 DEF Way, m, s
    <2>5. Due(exp[n], xbuf[n], gap[n], hurt, d)
      BY <1>3, <1>6, <2>4 DEF Along, FirstDue, d
    <2>6. /\ HeldNext(exp'[n], xbuf'[n], d)
          /\ xbuf'[n] = <<>> => IsLast(d) \/ d.frame \in hurt
          /\ \E e \in Nat, x \in Seq(Piece) :
                 /\ exp' = [exp EXCEPT ![n] = e] /\ xbuf' = [xbuf EXCEPT ![n] = x]
                 /\ \E k \in FragCounts \union {1} : e < k
          /\ queue' \in [Node -> Seq(Frame)] /\ queue'["srv"] = queue["srv"]
          /\ written' \in {written, written \union {d.frame}}
          /\ echoed' \in {echoed, echoed \union {d.frame.id}}
          /\ glued' = glued
          /\ n = "cli" /\ IsLast(d) => d.frame \in hurt \union written'
      BY <2>1, <2>3, <2>5, ReceiveIs
    <2>7. PICK e \in Nat, x \in Seq(Piece) :
              /\ exp' = [exp EXCEPT ![n] = e] /\ xbuf' = [xbuf EXCEPT ![n] = x]
              /\ \E k \in FragCounts \union {1} : e < k
      BY <2>6
    <2>8. /\ exp \in [Node -> Nat] /\ xbuf \in [Node -> Seq(Piece)] /\ gap \in [Node -> 0 .. MaxGap]
          /\ gap' = [gap EXCEPT ![n] = 0] /\ 0 \in 0 .. MaxGap
      BY <2>1, BoundAssumption DEF Types, Receives
    <2>9. /\ exp'[n] = e /\ xbuf'[n] = x /\ gap'[n] = 0
          /\ exp'[m] = exp[m] /\ xbuf'[m] = xbuf[m] /\ gap'[m] = gap[m] /\ chan'[m] = chan[m]
          /\ s = chan[n] /\ chan'[n] \in {chan[n], Tail(chan[n])} /\ peer'[m] = peer[m]
      <3>1. /\ s = chan[n] /\ chan'[m] = chan[m] /\ chan'[n] \in {chan[n], Tail(chan[n])}
        BY <1>1, <1>3, <1>4 DEF s
      <3>2. peer'[m] = peer[m]
        BY <1>1, <1>2 DEF Types
      <3> QED
        BY <1>1, <2>7, <2>8, <3>1, <3>2
    <2>10. Types'
      <3>1. chan' \in [Node -> Seq(Sendable)]
        BY <1>3, <1>4 DEF s
      <3>2. /\ exp' \in [Node -> Nat] /\ xbuf' \in [Node -> Seq(Piece)] /\ gap' \in [Node -> 0 .. MaxGap]
            /\ \A l \in Node : \E k \in FragCounts \union {1} : exp'[l] < k
        <4>1. \A l \in Node : \E k \in FragCounts \union {1} : exp[l] < k
          BY DEF Types
        <4>2. exp'[n] = e /\ exp'[m] = exp[m] /\ \E k \in FragCounts \union {1} : e < k
          BY <2>7, <2>9
        <4>3. \A l \in Node : \E k \in FragCounts \union {1} : exp'[l] < k
          BY <1>1, <4>1, <4>2, Zenon
        <4> QED
          BY <2>7, <2>8, <4>3
      <3>3. hurt' \subseteq Frame \union {NoFrame} /\ written' \subseteq Frame
        <4>1. hurt \subseteq Frame \union {NoFrame} /\ written \subseteq Frame
          BY DEF Types
        <4> QED
          BY <1>4, <2>2, <2>6, <4>1
      <3>4. echoed' \subseteq 1 .. MaxFrames
        <4>1. d.frame.id \in 1 .. MaxFrames /\ echoed \subseteq 1 .. MaxFrames
          BY <2>2 DEF Frame, Types
        <4> QED
          BY <2>6, <4>1
      <3>5. {open, peer, out, stale}' \subseteq [Node -> BOOLEAN]
        BY <1>2 DEF Types
      <3> QED
        BY <1>2, <2>6, <3>1, <3>2, <3>3, <3>4, <3>5 DEF Types
    <2>11. /\ Held(exp'[n], xbuf'[n])
           /\ \A next \in Piece : Follows(d, next) => Due(exp'[n], xbuf'[n], 0, hurt, next)
           /\ Due(exp'[n], xbuf'[n], 0, hurt \union {d.frame}, d)
      BY <2>1, <2>6, DueReceived
    <2>12. Way(n)'
      <3>1. Nexts(m) \in SUBSET Piece /\ Nexts(m)' = Nexts(m)
        BY <1>1, <1>2, NextsArePieces DEF Nexts
      <3>2. CASE chan' = [chan EXCEPT ![n] = Tail(@)] /\ hurt' = hurt
        <4>1. Along(Tail(s), Nexts(m), exp'[n], xbuf'[n], 0, hurt)
          BY <1>2, <1>3, <1>6, <2>4, <2>11, <3>1, AlongTail DEF d
        <4>2. chan'[n] = Tail(s)
          BY <1>3, <2>9, <3>2
        <4> QED
          BY <1>2, <2>9, <3>1, <3>2, <4>1, <4>2 DEF Way, m
      <3>3. CASE chan' = chan /\ hurt' = hurt \union {d.frame}
        <4>1. Along(s, Nexts(m), exp'[n], xbuf'[n], 0, hurt')
          BY <1>2, <1>3, <1>6, <2>4, <2>11, <3>1, <3>3, AlongAgain DEF d
        <4> QED
          BY <1>2, <2>9, <3>1, <3>3, <4>1 DEF Way, m
      <3> QED
        BY <1>4, <3>2, <3>3
    <2>13. Holds(n)'
      BY <2>11 DEF Holds
    <2>14. /\ hurt \subseteq hurt' /\ written \subseteq written' /\ glued' = FALSE
           /\ \/ n = "srv" \/ ~IsLast(chan[n][1]) \/ chan[n][1].frame \in hurt' \union written'
           /\ UNCHANGED <<open, txbuf, txpos, encoded, complete>> /\ chan[n] # <<>> /\ m = Other(n)
      BY <1>2, <1>4, <2>6, <2>9 DEF d, m, Node
    <2>15. queue'["srv"] = queue["srv"]
      BY <2>6
    <2> QED
      BY <1>1, <2>9, <2>10, <2>12, <2>13, <2>14, <2>15, TakeKeeps
  <1> QED
    BY <1>5, <1>6

\* The queue of the encoder's frames is the only thing it touches.
LEMMA RingKeeps ==
    ASSUME UdpInv, queue' \in [Node -> Seq(Frame)], filling' \in BOOLEAN, encoded' \in 0 .. MaxFrames,
           reclaimed' \subseteq 1 .. MaxFrames, ServerOnce',
           UNCHANGED <<pc, open, peer, out, stale, txbuf, txpos, exp, xbuf, chan, gap, hurt,
                       complete, written, echoed, glued, overtaken>>
    PROVE  UdpInv'
  <1> USE DEF UdpInv
  <1>1. Types'
    BY DEF Types
  <1>2. ASSUME NEW n \in Node
        PROVE  Shut(n)' /\ Sends(n)' /\ Holds(n)' /\ Way(n)'
    <2>1. Shut(n) /\ Sends(n) /\ Holds(n) /\ Way(n)
      OBVIOUS
    <2> QED
      BY <2>1 DEF Shut, Sends, Holds, Way, Nexts
  <1>3. open["cli"]' => CutShort' /\ UnhurtWritten'
    BY DEF CutShort, UnhurtWritten
  <1> QED
    BY <1>1, <1>2, <1>3

\* A new frame waits behind the older ones.
LEMMA EncodeKeeps ==
    ASSUME UdpInv, Encode
    PROVE  UdpInv'
  <1> DEFINE q == queue["srv"]
             r == queue'["srv"]
  <1> USE DEF UdpInv
  <1>1. /\ encoded \in 0 .. MaxFrames /\ encoded < MaxFrames /\ encoded' = encoded + 1
        /\ filling' \in BOOLEAN
        /\ UNCHANGED <<pc, open, peer, out, stale, txbuf, txpos, exp, xbuf, chan, gap, hurt,
                       complete, written, echoed, glued, overtaken, reclaimed>>
    BY DEF Encode, rxVars, history, order, Types
  <1>2. PICK k \in FragCounts :
            queue' = [queue EXCEPT !["srv"] =
                          Append(@, [by |-> "srv", id |-> encoded + 1, frags |-> k])]
    BY DEF Encode
  <1> DEFINE f == [by |-> "srv", id |-> encoded + 1, frags |-> k]
  <1>3. f \in Frame /\ f.id = encoded + 1
    BY <1>1, BoundAssumption DEF Frame, Node
  <1> HIDE DEF f
  <1>4. /\ queue \in [Node -> Seq(Frame)] /\ q \in Seq(Frame) /\ r = Append(q, f)
        /\ queue' = [queue EXCEPT !["srv"] = r]
    BY <1>2, Nodes DEF Types, f
  <1> HIDE DEF r, q
  <1>5. /\ r \in Seq(Frame) /\ Len(q) \in Nat /\ DOMAIN q = 1 .. Len(q)
        /\ DOMAIN r = 1 .. Len(q) + 1 /\ r[Len(q) + 1] = f
        /\ \A i \in 1 .. Len(q) : r[i] = q[i]
    <2> HIDE DEF Frame
    <2>1. /\ r \in Seq(Frame) /\ Len(r) = Len(q) + 1 /\ r[Len(q) + 1] = f
          /\ \A i \in 1 .. Len(q) : r[i] = q[i]
      BY <1>3, <1>4, AppendProperties
    <2>2. /\ Len(q) \in Nat /\ DOMAIN q = 1 .. Len(q) /\ DOMAIN r = 1 .. Len(r)
      BY <1>4, <2>1, LenProperties
    <2>3. DOMAIN r = 1 .. Len(q) + 1
      BY <2>1, <2>2
    <2> QED
      BY <2>1, <2>2, <2>3, Zenon
  <1>6. queue' \in [Node -> Seq(Frame)] /\ encoded' \in 0 .. MaxFrames
    <2>1. queue' \in [Node -> Seq(Frame)]
      BY <1>4, <1>5
    <2> QED
      BY <1>1, <2>1, BoundAssumption
  <1>7. reclaimed' \subseteq 1 .. MaxFrames
    BY <1>1 DEF Types
  <1>8. ServerOnce'
    <2>1. /\ \A i, j \in DOMAIN q : i # j => q[i].id # q[j].id
          /\ \A i \in DOMAIN q :
                 /\ q[i].id <= encoded
                 /\ txbuf["srv"] # NoFrame => txbuf["srv"].id # q[i].id
                 /\ \A c \in complete : c.id # q[i].id
          /\ \A c \in complete : c.id <= encoded /\ (txbuf["srv"] # NoFrame => c.id # txbuf["srv"].id)
          /\ txbuf["srv"] # NoFrame => txbuf["srv"].id <= encoded
      BY DEF ServerOnce, q
    <2>2. /\ \A i \in DOMAIN q : q[i].id \in Nat
          /\ \A c \in complete : c.id \in Nat
          /\ txbuf["srv"] # NoFrame => txbuf["srv"].id \in Nat
      <3>1. \A c \in Frame : c.id \in Nat
        BY BoundAssumption DEF Frame
      <3>2. complete \subseteq Frame /\ (txbuf["srv"] # NoFrame => txbuf["srv"] \in Frame)
        BY Nodes DEF Types
      <3>3. \A i \in DOMAIN q : q[i] \in Frame
        <4> HIDE DEF Frame
        <4> QED
          BY <1>4, ElementOfSeq, LenProperties
      <3> QED
        BY <3>1, <3>2, <3>3
    <2>3. \A i \in DOMAIN r : \/ i = Len(q) + 1 /\ r[i] = f
                              \/ i \in DOMAIN q /\ r[i] = q[i]
      BY <1>5
    <2>4. \A i \in DOMAIN q : q[i].id # encoded + 1
      BY <1>1, <2>1, <2>2
    <2>5. \A i, j \in DOMAIN r : i # j => r[i].id # r[j].id
      BY <1>3, <2>1, <2>3, <2>4
    <2>6. \A i \in DOMAIN r :
              /\ r[i].id <= encoded + 1
              /\ txbuf["srv"] # NoFrame => txbuf["srv"].id # r[i].id
              /\ \A c \in complete : c.id # r[i].id
      BY <1>1, <1>3, <2>1, <2>2, <2>3
    <2>7. /\ \A c \in complete : c.id <= encoded + 1 /\ (txbuf["srv"] # NoFrame => c.id # txbuf["srv"].id)
          /\ txbuf["srv"] # NoFrame => txbuf["srv"].id <= encoded + 1
      BY <1>1, <2>1, <2>2
    <2> QED
      BY <1>1, <2>5, <2>6, <2>7 DEF ServerOnce, r
  <1> QED
    BY <1>1, <1>6, <1>7, <1>8, RingKeeps

\* The queue after the encoder has allocated: empty, or the newest frame alone.
LEMMA AllocIs ==
    ASSUME queue \in [Node -> Seq(Frame)], Alloc
    PROVE  \E r \in Seq(Frame) :
               /\ queue' = [queue EXCEPT !["srv"] = r]
               /\ \A i, j \in DOMAIN r : i = j
               /\ \A i \in DOMAIN r : \E k \in DOMAIN queue["srv"] : r[i] = queue["srv"][k]
  <1> DEFINE q == queue["srv"]
  <1>1. q \in Seq(Frame)
    BY Nodes
  <1>2. queue' = [queue EXCEPT !["srv"] = <<>>]
        \/ (q # <<>> /\ queue' = [queue EXCEPT !["srv"] = <<q[Len(q)]>>])
    BY DEF Alloc, NewestWaits
  <1> HIDE DEF q
  <1>3. <<>> \in Seq(Frame) /\ DOMAIN <<>> = {}
    <2> HIDE DEF Frame
    <2> QED
      OBVIOUS
  <1>4. CASE queue' = [queue EXCEPT !["srv"] = <<>>]
    BY <1>3, <1>4
  <1>5. CASE q # <<>> /\ queue' = [queue EXCEPT !["srv"] = <<q[Len(q)]>>]
    <2>1. Len(q) \in DOMAIN q /\ q[Len(q)] \in Frame
      <3> HIDE DEF Frame
      <3>1. Len(q) \in Nat /\ Len(q) # 0 /\ DOMAIN q = 1 .. Len(q)
        BY <1>1, <1>5, LenProperties, EmptySeq
      <3>2. Len(q) \in 1 .. Len(q)
        BY <3>1
      <3> QED
        BY <1>1, <3>1, <3>2, ElementOfSeq
    <2>2. PICK f \in Frame : f = q[Len(q)]
      BY <2>1
    <2>3. <<f>> \in Seq(Frame) /\ DOMAIN <<f>> = {1} /\ <<f>>[1] = f
      <3> HIDE DEF Frame
      <3> QED
        OBVIOUS
    <2>4. queue' = [queue EXCEPT !["srv"] = <<f>>]
      BY <1>5, <2>2
    <2>5. \A i \in DOMAIN <<f>> : <<f>>[i] = q[Len(q)]
      BY <2>2, <2>3
    <2>6. \A i, j \in DOMAIN <<f>> : i = j
      BY <2>3
    <2> QED
      BY <2>1, <2>3, <2>4, <2>5, <2>6, Zenon DEF q
  <1> QED
    BY <1>2, <1>4, <1>5

\* The encoder's next buffer: the older frame's, or the newest one's.
LEMMA AllocKeeps ==
    ASSUME UdpInv, Alloc
    PROVE  UdpInv'
  <1> USE DEF UdpInv
  <1>1. /\ encoded \in 0 .. MaxFrames /\ encoded' = encoded /\ filling' \in BOOLEAN
        /\ UNCHANGED <<pc, open, peer, out, stale, txbuf, txpos, exp, xbuf, chan, gap, hurt,
                       complete, written, echoed, glued, overtaken>>
    BY DEF Alloc, rxVars, Types
  <1>2. queue \in [Node -> Seq(Frame)]
    BY DEF Types
  <1>3. PICK r \in Seq(Frame) :
            /\ queue' = [queue EXCEPT !["srv"] = r]
            /\ \A i, j \in DOMAIN r : i = j
            /\ \A i \in DOMAIN r : \E k \in DOMAIN queue["srv"] : r[i] = queue["srv"][k]
    BY <1>2, AllocIs
  <1>4. queue' \in [Node -> Seq(Frame)] /\ queue'["srv"] = r
    BY <1>2, <1>3, Nodes
  <1>5. reclaimed' \subseteq 1 .. MaxFrames
    <2>1. reclaimed \subseteq 1 .. MaxFrames /\ queue["srv"] \in Seq(Frame)
      BY <1>2, Nodes DEF Types
    <2>2. CASE reclaimed' = reclaimed
      BY <2>1, <2>2
    <2>3. CASE NewestWaits /\ reclaimed' = reclaimed \union {encoded}
      <3> DEFINE q == queue["srv"]
      <3>1. q # <<>> /\ q[Len(q)].id = encoded /\ q \in Seq(Frame)
        BY <2>1, <2>3 DEF NewestWaits
      <3> HIDE DEF q
      <3>2. q[Len(q)] \in Frame
        <4> HIDE DEF Frame
        <4>1. Len(q) \in Nat /\ Len(q) # 0 /\ DOMAIN q = 1 .. Len(q)
          BY <3>1, LenProperties, EmptySeq
        <4>2. Len(q) \in 1 .. Len(q)
          BY <4>1
        <4> QED
          BY <3>1, <4>2, ElementOfSeq
      <3>3. encoded \in 1 .. MaxFrames
        BY <3>1, <3>2 DEF Frame
      <3> QED
        BY <2>1, <2>3, <3>3
    <2> QED
      BY <2>2, <2>3 DEF Alloc
  <1>6. ServerOnce'
    BY <1>1, <1>3, <1>4 DEF ServerOnce
  <1> QED
    BY <1>1, <1>4, <1>5, <1>6, RingKeeps

\* Where threads are after a step.
LEMMA PcNext ==
    ASSUME Types, Next
    PROVE  PcOK'
  <1>1. pc \in [Node -> {"prewait", "poll", "recv", "ended", "dead", "assert"}]
    BY DEF Types
  <1>2. CASE pc' = pc
    BY <1>1, <1>2 DEF PcOK
  <1>3. CASE \E n \in Node, label \in {"prewait", "poll", "recv", "ended", "dead", "assert"} :
                 pc' = [pc EXCEPT ![n] = label]
    BY <1>1, <1>3 DEF PcOK
  <1>4. ASSUME NEW n \in Node, ThreadStep(n) \/ Failure(n) \/ Stop(n)
        PROVE  pc' = pc \/ \E label \in {"prewait", "poll", "recv", "ended", "dead", "assert"} :
                               pc' = [pc EXCEPT ![n] = label]
    <2>1. CASE ThreadStep(n)
      BY <2>1 DEF ThreadStep, PrewaitSend, PrewaitIdle, PollIn, PollOut, PollTimeout, RecvOne,
                  RecvEnd, Goto
    <2>2. CASE Failure(n) \/ Stop(n)
      BY <2>2 DEF Failure, PrewaitFail, PollOutFail, RecvFail, Stop, L2Close, Goto
    <2> QED
      BY <1>4, <2>1, <2>2
  <1>5. CASE \E n \in Node : Lose(n) \/ Silence(n)
    BY <1>2, <1>5 DEF Lose, Silence
  <1>6. CASE Encode \/ Alloc \/ Terminated
    BY <1>2, <1>6 DEF Encode, Alloc, Terminated, vars
  <1> QED
    BY <1>2, <1>3, <1>4, <1>5, <1>6 DEF Next

-----------------------------------------------------------------------------
(* The theorem                                                              *)

\* Every step keeps the invariant.
LEMMA NextUdpInv ==
    ASSUME \A k \in FragCounts : k > MaxGap, UdpInv, [Next]_vars
    PROVE  UdpInv'
  <1>0. Types /\ {out, stale} \subseteq [Node -> BOOLEAN]
    BY DEF UdpInv, Types
  <1>1. CASE UNCHANGED vars
    <2>1. PcOK' /\ {out, stale}' \subseteq [Node -> BOOLEAN]
      BY <1>0, <1>1 DEF vars, Types, PcOK
    <2> QED
      BY <1>1, <2>1, Undisturbed DEF vars
  <1>2. CASE Next
    <2>0. PcOK'
      BY <1>0, <1>2, PcNext
    <2>1. CASE Encode \/ Alloc
      BY <2>1, EncodeKeeps, AllocKeeps
    <2>2. CASE Terminated
      BY <1>1, <2>2 DEF Terminated
    <2>3. ASSUME NEW n \in Node, Lose(n)
          PROVE  UdpInv'
      BY <2>3, LoseKeeps
    <2>4. ASSUME NEW n \in Node, Silence(n)
          PROVE  UdpInv'
      <3>1. stale' = [stale EXCEPT ![n] = TRUE] /\ out' = out
        BY <2>4 DEF Silence
      <3>2. {out, stale}' \subseteq [Node -> BOOLEAN]
        BY <1>0, <3>1
      <3> QED
        BY <2>0, <2>4, <3>2, Undisturbed DEF Silence
    <2>5. ASSUME NEW n \in Node, Stop(n)
          PROVE  UdpInv'
      <3>1. CASE open[n]
        BY <2>0, <2>5, <3>1, CloseKeeps DEF Stop
      <3>2. CASE ~open[n]
        <4>1. UNCHANGED <<open, peer, out, stale, txVars, rxVars, chan, filling, encoded, history>>
          BY <2>5, <3>2 DEF Stop
        <4>2. {out, stale}' \subseteq [Node -> BOOLEAN]
          BY <1>0, <4>1
        <4> QED
          BY <2>0, <4>1, <4>2, Undisturbed
      <3> QED
        BY <3>1, <3>2
    <2>6. ASSUME NEW n \in Node, Failure(n)
          PROVE  UdpInv'
      BY <2>0, <2>6, CloseKeeps DEF Failure, PrewaitFail, PollOutFail, RecvFail
    <2>7. ASSUME NEW n \in Node, PrewaitSend(n)
          PROVE  UdpInv'
      <3>1. open[n]
        BY <2>7 DEF PrewaitSend, UdpInv, Shut
      <3>2. PICK t \in NextFrames(n) : L2Send(n, t)
        BY <2>7 DEF PrewaitSend
      <3>3. UNCHANGED Beside
        BY <2>7 DEF PrewaitSend, Beside
      <3> QED
        BY <2>0, <3>1, <3>2, <3>3, SendKeeps
    <2>8. ASSUME NEW n \in Node, PrewaitIdle(n)
          PROVE  UdpInv'
      BY <2>8, IdleKeeps
    <2>9. ASSUME NEW n \in Node, PollIn(n) \/ PollTimeout(n)
          PROVE  UdpInv'
      <3>1. UNCHANGED <<open, peer, stale, txVars, rxVars, chan, filling, encoded, history>>
        BY <2>9 DEF PollIn, PollTimeout
      <3>2. out' \in {out, [out EXCEPT ![n] = Room(n)]} /\ Room(n) \in BOOLEAN
        BY <2>9 DEF PollIn, PollTimeout, Room
      <3>3. [out EXCEPT ![n] = Room(n)] \in [Node -> BOOLEAN]
        BY <1>0, <3>2
      <3>4. {out, stale}' \subseteq [Node -> BOOLEAN]
        BY <1>0, <3>1, <3>2, <3>3
      <3> QED
        BY <2>0, <3>1, <3>4, Undisturbed
    <2>10. ASSUME NEW n \in Node, PollOut(n) \/ RecvEnd(n)
           PROVE  UdpInv'
      <3>1. CASE txbuf[n] # NoFrame /\ \E t \in NextFrames(n) : L2Send(n, t)
        <4>1. open[n]
          BY <3>1 DEF UdpInv, Shut
        <4>2. UNCHANGED Beside
          BY <2>10 DEF PollOut, RecvEnd, Beside
        <4> QED
          BY <2>0, <3>1, <4>1, <4>2, SendKeeps
      <3>2. CASE ~(txbuf[n] # NoFrame /\ \E t \in NextFrames(n) : L2Send(n, t))
        <4>1. /\ UNCHANGED <<open, peer, txVars, rxVars, chan, filling, encoded, history>>
              /\ out' \in {out, [out EXCEPT ![n] = TRUE]}
              /\ stale' \in {stale, [stale EXCEPT ![n] = FALSE]}
          BY <2>10, <3>2 DEF PollOut, RecvEnd, history, order
        <4>2. [out EXCEPT ![n] = TRUE] \in [Node -> BOOLEAN] /\ [stale EXCEPT ![n] = FALSE] \in [Node -> BOOLEAN]
          BY <1>0
        <4>3. {out, stale}' \subseteq [Node -> BOOLEAN]
          BY <1>0, <4>1, <4>2
        <4> QED
          BY <2>0, <4>1, <4>3, Undisturbed
      <3> QED
        BY <3>1, <3>2
    <2>11. ASSUME NEW n \in Node, RecvOne(n)
           PROVE  UdpInv'
      BY <2>11, RecvKeeps
    <2> QED
      BY <1>2, <2>1, <2>2, <2>3, <2>4, <2>5, <2>6, <2>7, <2>8, <2>9, <2>10, <2>11
         DEF Next, ThreadStep
  <1> QED
    BY <1>1, <1>2

\* What the invariant says of the frames.
LEMMA UdpInvSound == UdpInv => FramesSound
  <1> SUFFICES ASSUME UdpInv
               PROVE  FramesSound
    OBVIOUS
  <1>1. Types /\ glued = FALSE /\ (open["cli"] => UnhurtWritten)
    BY DEF UdpInv
  <1>2. Piece \subseteq Datagram /\ Sendable \subseteq Datagram
    <2>1. Piece \subseteq Datagram
      BY DEF Piece, Datagram
    <2>2. Keepalive \in Datagram
      BY DEF Keepalive, Fragment, Datagram
    <2> QED
      BY <2>1, <2>2 DEF Sendable
  <1>3. xbuf \in [Node -> Seq(Datagram)] /\ chan \in [Node -> Seq(Datagram)]
    <2>1. xbuf \in [Node -> Seq(Piece)] /\ chan \in [Node -> Seq(Sendable)]
      BY <1>1 DEF Types
    <2> HIDE DEF Piece, Sendable, Datagram
    <2>2. \A z \in Seq(Piece) : z \in Seq(Datagram)
      BY <1>2, SeqMonotonic
    <2>3. \A z \in Seq(Sendable) : z \in Seq(Datagram)
      BY <1>2, SeqMonotonic
    <2> QED
      BY <2>1, <2>2, <2>3
  <1>4. TypeOK
    BY <1>1, <1>3 DEF Types, TypeOK
  <1>5. UnhurtWritten
    BY <1>1 DEF UnhurtWritten
  <1> QED
    BY <1>1, <1>4, <1>5 DEF FramesSound, NeverGlued

\* unpack() is only ever given one whole frame, and the client writes every frame that
\* the server sent to the last fragment and that lost no fragment: l2recv_one and
\* unpack, for any number of frames and faults, as long as fewer fragments are lost
\* in a row than the shortest frame has.
THEOREM FramesTold ==
    (\A k \in FragCounts : k > MaxGap) => (Spec => []FramesSound)
  <1> SUFFICES ASSUME \A k \in FragCounts : k > MaxGap
               PROVE  Spec => []FramesSound
    OBVIOUS
  <1>1. Init => UdpInv
    BY InitUdpInv
  <1>2. UdpInv /\ [Next]_vars => UdpInv'
    BY NextUdpInv
  <1>3. UdpInv => FramesSound
    BY UdpInvSound
  <1> QED
    BY <1>1, <1>2, <1>3, PTL DEF Spec

-----------------------------------------------------------------------------
(* The order of the echoes                                                  *)

\* The numbers of the frames in queue q, those of which a fragment is in s, and of the
\* one being sent.
Ids(q) == {q[i].id : i \in DOMAIN q}
Passing(s) == {s[i].frame.id : i \in {j \in DOMAIN s : s[j] # Keepalive}}
Pending(t) == IF t = NoFrame THEN {} ELSE {t.id}

\* What comes later is not older, except for the frames of o, which were overtaken.
UpTo(S, T, o) == \A i \in S, j \in T : i <= j \/ j \in o

AtMost(S, e) == \A i \in S : i <= e

QueueInOrder(q, o) ==
    \A i, j \in DOMAIN q : i <= j => q[i].id <= q[j].id \/ q[j].id \in o

PassInOrder(s, o) ==
    \A i, j \in DOMAIN s :
        i <= j /\ s[i] # Keepalive /\ s[j] # Keepalive =>
            s[i].frame.id <= s[j].frame.id \/ s[j].frame.id \in o

\* A node has sent s, is sending t and has yet to send q.
Outgoing(s, t, q) == Passing(s) \union Pending(t) \union Ids(q)

Flow(s, t, q, o) ==
    /\ PassInOrder(s, o) /\ QueueInOrder(q, o)
    /\ UpTo(Passing(s), Pending(t) \union Ids(q), o)
    /\ UpTo(Pending(t), Ids(q), o)

Goes(n) == Outgoing(chan[Other(n)], txbuf[n], queue[n])

SomePiece == [frame : Frame, idx : Nat]
Datagrams == SomePiece \union {Keepalive}

EchoTypes ==
    /\ queue \in [Node -> Seq(Frame)]
    /\ txbuf \in [Node -> Frame \union {NoFrame}]
    /\ txpos \in [Node -> Nat]
    /\ xbuf \in [Node -> Seq(SomePiece)]
    /\ chan \in [Node -> Seq(Datagrams)]
    /\ encoded \in 0 .. MaxFrames
    /\ echoed \subseteq 1 .. MaxFrames

EchoInv ==
    /\ EchoTypes
    /\ \A n \in Node : Flow(chan[Other(n)], txbuf[n], queue[n], overtaken)
    /\ UpTo(echoed, Goes("cli"), overtaken)
    /\ UpTo(echoed \union Goes("cli"), Goes("srv"), overtaken)
    /\ AtMost(echoed \union Goes("cli") \union Goes("srv"), encoded)

\* The numbers of frames.
LEMMA IdsAre ==
    /\ \A f \in Frame : f.id \in 1 .. MaxFrames /\ f.id \in Nat
    /\ MaxFrames \in Nat /\ 1 .. MaxFrames \subseteq Nat
    /\ \A q \in Seq(Frame) : Ids(q) \subseteq Nat /\ DOMAIN q = 1 .. Len(q) /\ Len(q) \in Nat
    /\ \A q \in Seq(Frame) : \A i \in DOMAIN q : q[i] \in Frame /\ q[i].id \in Ids(q)
  <1>1. MaxFrames \in Nat
    BY BoundAssumption
  <1>2. \A f \in Frame : f.id \in 1 .. MaxFrames
    BY DEF Frame
  <1>3. \A f \in Frame : f.id \in Nat
    BY <1>1, <1>2
  <1>4. \A q \in Seq(Frame) : DOMAIN q = 1 .. Len(q) /\ Len(q) \in Nat /\ \A i \in DOMAIN q : q[i] \in Frame
    <2> HIDE DEF Frame
    <2> QED
      BY LenProperties, ElementOfSeq
  <1>5. \A q \in Seq(Frame) : Ids(q) \subseteq Nat /\ \A i \in DOMAIN q : q[i].id \in Ids(q)
    BY <1>3, <1>4 DEF Ids
  <1> QED
    BY <1>1, <1>2, <1>3, <1>4, <1>5

\* A frame leaves a queue; the oldest one is not newer than the others.
LEMMA QueueLess ==
    ASSUME NEW q, NEW o, QueueInOrder(q, o), NEW f, NEW r, NEW up \in {0, 1}, Without(q, f, r, up)
    PROVE  /\ QueueInOrder(r, o) /\ Ids(r) \subseteq Ids(q) /\ f.id \in Ids(q)
           /\ up = 1 => UpTo({f.id}, Ids(r), o)
  <1> DEFINE n == Len(q)
             a == IF up = 1 THEN 1 ELSE n
  <1>1. /\ n \in Nat \ {0} /\ DOMAIN q = 1 .. n /\ DOMAIN r = 1 .. n - 1 /\ f = q[a]
        /\ \A i \in 1 .. n - 1 : r[i] = q[i + up]
    BY DEF Without
  <1> HIDE DEF n
  <1>2. /\ a \in DOMAIN q /\ \A i \in DOMAIN r : i + up \in DOMAIN q /\ r[i] = q[i + up]
        /\ up = 1 => \A i \in DOMAIN r : a <= i + up
    BY <1>1
  <1>3. \A i, j \in DOMAIN r : i <= j => i + up <= j + up
    BY <1>1
  <1> HIDE DEF a
  <1>4. QueueInOrder(r, o)
    <2>1. ASSUME NEW i \in DOMAIN r, NEW j \in DOMAIN r, i <= j
          PROVE  r[i].id <= r[j].id \/ r[j].id \in o
      <3>1. i + up \in DOMAIN q /\ j + up \in DOMAIN q /\ i + up <= j + up
            /\ r[i] = q[i + up] /\ r[j] = q[j + up]
        BY <1>2, <1>3, <2>1
      <3> QED
        BY <3>1 DEF QueueInOrder
    <2> QED
      BY <2>1 DEF QueueInOrder
  <1>5. Ids(r) \subseteq Ids(q) /\ f.id \in Ids(q)
    BY <1>1, <1>2 DEF Ids
  <1>6. up = 1 => UpTo({f.id}, Ids(r), o)
    BY <1>1, <1>2 DEF UpTo, Ids, QueueInOrder
  <1> QED
    BY <1>4, <1>5, <1>6

\* A frame comes into the queue again, before the others.
LEMMA QueueFront ==
    ASSUME NEW q \in Seq(Frame), NEW o, QueueInOrder(q, o), NEW f \in Frame, UpTo({f.id}, Ids(q), o)
    PROVE  /\ <<f>> \o q \in Seq(Frame) /\ QueueInOrder(<<f>> \o q, o)
           /\ Ids(<<f>> \o q) = {f.id} \union Ids(q)
  <1> DEFINE n == Len(q)
             r == <<f>> \o q
  <1>1. <<f>> \in Seq(Frame) /\ Len(<<f>>) = 1 /\ <<f>>[1] = f
    <2> HIDE DEF Frame
    <2> QED
      OBVIOUS
  <1>2. n \in Nat /\ DOMAIN q = 1 .. n
    BY IdsAre
  <1>3. r \in Seq(Frame) /\ Len(r) = n + 1 /\ r[1] = f /\ \A i \in 2 .. n + 1 : r[i] = q[i - 1]
    <2> HIDE DEF Frame
    <2>1. /\ r \in Seq(Frame) /\ Len(r) = Len(<<f>>) + n
          /\ \A i \in 1 .. Len(<<f>>) + n : r[i] = IF i <= Len(<<f>>) THEN <<f>>[i] ELSE q[i - Len(<<f>>)]
      BY <1>1, ConcatProperties
    <2> QED
      BY <1>1, <1>2, <2>1
  <1>4. DOMAIN r = 1 .. n + 1
    BY <1>3, IdsAre
  <1> HIDE DEF r, n
  <1>5. \A i \in 1 .. n + 1 : (i = 1 /\ r[i] = f) \/ (i - 1 \in 1 .. n /\ r[i] = q[i - 1])
    BY <1>2, <1>3
  <1>6. \A i \in 1 .. n : i + 1 \in 1 .. n + 1 /\ r[i + 1] = q[i]
    BY <1>2, <1>3
  <1>7. Ids(r) = {f.id} \union Ids(q)
    <2>1. Ids(r) \subseteq {f.id} \union Ids(q)
      BY <1>2, <1>4, <1>5 DEF Ids
    <2>2. Ids(q) \subseteq Ids(r)
      BY <1>2, <1>4, <1>6 DEF Ids
    <2>3. 1 \in 1 .. n + 1
      BY <1>2
    <2>4. f.id \in Ids(r)
      BY <1>3, <1>4, <2>3 DEF Ids
    <2> QED
      BY <2>1, <2>2, <2>4
  <1>8. QueueInOrder(r, o)
    <2>1. ASSUME NEW i \in 1 .. n + 1, NEW j \in 1 .. n + 1, i <= j
          PROVE  r[i].id <= r[j].id \/ r[j].id \in o
      <3>1. CASE i = 1
        <4>1. r[j].id \in {f.id} \union Ids(q)
          BY <1>4, <1>7 DEF Ids
        <4>2. f.id <= f.id
          BY IdsAre
        <4> QED
          BY <1>3, <3>1, <4>1, <4>2 DEF UpTo
      <3>2. CASE i # 1
        <4>1. i - 1 \in 1 .. n /\ j - 1 \in 1 .. n /\ i - 1 <= j - 1 /\ j # 1
          BY <1>2, <2>1, <3>2
        <4>2. r[i] = q[i - 1] /\ r[j] = q[j - 1]
          BY <1>5, <3>2, <4>1
        <4> QED
          BY <1>2, <4>1, <4>2 DEF QueueInOrder
      <3> QED
        BY <3>1, <3>2
    <2> QED
      BY <1>4, <2>1 DEF QueueInOrder
  <1> QED
    BY <1>3, <1>7, <1>8 DEF r

\* A frame comes into the queue behind the others, of which the oldest may make room.
LEMMA QueueBack ==
    ASSUME NEW q \in Seq(Frame), NEW o, QueueInOrder(q, o), NEW f \in Frame,
           UpTo(Ids(q), {f.id}, o), NEW r \in Seq(Frame), Behind(q, f, r)
    PROVE  QueueInOrder(r, o) /\ Ids(r) \subseteq Ids(q) \union {f.id}
  <1>1. PICK k \in Nat, up \in 0 .. 1 :
            /\ DOMAIN r = 1 .. k + 1 /\ r[k + 1] = f
            /\ \A i \in 1 .. k : i + up \in DOMAIN q /\ r[i] = q[i + up]
    BY DEF Behind
  <1>2. \A i \in 1 .. k + 1 : i = k + 1 \/ i \in 1 .. k
    BY <1>1
  <1>3. Ids(r) \subseteq Ids(q) \union {f.id}
    BY <1>1, <1>2 DEF Ids
  <1>4. QueueInOrder(r, o)
    <2>1. ASSUME NEW i \in 1 .. k + 1, NEW j \in 1 .. k + 1, i <= j
          PROVE  r[i].id <= r[j].id \/ r[j].id \in o
      <3>1. CASE j = k + 1
        <4>1. r[i].id \in Ids(q) \union {f.id}
          BY <1>1, <1>3 DEF Ids
        <4>2. f.id <= f.id
          BY IdsAre
        <4> QED
          BY <1>1, <3>1, <4>1, <4>2 DEF UpTo
      <3>2. CASE j # k + 1
        <4>1. i \in 1 .. k /\ j \in 1 .. k
          BY <1>1, <2>1, <3>2
        <4>2. i + up \in DOMAIN q /\ j + up \in DOMAIN q /\ i + up <= j + up
          BY <1>1, <2>1, <4>1
        <4> QED
          BY <1>1, <4>1, <4>2 DEF QueueInOrder
      <3> QED
        BY <3>1, <3>2
    <2> QED
      BY <1>1, <2>1 DEF QueueInOrder
  <1> QED
    BY <1>3, <1>4

\* The datagrams there are.
LEMMA DatagramIs ==
    /\ \A d \in SomePiece : d # Keepalive
    /\ \A d \in Datagrams : d # Keepalive =>
           d \in SomePiece /\ d.frame \in Frame /\ d.frame.id \in Nat /\ d = Fragment(d.frame, d.idx)
    /\ \A s \in Seq(Datagrams) : Passing(s) \subseteq Nat /\ DOMAIN s = 1 .. Len(s) /\ Len(s) \in Nat
    /\ \A s \in Seq(Datagrams) : \A i \in DOMAIN s :
           s[i] \in Datagrams /\ (s[i] # Keepalive => s[i].frame.id \in Passing(s))
  <1>1. \A d \in SomePiece : d.frame \in Frame /\ d = Fragment(d.frame, d.idx)
    BY DEF SomePiece, Fragment
  <1>2. Keepalive.frame = NoFrame
    BY DEF Keepalive, Fragment
  <1>3. \A d \in SomePiece : d # Keepalive
    BY <1>1, <1>2, NoFrameDiffers
  <1>4. \A d \in Datagrams : d # Keepalive =>
            d \in SomePiece /\ d.frame \in Frame /\ d.frame.id \in Nat /\ d = Fragment(d.frame, d.idx)
    BY <1>1, IdsAre DEF Datagrams
  <1>5. \A s \in Seq(Datagrams) : DOMAIN s = 1 .. Len(s) /\ Len(s) \in Nat /\ \A i \in DOMAIN s : s[i] \in Datagrams
    <2> HIDE DEF Datagrams
    <2> QED
      BY LenProperties, ElementOfSeq
  <1>6. \A s \in Seq(Datagrams) :
            Passing(s) \subseteq Nat /\ \A i \in DOMAIN s : s[i] # Keepalive => s[i].frame.id \in Passing(s)
    BY <1>4, <1>5 DEF Passing
  <1> QED
    BY <1>3, <1>4, <1>5, <1>6

\* A datagram is sent.
LEMMA PassMore ==
    ASSUME NEW s \in Seq(Datagrams), NEW o, PassInOrder(s, o), NEW d \in Datagrams,
           d # Keepalive => UpTo(Passing(s), {d.frame.id}, o)
    PROVE  /\ Append(s, d) \in Seq(Datagrams) /\ PassInOrder(Append(s, d), o)
           /\ Passing(Append(s, d)) \subseteq Passing(s) \union (IF d = Keepalive THEN {} ELSE {d.frame.id})
  <1> DEFINE n == Len(s)
             t == Append(s, d)
  <1>1. n \in Nat /\ DOMAIN s = 1 .. n
    BY DatagramIs
  <1>2. t \in Seq(Datagrams) /\ Len(t) = n + 1 /\ t[n + 1] = d /\ \A i \in 1 .. n : t[i] = s[i]
    <2> HIDE DEF Datagrams
    <2> QED
      BY AppendProperties
  <1>3. DOMAIN t = 1 .. n + 1
    BY <1>2, DatagramIs
  <1> HIDE DEF t, n
  <1>4. \A i \in 1 .. n + 1 : (i = n + 1 /\ t[i] = d) \/ (i \in 1 .. n /\ t[i] = s[i])
    BY <1>1, <1>2
  <1>5. Passing(t) \subseteq Passing(s) \union (IF d = Keepalive THEN {} ELSE {d.frame.id})
    BY <1>1, <1>3, <1>4 DEF Passing
  <1>6. PassInOrder(t, o)
    <2>1. ASSUME NEW i \in 1 .. n + 1, NEW j \in 1 .. n + 1, i <= j, t[i] # Keepalive, t[j] # Keepalive
          PROVE  t[i].frame.id <= t[j].frame.id \/ t[j].frame.id \in o
      <3>1. CASE j = n + 1
        <4>1. t[j] = d /\ d.frame.id <= d.frame.id
          BY <1>2, <2>1, <3>1, DatagramIs
        <4>2. t[i].frame.id \in Passing(s) \union {d.frame.id}
          BY <1>3, <1>5, <2>1, <4>1 DEF Passing
        <4> QED
          BY <2>1, <4>1, <4>2 DEF UpTo
      <3>2. CASE j # n + 1
        <4>1. i \in 1 .. n /\ j \in 1 .. n
          BY <1>1, <2>1, <3>2
        <4> QED
          BY <1>1, <1>2, <2>1, <4>1 DEF PassInOrder
      <3> QED
        BY <3>1, <3>2
    <2> QED
      BY <1>3, <2>1 DEF PassInOrder
  <1> QED
    BY <1>2, <1>5, <1>6 DEF t

\* A datagram comes or is lost.
LEMMA PassLess ==
    ASSUME NEW s \in Seq(Datagrams), s # <<>>, NEW o, PassInOrder(s, o)
    PROVE  /\ Tail(s) \in Seq(Datagrams) /\ PassInOrder(Tail(s), o) /\ Passing(Tail(s)) \subseteq Passing(s)
           /\ Head(s) \in Datagrams
           /\ Head(s) # Keepalive => Head(s).frame.id \in Passing(s) /\ UpTo({Head(s).frame.id}, Passing(s), o)
  <1> DEFINE n == Len(s)
             t == Tail(s)
  <1>1. n \in Nat /\ n > 0 /\ DOMAIN s = 1 .. n
    <2>1. n \in Nat /\ DOMAIN s = 1 .. n
      BY DatagramIs
    <2>2. n # 0
      <3> HIDE DEF Datagrams
      <3> QED
        BY EmptySeq
    <2> QED
      BY <2>1, <2>2
  <1>2. t \in Seq(Datagrams) /\ Len(t) = n - 1 /\ Head(s) = s[1] /\ \A i \in 1 .. n - 1 : t[i] = s[i + 1]
    <2> HIDE DEF Datagrams
    <2> QED
      BY <1>1, HeadTailProperties
  <1>3. DOMAIN t = 1 .. n - 1
    BY <1>2, DatagramIs
  <1> HIDE DEF n, t
  <1>4. \A i \in 1 .. n - 1 : i + 1 \in 1 .. n /\ t[i] = s[i + 1]
    BY <1>1, <1>2
  <1>5. PassInOrder(t, o)
    <2>1. ASSUME NEW i \in 1 .. n - 1, NEW j \in 1 .. n - 1, i <= j, t[i] # Keepalive, t[j] # Keepalive
          PROVE  t[i].frame.id <= t[j].frame.id \/ t[j].frame.id \in o
      <3>1. i + 1 <= j + 1
        BY <1>1, <2>1
      <3> QED
        BY <1>1, <1>4, <2>1, <3>1 DEF PassInOrder
    <2> QED
      BY <1>3, <2>1 DEF PassInOrder
  <1>6. Passing(t) \subseteq Passing(s)
    BY <1>1, <1>3, <1>4 DEF Passing
  <1>7. 1 \in 1 .. n /\ \A j \in 1 .. n : 1 <= j
    BY <1>1
  <1>8. Head(s) \in Datagrams /\ (Head(s) # Keepalive => Head(s).frame.id \in Passing(s))
    BY <1>1, <1>2, <1>7, DatagramIs
  <1>9. Head(s) # Keepalive => UpTo({Head(s).frame.id}, Passing(s), o)
    BY <1>1, <1>2, <1>7 DEF UpTo, Passing, PassInOrder
  <1> QED
    BY <1>2, <1>5, <1>6, <1>8, <1>9 DEF t

\* Frames that were overtaken stay so.
LEMMA FlowMonotone ==
    ASSUME NEW s, NEW t, NEW q, NEW o, NEW o1, o \subseteq o1, Flow(s, t, q, o)
    PROVE  Flow(s, t, q, o1)
  <1>1. PassInOrder(s, o1) /\ QueueInOrder(q, o1)
    BY DEF Flow, PassInOrder, QueueInOrder
  <1>2. UpTo(Passing(s), Pending(t) \union Ids(q), o1) /\ UpTo(Pending(t), Ids(q), o1)
    BY DEF Flow, UpTo
  <1> QED
    BY <1>1, <1>2 DEF Flow

\* Frame f is the one under way, or one that waits; r waits behind it, or was overtaken.
Takes(t, q, f, r, o) ==
    /\ f \in Frame /\ r \in Seq(Frame) /\ QueueInOrder(r, o) /\ Ids(r) \subseteq Ids(q)
    /\ f.id \in Pending(t) \union Ids(q) /\ UpTo({f.id}, Ids(r), o)

\* The next fragment of the frame under way, or the first one of another, is sent.
LEMMA FlowSend ==
    ASSUME NEW s \in Seq(Datagrams), NEW t \in Frame \union {NoFrame}, NEW q \in Seq(Frame),
           NEW o, Flow(s, t, q, o), NEW r, NEW f, NEW d, NEW s1, NEW t1,
           Takes(t, q, f, r, o), d.frame = f, d \in SomePiece,
           s1 = s \/ s1 = Append(s, d),
           t1 = NoFrame \/ t1 = f
    PROVE  /\ s1 \in Seq(Datagrams) /\ t1 \in Frame \union {NoFrame} /\ r \in Seq(Frame)
           /\ Flow(s1, t1, r, o) /\ Outgoing(s1, t1, r) \subseteq Outgoing(s, t, q)
  <1>1. PassInOrder(s, o) /\ QueueInOrder(q, o) /\ UpTo(Passing(s), Pending(t) \union Ids(q), o)
        /\ UpTo(Pending(t), Ids(q), o)
    BY DEF Flow
  <1>2. /\ f \in Frame /\ r \in Seq(Frame) /\ QueueInOrder(r, o) /\ Ids(r) \subseteq Ids(q)
        /\ f.id \in Pending(t) \union Ids(q) /\ UpTo({f.id}, Ids(r), o)
    BY DEF Takes
  <1>3. d \in Datagrams /\ d # Keepalive
    BY <1>2, DatagramIs DEF Datagrams
  <1>4. UpTo(Passing(s), {f.id}, o)
    BY <1>1, <1>2 DEF UpTo
  <1>5. s1 \in Seq(Datagrams) /\ PassInOrder(s1, o) /\ Passing(s1) \subseteq Passing(s) \union {f.id}
    <2>1. CASE s1 = s
      BY <1>1, <2>1
    <2>2. CASE s1 = Append(s, d)
      BY <1>1, <1>3, <1>4, <2>2, PassMore
    <2> QED
      BY <2>1, <2>2
  <1>6. Pending(t1) \subseteq {f.id} /\ t1 \in Frame \union {NoFrame}
    BY <1>2 DEF Pending
  <1>7. f.id <= f.id
    BY <1>2, IdsAre
  <1>8. UpTo(Passing(s1), Pending(t1) \union Ids(r), o) /\ UpTo(Pending(t1), Ids(r), o)
    BY <1>1, <1>2, <1>4, <1>5, <1>6, <1>7 DEF UpTo
  <1> QED
    BY <1>2, <1>5, <1>6, <1>8 DEF Flow, Outgoing

\* The frame under way goes back into the ring.
LEMMA FlowBack ==
    ASSUME NEW s \in Seq(Datagrams), NEW t \in Frame \union {NoFrame}, NEW q \in Seq(Frame),
           NEW o, Flow(s, t, q, o), NEW r, r = IF t = NoFrame THEN q ELSE <<t>> \o q
    PROVE  /\ r \in Seq(Frame)
           /\ Flow(s, NoFrame, r, o) /\ Outgoing(s, NoFrame, r) \subseteq Outgoing(s, t, q)
  <1>1. PassInOrder(s, o) /\ QueueInOrder(q, o) /\ UpTo(Passing(s), Pending(t) \union Ids(q), o)
        /\ UpTo(Pending(t), Ids(q), o)
    BY DEF Flow
  <1>2. r \in Seq(Frame) /\ QueueInOrder(r, o) /\ Ids(r) = Pending(t) \union Ids(q)
    <2>1. CASE t = NoFrame
      BY <1>1, <2>1 DEF Pending
    <2>2. CASE t # NoFrame
      BY <1>1, <2>2, QueueFront DEF Pending
    <2> QED
      BY <2>1, <2>2
  <1>3. Pending(NoFrame) = {}
    BY DEF Pending
  <1> QED
    BY <1>1, <1>2, <1>3 DEF Flow, Outgoing, UpTo

\* A datagram comes, is lost, or all of them are.
LEMMA FlowLess ==
    ASSUME NEW s \in Seq(Datagrams), NEW t, NEW q, NEW o, Flow(s, t, q, o),
           NEW s1, \/ s1 = s
                   \/ s # <<>> /\ s1 = Tail(s)
                   \/ s1 = <<>>
    PROVE  /\ s1 \in Seq(Datagrams)
           /\ Flow(s1, t, q, o) /\ Outgoing(s1, t, q) \subseteq Outgoing(s, t, q)
  <1>1. s1 \in Seq(Datagrams) /\ PassInOrder(s1, o) /\ Passing(s1) \subseteq Passing(s)
    <2>1. CASE s1 = s
      BY <2>1 DEF Flow
    <2>2. CASE s # <<>> /\ s1 = Tail(s)
      BY <2>2, PassLess DEF Flow
    <2>3. CASE s1 = <<>>
      <3>1. <<>> \in Seq(Datagrams) /\ DOMAIN <<>> = {}
        <4> HIDE DEF Datagrams
        <4> QED
          OBVIOUS
      <3> QED
        BY <2>3, <3>1 DEF PassInOrder, Passing
    <2> QED
      BY <2>1, <2>2, <2>3
  <1> QED
    BY <1>1 DEF Flow, Outgoing, UpTo

\* The datagram that comes first is of the oldest frame.
LEMMA FlowFirst ==
    ASSUME NEW s \in Seq(Datagrams), NEW t, NEW q, NEW o, Flow(s, t, q, o), s # <<>>, Head(s) # Keepalive
    PROVE  /\ Head(s) \in SomePiece /\ Head(s).frame.id \in Outgoing(s, t, q)
           /\ UpTo({Head(s).frame.id}, Outgoing(s, t, q), o)
  <1>1. /\ Head(s) \in Datagrams /\ Head(s).frame.id \in Passing(s)
        /\ UpTo({Head(s).frame.id}, Passing(s), o)
    BY PassLess DEF Flow
  <1> QED
    BY <1>1, DatagramIs DEF Flow, Outgoing, UpTo

\* A keepalive is sent.
LEMMA FlowKeepalive ==
    ASSUME NEW s \in Seq(Datagrams), NEW t, NEW q, NEW o, Flow(s, t, q, o)
    PROVE  /\ Append(s, Keepalive) \in Seq(Datagrams) /\ Flow(Append(s, Keepalive), t, q, o)
           /\ Outgoing(Append(s, Keepalive), t, q) \subseteq Outgoing(s, t, q)
  <1>1. /\ Append(s, Keepalive) \in Seq(Datagrams) /\ PassInOrder(Append(s, Keepalive), o)
        /\ Passing(Append(s, Keepalive)) \subseteq Passing(s)
    BY PassMore DEF Flow, Datagrams
  <1> QED
    BY <1>1 DEF Flow, Outgoing, UpTo

\* A frame is put behind all that a node has to send.
LEMMA FlowMore ==
    ASSUME NEW s \in Seq(Datagrams), NEW t \in Frame \union {NoFrame}, NEW q \in Seq(Frame),
           NEW o, Flow(s, t, q, o), NEW f \in Frame, UpTo(Outgoing(s, t, q), {f.id}, o),
           NEW r \in Seq(Frame), Behind(q, f, r)
    PROVE  /\ Flow(s, t, r, o)
           /\ Outgoing(s, t, r) \subseteq Outgoing(s, t, q) \union {f.id}
  <1>1. UpTo(Ids(q), {f.id}, o)
    BY DEF Outgoing, UpTo
  <1>2. QueueInOrder(r, o) /\ Ids(r) \subseteq Ids(q) \union {f.id}
    BY <1>1, QueueBack DEF Flow
  <1>3. UpTo(Passing(s), Pending(t) \union Ids(r), o) /\ UpTo(Pending(t), Ids(r), o)
    BY <1>2 DEF Flow, Outgoing, UpTo
  <1> QED
    BY <1>2, <1>3 DEF Flow, Outgoing

\* What nodes have sent and have yet to send are frames with numbers.
LEMMA GoesAre ==
    ASSUME EchoTypes, NEW n \in Node
    PROVE  /\ Goes(n) \subseteq Nat
           /\ chan[n] \in Seq(Datagrams) /\ chan[Other(n)] \in Seq(Datagrams)
           /\ txbuf[n] \in Frame \union {NoFrame} /\ queue[n] \in Seq(Frame)
           /\ xbuf[n] \in Seq(SomePiece) /\ txpos[n] \in Nat
  <1>1. /\ chan[n] \in Seq(Datagrams) /\ chan[Other(n)] \in Seq(Datagrams)
        /\ txbuf[n] \in Frame \union {NoFrame} /\ queue[n] \in Seq(Frame)
        /\ xbuf[n] \in Seq(SomePiece) /\ txpos[n] \in Nat
    BY Nodes DEF EchoTypes
  <1>2. Passing(chan[Other(n)]) \subseteq Nat /\ Ids(queue[n]) \subseteq Nat
    BY <1>1, IdsAre, DatagramIs
  <1>3. Pending(txbuf[n]) \subseteq Nat
    BY <1>1, IdsAre DEF Pending
  <1> QED
    BY <1>1, <1>2, <1>3 DEF Goes, Outgoing

\* A step after which nothing more is to be sent.
LEMMA EchoLess ==
    ASSUME EchoInv, EchoTypes', UNCHANGED <<encoded, echoed>>, overtaken \subseteq overtaken',
           \A n \in Node : /\ Flow(chan'[Other(n)], txbuf'[n], queue'[n], overtaken')
                           /\ Outgoing(chan'[Other(n)], txbuf'[n], queue'[n]) \subseteq Goes(n)
    PROVE  EchoInv'
  <1>1. \A n \in Node : Goes(n)' \subseteq Goes(n)
    BY DEF Goes
  <1>2. Goes("cli")' \subseteq Goes("cli") /\ Goes("srv")' \subseteq Goes("srv")
    BY <1>1, Nodes
  <1>3. /\ UpTo(echoed, Goes("cli"), overtaken)'
        /\ UpTo(echoed \union Goes("cli"), Goes("srv"), overtaken)'
        /\ AtMost(echoed \union Goes("cli") \union Goes("srv"), encoded)'
    BY <1>2 DEF EchoInv, UpTo, AtMost
  <1>4. \A n \in Node : Flow(chan[Other(n)], txbuf[n], queue[n], overtaken)'
    OBVIOUS
  <1> QED
    BY <1>3, <1>4 DEF EchoInv

\* Nothing changes of what the invariant is about.
LEMMA EchoSame ==
    ASSUME EchoInv, UNCHANGED <<queue, txbuf, txpos, xbuf, chan, encoded, echoed, overtaken>>
    PROVE  EchoInv'
  <1>1. EchoTypes'
    BY DEF EchoInv, EchoTypes
  <1>2. \A n \in Node : Goes(n)' = Goes(n)
    BY DEF Goes
  <1>3. Goes("cli")' = Goes("cli") /\ Goes("srv")' = Goes("srv")
    BY <1>2, Nodes
  <1> QED
    BY <1>1, <1>3 DEF EchoInv

\* What l2send takes is in the order of the frames, or overtakes.
LEMMA TakesInOrder ==
    ASSUME EchoInv, NEW n \in Node, NEW t \in NextFrames(n), L2Send(n, t)
    PROVE  Takes(txbuf[n], queue[n], t.frame, t.rest, overtaken') /\ overtaken \subseteq overtaken'
  <1> DEFINE q == queue[n]
             f == t.frame
             r == t.rest
  <1>1. /\ txbuf[n] \in Frame \union {NoFrame} /\ queue[n] \in Seq(Frame)
        /\ Flow(chan[Other(n)], txbuf[n], queue[n], overtaken)
    BY GoesAre DEF EchoInv
  <1>2. overtaken \subseteq overtaken'
    BY DEF L2Send
  <1>3. /\ f \in Frame /\ r \in Seq(Frame)
        /\ \/ txbuf[n] # NoFrame /\ f = txbuf[n] /\ r = q
           \/ /\ txbuf[n] = NoFrame
              /\ \E up \in {0, 1} : /\ Without(q, f, r, up)
                                    /\ n = "cli" => up = 1
    BY <1>1, TakenIs, Zenon
  <1> DEFINE o == overtaken'
  <1>4. Flow(chan[Other(n)], txbuf[n], q, o)
    <2>1. PICK o1 : o1 = overtaken'
      OBVIOUS
    <2>2. Flow(chan[Other(n)], txbuf[n], queue[n], o1)
      BY <1>1, <1>2, <2>1, FlowMonotone
    <2> QED
      BY <2>1, <2>2
  <1>5. QueueInOrder(q, o) /\ UpTo(Pending(txbuf[n]), Ids(q), o)
    BY <1>4 DEF Flow
  <1>6. n = "srv" => UpTo({f.id}, Ids(r), o)
    <2>1. ASSUME n = "srv", NEW i \in DOMAIN r
          PROVE  f.id <= r[i].id \/ r[i].id \in o
      <3>1. r[i] \in Frame /\ r[i] \in Range(r)
        <4>1. r[i] \in Range(r)
          BY <2>1 DEF Range
        <4>2. r[i] \in Frame
          BY <1>3, <2>1, IdsAre
        <4> QED
          BY <4>1, <4>2
      <3>2. f.id \in Nat /\ r[i].id \in Nat
        BY <1>3, <3>1, IdsAre
      <3>3. r[i].id < f.id => r[i].id \in o
        BY <2>1, <3>1 DEF L2Send
      <3> QED
        BY <3>2, <3>3
    <2> QED
      BY <2>1 DEF UpTo, Ids
  <1>7. CASE txbuf[n] # NoFrame /\ f = txbuf[n] /\ r = q
    BY <1>2, <1>3, <1>5, <1>7 DEF Takes, Pending
  <1>8. CASE txbuf[n] = NoFrame /\ \E up \in {0, 1} : Without(q, f, r, up) /\ (n = "cli" => up = 1)
    <2>1. PICK up \in {0, 1} : Without(q, f, r, up) /\ (n = "cli" => up = 1)
      BY <1>8
    <2>2. /\ QueueInOrder(r, o) /\ Ids(r) \subseteq Ids(q) /\ f.id \in Ids(q)
          /\ up = 1 => UpTo({f.id}, Ids(r), o)
      <3> HIDE DEF q, f, r, o
      <3> QED
        BY <1>5, <2>1, QueueLess
    <2>3. UpTo({f.id}, Ids(r), o)
      BY <1>6, <2>1, <2>2 DEF Node
    <2> QED
      BY <1>2, <1>3, <2>2, <2>3 DEF Takes
  <1> QED
    BY <1>3, <1>7, <1>8

\* A fragment is sent.
LEMMA EchoSend ==
    ASSUME EchoInv, NEW n \in Node, NEW t \in NextFrames(n), L2Send(n, t),
           UNCHANGED <<xbuf, encoded, echoed>>
    PROVE  EchoInv'
  <1> DEFINE m == Other(n)
             i == IF txbuf[n] = NoFrame THEN 0 ELSE txpos[n]
             f == t.frame
             d == Fragment(f, i)
             s == chan[m]
             s1 == IF open[m] THEN Append(s, d) ELSE s
             t1 == IF IsLast(d) THEN NoFrame ELSE f
             r == t.rest
  <1>1. EchoTypes /\ m \in Node /\ m # n /\ Other(m) = n
    BY Nodes DEF EchoInv
  <1>2. /\ s \in Seq(Datagrams) /\ txbuf[n] \in Frame \union {NoFrame} /\ queue[n] \in Seq(Frame)
        /\ txpos[n] \in Nat /\ Flow(s, txbuf[n], queue[n], overtaken)
    BY <1>1, GoesAre DEF EchoInv
  <1>3. i \in Nat
    BY <1>2
  <1>4. /\ chan' = [chan EXCEPT ![m] = s1] /\ txbuf' = [txbuf EXCEPT ![n] = t1]
        /\ queue' = [queue EXCEPT ![n] = r] /\ txpos' = [txpos EXCEPT ![n] = i + 1]
    BY DEF L2Send, Arriving
  <1>5. PICK o : o = overtaken'
    OBVIOUS
  <1>6. Takes(txbuf[n], queue[n], f, r, o) /\ overtaken \subseteq o
    BY <1>5, TakesInOrder
  <1>7. /\ s1 \in Seq(Datagrams) /\ t1 \in Frame \union {NoFrame} /\ r \in Seq(Frame)
        /\ Flow(s1, t1, r, o) /\ Outgoing(s1, t1, r) \subseteq Outgoing(s, txbuf[n], queue[n])
    <2>0. f \in Frame
      BY <1>6 DEF Takes
    <2>1. d.frame = f /\ d \in SomePiece
      BY <1>3, <2>0 DEF Fragment, SomePiece
    <2>2. (s1 = s \/ s1 = Append(s, d)) /\ (t1 = NoFrame \/ t1 = f)
      OBVIOUS
    <2> DEFINE b == txbuf[n]
               q == queue[n]
    <2>4. s \in Seq(Datagrams) /\ b \in Frame \union {NoFrame} /\ q \in Seq(Frame)
      BY <1>2
    <2>5. Takes(b, q, f, r, o) /\ Flow(s, b, q, o)
      BY <1>2, <1>6, FlowMonotone
    <2> HIDE DEF s, s1, t1, r, d, b, q, f
    <2>6. /\ s1 \in Seq(Datagrams) /\ t1 \in Frame \union {NoFrame} /\ r \in Seq(Frame)
          /\ Flow(s1, t1, r, o) /\ Outgoing(s1, t1, r) \subseteq Outgoing(s, b, q)
      <3>1. CASE s1 = s /\ t1 = NoFrame
        BY <2>1, <2>4, <2>5, <3>1, FlowSend
      <3>2. CASE s1 = s /\ t1 = f
        BY <2>1, <2>4, <2>5, <3>2, FlowSend
      <3>3. CASE s1 = Append(s, d) /\ t1 = NoFrame
        BY <2>1, <2>4, <2>5, <3>3, FlowSend
      <3>4. CASE s1 = Append(s, d) /\ t1 = f
        BY <2>1, <2>4, <2>5, <3>4, FlowSend
      <3> QED
        BY <2>2, <3>1, <3>2, <3>3, <3>4
    <2> QED
      BY <2>6 DEF b, q
  <1> HIDE DEF s1, t1, r, i
  <1>8. EchoTypes'
    BY <1>1, <1>3, <1>4, <1>7 DEF EchoTypes
  <1>9. chan'[m] = s1 /\ chan'[n] = chan[n] /\ txbuf'[n] = t1 /\ txbuf'[m] = txbuf[m]
        /\ queue'[n] = r /\ queue'[m] = queue[m]
    BY <1>1, <1>4 DEF EchoTypes
  <1>10. /\ Flow(chan'[m], txbuf'[n], queue'[n], overtaken')
         /\ Outgoing(chan'[m], txbuf'[n], queue'[n]) \subseteq Goes(n)
    BY <1>5, <1>7, <1>9 DEF Goes
  <1>11. /\ Flow(chan'[n], txbuf'[m], queue'[m], overtaken')
         /\ Outgoing(chan'[n], txbuf'[m], queue'[m]) \subseteq Goes(m)
    <2>1. Flow(chan[n], txbuf[m], queue[m], overtaken)
      BY <1>1 DEF EchoInv
    <2>2. Flow(chan[n], txbuf[m], queue[m], o)
      BY <1>6, <2>1, FlowMonotone
    <2> QED
      BY <1>1, <1>5, <1>9, <2>2 DEF Goes
  <1>12. \A k \in Node : /\ Flow(chan'[Other(k)], txbuf'[k], queue'[k], overtaken')
                         /\ Outgoing(chan'[Other(k)], txbuf'[k], queue'[k]) \subseteq Goes(k)
    BY <1>1, <1>10, <1>11, Nodes
  <1> QED
    BY <1>5, <1>6, <1>8, <1>12, EchoLess

\* A node closes its socket: the frame under way goes back and what comes is lost.
LEMMA EchoClose ==
    ASSUME EchoInv, NEW n \in Node, NEW label, L2Close(n, label)
    PROVE  EchoInv'
  <1> DEFINE m == Other(n)
             r == IF txbuf[n] = NoFrame THEN queue[n] ELSE <<txbuf[n]>> \o queue[n]
  <1>1. EchoTypes /\ m \in Node /\ m # n /\ Other(m) = n
    BY Nodes DEF EchoInv
  <1>2. /\ chan[m] \in Seq(Datagrams) /\ chan[n] \in Seq(Datagrams)
        /\ txbuf[n] \in Frame \union {NoFrame} /\ queue[n] \in Seq(Frame)
        /\ Flow(chan[m], txbuf[n], queue[n], overtaken) /\ Flow(chan[n], txbuf[m], queue[m], overtaken)
    BY <1>1, GoesAre DEF EchoInv
  <1>3. /\ chan' = [chan EXCEPT ![n] = <<>>] /\ txbuf' = [txbuf EXCEPT ![n] = NoFrame]
        /\ queue' = [queue EXCEPT ![n] = r] /\ xbuf' = [xbuf EXCEPT ![n] = <<>>]
        /\ UNCHANGED <<txpos, encoded, echoed, overtaken>>
    BY DEF L2Close, history, order
  <1>4. /\ r \in Seq(Frame)
        /\ Flow(chan[m], NoFrame, r, overtaken) /\ Outgoing(chan[m], NoFrame, r) \subseteq Goes(n)
    BY <1>2, FlowBack DEF Goes
  <1> HIDE DEF r
  <1>5. /\ Flow(<<>>, txbuf[m], queue[m], overtaken) /\ Outgoing(<<>>, txbuf[m], queue[m]) \subseteq Goes(m)
    BY <1>1, <1>2, FlowLess DEF Goes
  <1>6. EchoTypes'
    <2>1. <<>> \in Seq(Datagrams) /\ <<>> \in Seq(SomePiece)
      <3> HIDE DEF Datagrams, SomePiece
      <3> QED
        OBVIOUS
    <2> QED
      BY <1>1, <1>3, <1>4, <2>1 DEF EchoTypes
  <1>7. chan'[n] = <<>> /\ chan'[m] = chan[m] /\ txbuf'[n] = NoFrame /\ txbuf'[m] = txbuf[m]
        /\ queue'[n] = r /\ queue'[m] = queue[m]
    BY <1>1, <1>3 DEF EchoTypes
  <1>8. \A k \in Node : /\ Flow(chan'[Other(k)], txbuf'[k], queue'[k], overtaken')
                        /\ Outgoing(chan'[Other(k)], txbuf'[k], queue'[k]) \subseteq Goes(k)
    BY <1>1, <1>3, <1>4, <1>5, <1>7, Nodes
  <1> QED
    BY <1>3, <1>6, <1>8, EchoLess

\* A datagram is lost, or a keepalive sent.
LEMMA EchoChan ==
    ASSUME EchoInv, NEW n \in Node, UNCHANGED <<queue, txbuf, txpos, xbuf, encoded, echoed, overtaken>>,
           \/ chan' = chan
           \/ chan[n] # <<>> /\ chan' = [chan EXCEPT ![n] = Tail(@)]
           \/ chan' = [chan EXCEPT ![n] = Append(@, Keepalive)]
    PROVE  EchoInv'
  <1> DEFINE m == Other(n)
             s == chan'[n]
  <1>1. EchoTypes /\ m \in Node /\ m # n /\ Other(m) = n
    BY Nodes DEF EchoInv
  <1>2. /\ chan[n] \in Seq(Datagrams)
        /\ Flow(chan[n], txbuf[m], queue[m], overtaken) /\ Flow(chan[m], txbuf[n], queue[n], overtaken)
    BY <1>1, GoesAre DEF EchoInv
  <1>3. \/ s = chan[n]
        \/ chan[n] # <<>> /\ s = Tail(chan[n])
        \/ s = Append(chan[n], Keepalive)
    BY <1>1 DEF EchoTypes
  <1>4. chan' = [chan EXCEPT ![n] = s] /\ chan'[m] = chan[m]
    BY <1>1 DEF EchoTypes
  <1> HIDE DEF s
  <1>5. /\ s \in Seq(Datagrams)
        /\ Flow(s, txbuf[m], queue[m], overtaken) /\ Outgoing(s, txbuf[m], queue[m]) \subseteq Goes(m)
    BY <1>1, <1>2, <1>3, FlowLess, FlowKeepalive DEF Goes
  <1>6. EchoTypes'
    BY <1>1, <1>4, <1>5 DEF EchoTypes
  <1>7. \A k \in Node : /\ Flow(chan'[Other(k)], txbuf'[k], queue'[k], overtaken')
                        /\ Outgoing(chan'[Other(k)], txbuf'[k], queue'[k]) \subseteq Goes(k)
    BY <1>1, <1>2, <1>4, <1>5, Nodes DEF s, Goes
  <1> QED
    BY <1>6, <1>7, EchoLess

\* A frame that is whole is the one its last fragment is of.
LEMMA WholeLast ==
    ASSUME NEW x \in Seq(SomePiece), NEW d \in SomePiece, NEW s \in {Append(x, d), <<d>>}, Whole(s)
    PROVE  Head(s).frame = d.frame
  <1> DEFINE f == Head(s).frame
             n == Len(s)
  <1>1. s \in Seq(SomePiece) /\ n \in Nat /\ n >= 1 /\ s[n] = d /\ DOMAIN s = 1 .. n
    <2> HIDE DEF SomePiece
    <2>1. CASE s = Append(x, d)
      BY <2>1, AppendProperties, LenProperties
    <2>2. CASE s = <<d>>
      BY <2>2
    <2> QED
      BY <2>1, <2>2
  <1>2. s = [i \in 1 .. f.frags |-> Fragment(f, i - 1)]
    BY DEF Whole
  <1> HIDE DEF f, n
  <1>3. DOMAIN s = 1 .. f.frags /\ n \in DOMAIN s
    BY <1>1, <1>2
  <1>4. s[n] = Fragment(f, n - 1)
    BY <1>2, <1>3
  <1> QED
    BY <1>1, <1>4 DEF Fragment, f

\* What a node keeps are fragments.
LEMMA KeptAre ==
    ASSUME EchoTypes, NEW n \in Node, NEW d \in SomePiece
    PROVE  /\ Kept(n, d) \in Seq(SomePiece)
           /\ Kept(n, d) # <<>> => Kept(n, d) \in {Append(xbuf[n], d), <<d>>}
  <1>1. xbuf[n] \in Seq(SomePiece)
    BY GoesAre
  <1>2. Append(xbuf[n], d) \in Seq(SomePiece) /\ <<d>> \in Seq(SomePiece) /\ <<>> \in Seq(SomePiece)
    <2> HIDE DEF SomePiece
    <2> QED
      BY <1>1
  <1> QED
    BY <1>2 DEF Kept

\* The frame whose time stamp was put into the queue, or came back.
LEMMA EchoRecv ==
    ASSUME EchoInv, NEW n \in Node, RecvOne(n)
    PROVE  EchoInv' /\ \A i \in echoed' \ echoed : \A j \in echoed : j < i \/ i \in overtaken
  <1> DEFINE m == Other(n)
             s == chan[n]
             d == Head(s)
             id == d.frame.id
             s1 == chan'[n]
  <1>1. EchoTypes /\ m \in Node /\ m # n /\ Other(m) = n
    BY Nodes DEF EchoInv
  <1>2. /\ s \in Seq(Datagrams) /\ s # <<>>
        /\ Flow(s, txbuf[m], queue[m], overtaken) /\ Flow(chan[m], txbuf[n], queue[n], overtaken)
    BY <1>1, GoesAre DEF EchoInv, RecvOne
  <1>3. UNCHANGED <<txbuf, txpos, encoded, overtaken>> /\ chan' \in {chan, [chan EXCEPT ![n] = Tail(@)]}
    BY DEF RecvOne, order
  <1>4. (s1 = s \/ s1 = Tail(s)) /\ chan'[m] = chan[m] /\ chan' = [chan EXCEPT ![n] = s1]
    BY <1>1, <1>3 DEF EchoTypes
  <1> HIDE DEF s1
  <1>5. /\ s1 \in Seq(Datagrams)
        /\ Flow(s1, txbuf[m], queue[m], overtaken) /\ Outgoing(s1, txbuf[m], queue[m]) \subseteq Goes(m)
    BY <1>1, <1>2, <1>4, FlowLess DEF Goes
  <1>6. echoed \subseteq Nat
    BY <1>1, IdsAre DEF EchoTypes
  <1>7. CASE UNCHANGED <<queue, xbuf, echoed>>
    <2>1. EchoInv'
      BY <1>1, <1>2, <1>3, <1>4, <1>7, EchoChan
    <2> QED
      BY <1>7, <2>1
  <1>8. CASE d # Keepalive
    <2>1. d \in SomePiece /\ id \in Goes(m) /\ UpTo({id}, Goes(m), overtaken)
      BY <1>1, <1>2, <1>8, FlowFirst DEF Goes
    <2>2. id \in 1 .. MaxFrames /\ id \in Nat
      BY <2>1, IdsAre DEF SomePiece
    <2>3. /\ Kept(n, d) \in Seq(SomePiece)
          /\ Kept(n, d) # <<>> => Kept(n, d) \in {Append(xbuf[n], d), <<d>>}
      BY <1>1, <2>1, KeptAre
    <2>4. xbuf[n] \in Seq(SomePiece)
      BY <1>1, GoesAre
    <2>5. Kept(n, d) # <<>> /\ Whole(Kept(n, d)) => Head(Kept(n, d)).frame = d.frame
      BY <2>1, <2>3, <2>4, WholeLast
    <2> DEFINE whole == Kept(n, d) # <<>> /\ IsLast(d) /\ Whole(Kept(n, d))
               echo == [by |-> "cli", id |-> id, frags |-> 1]
    <2>6. /\ \E x \in Seq(SomePiece) : xbuf' = [xbuf EXCEPT ![n] = x]
          /\ ~whole \/ (whole /\ n = "cli") => UNCHANGED echoed
          /\ ~whole \/ (whole /\ n = "srv") => UNCHANGED queue
          /\ whole /\ n = "cli" => queue' = [queue EXCEPT ![n] = Enqueue(@, echo)]
          /\ whole /\ n = "srv" => echoed' = echoed \union {id}
      <3>1. <<>> \in Seq(SomePiece)
        <4> HIDE DEF SomePiece
        <4> QED
          OBVIOUS
      <3>2. IF Kept(n, d) # <<>> /\ IsLast(d)
            THEN Unpack(n, Kept(n, d))
            ELSE /\ xbuf' = [xbuf EXCEPT ![n] = Kept(n, d)]
                 /\ UNCHANGED <<queue, written, echoed, glued>>
        BY <1>8 DEF RecvOne
      <3> HIDE DEF SomePiece
      <3>3. CASE ~(Kept(n, d) # <<>> /\ IsLast(d))
        BY <2>3, <3>2, <3>3
      <3>4. CASE Kept(n, d) # <<>> /\ IsLast(d) /\ ~Whole(Kept(n, d))
        <4>1. /\ \E rest \in {<<>>, Kept(n, d)} : xbuf' = [xbuf EXCEPT ![n] = rest]
              /\ UNCHANGED <<queue, echoed>>
          BY <3>2, <3>4 DEF Unpack
        <4> QED
          BY <2>3, <3>1, <3>4, <4>1
      <3>5. CASE whole
        <4>1. /\ xbuf' = [xbuf EXCEPT ![n] = <<>>]
              /\ echoed' = IF n = "srv" THEN echoed \union {id} ELSE echoed
              /\ queue' = IF n = "cli" THEN [queue EXCEPT ![n] = Enqueue(@, echo)] ELSE queue
          BY <2>5, <3>2, <3>5 DEF Unpack
        <4> QED
          BY <3>1, <3>5, <4>1
      <3> QED
        BY <3>3, <3>4, <3>5
    <2>7. xbuf' \in [Node -> Seq(SomePiece)] /\ chan' \in [Node -> Seq(Datagrams)]
      BY <1>1, <1>4, <1>5, <2>6 DEF EchoTypes
    <2> HIDE DEF d, s, whole
    <2>8. CASE ~whole
      <3>1. UNCHANGED <<queue, echoed>>
        BY <2>6, <2>8
      <3>2. EchoTypes'
        BY <1>1, <1>3, <2>7, <3>1 DEF EchoTypes
      <3>3. \A k \in Node : /\ Flow(chan'[Other(k)], txbuf'[k], queue'[k], overtaken')
                            /\ Outgoing(chan'[Other(k)], txbuf'[k], queue'[k]) \subseteq Goes(k)
        BY <1>1, <1>2, <1>3, <1>4, <1>5, <3>1, Nodes DEF s1, Goes
      <3> QED
        BY <1>3, <3>1, <3>2, <3>3, EchoLess
    <2>9. CASE whole /\ n = "srv"
      <3>1. queue' = queue /\ echoed' = echoed \union {id} /\ m = "cli" /\ Other("srv") = "cli" /\ Other("cli") = "srv"
        BY <2>6, <2>9, Nodes
      <3>2. EchoTypes'
        BY <1>1, <1>3, <2>2, <2>7, <3>1 DEF EchoTypes
      <3>3. Goes("cli")' \subseteq Goes("cli") /\ Goes("srv")' = Goes("srv")
        BY <1>3, <1>4, <1>5, <2>9, <3>1 DEF Goes, s1
      <3>4. \A k \in Node : Flow(chan[Other(k)], txbuf[k], queue[k], overtaken)'
        BY <1>1, <1>2, <1>3, <1>4, <1>5, <3>1, Nodes DEF s1
      <3>5. id \in Goes("cli") /\ UpTo({id}, Goes("cli"), overtaken)
        BY <2>1, <3>1
      <3>6. UpTo(echoed, Goes("cli"), overtaken)'
        BY <1>3, <3>1, <3>3, <3>5 DEF UpTo, EchoInv
      <3>7. UpTo(echoed \union Goes("cli"), Goes("srv"), overtaken)'
        BY <1>3, <3>1, <3>3, <3>5 DEF UpTo, EchoInv
      <3>8. AtMost(echoed \union Goes("cli") \union Goes("srv"), encoded)'
        BY <1>3, <3>1, <3>3, <3>5 DEF AtMost, EchoInv
      <3>9. \A j \in echoed : j <= id \/ id \in overtaken
        BY <3>5 DEF UpTo, EchoInv
      <3>10. \A i \in echoed' \ echoed : \A j \in echoed : j < i \/ i \in overtaken
        BY <1>6, <2>2, <3>1, <3>9
      <3> QED
        BY <3>2, <3>4, <3>6, <3>7, <3>8, <3>10 DEF EchoInv
    <2>10. CASE whole /\ n = "cli"
      <3>1. echoed' = echoed /\ queue' = [queue EXCEPT !["cli"] = Enqueue(@, echo)] /\ m = "srv"
            /\ Other("srv") = "cli" /\ Other("cli") = "srv"
        BY <2>6, <2>10, Nodes
      <3>2. echo \in Frame /\ echo.id = id
        BY <2>2, Nodes DEF Frame
      <3> HIDE DEF echo, id
      <3>3. id \in Goes("srv") /\ UpTo({id}, Goes("srv"), overtaken)
        BY <2>1, <3>1
      <3>4. UpTo(Goes("cli"), {id}, overtaken)
        BY <3>3 DEF EchoInv, UpTo
      <3>5. /\ Enqueue(queue["cli"], echo) \in Seq(Frame)
            /\ Flow(chan["srv"], txbuf["cli"], Enqueue(queue["cli"], echo), overtaken)
            /\ Outgoing(chan["srv"], txbuf["cli"], Enqueue(queue["cli"], echo)) \subseteq Goes("cli") \union {id}
        <4>1. chan["srv"] \in Seq(Datagrams) /\ txbuf["cli"] \in Frame \union {NoFrame} /\ queue["cli"] \in Seq(Frame)
          BY <1>1, <3>1, Nodes, GoesAre
        <4>2. Goes("cli") = Outgoing(chan["srv"], txbuf["cli"], queue["cli"])
          BY <3>1 DEF Goes
        <4>3. Flow(chan["srv"], txbuf["cli"], queue["cli"], overtaken)
          BY <1>2, <2>10, <3>1
        <4> QED
          <5> DEFINE t == txbuf["cli"]
                     q == queue["cli"]
                     z == chan["srv"]
          <5>1. UpTo(Outgoing(z, t, q), {echo.id}, overtaken)
            BY <3>2, <3>4, <4>2
          <5> HIDE DEF t, q, z
          <5>2. Enqueue(q, echo) \in Seq(Frame) /\ Behind(q, echo, Enqueue(q, echo))
            BY <3>2, <4>1, EnqueueIs DEF q
          <5>3. /\ Flow(z, t, Enqueue(q, echo), overtaken)
                /\ Outgoing(z, t, Enqueue(q, echo)) \subseteq Outgoing(z, t, q) \union {echo.id}
            BY <3>2, <4>1, <4>3, <5>1, <5>2, FlowMore DEF z, t, q
          <5> QED
            BY <3>2, <4>2, <5>2, <5>3 DEF z, t, q
      <3>6. queue'["cli"] = Enqueue(queue["cli"], echo) /\ queue'["srv"] = queue["srv"]
        BY <1>1, <3>1, Nodes DEF EchoTypes
      <3>7. EchoTypes'
        BY <1>1, <1>3, <2>7, <3>1, <3>5 DEF EchoTypes
      <3>8. chan'["srv"] = chan["srv"] /\ chan'["cli"] = s1 /\ txbuf' = txbuf
        BY <1>3, <1>4, <2>10, <3>1 DEF s1
      <3>9. /\ Flow(chan'["srv"], txbuf'["cli"], queue'["cli"], overtaken')
            /\ Flow(chan'["cli"], txbuf'["srv"], queue'["srv"], overtaken')
        BY <1>3, <1>5, <3>1, <3>5, <3>6, <3>8
      <3>10. \A k \in Node : Flow(chan[Other(k)], txbuf[k], queue[k], overtaken)'
        BY <3>1, <3>9 DEF Node
      <3>11. Goes("srv")' \subseteq Goes("srv") /\ Goes("cli")' \subseteq Goes("cli") \union {id}
        BY <1>5, <3>1, <3>5, <3>6, <3>8 DEF Goes
      <3>12. UpTo(echoed, {id}, overtaken)
        BY <3>3 DEF EchoInv, UpTo
      <3>13. id <= encoded
        BY <3>3 DEF EchoInv, AtMost
      <3>14. UpTo(echoed, Goes("cli"), overtaken)'
        BY <1>3, <3>1, <3>11, <3>12 DEF UpTo, EchoInv
      <3>15. UpTo(echoed \union Goes("cli"), Goes("srv"), overtaken)'
        BY <1>3, <3>1, <3>3, <3>11 DEF UpTo, EchoInv
      <3>16. AtMost(echoed \union Goes("cli") \union Goes("srv"), encoded)'
        BY <1>3, <3>1, <3>11, <3>13 DEF AtMost, EchoInv
      <3> QED
        BY <3>1, <3>7, <3>10, <3>14, <3>15, <3>16 DEF EchoInv
    <2> QED
      BY <2>8, <2>9, <2>10 DEF Node
  <1>9. d # Keepalive \/ UNCHANGED <<queue, xbuf, echoed>>
    BY DEF RecvOne, rxVars
  <1> QED
    BY <1>7, <1>8, <1>9

\* The encoder allocates: what waited goes, but for the newest frame.
LEMMA EchoAlloc ==
    ASSUME EchoInv, Alloc
    PROVE  EchoInv' /\ echoed' = echoed
  <1>1. /\ EchoTypes /\ "srv" \in Node /\ Other("srv") = "cli" /\ Other("cli") = "srv"
        /\ queue \in [Node -> Seq(Frame)]
    BY Nodes DEF EchoInv, EchoTypes
  <1>2. UNCHANGED <<txbuf, txpos, xbuf, chan, encoded, echoed, overtaken>>
    BY DEF Alloc, rxVars
  <1>3. PICK r \in Seq(Frame) :
            /\ queue' = [queue EXCEPT !["srv"] = r]
            /\ \A i, j \in DOMAIN r : i = j
            /\ \A i \in DOMAIN r : \E k \in DOMAIN queue["srv"] : r[i] = queue["srv"][k]
    BY <1>1, AllocIs
  <1>4. QueueInOrder(r, overtaken) /\ Ids(r) \subseteq Ids(queue["srv"])
    <2>1. \A i \in DOMAIN r : r[i].id <= r[i].id
      BY IdsAre
    <2>2. Ids(r) \subseteq Ids(queue["srv"])
      BY <1>3 DEF Ids
    <2> QED
      BY <1>3, <2>1, <2>2 DEF QueueInOrder
  <1>5. EchoTypes'
    BY <1>1, <1>2, <1>3 DEF EchoTypes
  <1>6. \A n \in Node : queue'[n] = IF n = "srv" THEN r ELSE queue[n]
    BY <1>1, <1>3
  <1>7. ASSUME NEW n \in Node
        PROVE  /\ Flow(chan'[Other(n)], txbuf'[n], queue'[n], overtaken')
               /\ Outgoing(chan'[Other(n)], txbuf'[n], queue'[n]) \subseteq Goes(n)
    <2>1. Flow(chan[Other(n)], txbuf[n], queue[n], overtaken)
      BY DEF EchoInv
    <2>2. CASE n = "srv"
      <3> DEFINE s == chan[Other(n)]
                 t == txbuf[n]
                 q == queue[n]
                 o == overtaken
      <3>1. Flow(s, t, q, o) /\ QueueInOrder(r, o) /\ Ids(r) \subseteq Ids(q)
        BY <1>4, <2>1, <2>2
      <3> HIDE DEF s, t, q, o
      <3>2. Flow(s, t, r, o) /\ Outgoing(s, t, r) \subseteq Outgoing(s, t, q)
        BY <3>1 DEF Flow, UpTo, Outgoing
      <3> QED
        BY <1>2, <1>6, <2>2, <3>2 DEF s, t, q, o, Goes
    <2>3. CASE n # "srv"
      BY <1>2, <1>6, <2>1, <2>3 DEF Goes
    <2> QED
      BY <2>2, <2>3
  <1> QED
    BY <1>2, <1>5, <1>7, EchoLess

\* The encoder finishes a frame.
LEMMA EchoEncode ==
    ASSUME EchoInv, Encode
    PROVE  EchoInv' /\ echoed' = echoed
  <1>1. EchoTypes /\ "srv" \in Node /\ "cli" \in Node /\ Other("srv") = "cli" /\ Other("cli") = "srv"
    BY Nodes DEF EchoInv
  <1>2. PICK k \in FragCounts :
            queue' = [queue EXCEPT !["srv"] = Append(@, [by |-> "srv", id |-> encoded + 1, frags |-> k])]
    BY DEF Encode
  <1> DEFINE f == [by |-> "srv", id |-> encoded + 1, frags |-> k]
             s == chan["cli"]
             t == txbuf["srv"]
             q == queue["srv"]
  <1>3. /\ encoded < MaxFrames /\ encoded' = encoded + 1
        /\ UNCHANGED <<txbuf, txpos, xbuf, chan, echoed, overtaken>>
    BY DEF Encode, rxVars, history, order
  <1>4. encoded \in Nat /\ encoded' \in 0 .. MaxFrames /\ encoded' \in 1 .. MaxFrames
    BY <1>1, <1>3, IdsAre DEF EchoTypes
  <1>5. f \in Frame /\ f.id = encoded'
    BY <1>1, <1>2, <1>3, <1>4 DEF Frame
  <1>6. s \in Seq(Datagrams) /\ t \in Frame \union {NoFrame} /\ q \in Seq(Frame) /\ Flow(s, t, q, overtaken)
    BY <1>1, GoesAre DEF EchoInv
  <1>7. Goes("srv") = Outgoing(s, t, q) /\ Goes("srv") \subseteq Nat /\ Goes("cli") \subseteq Nat
        /\ echoed \subseteq Nat
    BY <1>1, GoesAre, IdsAre DEF Goes, EchoTypes
  <1>8. AtMost(echoed \union Goes("cli") \union Goes("srv"), encoded')
    BY <1>3, <1>4, <1>7 DEF EchoInv, AtMost
  <1>9. UpTo(Outgoing(s, t, q), {f.id}, overtaken)
    BY <1>5, <1>7, <1>8 DEF UpTo, AtMost
  <1> HIDE DEF f, s, t, q
  <1> DEFINE r == Append(q, f)
  <1>10. /\ r \in Seq(Frame) /\ Flow(s, t, r, overtaken)
         /\ Outgoing(s, t, r) \subseteq Outgoing(s, t, q) \union {f.id}
    <2>1. r \in Seq(Frame) /\ Behind(q, f, r)
      BY <1>5, <1>6, AppendBehind
    <2> HIDE DEF r
    <2> QED
      BY <1>5, <1>6, <1>9, <2>1, FlowMore
  <1>11. queue'["srv"] = r /\ queue'["cli"] = queue["cli"]
         /\ queue' = [queue EXCEPT !["srv"] = r]
    BY <1>1, <1>2 DEF EchoTypes, f, q
  <1> HIDE DEF r
  <1>12. EchoTypes'
    BY <1>1, <1>3, <1>4, <1>10, <1>11 DEF EchoTypes
  <1>13. Goes("cli")' = Goes("cli") /\ Goes("srv")' \subseteq Goes("srv") \union {encoded'}
    BY <1>1, <1>3, <1>5, <1>7, <1>10, <1>11 DEF Goes, s, t
  <1>14. /\ Flow(chan'["srv"], txbuf'["cli"], queue'["cli"], overtaken')
         /\ Flow(chan'["cli"], txbuf'["srv"], queue'["srv"], overtaken')
    BY <1>1, <1>3, <1>10, <1>11 DEF EchoInv, s, t
  <1>15. \A n \in Node : Flow(chan[Other(n)], txbuf[n], queue[n], overtaken)'
    BY <1>1, <1>14 DEF Node
  <1>16. UpTo(echoed, Goes("cli"), overtaken)'
    BY <1>3, <1>13 DEF EchoInv
  <1>17. UpTo(echoed \union Goes("cli"), Goes("srv"), overtaken)'
    BY <1>3, <1>8, <1>13 DEF EchoInv, UpTo, AtMost
  <1>18. encoded' <= encoded'
    BY <1>4
  <1>19. AtMost(echoed \union Goes("cli") \union Goes("srv"), encoded)'
    BY <1>3, <1>8, <1>13, <1>18 DEF AtMost
  <1> QED
    BY <1>3, <1>12, <1>15, <1>16, <1>17, <1>19 DEF EchoInv

\* Nothing is on its way at the start.
LEMMA EchoInit == Init => EchoInv
  <1> SUFFICES ASSUME Init
               PROVE  EchoInv
    OBVIOUS
  <1>1. /\ \A n \in Node : chan[n] = <<>> /\ txbuf[n] = NoFrame /\ queue[n] = <<>>
        /\ encoded = 0 /\ echoed = {}
    BY DEF Init
  <1>2. Passing(<<>>) = {} /\ Ids(<<>>) = {} /\ Pending(NoFrame) = {}
        /\ PassInOrder(<<>>, overtaken) /\ QueueInOrder(<<>>, overtaken)
    BY DEF Passing, Ids, Pending, PassInOrder, QueueInOrder
  <1>3. Flow(<<>>, NoFrame, <<>>, overtaken) /\ Outgoing(<<>>, NoFrame, <<>>) = {}
    BY <1>2 DEF Flow, Outgoing, UpTo
  <1>4. \A n \in Node : Flow(chan[Other(n)], txbuf[n], queue[n], overtaken) /\ Goes(n) = {}
    BY <1>1, <1>3, Nodes DEF Goes
  <1>5. EchoTypes
    <2>1. <<>> \in Seq(Frame) /\ <<>> \in Seq(Datagrams) /\ <<>> \in Seq(SomePiece)
      <3> HIDE DEF Frame, Datagrams, SomePiece
      <3> QED
        OBVIOUS
    <2> QED
      BY <1>1, <2>1, IdsAre DEF EchoTypes, Init
  <1> QED
    BY <1>1, <1>4, <1>5, Nodes DEF EchoInv, UpTo, AtMost

\* Every step keeps the order, and what comes back is newer than all that did.
LEMMA EchoNext ==
    ASSUME EchoInv, [Next]_vars
    PROVE  EchoInv' /\ \A i \in echoed' \ echoed : \A j \in echoed : j < i \/ i \in overtaken
  <1>1. CASE Encode \/ Alloc
    BY <1>1, EchoEncode, EchoAlloc
  <1>2. CASE Terminated \/ UNCHANGED vars
    BY <1>2, EchoSame DEF Terminated, vars, txVars, rxVars, history, order
  <1>3. ASSUME NEW n \in Node, RecvOne(n)
        PROVE  EchoInv' /\ \A i \in echoed' \ echoed : \A j \in echoed : j < i \/ i \in overtaken
    BY <1>3, EchoRecv
  <1>4. ASSUME NEW n \in Node, Failure(n) \/ Stop(n)
        PROVE  EchoInv' /\ echoed' = echoed
    <2>1. CASE \E label \in {"prewait", "poll", "ended"} : L2Close(n, label)
      BY <2>1, EchoClose DEF L2Close, history
    <2>2. CASE UNCHANGED <<queue, txbuf, txpos, xbuf, chan, encoded, echoed, overtaken>>
      BY <2>2, EchoSame
    <2> QED
      BY <1>4, <2>1, <2>2
         DEF Failure, PrewaitFail, PollOutFail, RecvFail, Stop, txVars, rxVars, history, order
  <1>5. ASSUME NEW n \in Node, PrewaitSend(n)
        PROVE  EchoInv' /\ echoed' = echoed
    <2>1. (\E t \in NextFrames(n) : L2Send(n, t)) /\ UNCHANGED <<xbuf, encoded, echoed>>
      BY <1>5 DEF PrewaitSend, rxVars
    <2> QED
      BY <2>1, EchoSend
  <1>6. ASSUME NEW n \in Node, PollOut(n) \/ RecvEnd(n)
        PROVE  EchoInv' /\ echoed' = echoed
    <2>1. UNCHANGED <<xbuf, encoded, echoed>>
      BY <1>6 DEF PollOut, RecvEnd, rxVars
    <2>2. CASE \E t \in NextFrames(n) : L2Send(n, t)
      BY <2>1, <2>2, EchoSend
    <2>3. CASE UNCHANGED <<queue, txbuf, txpos, chan, overtaken>>
      BY <2>1, <2>3, EchoSame
    <2> QED
      BY <1>6, <2>2, <2>3 DEF PollOut, RecvEnd, txVars
  <1>7. ASSUME NEW n \in Node, Lose(n) \/ Silence(n) \/ PollIn(n) \/ PollTimeout(n)
        PROVE  EchoInv' /\ echoed' = echoed
    <2>1. UNCHANGED <<queue, txbuf, txpos, xbuf, encoded, echoed, overtaken>>
      BY <1>7 DEF Lose, Silence, PollIn, PollTimeout, txVars, rxVars, history, order
    <2>2. chan' = chan \/ (chan[n] # <<>> /\ chan' = [chan EXCEPT ![n] = Tail(@)])
      BY <1>7 DEF Lose, Silence, PollIn, PollTimeout
    <2> QED
      BY <2>1, <2>2, EchoChan
  <1>8. ASSUME NEW n \in Node, PrewaitIdle(n)
        PROVE  EchoInv' /\ echoed' = echoed
    <2>1. UNCHANGED <<queue, txbuf, txpos, xbuf, encoded, echoed, overtaken>>
      BY <1>8 DEF PrewaitIdle, txVars, rxVars, history, order
    <2>2. chan' = chan \/ chan' = [chan EXCEPT ![Other(n)] = Append(@, Keepalive)]
      <3>1. chan' = chan \/ chan' = Arriving(n, Keepalive)
        BY <1>8 DEF PrewaitIdle
      <3>2. [chan EXCEPT ![Other(n)] = chan[Other(n)]] = chan
        BY Nodes DEF EchoInv, EchoTypes
      <3> QED
        BY <3>1, <3>2 DEF Arriving
    <2>3. Other(n) \in Node
      BY Nodes
    <2> QED
      BY <2>1, <2>2, <2>3, EchoChan
  <1> QED
    BY <1>1, <1>2, <1>3, <1>4, <1>5, <1>6, <1>7, <1>8 DEF Next, ThreadStep, vars, history

\* The echoes reach the server in the order of the frames, although both rings throw
\* frames away, a node may fail in the middle of one and datagrams are lost or come
\* twice: the round trip that unpack() of the server measures is that of an older
\* frame than the last only if the unlocked scan of wait() sent the newer one first.
THEOREM EchoesKeepOrder == Spec => EchoInOrder
  <1>1. EchoInv /\ [Next]_vars => EchoInv'
    BY EchoNext
  <1>2. EchoInv /\ [Next]_vars =>
            [\A i \in echoed' \ echoed : \A j \in echoed : j < i \/ i \in overtaken]_vars
    BY EchoNext
  <1> QED
    BY EchoInit, <1>1, <1>2, PTL DEF Spec, EchoInOrder
=============================================================================
