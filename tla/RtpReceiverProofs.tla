--------------------------- MODULE RtpReceiverProofs ---------------------------
(***************************************************************************)
(* Proofs about the media path of the player -- the NAL units handed to    *)
(* the sink and the counts of the RTCP reports -- for sequence numbers and *)
(* counters of every width, NAL units of every length, and any number of   *)
(* packets, losses, late and repeated datagrams.                           *)
(***************************************************************************)
EXTENDS RtpReceiver, SequenceTheorems, TLAPS

-----------------------------------------------------------------------------
(* Sequence numbers                                                        *)

LEMMA Multiple ==
    ASSUME NEW m \in Nat \ {0}, NEW k \in Int, NEW d \in Int, d = m * k, -m < d, d < m
    PROVE  k = 0
  <1>1. CASE k >= 1
    <2>1. m * k >= m
      BY <1>1
    <2> QED
      BY <2>1
  <1>2. CASE k <= -1
    <2>1. m * k <= -m
      BY <1>2
    <2> QED
      BY <2>1
  <1> QED
    BY <1>1, <1>2

LEMMA Division ==
    ASSUME NEW m \in Nat \ {0}, NEW a \in Int
    PROVE  /\ a % m \in 0 .. m - 1
           /\ a \div m \in Int
           /\ a = m * (a \div m) + (a % m)
  OBVIOUS

LEMMA SameRemainder ==
    ASSUME NEW m \in Nat \ {0}, NEW a \in Int, NEW b \in Int, a % m = b % m,
           -m < a - b, a - b < m
    PROVE  a = b
  <1> DEFINE k == a \div m
             l == b \div m
             r == a % m
  <1>1. k \in Int /\ l \in Int /\ r \in 0 .. m - 1 /\ a = m * k + r /\ b = m * l + r
    BY Division
  <1> HIDE DEF k, l, r
  <1>2. a - b = m * (k - l)
    BY <1>1
  <1>3. k - l = 0
    BY <1>1, <1>2, Multiple
  <1> QED
    BY <1>1, <1>2, <1>3

LEMMA Remainder ==
    ASSUME NEW m \in Nat \ {0}, NEW a \in Int, NEW k \in Int, NEW r \in 0 .. m - 1, a = m * k + r
    PROVE  a % m = r
  <1> DEFINE l == a \div m
             s == a % m
  <1>1. l \in Int /\ s \in 0 .. m - 1 /\ a = m * l + s
    BY Division
  <1> HIDE DEF l, s
  <1>2. s - r = m * (k - l)
    BY <1>1
  <1>3. k - l = 0
    BY <1>1, <1>2, Multiple
  <1>4. s = r
    BY <1>1, <1>2, <1>3
  <1> QED
    BY <1>4 DEF s

LEMMA NextRemainder ==
    ASSUME NEW m \in Nat \ {0}, NEW a \in Int
    PROVE  ((a % m) + 1) % m = (a + 1) % m
  <1> DEFINE k == a \div m
             r == a % m
  <1>1. k \in Int /\ r \in 0 .. m - 1 /\ a = m * k + r
    BY Division
  <1> HIDE DEF k, r
  <1>2. CASE r + 1 < m
    <2>1. r + 1 \in 0 .. m - 1 /\ a + 1 = m * k + (r + 1) /\ r + 1 = m * 0 + (r + 1)
      BY <1>1, <1>2
    <2>2. (a + 1) % m = r + 1 /\ (r + 1) % m = r + 1
      BY <1>1, <2>1, Remainder
    <2> QED
      BY <2>2 DEF r
  <1>3. CASE r + 1 = m
    <2>1. 0 \in 0 .. m - 1 /\ a + 1 = m * (k + 1) + 0 /\ r + 1 = m * 1 + 0
      BY <1>1, <1>3
    <2>2. (a + 1) % m = 0 /\ (r + 1) % m = 0
      BY <1>1, <2>1, Remainder
    <2> QED
      BY <2>2 DEF r
  <1> QED
    BY <1>1, <1>2, <1>3

\* A datagram b that handle_datagram() takes to follow a does follow it, when it is
\* not too far behind and the sequence number did not wrap in between.
LEMMA TakenToFollow ==
    ASSUME NEW m \in Nat \ {0}, NEW f \in Nat, NEW a \in Nat, NEW b \in Nat,
           NEW far \in Nat, NEW win \in Nat, win < far, win < m,
           NEW x, NEW y, x = (f + a - 1) % m, y = (f + b - 1) % m,
           y = (x + 1) % m \/ (y < x + 1 /\ x + 1 - y > far),
           ~(a < b - 1 /\ (y <= x \/ b - a > m)),
           b >= a - win + 1
    PROVE  b = a + 1
  <1>1. x \in 0 .. m - 1 /\ y \in 0 .. m - 1
    BY Division
  <1>2. CASE y = (x + 1) % m
    <2>1. (x + 1) % m = ((f + a - 1) + 1) % m
      <3> DEFINE n == f + a - 1
      <3>1. n \in Int
        OBVIOUS
      <3> HIDE DEF n
      <3>2. ((n % m) + 1) % m = (n + 1) % m
        BY <3>1, NextRemainder
      <3> QED
        BY <3>2 DEF n
    <2>2. (f + a - 1) + 1 = f + a
      OBVIOUS
    <2> DEFINE p == f + b - 1
               q == f + a
    <2>3. p % m = q % m
      BY <1>2, <2>1, <2>2
    <2>4. p - q = b - 1 - a /\ p \in Int /\ q \in Int
      OBVIOUS
    <2>5. CASE b - a > m
      BY <2>5
    <2>6. CASE b - a <= m
      <3>1. -m < b - 1 - a /\ b - 1 - a < m
        BY <2>6
      <3> HIDE DEF p, q
      <3>2. p = q
        BY <2>3, <2>4, <3>1, SameRemainder
      <3> QED
        BY <2>4, <3>2
    <2> QED
      BY <2>5, <2>6
  <1>3. CASE y < x + 1 /\ x + 1 - y > far
    <2>1. SUFFICES ASSUME b # a + 1 PROVE FALSE
      OBVIOUS
    <2>2. b <= a
      BY <1>1, <1>3, <2>1
    <2> DEFINE n == f + a - 1
               o == f + b - 1
               k == n \div m
               l == o \div m
    <2>3. k \in Int /\ n = m * k + x /\ l \in Int /\ o = m * l + y
      BY Division
    <2>4. n - o = a - b
      OBVIOUS
    <2> DEFINE d == (a - b) - (x - y)
    <2> HIDE DEF k, l, n, o
    <2>5. d = m * (k - l)
      BY <1>1, <2>3, <2>4
    <2>6. -m < d /\ d < m
      BY <1>1, <1>3, <2>2
    <2>7. k - l = 0
      <3>1. d \in Int /\ k - l \in Int
        BY <1>1, <2>3
      <3> HIDE DEF d
      <3> QED
        BY <2>5, <2>6, <3>1, Multiple
    <2>8. a - b = x - y
      BY <1>1, <2>3, <2>5, <2>7
    <2> QED
      BY <1>3, <2>8
  <1> QED
    BY <1>2, <1>3

-----------------------------------------------------------------------------
(* The packets on the way                                                  *)

\* The packet does not end its NAL unit.
Open(p) == p.kind = "fu" /\ ~p.e

\* The number of the last NAL unit in the packet.
Rank(p) == p.nal + (IF p.kind = "stap" THEN 1 ELSE 0)

\* b is what the sender sends after a.
Follows(a, b) ==
    /\ b.at = a.at + 1
    /\ Open(a) => b.kind = "fu" /\ b.nal = a.nal /\ b.part = a.part + 1
    /\ ~Open(a) => b.nal = Rank(a) + 1 /\ b.part = 1

Sendable(p) ==
    /\ p \in Packets
    /\ p.at >= 1 /\ p.part >= 1 /\ p.nal <= 2 * p.at - 1
    /\ p.part = MaxParts => p.e
    /\ p.kind # "fu" => p.part = 1 /\ p.e

\* The window of packets the network may still bring.
SenderRight ==
    /\ first \in FirstSeq /\ sent \in 0 .. MaxSent
    /\ past \in Seq(Packets) /\ Len(past) <= Window
    /\ sent = 0 <=> past = <<>>
    /\ \A i \in 1 .. Len(past) :
          /\ Sendable(past[i])
          /\ past[i].at = sent - Len(past) + i
          /\ Rank(past[i]) <= Rank(Last)
          /\ Open(Last) /\ ~Open(past[i]) => Rank(past[i]) < Last.nal
    /\ \A i \in 1 .. Len(past) - 1 : Follows(past[i], past[i + 1])

\* Where the packet that came last is among those sent.
GotRight ==
    /\ got = NoPacket \/ Sendable(got)
    /\ got.at <= sent
    /\ got # NoPacket => expseq_ = seq(got) + 1
    /\ expseq_ \in 0 .. SeqMod
    /\ \A i \in 1 .. Len(past) :
          /\ past[i].at = got.at => past[i] = got
          /\ past[i].at = got.at + 1 => Follows(got, past[i])

Pieces == [nal : 0 .. 2 * MaxSent, part : 1 .. MaxParts, e : BOOLEAN, gap : BOOLEAN]

\* b holds the fragments of g's NAL unit up to g.
Begun(b, g) ==
    /\ Len(b) = g.part
    /\ \A i \in 1 .. Len(b) : b[i].nal = g.nal /\ b[i].part = i /\ ~b[i].e

Glued(b) == \E i \in DOMAIN b : b[i].gap

\* What bufp_ holds while a NAL unit is under way.
BufferRight ==
    /\ bufp_ \in Seq(Pieces)
    /\ got = NoPacket => bufp_ = <<>>
    /\ Open(got) /\ bufp_ # <<>> => Begun(bufp_, got) \/ Glued(bufp_)
    /\ Open(got) /\ run >= got.part => Begun(bufp_, got)

\* The sink has got nothing the sender has not yet completed.
SinkRight ==
    sink.gap \/ (sink.nal <= Rank(Last) /\ (Open(Last) => sink.nal < Last.nal))

SinkInfo == [nal : 0 .. 2 * MaxSent, ok : BOOLEAN, gap : BOOLEAN]

StatisInfo ==
    [cycles : 0 .. CycMod - 1, base_seq : 0 .. SeqMod - 1, max_seq : 0 .. SeqMod - 1,
     received : Nat, expected_prior : 0 .. Word - 1, received_prior : Nat]

CountersRight ==
    /\ sink \in SinkInfo /\ rtpsi_ \in StatisInfo
    /\ due \in BOOLEAN /\ zeroed \in BOOLEAN /\ took \in BOOLEAN /\ clean \in BOOLEAN
    /\ rr_ \in [n : 0 .. 2, lost : BOOLEAN, clean : BOOLEAN]
    /\ late \in 0 .. MaxLate /\ run \in 0 .. MaxParts

RtpInv ==
    /\ SenderRight /\ GotRight /\ BufferRight /\ SinkRight /\ CountersRight
    /\ WholeNal /\ UnhurtCommitted

LEMMA Constants ==
    /\ SeqMod \in Nat \ {0} /\ CycMod \in Nat /\ Far \in Nat /\ Near \in Nat
    /\ MaxParts \in Nat /\ MaxSent \in Nat /\ MaxLate \in Nat /\ Window \in Nat
    /\ MaxParts > 1 /\ CycMod > 1 /\ Window > 0 /\ MaxSent > 0
    /\ Near <= Far /\ Far < SeqMod /\ Window < Near
    /\ FirstSeq \subseteq 0 .. SeqMod - 1 /\ Garbage \subseteq 0 .. CycMod - 1
  <1>1. {SeqMod, CycMod, Far, Near, MaxParts, MaxSent, MaxLate, Window} \subseteq Nat \ {0}
    BY RtpAssumption
  <1>2. /\ SeqMod \in Nat \ {0} /\ CycMod \in Nat /\ Far \in Nat /\ Near \in Nat
        /\ MaxParts \in Nat /\ MaxSent \in Nat \ {0} /\ MaxLate \in Nat /\ Window \in Nat \ {0}
    BY <1>1
  <1>3. MaxSent > 0 /\ Window > 0
    BY <1>2
  <1> QED
    BY <1>2, <1>3, RtpAssumption

LEMMA PacketFields ==
    ASSUME NEW p \in Packets
    PROVE  /\ p.at \in Nat /\ p.at <= MaxSent /\ p.nal \in Nat /\ p.nal <= 2 * MaxSent
           /\ p.part \in Nat /\ p.part <= MaxParts /\ p.e \in BOOLEAN
           /\ p.kind \in {"single", "stap", "fu", "other"}
  <1>1. p.at \in 0 .. MaxSent /\ p.nal \in 0 .. 2 * MaxSent /\ p.part \in 0 .. MaxParts
        /\ p.e \in BOOLEAN /\ p.kind \in {"single", "stap", "fu", "other"}
    BY DEF Packets
  <1> QED
    BY <1>1, Constants

LEMMA NoPacketFields ==
    /\ NoPacket \in Packets /\ NoPacket.at = 0 /\ ~Open(NoPacket) /\ Rank(NoPacket) = 0
    /\ NoPacket.nal = 0 /\ NoPacket.kind = "other"
  <1>1. 0 \in 0 .. MaxSent /\ 0 \in 0 .. 2 * MaxSent /\ 0 \in 0 .. MaxParts
    BY Constants
  <1> QED
    BY <1>1 DEF NoPacket, Packets, Open, Rank

LEMMA SeqRange ==
    ASSUME first \in FirstSeq, NEW p \in Packets
    PROVE  seq(p) \in 0 .. SeqMod - 1 /\ first \in Nat
  <1>1. first \in Nat
    BY Constants
  <1>2. first + p.at - 1 \in Int
    BY <1>1, PacketFields
  <1> DEFINE n == first + p.at - 1
  <1>3. seq(p) = n % SeqMod
    BY DEF seq
  <1> HIDE DEF n
  <1> QED
    BY <1>1, <1>2, <1>3, Division, Constants DEF n

LEMMA LastPacket ==
    ASSUME SenderRight
    PROVE  /\ Last \in Packets /\ Last.at = sent
           /\ past = <<>> => Last = NoPacket
           /\ past # <<>> => Len(past) \in 1 .. Len(past) /\ Last = past[Len(past)] /\ Sendable(Last)
  <1>1. CASE past = <<>>
    <2>1. sent = 0
      BY <1>1 DEF SenderRight
    <2> QED
      BY <1>1, <2>1, NoPacketFields DEF Last
  <1>2. CASE past # <<>>
    <2> DEFINE n == Len(past)
    <2>1. n \in Nat \ {0}
      BY <1>2, EmptySeq DEF SenderRight
    <2>2. n \in 1 .. n
      BY <2>1
    <2>3. Sendable(past[n]) /\ past[n].at = sent - n + n
      BY <2>2 DEF SenderRight
    <2>4. sent - n + n = sent
      BY <2>1, Constants DEF SenderRight
    <2> QED
      BY <1>2, <2>2, <2>3, <2>4 DEF Last, Sendable
  <1> QED
    BY <1>1, <1>2

\* What the sender sends next.
LEMMA NextPacket ==
    ASSUME SenderRight, sent < MaxSent, NEW p \in NextPackets
    PROVE  Sendable(p) /\ p.at = sent + 1 /\ Follows(Last, p)
  <1>1. /\ Last \in Packets /\ Last.at = sent /\ sent \in Nat /\ sent + 1 \in 0 .. MaxSent
        /\ (Last = NoPacket \/ Sendable(Last))
    <2>1. sent \in 0 .. MaxSent
      BY DEF SenderRight
    <2> QED
      BY <2>1, LastPacket, Constants
  <1>2. Last.nal \in Nat /\ (Last = NoPacket \/ Last.nal <= 2 * sent - 1)
    BY <1>1, PacketFields DEF Sendable
  <1>3. Last.nal + 2 <= 2 * (sent + 1) - 1 \/ (Last = NoPacket /\ sent = 0)
    <2>1. Last = NoPacket => sent = 0
      BY <1>1, NoPacketFields
    <2> DEFINE n == Last.nal
    <2>2. n \in Nat /\ (Last = NoPacket \/ n <= 2 * sent - 1) /\ sent \in Nat
      BY <1>1, <1>2
    <2> HIDE DEF n
    <2>3. n <= 2 * sent - 1 => n + 2 <= 2 * (sent + 1) - 1
      BY <2>2
    <2> QED
      BY <2>1, <2>2, <2>3 DEF n
  <1>4. CASE Open(Last)
    <2>1. Last # NoPacket /\ Sendable(Last)
      BY <1>1, <1>4, NoPacketFields
    <2> DEFINE k == Last.part + 1
    <2>2. Last.part \in Nat /\ Last.part <= MaxParts /\ Last.part >= 1 /\ Last.part # MaxParts
      BY <1>1, <1>4, <2>1, PacketFields DEF Sendable, Open
    <2>3. k \in 0 .. MaxParts /\ k >= 1 /\ k \in Nat
      BY <2>2, Constants
    <2> HIDE DEF k
    <2>4. PICK e \in IF k = MaxParts THEN {TRUE} ELSE BOOLEAN :
             p = [at |-> sent + 1, kind |-> "fu", nal |-> Last.nal, part |-> k, e |-> e]
      BY <1>4 DEF NextPackets, Open, k
    <2>5. /\ p.at = sent + 1 /\ p.kind = "fu" /\ p.nal = Last.nal /\ p.part = k /\ p.e = e
          /\ e \in BOOLEAN /\ (k = MaxParts => e = TRUE)
      BY <2>4
    <2>6. Last.nal \in 0 .. 2 * MaxSent
      BY <1>1, PacketFields, Constants DEF Packets
    <2>7. p \in Packets
      BY <1>1, <2>3, <2>4, <2>6 DEF Packets
    <2>8. p.nal <= 2 * p.at - 1 /\ p.at >= 1
      <3> DEFINE n == Last.nal
      <3>1. n \in Nat /\ sent \in Nat /\ n <= 2 * sent - 1
        BY <1>1, <1>2, <2>1
      <3> HIDE DEF n
      <3>2. n <= 2 * (sent + 1) - 1 /\ sent + 1 >= 1
        BY <3>1
      <3> QED
        BY <2>5, <3>2 DEF n
    <2>9. Sendable(p)
      BY <2>3, <2>5, <2>7, <2>8 DEF Sendable
    <2> QED
      BY <1>1, <1>4, <2>5, <2>9 DEF Follows, k
  <1>5. CASE ~Open(Last)
    <2> DEFINE nal == Last.nal + (IF Last.kind = "stap" THEN 2 ELSE 1)
    <2>1. nal \in Nat /\ nal <= 2 * (sent + 1) - 1 /\ nal = Rank(Last) + 1
      <3>1. CASE Last = NoPacket /\ sent = 0
        BY <3>1, NoPacketFields DEF Rank
      <3>2. CASE Last.nal + 2 <= 2 * (sent + 1) - 1
        <4> DEFINE n == Last.nal
        <4>1. n \in Nat /\ n + 2 <= 2 * (sent + 1) - 1 /\ sent \in Nat
          BY <1>1, <1>2, <3>2
        <4>2. nal = (IF Last.kind = "stap" THEN n + 2 ELSE n + 1)
              /\ Rank(Last) = (IF Last.kind = "stap" THEN n + 1 ELSE n + 0)
          BY DEF Rank
        <4> HIDE DEF n, nal
        <4> QED
          BY <4>1, <4>2
      <3> QED
        BY <1>3, <3>1, <3>2
    <2> HIDE DEF nal
    <2>2. PICK k \in {"single", "stap", "fu", "other"} :
             p = [at |-> sent + 1, kind |-> k, nal |-> nal, part |-> 1, e |-> k # "fu"]
      BY <1>5 DEF NextPackets, Open, nal
    <2> DEFINE e == k # "fu"
    <2>3. e \in BOOLEAN /\ (k # "fu" => e) /\ p = [at |-> sent + 1, kind |-> k, nal |-> nal, part |-> 1, e |-> e]
      BY <2>2
    <2> HIDE DEF e
    <2>4. p.at = sent + 1 /\ p.kind = k /\ p.nal = nal /\ p.part = 1 /\ p.e = e
      BY <2>3
    <2>5. nal \in 0 .. 2 * MaxSent /\ 1 \in 0 .. MaxParts /\ 1 # MaxParts
      BY <1>1, <2>1, Constants
    <2>6. p \in Packets
      BY <1>1, <2>3, <2>5 DEF Packets
    <2>7. p.at >= 1
      BY <1>1, <2>4
    <2>8. Sendable(p)
      <3>1. p.part >= 1 /\ p.nal <= 2 * p.at - 1 /\ p.part # MaxParts
        BY <2>1, <2>4, <2>5
      <3>2. p.kind # "fu" => p.part = 1 /\ p.e
        BY <2>3, <2>4
      <3> QED
        BY <2>6, <2>7, <3>1, <3>2 DEF Sendable
    <2> QED
      BY <1>1, <1>5, <2>1, <2>4, <2>8 DEF Follows
  <1> QED
    BY <1>4, <1>5

\* The packets of the window after a send: k of the old ones fell out.
LEMMA SendMoves ==
    ASSUME SenderRight, NEW p \in Packets, Send(p)
    PROVE  /\ past' \in Seq(Packets) /\ past' # <<>>
           /\ \E k \in {0, 1} :
                 /\ Len(past') = Len(past) + 1 - k /\ Len(past') \in 1 .. Window
                 /\ \A i \in 1 .. Len(past') :
                       past'[i] = IF i = Len(past') THEN p ELSE past[i + k]
  <1> DEFINE n == Len(past)
  <1>1. past \in Seq(Packets) /\ n \in Nat /\ n <= Window /\ Window \in Nat /\ Window > 0
    BY LenProperties, Constants DEF SenderRight
  <1>2. CASE n = Window
    <2>1. past' = Append(Tail(past), p) /\ past # <<>>
      BY <1>1, <1>2, EmptySeq DEF Send
    <2> DEFINE t == Tail(past)
    <2>2. t \in Seq(Packets) /\ Len(t) = n - 1 /\ \A i \in 1 .. Len(t) : t[i] = past[i + 1]
      BY <1>1, <2>1, HeadTailProperties
    <2> HIDE DEF t
    <2>3. /\ past' \in Seq(Packets) /\ past' # <<>> /\ Len(past') = Len(t) + 1
          /\ \A i \in 1 .. Len(t) : past'[i] = t[i]
          /\ past'[Len(t) + 1] = p
      BY <2>1, <2>2, AppendProperties DEF t
    <2>4. Len(past') = n + 1 - 1 /\ Len(past') = n
      BY <1>1, <2>2, <2>3
    <2> HIDE DEF n
    <2>5. ASSUME NEW i \in 1 .. Len(past')
          PROVE  past'[i] = IF i = Len(past') THEN p ELSE past[i + 1]
      <3>1. Len(t) + 1 = Len(past') /\ (i # Len(past') => i \in 1 .. Len(t))
        BY <1>1, <2>2, <2>4, <2>5
      <3> QED
        BY <2>2, <2>3, <3>1
    <2>6. Len(past') \in 1 .. Window
      BY <1>1, <1>2, <2>4
    <2> QED
      BY <2>3, <2>4, <2>5, <2>6 DEF n
  <1>3. CASE n # Window
    <2>1. past' = Append(past, p)
      BY <1>3 DEF Send
    <2>2. /\ past' \in Seq(Packets) /\ past' # <<>> /\ Len(past') = n + 1
          /\ \A i \in 1 .. n : past'[i] = past[i]
          /\ past'[n + 1] = p
      BY <1>1, <2>1, AppendProperties
    <2> HIDE DEF n
    <2>3. ASSUME NEW i \in 1 .. Len(past')
          PROVE  past'[i] = IF i = Len(past') THEN p ELSE past[i + 0]
      <3>1. i + 0 = i /\ (i # Len(past') => i \in 1 .. n)
        BY <1>1, <2>2, <2>3
      <3> QED
        BY <2>2, <3>1
    <2>4. Len(past') \in 1 .. Window /\ Len(past') = n + 1 - 0
      BY <1>1, <1>3, <2>2
    <2> QED
      BY <2>2, <2>3, <2>4 DEF n
  <1> QED
    BY <1>2, <1>3

LEMMA RankNumber ==
    ASSUME NEW p \in Packets
    PROVE  Rank(p) \in Nat /\ Rank(p) >= p.nal /\ (Open(p) => Rank(p) = p.nal)
           /\ Rank(p) <= p.nal + 1
  <1> DEFINE n == p.nal
  <1>1. n \in Nat
    BY PacketFields
  <1>2. Rank(p) = (IF p.kind = "stap" THEN n + 1 ELSE n + 0)
    BY DEF Rank
  <1>3. Open(p) => p.kind # "stap"
    BY DEF Open
  <1> HIDE DEF n
  <1>4. Rank(p) \in Nat /\ Rank(p) >= n /\ Rank(p) <= n + 1 /\ (p.kind # "stap" => Rank(p) = n)
    BY <1>1, <1>2
  <1> QED
    BY <1>3, <1>4 DEF n

LEMMA FollowsRank ==
    ASSUME NEW a \in Packets, NEW b \in Packets, Follows(a, b)
    PROVE  /\ b.nal >= Rank(a) /\ Rank(b) >= Rank(a)
           /\ ~Open(a) => b.nal > Rank(a)
           /\ Open(a) => b.nal = a.nal /\ Rank(a) = a.nal
  <1> DEFINE x == Rank(a)
             y == Rank(b)
             n == b.nal
  <1>1. x \in Nat /\ y \in Nat /\ y >= n /\ n \in Nat
    BY RankNumber, PacketFields
  <1>2. Open(a) => n = a.nal /\ x = a.nal
    BY RankNumber DEF Follows
  <1>3. ~Open(a) => n = x + 1
    BY DEF Follows
  <1> HIDE DEF x, y, n
  <1>4. n >= x /\ y >= x /\ (~Open(a) => n > x)
    <2>1. CASE Open(a)
      BY <1>1, <1>2, <2>1
    <2>2. CASE ~Open(a)
      BY <1>1, <1>3, <2>2
    <2> QED
      BY <2>1, <2>2
  <1> QED
    BY <1>2, <1>4 DEF x, y, n

LEMMA SendRight ==
    ASSUME SenderRight, NEW p \in NextPackets, Send(p)
    PROVE  /\ SenderRight' /\ Last' = p /\ sent' = sent + 1 /\ Sendable(p)
           /\ p.at = sent + 1 /\ Follows(Last, p)
           /\ \A i \in 1 .. Len(past') : past'[i] = p \/ (\E j \in 1 .. Len(past) : past'[i] = past[j])
  <1>1. sent < MaxSent /\ sent' = sent + 1 /\ first' = first
    BY DEF Send
  <1>2. Sendable(p) /\ p.at = sent + 1 /\ Follows(Last, p) /\ p \in Packets
    BY <1>1, NextPacket DEF Sendable
  <1>3. PICK k \in {0, 1} :
           /\ Len(past') = Len(past) + 1 - k /\ Len(past') \in 1 .. Window
           /\ \A i \in 1 .. Len(past') : past'[i] = IF i = Len(past') THEN p ELSE past[i + k]
    BY <1>2, SendMoves
  <1>4. past' \in Seq(Packets) /\ past' # <<>>
    BY <1>2, SendMoves
  <1> DEFINE n == Len(past)
             m == Len(past')
  <1>5. n \in Nat /\ m \in Nat /\ m >= 1 /\ m <= Window /\ m = n + 1 - k /\ k \in {0, 1}
    BY <1>3, LenProperties, Constants DEF SenderRight
  <1>6. sent \in Nat /\ sent' \in 0 .. MaxSent
    BY <1>1, Constants DEF SenderRight
  <1> HIDE DEF n, m
  <1>7. \A i \in 1 .. m : i = m \/ i + k \in 1 .. n
    BY <1>5
  <1>8. m \in 1 .. m
    BY <1>5
  <1>9. Last' = p
    BY <1>3, <1>4, <1>8 DEF Last, m
  <1>10. \A i \in 1 .. m : past'[i] = IF i = m THEN p ELSE past[i + k]
    BY <1>3 DEF m
  <1>11. ASSUME NEW i \in 1 .. m
         PROVE  /\ Sendable(past'[i])
                /\ past'[i].at = sent' - m + i
                /\ Rank(past'[i]) <= Rank(p)
                /\ Open(p) /\ ~Open(past'[i]) => Rank(past'[i]) < p.nal
    <2>1. CASE i = m
      <3>1. past'[i] = p
        BY <1>10, <2>1
      <3>2. p.at = sent' - m + i
        BY <1>1, <1>2, <1>5, <1>6, <2>1
      <3>3. Rank(p) <= Rank(p)
        BY <1>2, RankNumber
      <3> QED
        BY <1>2, <3>1, <3>2, <3>3
    <2>2. CASE i # m
      <3> DEFINE o == past[i + k]
      <3>1. past'[i] = o /\ i + k \in 1 .. n
        BY <1>7, <1>10, <2>2
      <3>2. /\ Sendable(o) /\ o.at = sent - n + (i + k) /\ Rank(o) <= Rank(Last)
            /\ Open(Last) /\ ~Open(o) => Rank(o) < Last.nal
        BY <3>1 DEF SenderRight, n
      <3>3. sent - n + (i + k) = sent' - m + i
        BY <1>1, <1>5, <1>6
      <3> HIDE DEF o
      <3>4. o \in Packets /\ Last \in Packets
        BY <3>2, LastPacket DEF Sendable
      <3>5. /\ p.nal >= Rank(Last) /\ Rank(p) >= Rank(Last)
            /\ ~Open(Last) => p.nal > Rank(Last)
            /\ Open(Last) => p.nal = Last.nal
        BY <1>2, <3>4, FollowsRank
      <3> DEFINE x == Rank(o)
                 y == Rank(Last)
                 z == Rank(p)
                 w == p.nal
      <3>6. x \in Nat /\ y \in Nat /\ z \in Nat /\ w \in Nat
        BY <1>2, <3>4, RankNumber, PacketFields
      <3>7. x <= y /\ w >= y /\ z >= y /\ (~Open(Last) => w > y)
            /\ (Open(Last) /\ ~Open(o) => x < w)
        BY <3>2, <3>5
      <3> HIDE DEF x, y, z, w
      <3>8. x <= z
        BY <3>6, <3>7
      <3>9. ~Open(o) => x < w
        <4>1. CASE Open(Last)
          BY <3>7, <4>1
        <4>2. CASE ~Open(Last)
          BY <3>6, <3>7, <4>2
        <4> QED
          BY <4>1, <4>2
      <3> QED
        BY <3>1, <3>2, <3>3, <3>8, <3>9 DEF x, z, w
    <2> QED
      BY <2>1, <2>2
  <1>12. ASSUME NEW i \in 1 .. m - 1
         PROVE  Follows(past'[i], past'[i + 1])
    <2>1. i \in 1 .. m /\ i + 1 \in 1 .. m /\ i # m /\ i + k \in 1 .. n
      BY <1>5, <1>12
    <2>2. past'[i] = past[i + k]
      BY <1>10, <2>1
    <2>3. CASE i + 1 = m
      <3>1. past'[i + 1] = p
        BY <1>10, <2>1, <2>3
      <3>2. i + k = n
        BY <1>5, <1>12, <2>3
      <3>3. past # <<>>
        BY <2>1, <3>2, EmptySeq DEF n
      <3>4. Last = past[n]
        BY <3>3 DEF Last, n
      <3> QED
        BY <1>2, <2>2, <3>1, <3>2, <3>4
    <2>4. CASE i + 1 # m
      <3>1. past'[i + 1] = past[i + 1 + k]
        BY <1>10, <2>1, <2>4
      <3>2. i + k \in 1 .. n - 1 /\ (i + k) + 1 = i + 1 + k
        BY <1>5, <1>12, <2>4
      <3>3. \A j \in 1 .. n - 1 : Follows(past[j], past[j + 1])
        BY DEF SenderRight, n
      <3> QED
        BY <2>2, <3>1, <3>2, <3>3
    <2> QED
      BY <2>3, <2>4
  <1>13. sent' # 0 /\ first' \in FirstSeq
    BY <1>1, <1>6 DEF SenderRight
  <1>14. SenderRight'
    BY <1>4, <1>5, <1>6, <1>9, <1>11, <1>12, <1>13 DEF SenderRight, m
  <1>15. \A i \in 1 .. m : past'[i] = p \/ (\E j \in 1 .. n : past'[i] = past[j])
    BY <1>7, <1>10
  <1> QED
    BY <1>1, <1>2, <1>9, <1>14, <1>15 DEF m, n

-----------------------------------------------------------------------------
(* A datagram arrives                                                      *)

LEMMA GotPacket ==
    ASSUME GotRight
    PROVE  got \in Packets /\ (got # NoPacket => Sendable(got) /\ got.at >= 1)
           /\ (got.at = 0 => got = NoPacket)
  <1>1. CASE got = NoPacket
    BY <1>1, NoPacketFields
  <1>2. CASE got # NoPacket
    <2>1. Sendable(got) /\ got \in Packets /\ got.at >= 1
      BY <1>2 DEF GotRight, Sendable
    <2>2. got.at \in Nat
      BY <2>1, PacketFields
    <2> QED
      BY <2>1, <2>2
  <1> QED
    BY <1>1, <1>2

LEMMA InSequence ==
    ASSUME first \in FirstSeq, GotRight, got # NoPacket, NEW p \in Packets,
           p.at >= got.at - Window + 1, continus(seq(p)), ~WrapGap(p)
    PROVE  p.at = got.at + 1
  <1> DEFINE a == got.at
             b == p.at
             x == seq(got)
             y == seq(p)
             f == first
  <1>1. a \in Nat /\ b \in Nat /\ f \in Nat /\ got \in Packets
    BY GotPacket, SeqRange, PacketFields
  <1>2. x = (f + a - 1) % SeqMod /\ y = (f + b - 1) % SeqMod
    BY DEF seq
  <1>3. y = (x + 1) % SeqMod \/ (y < x + 1 /\ x + 1 - y > Far)
    <2>1. expseq_ = x + 1
      BY DEF GotRight
    <2>2. y = expseq_ % SeqMod \/ (y < expseq_ /\ expseq_ - y > Far)
      BY DEF continus
    <2>3. x \in 0 .. SeqMod - 1 /\ y \in 0 .. SeqMod - 1
      BY <1>1, SeqRange
    <2> HIDE DEF x, y
    <2> QED
      BY <2>1, <2>2, <2>3, Constants
  <1>4. ~(a < b - 1 /\ (y <= x \/ b - a > SeqMod))
    BY DEF WrapGap
  <1>5. b >= a - Window + 1
    OBVIOUS
  <1> HIDE DEF a, b, x, y, f
  <1>6. Window < Far /\ Window < SeqMod /\ Far \in Nat /\ Window \in Nat /\ SeqMod \in Nat \ {0}
    BY Constants
  <1>7. b = a + 1
    BY <1>1, <1>2, <1>3, <1>4, <1>5, <1>6, TakenToFollow
  <1> QED
    BY <1>7 DEF a, b

LEMMA NextContinues ==
    ASSUME first \in FirstSeq, GotRight, got # NoPacket, NEW p \in Packets, p.at = got.at + 1
    PROVE  continus(seq(p))
  <1> DEFINE n == first + got.at - 1
  <1>1. n \in Int /\ first \in Nat /\ got.at \in Nat
    BY GotPacket, SeqRange, PacketFields
  <1>2. seq(got) = n % SeqMod
    BY DEF seq
  <1>3. seq(p) = (n + 1) % SeqMod
    <2>1. first + p.at - 1 = n + 1
      BY <1>1
    <2> QED
      BY <2>1 DEF seq
  <1>4. expseq_ = (n % SeqMod) + 1
    BY <1>2 DEF GotRight
  <1> HIDE DEF n
  <1>5. ((n % SeqMod) + 1) % SeqMod = (n + 1) % SeqMod
    BY <1>1, Constants, NextRemainder
  <1> QED
    BY <1>3, <1>4, <1>5 DEF continus

LEMMA StatisType ==
    ASSUME NEW s \in StatisInfo, NEW q \in 0 .. SeqMod - 1
    PROVE  statis(s, q) \in StatisInfo
  <1>1. 1 \in 0 .. CycMod - 1
    BY Constants
  <1>2. CASE s.cycles = 0
    <2>1. statis(s, q) = [s EXCEPT !.cycles = 1, !.base_seq = q, !.max_seq = q, !.received = 1]
      BY <1>2 DEF statis
    <2> DEFINE t == statis(s, q)
    <2> HIDE DEF t
    <2>2. t = [s EXCEPT !.cycles = 1, !.base_seq = q, !.max_seq = q, !.received = 1]
      BY <2>1 DEF t
    <2>3. t = [cycles |-> 1, base_seq |-> q, max_seq |-> q, received |-> 1,
               expected_prior |-> s.expected_prior, received_prior |-> s.received_prior]
      BY <2>2 DEF StatisInfo
    <2>4. s.expected_prior \in 0 .. Word - 1 /\ s.received_prior \in Nat
      BY DEF StatisInfo
    <2>5. t \in StatisInfo
      BY <1>1, <2>3, <2>4 DEF StatisInfo
    <2> QED
      BY <2>5 DEF t
  <1>3. CASE s.cycles # 0 /\ q < s.max_seq /\ s.max_seq - q < Near
    BY <1>3 DEF statis
  <1>4. CASE s.cycles # 0 /\ ~(q < s.max_seq /\ s.max_seq - q < Near)
    <2> DEFINE c == IF q < s.max_seq THEN (s.cycles + 1) % CycMod ELSE s.cycles
               r == s.received + 1
    <2>1. statis(s, q) = [s EXCEPT !.cycles = c, !.max_seq = q, !.received = r]
      BY <1>4 DEF statis
    <2>2. s.cycles \in 0 .. CycMod - 1 /\ s.received \in Nat
      BY DEF StatisInfo
    <2>3. (s.cycles + 1) % CycMod \in 0 .. CycMod - 1
      <3> DEFINE n == s.cycles + 1
      <3>1. n \in Int /\ CycMod \in Nat \ {0}
        BY <2>2, Constants
      <3> HIDE DEF n
      <3>2. n % CycMod \in 0 .. CycMod - 1
        BY <3>1, Division
      <3> QED
        BY <3>2 DEF n
    <2>4. c \in 0 .. CycMod - 1 /\ r \in Nat
      BY <2>2, <2>3
    <2> HIDE DEF c, r
    <2> QED
      BY <2>1, <2>4 DEF StatisInfo
  <1> QED
    BY <1>2, <1>3, <1>4

\* The fragments after p was put to those of bufp_.
With(p) == IF p.part = 1 THEN <<Piece(p)>> ELSE Append(bufp_, Piece(p))

LEMMA WithPiece ==
    ASSUME bufp_ \in Seq(Pieces), NEW p, Sendable(p)
    PROVE  /\ Piece(p) \in Pieces
           /\ With(p) \in Seq(Pieces) /\ With(p) # <<>>
           /\ p.part = 1 => Len(With(p)) = 1 /\ With(p)[1] = Piece(p)
           /\ p.part # 1 => /\ Len(With(p)) = Len(bufp_) + 1
                            /\ \A i \in 1 .. Len(bufp_) : With(p)[i] = bufp_[i]
                            /\ With(p)[Len(bufp_) + 1] = Piece(p)
  <1>1. Piece(p) \in Pieces
    <2>1. p.nal \in 0 .. 2 * MaxSent /\ p.e \in BOOLEAN
      BY DEF Sendable, Packets
    <2>2. p.part \in 1 .. MaxParts
      <3> DEFINE n == p.part
      <3>1. n \in Nat /\ n >= 1 /\ n <= MaxParts
        BY PacketFields DEF Sendable
      <3> HIDE DEF n
      <3>2. n \in 1 .. MaxParts
        BY <3>1, Constants
      <3> QED
        BY <3>2 DEF n
    <2> DEFINE g == p.part > 1 /\ WrapGap(p)
    <2>3. g \in BOOLEAN
      BY DEF WrapGap
    <2>4. Piece(p) = [nal |-> p.nal, part |-> p.part, e |-> p.e, gap |-> g]
      BY DEF Piece
    <2> HIDE DEF g
    <2> QED
      BY <2>1, <2>2, <2>3, <2>4 DEF Pieces
  <1> DEFINE x == Piece(p)
  <1> HIDE DEF x
  <1>2. CASE p.part = 1
    <2>1. With(p) = <<x>> /\ x \in Pieces
      BY <1>1, <1>2 DEF With, x
    <2> QED
      BY <1>1, <1>2, <2>1 DEF x
  <1>3. CASE p.part # 1
    <2>1. With(p) = Append(bufp_, x) /\ x \in Pieces
      BY <1>1, <1>3 DEF With, x
    <2> QED
      BY <1>1, <1>3, <2>1, AppendProperties DEF x
  <1> QED
    BY <1>2, <1>3

\* What holds of bufp_ with one more fragment.
LEMMA WithRight ==
    ASSUME first \in FirstSeq, GotRight, BufferRight, NEW p, Sendable(p), p.kind = "fu",
           p.at >= got.at - Window + 1, p.at = got.at + 1 => Follows(got, p),
           p.part = 1 \/ (continus(seq(p)) /\ bufp_ # <<>>)
    PROVE  /\ \/ Glued(With(p))
              \/ /\ Len(With(p)) = p.part
                 /\ \A i \in 1 .. Len(With(p)) :
                       /\ With(p)[i].nal = p.nal /\ With(p)[i].part = i
                       /\ With(p)[i].e = (p.e /\ i = Len(With(p)))
           /\ p.part > 1 /\ Begun(bufp_, got) /\ p.at = got.at + 1 =>
                 /\ Len(With(p)) = p.part
                 /\ \A i \in 1 .. Len(With(p)) :
                       /\ With(p)[i].nal = p.nal /\ With(p)[i].part = i
                       /\ With(p)[i].e = (p.e /\ i = Len(With(p)))
  <1> DEFINE b == With(p)
             Right == /\ Len(b) = p.part
                      /\ \A i \in 1 .. Len(b) :
                            /\ b[i].nal = p.nal /\ b[i].part = i
                            /\ b[i].e = (p.e /\ i = Len(b))
  <1>1. bufp_ \in Seq(Pieces) /\ Len(bufp_) \in Nat
    BY LenProperties DEF BufferRight
  <1>2. /\ b \in Seq(Pieces)
        /\ p.part = 1 => Len(b) = 1 /\ b[1] = Piece(p)
        /\ p.part # 1 => /\ Len(b) = Len(bufp_) + 1
                         /\ \A i \in 1 .. Len(bufp_) : b[i] = bufp_[i]
                         /\ b[Len(bufp_) + 1] = Piece(p)
    BY <1>1, WithPiece
  <1>3. /\ Piece(p).nal = p.nal /\ Piece(p).part = p.part /\ Piece(p).e = p.e
        /\ Piece(p).gap = (p.part > 1 /\ WrapGap(p))
    BY DEF Piece
  <1>4. p.part \in Nat /\ p.part >= 1 /\ p \in Packets /\ p.at \in Nat /\ p.e \in BOOLEAN
    BY PacketFields DEF Sendable
  <1> HIDE DEF b
  <1>5. DOMAIN b = 1 .. Len(b) /\ DOMAIN bufp_ = 1 .. Len(bufp_)
    BY <1>1, <1>2, LenProperties
  <1>6. CASE p.part = 1
    <2>1. \A i \in 1 .. Len(b) : i = 1 /\ i = Len(b)
      <3> DEFINE n == Len(b)
      <3>1. n = 1
        BY <1>2, <1>6
      <3> HIDE DEF n
      <3>2. \A i \in 1 .. n : i = 1 /\ i = n
        BY <3>1
      <3> QED
        BY <3>2 DEF n
    <2>2. Right
      BY <1>2, <1>3, <1>4, <1>6, <2>1
    <2> QED
      BY <1>6, <2>2 DEF b
  <1>7. CASE p.part # 1
    <2>1. continus(seq(p)) /\ bufp_ # <<>> /\ got # NoPacket
      BY <1>7 DEF BufferRight
    <2>2. p.part > 1
      BY <1>4, <1>7
    <2>3. ASSUME Begun(bufp_, got), p.at = got.at + 1 PROVE Right
      <3>1. Open(got) /\ p.nal = got.nal /\ p.part = got.part + 1
        BY <1>7, <2>3 DEF Follows
      <3>2. Len(bufp_) = got.part
            /\ \A i \in 1 .. Len(bufp_) : bufp_[i].nal = got.nal /\ bufp_[i].part = i /\ ~bufp_[i].e
        BY <2>3 DEF Begun
      <3> DEFINE n == Len(bufp_)
      <3>3. n \in Nat /\ Len(b) = n + 1 /\ p.part = n + 1
        BY <1>1, <1>2, <1>7, <3>1, <3>2
      <3>4. ASSUME NEW i \in 1 .. Len(b)
            PROVE  b[i].nal = p.nal /\ b[i].part = i /\ b[i].e = (p.e /\ i = Len(b))
        <4>1. CASE i = n + 1
          <5>1. b[i] = Piece(p) /\ i = Len(b)
            BY <1>2, <1>7, <3>3, <4>1
          <5> QED
            BY <1>3, <1>4, <3>3, <4>1, <5>1
        <4>2. CASE i # n + 1
          <5>1. i \in 1 .. n /\ i # Len(b)
            BY <3>3, <4>2
          <5>2. b[i] = bufp_[i]
            BY <1>2, <1>7, <5>1
          <5>3. bufp_[i].nal = p.nal /\ bufp_[i].part = i /\ ~bufp_[i].e
            BY <3>1, <3>2, <5>1
          <5>4. bufp_[i] \in Pieces /\ bufp_[i].e \in BOOLEAN
            <6>1. bufp_[i] \in Pieces
              BY <1>1, <5>1, ElementOfSeq
            <6> QED
              BY <6>1 DEF Pieces
          <5> QED
            BY <5>1, <5>2, <5>3, <5>4
        <4> QED
          BY <4>1, <4>2
      <3> QED
        BY <3>3, <3>4
    <2>4. CASE WrapGap(p)
      <3>1. Len(b) \in 1 .. Len(b) /\ b[Len(b)] = Piece(p)
        BY <1>1, <1>2, <1>7
      <3>2. b[Len(b)].gap
        BY <1>3, <2>2, <2>4, <3>1
      <3>3. Glued(b)
        BY <1>5, <3>1, <3>2 DEF Glued
      <3> QED
        BY <2>3, <3>3 DEF b
    <2>5. CASE ~WrapGap(p)
      <3>1. p.at = got.at + 1
        BY <1>4, <2>1, <2>5, InSequence
      <3>2. Open(got)
        BY <1>7, <3>1 DEF Follows
      <3>3. Begun(bufp_, got) \/ Glued(bufp_)
        BY <2>1, <3>2 DEF BufferRight
      <3>4. CASE Glued(bufp_)
        <4>1. PICK i \in 1 .. Len(bufp_) : bufp_[i].gap
          BY <1>5, <3>4 DEF Glued
        <4>2. b[i].gap /\ i \in 1 .. Len(b)
          BY <1>1, <1>2, <1>7, <4>1
        <4>3. Glued(b)
          BY <1>5, <4>2 DEF Glued
        <4> QED
          BY <2>3, <4>3 DEF b
      <3>5. CASE Begun(bufp_, got)
        BY <2>3, <3>1, <3>5 DEF b
      <3> QED
        BY <3>3, <3>4, <3>5
    <2> QED
      BY <2>4, <2>5
  <1> QED
    BY <1>6, <1>7

\* What the arrival of p leaves behind, r being the packets in sequence up to p.
Arrived(p, r) ==
    /\ bufp_' \in Seq(Pieces)
    /\ Open(p) /\ bufp_' # <<>> => Begun(bufp_', p) \/ Glued(bufp_')
    /\ Open(p) /\ r >= p.part => Begun(bufp_', p)
    /\ sink' \in SinkInfo
    /\ \/ sink' = sink
       \/ sink'.gap
       \/ sink'.ok /\ ~Open(p) /\ sink'.nal = Rank(p)
    /\ p.kind = "fu" /\ p.e /\ r >= p.part => sink'.nal = p.nal /\ sink'.ok
    /\ rtpsi_' \in StatisInfo /\ took' \in BOOLEAN

\* b is one whole NAL unit, or was glued.
LEMMA CommitRight ==
    ASSUME NEW b \in Seq(Pieces), b # <<>>
    PROVE  /\ Committed(b) \in SinkInfo /\ Committed(b).nal = b[1].nal
           /\ Glued(b) => Committed(b).gap
           /\ Whole(b) => Committed(b).ok
  <1>1. Len(b) \in Nat \ {0} /\ DOMAIN b = 1 .. Len(b)
    BY EmptySeq, LenProperties
  <1>2. b[1] \in Pieces
    BY <1>1, ElementOfSeq
  <1> DEFINE w == Whole(b)
             g == Glued(b)
  <1>3. w \in BOOLEAN /\ g \in BOOLEAN
    BY DEF Whole, Glued
  <1>4. Committed(b) = [nal |-> b[1].nal, ok |-> w, gap |-> g]
    BY DEF Committed, Glued
  <1>5. b[1].nal \in 0 .. 2 * MaxSent
    BY <1>2 DEF Pieces
  <1> HIDE DEF w, g
  <1>6. /\ Committed(b) \in SinkInfo /\ Committed(b).nal = b[1].nal
        /\ Committed(b).gap = g /\ Committed(b).ok = w
    BY <1>3, <1>4, <1>5 DEF SinkInfo
  <1> QED
    BY <1>3, <1>6 DEF w, g

LEMMA FragmentArrives ==
    ASSUME first \in FirstSeq, GotRight, BufferRight, sink \in SinkInfo, rtpsi_ \in StatisInfo,
           NEW p, Sendable(p), p.kind = "fu", Fragment(p),
           p.at >= got.at - Window + 1, p.at = got.at + 1 => Follows(got, p),
           NEW r, r >= p.part /\ p.part > 1 => p.at = got.at + 1 /\ run >= p.part - 1
    PROVE  Arrived(p, r)
  <1> DEFINE taken == p.part = 1 \/ (continus(seq(p)) /\ bufp_ # <<>>)
             b == With(p)
             Right == /\ Len(b) = p.part
                      /\ \A i \in 1 .. Len(b) :
                            /\ b[i].nal = p.nal /\ b[i].part = i
                            /\ b[i].e = (p.e /\ i = Len(b))
  <1>1. /\ took' = taken
        /\ IF taken
           THEN /\ rtpsi_' = statis(rtpsi_, seq(p))
                /\ bufp_' = IF p.e THEN <<>> ELSE b
                /\ sink' = IF p.e THEN Committed(b) ELSE sink
           ELSE /\ bufp_' = IF continus(seq(p)) THEN bufp_ ELSE <<>>
                /\ UNCHANGED <<sink, rtpsi_>>
    BY DEF Fragment, With
  <1>2. taken \in BOOLEAN
    BY DEF continus
  <1>3. p.part \in Nat /\ p.part >= 1 /\ p \in Packets /\ p.e \in BOOLEAN /\ p.at \in Nat
    BY PacketFields DEF Sendable
  <1>4. bufp_ \in Seq(Pieces) /\ <<>> \in Seq(Pieces)
    BY EmptySeq DEF BufferRight
  <1>5. Open(p) <=> ~p.e
    BY DEF Open
  <1>6. b \in Seq(Pieces) /\ b # <<>>
    BY <1>4, WithPiece
  <1>7. taken => Glued(b) \/ Right
    BY WithRight
  <1>8. taken /\ p.part > 1 /\ Begun(bufp_, got) /\ p.at = got.at + 1 => Right
    BY WithRight
  <1>9. Rank(p) = p.nal
    BY <1>3 DEF Rank, Packets
  <1>10. p.part = 1 => Right
    <2>1. SUFFICES ASSUME p.part = 1 PROVE Right
      OBVIOUS
    <2>2. Len(b) = 1 /\ b[1] = Piece(p)
      BY <1>4, <2>1, WithPiece
    <2>3. Piece(p).nal = p.nal /\ Piece(p).part = 1 /\ Piece(p).e = p.e
      BY <2>1 DEF Piece
    <2> HIDE DEF b
    <2>4. \A i \in 1 .. Len(b) : i = 1 /\ i = Len(b)
      <3> DEFINE n == Len(b)
      <3>1. n = 1
        BY <2>2
      <3> HIDE DEF n
      <3>2. \A i \in 1 .. n : i = 1 /\ i = n
        BY <3>1
      <3> QED
        BY <3>2 DEF n
    <2> QED
      BY <1>3, <2>1, <2>2, <2>3, <2>4
  <1>11. r >= p.part /\ p.part > 1 => taken /\ Begun(bufp_, got) /\ p.at = got.at + 1
    <2>1. SUFFICES ASSUME r >= p.part, p.part > 1
                   PROVE  taken /\ Begun(bufp_, got) /\ p.at = got.at + 1
      OBVIOUS
    <2>2. p.at = got.at + 1 /\ run >= p.part - 1 /\ Follows(got, p)
      BY <2>1
    <2>3. Open(got) /\ p.part = got.part + 1
      BY <2>1 , <2>2 DEF Follows
    <2>4. got \in Packets /\ got # NoPacket /\ Sendable(got) /\ got.part \in Nat /\ got.part >= 1
      BY <2>3, GotPacket, NoPacketFields, PacketFields DEF Sendable
    <2>5. p.part - 1 = got.part
      BY <2>3, <2>4
    <2>6. Begun(bufp_, got)
      BY <2>2, <2>3, <2>5 DEF BufferRight
    <2>7. bufp_ # <<>>
      <3>1. Len(bufp_) # 0
        BY <2>4, <2>6 DEF Begun
      <3> QED
        BY <3>1, EmptySeq
    <2>8. continus(seq(p))
      BY <1>3, <2>2, <2>4, NextContinues
    <2> QED
      BY <2>2, <2>6, <2>7, <2>8
  <1>12. r >= p.part => taken /\ Right
    <2>1. p.part = 1 \/ p.part > 1
      BY <1>3
    <2> HIDE DEF Right
    <2> QED
      BY <1>8, <1>10, <1>11, <2>1
  <1>13. Right /\ ~p.e => Begun(b, p)
    BY DEF Begun
  <1>14. Right /\ p.e => Whole(b) /\ b[1].nal = p.nal
    <2>1. SUFFICES ASSUME Right, p.e PROVE Whole(b) /\ b[1].nal = p.nal
      OBVIOUS
    <2>2. DOMAIN b = 1 .. Len(b)
      BY <1>6, LenProperties
    <2>3. Len(b) = p.part /\ 1 \in 1 .. Len(b)
      BY <1>3, <2>1
    <2> HIDE DEF b
    <2> QED
      BY <2>1, <2>2, <2>3 DEF Whole
  <1>15. /\ Committed(b) \in SinkInfo /\ Committed(b).nal = b[1].nal
         /\ Glued(b) => Committed(b).gap
         /\ Whole(b) => Committed(b).ok
    BY <1>6, CommitRight
  <1>16. rtpsi_' \in StatisInfo
    <2>1. seq(p) \in 0 .. SeqMod - 1
      BY <1>3, SeqRange
    <2>2. statis(rtpsi_, seq(p)) \in StatisInfo
      BY <2>1, StatisType
    <2> QED
      BY <1>1, <2>2
  <1> HIDE DEF taken, b, Right
  <1>17. CASE taken /\ p.e
    <2>1. bufp_' = <<>> /\ sink' = Committed(b)
      BY <1>1, <1>17
    <2>2. sink'.gap \/ (sink'.ok /\ sink'.nal = Rank(p))
      BY <1>7, <1>9, <1>14, <1>15, <1>17, <2>1
    <2>3. r >= p.part => sink'.nal = p.nal /\ sink'.ok
      BY <1>12, <1>14, <1>15, <1>17, <2>1
    <2> QED
      BY <1>1, <1>2, <1>4, <1>5, <1>15, <1>16, <1>17, <2>1, <2>2, <2>3 DEF Arrived
  <1>18. CASE taken /\ ~p.e
    <2>1. bufp_' = b /\ sink' = sink
      BY <1>1, <1>18
    <2>2. Begun(b, p) \/ Glued(b)
      BY <1>7, <1>13, <1>18
    <2>3. r >= p.part => Begun(b, p)
      BY <1>12, <1>13, <1>18
    <2> QED
      BY <1>1, <1>2, <1>5, <1>6, <1>16, <1>18, <2>1, <2>2, <2>3 DEF Arrived
  <1>19. CASE ~taken
    <2>1. bufp_' = <<>> /\ sink' = sink
      BY <1>1, <1>19 DEF taken
    <2>2. ~(r >= p.part)
      BY <1>12, <1>19
    <2> QED
      BY <1>1, <1>2, <1>4, <1>16, <2>1, <2>2 DEF Arrived
  <1> QED
    BY <1>2, <1>17, <1>18, <1>19

LEMMA DatagramArrives ==
    ASSUME first \in FirstSeq, GotRight, BufferRight, sink \in SinkInfo, rtpsi_ \in StatisInfo,
           NEW p, Sendable(p), handle_datagram(p),
           p.at >= got.at - Window + 1, p.at = got.at + 1 => Follows(got, p),
           NEW r, r >= p.part /\ p.part > 1 => p.at = got.at + 1 /\ run >= p.part - 1
    PROVE  Arrived(p, r)
  <1>1. nalu_incoming(p)
    BY DEF handle_datagram
  <1>2. CASE p.kind = "fu"
    <2>1. Fragment(p)
      BY <1>1, <1>2 DEF nalu_incoming
    <2> QED
      BY <1>2, <2>1, FragmentArrives
  <1>3. CASE p.kind \in {"single", "stap"}
    <2> DEFINE n == p.nal + (IF p.kind = "stap" THEN 1 ELSE 0)
    <2>1. /\ sink' = [nal |-> n, ok |-> TRUE, gap |-> FALSE]
          /\ took' = FALSE /\ bufp_' = bufp_ /\ rtpsi_' = rtpsi_
      BY <1>1, <1>3 DEF nalu_incoming
    <2>2. n = Rank(p) /\ ~Open(p) /\ p.kind # "fu"
      BY <1>3 DEF Rank, Open
    <2>3. Rank(p) \in 0 .. 2 * MaxSent
      <3> DEFINE k == p.nal
                 a == p.at
                 x == Rank(p)
      <3>1. p \in Packets /\ k <= 2 * a - 1
        BY DEF Sendable
      <3>2. a \in Nat /\ a <= MaxSent /\ k \in Nat /\ x \in Nat /\ x <= k + 1
        BY <3>1, PacketFields, RankNumber
      <3> HIDE DEF k, a, x
      <3>3. x \in 0 .. 2 * MaxSent
        BY <3>1, <3>2, Constants
      <3> QED
        BY <3>3 DEF x
    <2> HIDE DEF n
    <2>4. sink' \in SinkInfo /\ sink'.ok /\ sink'.nal = Rank(p)
      BY <2>1, <2>2, <2>3 DEF SinkInfo
    <2> QED
      BY <2>1, <2>2, <2>4 DEF Arrived, BufferRight
  <1>4. CASE p.kind = "other"
    <2>1. took' = FALSE /\ bufp_' = bufp_ /\ sink' = sink /\ rtpsi_' = rtpsi_
      BY <1>1, <1>4 DEF nalu_incoming
    <2>2. ~Open(p) /\ p.kind # "fu"
      BY <1>4 DEF Open
    <2> QED
      BY <2>1, <2>2 DEF Arrived, BufferRight
  <1> QED
    BY <1>2, <1>3, <1>4 DEF Sendable, Packets

LEMMA ArrivedRight ==
    ASSUME NEW p, Sendable(p), got' = p, Arrived(p, run'), WholeNal
    PROVE  BufferRight' /\ UnhurtCommitted' /\ WholeNal'
  <1>1. got' # NoPacket
    <2>1. p.at >= 1 /\ p.at \in Nat
      BY PacketFields DEF Sendable
    <2> QED
      BY <2>1, NoPacketFields
  <1>2. BufferRight'
    BY <1>1 DEF Arrived, BufferRight
  <1>3. UnhurtCommitted'
    BY DEF Arrived, UnhurtCommitted
  <1>4. WholeNal'
    BY DEF Arrived, WholeNal
  <1> QED
    BY <1>2, <1>3, <1>4

LEMMA GotThenNext ==
    ASSUME SenderRight, GotRight, NEW p, Follows(Last, p), got.at = sent
    PROVE  Follows(got, p)
  <1>1. CASE past = <<>>
    <2>1. got = NoPacket
      BY <1>1, GotPacket DEF SenderRight
    <2> QED
      BY <1>1, <2>1, LastPacket
  <1>2. CASE past # <<>>
    <2>1. Len(past) \in 1 .. Len(past) /\ Last = past[Len(past)] /\ Last.at = sent
      BY <1>2, LastPacket
    <2>2. past[Len(past)] = got
      BY <2>1 DEF GotRight
    <2> QED
      BY <2>1, <2>2
  <1> QED
    BY <1>1, <1>2

\* What comes next is beyond what the sink has got.
LEMMA SinkBefore ==
    ASSUME SenderRight, SinkRight, sink \in SinkInfo, NEW p \in Packets, Follows(Last, p), ~sink.gap
    PROVE  sink.nal < p.nal
  <1> DEFINE x == sink.nal
             y == Rank(Last)
             n == p.nal
  <1>1. x <= y /\ (Open(Last) => x < Last.nal)
    BY DEF SinkRight
  <1>2. /\ Last \in Packets
        /\ ~Open(Last) => n > y
        /\ Open(Last) => n = Last.nal
    BY LastPacket, FollowsRank
  <1>3. x \in 0 .. 2 * MaxSent /\ y \in Nat /\ n \in Nat
    BY <1>2, RankNumber, PacketFields DEF SinkInfo
  <1>4. x \in Nat
    BY <1>3
  <1> HIDE DEF x, y, n
  <1>5. x < n
    <2>1. CASE Open(Last)
      BY <1>1, <1>2, <2>1
    <2>2. CASE ~Open(Last)
      BY <1>1, <1>2, <1>3, <1>4, <2>2
    <2> QED
      BY <2>1, <2>2
  <1> QED
    BY <1>5 DEF x, n

LEMMA SinkAfter ==
    ASSUME SenderRight, GotRight, SinkRight, sink \in SinkInfo, NEW p \in NextPackets, Send(p),
           Arrived(p, run') \/ sink' = sink
    PROVE  SinkRight' /\ (sink' # sink => sink'.nal > sink.nal \/ sink.gap \/ sink'.gap)
  <1>1. Sendable(p) /\ Last' = p /\ Follows(Last, p) /\ p \in Packets
    BY SendRight DEF Sendable
  <1> DEFINE x == sink.nal
             y == Rank(p)
             n == p.nal
  <1>2. sink.gap \/ x < n
    BY <1>1, SinkBefore
  <1>3. y \in Nat /\ n \in Nat /\ y >= n /\ (~Open(p) \/ y = n)
    BY <1>1, RankNumber, PacketFields
  <1>4. x \in Nat
    <2>1. x \in 0 .. 2 * MaxSent
      BY DEF SinkInfo
    <2> QED
      BY <2>1
  <1>5. sink' = sink \/ sink'.gap \/ (~Open(p) /\ sink'.nal = y)
    BY DEF Arrived
  <1> HIDE DEF x, y, n
  <1>6. sink.gap \/ (x < n /\ x <= y /\ y > x)
    BY <1>2, <1>3, <1>4
  <1>7. y <= y
    BY <1>3
  <1>8. SinkRight'
    BY <1>1, <1>5, <1>6, <1>7 DEF SinkRight, x, y, n
  <1>9. sink' # sink => sink'.nal > sink.nal \/ sink.gap \/ sink'.gap
    BY <1>5, <1>6 DEF x
  <1> QED
    BY <1>8, <1>9

LEMMA DeliverStep ==
    ASSUME RtpInv, Deliver
    PROVE  RtpInv' /\ (sink' # sink => sink'.nal > sink.nal \/ sink.gap \/ sink'.gap)
  <1>1. PICK p \in NextPackets :
           /\ Send(p) /\ Came(p)
           /\ run' = IF got.at # p.at - 1 THEN 1 ELSE IF run < MaxParts THEN run + 1 ELSE run
           /\ clean' = (clean /\ took' /\ rtpsi_.cycles # 0)
           /\ UNCHANGED <<zeroed, late>>
    BY DEF Deliver
  <1>2. SenderRight /\ GotRight /\ BufferRight /\ SinkRight /\ CountersRight /\ WholeNal
        /\ first \in FirstSeq /\ sink \in SinkInfo /\ rtpsi_ \in StatisInfo
    BY DEF RtpInv, SenderRight, CountersRight
  <1>3. /\ SenderRight' /\ Last' = p /\ sent' = sent + 1 /\ Sendable(p)
        /\ p.at = sent + 1 /\ Follows(Last, p) /\ first' = first
    BY <1>1, <1>2, SendRight DEF Send
  <1>4. p \in Packets /\ p.at \in Nat /\ p.part \in Nat /\ p.part >= 1 /\ p.part <= MaxParts
        /\ p.at >= 1
    BY <1>3, PacketFields DEF Sendable
  <1>5. got.at \in Nat /\ sent \in Nat /\ got.at <= sent
    <2>1. got \in Packets
      BY <1>2, GotPacket
    <2>2. sent \in Nat
      BY <1>2, Constants DEF SenderRight
    <2> QED
      BY <1>2, <2>1, <2>2, PacketFields DEF GotRight
  <1>6. p.at >= got.at - Window + 1
    BY <1>3, <1>5, Constants
  <1>7. p.at = got.at + 1 => Follows(got, p)
    <2>1. SUFFICES ASSUME p.at = got.at + 1 PROVE Follows(got, p)
      OBVIOUS
    <2>2. got.at = sent
      BY <1>3, <1>5, <2>1
    <2> QED
      BY <1>2, <1>3, <2>2, GotThenNext
  <1>8. handle_datagram(p) /\ got' = p /\ UNCHANGED report
    BY <1>1 DEF Came
  <1>9. run \in Nat /\ run <= MaxParts
    BY <1>2, Constants DEF CountersRight
  <1>10. run' \in 0 .. MaxParts
    BY <1>1, <1>9, Constants
  <1>11. run' >= p.part /\ p.part > 1 => p.at = got.at + 1 /\ run >= p.part - 1
    <2> DEFINE k == p.part
               a == got.at
               c == p.at
    <2>1. k \in Nat /\ k <= MaxParts /\ a \in Nat /\ c \in Nat
      BY <1>4, <1>5
    <2>2. run' = IF a # c - 1 THEN 1 ELSE IF run < MaxParts THEN run + 1 ELSE run
      BY <1>1
    <2> HIDE DEF k, a, c
    <2>3. run' >= k /\ k > 1 => c = a + 1 /\ run >= k - 1
      BY <1>9, <2>1, <2>2, Constants
    <2> QED
      BY <2>3 DEF k, a, c
  <1>12. Arrived(p, run')
    BY <1>2, <1>3, <1>6, <1>7, <1>8, <1>11, DatagramArrives
  <1>13. BufferRight' /\ UnhurtCommitted' /\ WholeNal'
    BY <1>2, <1>3, <1>8, <1>12, ArrivedRight
  <1>14. SinkRight' /\ (sink' # sink => sink'.nal > sink.nal \/ sink.gap \/ sink'.gap)
    BY <1>1, <1>2, <1>12, SinkAfter
  <1>15. CountersRight'
    <2>1. clean' \in BOOLEAN
      BY <1>1, <1>2, <1>12 DEF CountersRight, Arrived
    <2> QED
      BY <1>1, <1>2, <1>8, <1>10, <1>12, <2>1 DEF CountersRight, Arrived, report
  <1>16. GotRight'
    <2>1. expseq_' = seq(p) + 1 /\ seq(p)' = seq(p) /\ seq(p) \in 0 .. SeqMod - 1
      BY <1>2, <1>3, <1>4, <1>8, SeqRange DEF handle_datagram, seq
    <2>2. seq(got)' = seq(p)
      BY <1>3, <1>8 DEF seq
    <2>3. expseq_' \in 0 .. SeqMod
      BY <2>1, Constants
    <2>4. ASSUME NEW i \in 1 .. Len(past')
          PROVE  /\ past'[i].at = p.at => past'[i] = p
                 /\ past'[i].at # p.at + 1
      <3> DEFINE m == Len(past')
      <3>1. past'[i].at = sent' - m + i
        BY <1>3 DEF SenderRight
      <3>2. past' \in Seq(Packets) /\ m \in Nat
        BY <1>3, LenProperties DEF SenderRight
      <3>3. past' # <<>>
        BY <1>3, <1>5 DEF SenderRight
      <3>4. p = past'[m]
        BY <1>3, <3>3 DEF Last
      <3>5. i = m \/ i < m
        BY <3>2
      <3> HIDE DEF m
      <3>6. sent' = p.at /\ sent' \in Nat
        BY <1>3, <1>5
      <3>7. i \in Nat /\ i <= m
        BY <2>4, <3>2 DEF m
      <3>8. past'[i].at = p.at => i = m
        BY <3>1, <3>2, <3>6, <3>7
      <3>9. past'[i].at # p.at + 1
        BY <3>1, <3>2, <3>6, <3>7
      <3> QED
        BY <3>4, <3>8, <3>9
    <2>5. p.at <= sent'
      BY <1>3, <1>4
    <2> QED
      BY <1>3, <1>8, <2>1, <2>2, <2>3, <2>4, <2>5 DEF GotRight, Sendable
  <1> QED
    BY <1>3, <1>13, <1>14, <1>15, <1>16 DEF RtpInv

LEMMA LoseStep ==
    ASSUME RtpInv, Lose
    PROVE  RtpInv' /\ sink' = sink
  <1>1. PICK p \in NextPackets :
           /\ Send(p) /\ run' = 0 /\ clean' = FALSE
           /\ UNCHANGED <<assembly, rtpsi_, report, zeroed, late, got, took>>
    BY DEF Lose
  <1>2. SenderRight /\ GotRight /\ BufferRight /\ SinkRight /\ CountersRight /\ WholeNal
        /\ sink \in SinkInfo
    BY DEF RtpInv, CountersRight
  <1>3. /\ UNCHANGED <<expseq_, bufp_, sink, rtpsi_, due, rr_, zeroed, late, got, took, first>>
    BY <1>1 DEF assembly, report, Send
  <1>4. /\ SenderRight' /\ sent' = sent + 1 /\ p.at = sent + 1 /\ Follows(Last, p)
        /\ \A i \in 1 .. Len(past') : past'[i] = p \/ (\E j \in 1 .. Len(past) : past'[i] = past[j])
    BY <1>1, <1>2, SendRight
  <1>5. got.at \in Nat /\ sent \in Nat /\ got.at <= sent /\ got \in Packets
    <2>1. got \in Packets
      BY <1>2, GotPacket
    <2>2. sent \in Nat
      BY <1>2, Constants DEF SenderRight
    <2> QED
      BY <1>2, <2>1, <2>2, PacketFields DEF GotRight
  <1>6. GotRight'
    <2>1. seq(got)' = seq(got)
      BY <1>3 DEF seq
    <2>2. got.at <= sent'
      BY <1>4, <1>5
    <2>3. p.at # got.at
      BY <1>4, <1>5
    <2>4. p.at = got.at + 1 => Follows(got, p)
      <3>1. p.at = got.at + 1 => got.at = sent
        BY <1>4, <1>5
      <3> QED
        BY <1>2, <1>4, <3>1, GotThenNext
    <2>5. ASSUME NEW i \in 1 .. Len(past')
          PROVE  /\ past'[i].at = got.at => past'[i] = got
                 /\ past'[i].at = got.at + 1 => Follows(got, past'[i])
      <3>1. CASE past'[i] = p
        BY <2>3, <2>4, <3>1
      <3>2. CASE \E j \in 1 .. Len(past) : past'[i] = past[j]
        BY <1>2, <3>2 DEF GotRight
      <3> QED
        BY <1>4, <3>1, <3>2
    <2> QED
      BY <1>2, <1>3, <2>1, <2>2, <2>5 DEF GotRight, Sendable
  <1>7. got.kind = "fu" => ~(run' >= got.part)
    <2>1. SUFFICES ASSUME got.kind = "fu" PROVE ~(run' >= got.part)
      OBVIOUS
    <2>2. Sendable(got)
      BY <1>2, <2>1, GotPacket, NoPacketFields
    <2>3. got.part >= 1 /\ got.part \in Nat
      BY <1>5, <2>2, PacketFields DEF Sendable
    <2> QED
      BY <1>1, <2>3
  <1>8. BufferRight' /\ UnhurtCommitted'
    BY <1>2, <1>3, <1>7 DEF BufferRight, UnhurtCommitted, Open
  <1>9. SinkRight'
    BY <1>1, <1>2, <1>3, SinkAfter
  <1>10. CountersRight' /\ WholeNal'
    <2>1. 0 \in 0 .. MaxParts /\ FALSE \in BOOLEAN
      BY Constants
    <2>2. run' \in 0 .. MaxParts /\ clean' \in BOOLEAN
      BY <1>1, <2>1
    <2> QED
      BY <1>1, <1>2, <1>3, <2>2 DEF CountersRight, WholeNal
  <1> QED
    BY <1>3, <1>4, <1>6, <1>8, <1>9, <1>10 DEF RtpInv

LEMMA LateStep ==
    ASSUME RtpInv, Late
    PROVE  RtpInv' /\ late' # late
  <1>1. SenderRight /\ GotRight /\ BufferRight /\ SinkRight /\ CountersRight /\ WholeNal
        /\ first \in FirstSeq /\ sink \in SinkInfo /\ rtpsi_ \in StatisInfo
    BY DEF RtpInv, SenderRight, CountersRight
  <1> DEFINE n == Len(past)
  <1>2. past \in Seq(Packets) /\ n \in Nat /\ DOMAIN past = 1 .. n /\ n <= Window
    BY <1>1, LenProperties DEF SenderRight
  <1>3. PICK i \in 1 .. n :
           /\ late < MaxLate /\ Came(past[i]) /\ late' = late + 1 /\ run' = 0
           /\ clean' = FALSE /\ UNCHANGED <<sender, zeroed>>
    BY <1>2 DEF Late
  <1> DEFINE p == past[i]
  <1>4. Sendable(p) /\ p.at = sent - n + i /\ Rank(p) <= Rank(Last)
        /\ (Open(Last) /\ ~Open(p) => Rank(p) < Last.nal)
    BY <1>1, <1>3 DEF SenderRight
  <1>5. handle_datagram(p) /\ got' = p /\ UNCHANGED report
    BY <1>3 DEF Came
  <1>6. UNCHANGED <<first, past, sent, zeroed>>
    BY <1>3 DEF sender
  <1>7. p.at = got.at + 1 => Follows(got, p)
    BY <1>1, <1>3 DEF GotRight
  <1>8. \A j \in 1 .. n : past[j].at = sent - n + j
    BY <1>1 DEF SenderRight
  <1>9. \A j \in 1 .. n - 1 : Follows(past[j], past[j + 1])
    BY <1>1 DEF SenderRight
  <1>10. sent \in Nat /\ got.at \in Nat /\ got.at <= sent
    <2>1. got \in Packets
      BY <1>1, GotPacket
    <2>2. sent \in Nat
      BY <1>1, Constants DEF SenderRight
    <2> QED
      BY <1>1, <2>1, <2>2, PacketFields DEF GotRight
  <1>11. p \in Packets /\ p.part \in Nat /\ p.part >= 1 /\ p.at \in Nat /\ p.at >= 1
    BY <1>4, PacketFields DEF Sendable
  <1> HIDE DEF p, n
  <1>12. p.at >= got.at - Window + 1 /\ p.at <= sent
    BY <1>2, <1>4, <1>10, Constants
  <1>13. ~(run' >= p.part)
    BY <1>3, <1>11
  <1>14. Arrived(p, run')
    BY <1>1, <1>4, <1>5, <1>7, <1>12, <1>13, DatagramArrives
  <1>15. BufferRight' /\ UnhurtCommitted' /\ WholeNal'
    BY <1>1, <1>4, <1>5, <1>14, ArrivedRight
  <1>16. SenderRight' /\ Last' = Last
    BY <1>1, <1>6 DEF SenderRight, Last
  <1>17. SinkRight'
    <2>1. sink' = sink \/ sink'.gap \/ (~Open(p) /\ sink'.nal = Rank(p))
      BY <1>14 DEF Arrived
    <2> QED
      BY <1>1, <1>4, <1>16, <2>1 DEF SinkRight
  <1>18. late \in Nat /\ late' \in 0 .. MaxLate /\ late' # late
    <2>1. late \in Nat
      BY <1>1, Constants DEF CountersRight
    <2> QED
      BY <1>3, <2>1, Constants
  <1>19. CountersRight'
    <2>1. 0 \in 0 .. MaxParts /\ FALSE \in BOOLEAN
      BY Constants
    <2>2. run' \in 0 .. MaxParts /\ clean' \in BOOLEAN
      BY <1>3, <2>1
    <2>3. UNCHANGED <<due, rr_, zeroed>>
      BY <1>5, <1>6 DEF report
    <2> QED
      BY <1>1, <1>14, <1>18, <2>2, <2>3 DEF CountersRight, Arrived
  <1>20. GotRight'
    <2>1. expseq_' = seq(p) + 1 /\ seq(p) \in 0 .. SeqMod - 1
      <3>1. expseq_' = seq(p) + 1
        BY <1>5 DEF handle_datagram
      <3>2. seq(p) \in 0 .. SeqMod - 1
        BY <1>1, <1>11, SeqRange
      <3> QED
        BY <3>1, <3>2
    <2>2. seq(got)' = seq(p)
      BY <1>5, <1>6 DEF seq
    <2>3. expseq_' \in 0 .. SeqMod
      BY <2>1, Constants
    <2>4. ASSUME NEW j \in 1 .. n
          PROVE  /\ past[j].at = p.at => past[j] = p
                 /\ past[j].at = p.at + 1 => Follows(p, past[j])
      <3>1. past[j].at = sent - n + j /\ p.at = sent - n + i
        BY <1>4, <1>8, <2>4
      <3>2. past[j].at = p.at => j = i
        BY <1>2, <1>10, <3>1
      <3>3. past[j].at = p.at + 1 => j = i + 1 /\ i \in 1 .. n - 1
        BY <1>2, <1>10, <3>1
      <3> QED
        BY <1>9, <3>2, <3>3 DEF p
    <2>5. Len(past') = n /\ past' = past
      BY <1>6 DEF n
    <2> QED
      BY <1>4, <1>5, <1>6, <1>12, <2>1, <2>2, <2>3, <2>4, <2>5 DEF GotRight, Sendable
  <1> QED
    BY <1>15, <1>16, <1>17, <1>18, <1>19, <1>20 DEF RtpInv

LEMMA WordNumber == Word \in Nat \ {0}
  <1>1. SeqMod \in Nat /\ CycMod \in Nat /\ SeqMod >= 1 /\ CycMod >= 1
    BY Constants
  <1>2. \A a \in Nat, b \in Nat : a >= 1 /\ b >= 1 => a * b \in Nat /\ a * b >= 1
    OBVIOUS
  <1> QED
    BY <1>1, <1>2 DEF Word

LEMMA ReportStep ==
    ASSUME RtpInv, handle_receive_from
    PROVE  RtpInv' /\ sink' = sink
  <1>1. SenderRight /\ GotRight /\ BufferRight /\ SinkRight /\ CountersRight /\ WholeNal
        /\ UnhurtCommitted
    BY DEF RtpInv
  <1>2. UNCHANGED <<first, past, sent, expseq_, bufp_, sink, zeroed, late, run, got, took>>
    BY DEF handle_receive_from, sender, assembly
  <1>3. SenderRight' /\ GotRight' /\ BufferRight' /\ SinkRight' /\ WholeNal' /\ UnhurtCommitted'
    BY <1>1, <1>2 DEF SenderRight, GotRight, BufferRight, SinkRight, WholeNal, UnhurtCommitted,
       Last, seq
  <1>4. due' \in BOOLEAN
    BY DEF handle_receive_from
  <1>5. rr_' \in [n : 0 .. 2, lost : BOOLEAN, clean : BOOLEAN]
        /\ rtpsi_' \in StatisInfo /\ clean' \in BOOLEAN
    <2>1. CASE UNCHANGED <<rr_, rtpsi_, clean>>
      BY <1>1, <2>1 DEF CountersRight
    <2>2. CASE Report
      <3> DEFINE e == expected(rtpsi_)
                 r == rtpsi_.received
                 l == LostInterval(rtpsi_) > 0
                 k == IF rr_.n = 0 THEN 1 ELSE 2
      <3>1. e \in 0 .. Word - 1
        <4>1. rtpsi_.cycles \in Int /\ rtpsi_.max_seq \in Int /\ rtpsi_.base_seq \in Int
          BY <1>1 DEF CountersRight, StatisInfo
        <4>2. SeqMod \in Int
          BY Constants
        <4> DEFINE x == rtpsi_.cycles * SeqMod + rtpsi_.max_seq - rtpsi_.base_seq + 1
        <4>3. x \in Int
          BY <4>1, <4>2
        <4>4. e = x % Word
          BY DEF expected
        <4> HIDE DEF x, e
        <4> QED
          BY <4>3, <4>4, WordNumber, Division
      <3>2. r \in Nat
        BY <1>1 DEF CountersRight, StatisInfo
      <3>3. k \in 0 .. 2
        OBVIOUS
      <3>4. l \in BOOLEAN
        OBVIOUS
      <3>5. clean \in BOOLEAN
        BY <1>1 DEF CountersRight
      <3>6. rr_' = [n |-> k, lost |-> l, clean |-> clean]
        BY <2>2 DEF Report, Told
      <3>7. rtpsi_' = [rtpsi_ EXCEPT !.expected_prior = e, !.received_prior = r]
        BY <2>2 DEF Report
      <3>8. clean' \in BOOLEAN
        BY <1>1, <2>2 DEF Report, CountersRight
      <3> HIDE DEF e, r, l, k
      <3>9. rr_' \in [n : 0 .. 2, lost : BOOLEAN, clean : BOOLEAN]
        BY <3>3, <3>4, <3>5, <3>6
      <3>10. rtpsi_ \in StatisInfo
        BY <1>1 DEF CountersRight
      <3>11. rtpsi_' \in StatisInfo
        BY <3>1, <3>2, <3>7, <3>10 DEF StatisInfo
      <3> QED
        BY <3>8, <3>9, <3>11
    <2> QED
      BY <2>1, <2>2 DEF handle_receive_from, rreport
  <1>6. CountersRight'
    BY <1>1, <1>2, <1>4, <1>5 DEF CountersRight
  <1> QED
    BY <1>2, <1>3, <1>6 DEF RtpInv

LEMMA RtpStep ==
    ASSUME RtpInv, [Next]_vars
    PROVE  RtpInv'
  <1>1. CASE Deliver
    BY <1>1, DeliverStep
  <1>2. CASE Lose
    BY <1>2, LoseStep
  <1>3. CASE Late
    BY <1>3, LateStep
  <1>4. CASE handle_receive_from
    BY <1>4, ReportStep
  <1>5. CASE UNCHANGED vars
    <2>1. UNCHANGED <<first, past, sent, expseq_, bufp_, sink, rtpsi_, due, rr_,
                      zeroed, late, run, got, took, clean>>
      BY <1>5 DEF vars, sender, assembly, report, history
    <2> QED
      BY <2>1 DEF RtpInv, SenderRight, GotRight, BufferRight, SinkRight, CountersRight,
         WholeNal, UnhurtCommitted, Last, seq
  <1> QED
    BY <1>1, <1>2, <1>3, <1>4, <1>5 DEF Next

LEMMA RtpInit ==
    ASSUME Init
    PROVE  RtpInv
  <1>1. PICK g \in Garbage : rtpsi_ = [cycles |-> g, base_seq |-> 0, max_seq |-> 0, received |-> g,
                                       expected_prior |-> 0, received_prior |-> 0]
    BY DEF Init
  <1>2. rtpsi_ \in StatisInfo
    <2>1. g \in 0 .. CycMod - 1 /\ g \in Nat /\ 0 \in 0 .. SeqMod - 1
      BY Constants
    <2>2. 0 \in 0 .. Word - 1
      BY WordNumber
    <2> QED
      BY <1>1, <2>1, <2>2 DEF StatisInfo
  <1>3. 0 \in 0 .. MaxSent /\ 0 \in 0 .. 2 * MaxSent /\ 0 \in 0 .. MaxLate /\ 0 \in 0 .. MaxParts
        /\ 0 \in 0 .. SeqMod
    BY Constants
  <1>4. CountersRight
    <2>1. zeroed \in BOOLEAN
      BY DEF Init
    <2>2. sink \in SinkInfo
      BY <1>3 DEF Init, SinkInfo
    <2>3. rr_ \in [n : 0 .. 2, lost : BOOLEAN, clean : BOOLEAN]
      BY DEF Init
    <2> QED
      BY <1>2, <1>3, <2>1, <2>2, <2>3 DEF Init, CountersRight
  <1>5. past = <<>> /\ Len(past) = 0 /\ sent = 0 /\ got = NoPacket /\ bufp_ = <<>>
    BY EmptySeq DEF Init
  <1>6. 1 .. Len(past) = {} /\ 1 .. Len(past) - 1 = {}
    BY <1>5
  <1>7. SenderRight
    <2>1. past \in Seq(Packets) /\ Len(past) <= Window
      BY <1>5, EmptySeq, Constants
    <2> QED
      BY <1>3, <1>5, <1>6, <2>1 DEF Init, SenderRight
  <1>8. GotRight
    BY <1>3, <1>5, <1>6, NoPacketFields DEF Init, GotRight
  <1>9. BufferRight
    <2>1. bufp_ \in Seq(Pieces)
      BY <1>5, EmptySeq
    <2> QED
      BY <1>5, <2>1, NoPacketFields DEF BufferRight
  <1>10. SinkRight
    <2>1. Last = NoPacket
      BY <1>5 DEF Last
    <2> QED
      BY <2>1, NoPacketFields DEF Init, SinkRight
  <1>11. WholeNal /\ UnhurtCommitted
    BY <1>5, NoPacketFields DEF Init, WholeNal, UnhurtCommitted
  <1> QED
    BY <1>4, <1>7, <1>8, <1>9, <1>10, <1>11 DEF RtpInv

LEMMA RtpAlways == Spec => []RtpInv
  BY RtpInit, RtpStep, PTL DEF Spec

\* What nalu_incoming() hands to the sink is one whole NAL unit, or was glued where
\* the sequence number wrapped among lost packets; and a NAL unit that comes in
\* sequence is committed with its last fragment.
THEOREM NalsWhole == Spec => []NalsSound
  <1>1. RtpInv => NalsSound
    <2>1. SUFFICES ASSUME RtpInv PROVE NalsSound
      OBVIOUS
    <2>2. SenderRight /\ GotRight /\ BufferRight /\ CountersRight /\ WholeNal /\ UnhurtCommitted
      BY <2>1 DEF RtpInv
    <2>3. \A i \in DOMAIN bufp_ : bufp_[i].part <= MaxParts
      <3>1. DOMAIN bufp_ = 1 .. Len(bufp_) /\ bufp_ \in Seq(Pieces)
        BY <2>2, LenProperties DEF BufferRight
      <3>2. SUFFICES ASSUME NEW i \in 1 .. Len(bufp_) PROVE bufp_[i].part <= MaxParts
        BY <3>1
      <3> DEFINE k == bufp_[i].part
      <3>3. bufp_[i] \in Pieces
        BY <3>1, ElementOfSeq
      <3>4. k \in 1 .. MaxParts
        BY <3>3 DEF Pieces
      <3> HIDE DEF k
      <3>5. k <= MaxParts
        BY <3>4, Constants
      <3> QED
        BY <3>5 DEF k
    <2>4. got \in Packets
      BY <2>2, GotPacket
    <2>5. TypeOK
      BY <2>2, <2>3, <2>4 DEF TypeOK, SenderRight, GotRight, CountersRight, SinkInfo, StatisInfo
    <2> QED
      BY <2>2, <2>5 DEF NalsSound
  <1> QED
    BY <1>1, RtpAlways, PTL

\* NAL units reach the sink in the order they were sent and each once, unless a
\* datagram comes late or twice or a unit was glued.
THEOREM SinkInOrder == Spec => InOrder
  <1>1. ASSUME RtpInv, [Next]_vars
        PROVE  [sink' # sink => sink'.nal > sink.nal \/ sink.gap \/ sink'.gap \/ late' # late]_vars
    <2>1. CASE Deliver
      BY <1>1, <2>1, DeliverStep
    <2>2. CASE Lose
      BY <1>1, <2>2, LoseStep
    <2>3. CASE Late
      BY <1>1, <2>3, LateStep
    <2>4. CASE handle_receive_from
      BY <1>1, <2>4, ReportStep
    <2> QED
      BY <1>1, <2>1, <2>2, <2>3, <2>4 DEF Next
  <1> QED
    BY <1>1, RtpAlways, PTL DEF Spec, InOrder


-----------------------------------------------------------------------------
(* The counters                                                            *)

\* The sequence number of the packet at a when the first had f.
Number(f, a) == (f + a - 1) % SeqMod

\* How far a sequence number moves from x to y.
Stride(x, y) == IF y < x THEN SeqMod + y - x ELSE y - x

\* It moves as far as the position of the packet, but for whole cycles.
LEMMA Distance ==
    ASSUME NEW f \in Int, NEW a \in Int, NEW b \in Int
    PROVE  /\ Stride(Number(f, a), Number(f, b)) \in 0 .. SeqMod - 1
           /\ \E k \in Int : b - a = Stride(Number(f, a), Number(f, b)) + SeqMod * k
  <1> DEFINE n == f + a - 1
             o == f + b - 1
             x == Number(f, a)
             y == Number(f, b)
             i == n \div SeqMod
             j == o \div SeqMod
  <1>1. SeqMod \in Nat \ {0}
    BY Constants
  <1>2. /\ x \in 0 .. SeqMod - 1 /\ i \in Int /\ n = SeqMod * i + x
        /\ y \in 0 .. SeqMod - 1 /\ j \in Int /\ o = SeqMod * j + y
    <2>1. n \in Int /\ o \in Int /\ x = n % SeqMod /\ y = o % SeqMod
      BY DEF Number
    <2> HIDE DEF n, o, x, y
    <2> QED
      BY <1>1, <2>1, Division
  <1>3. o - n = b - a
    OBVIOUS
  <1> HIDE DEF n, o, i, j, x, y
  <1>4. Stride(x, y) \in 0 .. SeqMod - 1
    BY <1>1, <1>2 DEF Stride
  <1>5. CASE y < x
    <2>1. b - a = Stride(x, y) + SeqMod * (j - i - 1)
      BY <1>1, <1>2, <1>3, <1>5 DEF Stride
    <2>2. j - i - 1 \in Int
      BY <1>2
    <2> QED
      BY <1>4, <2>1, <2>2 DEF x, y
  <1>6. CASE ~(y < x)
    <2>1. b - a = Stride(x, y) + SeqMod * (j - i)
      BY <1>1, <1>2, <1>3, <1>6 DEF Stride
    <2>2. j - i \in Int
      BY <1>2
    <2> QED
      BY <1>4, <2>1, <2>2 DEF x, y
  <1> QED
    BY <1>5, <1>6

\* A packet later than that at a moves the number by no more than its position, and by
\* a whole cycle if the number is the same.
LEMMA Forward ==
    ASSUME NEW g \in 0 .. SeqMod - 1, NEW k \in Int, NEW d \in Int, d > 0, d = g + SeqMod * k
    PROVE  g <= d /\ (g = 0 => d >= SeqMod)
  <1>1. SeqMod \in Nat \ {0}
    BY Constants
  <1>2. k >= 0
    <2>1. SUFFICES ASSUME k <= -1 PROVE FALSE
      OBVIOUS
    <2>2. SeqMod * k <= -SeqMod
      BY <1>1, <2>1
    <2> QED
      BY <1>1, <2>2
  <1>3. SeqMod * k >= 0
    BY <1>1, <1>2
  <1>4. CASE k = 0
    BY <1>1, <1>3, <1>4
  <1>5. CASE k >= 1
    <2>1. SeqMod * k >= SeqMod
      BY <1>1, <1>5
    <2> QED
      BY <1>1, <2>1
  <1> QED
    BY <1>2, <1>4, <1>5

\* One that is less than a cycle behind moves it by a cycle more at most.
LEMMA Backward ==
    ASSUME NEW g \in 0 .. SeqMod - 1, NEW k \in Int, NEW d \in Int, d > -SeqMod, d = g + SeqMod * k
    PROVE  g <= d + SeqMod /\ (g = 0 => d >= 0)
  <1>1. SeqMod \in Nat \ {0}
    BY Constants
  <1>2. k >= -1
    <2>1. SUFFICES ASSUME k <= -2 PROVE FALSE
      OBVIOUS
    <2>2. SeqMod * k <= -2 * SeqMod
      BY <1>1, <2>1
    <2> QED
      BY <1>1, <2>2
  <1>3. CASE k = -1
    <2>1. SeqMod * k = -SeqMod
      BY <1>1, <1>3
    <2> QED
      BY <1>1, <2>1
  <1>4. CASE k >= 0
    <2>1. SeqMod * k >= 0
      BY <1>1, <1>4
    <2> QED
      BY <1>1, <2>1
  <1> QED
    BY <1>2, <1>3, <1>4

\* The packets expected before the counters wrap.
Raw(s) == SeqMod * s.cycles + s.max_seq - s.base_seq + 1

\* How many more than were counted: cycles is one too many from the start, and each
\* late or repeated packet may have been counted once more.
Spare(s, n) == Raw(s) - SeqMod + n - s.received

\* max_seq is that of the packet at a.  A packet that is counted but moves no number is
\* late or a whole cycle of packets after the last.
Placed(f, a, s, n) ==
    /\ s.max_seq = Number(f, a)
    /\ SeqMod * Spare(s, n) + a >= 1
    /\ Raw(s) <= SeqMod + a + SeqMod * n

CountsPlaced == zeroed /\ rtpsi_.cycles # 0 => \E a \in 1 .. sent : Placed(first, a, rtpsi_, late)

\* The fields of rtp_statis_info are numbers.
LEMMA StatisFields ==
    ASSUME NEW s \in StatisInfo
    PROVE  /\ s.cycles \in Nat /\ s.cycles < CycMod
           /\ s.base_seq \in 0 .. SeqMod - 1 /\ s.max_seq \in 0 .. SeqMod - 1
           /\ s.received \in Nat /\ s.received_prior \in Nat /\ s.expected_prior \in Int
           /\ Raw(s) \in Int /\ (\A n \in Int : Spare(s, n) \in Int)
  <1>1. /\ s.cycles \in 0 .. CycMod - 1 /\ s.base_seq \in 0 .. SeqMod - 1
        /\ s.max_seq \in 0 .. SeqMod - 1 /\ s.received \in Nat /\ s.received_prior \in Nat
        /\ s.expected_prior \in 0 .. Word - 1
    BY DEF StatisInfo
  <1>2. CycMod \in Nat /\ SeqMod \in Nat
    BY Constants
  <1>3. SeqMod * s.cycles \in Int
    BY <1>1, <1>2
  <1>4. Raw(s) \in Int
    BY <1>1, <1>2, <1>3 DEF Raw
  <1>5. \A n \in Int : Spare(s, n) \in Int
    BY <1>1, <1>2, <1>4 DEF Spare
  <1> QED
    BY <1>1, <1>2, <1>4, <1>5, WordNumber

\* What statis() does to the counters.
LEMMA StatisCounts ==
    ASSUME NEW s \in StatisInfo, NEW q \in 0 .. SeqMod - 1, NEW t, t = statis(s, q)
    PROVE  /\ s.cycles = 0 =>
                 t.cycles = 1 /\ t.base_seq = q /\ t.max_seq = q /\ t.received = 1
           /\ s.cycles # 0 /\ q < s.max_seq /\ s.max_seq - q < Near => t = s
           /\ s.cycles # 0 /\ ~(q < s.max_seq /\ s.max_seq - q < Near) =>
                 /\ t.max_seq = q /\ t.base_seq = s.base_seq /\ t.received = s.received + 1
                 /\ t.expected_prior = s.expected_prior /\ t.received_prior = s.received_prior
                 /\ \/ t.cycles = (IF q < s.max_seq THEN 1 ELSE 0) + s.cycles
                       /\ Raw(t) = Raw(s) + Stride(s.max_seq, q)
                    \/ t.cycles = 0 /\ Raw(t) = Raw(s) + Stride(s.max_seq, q) - Word
  <1>0. /\ s.cycles \in Nat /\ s.cycles < CycMod /\ CycMod \in Nat /\ CycMod > 1
        /\ s.base_seq \in 0 .. SeqMod - 1 /\ s.max_seq \in 0 .. SeqMod - 1
        /\ s.received \in Nat /\ SeqMod \in Nat \ {0}
    BY StatisFields, Constants
  <1>1. CASE s.cycles = 0
    <2>1. t = [s EXCEPT !.cycles = 1, !.base_seq = q, !.max_seq = q, !.received = 1]
      BY <1>1 DEF statis
    <2> QED
      BY <1>1, <2>1 DEF StatisInfo
  <1>2. CASE s.cycles # 0 /\ q < s.max_seq /\ s.max_seq - q < Near
    BY <1>2 DEF statis
  <1>3. CASE s.cycles # 0 /\ ~(q < s.max_seq /\ s.max_seq - q < Near)
    <2> DEFINE c == IF q < s.max_seq THEN (s.cycles + 1) % CycMod ELSE s.cycles
               r == s.received + 1
    <2>1. t = [s EXCEPT !.cycles = c, !.max_seq = q, !.received = r]
      BY <1>3 DEF statis
    <2> HIDE DEF c, r
    <2>2. /\ t.max_seq = q /\ t.base_seq = s.base_seq /\ t.received = r /\ t.cycles = c
          /\ t.expected_prior = s.expected_prior /\ t.received_prior = s.received_prior
      BY <2>1 DEF StatisInfo
    <2>3. CASE ~(q < s.max_seq)
      <3>1. c = s.cycles
        BY <2>3 DEF c
      <3>2. Raw(t) = Raw(s) + Stride(s.max_seq, q)
        BY <1>0, <2>2, <2>3, <3>1 DEF Raw, Stride
      <3> QED
        BY <1>0, <1>3, <2>2, <2>3, <3>1, <3>2 DEF r
    <2>4. CASE q < s.max_seq /\ s.cycles + 1 < CycMod
      <3>1. c = s.cycles + 1
        <4>1. s.cycles + 1 \in 0 .. CycMod - 1 /\ s.cycles + 1 = CycMod * 0 + (s.cycles + 1)
          BY <1>0, <2>4
        <4> DEFINE n == s.cycles + 1
        <4>2. n \in Int /\ CycMod \in Nat \ {0}
          BY <1>0
        <4> HIDE DEF n
        <4>3. n % CycMod = n
          BY <4>1, <4>2, Remainder DEF n
        <4> QED
          BY <2>4, <4>3 DEF n, c
      <3>2. SeqMod * (s.cycles + 1) = SeqMod * s.cycles + SeqMod
        BY <1>0
      <3>3. Raw(t) = Raw(s) + Stride(s.max_seq, q)
        BY <1>0, <2>2, <2>4, <3>1, <3>2 DEF Raw, Stride
      <3> QED
        BY <1>0, <1>3, <2>2, <2>4, <3>1, <3>3 DEF r
    <2>5. CASE q < s.max_seq /\ s.cycles + 1 = CycMod
      <3>1. c = 0
        <4>1. 0 \in 0 .. CycMod - 1 /\ CycMod = CycMod * 1 + 0 /\ CycMod \in Nat \ {0}
          BY <1>0
        <4>2. CycMod % CycMod = 0
          BY <4>1, Remainder
        <4> QED
          BY <2>5, <4>2 DEF c
      <3>2. SeqMod * s.cycles = Word - SeqMod
        BY <1>0, <2>5 DEF Word
      <3>3. SeqMod * 0 = 0 /\ Word \in Int
        BY <1>0, WordNumber
      <3>4. Raw(t) = Raw(s) + Stride(s.max_seq, q) - Word
        BY <1>0, <2>2, <2>5, <3>1, <3>2, <3>3 DEF Raw, Stride
      <3> QED
        BY <1>0, <1>3, <2>2, <3>1, <3>4 DEF r
    <2> QED
      BY <1>0, <2>3, <2>4, <2>5
  <1> QED
    BY <1>1, <1>2, <1>3

\* A late packet that is not counted leaves more to spare.
LEMMA PlacedLater ==
    ASSUME NEW f \in Int, NEW a \in Nat, NEW s \in StatisInfo, NEW n \in Nat, Placed(f, a, s, n)
    PROVE  Placed(f, a, s, n + 1)
  <1>1. Raw(s) \in Int /\ s.received \in Nat /\ SeqMod \in Nat \ {0}
    BY StatisFields, Constants
  <1> DEFINE r == Spare(s, n)
  <1>2. r \in Int /\ Spare(s, n + 1) = r + 1
    BY <1>1 DEF Spare
  <1> HIDE DEF r
  <1>3. SeqMod * (r + 1) = SeqMod * r + SeqMod /\ SeqMod * (n + 1) = SeqMod * n + SeqMod
    BY <1>1, <1>2
  <1>4. SeqMod * r \in Int /\ SeqMod * n \in Int
    BY <1>1, <1>2
  <1>5. SeqMod * r + a >= 1 /\ Raw(s) <= SeqMod + a + SeqMod * n
    BY DEF Placed, r
  <1>6. SeqMod * (r + 1) + a >= 1 /\ Raw(s) <= SeqMod + a + SeqMod * (n + 1)
    BY <1>1, <1>3, <1>4, <1>5
  <1> QED
    BY <1>2, <1>6 DEF Placed

\* The packet at b comes, one after all others or a late one.
LEMMA PlacedCounts ==
    ASSUME NEW f \in Int, NEW a \in Nat, NEW b \in Nat, NEW s \in StatisInfo, s.cycles # 0,
           NEW n \in Nat, NEW m \in Nat, Placed(f, a, s, n),
           (m = n /\ b > a) \/ (m = n + 1 /\ b > a - SeqMod),
           NEW q, q = Number(f, b), NEW t \in StatisInfo, t = statis(s, q), t.cycles # 0
    PROVE  Placed(f, a, t, m) \/ Placed(f, b, t, m)
  <1>1. /\ SeqMod \in Nat \ {0} /\ Raw(s) \in Int /\ s.received \in Nat
        /\ Raw(t) \in Int /\ t.received \in Nat
    BY StatisFields, Constants
  <1>2. q \in 0 .. SeqMod - 1
    <2> DEFINE o == f + b - 1
    <2>1. o \in Int /\ q = o % SeqMod
      BY DEF Number
    <2> HIDE DEF o
    <2> QED
      BY <1>1, <2>1, Division
  <1>3. CASE q < s.max_seq /\ s.max_seq - q < Near
    <2>1. t = s
      BY <1>2, <1>3, StatisCounts
    <2>2. Placed(f, a, s, n + 1)
      BY PlacedLater
    <2>3. m = n \/ m = n + 1
      OBVIOUS
    <2> QED
      BY <2>1, <2>2, <2>3
  <1>4. CASE ~(q < s.max_seq /\ s.max_seq - q < Near)
    <2> DEFINE g == Stride(s.max_seq, q)
               r == Spare(s, n)
               u == Spare(t, m)
    <2>1. t.max_seq = q /\ t.received = s.received + 1 /\ Raw(t) = Raw(s) + g
      BY <1>2, <1>4, StatisCounts
    <2>2. g \in 0 .. SeqMod - 1 /\ \E k \in Int : b - a = g + SeqMod * k
      <3>1. s.max_seq = Number(f, a) /\ a \in Int /\ b \in Int
        BY DEF Placed
      <3>2. /\ Stride(Number(f, a), Number(f, b)) \in 0 .. SeqMod - 1
            /\ \E k \in Int : b - a = Stride(Number(f, a), Number(f, b)) + SeqMod * k
        <4> HIDE DEF g, r, u
        <4> QED
          BY <3>1, Distance
      <3> QED
        BY <3>1, <3>2
    <2>3. SeqMod * r + a >= 1 /\ Raw(s) <= SeqMod + a + SeqMod * n
      BY DEF Placed
    <2>4. r \in Int /\ u = r + g - 1 + (m - n)
      <3>1. g \in Int
        BY <2>2
      <3> HIDE DEF g
      <3>2. r = Raw(s) - SeqMod + n - s.received
        BY DEF Spare
      <3>3. u = (Raw(s) + g) - SeqMod + m - (s.received + 1)
        BY <2>1 DEF Spare
      <3> HIDE DEF r, u
      <3> QED
        BY <1>1, <3>1, <3>2, <3>3
    <2> HIDE DEF g, r, u
    <2>5. PICK k \in Int : b - a = g + SeqMod * k
      BY <2>2
    <2>6. CASE m = n /\ b > a
      <3>1. g <= b - a /\ (g = 0 => b - a >= SeqMod)
        <4> DEFINE d == b - a
        <4>1. d \in Int /\ d > 0 /\ d = g + SeqMod * k
          BY <2>5, <2>6
        <4> HIDE DEF d
        <4>2. g <= d /\ (g = 0 => d >= SeqMod)
          BY <2>2, <2>5, <4>1, Forward
        <4> QED
          BY <4>2 DEF d
      <3>2. SeqMod * u + b >= 1
        <4>1. CASE g = 0
          <5>1. SeqMod * u = SeqMod * r - SeqMod
            BY <1>1, <2>4, <2>6, <4>1
          <5> QED
            BY <1>1, <2>3, <2>4, <3>1, <4>1, <5>1
        <4>2. CASE g >= 1
          <5>1. u - r >= 0 /\ u - r \in Int
            BY <2>2, <2>4, <2>6, <4>2
          <5>2. SeqMod * (u - r) >= 0
            BY <1>1, <5>1
          <5>3. SeqMod * u = SeqMod * r + SeqMod * (u - r)
            BY <1>1, <2>2, <2>4
          <5>4. SeqMod * r \in Int /\ SeqMod * (u - r) \in Int
            BY <1>1, <2>4, <5>1
          <5> QED
            BY <2>3, <2>6, <5>2, <5>3, <5>4
        <4> QED
          BY <2>2, <4>1, <4>2
      <3>3. Raw(t) <= SeqMod + b + SeqMod * m
        <4>1. SeqMod * n \in Int
          BY <1>1
        <4> QED
          BY <1>1, <2>1, <2>2, <2>3, <2>6, <3>1, <4>1
      <3> QED
        BY <2>1, <3>2, <3>3 DEF Placed, u
    <2>7. CASE m = n + 1 /\ b > a - SeqMod
      <3>1. g <= b - a + SeqMod /\ (g = 0 => b - a >= 0)
        <4> DEFINE d == b - a
        <4>1. d \in Int /\ d > -SeqMod /\ d = g + SeqMod * k
          BY <1>1, <2>5, <2>7
        <4> HIDE DEF d
        <4>2. g <= d + SeqMod /\ (g = 0 => d >= 0)
          BY <2>2, <2>5, <4>1, Backward
        <4> QED
          BY <4>2 DEF d
      <3>2. SeqMod * u + b >= 1
        <4>1. CASE g = 0
          <5>1. u = r
            BY <1>1, <2>4, <2>7, <4>1
          <5> QED
            BY <1>1, <2>3, <2>4, <3>1, <4>1, <5>1
        <4>2. CASE g >= 1
          <5>1. u - r >= 1 /\ u - r \in Int
            BY <2>2, <2>4, <2>7, <4>2
          <5>2. SeqMod * (u - r) >= SeqMod
            BY <1>1, <5>1
          <5>3. SeqMod * u = SeqMod * r + SeqMod * (u - r)
            BY <1>1, <2>2, <2>4
          <5>4. SeqMod * r \in Int /\ SeqMod * (u - r) \in Int
            BY <1>1, <2>4, <5>1
          <5> QED
            BY <1>1, <2>3, <2>7, <5>2, <5>3, <5>4
        <4> QED
          BY <2>2, <4>1, <4>2
      <3>3. Raw(t) <= SeqMod + b + SeqMod * m
        <4>1. SeqMod * n \in Int /\ SeqMod * m = SeqMod * n + SeqMod
          BY <1>1, <2>7
        <4> QED
          BY <1>1, <2>1, <2>2, <2>3, <2>7, <3>1, <4>1
      <3> QED
        BY <2>1, <3>2, <3>3 DEF Placed, u
    <2> QED
      BY <2>6, <2>7
  <1> QED
    BY <1>3, <1>4

\* The first packet that is counted.
LEMMA PlacedFirst ==
    ASSUME NEW f \in Int, NEW b \in Nat \ {0}, NEW s \in StatisInfo, s.cycles = 0, NEW n \in Nat,
           NEW q, q = Number(f, b), NEW t \in StatisInfo, t = statis(s, q)
    PROVE  Placed(f, b, t, n)
  <1>1. SeqMod \in Nat \ {0}
    BY Constants
  <1>2. q \in 0 .. SeqMod - 1
    <2> DEFINE o == f + b - 1
    <2>1. o \in Int /\ q = o % SeqMod
      BY DEF Number
    <2> HIDE DEF o
    <2> QED
      BY <1>1, <2>1, Division
  <1>3. t.cycles = 1 /\ t.base_seq = q /\ t.max_seq = q /\ t.received = 1
    BY <1>2, StatisCounts
  <1>4. Raw(t) = SeqMod + 1
    BY <1>1, <1>2, <1>3 DEF Raw
  <1>5. Spare(t, n) = n
    BY <1>1, <1>3, <1>4 DEF Spare
  <1>6. SeqMod * n >= 0 /\ SeqMod * n \in Int
    BY <1>1
  <1> QED
    BY <1>1, <1>3, <1>4, <1>5, <1>6 DEF Placed

\* Whatever comes, and whether it is counted or not.
LEMMA CountsMove ==
    ASSUME CountsPlaced, rtpsi_ \in StatisInfo, rtpsi_' \in StatisInfo, first \in FirstSeq,
           sent \in Nat, sent' \in Nat, sent' >= sent, late \in Nat, UNCHANGED <<first, zeroed>>,
           NEW p \in Packets, p.at \in 1 .. sent',
           (late' = late /\ p.at > sent) \/ (late' = late + 1 /\ p.at > sent - SeqMod),
           rtpsi_' = rtpsi_ \/ rtpsi_' = statis(rtpsi_, seq(p))
    PROVE  CountsPlaced'
  <1>1. SUFFICES ASSUME zeroed, rtpsi_'.cycles # 0
                 PROVE  \E a \in 1 .. sent' : Placed(first, a, rtpsi_', late')
    BY DEF CountsPlaced
  <1> DEFINE f == first
             b == p.at
             q == seq(p)
             s == rtpsi_
             t == rtpsi_'
             m == late'
  <1>2. f \in Int /\ b \in Nat \ {0} /\ q = Number(f, b) /\ SeqMod \in Nat \ {0} /\ m \in Nat
    BY SeqRange, PacketFields, Constants DEF seq, Number
  <1>3. CASE s.cycles = 0
    <2>1. t = statis(s, q)
      BY <1>1, <1>3
    <2> HIDE DEF f, b, q, s, t, m
    <2>2. s \in StatisInfo /\ t \in StatisInfo
      BY DEF s, t
    <2>3. Placed(f, b, t, m)
      BY <1>2, <1>3, <2>1, <2>2, PlacedFirst
    <2> QED
      BY <2>3 DEF f, b, t, m
  <1>4. CASE s.cycles # 0
    <2>1. PICK a \in 1 .. sent : Placed(f, a, s, late)
      BY <1>1, <1>4 DEF CountsPlaced
    <2>2. a \in Nat /\ a \in 1 .. sent' /\ a <= sent
      OBVIOUS
    <2>3. CASE t = s
      <3>1. Placed(f, a, s, late + 1)
        <4> HIDE DEF f, s
        <4>1. s \in StatisInfo
          BY DEF s
        <4> QED
          BY <1>2, <2>1, <2>2, <4>1, PlacedLater
      <3> QED
        BY <2>1, <2>2, <2>3, <3>1
    <2>4. CASE t = statis(s, q)
      <3>1. (m = late /\ b > a) \/ (m = late + 1 /\ b > a - SeqMod)
        BY <1>2, <2>2
      <3>2. s \in StatisInfo /\ t \in StatisInfo /\ t.cycles # 0
        BY <1>1
      <3> HIDE DEF f, b, q, s, t, m
      <3>3. Placed(f, a, t, m) \/ Placed(f, b, t, m)
        <4>1. CASE m = late /\ b > a
          BY <1>2, <1>4, <2>1, <2>2, <2>4, <3>2, <4>1, PlacedCounts
        <4>2. CASE m = late + 1 /\ b > a - SeqMod
          BY <1>2, <1>4, <2>1, <2>2, <2>4, <3>2, <4>2, PlacedCounts
        <4> QED
          BY <3>1, <4>1, <4>2
      <3> QED
        BY <2>2, <3>3 DEF f, b, t, m
    <2> QED
      BY <2>3, <2>4
  <1> QED
    BY <1>3, <1>4

-----------------------------------------------------------------------------
(* The intervals between reports                                           *)

\* While all that came since the last report was counted, the packet that came last is
\* the last that was sent.
Trail ==
    /\ clean => took /\ run > 0
    /\ run > 0 => got.at = sent

\* max_seq is that of the last packet, or a little ahead of it.
Newest ==
    took => \/ rtpsi_.max_seq = seq(got)
            \/ seq(got) < rtpsi_.max_seq /\ rtpsi_.max_seq - seq(got) < Near

\* From the last report on at most k packets more are expected than were then, up to whole
\* Words, and no fewer were counted.
Kept(s) ==
    \E k \in 0 .. s.received - s.received_prior, j \in Int : Raw(s) - s.expected_prior = k + Word * j

Since == clean => Kept(rtpsi_)

CountsInv == RtpInv /\ CountsPlaced /\ Trail /\ Newest /\ Since /\ CleanReport

\* After an interval without loss no loss is reported.
LEMMA KeptReport ==
    ASSUME NEW s \in StatisInfo, Kept(s)
    PROVE  ~(LostInterval(s) > 0)
  <1>1. PICK k \in 0 .. s.received - s.received_prior, j \in Int :
           Raw(s) - s.expected_prior = k + Word * j
    BY DEF Kept
  <1> DEFINE e == expected(s)
             i == Raw(s) \div Word
             l == k \div Word
             r == k % Word
             d == e - s.expected_prior
             n == s.received - s.received_prior
  <1>2. /\ Word \in Nat \ {0} /\ Raw(s) \in Int /\ s.expected_prior \in Int /\ n \in Int
        /\ k \in Int /\ k >= 0 /\ k <= n /\ SeqMod \in Nat
    BY StatisFields, WordNumber, Constants
  <1>3. e = Raw(s) % Word
    <2>1. SeqMod * s.cycles = s.cycles * SeqMod
      BY <1>2, StatisFields
    <2> QED
      BY <2>1 DEF expected, Raw
  <1>4. i \in Int /\ e \in Int /\ Raw(s) = Word * i + e
    <2> DEFINE o == Raw(s)
    <2>1. o \in Int /\ e = o % Word /\ i = o \div Word
      BY <1>2, <1>3
    <2> HIDE DEF o, e, i
    <2>2. i \in Int /\ e \in Int /\ o = Word * i + e
      BY <1>2, <2>1, Division
    <2> QED
      BY <2>2 DEF o
  <1>5. l \in Int /\ r \in 0 .. Word - 1 /\ k = Word * l + r
    <2> HIDE DEF l, r
    <2> QED
      BY <1>2, Division DEF l, r
  <1> HIDE DEF e, i, l, r, n
  <1>6. l >= 0
    <2>1. SUFFICES ASSUME l <= -1 PROVE FALSE
      BY <1>5
    <2>2. Word * l <= -Word
      BY <1>2, <1>5, <2>1
    <2> QED
      BY <1>2, <1>5, <2>2
  <1>7. r <= k
    <2>1. Word * l >= 0
      BY <1>2, <1>5, <1>6
    <2> QED
      BY <1>2, <1>5, <2>1
  <1>8. d \in Int /\ d = Word * (j - i + l) + r
    BY <1>1, <1>2, <1>4, <1>5
  <1>9. d % Word = r
    <2> HIDE DEF d
    <2>1. j - i + l \in Int
      BY <1>4, <1>5
    <2> QED
      BY <1>2, <1>5, <1>8, <2>1, Remainder
  <1>10. Signed(d) <= r /\ Signed(d) \in Int
    <2> HIDE DEF d
    <2> QED
      BY <1>2, <1>5, <1>9 DEF Signed
  <1>11. LostInterval(s) = Signed(d) - n
    BY DEF LostInterval, e, n
  <1> HIDE DEF d
  <1> QED
    BY <1>2, <1>5, <1>7, <1>10, <1>11

\* The next packet is counted at least as often as it is expected.
LEMMA KeptCounts ==
    ASSUME NEW s \in StatisInfo, s.cycles # 0, Kept(s), NEW x \in 0 .. SeqMod - 1,
           s.max_seq = x \/ (x < s.max_seq /\ s.max_seq - x < Near),
           NEW q, q = (x + 1) % SeqMod
    PROVE  Kept(statis(s, q))
  <1> DEFINE t == statis(s, q)
             g == Stride(s.max_seq, q)
  <1>1. PICK k \in 0 .. s.received - s.received_prior, j \in Int :
           Raw(s) - s.expected_prior = k + Word * j
    BY DEF Kept
  <1>2. /\ Word \in Nat \ {0} /\ SeqMod \in Nat \ {0} /\ SeqMod > 1 /\ Near \in Nat /\ Near < SeqMod
        /\ Raw(s) \in Int /\ s.expected_prior \in Int /\ s.received \in Nat
        /\ s.received_prior \in Nat /\ s.max_seq \in 0 .. SeqMod - 1
    BY StatisFields, WordNumber, Constants
  <1>3. q = IF x + 1 = SeqMod THEN 0 ELSE x + 1
    <2> DEFINE n == x + 1
    <2>1. CASE n = SeqMod
      <3>1. n = SeqMod * 1 + 0 /\ 0 \in 0 .. SeqMod - 1 /\ n \in Int
        BY <1>2, <2>1
      <3>2. q = n % SeqMod
        OBVIOUS
      <3> HIDE DEF n
      <3>3. n % SeqMod = 0
        BY <1>2, <3>1, Remainder
      <3> QED
        BY <2>1, <3>2, <3>3 DEF n
    <2>2. CASE n # SeqMod
      <3>1. n = SeqMod * 0 + n /\ n \in 0 .. SeqMod - 1 /\ n \in Int
        BY <1>2, <2>2
      <3>2. q = n % SeqMod
        OBVIOUS
      <3> HIDE DEF n
      <3>3. n % SeqMod = n
        BY <1>2, <3>1, Remainder
      <3> QED
        BY <2>2, <3>2, <3>3 DEF n
    <2> QED
      BY <2>1, <2>2
  <1>4. q \in 0 .. SeqMod - 1
    BY <1>2, <1>3
  <1>5. CASE q < s.max_seq /\ s.max_seq - q < Near
    <2>1. t = s
      BY <1>4, <1>5, StatisCounts
    <2> QED
      BY <2>1
  <1>6. CASE ~(q < s.max_seq /\ s.max_seq - q < Near)
    <2>1. g \in {0, 1}
      BY <1>2, <1>3, <1>6 DEF Stride
    <2>2. /\ t.received = s.received + 1 /\ t.received_prior = s.received_prior
          /\ t.expected_prior = s.expected_prior
          /\ Raw(t) = Raw(s) + g \/ Raw(t) = Raw(s) + g - Word
      <3> HIDE DEF g, t
      <3>1. t = statis(s, q)
        BY DEF t
      <3> QED
        BY <1>4, <1>6, <3>1, StatisCounts DEF g
    <2> HIDE DEF t, g
    <2>3. k + g \in 0 .. t.received - t.received_prior
      BY <1>2, <2>1, <2>2
    <2>4. CASE Raw(t) = Raw(s) + g
      <3>1. Raw(t) - t.expected_prior = (k + g) + Word * j
        BY <1>1, <1>2, <2>1, <2>2, <2>4
      <3> QED
        BY <2>3, <3>1 DEF Kept, t
    <2>5. CASE Raw(t) = Raw(s) + g - Word
      <3>1. Word * (j - 1) = Word * j - Word /\ j - 1 \in Int
        BY <1>2
      <3>2. Word * j \in Int
        BY <1>2
      <3>3. Raw(t) - t.expected_prior = (k + g) + Word * (j - 1)
        BY <1>1, <1>2, <2>1, <2>2, <2>5, <3>1, <3>2
      <3> QED
        BY <2>3, <3>1, <3>3 DEF Kept, t
    <2> QED
      BY <2>2, <2>4, <2>5
  <1> QED
    BY <1>5, <1>6

\* The report begins a new interval.
LEMMA KeptFromReport ==
    ASSUME NEW s \in StatisInfo, NEW t,
           t = [s EXCEPT !.expected_prior = expected(s), !.received_prior = s.received]
    PROVE  Kept(t) /\ Raw(t) = Raw(s) /\ t.received = s.received /\ t.cycles = s.cycles
           /\ t.max_seq = s.max_seq
  <1>1. /\ t.expected_prior = expected(s) /\ t.received_prior = s.received
        /\ t.received = s.received /\ t.cycles = s.cycles /\ t.max_seq = s.max_seq
        /\ t.base_seq = s.base_seq
    BY DEF StatisInfo
  <1>2. Raw(t) = Raw(s)
    BY <1>1 DEF Raw
  <1>3. /\ Word \in Nat \ {0} /\ Raw(s) \in Int /\ s.received \in Nat /\ SeqMod \in Nat
    BY StatisFields, WordNumber, Constants
  <1>4. expected(s) = Raw(s) % Word
    <2>1. SeqMod * s.cycles = s.cycles * SeqMod
      BY <1>3, StatisFields
    <2> QED
      BY <2>1 DEF expected, Raw
  <1> DEFINE j == Raw(s) \div Word
  <1>5. j \in Int /\ expected(s) \in Int /\ Raw(s) = Word * j + expected(s)
    BY <1>3, <1>4, Division
  <1> HIDE DEF j
  <1>6. Raw(t) - t.expected_prior = 0 + Word * j
    BY <1>1, <1>2, <1>3, <1>5
  <1>7. 0 \in 0 .. t.received - t.received_prior
    BY <1>1, <1>3
  <1> QED
    BY <1>1, <1>2, <1>5, <1>6, <1>7 DEF Kept

-----------------------------------------------------------------------------
(* The steps                                                               *)

\* A datagram is counted if it is a fragment that is accepted.
LEMMA DatagramCounts ==
    ASSUME NEW p \in Packets, handle_datagram(p)
    PROVE  (took' /\ rtpsi_' = statis(rtpsi_, seq(p))) \/ (took' = FALSE /\ rtpsi_' = rtpsi_)
  <1>1. nalu_incoming(p)
    BY DEF handle_datagram
  <1>2. CASE p.kind = "fu"
    <2>1. Fragment(p)
      BY <1>1, <1>2 DEF nalu_incoming
    <2> DEFINE taken == p.part = 1 \/ (continus(seq(p)) /\ bufp_ # <<>>)
    <2>2. /\ took' = taken
          /\ taken => rtpsi_' = statis(rtpsi_, seq(p))
          /\ ~taken => rtpsi_' = rtpsi_
      BY <2>1 DEF Fragment
    <2> QED
      BY <2>2
  <1>3. CASE p.kind # "fu"
    BY <1>1, <1>3 DEF nalu_incoming
  <1> QED
    BY <1>2, <1>3

\* At the start nothing was counted.
LEMMA InitCounts == Init => CountsInv
  <1>1. SUFFICES ASSUME Init PROVE CountsInv
    OBVIOUS
  <1>2. RtpInv
    BY <1>1, RtpInit
  <1>3. took = FALSE /\ clean = FALSE /\ run = 0 /\ rr_.n = 0
    BY <1>1 DEF Init
  <1>4. zeroed => rtpsi_.cycles = 0
    BY <1>1 DEF Init
  <1>5. CountsPlaced
    BY <1>4 DEF CountsPlaced
  <1> QED
    BY <1>2, <1>3, <1>5 DEF CountsInv, Trail, Newest, Since, CleanReport

\* max_seq after a datagram was counted.
LEMMA CountedNewest ==
    ASSUME first \in FirstSeq, NEW p \in Packets, rtpsi_ \in StatisInfo, first' = first, got' = p,
           took' => rtpsi_' = statis(rtpsi_, seq(p))
    PROVE  Newest'
  <1>1. seq(p) \in 0 .. SeqMod - 1 /\ seq(got)' = seq(p)
    <2>1. seq(got)' = seq(p)
      BY DEF seq
    <2> QED
      BY <2>1, SeqRange
  <1> DEFINE q == seq(p)
             s == rtpsi_
             t == rtpsi_'
  <1>2. SUFFICES ASSUME took' PROVE t.max_seq = q \/ (q < t.max_seq /\ t.max_seq - q < Near)
    BY <1>1 DEF Newest
  <1>3. t = statis(s, q) /\ s \in StatisInfo /\ q \in 0 .. SeqMod - 1
    BY <1>1, <1>2
  <1> HIDE DEF q, s, t
  <1>4. CASE s.cycles = 0
    BY <1>3, <1>4, StatisCounts
  <1>5. CASE s.cycles # 0 /\ q < s.max_seq /\ s.max_seq - q < Near
    <2>1. t = s
      BY <1>3, <1>5, StatisCounts
    <2> QED
      BY <1>5, <2>1
  <1>6. CASE s.cycles # 0 /\ ~(q < s.max_seq /\ s.max_seq - q < Near)
    BY <1>3, <1>6, StatisCounts
  <1> QED
    BY <1>4, <1>5, <1>6

\* The next packet keeps the interval if it is counted.
LEMMA DeliverCounts ==
    ASSUME CountsInv, Deliver
    PROVE  CountsInv'
  <1>1. PICK p \in NextPackets :
           /\ Send(p) /\ Came(p)
           /\ run' = IF got.at # p.at - 1 THEN 1 ELSE IF run < MaxParts THEN run + 1 ELSE run
           /\ clean' = (clean /\ took' /\ rtpsi_.cycles # 0)
           /\ UNCHANGED <<zeroed, late>>
    BY DEF Deliver
  <1>2. /\ RtpInv /\ CountsPlaced /\ Trail /\ Newest /\ Since /\ CleanReport
        /\ SenderRight /\ GotRight /\ rtpsi_ \in StatisInfo /\ run \in 0 .. MaxParts
        /\ late \in 0 .. MaxLate /\ first \in FirstSeq
    BY DEF CountsInv, RtpInv, CountersRight, SenderRight
  <1>3. RtpInv'
    BY <1>2, DeliverStep
  <1>4. /\ p \in Packets /\ p.at = sent + 1 /\ sent' = sent + 1 /\ sent \in Nat /\ first' = first
        /\ p.at \in Nat
    <2>1. Sendable(p) /\ p.at = sent + 1
      BY <1>1, <1>2, SendRight
    <2>2. sent \in Nat
      BY <1>2, Constants DEF SenderRight
    <2> QED
      BY <1>1, <2>1, <2>2, PacketFields DEF Sendable, Send
  <1>5. handle_datagram(p) /\ got' = p /\ rr_' = rr_
    BY <1>1 DEF Came, report
  <1>6. (took' /\ rtpsi_' = statis(rtpsi_, seq(p))) \/ (took' = FALSE /\ rtpsi_' = rtpsi_)
    BY <1>4, <1>5, DatagramCounts
  <1>7. rtpsi_' \in StatisInfo
    BY <1>3 DEF RtpInv, CountersRight
  <1>8. CountsPlaced'
    <2>1. p.at \in 1 .. sent' /\ p.at > sent /\ sent' >= sent /\ sent' \in Nat /\ late \in Nat
          /\ late' = late /\ zeroed' = zeroed
      BY <1>1, <1>2, <1>4, Constants
    <2> QED
      BY <1>2, <1>4, <1>6, <1>7, <2>1, CountsMove
  <1>9. Trail'
    <2>1. got'.at = sent'
      BY <1>4, <1>5
    <2>2. run' > 0
      BY <1>1, <1>2, Constants
    <2>3. clean' => took'
      BY <1>1
    <2> QED
      BY <2>1, <2>2, <2>3 DEF Trail
  <1>10. Newest'
    BY <1>2, <1>4, <1>5, <1>6, CountedNewest
  <1>11. Since'
    <2>1. SUFFICES ASSUME clean' PROVE Kept(rtpsi_')
      BY DEF Since
    <2>2. clean /\ took' /\ rtpsi_.cycles # 0
      BY <1>1, <2>1
    <2>3. rtpsi_' = statis(rtpsi_, seq(p))
      BY <1>6, <2>2
    <2>4. Kept(rtpsi_) /\ took /\ got.at = sent
      BY <1>2, <2>2 DEF Since, Trail
    <2>5. /\ seq(got) \in 0 .. SeqMod - 1
          /\ seq(p) = (seq(got) + 1) % SeqMod
      <3> DEFINE n == first + got.at - 1
      <3>1. got \in Packets /\ first \in Nat
        BY <1>2, GotPacket, Constants
      <3>2. n \in Int /\ first + p.at - 1 = n + 1
        BY <1>4, <2>4, <3>1
      <3>3. seq(got) = n % SeqMod /\ seq(p) = (n + 1) % SeqMod
        BY <3>2 DEF seq
      <3> HIDE DEF n
      <3>4. ((n % SeqMod) + 1) % SeqMod = (n + 1) % SeqMod
        BY <3>2, Constants, NextRemainder
      <3> QED
        BY <1>2, <3>1, <3>3, <3>4, SeqRange
    <2> DEFINE x == seq(got)
               q == seq(p)
               s == rtpsi_
    <2>6. s.max_seq = x \/ (x < s.max_seq /\ s.max_seq - x < Near)
      BY <1>2, <2>4 DEF Newest
    <2>7. Kept(statis(s, q))
      <3>1. s \in StatisInfo /\ s.cycles # 0 /\ Kept(s) /\ x \in 0 .. SeqMod - 1 /\ q = (x + 1) % SeqMod
        BY <1>2, <2>2, <2>4, <2>5
      <3> HIDE DEF x, q, s
      <3>2. CASE s.max_seq = x
        BY <3>1, <3>2, KeptCounts
      <3>3. CASE x < s.max_seq /\ s.max_seq - x < Near
        BY <3>1, <3>3, KeptCounts
      <3> QED
        BY <2>6, <3>2, <3>3
    <2> QED
      BY <2>3, <2>7
  <1>12. CleanReport'
    BY <1>2, <1>5 DEF CleanReport
  <1> QED
    BY <1>3, <1>8, <1>9, <1>10, <1>11, <1>12 DEF CountsInv

\* A loss ends the interval in which all was counted.
LEMMA LoseCounts ==
    ASSUME CountsInv, Lose
    PROVE  CountsInv'
  <1>1. PICK p \in NextPackets :
           /\ Send(p) /\ run' = 0 /\ clean' = FALSE
           /\ UNCHANGED <<assembly, rtpsi_, report, zeroed, late, got, took>>
    BY DEF Lose
  <1>2. RtpInv /\ CountsPlaced /\ Newest /\ CleanReport /\ sent \in Nat
    <2>1. sent \in 0 .. MaxSent
      BY DEF CountsInv, RtpInv, SenderRight
    <2> QED
      BY <2>1, Constants DEF CountsInv
  <1>3. RtpInv'
    BY <1>1, <1>2, LoseStep DEF Lose
  <1>4. UNCHANGED <<first, rtpsi_, rr_, zeroed, late, got, took>> /\ sent' = sent + 1
    BY <1>1 DEF Send, report
  <1>5. CountsPlaced'
    <2>1. 1 .. sent \subseteq 1 .. sent'
      BY <1>2, <1>4
    <2> QED
      BY <1>2, <1>4, <2>1 DEF CountsPlaced
  <1>6. Trail' /\ Newest' /\ Since' /\ CleanReport'
    BY <1>1, <1>2, <1>4 DEF Trail, Newest, Since, CleanReport, seq
  <1> QED
    BY <1>3, <1>5, <1>6 DEF CountsInv

\* ... and so does a late packet, which is at most Window behind.
LEMMA LateCounts ==
    ASSUME CountsInv, Late
    PROVE  CountsInv'
  <1>1. /\ RtpInv /\ CountsPlaced /\ CleanReport /\ SenderRight /\ rtpsi_ \in StatisInfo
        /\ late \in 0 .. MaxLate /\ first \in FirstSeq /\ sent \in Nat
    <2>1. sent \in 0 .. MaxSent
      BY DEF CountsInv, RtpInv, SenderRight
    <2> QED
      BY <2>1, Constants DEF CountsInv, RtpInv, CountersRight, SenderRight
  <1>2. RtpInv'
    BY <1>1, LateStep
  <1> DEFINE n == Len(past)
  <1>3. past \in Seq(Packets) /\ n \in Nat /\ DOMAIN past = 1 .. n /\ n <= Window
    BY <1>1, LenProperties DEF SenderRight
  <1>4. PICK i \in 1 .. n :
           /\ late < MaxLate /\ Came(past[i]) /\ late' = late + 1 /\ run' = 0
           /\ clean' = FALSE /\ UNCHANGED <<sender, zeroed>>
    BY <1>3 DEF Late
  <1> DEFINE p == past[i]
  <1>5. Sendable(p) /\ p.at = sent - n + i
    BY <1>1, <1>4 DEF SenderRight
  <1>6. handle_datagram(p) /\ got' = p /\ rr_' = rr_ /\ UNCHANGED <<first, sent, zeroed>>
    BY <1>4 DEF Came, report, sender
  <1>7. p \in Packets /\ p.at >= 1 /\ p.at \in Nat
    BY <1>5, PacketFields DEF Sendable
  <1>8. (took' /\ rtpsi_' = statis(rtpsi_, seq(p))) \/ (took' = FALSE /\ rtpsi_' = rtpsi_)
    BY <1>6, <1>7, DatagramCounts
  <1>9. CountsPlaced'
    <2> DEFINE b == p.at
    <2>1. b \in 1 .. sent' /\ b > sent - SeqMod /\ sent' >= sent /\ sent' \in Nat /\ late \in Nat
      <3>1. b = sent - n + i /\ b >= 1 /\ sent' = sent
        BY <1>5, <1>6, <1>7
      <3>2. Window < SeqMod /\ Window \in Nat /\ SeqMod \in Nat /\ MaxLate \in Nat
        BY Constants
      <3> HIDE DEF b, n
      <3> QED
        BY <1>1, <1>3, <1>4, <3>1, <3>2
    <2>2. rtpsi_' \in StatisInfo
      BY <1>2 DEF RtpInv, CountersRight
    <2> QED
      BY <1>1, <1>4, <1>6, <1>7, <1>8, <2>1, <2>2, CountsMove
  <1>10. Newest'
    BY <1>1, <1>6, <1>7, <1>8, CountedNewest
  <1>11. Trail' /\ Since' /\ CleanReport'
    BY <1>1, <1>4, <1>6 DEF Trail, Since, CleanReport
  <1> QED
    BY <1>2, <1>9, <1>10, <1>11 DEF CountsInv

\* A report begins the next interval, an RTCP datagram without one changes nothing.
LEMMA ReportCounts ==
    ASSUME CountsInv, handle_receive_from
    PROVE  CountsInv'
  <1>1. /\ RtpInv /\ CountsPlaced /\ Trail /\ Newest /\ Since /\ CleanReport /\ rtpsi_ \in StatisInfo
        /\ clean \in BOOLEAN
    BY DEF CountsInv, RtpInv, CountersRight
  <1>2. RtpInv'
    BY <1>1, ReportStep
  <1>3. UNCHANGED <<first, sent, zeroed, late, run, got, took>>
    BY DEF handle_receive_from, sender
  <1>4. CASE UNCHANGED <<rr_, rtpsi_, clean>>
    BY <1>1, <1>2, <1>3, <1>4 DEF CountsInv, CountsPlaced, Trail, Newest, Since, CleanReport, seq
  <1>5. CASE Report
    <2> DEFINE s == rtpsi_
               t == rtpsi_'
    <2>1. /\ Kept(t) /\ Raw(t) = Raw(s) /\ t.received = s.received /\ t.cycles = s.cycles
          /\ t.max_seq = s.max_seq
      BY <1>1, <1>5, KeptFromReport DEF Report
    <2>2. \A a : Placed(first, a, s, late) => Placed(first, a, t, late)
      BY <2>1 DEF Placed, Spare
    <2>3. CountsPlaced'
      BY <1>1, <1>3, <2>1, <2>2 DEF CountsPlaced
    <2>4. Newest'
      BY <1>1, <1>3, <2>1 DEF Newest, seq
    <2>5. Trail'
      BY <1>1, <1>3, <1>5 DEF Report, Trail
    <2>6. Since'
      BY <2>1 DEF Since
    <2>7. CleanReport'
      <3>1. rr_'.lost = (LostInterval(s) > 0) /\ rr_'.clean = clean
        BY <1>5 DEF Report, Told
      <3>2. clean => ~(LostInterval(s) > 0)
        BY <1>1, KeptReport DEF Since
      <3> QED
        BY <3>1, <3>2 DEF CleanReport
    <2> QED
      BY <1>2, <2>3, <2>4, <2>5, <2>6, <2>7 DEF CountsInv
  <1> QED
    BY <1>4, <1>5 DEF handle_receive_from, rreport

LEMMA CountsStep ==
    ASSUME CountsInv, [Next]_vars
    PROVE  CountsInv'
  <1>1. CASE UNCHANGED vars
    <2>1. RtpInv'
      BY <1>1, RtpStep DEF CountsInv
    <2>2. UNCHANGED <<first, sent, rtpsi_, rr_, zeroed, late, run, got, took, clean>>
      BY <1>1 DEF vars, sender, report, history
    <2> QED
      BY <2>1, <2>2 DEF CountsInv, CountsPlaced, Trail, Newest, Since, CleanReport, seq
  <1>2. CASE Next
    BY <1>2, DeliverCounts, LoseCounts, LateCounts, ReportCounts DEF Next
  <1> QED
    BY <1>1, <1>2

\* Few enough packets for the counters; a late one may count for a whole cycle of sequence
\* numbers.  Where both ranges are those of 16 bits the second line is enough.
Few ==
    /\ MaxSent + SeqMod * MaxLate <= SeqMod * SeqMod
    /\ MaxSent + SeqMod * (MaxLate + 1) < Word

\* Within these limits expected() does not wrap and exceeds what was counted.
LEMMA FewExpected ==
    ASSUME Few, CountsInv
    PROVE  NotMoreThanExpected
  <1>1. SUFFICES ASSUME zeroed, rtpsi_.cycles # 0
                 PROVE  rtpsi_.received <= expected(rtpsi_)
    BY DEF NotMoreThanExpected
  <1> DEFINE s == rtpsi_
  <1>2. s \in StatisInfo /\ sent \in 0 .. MaxSent /\ late \in 0 .. MaxLate
    BY DEF CountsInv, RtpInv, CountersRight, SenderRight
  <1>3. PICK a \in 1 .. sent : Placed(first, a, s, late)
    BY <1>1 DEF CountsInv, CountsPlaced
  <1> DEFINE r == Spare(s, late)
             m == SeqMod
             e == Raw(s)
  <1>4. m * r + a >= 1 /\ e <= m + a + m * late
    BY <1>3 DEF Placed
  <1>5. /\ m \in Nat \ {0} /\ MaxLate \in Nat /\ MaxSent \in Nat /\ Word \in Nat \ {0}
        /\ s.cycles \in Nat /\ s.cycles >= 1 /\ s.base_seq \in 0 .. m - 1
        /\ s.max_seq \in 0 .. m - 1 /\ s.received \in Nat /\ e \in Int /\ r \in Int
        /\ late \in Nat /\ late <= MaxLate /\ a \in Nat /\ a <= MaxSent
    BY <1>1, <1>2, StatisFields, Constants, WordNumber
  <1>6. r = e - m + late - s.received
    BY DEF Spare
  <1>7. e = m * s.cycles + s.max_seq - s.base_seq + 1
    BY DEF Raw
  <1>8. expected(s) = e % Word
    <2>1. SeqMod * s.cycles = s.cycles * SeqMod
      BY <1>5
    <2> QED
      BY <2>1 DEF expected, Raw
  <1> HIDE DEF s, r, e, m
  <1>9. m * late <= m * MaxLate /\ m * late \in Int /\ m * MaxLate \in Int
    <2>1. m * (MaxLate - late) >= 0
      BY <1>5
    <2> QED
      BY <1>5, <2>1
  <1>10. /\ MaxSent + m * MaxLate <= m * m
         /\ MaxSent + m * MaxLate + m < Word
    BY <1>5 DEF Few, m
  <1>11. e < Word
    BY <1>4, <1>5, <1>9, <1>10
  <1>12. e >= 0
    <2>1. m * s.cycles >= m
      BY <1>5
    <2> QED
      BY <1>5, <1>7, <2>1
  <1>13. expected(s) = e
    <2>1. e \in 0 .. Word - 1 /\ e = Word * 0 + e
      BY <1>5, <1>11, <1>12
    <2> QED
      BY <1>5, <1>8, <2>1, Remainder
  <1>14. late - r < m
    <2>1. SUFFICES ASSUME late - r >= m PROVE FALSE
      BY <1>5
    <2>2. m * (late - r) >= m * m
      <3>1. m * ((late - r) - m) >= 0
        BY <1>5, <2>1
      <3> QED
        BY <1>5, <3>1
    <2>3. m * (late - r) = m * late - m * r /\ m * r \in Int /\ m * m \in Int
      BY <1>5
    <2> QED
      BY <1>4, <1>5, <1>9, <1>10, <2>2, <2>3
  <1>15. s.received <= e
    BY <1>5, <1>6, <1>14
  <1> QED
    BY <1>13, <1>15 DEF s

\* From the second report on, an interval in which every packet was a fragment and was
\* accepted is reported without loss, whatever the counters held at the start.
THEOREM CleanIntervals == Spec => []CleanReport
  <1>1. CountsInv => CleanReport
    BY DEF CountsInv
  <1> QED
    BY <1>1, InitCounts, CountsStep, PTL DEF Spec

\* The assertion of rreport() holds, and an interval without loss is reported without
\* loss, unless so many packets come that a counter wraps.
THEOREM ReportsAreSound == Few => (Spec => []CountsSound)
  <1> SUFFICES ASSUME Few PROVE Spec => []CountsSound
    OBVIOUS
  <1>1. CountsInv => CountsSound
    BY FewExpected DEF CountsInv, CountsSound
  <1> QED
    BY <1>1, InitCounts, CountsStep, PTL DEF Spec
=============================================================================
