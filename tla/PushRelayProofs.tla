--------------------------- MODULE PushRelayProofs ---------------------------
(***************************************************************************)
(* Proofs about the push relays, for any number of clients, requests and   *)
(* failures: that clients which come and go do no harm to the queue, that  *)
(* the queue always has something to move it, and that no request is       *)
(* answered twice.                                                         *)
(***************************************************************************)
EXTENDS PushRelay, SequenceTheorems, FiniteSetTheorems, WellFoundedInduction, TLAPS

-----------------------------------------------------------------------------
(* The queue                                                                *)

Entries == [c : Conn, live : BOOLEAN, n : Nat]

Queues == Seq(Entries)

LEMMA LeastOf ==
    ASSUME NEW T \in SUBSET Nat, T # {}
    PROVE  \E x \in T : \A y \in T : x <= y
  <1>1. PICK x \in T : \A y \in T : ~ (<<y, x>> \in OpToRel(<, Nat))
    BY NatLessThanWellFounded, WFMin, Zenon
  <1>2. ASSUME NEW y \in T
        PROVE  x <= y
    <2>1. <<y, x>> \notin {ss \in Nat \X Nat : ss[1] < ss[2]}
      BY <1>1 DEF OpToRel
    <2> QED
      BY <2>1
  <1> QED
    BY <1>2

LEMMA MinOf ==
    ASSUME NEW T \in SUBSET Nat, T # {}
    PROVE  Min(T) \in T
  <1>1. \E x \in T : \A y \in T : x <= y
    BY LeastOf
  <1> QED
    BY <1>1 DEF Min

\* What there is to know of a queue.
LEMMA QueueElements ==
    ASSUME NEW q \in Queues
    PROVE  /\ Len(q) \in Nat /\ DOMAIN q = 1 .. Len(q)
           /\ \A i \in 1 .. Len(q) : /\ q[i] \in Entries
                                     /\ q[i].c \in Conn /\ q[i].live \in BOOLEAN /\ q[i].n \in Nat
           /\ q = <<>> <=> Len(q) = 0
           /\ q # <<>> => 1 \in 1 .. Len(q)
  <1>1. q \in Seq(Entries)
    BY DEF Queues
  <1>2. Len(q) \in Nat /\ DOMAIN q = 1 .. Len(q) /\ \A i \in 1 .. Len(q) : q[i] \in Entries
    BY <1>1, LenProperties, ElementOfSeq
  <1>3. q = <<>> <=> Len(q) = 0
    BY <1>1, EmptySeq
  <1> QED
    BY <1>2, <1>3 DEF Entries

LEMMA FirstTaken ==
    ASSUME NEW q \in Queues, q # <<>>
    PROVE  /\ Tail(q) \in Queues /\ Len(Tail(q)) = Len(q) - 1
           /\ \A i \in 1 .. Len(q) - 1 : Tail(q)[i] = q[i + 1]
  BY HeadTailProperties DEF Queues

LEMMA OneMore ==
    ASSUME NEW q \in Queues, NEW e \in Entries
    PROVE  /\ Append(q, e) \in Queues /\ Len(Append(q, e)) = Len(q) + 1
           /\ \A i \in 1 .. Len(q) : Append(q, e)[i] = q[i]
           /\ Append(q, e)[Len(q) + 1] = e
  BY AppendProperties DEF Queues

LEMMA OneLess ==
    ASSUME NEW q \in Queues, NEW i \in 1 .. Len(q)
    PROVE  /\ RemoveAt(q, i) \in Queues /\ Len(RemoveAt(q, i)) = Len(q) - 1
           /\ \A j \in 1 .. Len(q) - 1 : RemoveAt(q, i)[j] = q[IF j < i THEN j ELSE j + 1]
  <1>1. Len(q) \in Nat /\ \A j \in 1 .. Len(q) : q[j] \in Entries
    BY QueueElements
  <1> DEFINE a == SubSeq(q, 1, i - 1)
             b == SubSeq(q, i + 1, Len(q))
  <1>2. /\ a \in Seq(Entries) /\ Len(a) = i - 1
        /\ \A j \in 1 .. i - 1 : a[j] = q[j]
    <2>1. \A j \in 1 .. i - 1 : q[j] \in Entries
      BY <1>1
    <2>2. /\ a \in Seq(Entries) /\ Len(a) = (IF 1 <= i - 1 THEN (i - 1) - 1 + 1 ELSE 0)
          /\ \A j \in 1 .. (i - 1) - 1 + 1 : a[j] = q[1 + j - 1]
      <3>1. 1 \in Int /\ i - 1 \in Int
        BY <1>1
      <3> QED
        BY <2>1, <3>1, SubSeqProperties
    <2> QED
      BY <1>1, <2>2
  <1>3. /\ b \in Seq(Entries) /\ Len(b) = Len(q) - i
        /\ \A j \in 1 .. Len(q) - i : b[j] = q[i + j]
    <2>1. \A j \in i + 1 .. Len(q) : q[j] \in Entries
      BY <1>1
    <2>2. /\ b \in Seq(Entries)
          /\ Len(b) = (IF i + 1 <= Len(q) THEN Len(q) - (i + 1) + 1 ELSE 0)
          /\ \A j \in 1 .. Len(q) - (i + 1) + 1 : b[j] = q[(i + 1) + j - 1]
      <3>1. i + 1 \in Int /\ Len(q) \in Int
        BY <1>1
      <3> QED
        BY <2>1, <3>1, SubSeqProperties
    <2> QED
      BY <1>1, <2>2
  <1>4. RemoveAt(q, i) = a \o b
    BY DEF RemoveAt
  <1> HIDE DEF a, b
  <1>5. /\ a \o b \in Seq(Entries) /\ Len(a \o b) = Len(a) + Len(b)
        /\ \A j \in 1 .. Len(a) + Len(b) :
               (a \o b)[j] = IF j <= Len(a) THEN a[j] ELSE b[j - Len(a)]
    BY <1>2, <1>3, ConcatProperties
  <1>6. ASSUME NEW j \in 1 .. Len(q) - 1
        PROVE  (a \o b)[j] = q[IF j < i THEN j ELSE j + 1]
    <2>1. CASE j < i
      BY <1>1, <1>2, <1>3, <1>5, <2>1
    <2>2. CASE ~ (j < i)
      <3>1. j - (i - 1) \in 1 .. Len(q) - i /\ (a \o b)[j] = b[j - (i - 1)]
        BY <1>1, <1>2, <1>3, <1>5, <2>2
      <3>2. i + (j - (i - 1)) = j + 1
        BY <1>1
      <3> QED
        BY <1>3, <2>2, <3>1, <3>2
    <2> QED
      BY <2>1, <2>2
  <1> QED
    BY <1>1, <1>2, <1>3, <1>4, <1>5, <1>6 DEF Queues

\* A queue whose entries are changed in place.
LEMMA AllChanged ==
    ASSUME NEW q \in Queues, NEW t, DOMAIN t = DOMAIN q, t = [i \in DOMAIN q |-> t[i]],
           \A i \in DOMAIN q : t[i] \in Entries
    PROVE  t \in Queues /\ Len(t) = Len(q)
  <1>1. Len(q) \in Nat /\ DOMAIN q = 1 .. Len(q)
    BY QueueElements
  <1>2. t \in [1 .. Len(q) -> Entries]
    BY <1>1
  <1>3. t \in Seq(Entries)
    BY <1>1, <1>2, SeqDef
  <1>4. Len(t) \in Nat /\ DOMAIN t = 1 .. Len(t)
    BY <1>3, LenProperties
  <1> QED
    BY <1>1, <1>3, <1>4 DEF Queues

\* The first of a client's live entries.
LEMMA FirstOfClient ==
    ASSUME NEW q \in Queues, NEW c \in Conn
    PROVE  /\ FirstOf(q, c) \in 0 .. Len(q)
           /\ FirstOf(q, c) = 0 => \A i \in 1 .. Len(q) : ~ (q[i].c = c /\ q[i].live)
           /\ FirstOf(q, c) # 0 => q[FirstOf(q, c)].c = c /\ q[FirstOf(q, c)].live
  <1> DEFINE I == {i \in 1 .. Len(q) : q[i].c = c /\ q[i].live}
  <1>1. FirstOf(q, c) = IF I # {} THEN Min(I) ELSE 0
    BY DEF FirstOf, SelectInSeq
  <1>2. Len(q) \in Nat
    BY QueueElements
  <1>3. I # {} => Min(I) \in I
    <2>1. I \in SUBSET Nat
      BY <1>2
    <2> QED
      BY <2>1, MinOf, Zenon
  <1> QED
    BY <1>1, <1>2, <1>3

\* Each client has at most one entry.
Distinct(q) == \A i, j \in DOMAIN q : q[i].c = q[j].c => i = j

\* t has entries of q only, and none of a client twice that q has once.
Rearranged(q, t) ==
    /\ t \in Queues
    /\ \A j \in DOMAIN t : \E i \in DOMAIN q : t[j] = q[i]
    /\ Distinct(q) => Distinct(t)

\* Splicing finds a client with a message, if there is one.
LEMMA SplicedQueue ==
    ASSUME NEW q \in Queues, q # <<>>
    PROVE  /\ Rearranged(q, Spliced(q)) /\ Spliced(q) # <<>>
           /\ Spliced(q)[1].n = 0 => \A i \in DOMAIN Spliced(q) : Spliced(q)[i].n = 0
  <1>1. /\ Len(q) \in Nat /\ DOMAIN q = 1 .. Len(q) /\ 1 \in 1 .. Len(q)
        /\ \A i \in 1 .. Len(q) : q[i] \in Entries /\ q[i].n \in Nat
    BY QueueElements
  <1> DEFINE I == {i \in 1 .. Len(q) : q[i].n > 0}
             k == IF I # {} THEN Min(I) ELSE 0
  <1>2. Spliced(q) = IF k = 0 THEN q ELSE <<q[k]>> \o RemoveAt(q, k)
    BY DEF Spliced, SelectInSeq
  <1>3. I # {} => Min(I) \in I
    <2>1. I \in SUBSET Nat
      BY <1>1
    <2> QED
      BY <2>1, MinOf, Zenon
  <1>4. CASE I = {}
    <2>1. Spliced(q) = q
      BY <1>2, <1>4
    <2>2. \A i \in 1 .. Len(q) : q[i].n = 0
      <3> SUFFICES ASSUME NEW i \in 1 .. Len(q)
                   PROVE  q[i].n = 0
        OBVIOUS
      <3>1. i \notin I /\ q[i].n \in Nat
        BY <1>1, <1>4
      <3>2. ~ (q[i].n > 0)
        BY <3>1
      <3> QED
        BY <3>1, <3>2
    <2>3. Rearranged(q, q)
      BY <1>1 DEF Rearranged
    <2> QED
      BY <1>1, <2>1, <2>2, <2>3
  <1>5. CASE I # {}
    <2>1. k \in 1 .. Len(q) /\ q[k].n > 0 /\ k # 0
      BY <1>1, <1>3, <1>5
    <2> HIDE DEF k
    <2> DEFINE r == RemoveAt(q, k)
               t == <<q[k]>> \o r
    <2>2. /\ r \in Seq(Entries) /\ Len(r) = Len(q) - 1
          /\ \A j \in 1 .. Len(q) - 1 : r[j] = q[IF j < k THEN j ELSE j + 1]
      BY <2>1, OneLess DEF Queues
    <2>3. Spliced(q) = t
      BY <1>2, <2>1
    <2> HIDE DEF r
    <2>4. <<q[k]>> \in Seq(Entries) /\ Len(<<q[k]>>) = 1 /\ <<q[k]>>[1] = q[k]
      BY <1>1, <2>1
    <2>5. /\ t \in Seq(Entries) /\ Len(t) = 1 + Len(r)
          /\ \A j \in 1 .. 1 + Len(r) : t[j] = IF j <= 1 THEN <<q[k]>>[j] ELSE r[j - 1]
      BY <2>2, <2>4, ConcatProperties
    <2> HIDE DEF t
    <2> DEFINE m == [j \in 1 .. Len(q) |-> IF j = 1 THEN k ELSE IF j - 1 < k THEN j - 1 ELSE j]
    <2>6. /\ \A j \in 1 .. Len(q) : m[j] \in 1 .. Len(q)
          /\ \A i, j \in 1 .. Len(q) : m[i] = m[j] => i = j
      BY <1>1, <2>1
    <2>7. ASSUME NEW j \in 1 .. Len(q)
          PROVE  t[j] = q[m[j]]
      <3>1. CASE j = 1
        BY <1>1, <2>2, <2>4, <2>5, <3>1
      <3>2. CASE j # 1
        <4>1. j - 1 \in 1 .. Len(q) - 1 /\ t[j] = r[j - 1]
          BY <1>1, <2>2, <2>5, <3>2
        <4>2. r[j - 1] = q[IF j - 1 < k THEN j - 1 ELSE (j - 1) + 1]
          BY <2>2, <4>1
        <4> QED
          BY <1>1, <3>2, <4>1, <4>2
      <3> QED
        BY <3>1, <3>2
    <2> HIDE DEF m
    <2>8. DOMAIN t = 1 .. Len(q) /\ t \in Queues /\ t # <<>>
      <3>1. Len(t) = Len(q) /\ t \in Queues
        BY <1>1, <2>2, <2>5 DEF Queues
      <3> QED
        BY <1>1, <3>1, QueueElements
    <2>9. Distinct(q) => Distinct(t)
      <3> SUFFICES ASSUME Distinct(q), NEW i \in 1 .. Len(q), NEW j \in 1 .. Len(q), t[i].c = t[j].c
                   PROVE  i = j
        BY <2>8 DEF Distinct
      <3>1. q[m[i]].c = q[m[j]].c
        BY <2>7
      <3>2. m[i] = m[j]
        BY <1>1, <2>6, <3>1 DEF Distinct
      <3> QED
        BY <2>6, <3>2
    <2>10. \A j \in DOMAIN t : \E i \in DOMAIN q : t[j] = q[i]
      BY <1>1, <2>6, <2>7, <2>8
    <2>11. t[1].n > 0
      BY <1>1, <2>1, <2>2, <2>4, <2>5
    <2> QED
      BY <2>1, <2>3, <2>8, <2>9, <2>10, <2>11 DEF Rearranged
  <1> QED
    BY <1>4, <1>5

\* g lists, for each i up to n, the live ones among the first i entries of q.
Lists(g, q, n) ==
    g = [i \in 0 .. n |-> IF i = 0 THEN <<>>
                          ELSE IF q[i].live THEN Append(g[i - 1], q[i]) ELSE g[i - 1]]

LEMMA ListsExist ==
    ASSUME NEW q \in Queues, NEW n \in Nat
    PROVE  \E g : Lists(g, q, n)
  <1> DEFINE T == {m \in Nat : ~ \E g : Lists(g, q, m)}
  <1>1. ASSUME T # {}
        PROVE  FALSE
    <2>1. PICK m \in T : \A y \in T : m <= y
      <3>1. T \in SUBSET Nat
        OBVIOUS
      <3> QED
        BY <1>1, <3>1, LeastOf, Zenon
    <2>2. m # 0
      <3> DEFINE z == [i \in 0 .. 0 |-> <<>>]
      <3>1. Lists(z, q, 0)
        BY DEF Lists
      <3> QED
        BY <2>1, <3>1
    <2>3. m \in Nat /\ m - 1 \in Nat /\ m - 1 \notin T
      BY <2>1, <2>2
    <2>4. PICK g : Lists(g, q, m - 1)
      BY <2>3
    <2> DEFINE h == [i \in 0 .. m |-> IF i <= m - 1 THEN g[i]
                                      ELSE IF q[m].live THEN Append(g[m - 1], q[m]) ELSE g[m - 1]]
    <2>5. ASSUME NEW i \in 0 .. m
          PROVE  h[i] = IF i = 0 THEN <<>>
                        ELSE IF q[i].live THEN Append(h[i - 1], q[i]) ELSE h[i - 1]
      <3>1. CASE i <= m - 1
        <4>1. i \in 0 .. m - 1 /\ h[i] = g[i]
          BY <2>3, <3>1
        <4>2. g[i] = IF i = 0 THEN <<>>
                     ELSE IF q[i].live THEN Append(g[i - 1], q[i]) ELSE g[i - 1]
          BY <2>4, <4>1 DEF Lists
        <4>3. i # 0 => h[i - 1] = g[i - 1]
          BY <2>3, <3>1
        <4> QED
          BY <4>1, <4>2, <4>3
      <3>2. CASE i = m
        <4>1. h[i - 1] = g[m - 1]
          BY <2>3, <3>2
        <4>2. h[i] = IF q[m].live THEN Append(g[m - 1], q[m]) ELSE g[m - 1]
          BY <2>3, <3>2
        <4> QED
          BY <2>2, <3>2, <4>1, <4>2
      <3> QED
        BY <2>3, <3>1, <3>2
    <2>6. h = [i \in 0 .. m |-> h[i]]
      OBVIOUS
    <2> HIDE DEF h
    <2>7. Lists(h, q, m)
      BY <2>5, <2>6 DEF Lists
    <2> QED
      BY <2>1, <2>7
  <1> QED
    BY <1>1

\* Erasing the clients that have left.
LEMMA ConnectedQueue ==
    ASSUME NEW q \in Queues
    PROVE  Rearranged(q, Connected(q))
  <1>1. Len(q) \in Nat /\ DOMAIN q = 1 .. Len(q) /\ \A i \in 1 .. Len(q) : q[i] \in Entries
    BY QueueElements
  <1>2. PICK g : Lists(g, q, Len(q)) /\ Connected(q) = g[Len(q)]
    <2> DEFINE f == CHOOSE g : Lists(g, q, Len(q))
    <2>1. Lists(f, q, Len(q))
      BY <1>1, ListsExist
    <2>2. Connected(q) = f[Len(q)]
      BY DEF Connected, Lists
    <2> QED
      BY <2>1, <2>2
  <1>3. ASSUME NEW i \in 0 .. Len(q)
        PROVE  g[i] = IF i = 0 THEN <<>>
                      ELSE IF q[i].live THEN Append(g[i - 1], q[i]) ELSE g[i - 1]
    BY <1>2 DEF Lists
  <1> DEFINE Good(i) ==
               /\ g[i] \in Queues
               /\ \A j \in DOMAIN g[i] : \E k \in 1 .. i : g[i][j] = q[k]
               /\ Distinct(q) => Distinct(g[i])
             T == {i \in 0 .. Len(q) : ~ Good(i)}
  <1>4. Good(0)
    <2>1. g[0] = <<>> /\ <<>> \in Queues /\ DOMAIN <<>> = {}
      BY <1>1, <1>3, EmptySeq DEF Queues
    <2> QED
      BY <2>1 DEF Distinct
  <1>5. ASSUME NEW i \in 1 .. Len(q), Good(i - 1)
        PROVE  Good(i)
    <2>1. i - 1 \in 0 .. Len(q) /\ i \in 0 .. Len(q) /\ i # 0
      BY <1>1
    <2>2. CASE ~ q[i].live
      <3>1. g[i] = g[i - 1]
        BY <1>3, <2>1, <2>2
      <3>2. \A k \in 1 .. i - 1 : k \in 1 .. i
        BY <1>1
      <3> QED
        BY <1>5, <3>1, <3>2
    <2>3. CASE q[i].live
      <3> DEFINE s == g[i - 1]
                 t == Append(s, q[i])
      <3>1. g[i] = t /\ q[i] \in Entries
        BY <1>1, <1>3, <2>1, <2>3
      <3>2. s \in Queues /\ (\A j \in DOMAIN s : \E k \in 1 .. i - 1 : s[j] = q[k])
            /\ (Distinct(q) => Distinct(s))
        BY <1>5
      <3> HIDE DEF s, Good
      <3>3. /\ t \in Queues /\ Len(t) = Len(s) + 1
            /\ \A j \in 1 .. Len(s) : t[j] = s[j]
            /\ t[Len(s) + 1] = q[i]
        BY <3>1, <3>2, OneMore
      <3>4. Len(s) \in Nat /\ DOMAIN s = 1 .. Len(s) /\ DOMAIN t = 1 .. Len(s) + 1
        BY <3>2, <3>3, QueueElements
      <3> HIDE DEF t
      <3>5. ASSUME NEW j \in DOMAIN t
            PROVE  \E k \in 1 .. i : t[j] = q[k]
        <4>1. CASE j \in 1 .. Len(s)
          <5>1. PICK k \in 1 .. i - 1 : s[j] = q[k]
            BY <3>2, <3>4, <4>1
          <5>2. k \in 1 .. i /\ t[j] = q[k]
            BY <1>1, <3>3, <4>1, <5>1
          <5> QED
            BY <5>2
        <4>2. CASE j = Len(s) + 1
          <5>1. i \in 1 .. i /\ t[j] = q[i]
            BY <1>1, <3>3, <4>2
          <5> QED
            BY <5>1
        <4> QED
          BY <3>4, <4>1, <4>2
      <3>6. ASSUME Distinct(q)
            PROVE  Distinct(t)
        <4>1. ASSUME NEW j \in 1 .. Len(s)
              PROVE  t[j].c # q[i].c
          <5>1. PICK k \in 1 .. i - 1 : s[j] = q[k]
            BY <3>2, <3>4
          <5>2. k \in DOMAIN q /\ i \in DOMAIN q /\ k # i
            BY <1>1
          <5>3. q[k].c # q[i].c
            BY <3>6, <5>2 DEF Distinct
          <5> QED
            BY <3>3, <5>1, <5>3
        <4>2. ASSUME NEW j \in 1 .. Len(s) + 1, NEW k \in 1 .. Len(s) + 1, t[j].c = t[k].c
              PROVE  j = k
          <5>1. CASE j \in 1 .. Len(s) /\ k \in 1 .. Len(s)
            <6>1. s[j].c = s[k].c
              BY <3>3, <4>2, <5>1
            <6> QED
              BY <3>2, <3>4, <3>6, <5>1, <6>1 DEF Distinct
          <5>2. CASE j = Len(s) + 1
            BY <3>3, <3>4, <4>1, <4>2, <5>2
          <5>3. CASE k = Len(s) + 1
            BY <3>3, <3>4, <4>1, <4>2, <5>3
          <5> QED
            BY <3>4, <5>1, <5>2, <5>3
        <4> QED
          BY <3>4, <4>2 DEF Distinct
      <3> QED
        BY <3>1, <3>3, <3>5, <3>6 DEF Good
    <2> QED
      BY <2>2, <2>3
  <1> HIDE DEF Good
  <1>6. ASSUME T # {}
        PROVE  FALSE
    <2>1. PICK i \in T : \A y \in T : i <= y
      <3>1. T \in SUBSET Nat
        BY <1>1
      <3> QED
        BY <1>6, <3>1, LeastOf, Zenon
    <2>2. i # 0
      BY <1>4, <2>1
    <2>3. i \in 1 .. Len(q) /\ i - 1 \in 0 .. Len(q) /\ i - 1 \notin T
      BY <1>1, <2>1, <2>2
    <2>4. Good(i - 1)
      BY <2>3
    <2> QED
      BY <1>5, <2>1, <2>3, <2>4
  <1>7. Len(q) \in 0 .. Len(q) /\ Len(q) \notin T
    BY <1>1, <1>6
  <1>8. Good(Len(q))
    BY <1>7
  <1> QED
    BY <1>1, <1>2, <1>8 DEF Good, Rearranged

-----------------------------------------------------------------------------
(* write_msg                                                                *)

Stages == {"zero", "connecting", "ready", "writing", "replying", "unset"}

Relays == [stage : Stages, queue : Queues, dialing : 0 .. 1, dialed : Nat, refused : Nat,
           reads : Nat, failed : Nat, writes : Nat]

\* What write_msg leaves of a relay that was ready: it writes the message of the front, or
\* nobody has one.
Woken(s, t) ==
    /\ t \in Relays
    /\ Rearranged(s.queue, t.queue)
    /\ program = "relay" => t.queue = s.queue
    /\ t.dialing = s.dialing /\ t.dialed = s.dialed /\ t.refused = s.refused
    /\ t.reads = s.reads /\ t.failed = s.failed
    /\ \/ /\ t.stage = "ready" /\ t.writes = s.writes
          /\ \A i \in DOMAIN t.queue : t.queue[i].n = 0
       \/ /\ t.stage = "writing" /\ t.writes = s.writes + 1
          /\ t.queue # <<>>
          /\ program # "relay" => t.queue[1].n > 0

LEMMA Requeued ==
    ASSUME NEW s \in Relays, NEW q \in Queues
    PROVE  LET t == [s EXCEPT !.queue = q]
           IN  /\ t \in Relays /\ t.queue = q /\ t.stage = s.stage
               /\ t.dialing = s.dialing /\ t.dialed = s.dialed /\ t.refused = s.refused
               /\ t.reads = s.reads /\ t.failed = s.failed /\ t.writes = s.writes
  BY DEF Relays

\* One field of the relay set anew.
LEMMA OneField ==
    ASSUME NEW s \in Relays
    PROVE  /\ \A x \in Stages : [s EXCEPT !.stage = x] \in Relays
           /\ \A x \in 0 .. 1 : [s EXCEPT !.dialing = x] \in Relays
           /\ \A x \in Nat : /\ [s EXCEPT !.dialed = x] \in Relays
                            /\ [s EXCEPT !.refused = x] \in Relays
                            /\ [s EXCEPT !.reads = x] \in Relays
                            /\ [s EXCEPT !.failed = x] \in Relays
                            /\ [s EXCEPT !.writes = x] \in Relays
  BY DEF Relays

LEMMA Fields ==
    ASSUME NEW s \in Relays
    PROVE  /\ s.stage \in Stages /\ s.queue \in Queues /\ s.dialing \in 0 .. 1
           /\ s.dialed \in Nat /\ s.refused \in Nat /\ s.reads \in Nat /\ s.failed \in Nat
           /\ s.writes \in Nat
  BY DEF Relays

LEMMA WriteBegun ==
    ASSUME NEW s \in Relays
    PROVE  LET t == Write(s)
           IN  /\ t \in Relays /\ t.queue = s.queue /\ t.stage = "writing"
               /\ t.dialing = s.dialing /\ t.dialed = s.dialed /\ t.refused = s.refused
               /\ t.reads = s.reads /\ t.failed = s.failed /\ t.writes = s.writes + 1
  <1> DEFINE u == [s EXCEPT !.stage = "writing"]
             t == [u EXCEPT !.writes = s.writes + 1]
  <1>1. u \in Relays
    BY OneField DEF Stages
  <1>2. /\ u.queue = s.queue /\ u.stage = "writing"
        /\ u.dialing = s.dialing /\ u.dialed = s.dialed /\ u.refused = s.refused
        /\ u.reads = s.reads /\ u.failed = s.failed /\ u.writes = s.writes
    BY DEF Relays
  <1>3. Write(s) = t
    BY DEF Write
  <1> HIDE DEF u
  <1>4. s.writes + 1 \in Nat
    BY Fields
  <1>5. t \in Relays
    BY <1>1, <1>4, OneField
  <1>6. /\ t.queue = u.queue /\ t.stage = u.stage
        /\ t.dialing = u.dialing /\ t.dialed = u.dialed /\ t.refused = u.refused
        /\ t.reads = u.reads /\ t.failed = u.failed /\ t.writes = s.writes + 1
    BY <1>1 DEF Relays
  <1> QED
    BY <1>2, <1>3, <1>5, <1>6

LEMMA RearrangedTwice ==
    ASSUME NEW q \in Queues, NEW r, NEW t, Rearranged(q, r), Rearranged(r, t)
    PROVE  Rearranged(q, t)
  <1>1. ASSUME NEW j \in DOMAIN t
        PROVE  \E i \in DOMAIN q : t[j] = q[i]
    <2>1. PICK k \in DOMAIN r : t[j] = r[k]
      BY DEF Rearranged
    <2>2. PICK i \in DOMAIN q : r[k] = q[i]
      BY DEF Rearranged
    <2> QED
      BY <2>1, <2>2
  <1> QED
    BY <1>1 DEF Rearranged

LEMMA RearrangedSame ==
    ASSUME NEW q \in Queues
    PROVE  Rearranged(q, q)
  BY DEF Rearranged

LEMMA ListWoken ==
    ASSUME NEW s \in Relays, s.stage = "ready", program # "relay"
    PROVE  Woken(s, WriteMsgList(s))
  <1>0. s.queue \in Queues
    BY DEF Relays
  <1>1. CASE s.queue = <<>>
    <2>1. WriteMsgList(s) = s
      BY <1>1 DEF WriteMsgList
    <2>2. DOMAIN s.queue = {}
      BY <1>1
    <2> QED
      BY <1>0, <2>1, <2>2, RearrangedSame DEF Woken
  <1>2. CASE s.queue # <<>>
    <2> DEFINE q == Spliced(s.queue)
               u == [s EXCEPT !.queue = q]
    <2>1. /\ Rearranged(s.queue, q) /\ q # <<>> /\ q \in Queues
          /\ q[1].n = 0 => \A i \in DOMAIN q : q[i].n = 0
      BY <1>0, <1>2, SplicedQueue DEF Rearranged
    <2>2. WriteMsgList(s) = IF q[1].n = 0 THEN u ELSE Write(u)
      BY <1>2 DEF WriteMsgList
    <2> HIDE DEF q
    <2>3. /\ u \in Relays /\ u.queue = q /\ u.stage = s.stage
          /\ u.dialing = s.dialing /\ u.dialed = s.dialed /\ u.refused = s.refused
          /\ u.reads = s.reads /\ u.failed = s.failed /\ u.writes = s.writes
      BY <2>1, Requeued
    <2> HIDE DEF u
    <2>4. CASE q[1].n = 0
      BY <2>1, <2>2, <2>3, <2>4 DEF Woken
    <2>5. CASE q[1].n # 0
      <3> DEFINE w == Write(u)
      <3>1. /\ w \in Relays /\ w.queue = q /\ w.stage = "writing"
            /\ w.dialing = s.dialing /\ w.dialed = s.dialed /\ w.refused = s.refused
            /\ w.reads = s.reads /\ w.failed = s.failed /\ w.writes = s.writes + 1
        BY <2>3, WriteBegun
      <3>2. q[1].n > 0
        <4>1. 1 \in 1 .. Len(q) /\ q[1].n \in Nat
          BY <2>1, QueueElements
        <4> QED
          BY <2>5, <4>1
      <3>3. WriteMsgList(s) = w
        BY <2>2, <2>5
      <3> HIDE DEF w
      <3> QED
        BY <2>1, <3>1, <3>2, <3>3 DEF Woken
    <2> QED
      BY <2>4, <2>5
  <1> QED
    BY <1>1, <1>2

\* write_msg of each program, called in the stage "ready".
LEMMA Awake ==
    ASSUME NEW s \in Relays, s.stage = "ready", program \in {"relay", "list", "proxy"}
    PROVE  Woken(s, WriteMsg(s))
  <1>0. s.queue \in Queues
    BY DEF Relays
  <1>1. CASE program = "relay"
    <2>1. WriteMsg(s) = IF s.queue = <<>> THEN s ELSE Write(s)
      BY <1>1 DEF WriteMsg, WriteMsgRelay
    <2>2. CASE s.queue = <<>>
      <3>1. DOMAIN s.queue = {}
        BY <2>2
      <3> QED
        BY <1>0, <2>1, <2>2, <3>1, RearrangedSame DEF Woken
    <2>3. CASE s.queue # <<>>
      <3> DEFINE w == Write(s)
      <3>1. /\ w \in Relays /\ w.queue = s.queue /\ w.stage = "writing"
            /\ w.dialing = s.dialing /\ w.dialed = s.dialed /\ w.refused = s.refused
            /\ w.reads = s.reads /\ w.failed = s.failed /\ w.writes = s.writes + 1
        BY WriteBegun
      <3>2. WriteMsg(s) = w
        BY <2>1, <2>3
      <3> HIDE DEF w
      <3> QED
        BY <1>0, <1>1, <2>3, <3>1, <3>2, RearrangedSame DEF Woken
    <2> QED
      BY <2>2, <2>3
  <1>2. CASE program = "list"
    <2>1. WriteMsg(s) = WriteMsgList(s)
      BY <1>2 DEF WriteMsg
    <2> QED
      BY <1>2, <2>1, ListWoken
  <1>3. CASE program = "proxy"
    <2> DEFINE q == Connected(s.queue)
               u == [s EXCEPT !.queue = q]
    <2>1. WriteMsg(s) = IF s.queue = <<>> THEN s ELSE IF u.queue = <<>> THEN u ELSE WriteMsgList(u)
      BY <1>3 DEF WriteMsg, WriteMsgProxy
    <2>2. Rearranged(s.queue, q) /\ q \in Queues
      BY <1>0, ConnectedQueue DEF Rearranged
    <2> HIDE DEF q
    <2>3. /\ u \in Relays /\ u.queue = q /\ u.stage = s.stage
          /\ u.dialing = s.dialing /\ u.dialed = s.dialed /\ u.refused = s.refused
          /\ u.reads = s.reads /\ u.failed = s.failed /\ u.writes = s.writes
      BY <2>2, Requeued
    <2> HIDE DEF u
    <2>4. CASE s.queue = <<>>
      <3>1. DOMAIN s.queue = {}
        BY <2>4
      <3> QED
        BY <1>0, <1>3, <2>1, <2>4, <3>1, RearrangedSame DEF Woken
    <2>5. CASE s.queue # <<>> /\ q = <<>>
      <3>1. DOMAIN q = {} /\ WriteMsg(s) = u
        BY <2>1, <2>3, <2>5
      <3> QED
        BY <1>3, <2>2, <2>3, <3>1 DEF Woken
    <2>6. CASE s.queue # <<>> /\ q # <<>>
      <3>1. WriteMsg(s) = WriteMsgList(u)
        BY <2>1, <2>3, <2>6
      <3> DEFINE w == WriteMsgList(u)
      <3>2. Woken(u, w)
        BY <1>3, <2>3, ListWoken
      <3> HIDE DEF w
      <3>3. Rearranged(s.queue, w.queue)
        BY <1>0, <2>2, <2>3, <3>2, RearrangedTwice DEF Woken
      <3>4. WriteMsg(s) = w
        BY <3>1 DEF w
      <3> QED
        BY <1>3, <2>3, <3>2, <3>3, <3>4 DEF Woken
    <2> QED
      BY <2>4, <2>5, <2>6
  <1> QED
    BY <1>1, <1>2, <1>3

-----------------------------------------------------------------------------
(* The invariant                                                            *)

Conns ==
    [Conn -> [state : Reading \union {"waiting", "gone", "dead"}, bound : BOOLEAN, params : BOOLEAN]]

Histories ==
    /\ conn \in Conns
    /\ broken \in 0 .. MaxBroken
    /\ replies \in [Conn -> Nat] /\ asked \in [Conn -> Nat] /\ answered \in [Conn -> Nat]
    /\ overlap \in BOOLEAN /\ deep \in BOOLEAN

RelayTypes ==
    /\ program \in Programs /\ ap \in Relays
    /\ fault \in {"none", "assert", "empty", "iterator", "dangling", "thrown"}
    /\ Histories

\* relay.cpp queues messages, the others clients, each of which messager_ keeps.
EntriesKept(q, k) ==
    IF program = "relay" THEN \A i \in DOMAIN q : q[i].n = 1
    ELSE Distinct(q) /\ \A i \in DOMAIN q : k[q[i].c].bound

\* The proxy has no connection, and one write under way at a time.
WritesAlone(s) ==
    /\ s.stage \in {"ready", "writing", "unset"}
    /\ s.writes = IF s.stage = "writing" THEN 1 ELSE 0
    /\ s.dialing = 0 /\ s.dialed = 0 /\ s.refused = 0 /\ s.reads = 0 /\ s.failed = 0
    /\ s.stage = "writing" => s.queue # <<>> /\ s.queue[1].n > 0

Quiet(s, r) == s.writes = 0 /\ \A c \in Conn : r[c] = 0

\* The others have one write or one answer under way, that of the front.
OneAtATime(s, r) ==
    /\ s.stage = "writing" => s.writes = 1 /\ \A c \in Conn : r[c] = 0
    /\ s.stage = "replying" =>
           s.writes = 0 /\ \E c \in Conn : r = [d \in Conn |-> IF d = c THEN 1 ELSE 0]
    /\ s.stage \notin {"writing", "replying"} => Quiet(s, r)
    /\ s.stage \in {"writing", "replying"} => s.queue # <<>> /\ s.queue[1].n > 0

\* What is to come for each stage.
Moves(s, r) ==
    /\ s.stage \in {"writing", "replying"} => s.writes > 0 \/ \E c \in Conn : r[c] > 0
    /\ s.stage = "connecting" => s.dialing + s.dialed + s.refused > 0
    /\ s.stage = "ready" => \A i \in DOMAIN s.queue : s.queue[i].n = 0

LiveAt(q, c) == {i \in DOMAIN q : q[i].c = c /\ q[i].live}

\* The messages of c that are still to be answered: the front has been while its answer
\* is sent.
Waiting(s, c) == {i \in LiveAt(s.queue, c) : i > 1 \/ s.stage # "replying"}

Owed(s, an, as) ==
    IF program = "relay" THEN \A c \in Conn : an[c] + Cardinality(Waiting(s, c)) <= as[c]
    ELSE \A i \in DOMAIN s.queue :
             an[s.queue[i].c] + s.queue[i].n
                 <= as[s.queue[i].c] + IF i = 1 /\ s.stage = "replying" THEN 1 ELSE 0

\* relay.cpp takes two messages of a client back, one when its connection ends and one
\* when it is destroyed; the others clear the pointers to it.
LiveOnes(q, k, d) ==
    IF program = "relay"
    THEN ~d => \A c \in Conn :
                   /\ k[c].state = "dead" => LiveAt(q, c) = {}
                   /\ k[c].state = "gone" => \A i, j \in LiveAt(q, c) : i = j
    ELSE \A i \in DOMAIN q : q[i].live \/ k[q[i].c].state \in {"gone", "dead"}

Running ==
    /\ EntriesKept(ap.queue, conn)
    /\ program = "proxy" => WritesAlone(ap) /\ ~overlap
    /\ program # "proxy" /\ ~overlap => OneAtATime(ap, replies)
    /\ Moves(ap, replies)
    /\ ~overlap => Owed(ap, answered, asked)
    /\ LiveOnes(ap.queue, conn, deep)

RelayInv == RelayTypes /\ NoHarm /\ AnsweredOnce /\ (fault = "none" => Running)

LEMMA Kinds ==
    ASSUME RelayTypes
    PROVE  program \in {"relay", "list", "proxy"}
  BY ProgramsAssumption DEF RelayTypes

LEMMA InitRelayInv == Init => RelayInv
  <1> SUFFICES ASSUME Init
               PROVE  RelayInv
    OBVIOUS
  <1>1. /\ ap \in Relays /\ ap.queue = <<>> /\ ap.writes = 0 /\ ap.dialed = 0 /\ ap.refused = 0
        /\ ap.reads = 0 /\ ap.failed = 0
        /\ program = "proxy" => ap.stage \in {"ready", "unset"} /\ ap.dialing = 0
        /\ program # "proxy" => ap.stage = "connecting" /\ ap.dialing = 1
    <2>1. <<>> \in Queues
      BY EmptySeq DEF Queues
    <2>2. ap \in [stage : Stages, queue : {<<>>}, dialing : 0 .. 1, dialed : {0}, refused : {0},
                  reads : {0}, failed : {0}, writes : {0}]
      BY DEF Init, Stages
    <2>3. ap \in Relays
      BY <2>1, <2>2 DEF Relays
    <2> QED
      BY <2>2, <2>3 DEF Init
  <1>2. /\ conn \in Conns /\ \A c \in Conn : conn[c].state = "waiting"
        /\ replies = [c \in Conn |-> 0] /\ asked = [c \in Conn |-> 0] /\ answered = [c \in Conn |-> 0]
    BY DEF Init, Conns
  <1>3. program \in Programs /\ fault = "none" /\ overlap = FALSE /\ deep = FALSE /\ broken = 0
        /\ broken \in 0 .. MaxBroken
    BY BoundsAssumption DEF Init
  <1>4. RelayTypes
    BY <1>1, <1>2, <1>3 DEF RelayTypes, Histories
  <1>5. DOMAIN ap.queue = {}
    BY <1>1
  <1>6. \A c \in Conn : LiveAt(ap.queue, c) = {} /\ Cardinality(Waiting(ap, c)) = 0
    <2>1. \A c \in Conn : LiveAt(ap.queue, c) = {} /\ Waiting(ap, c) = {}
      BY <1>5 DEF LiveAt, Waiting
    <2> QED
      BY <2>1, FS_EmptySet
  <1>7. EntriesKept(ap.queue, conn) /\ LiveOnes(ap.queue, conn, deep)
    BY <1>5, <1>6 DEF EntriesKept, LiveOnes, Distinct
  <1>8. Owed(ap, answered, asked)
    BY <1>2, <1>5, <1>6 DEF Owed
  <1>9. program = "proxy" => WritesAlone(ap)
    BY <1>1 DEF WritesAlone
  <1>10. program # "proxy" => OneAtATime(ap, replies)
    BY <1>1, <1>2 DEF OneAtATime, Quiet
  <1>11. Moves(ap, replies)
    BY <1>1, <1>5 DEF Moves
  <1>12. NoHarm /\ AnsweredOnce
    BY <1>2, <1>3 DEF NoHarm, AnsweredOnce
  <1> QED
    BY <1>3, <1>4, <1>7, <1>8, <1>9, <1>10, <1>11, <1>12 DEF RelayInv, Running

\* A handler that leaves the relay ready as s ends in write_msg, which keeps the invariant.
LEMMA GoesOn ==
    ASSUME RelayTypes, NEW s \in Relays, s.stage = "ready",
           ap' = WriteMsg(s), fault' = WriteFault(s), UNCHANGED program, UNCHANGED deep,
           Histories',
           EntriesKept(s.queue, conn'),
           program = "proxy" => WritesAlone(s) /\ ~overlap',
           program # "proxy" /\ ~overlap' => Quiet(s, replies'),
           ~overlap' => Owed(s, answered', asked') /\ \A c \in Conn : answered'[c] <= asked'[c],
           LiveOnes(s.queue, conn', deep)
    PROVE  RelayInv'
  <1> DEFINE t == WriteMsg(s)
             q == s.queue
  <1>1. Woken(s, t)
    BY Awake, Kinds
  <1>2. ap' = t
    OBVIOUS
  <1> HIDE DEF t
  <1>3. /\ t \in Relays /\ q \in Queues /\ t.queue \in Queues
        /\ DOMAIN q = 1 .. Len(q) /\ DOMAIN t.queue = 1 .. Len(t.queue) /\ Len(t.queue) \in Nat
        /\ \A j \in DOMAIN t.queue : \E i \in DOMAIN q : t.queue[j] = q[i]
        /\ Distinct(q) => Distinct(t.queue)
        /\ t.queue # <<>> => 1 \in DOMAIN t.queue
    <2>1. /\ t \in Relays /\ t.queue \in Queues
          /\ \A j \in DOMAIN t.queue : \E i \in DOMAIN q : t.queue[j] = q[i]
          /\ Distinct(q) => Distinct(t.queue)
      BY <1>1 DEF Woken, Rearranged
    <2>2. q \in Queues
      BY Fields
    <2>3. DOMAIN q = 1 .. Len(q)
      BY <2>2, QueueElements
    <2>4. DOMAIN t.queue = 1 .. Len(t.queue) /\ Len(t.queue) \in Nat
      BY <2>1, QueueElements
    <2>5. t.queue # <<>> => 1 \in 1 .. Len(t.queue)
      BY <2>1, QueueElements
    <2>6. t.queue # <<>> => 1 \in DOMAIN t.queue
      BY <2>4, <2>5
    <2> QED
      BY <2>1, <2>2, <2>3, <2>4, <2>6, Zenon
  <1>4. \/ /\ t.stage = "ready" /\ t.writes = s.writes
           /\ \A i \in DOMAIN t.queue : t.queue[i].n = 0
        \/ /\ t.stage = "writing" /\ t.writes = s.writes + 1 /\ t.queue # <<>>
           /\ program # "relay" => t.queue[1].n > 0
    BY <1>1 DEF Woken
  <1>5. program = "relay" => t.queue = q
    BY <1>1 DEF Woken
  <1>6. s.writes \in Nat
    BY Fields
  <1>7. EntriesKept(t.queue, conn')
    <2>1. CASE program = "relay"
      BY <1>5, <2>1 DEF EntriesKept
    <2>2. CASE program # "relay"
      <3>1. ASSUME NEW j \in DOMAIN t.queue
            PROVE  conn'[t.queue[j].c].bound
        <4>1. PICK i \in DOMAIN q : t.queue[j] = q[i]
          BY <1>3
        <4> QED
          BY <2>2, <4>1 DEF EntriesKept
      <3> QED
        BY <1>3, <2>2, <3>1 DEF EntriesKept
    <2> QED
      BY <2>1, <2>2
  <1>8. program = "proxy" => WritesAlone(t) /\ ~overlap'
    <2>1. t.dialing = s.dialing /\ t.dialed = s.dialed /\ t.refused = s.refused
          /\ t.reads = s.reads /\ t.failed = s.failed
      BY <1>1 DEF Woken
    <2> QED
      BY <1>4, <2>1 DEF WritesAlone
  <1>9. program # "proxy" /\ ~overlap' => OneAtATime(t, replies')
    <2> SUFFICES ASSUME program # "proxy", ~overlap'
                 PROVE  OneAtATime(t, replies')
      OBVIOUS
    <2>1. s.writes = 0 /\ \A c \in Conn : replies'[c] = 0
      BY DEF Quiet
    <2>2. t.stage = "writing" => t.queue # <<>> /\ t.queue[1].n > 0
      <3>1. program = "relay" /\ t.queue # <<>> => t.queue[1].n = 1
        BY <1>3, <1>7 DEF EntriesKept
      <3> QED
        BY <1>4, <3>1
    <2> QED
      BY <1>4, <2>1, <2>2 DEF OneAtATime, Quiet
  <1>10. Moves(t, replies')
    BY <1>4, <1>6 DEF Moves
  <1>11. ~overlap' => Owed(t, answered', asked')
    <2> SUFFICES ASSUME ~overlap'
                 PROVE  Owed(t, answered', asked')
      OBVIOUS
    <2>1. CASE program = "relay"
      <3>1. \A c \in Conn : Waiting(t, c) = Waiting(s, c)
        BY <1>4, <1>5, <2>1 DEF Waiting
      <3> QED
        BY <2>1, <3>1 DEF Owed
    <2>2. CASE program # "relay"
      <3>1. ASSUME NEW j \in DOMAIN t.queue
            PROVE  answered'[t.queue[j].c] + t.queue[j].n <= asked'[t.queue[j].c] + 0
        <4>1. PICK i \in DOMAIN q : t.queue[j] = q[i]
          BY <1>3
        <4> QED
          BY <2>2, <4>1 DEF Owed
      <3>2. t.stage # "replying"
        BY <1>4
      <3> QED
        BY <2>2, <3>1, <3>2 DEF Owed
    <2> QED
      BY <2>1, <2>2
  <1>12. LiveOnes(t.queue, conn', deep)
    <2>1. CASE program = "relay"
      BY <1>5, <2>1
    <2>2. CASE program # "relay"
      <3>1. ASSUME NEW j \in DOMAIN t.queue
            PROVE  t.queue[j].live \/ conn'[t.queue[j].c].state \in {"gone", "dead"}
        <4>1. PICK i \in DOMAIN q : t.queue[j] = q[i]
          BY <1>3
        <4> QED
          BY <2>2, <4>1 DEF LiveOnes
      <3> QED
        BY <2>2, <3>1 DEF LiveOnes
    <2> QED
      BY <2>1, <2>2
  <1>13. Running'
    BY <1>2, <1>7, <1>8, <1>9, <1>10, <1>11, <1>12 DEF Running, LiveOnes, EntriesKept, Owed
  <1>14. fault' \in {"none", "iterator"} /\ (fault' = "iterator" => q # <<>> /\ program # "relay"
                                             /\ \E i \in DOMAIN q : ~ q[i].live)
    <2>1. q # <<>> => 1 \in DOMAIN q
      BY <1>3, QueueElements
    <2> QED
      BY <2>1 DEF WriteFault
  <1>15. NoHarm'
    <2>1. ASSUME fault' = "iterator"
          PROVE  program # "relay" /\ \E c \in Conn : conn'[c].state \in {"gone", "dead"}
      <3>1. PICK i \in DOMAIN q : ~ q[i].live
        BY <1>14, <2>1
      <3>2. program # "relay" /\ q[i].c \in Conn /\ conn'[q[i].c].state \in {"gone", "dead"}
        BY <1>3, <1>14, <2>1, <3>1, QueueElements DEF LiveOnes
      <3> QED
        BY <3>2
    <2> QED
      BY <1>14, <2>1 DEF NoHarm, Left
  <1>16. RelayTypes'
    BY <1>2, <1>3, <1>14 DEF RelayTypes
  <1>17. AnsweredOnce'
    BY DEF AnsweredOnce
  <1> QED
    BY <1>13, <1>15, <1>16, <1>17 DEF RelayInv

-----------------------------------------------------------------------------
(* The connection to the push server                                        *)

\* When neither a write nor an answer was under way, and none is thought to be.
LEMMA NothingUnderway ==
    ASSUME RelayInv, fault = "none", program # "proxy", ~overlap, ~Underway
    PROVE  /\ Quiet(ap, replies) /\ ap.stage \notin {"writing", "replying"}
           /\ Owed(ap, answered, asked)
  <1>1. ap.writes \in Nat /\ \A c \in Conn : replies[c] \in Nat
    BY Fields DEF RelayInv, RelayTypes, Histories
  <1>2. Quiet(ap, replies)
    BY <1>1 DEF Underway, Quiet
  <1>3. OneAtATime(ap, replies) /\ Owed(ap, answered, asked)
    BY DEF RelayInv, Running
  <1>4. ap.stage # "writing"
    BY <1>2, <1>3 DEF OneAtATime, Quiet
  <1>5. ap.stage # "replying"
    <2> SUFFICES ASSUME ap.stage = "replying"
                 PROVE  FALSE
      OBVIOUS
    <2>1. PICK c \in Conn : replies = [d \in Conn |-> IF d = c THEN 1 ELSE 0]
      BY <1>3 DEF OneAtATime
    <2>2. replies[c] = 1
      BY <2>1
    <2> QED
      BY <1>2, <2>2 DEF Quiet
  <1> QED
    BY <1>2, <1>3, <1>4, <1>5

\* The stage counts for what is owed only while an answer is sent.
LEMMA OwedSame ==
    ASSUME NEW s, NEW t, NEW an, NEW as, t.queue = s.queue, s.stage # "replying",
           t.stage # "replying", Owed(s, an, as)
    PROVE  Owed(t, an, as)
  <1>1. \A c \in Conn : Waiting(t, c) = Waiting(s, c)
    BY DEF Waiting
  <1> QED
    BY <1>1 DEF Owed

\* The stage goes to "zero" or "connecting", whatever is under way.
LEMMA Redials ==
    ASSUME RelayInv, fault = "none", program # "proxy",
           NEW t \in Relays, t.stage \in {"zero", "connecting"}, t.writes = ap.writes,
           t.stage = "connecting" => t.dialing + t.dialed + t.refused > 0,
           ap' = t, fault' = "none", UNCHANGED program, UNCHANGED deep, UNCHANGED replies,
           overlap' = (overlap \/ Underway), Histories',
           EntriesKept(t.queue, conn'), LiveOnes(t.queue, conn', deep),
           ~overlap' => Owed(t, answered', asked') /\ \A c \in Conn : answered'[c] <= asked'[c]
    PROVE  RelayInv'
  <1>1. ~overlap' => Quiet(ap, replies)
    BY NothingUnderway
  <1>2. ~overlap' => OneAtATime(t, replies')
    BY <1>1 DEF OneAtATime, Quiet
  <1>3. Moves(t, replies')
    BY DEF Moves
  <1>4. Running'
    BY <1>2, <1>3 DEF Running, LiveOnes, EntriesKept, Owed
  <1>5. RelayTypes'
    BY DEF RelayInv, RelayTypes
  <1>6. NoHarm' /\ AnsweredOnce'
    BY DEF NoHarm, AnsweredOnce
  <1> QED
    BY <1>4, <1>5, <1>6 DEF RelayInv

\* connect() drops what was under way on the old connection.
LEMMA Reconnected ==
    ASSUME NEW s \in Relays
    PROVE  LET t == Connect(s)
           IN  /\ t \in Relays /\ t.queue = s.queue /\ t.stage = "connecting" /\ t.writes = s.writes
               /\ t.dialing = 1 /\ t.dialed = s.dialed /\ t.refused \in Nat
  <1>0. /\ s.dialing \in 0 .. 1 /\ s.refused \in Nat /\ s.reads \in Nat /\ s.failed \in Nat
    BY Fields
  <1> DEFINE a == [s EXCEPT !.stage = "connecting"]
             b == [a EXCEPT !.dialing = 1]
             c == [b EXCEPT !.refused = s.refused + s.dialing]
             d == [c EXCEPT !.reads = 0]
             t == [d EXCEPT !.failed = s.failed + s.reads]
  <1>1. Connect(s) = t
    BY DEF Connect
  <1>2. a \in Relays /\ a.queue = s.queue /\ a.stage = "connecting" /\ a.writes = s.writes
        /\ a.dialed = s.dialed
    BY OneField DEF Stages, Relays
  <1> HIDE DEF a
  <1>3. b \in Relays /\ b.queue = a.queue /\ b.stage = a.stage /\ b.writes = a.writes
        /\ b.dialed = a.dialed /\ b.dialing = 1
    BY <1>2, OneField DEF Relays
  <1> HIDE DEF b
  <1>4. c \in Relays /\ c.queue = b.queue /\ c.stage = b.stage /\ c.writes = b.writes
        /\ c.dialed = b.dialed /\ c.dialing = b.dialing
    BY <1>0, <1>3, OneField DEF Relays
  <1> HIDE DEF c
  <1>5. d \in Relays /\ d.queue = c.queue /\ d.stage = c.stage /\ d.writes = c.writes
        /\ d.dialed = c.dialed /\ d.dialing = c.dialing
    BY <1>4, OneField DEF Relays
  <1> HIDE DEF d
  <1>6. t \in Relays /\ t.queue = d.queue /\ t.stage = d.stage /\ t.writes = d.writes
        /\ t.dialed = d.dialed /\ t.dialing = d.dialing
    BY <1>0, <1>5, OneField DEF Relays
  <1>7. t.refused \in Nat
    BY <1>6, Fields
  <1> QED
    BY <1>1, <1>2, <1>3, <1>4, <1>5, <1>6, <1>7

LEMMA HandleConnectRelayInv ==
    ASSUME RelayInv, fault = "none", HandleConnect
    PROVE  RelayInv'
  <1>0. RelayTypes /\ Running /\ ap \in Relays
    BY DEF RelayInv, RelayTypes
  <1>1. ap.dialed \in Nat /\ ap.dialed > 0 /\ ap.reads \in Nat /\ ap.queue \in Queues
    BY <1>0, Fields DEF HandleConnect
  <1>2. program # "proxy"
    BY <1>0, <1>1 DEF Running, WritesAlone
  <1> DEFINE a == [ap EXCEPT !.dialed = ap.dialed - 1]
             b == [a EXCEPT !.stage = "ready"]
             s == [b EXCEPT !.reads = ap.reads + 1]
  <1>3. /\ ap' = WriteMsg(s) /\ fault' = WriteFault(s) /\ UNCHANGED program /\ UNCHANGED conn
        /\ UNCHANGED broken /\ UNCHANGED asked /\ UNCHANGED deep /\ UNCHANGED replies
        /\ UNCHANGED answered /\ overlap' = (overlap \/ Underway)
    BY DEF HandleConnect, ApDone
  <1>4. a \in Relays /\ a.queue = ap.queue /\ a.writes = ap.writes
    BY <1>0, <1>1, OneField DEF Relays
  <1> HIDE DEF a
  <1>5. b \in Relays /\ b.queue = a.queue /\ b.stage = "ready" /\ b.writes = a.writes
    BY <1>4, OneField DEF Relays, Stages
  <1> HIDE DEF b
  <1>6. s \in Relays /\ s.queue = b.queue /\ s.stage = b.stage /\ s.writes = b.writes
    BY <1>1, <1>5, OneField DEF Relays
  <1> HIDE DEF s
  <1>7. /\ s \in Relays /\ s.queue = ap.queue /\ s.stage = "ready" /\ s.writes = ap.writes
    BY <1>4, <1>5, <1>6
  <1>8. EntriesKept(s.queue, conn') /\ LiveOnes(s.queue, conn', deep)
    BY <1>0, <1>3, <1>7 DEF Running
  <1>9. ~overlap' => /\ Quiet(s, replies') /\ Owed(s, answered', asked')
                     /\ \A c \in Conn : answered'[c] <= asked'[c]
    <2> SUFFICES ASSUME ~overlap'
                 PROVE  /\ Quiet(s, replies') /\ Owed(s, answered', asked')
                        /\ \A c \in Conn : answered'[c] <= asked'[c]
      OBVIOUS
    <2>1. ~overlap /\ ~Underway
      BY <1>3, Zenon
    <2>2. Quiet(ap, replies) /\ ap.stage # "replying" /\ Owed(ap, answered, asked)
      BY <1>2, <2>1, NothingUnderway
    <2>3. Owed(s, answered, asked)
      BY <1>7, <2>2, OwedSame
    <2>4. \A c \in Conn : answered[c] <= asked[c]
      BY <2>1 DEF RelayInv, AnsweredOnce
    <2> QED
      BY <1>3, <1>7, <2>2, <2>3, <2>4 DEF Quiet
  <1>10. Histories'
    BY <1>0, <1>3 DEF RelayTypes, Histories, Underway
  <1> QED
    BY <1>0, <1>2, <1>3, <1>7, <1>8, <1>9, <1>10, GoesOn

LEMMA HandleConnectErrorRelayInv ==
    ASSUME RelayInv, fault = "none", HandleConnectError \/ HandleRead
    PROVE  RelayInv'
  <1>0. RelayTypes /\ Running /\ ap \in Relays
    BY DEF RelayInv, RelayTypes
  <1>1. ap.refused \in Nat /\ ap.failed \in Nat /\ (ap.refused > 0 \/ ap.failed > 0)
    BY <1>0, Fields DEF HandleConnectError, HandleRead
  <1>2. program # "proxy"
    BY <1>0, <1>1 DEF Running, WritesAlone
  <1>3. /\ fault' = "none" /\ UNCHANGED program /\ UNCHANGED conn
        /\ UNCHANGED broken /\ UNCHANGED asked /\ UNCHANGED deep /\ UNCHANGED replies
        /\ UNCHANGED answered /\ overlap' = (overlap \/ Underway)
    BY DEF HandleConnectError, HandleRead, ApDone
  <1>4. PICK t \in Relays : /\ ap' = t /\ t.queue = ap.queue /\ t.stage \in {"zero", "connecting"}
                            /\ t.writes = ap.writes
                            /\ t.stage = "connecting" => t.dialing + t.dialed + t.refused > 0
    <2>1. CASE HandleConnectError
      <3> DEFINE a == [ap EXCEPT !.refused = ap.refused - 1]
                 t == [a EXCEPT !.stage = "zero"]
      <3>1. ap' = t /\ ap.refused - 1 \in Nat
        BY <1>1, <2>1 DEF HandleConnectError, ApDone
      <3>2. a \in Relays /\ a.queue = ap.queue /\ a.writes = ap.writes
        BY <1>0, <3>1, OneField DEF Relays
      <3> HIDE DEF a
      <3>3. t \in Relays /\ t.queue = a.queue /\ t.stage = "zero" /\ t.writes = a.writes
        BY <3>2, OneField DEF Relays, Stages
      <3> HIDE DEF t
      <3> QED
        BY <3>1, <3>2, <3>3
    <2>2. CASE HandleRead
      <3> DEFINE a == [ap EXCEPT !.failed = ap.failed - 1]
                 t == Connect(a)
      <3>1. ap' = t /\ ap.failed - 1 \in Nat
        BY <1>1, <2>2 DEF HandleRead, ApDone
      <3>2. a \in Relays /\ a.queue = ap.queue /\ a.writes = ap.writes
        BY <1>0, <3>1, OneField DEF Relays
      <3> HIDE DEF a
      <3>3. /\ t \in Relays /\ t.queue = a.queue /\ t.stage = "connecting" /\ t.writes = a.writes
            /\ t.dialing = 1 /\ t.dialed = a.dialed /\ t.refused \in Nat
        BY <3>2, Reconnected
      <3> HIDE DEF t
      <3>4. a.dialed \in Nat
        BY <3>2, Fields
      <3>5. t.dialing + t.dialed + t.refused > 0
        BY <3>3, <3>4
      <3> QED
        BY <3>1, <3>2, <3>3, <3>5
    <2> QED
      BY <2>1, <2>2
  <1>5. EntriesKept(t.queue, conn') /\ LiveOnes(t.queue, conn', deep)
    BY <1>0, <1>3, <1>4 DEF Running
  <1>6. ~overlap' => Owed(t, answered', asked') /\ \A c \in Conn : answered'[c] <= asked'[c]
    <2> SUFFICES ASSUME ~overlap'
                 PROVE  Owed(t, answered', asked') /\ \A c \in Conn : answered'[c] <= asked'[c]
      OBVIOUS
    <2>1. ~overlap /\ ~Underway
      BY <1>3
    <2>2. ap.stage # "replying" /\ Owed(ap, answered, asked)
      BY <1>2, <2>1, NothingUnderway
    <2>3. Owed(t, answered, asked)
      BY <1>4, <2>2, OwedSame
    <2>4. \A c \in Conn : answered[c] <= asked[c]
      BY <2>1 DEF RelayInv, AnsweredOnce
    <2> QED
      BY <1>3, <2>3, <2>4
  <1>7. Histories'
    BY <1>0, <1>3 DEF RelayTypes, Histories, Underway
  <1> QED
    BY <1>2, <1>3, <1>4, <1>5, <1>6, <1>7, Redials

-----------------------------------------------------------------------------
(* Answers                                                                  *)

LEMMA WaitingFinite ==
    ASSUME NEW s, s.queue \in Queues, NEW c
    PROVE  IsFiniteSet(Waiting(s, c)) /\ Cardinality(Waiting(s, c)) \in Nat
  <1>1. Len(s.queue) \in Nat /\ DOMAIN s.queue = 1 .. Len(s.queue)
    BY QueueElements
  <1>2. Waiting(s, c) \in SUBSET (1 .. Len(s.queue))
    BY <1>1 DEF Waiting, LiveAt
  <1>3. IsFiniteSet(1 .. Len(s.queue))
    BY <1>1, FS_Interval
  <1> QED
    BY <1>2, <1>3, FS_Subset, FS_CardinalityType

\* Each message waiting in t has one of its own that waits in s.
LEMMA FewerWaiting ==
    ASSUME NEW s, s.queue \in Queues, NEW t, NEW c,
           NEW m \in [Waiting(t, c) -> Waiting(s, c)],
           \A i, j \in Waiting(t, c) : m[i] = m[j] => i = j
    PROVE  Cardinality(Waiting(t, c)) <= Cardinality(Waiting(s, c))
  <1>1. m \in Injection(Waiting(t, c), Waiting(s, c))
    BY DEF Injection, IsInjective
  <1> QED
    BY <1>1, WaitingFinite, FS_Injection

LEMMA WaitingTail ==
    ASSUME NEW s, s.queue \in Queues, s.queue # <<>>, NEW t, t.queue = Tail(s.queue), NEW c
    PROVE  Cardinality(Waiting(t, c)) <= Cardinality(Waiting(s, c))
  <1> DEFINE q == s.queue
             r == Tail(q)
             m == [i \in Waiting(t, c) |-> i + 1]
  <1>1. /\ r \in Queues /\ Len(r) = Len(q) - 1
        /\ \A i \in 1 .. Len(q) - 1 : r[i] = q[i + 1]
    BY FirstTaken
  <1>2. Len(q) \in Nat /\ DOMAIN q = 1 .. Len(q)
    BY QueueElements
  <1>3. DOMAIN r = 1 .. Len(r)
    BY <1>1, QueueElements
  <1>4. ASSUME NEW i \in Waiting(t, c)
        PROVE  i \in Nat /\ i + 1 \in Waiting(s, c)
    <2>1. i \in 1 .. Len(q) - 1 /\ r[i].c = c /\ r[i].live
      BY <1>1, <1>3 DEF Waiting, LiveAt
    <2>2. i + 1 \in 1 .. Len(q) /\ i + 1 > 1 /\ q[i + 1].c = c /\ q[i + 1].live
      BY <1>1, <1>2, <2>1
    <2> QED
      BY <1>2, <2>1, <2>2 DEF Waiting, LiveAt
  <1>5. m \in [Waiting(t, c) -> Waiting(s, c)] /\ \A i, j \in Waiting(t, c) : m[i] = m[j] => i = j
    BY <1>4
  <1> HIDE DEF m
  <1> QED
    BY <1>5, FewerWaiting

\* handle_reply of relay.cpp: the front is taken away.
LEMMA RelayReplied ==
    ASSUME RelayInv, fault = "none", program = "relay", NEW s \in Relays, s.queue = ap.queue,
           s.queue # <<>>
    PROVE  LET t == RepliedRelay(s)
           IN  /\ t \in Relays /\ t.stage = "ready" /\ t.writes = s.writes
               /\ EntriesKept(t.queue, conn) /\ LiveOnes(t.queue, conn, deep)
               /\ ~overlap => Owed(t, answered, asked)
  <1>0. Running
    BY DEF RelayInv
  <1> DEFINE q == s.queue
             a == [s EXCEPT !.stage = "ready"]
             t == [a EXCEPT !.queue = Tail(q)]
  <1>1. RepliedRelay(s) = t
    BY DEF RepliedRelay
  <1>2. /\ Tail(q) \in Queues /\ Len(Tail(q)) = Len(q) - 1
        /\ \A i \in 1 .. Len(q) - 1 : Tail(q)[i] = q[i + 1]
    BY FirstTaken, Fields
  <1>3. Len(q) \in Nat /\ DOMAIN q = 1 .. Len(q)
    BY QueueElements, Fields
  <1>4. DOMAIN Tail(q) = 1 .. Len(q) - 1
    BY <1>2, QueueElements
  <1>5. a \in Relays /\ a.stage = "ready" /\ a.writes = s.writes
    BY OneField DEF Relays, Stages
  <1> HIDE DEF a
  <1>6. t \in Relays /\ t.queue = Tail(q) /\ t.stage = a.stage /\ t.writes = a.writes
    BY <1>2, <1>5, Requeued
  <1> HIDE DEF t
  <1>7. EntriesKept(Tail(q), conn)
    <2>1. \A i \in DOMAIN q : q[i].n = 1
      BY <1>0 DEF Running, EntriesKept
    <2>2. \A i \in 1 .. Len(q) - 1 : i + 1 \in DOMAIN q
      BY <1>3
    <2> QED
      BY <1>2, <1>4, <2>1, <2>2 DEF EntriesKept
  <1>8. LiveOnes(Tail(q), conn, deep)
    <2>1. ASSUME NEW c, NEW i \in LiveAt(Tail(q), c)
          PROVE  i \in Nat /\ i + 1 \in LiveAt(q, c)
      <3>1. i \in 1 .. Len(q) - 1 /\ Tail(q)[i].c = c /\ Tail(q)[i].live
        BY <1>4 DEF LiveAt
      <3>2. i + 1 \in DOMAIN q /\ q[i + 1] = Tail(q)[i]
        BY <1>2, <1>3, <3>1
      <3> QED
        BY <3>1, <3>2 DEF LiveAt
    <2>2. ASSUME ~ deep, NEW c \in Conn
          PROVE  /\ conn[c].state = "dead" => LiveAt(Tail(q), c) = {}
                 /\ conn[c].state = "gone" => \A i, j \in LiveAt(Tail(q), c) : i = j
      <3>1. /\ conn[c].state = "dead" => LiveAt(q, c) = {}
            /\ conn[c].state = "gone" => \A i, j \in LiveAt(q, c) : i = j
        BY <1>0, <2>2 DEF Running, LiveOnes
      <3>2. conn[c].state = "dead" => LiveAt(Tail(q), c) = {}
        BY <2>1, <3>1
      <3>3. ASSUME conn[c].state = "gone", NEW i \in LiveAt(Tail(q), c), NEW j \in LiveAt(Tail(q), c)
            PROVE  i = j
        <4>1. i \in Nat /\ j \in Nat /\ i + 1 \in LiveAt(q, c) /\ j + 1 \in LiveAt(q, c)
          BY <2>1
        <4>2. i + 1 = j + 1
          BY <3>1, <3>3, <4>1
        <4> QED
          BY <4>1, <4>2
      <3> QED
        BY <3>2, <3>3
    <2> QED
      BY <2>2 DEF LiveOnes
  <1>9. ~overlap => Owed(t, answered, asked)
    <2> SUFFICES ASSUME ~overlap, NEW c \in Conn
                 PROVE  answered[c] + Cardinality(Waiting(t, c)) <= asked[c]
      BY DEF Owed
    <2>1. answered[c] + Cardinality(Waiting(ap, c)) <= asked[c]
      BY <1>0 DEF Running, Owed
    <2>2. ap.queue \in Queues /\ t.queue \in Queues
      BY <1>2, <1>6, Fields
    <2>3. Cardinality(Waiting(t, c)) <= Cardinality(Waiting(ap, c))
      BY <1>6, <2>2, WaitingTail
    <2>4. Cardinality(Waiting(t, c)) \in Nat /\ Cardinality(Waiting(ap, c)) \in Nat
      BY <2>2, WaitingFinite
    <2>5. answered[c] \in Nat /\ asked[c] \in Nat
      BY DEF RelayInv, RelayTypes, Histories
    <2> QED
      BY <2>1, <2>3, <2>4, <2>5
  <1> QED
    BY <1>1, <1>5, <1>6, <1>7, <1>8, <1>9

\* handle_reply of apple_push_relay.cpp: the front has one message less.
LEMMA ListReplied ==
    ASSUME RelayInv, fault = "none", program = "list", NEW s \in Relays, s.queue = ap.queue,
           s.queue # <<>>, s.queue[1].n > 0
    PROVE  LET t == RepliedList(s)
           IN  /\ t \in Relays /\ t.stage = "ready" /\ t.writes = s.writes
               /\ EntriesKept(t.queue, conn) /\ LiveOnes(t.queue, conn, deep)
               /\ ~overlap => Owed(t, answered, asked)
  <1>0. Running
    BY DEF RelayInv
  <1> DEFINE q == s.queue
             e == [q[1] EXCEPT !.n = q[1].n - 1]
             r == [q EXCEPT ![1] = e]
             a == [s EXCEPT !.stage = "ready"]
             t == [a EXCEPT !.queue = r]
  <1>1. q \in Queues /\ Len(q) \in Nat /\ DOMAIN q = 1 .. Len(q) /\ 1 \in 1 .. Len(q)
    BY QueueElements, Fields
  <1>2. RepliedList(s) = t
    BY <1>1 DEF RepliedList
  <1>3. /\ \A i \in 1 .. Len(q) : /\ q[i] \in Entries /\ q[i].n \in Nat /\ q[i].c \in Conn
        /\ q[1].n - 1 \in Nat
    BY <1>1, QueueElements
  <1>4. e \in Entries /\ e.n = q[1].n - 1 /\ e.c = q[1].c /\ e.live = q[1].live
    BY <1>1, <1>3 DEF Entries
  <1>5. /\ r \in Queues /\ DOMAIN r = DOMAIN q
        /\ \A i \in 1 .. Len(q) : r[i] = IF i = 1 THEN e ELSE q[i]
    <2> HIDE DEF e
    <2>1. r \in Seq(Entries) /\ \A i \in 1 .. Len(q) : r[i] = IF i = 1 THEN e ELSE q[i]
      BY <1>1, <1>4, ExceptSeq DEF Queues
    <2> QED
      BY <2>1 DEF Queues
  <1> HIDE DEF e, r
  <1>6. a \in Relays /\ a.stage = "ready" /\ a.writes = s.writes
    BY OneField DEF Relays, Stages
  <1> HIDE DEF a
  <1>7. t \in Relays /\ t.queue = r /\ t.stage = a.stage /\ t.writes = a.writes
    BY <1>5, <1>6, Requeued
  <1> HIDE DEF t
  <1>8. \A i \in 1 .. Len(q) : r[i].c = q[i].c /\ r[i].live = q[i].live
    BY <1>4, <1>5
  <1>9. EntriesKept(r, conn)
    <2>1. Distinct(q) /\ \A i \in DOMAIN q : conn[q[i].c].bound
      BY <1>0 DEF Running, EntriesKept
    <2> QED
      BY <1>1, <1>5, <1>8, <2>1 DEF EntriesKept, Distinct
  <1>10. LiveOnes(r, conn, deep)
    <2>1. \A i \in DOMAIN q : q[i].live \/ conn[q[i].c].state \in {"gone", "dead"}
      BY <1>0 DEF Running, LiveOnes
    <2> QED
      BY <1>1, <1>5, <1>8, <2>1 DEF LiveOnes
  <1>11. ~overlap => Owed(t, answered, asked)
    <2> SUFFICES ASSUME ~overlap, NEW i \in 1 .. Len(q)
                 PROVE  answered[r[i].c] + r[i].n <= asked[r[i].c] + 0
      BY <1>1, <1>5, <1>6, <1>7 DEF Owed
    <2>1. answered[q[i].c] + q[i].n
              <= asked[q[i].c] + IF i = 1 /\ ap.stage = "replying" THEN 1 ELSE 0
      BY <1>0, <1>1 DEF Running, Owed
    <2>2. answered[q[i].c] \in Nat /\ asked[q[i].c] \in Nat /\ q[i].n \in Nat
      BY <1>3 DEF RelayInv, RelayTypes, Histories
    <2>3. CASE i = 1
      <3>1. r[i].n = q[i].n - 1
        BY <1>4, <1>5, <2>3
      <3>2. r[i].c = q[i].c
        BY <1>8
      <3> DEFINE x == answered[q[i].c]
                 y == q[i].n
                 z == asked[q[i].c]
      <3>3. x \in Nat /\ y \in Nat /\ z \in Nat /\ (x + y <= z + 1 \/ x + y <= z + 0)
        BY <2>1, <2>2
      <3> HIDE DEF x, y, z
      <3>4. x + (y - 1) <= z + 0
        BY <3>3
      <3>5. answered[q[i].c] + (q[i].n - 1) <= asked[q[i].c] + 0
        BY <3>4 DEF x, y, z
      <3> QED
        BY <3>1, <3>2, <3>5
    <2>4. CASE i # 1
      <3>1. r[i].n = q[i].n
        BY <1>5, <2>4
      <3> QED
        BY <1>8, <2>1, <2>2, <2>4, <3>1
    <2> QED
      BY <2>3, <2>4
  <1> QED
    BY <1>2, <1>6, <1>7, <1>9, <1>10, <1>11

\* handle_reply, called with the write or the answer of the front done.
LEMMA HandleReplyRelayInv ==
    ASSUME RelayInv, fault = "none", program # "proxy", NEW s \in Relays, s.queue = ap.queue,
           HandleReply(s), UNCHANGED answered, UNCHANGED overlap, replies' \in [Conn -> Nat],
           ~overlap => Quiet(s, replies') /\ ap.stage \in {"writing", "replying"}
    PROVE  RelayInv'
  <1>0. RelayTypes /\ Running /\ program \in {"relay", "list"}
    BY Kinds DEF RelayInv
  <1>1. s.queue \in Queues
    BY Fields
  <1>2. /\ UNCHANGED program /\ UNCHANGED conn /\ UNCHANGED broken /\ UNCHANGED asked
        /\ UNCHANGED deep
    BY DEF HandleReply, ApDone
  <1>3. Histories'
    BY <1>0, <1>2 DEF RelayTypes, Histories
  <1>4. \A c \in Conn : ~overlap => answered[c] <= asked[c]
    BY DEF RelayInv, AnsweredOnce
  <1>5. CASE NothingLeft(s)
    <2>1. ap' = s /\ fault' = "empty"
      BY <1>5 DEF HandleReply, ApDone
    <2>2. overlap
      <3> SUFFICES ASSUME ~overlap
                   PROVE  FALSE
        OBVIOUS
      <3>1. s.queue # <<>> /\ s.queue[1].n > 0
        BY <1>0 DEF Running, OneAtATime
      <3> QED
        BY <1>5, <3>1 DEF NothingLeft
    <2>3. RelayTypes'
      BY <1>0, <1>2, <1>3, <2>1 DEF RelayTypes
    <2> QED
      BY <2>1, <2>2, <2>3 DEF RelayInv, NoHarm, AnsweredOnce
  <1>6. CASE ~ NothingLeft(s)
    <2> DEFINE t == Replied(s)
    <2>1. ap' = WriteMsg(t) /\ fault' = WriteFault(t)
      BY <1>6 DEF HandleReply, ApDone
    <2>2. s.queue # <<>> /\ s.queue[1].n > 0
      <3>1. s.queue # <<>> /\ s.queue[1].n # 0
        BY <1>6 DEF NothingLeft
      <3>2. 1 \in 1 .. Len(s.queue)
        BY <1>1, <3>1, QueueElements
      <3>3. s.queue[1].n \in Nat
        BY <1>1, <3>2, QueueElements
      <3> QED
        BY <3>1, <3>3
    <2>3. /\ t \in Relays /\ t.stage = "ready" /\ t.writes = s.writes
          /\ EntriesKept(t.queue, conn) /\ LiveOnes(t.queue, conn, deep)
          /\ ~overlap => Owed(t, answered, asked)
      <3>1. CASE program = "relay"
        BY <2>2, <3>1, RelayReplied DEF Replied
      <3>2. CASE program = "list"
        BY <2>2, <3>2, ListReplied DEF Replied
      <3> QED
        BY <1>0, <3>1, <3>2
    <2> HIDE DEF t
    <2>4. ~overlap' => Quiet(t, replies')
      BY <2>3 DEF Quiet
    <2>5. EntriesKept(t.queue, conn') /\ LiveOnes(t.queue, conn', deep)
      BY <1>2, <2>3
    <2>6. ~overlap' => Owed(t, answered', asked') /\ \A c \in Conn : answered'[c] <= asked'[c]
      BY <1>2, <1>4, <2>3
    <2> QED
      BY <1>0, <1>2, <1>3, <2>1, <2>3, <2>4, <2>5, <2>6, GoesOn
  <1> QED
    BY <1>5, <1>6

LEMMA ReplySentRelayInv ==
    ASSUME RelayInv, fault = "none", NEW c \in Conn, ReplySent(c)
    PROVE  RelayInv'
  <1>0. RelayTypes /\ Running /\ replies \in [Conn -> Nat] /\ ap \in Relays
    BY DEF RelayInv, RelayTypes, Histories
  <1>1. /\ replies[c] > 0 /\ replies' = [replies EXCEPT ![c] = @ - 1] /\ UNCHANGED answered
        /\ UNCHANGED overlap
    BY DEF ReplySent
  <1>2. replies' \in [Conn -> Nat]
    BY <1>0, <1>1
  <1>3. CASE program # "proxy"
    <2>1. HandleReply(ap)
      BY <1>3 DEF ReplySent
    <2>2. ASSUME ~overlap
          PROVE  Quiet(ap, replies') /\ ap.stage \in {"writing", "replying"}
      <3>1. OneAtATime(ap, replies)
        BY <1>0, <1>3, <2>2 DEF Running
      <3>2. ap.stage = "replying"
        BY <1>1, <3>1 DEF OneAtATime, Quiet
      <3>3. PICK d \in Conn : ap.writes = 0 /\ replies = [x \in Conn |-> IF x = d THEN 1 ELSE 0]
        BY <3>1, <3>2 DEF OneAtATime
      <3>4. c = d /\ \A x \in Conn : replies'[x] = 0
        BY <1>1, <3>3
      <3> QED
        BY <3>2, <3>3, <3>4 DEF Quiet
    <2> QED
      BY <1>0, <1>1, <1>2, <1>3, <2>1, <2>2, HandleReplyRelayInv
  <1>4. CASE program = "proxy"
    <2>1. /\ ap' = ap /\ fault' = IF conn[c].state = "dead" THEN "dangling" ELSE "none"
          /\ UNCHANGED program /\ UNCHANGED conn /\ UNCHANGED broken /\ UNCHANGED asked
          /\ UNCHANGED deep
      BY <1>4 DEF ReplySent, ApDone
    <2>2. RelayTypes'
      BY <1>0, <1>1, <1>2, <2>1 DEF RelayTypes, Histories
    <2>3. NoHarm' /\ AnsweredOnce'
      BY <1>1, <1>4, <2>1 DEF RelayInv, NoHarm, AnsweredOnce, Left
    <2>4. WritesAlone(ap) /\ ap.writes \in Nat
      BY <1>0, <1>4, Fields DEF Running
    <2>5. Moves(ap, replies')
      BY <1>0, <2>4 DEF Running, Moves, WritesAlone
    <2>6. Running'
      BY <1>0, <1>1, <1>4, <2>1, <2>5 DEF Running, EntriesKept, LiveOnes, Owed
    <2> QED
      BY <2>2, <2>3, <2>6 DEF RelayInv
  <1> QED
    BY <1>3, <1>4

-----------------------------------------------------------------------------
(* Writes                                                                   *)

\* The relay when the write of its front is done.
AfterWrite == [ap EXCEPT !.writes = @ - 1, !.stage = "ready"]

LEMMA WriteOver ==
    ASSUME ap \in Relays, ap.writes > 0
    PROVE  /\ AfterWrite \in Relays /\ AfterWrite.queue = ap.queue /\ AfterWrite.stage = "ready"
           /\ AfterWrite.writes = ap.writes - 1 /\ AfterWrite.dialing = ap.dialing
           /\ AfterWrite.dialed = ap.dialed /\ AfterWrite.refused = ap.refused
           /\ AfterWrite.reads = ap.reads /\ AfterWrite.failed = ap.failed
  <1> DEFINE a == [ap EXCEPT !.writes = ap.writes - 1]
             t == [a EXCEPT !.stage = "ready"]
  <1>1. AfterWrite = t
    BY DEF AfterWrite
  <1>2. ap.writes - 1 \in Nat
    BY Fields
  <1>3. a \in Relays /\ a.queue = ap.queue /\ a.writes = ap.writes - 1 /\ a.dialing = ap.dialing
        /\ a.dialed = ap.dialed /\ a.refused = ap.refused /\ a.reads = ap.reads
        /\ a.failed = ap.failed
    BY <1>2, OneField DEF Relays
  <1> HIDE DEF a
  <1>4. t \in Relays /\ t.queue = a.queue /\ t.stage = "ready" /\ t.writes = a.writes
        /\ t.dialing = a.dialing /\ t.dialed = a.dialed /\ t.refused = a.refused
        /\ t.reads = a.reads /\ t.failed = a.failed
    BY <1>3, OneField, SMTT(30) DEF Relays, Stages
  <1> HIDE DEF t
  <1> QED
    BY <1>1, <1>3, <1>4

\* The front, whose client is there and is answered, waits no more.
LEMMA FrontAnswered ==
    ASSUME RelayInv, fault = "none", ~overlap, program = "relay", ap.stage = "writing",
           ap.queue # <<>>, ap.queue[1].live, NEW t \in Relays, t.queue = ap.queue,
           t.stage = "replying"
    PROVE  LET c == ap.queue[1].c
           IN  /\ answered[c] + 1 <= asked[c]
               /\ Owed(t, [answered EXCEPT ![c] = @ + 1], asked)
  <1> DEFINE c == ap.queue[1].c
             an == [answered EXCEPT ![c] = @ + 1]
  <1>1. /\ ap.queue \in Queues /\ 1 \in 1 .. Len(ap.queue) /\ DOMAIN ap.queue = 1 .. Len(ap.queue)
        /\ c \in Conn
    <2>1. ap.queue \in Queues
      BY Fields DEF RelayInv, RelayTypes
    <2> QED
      BY <2>1, QueueElements
  <1>2. answered \in [Conn -> Nat] /\ asked \in [Conn -> Nat]
    BY DEF RelayInv, RelayTypes, Histories
  <1>3. \A d \in Conn : answered[d] + Cardinality(Waiting(ap, d)) <= asked[d]
    BY DEF RelayInv, Running, Owed
  <1>4. \A d \in Conn : IsFiniteSet(Waiting(ap, d)) /\ Cardinality(Waiting(ap, d)) \in Nat
    BY <1>1, WaitingFinite
  <1>5. 1 \in Waiting(ap, c)
    BY <1>1 DEF Waiting, LiveAt
  <1>6. Waiting(t, c) = Waiting(ap, c) \ {1}
    BY <1>1 DEF Waiting, LiveAt
  <1>7. Cardinality(Waiting(t, c)) = Cardinality(Waiting(ap, c)) - 1
    <2> DEFINE w == Waiting(ap, c)
    <2>1. IsFiniteSet(w) /\ 1 \in w
      BY <1>1, <1>4, <1>5
    <2> HIDE DEF w
    <2>2. Cardinality(w \ {1}) = Cardinality(w) - 1
      BY <2>1, FS_RemoveElement
    <2> QED
      BY <1>6, <2>2 DEF w
  <1>8. \A d \in Conn : d # c => Waiting(t, d) = Waiting(ap, d)
    BY <1>1 DEF Waiting, LiveAt
  <1>9. Cardinality(Waiting(t, c)) \in Nat
    BY <1>1, WaitingFinite
  <1>10. answered[c] + 1 <= asked[c]
    <2> DEFINE x == Cardinality(Waiting(ap, c))
    <2>1. x \in Nat /\ x - 1 \in Nat /\ answered[c] \in Nat /\ asked[c] \in Nat
      BY <1>1, <1>2, <1>4, <1>7, <1>9
    <2>2. answered[c] + x <= asked[c]
      BY <1>1, <1>3
    <2> HIDE DEF c, x
    <2> QED
      BY <2>1, <2>2
  <1>11. ASSUME NEW d \in Conn
         PROVE  an[d] + Cardinality(Waiting(t, d)) <= asked[d]
    <2>1. CASE d = c
      <3>1. an[d] = answered[c] + 1
        BY <1>2, <2>1
      <3>2. answered[c] + Cardinality(Waiting(ap, c)) <= asked[c] /\ answered[c] \in Nat /\ asked[c] \in Nat
        BY <1>1, <1>2, <1>3
      <3>3. Cardinality(Waiting(ap, c)) \in Nat
        BY <1>1, <1>4
      <3> HIDE DEF c, an
      <3>4. (answered[c] + 1) + Cardinality(Waiting(t, c)) <= asked[c]
        BY <1>7, <3>2, <3>3
      <3> QED
        BY <2>1, <3>1, <3>4
    <2>2. CASE d # c
      BY <1>2, <1>3, <1>8, <2>2
    <2> QED
      BY <2>1, <2>2
  <1> HIDE DEF an
  <1>12. Owed(t, an, asked)
    BY <1>11 DEF Owed
  <1> QED
    BY <1>10, <1>12 DEF an

\* The same of apple_push_relay.cpp, where no other entry is of the client of the front.
LEMMA FrontAnsweredList ==
    ASSUME RelayInv, fault = "none", ~overlap, program = "list", ap.stage = "writing",
           ap.queue # <<>>, ap.queue[1].n > 0, NEW t \in Relays, t.queue = ap.queue,
           t.stage = "replying"
    PROVE  LET c == ap.queue[1].c
           IN  /\ answered[c] + 1 <= asked[c]
               /\ Owed(t, [answered EXCEPT ![c] = @ + 1], asked)
  <1> DEFINE q == ap.queue
             c == q[1].c
             an == [answered EXCEPT ![c] = @ + 1]
  <1>1. /\ q \in Queues /\ 1 \in 1 .. Len(q) /\ DOMAIN q = 1 .. Len(q)
        /\ \A i \in 1 .. Len(q) : q[i].c \in Conn /\ q[i].n \in Nat
    <2>1. ap.queue \in Queues
      BY Fields DEF RelayInv, RelayTypes
    <2> QED
      BY <2>1, QueueElements
  <1>2. answered \in [Conn -> Nat] /\ asked \in [Conn -> Nat]
    BY DEF RelayInv, RelayTypes, Histories
  <1>3. \A i \in DOMAIN q : answered[q[i].c] + q[i].n <= asked[q[i].c] + 0
    BY DEF RelayInv, Running, Owed
  <1>4. \A i, j \in DOMAIN q : q[i].c = q[j].c => i = j
    BY DEF RelayInv, Running, EntriesKept, Distinct
  <1>5. t.queue = q
    OBVIOUS
  <1> HIDE DEF q
  <1>6. answered[c] + 1 <= asked[c]
    <2>1. answered[q[1].c] + q[1].n <= asked[q[1].c] + 0 /\ q[1].n \in Nat /\ q[1].n > 0
          /\ answered[q[1].c] \in Nat /\ asked[q[1].c] \in Nat
      BY <1>1, <1>2, <1>3 DEF q
    <2> QED
      BY <2>1
  <1>7. ASSUME NEW i \in DOMAIN q
        PROVE  an[q[i].c] + q[i].n <= asked[q[i].c] + IF i = 1 THEN 1 ELSE 0
    <2>1. answered[q[i].c] + q[i].n <= asked[q[i].c] + 0 /\ q[i].n \in Nat
          /\ answered[q[i].c] \in Nat /\ asked[q[i].c] \in Nat /\ q[i].c \in Conn
      BY <1>1, <1>2, <1>3
    <2>2. CASE i = 1
      <3>1. an[q[i].c] = answered[q[i].c] + 1
        BY <1>2, <2>1, <2>2
      <3> HIDE DEF an
      <3> QED
        BY <2>1, <2>2, <3>1
    <2>3. CASE i # 1
      <3>1. q[i].c # c
        BY <1>1, <1>4, <2>3
      <3>2. an[q[i].c] = answered[q[i].c]
        BY <1>2, <2>1, <3>1
      <3> HIDE DEF an
      <3> QED
        BY <2>1, <2>3, <3>2
    <2> QED
      BY <2>2, <2>3
  <1> HIDE DEF an
  <1>8. Owed(t, an, asked)
    BY <1>5, <1>7 DEF Owed
  <1> QED
    BY <1>6, <1>8 DEF an, q

LEMMA HandleWriteRelayInv ==
    ASSUME RelayInv, fault = "none", HandleWrite
    PROVE  RelayInv'
  <1>0. RelayTypes /\ Running /\ ap \in Relays /\ replies \in [Conn -> Nat]
    BY DEF RelayInv, RelayTypes, Histories
  <1>1. program # "proxy" /\ ap.writes > 0 /\ UNCHANGED overlap
    BY DEF HandleWrite
  <1> DEFINE s == AfterWrite
             q == ap.queue
             c == q[1].c
  <1>2. /\ s \in Relays /\ s.queue = q /\ s.stage = "ready" /\ s.writes = ap.writes - 1
        /\ s.dialing = ap.dialing /\ s.dialed = ap.dialed /\ s.refused = ap.refused
        /\ s.reads = ap.reads /\ s.failed = ap.failed
    BY <1>0, <1>1, WriteOver
  <1>3. \/ s.queue = <<>> /\ ApDone(s, "assert") /\ UNCHANGED <<replies, answered>>
        \/ s.queue # <<>> /\ ~ s.queue[1].live /\ HandleReply(s) /\ UNCHANGED <<replies, answered>>
        \/ /\ s.queue # <<>> /\ s.queue[1].live
           /\ ApDone([s EXCEPT !.stage = "replying"],
                     IF conn[s.queue[1].c].state = "dead" THEN "dangling" ELSE "none")
           /\ replies' = [replies EXCEPT ![s.queue[1].c] = @ + 1]
           /\ answered' = [answered EXCEPT ![s.queue[1].c] = @ + 1]
    BY DEF HandleWrite, AfterWrite
  <1>4. ASSUME ~overlap
        PROVE  /\ ap.stage = "writing" /\ Quiet(s, replies) /\ q # <<>> /\ q[1].n > 0
    <2>1. OneAtATime(ap, replies)
      BY <1>0, <1>1, <1>4 DEF Running
    <2>2. ap.stage = "writing"
      BY <1>1, <2>1 DEF OneAtATime, Quiet
    <2> QED
      BY <1>2, <2>1, <2>2 DEF OneAtATime, Quiet
  <1> HIDE DEF s
  <1>5. CASE s.queue = <<>> /\ ApDone(s, "assert") /\ UNCHANGED <<replies, answered>>
    <2>1. overlap
      BY <1>2, <1>4, <1>5
    <2>2. ap' = s /\ fault' = "assert" /\ UNCHANGED program /\ Histories'
      BY <1>0, <1>1, <1>5 DEF ApDone, RelayTypes, Histories
    <2>3. RelayTypes'
      BY <1>0, <1>2, <2>2 DEF RelayTypes
    <2>4. overlap'
      BY <1>1, <2>1
    <2> QED
      BY <2>2, <2>3, <2>4 DEF RelayInv, NoHarm, AnsweredOnce
  <1>6. CASE s.queue # <<>> /\ ~ s.queue[1].live /\ HandleReply(s) /\ UNCHANGED <<replies, answered>>
    <2>1. ~overlap => Quiet(s, replies') /\ ap.stage \in {"writing", "replying"}
      BY <1>4, <1>6 DEF Quiet
    <2>2. replies' \in [Conn -> Nat] /\ UNCHANGED answered
      BY <1>0, <1>6
    <2> QED
      BY <1>1, <1>2, <1>6, <2>1, <2>2, HandleReplyRelayInv
  <1>7. CASE /\ s.queue # <<>> /\ s.queue[1].live
             /\ ApDone([s EXCEPT !.stage = "replying"],
                       IF conn[s.queue[1].c].state = "dead" THEN "dangling" ELSE "none")
             /\ replies' = [replies EXCEPT ![s.queue[1].c] = @ + 1]
             /\ answered' = [answered EXCEPT ![s.queue[1].c] = @ + 1]
    <2> DEFINE t == [s EXCEPT !.stage = "replying"]
    <2>1. /\ t \in Relays /\ t.queue = s.queue /\ t.stage = "replying" /\ t.writes = s.writes
      BY <1>2, OneField DEF Relays, Stages
    <2>2. /\ ap' = t /\ fault' = (IF conn[c].state = "dead" THEN "dangling" ELSE "none")
          /\ UNCHANGED program /\ UNCHANGED conn /\ UNCHANGED broken /\ UNCHANGED asked
          /\ UNCHANGED deep
          /\ replies' = [replies EXCEPT ![c] = @ + 1] /\ answered' = [answered EXCEPT ![c] = @ + 1]
      BY <1>2, <1>7 DEF ApDone
    <2> HIDE DEF t
    <2>3. q \in Queues /\ q # <<>> /\ q[1].live
      BY <1>2, <1>7, Fields
    <2>4. 1 \in 1 .. Len(q) /\ DOMAIN q = 1 .. Len(q)
      BY <2>3, QueueElements
    <2>5. c \in Conn
      BY <2>3, <2>4, QueueElements
    <2>6. Histories'
      BY <1>0, <1>1, <2>2, <2>5 DEF RelayTypes, Histories
    <2>7. RelayTypes'
      BY <1>0, <2>1, <2>2, <2>6 DEF RelayTypes
    <2>8. EntriesKept(t.queue, conn') /\ LiveOnes(t.queue, conn', deep)
      BY <1>0, <1>2, <2>1, <2>2 DEF Running
    <2>9. ASSUME ~overlap
          PROVE  /\ answered[c] + 1 <= asked[c]
                 /\ Owed(t, answered', asked)
      <3>1. CASE program = "relay"
        BY <1>2, <1>4, <2>1, <2>2, <2>3, <2>9, <3>1, FrontAnswered
      <3>2. CASE program = "list"
        BY <1>2, <1>4, <2>1, <2>2, <2>3, <2>9, <3>2, FrontAnsweredList
      <3> QED
        BY <1>0, <1>1, <3>1, <3>2, Kinds
    <2>10. ~overlap => OneAtATime(t, replies')
      <3> SUFFICES ASSUME ~overlap
                   PROVE  OneAtATime(t, replies')
        OBVIOUS
      <3>1. Quiet(s, replies) /\ q[1].n > 0
        BY <1>4
      <3>2. replies' = [d \in Conn |-> IF d = c THEN 1 ELSE 0]
        <4>1. \A d \in Conn : replies[d] = 0
          BY <3>1 DEF Quiet
        <4>2. replies \in [Conn -> Nat] /\ replies' = [replies EXCEPT ![c] = @ + 1] /\ c \in Conn
          BY <1>0, <2>2, <2>5
        <4> HIDE DEF c
        <4>3. \A d \in Conn : replies'[d] = IF d = c THEN 1 ELSE 0
          BY <4>1, <4>2
        <4>4. replies' = [d \in Conn |-> replies'[d]]
          BY <4>2
        <4> QED
          BY <4>3, <4>4
      <3> HIDE DEF c, q
      <3> QED
        BY <1>2, <2>1, <2>3, <2>5, <3>1, <3>2 DEF OneAtATime, Quiet
    <2>11. Moves(t, replies')
      <3>1. replies'[c] > 0
        BY <1>0, <2>2, <2>5
      <3> QED
        BY <2>1, <2>5, <3>1 DEF Moves
    <2>12. AnsweredOnce'
      <3>1. ASSUME ~overlap, NEW d \in Conn
            PROVE  answered'[d] <= asked[d]
        <4>1. answered[d] <= asked[d] /\ answered \in [Conn -> Nat]
          BY <1>0, <3>1 DEF RelayInv, AnsweredOnce, RelayTypes, Histories
        <4>2. answered'[d] = IF d = c THEN answered[d] + 1 ELSE answered[d]
          BY <2>2, <2>5, <4>1
        <4>3. answered[c] + 1 <= asked[c]
          BY <2>9, <3>1
        <4> QED
          BY <4>1, <4>2, <4>3
      <3> QED
        BY <1>1, <2>2, <3>1 DEF AnsweredOnce
    <2>13. NoHarm'
      <3>1. ASSUME conn[c].state = "dead", ~deep, program = "relay"
            PROVE  FALSE
        <4>1. LiveAt(q, c) = {}
          BY <1>0, <2>5, <3>1 DEF Running, LiveOnes
        <4>2. 1 \in LiveAt(q, c)
          BY <2>3, <2>4 DEF LiveAt
        <4> QED
          BY <4>1, <4>2
      <3> QED
        BY <2>2, <2>5, <3>1 DEF NoHarm, Left
    <2>14. Running'
      BY <1>1, <2>2, <2>8, <2>9, <2>10, <2>11 DEF Running, EntriesKept, LiveOnes, Owed
    <2> QED
      BY <2>7, <2>12, <2>13, <2>14 DEF RelayInv
  <1> QED
    BY <1>3, <1>5, <1>6, <1>7

\* The proxy with its front taken away, or put back at the end with one message less.
LEMMA ProxyFront ==
    ASSUME RelayInv, fault = "none", program = "proxy", ap.stage = "writing", NEW an,
           NEW t \in Relays, t.stage = "ready",
           \/ t.queue = Tail(ap.queue) /\ an = answered
           \/ t.queue = RelayBack(ap.queue) /\ an = [answered EXCEPT ![ap.queue[1].c] = @ + 1]
    PROVE  /\ EntriesKept(t.queue, conn) /\ LiveOnes(t.queue, conn, deep)
           /\ Owed(t, an, asked)
           /\ an \in [Conn -> Nat] /\ \A c \in Conn : an[c] <= asked[c]
  <1> DEFINE q == ap.queue
             r == Tail(q)
             k == q[1].c
             e == [q[1] EXCEPT !.n = q[1].n - 1]
             b == Append(r, e)
  <1>0. RelayTypes /\ Running /\ ~overlap
    BY DEF RelayInv, Running
  <1>1. q \in Queues /\ q # <<>> /\ q[1].n > 0
    BY <1>0, Fields DEF Running, WritesAlone, RelayTypes
  <1>2. /\ Len(q) \in Nat /\ DOMAIN q = 1 .. Len(q) /\ 1 \in 1 .. Len(q)
        /\ \A i \in 1 .. Len(q) : q[i] \in Entries /\ q[i].c \in Conn /\ q[i].n \in Nat
    BY <1>1, QueueElements
  <1>3. /\ answered \in [Conn -> Nat] /\ asked \in [Conn -> Nat]
        /\ \A c \in Conn : answered[c] <= asked[c]
    BY <1>0 DEF RelayTypes, Histories, RelayInv, AnsweredOnce
  <1>4. /\ Distinct(q) /\ \A i \in DOMAIN q : conn[q[i].c].bound
        /\ \A i \in DOMAIN q : q[i].live \/ conn[q[i].c].state \in {"gone", "dead"}
        /\ \A i \in DOMAIN q : answered[q[i].c] + q[i].n <= asked[q[i].c] + 0
    BY <1>0 DEF Running, EntriesKept, LiveOnes, Owed
  <1>5. r \in Queues /\ Len(r) = Len(q) - 1 /\ \A i \in 1 .. Len(q) - 1 : r[i] = q[i + 1]
    BY <1>1, FirstTaken
  <1>6. DOMAIN r = 1 .. Len(q) - 1
    BY <1>5, QueueElements
  <1>7. e \in Entries /\ e.n = q[1].n - 1 /\ e.c = k /\ e.live = q[1].live
    BY <1>1, <1>2 DEF Entries
  <1>8. RelayBack(q) = b
    BY DEF RelayBack
  <1> HIDE DEF e
  <1>9. /\ b \in Queues /\ Len(b) = Len(q)
        /\ \A i \in 1 .. Len(q) - 1 : b[i] = q[i + 1]
        /\ b[Len(q)] = e
    <2> HIDE DEF r
    <2>1. /\ b \in Queues /\ Len(b) = Len(r) + 1
          /\ \A i \in 1 .. Len(r) : b[i] = r[i]
          /\ b[Len(r) + 1] = e
      BY <1>5, <1>7, OneMore
    <2> QED
      BY <1>2, <1>5, <2>1
  <1> HIDE DEF b, r
  <1>10. DOMAIN b = 1 .. Len(q)
    BY <1>9, QueueElements
  <1> HIDE DEF q
  <1>11. CASE t.queue = r /\ an = answered
    <2>1. \A i \in DOMAIN r : i + 1 \in DOMAIN q /\ r[i] = q[i + 1] /\ i \in Nat
      BY <1>2, <1>5, <1>6
    <2>2. Distinct(r)
      <3> SUFFICES ASSUME NEW i \in DOMAIN r, NEW j \in DOMAIN r, r[i].c = r[j].c
                   PROVE  i = j
        BY DEF Distinct
      <3>1. i + 1 = j + 1
        BY <1>4, <2>1 DEF Distinct
      <3> QED
        BY <2>1, <3>1
    <2>3. EntriesKept(r, conn) /\ LiveOnes(r, conn, deep)
      BY <1>4, <2>1, <2>2 DEF EntriesKept, LiveOnes
    <2>4. Owed(t, an, asked)
      BY <1>4, <1>11, <2>1 DEF Owed
    <2> QED
      BY <1>3, <1>11, <2>3, <2>4
  <1>12. CASE t.queue = b /\ an = [answered EXCEPT ![k] = @ + 1]
    <2>1. ASSUME NEW i \in DOMAIN b
          PROVE  /\ i = Len(q) => b[i] = e
                 /\ i # Len(q) => i + 1 \in DOMAIN q /\ b[i] = q[i + 1] /\ i + 1 # 1
                 /\ i \in Nat /\ b[i].c \in Conn
      <3>1. i # Len(q) => i \in 1 .. Len(q) - 1 /\ i + 1 \in 1 .. Len(q) /\ i + 1 # 1
        BY <1>2, <1>10
      <3>2. b[i].c \in Conn
        BY <1>9, <1>10, QueueElements
      <3> QED
        BY <1>2, <1>9, <1>10, <3>1, <3>2
    <2>2. \A i \in DOMAIN q : q[i].c = k => i = 1
      BY <1>2, <1>4 DEF Distinct
    <2>3. Distinct(b)
      <3> SUFFICES ASSUME NEW i \in DOMAIN b, NEW j \in DOMAIN b, b[i].c = b[j].c
                   PROVE  i = j
        BY DEF Distinct
      <3>1. CASE i = Len(q) \/ j = Len(q)
        BY <1>7, <2>1, <2>2, <3>1
      <3>2. CASE i # Len(q) /\ j # Len(q)
        <4>1. i + 1 = j + 1 /\ i \in Nat /\ j \in Nat
          BY <1>4, <2>1, <3>2 DEF Distinct
        <4> QED
          BY <4>1
      <3> QED
        BY <3>1, <3>2
    <2>4. ASSUME NEW i \in DOMAIN b
          PROVE  conn[b[i].c].bound /\ (b[i].live \/ conn[b[i].c].state \in {"gone", "dead"})
      <3>1. CASE i = Len(q)
        BY <1>2, <1>4, <1>7, <2>1, <3>1
      <3>2. CASE i # Len(q)
        BY <1>4, <2>1, <3>2
      <3> QED
        BY <3>1, <3>2
    <2>5. EntriesKept(b, conn) /\ LiveOnes(b, conn, deep)
      BY <2>3, <2>4 DEF EntriesKept, LiveOnes
    <2>6. /\ k \in Conn /\ answered[k] + q[1].n <= asked[k] + 0 /\ q[1].n \in Nat /\ q[1].n > 0
          /\ answered[k] \in Nat /\ asked[k] \in Nat
      BY <1>1, <1>2, <1>3, <1>4 DEF q
    <2>7. an \in [Conn -> Nat] /\ an[k] = answered[k] + 1
          /\ \A c \in Conn : c # k => an[c] = answered[c]
      BY <1>3, <1>12, <2>6
    <2> HIDE DEF k
    <2>8. \A c \in Conn : an[c] <= asked[c]
      <3>1. an[k] <= asked[k]
        BY <2>6, <2>7
      <3> QED
        BY <1>3, <2>7, <3>1
    <2>9. ASSUME NEW i \in DOMAIN b
          PROVE  an[b[i].c] + b[i].n <= asked[b[i].c] + 0
      <3>1. CASE i = Len(q)
        <4>1. b[i].c = k /\ b[i].n = q[1].n - 1
          BY <1>7, <2>1, <3>1
        <4>2. (answered[k] + 1) + (q[1].n - 1) <= asked[k] + 0
          BY <2>6
        <4> QED
          BY <2>7, <4>1, <4>2
      <3>2. CASE i # Len(q)
        <4>1. b[i].c # k
          BY <2>1, <2>2, <3>2
        <4>2. an[b[i].c] = answered[b[i].c]
          BY <2>1, <2>7, <4>1
        <4>3. answered[q[i + 1].c] + q[i + 1].n <= asked[q[i + 1].c] + 0 /\ b[i] = q[i + 1]
          BY <1>4, <2>1, <3>2
        <4> QED
          BY <4>2, <4>3
      <3> QED
        BY <3>1, <3>2
    <2>10. Owed(t, an, asked)
      BY <1>12, <2>9 DEF Owed
    <2> QED
      BY <1>12, <2>5, <2>7, <2>8, <2>10
  <1> QED
    BY <1>8, <1>11, <1>12 DEF q, r

LEMMA HandleWriteProxyRelayInv ==
    ASSUME RelayInv, fault = "none", HandleWriteProxy
    PROVE  RelayInv'
  <1>0. RelayTypes /\ Running /\ ap \in Relays /\ replies \in [Conn -> Nat]
    BY DEF RelayInv, RelayTypes, Histories
  <1>1. program = "proxy" /\ ap.writes > 0 /\ UNCHANGED overlap
    BY DEF HandleWriteProxy
  <1>2. WritesAlone(ap) /\ ~overlap /\ ap.stage = "writing" /\ ap.queue # <<>>
    BY <1>0, <1>1 DEF Running, WritesAlone
  <1> DEFINE s == AfterWrite
             q == ap.queue
             c == q[1].c
             Gone == [s EXCEPT !.queue = Tail(q)]
             Back == [s EXCEPT !.queue = RelayBack(q)]
  <1>3. /\ s \in Relays /\ s.queue = q /\ s.stage = "ready" /\ s.writes = ap.writes - 1
        /\ s.dialing = ap.dialing /\ s.dialed = ap.dialed /\ s.refused = ap.refused
        /\ s.reads = ap.reads /\ s.failed = ap.failed
    BY <1>0, <1>1, WriteOver
  <1>4. \/ ApDone(WriteMsg(Gone), WriteFault(Gone)) /\ UNCHANGED <<replies, answered>>
        \/ /\ ApDone(WriteMsg(Back), WriteFault(Back))
           /\ replies' = [replies EXCEPT ![c] = @ + 1]
           /\ answered' = [answered EXCEPT ![c] = @ + 1]
    BY <1>3 DEF HandleWriteProxy, AfterWrite
  <1> HIDE DEF s
  <1>5. q \in Queues /\ 1 \in 1 .. Len(q) /\ c \in Conn /\ q[1].n \in Nat /\ q[1].n > 0
        /\ q[1] \in Entries
    <2>1. q \in Queues
      BY <1>0, Fields
    <2> QED
      BY <1>2, <2>1, QueueElements DEF WritesAlone
  <1>6. Tail(q) \in Queues /\ RelayBack(q) \in Queues
    <2>1. [q[1] EXCEPT !.n = q[1].n - 1] \in Entries
      BY <1>5 DEF Entries
    <2> QED
      BY <1>2, <1>5, <2>1, FirstTaken, OneMore DEF RelayBack
  <1>7. ASSUME NEW t \in Relays, t.stage = "ready", t.writes = s.writes, t.dialing = s.dialing,
               t.dialed = s.dialed, t.refused = s.refused, t.reads = s.reads, t.failed = s.failed,
               ApDone(WriteMsg(t), WriteFault(t)), replies' \in [Conn -> Nat],
               \/ t.queue = Tail(q) /\ answered' = answered
               \/ t.queue = RelayBack(q) /\ answered' = [answered EXCEPT ![c] = @ + 1]
        PROVE  RelayInv'
    <2>1. /\ EntriesKept(t.queue, conn) /\ LiveOnes(t.queue, conn, deep)
          /\ Owed(t, answered', asked)
          /\ answered' \in [Conn -> Nat] /\ \A d \in Conn : answered'[d] <= asked[d]
      BY <1>1, <1>2, <1>7, ProxyFront
    <2>2. /\ ap' = WriteMsg(t) /\ fault' = WriteFault(t) /\ UNCHANGED program /\ UNCHANGED conn
          /\ UNCHANGED broken /\ UNCHANGED asked /\ UNCHANGED deep
      BY <1>7 DEF ApDone
    <2>3. Histories'
      BY <1>0, <1>1, <1>7, <2>1, <2>2 DEF RelayTypes, Histories
    <2>4. WritesAlone(t) /\ ~overlap'
      BY <1>1, <1>2, <1>3, <1>7 DEF WritesAlone
    <2>5. EntriesKept(t.queue, conn') /\ LiveOnes(t.queue, conn', deep)
      BY <2>1, <2>2
    <2>6. Owed(t, answered', asked') /\ \A d \in Conn : answered'[d] <= asked'[d]
      BY <2>1, <2>2
    <2> QED
      BY <1>0, <1>1, <1>7, <2>2, <2>3, <2>4, <2>5, <2>6, GoesOn
  <1>8. /\ Gone \in Relays /\ Gone.queue = Tail(q) /\ Gone.stage = s.stage
        /\ Gone.dialing = s.dialing /\ Gone.dialed = s.dialed /\ Gone.refused = s.refused
        /\ Gone.reads = s.reads /\ Gone.failed = s.failed /\ Gone.writes = s.writes
    BY <1>3, <1>6, Requeued
  <1>9. /\ Back \in Relays /\ Back.queue = RelayBack(q) /\ Back.stage = s.stage
        /\ Back.dialing = s.dialing /\ Back.dialed = s.dialed /\ Back.refused = s.refused
        /\ Back.reads = s.reads /\ Back.failed = s.failed /\ Back.writes = s.writes
    BY <1>3, <1>6, Requeued
  <1> HIDE DEF Gone, Back, q, c
  <1>10. CASE ApDone(WriteMsg(Gone), WriteFault(Gone)) /\ UNCHANGED <<replies, answered>>
    BY <1>0, <1>3, <1>7, <1>8, <1>10
  <1>11. CASE /\ ApDone(WriteMsg(Back), WriteFault(Back))
              /\ replies' = [replies EXCEPT ![c] = @ + 1]
              /\ answered' = [answered EXCEPT ![c] = @ + 1]
    <2>1. replies' \in [Conn -> Nat]
      BY <1>0, <1>5, <1>11
    <2> QED
      BY <1>3, <1>7, <1>9, <1>11, <2>1
  <1> QED
    BY <1>4, <1>10, <1>11

-----------------------------------------------------------------------------
(* The clients                                                              *)

\* A step that leaves the stage, and what is under way, alone.
LEMMA Stays ==
    ASSUME RelayInv, fault = "none", NEW t \in Relays, ap' = t, t.stage = ap.stage,
           t.writes = ap.writes, t.dialing = ap.dialing, t.dialed = ap.dialed,
           t.refused = ap.refused, t.reads = ap.reads, t.failed = ap.failed,
           fault' = "none", UNCHANGED program, UNCHANGED replies, UNCHANGED overlap, Histories',
           EntriesKept(t.queue, conn'), LiveOnes(t.queue, conn', deep'),
           ~overlap => Owed(t, answered', asked') /\ \A c \in Conn : answered'[c] <= asked'[c],
           ap.queue # <<>> /\ ap.queue[1].n > 0 => t.queue # <<>> /\ t.queue[1].n > 0,
           ap.stage = "ready" => \A i \in DOMAIN t.queue : t.queue[i].n = 0
    PROVE  RelayInv'
  <1>0. Running
    BY DEF RelayInv
  <1>1. program = "proxy" => WritesAlone(t) /\ ~overlap
    BY <1>0 DEF Running, WritesAlone
  <1>2. program # "proxy" /\ ~overlap => OneAtATime(t, replies')
    BY <1>0 DEF Running, OneAtATime, Quiet
  <1>3. Moves(t, replies')
    BY <1>0 DEF Running, Moves
  <1>4. Running'
    BY <1>1, <1>2, <1>3 DEF Running, LiveOnes, EntriesKept, Owed
  <1>5. RelayTypes'
    BY DEF RelayInv, RelayTypes
  <1>6. NoHarm' /\ AnsweredOnce'
    BY DEF NoHarm, AnsweredOnce
  <1> QED
    BY <1>4, <1>5, <1>6 DEF RelayInv

\* Nothing of apple_push changes, and no connection ends.
LEMMA OnlyReads ==
    ASSUME RelayInv, fault = "none", fault' = "none", UNCHANGED program, UNCHANGED ap,
           UNCHANGED replies, UNCHANGED asked, UNCHANGED answered, UNCHANGED overlap,
           UNCHANGED deep, broken' \in 0 .. MaxBroken, conn' \in Conns,
           \A c \in Conn : /\ conn[c].bound => conn'[c].bound
                           /\ conn'[c].state \in {"gone", "dead"} => conn'[c].state = conn[c].state
                           /\ conn[c].state \in {"gone", "dead"} => conn'[c].state = conn[c].state
    PROVE  RelayInv'
  <1>0. RelayTypes /\ Running /\ ap \in Relays
    BY DEF RelayInv, RelayTypes
  <1>1. ap.queue \in Queues /\ DOMAIN ap.queue = 1 .. Len(ap.queue)
        /\ \A i \in DOMAIN ap.queue : ap.queue[i].c \in Conn
    <2>1. ap.queue \in Queues
      BY <1>0, Fields
    <2> QED
      BY <2>1, QueueElements
  <1>2. Histories'
    BY <1>0 DEF RelayTypes, Histories
  <1>3. EntriesKept(ap.queue, conn')
    BY <1>0, <1>1 DEF Running, EntriesKept
  <1>4. LiveOnes(ap.queue, conn', deep)
    <2>1. CASE program = "relay"
      BY <1>0, <2>1 DEF Running, LiveOnes
    <2>2. CASE program # "relay"
      BY <1>0, <1>1, <2>2 DEF Running, LiveOnes
    <2> QED
      BY <2>1, <2>2
  <1>5. ~overlap => Owed(ap, answered, asked) /\ \A c \in Conn : answered[c] <= asked[c]
    BY <1>0 DEF Running, RelayInv, AnsweredOnce
  <1>6. ap.stage = "ready" => \A i \in DOMAIN ap.queue : ap.queue[i].n = 0
    BY <1>0 DEF Running, Moves
  <1>7. ap' = ap /\ ~overlap => Owed(ap, answered', asked') /\ \A c \in Conn : answered'[c] <= asked'[c]
    BY <1>5
  <1>8. LiveOnes(ap.queue, conn', deep')
    BY <1>4
  <1> QED
    BY <1>0, <1>2, <1>3, <1>6, <1>7, <1>8, Stays

LEMMA ReadsRelayInv ==
    ASSUME RelayInv, fault = "none", NEW c \in Conn,
           Accept(c) \/ \E params \in BOOLEAN : HandleMethodLine(c, params)
    PROVE  RelayInv'
  <1>0. conn \in Conns /\ broken \in 0 .. MaxBroken
    BY DEF RelayInv, RelayTypes, Histories
  <1>1. /\ UNCHANGED fault /\ UNCHANGED program /\ UNCHANGED ap /\ UNCHANGED replies
        /\ UNCHANGED asked /\ UNCHANGED answered /\ UNCHANGED overlap /\ UNCHANGED deep
        /\ UNCHANGED broken
    BY DEF Accept, HandleMethodLine
  <1>2. /\ conn' \in Conns
        /\ \A d \in Conn : /\ conn[d].bound => conn'[d].bound
                           /\ conn'[d].state \in {"gone", "dead"} => conn'[d].state = conn[d].state
                           /\ conn[d].state \in {"gone", "dead"} => conn'[d].state = conn[d].state
    <2>1. CASE Accept(c)
      <3>1. conn' = [conn EXCEPT ![c].state = "line"] /\ conn[c].state = "waiting"
        BY <2>1 DEF Accept, ToState
      <3>2. conn' \in Conns
        BY <1>0, <3>1 DEF Conns, Reading
      <3>3. \A d \in Conn : conn'[d] = IF d = c THEN [conn[c] EXCEPT !.state = "line"] ELSE conn[d]
        BY <1>0, <3>1 DEF Conns
      <3>4. /\ conn'[c].bound = conn[c].bound /\ conn'[c].state = "line"
            /\ \A d \in Conn : d # c => conn'[d] = conn[d]
        BY <1>0, <3>3 DEF Conns
      <3> QED
        BY <3>1, <3>2, <3>4
    <2>2. CASE \E params \in BOOLEAN : HandleMethodLine(c, params)
      <3>1. PICK params \in BOOLEAN : HandleMethodLine(c, params)
        BY <2>2
      <3> DEFINE p == conn[c].params \/ params
                 k == [conn[c] EXCEPT !.state = "rest", !.params = p]
      <3>2. conn' = [conn EXCEPT ![c] = k] /\ conn[c].state = "line"
        BY <3>1, Zenon DEF HandleMethodLine, ParseStatusLine
      <3>3. k.bound = conn[c].bound /\ k.state = "rest" /\ k \in
                [state : Reading \union {"waiting", "gone", "dead"}, bound : BOOLEAN, params : BOOLEAN]
        <4>1. p \in BOOLEAN
          BY Zenon
        <4> HIDE DEF p
        <4> QED
          BY <1>0, <3>2, <4>1 DEF Conns, Reading
      <3> HIDE DEF k
      <3>4. /\ conn' \in Conns
            /\ \A d \in Conn : conn'[d] = IF d = c THEN k ELSE conn[d]
        BY <1>0, <3>2, <3>3 DEF Conns
      <3> QED
        BY <3>2, <3>3, <3>4
    <2> QED
      BY <2>1, <2>2
  <1> QED
    BY <1>0, <1>1, <1>2, OnlyReads

LEMMA ThrowRelayInv ==
    ASSUME RelayInv, fault = "none", NEW c \in Conn,
           ParseHeaderLineThrows(c) \/ OnRequestThrows(c)
    PROVE  RelayInv'
  <1>1. /\ UNCHANGED conn /\ UNCHANGED program /\ UNCHANGED ap /\ UNCHANGED replies
        /\ UNCHANGED asked /\ UNCHANGED answered /\ UNCHANGED overlap /\ UNCHANGED deep
        /\ UNCHANGED broken /\ fault' = "thrown"
    BY DEF ParseHeaderLineThrows, OnRequestThrows, Throw
  <1>2. RelayTypes'
    BY <1>1 DEF RelayInv, RelayTypes, Histories
  <1>3. NoHarm' /\ AnsweredOnce'
    BY <1>1 DEF RelayInv, NoHarm, AnsweredOnce
  <1> QED
    BY <1>1, <1>2, <1>3 DEF RelayInv

\* The push server, of which the proxy hears nothing.
LEMMA OutsideRelayInv ==
    ASSUME RelayInv, fault = "none", Answers \/ Refuses \/ Hangs
    PROVE  RelayInv'
  <1>0. RelayTypes /\ Running /\ ap \in Relays
    BY DEF RelayInv, RelayTypes
  <1>1. /\ ap.dialing \in 0 .. 1 /\ ap.dialed \in Nat /\ ap.refused \in Nat
        /\ ap.reads \in Nat /\ ap.failed \in Nat
    BY <1>0, Fields
  <1>2. program # "proxy"
    BY <1>0, <1>1 DEF Running, WritesAlone, Answers, Refuses, Hangs
  <1>3. /\ UNCHANGED conn /\ UNCHANGED program /\ UNCHANGED fault /\ UNCHANGED replies
        /\ UNCHANGED asked /\ UNCHANGED answered /\ UNCHANGED overlap /\ UNCHANGED deep
        /\ broken' <= MaxBroken /\ (broken' = broken + 0 \/ broken' = broken + 1)
    BY DEF Answers, Refuses, Hangs, Outside
  <1>4. PICK t \in Relays : /\ ap' = t /\ t.stage = ap.stage /\ t.queue = ap.queue
                            /\ t.writes = ap.writes
                            /\ t.dialing + t.dialed + t.refused > 0
                                   \/ /\ t.dialing = ap.dialing
                                      /\ t.dialed = ap.dialed /\ t.refused = ap.refused
    <2>1. CASE Answers
      <3> DEFINE a == [ap EXCEPT !.dialing = 0]
                 t == [a EXCEPT !.dialed = a.dialed + 1]
      <3>1. ap' = t
        BY <1>0, <2>1 DEF Answers, Outside, Relays
      <3>2. /\ a \in Relays /\ a.stage = ap.stage /\ a.queue = ap.queue /\ a.writes = ap.writes
            /\ a.dialing = 0 /\ a.dialed = ap.dialed /\ a.refused = ap.refused
        BY <1>0, OneField DEF Relays
      <3> HIDE DEF a
      <3>3. a.dialed + 1 \in Nat
        BY <1>1, <3>2
      <3>4. /\ t \in Relays /\ t.stage = a.stage /\ t.queue = a.queue /\ t.writes = a.writes
            /\ t.dialing = 0 /\ t.dialed = a.dialed + 1 /\ t.refused = a.refused
        BY <3>2, <3>3, OneField DEF Relays
      <3> HIDE DEF t
      <3>5. t.dialing + t.dialed + t.refused > 0
        BY <1>1, <3>2, <3>4
      <3> QED
        BY <3>1, <3>2, <3>4, <3>5
    <2>2. CASE Refuses
      <3> DEFINE a == [ap EXCEPT !.dialing = 0]
                 t == [a EXCEPT !.refused = a.refused + 1]
      <3>1. ap' = t
        BY <1>0, <2>2 DEF Refuses, Outside, Relays
      <3>2. /\ a \in Relays /\ a.stage = ap.stage /\ a.queue = ap.queue /\ a.writes = ap.writes
            /\ a.dialing = 0 /\ a.dialed = ap.dialed /\ a.refused = ap.refused
        BY <1>0, OneField DEF Relays
      <3> HIDE DEF a
      <3>3. a.refused + 1 \in Nat
        BY <1>1, <3>2
      <3>4. /\ t \in Relays /\ t.stage = a.stage /\ t.queue = a.queue /\ t.writes = a.writes
            /\ t.dialing = 0 /\ t.dialed = a.dialed /\ t.refused = a.refused + 1
        BY <3>2, <3>3, OneField DEF Relays
      <3> HIDE DEF t
      <3>5. t.dialing + t.dialed + t.refused > 0
        BY <1>1, <3>2, <3>4
      <3> QED
        BY <3>1, <3>2, <3>4, <3>5
    <2>3. CASE Hangs
      <3> DEFINE a == [ap EXCEPT !.reads = 0]
                 t == [a EXCEPT !.failed = a.failed + ap.reads]
      <3>1. ap' = t
        BY <1>0, <2>3 DEF Hangs, Outside, Relays
      <3>2. /\ a \in Relays /\ a.stage = ap.stage /\ a.queue = ap.queue /\ a.writes = ap.writes
            /\ a.dialing = ap.dialing /\ a.dialed = ap.dialed /\ a.refused = ap.refused
            /\ a.failed = ap.failed
        BY <1>0, OneField DEF Relays
      <3> HIDE DEF a
      <3>3. a.failed + ap.reads \in Nat
        BY <1>1, <3>2
      <3>4. /\ t \in Relays /\ t.stage = a.stage /\ t.queue = a.queue /\ t.writes = a.writes
            /\ t.dialing = a.dialing /\ t.dialed = a.dialed /\ t.refused = a.refused
        BY <3>2, <3>3, OneField DEF Relays
      <3> HIDE DEF t
      <3> QED
        BY <3>1, <3>2, <3>4
    <2> QED
      BY <2>1, <2>2, <2>3
  <1>5. RelayTypes'
    <2>1. broken' \in 0 .. MaxBroken
      BY <1>0, <1>3, BoundsAssumption DEF RelayTypes, Histories
    <2> QED
      BY <1>0, <1>3, <1>4, <2>1 DEF RelayTypes, Histories
  <1>6. NoHarm' /\ AnsweredOnce'
    BY <1>3 DEF RelayInv, NoHarm, AnsweredOnce
  <1>7. EntriesKept(t.queue, conn) /\ LiveOnes(t.queue, conn, deep)
    BY <1>0, <1>4 DEF Running
  <1>8. ~overlap => OneAtATime(t, replies)
    BY <1>0, <1>2, <1>4 DEF Running, OneAtATime, Quiet
  <1>9. Moves(t, replies)
    BY <1>0, <1>4 DEF Running, Moves
  <1>10. ~overlap => Owed(t, answered, asked)
    <2>1. CASE program = "relay"
      BY <1>0, <1>4, <2>1 DEF Running, Owed, Waiting
    <2>2. CASE program # "relay"
      BY <1>0, <1>4, <2>2 DEF Running, Owed
    <2> QED
      BY <2>1, <2>2
  <1>11. Running'
    BY <1>2, <1>3, <1>4, <1>7, <1>8, <1>9, <1>10 DEF Running, EntriesKept, LiveOnes, Owed
  <1> QED
    BY <1>5, <1>6, <1>11 DEF RelayInv

\* The first request of a client enters it into the list once.
LEMMA EnteredOnce ==
    ASSUME RelayInv, fault = "none", program # "relay", NEW c \in Conn,
           conn[c].state \notin {"gone", "dead"}
    PROVE  LET a == Entered(ap, c)
           IN  /\ a \in Relays /\ a.stage = ap.stage /\ a.writes = ap.writes
               /\ a.dialing = ap.dialing /\ a.dialed = ap.dialed /\ a.refused = ap.refused
               /\ a.reads = ap.reads /\ a.failed = ap.failed
               /\ Distinct(a.queue)
               /\ \A i \in DOMAIN a.queue : a.queue[i].c = c \/ conn[a.queue[i].c].bound
               /\ LiveOnes(a.queue, conn, deep)
               /\ ~overlap => Owed(a, answered, asked)
               /\ ap.queue # <<>> => a.queue # <<>> /\ a.queue[1] = ap.queue[1]
               /\ ap.stage = "ready" => \A i \in DOMAIN a.queue : a.queue[i].n = 0
  <1>0. RelayTypes /\ Running /\ ap \in Relays
    BY DEF RelayInv, RelayTypes
  <1> DEFINE q == ap.queue
             a == Entered(ap, c)
  <1>1. q \in Queues /\ Len(q) \in Nat /\ DOMAIN q = 1 .. Len(q)
    BY <1>0, Fields, QueueElements
  <1>2. /\ \A i \in 1 .. Len(q) : q[i] \in Entries /\ q[i].c \in Conn /\ q[i].n \in Nat
        /\ q # <<>> => 1 \in 1 .. Len(q)
    BY <1>1, QueueElements
  <1>3. /\ Distinct(q) /\ \A i \in 1 .. Len(q) : conn[q[i].c].bound
        /\ LiveOnes(q, conn, deep)
        /\ ~overlap => Owed(ap, answered, asked)
        /\ ap.stage = "ready" => \A i \in 1 .. Len(q) : q[i].n = 0
    BY <1>0, <1>1 DEF Running, EntriesKept, Moves
  <1>4. CASE conn[c].bound
    <2>1. a = ap
      BY <1>4 DEF Entered
    <2> QED
      BY <1>0, <1>1, <1>3, <2>1
  <1>5. CASE ~conn[c].bound
    <2> DEFINE e == Entry(c, 0)
               r == Append(q, e)
               b == [ap EXCEPT !.queue = r]
    <2>1. a = b
      BY <1>5 DEF Entered
    <2>2. e \in Entries /\ e.c = c /\ e.live /\ e.n = 0
      BY DEF Entry, Entries
    <2> HIDE DEF e
    <2>3. /\ r \in Queues /\ DOMAIN r = 1 .. Len(q) + 1
          /\ \A i \in 1 .. Len(q) : r[i] = q[i]
          /\ r[Len(q) + 1] = e /\ r # <<>>
      <3>1. /\ r \in Queues /\ Len(r) = Len(q) + 1
            /\ \A i \in 1 .. Len(q) : r[i] = q[i]
            /\ r[Len(q) + 1] = e
        BY <1>1, <2>2, OneMore
      <3> HIDE DEF r
      <3> QED
        BY <1>1, <3>1, QueueElements
    <2> HIDE DEF r
    <2>4. /\ b \in Relays /\ b.queue = r /\ b.stage = ap.stage /\ b.writes = ap.writes
          /\ b.dialing = ap.dialing /\ b.dialed = ap.dialed /\ b.refused = ap.refused
          /\ b.reads = ap.reads /\ b.failed = ap.failed
      BY <1>0, <2>3, Requeued
    <2> HIDE DEF b
    <2>5. \A i \in DOMAIN r : i \in 1 .. Len(q) \/ i = Len(q) + 1
      BY <1>1, <2>3
    <2>6. Distinct(r)
      <3> SUFFICES ASSUME NEW i \in DOMAIN r, NEW j \in DOMAIN r, r[i].c = r[j].c
                   PROVE  i = j
        BY DEF Distinct
      <3>1. \A k \in 1 .. Len(q) : r[k].c # c
        BY <1>3, <1>5, <2>3
      <3> QED
        BY <1>1, <1>3, <2>2, <2>3, <2>5, <3>1 DEF Distinct
    <2>7. \A i \in DOMAIN r : r[i].c = c \/ conn[r[i].c].bound
      BY <1>3, <2>2, <2>3, <2>5
    <2>8. LiveOnes(r, conn, deep)
      BY <1>1, <1>3, <2>2, <2>3, <2>5 DEF LiveOnes
    <2>9. ~overlap => Owed(b, answered, asked)
      <3> SUFFICES ASSUME ~overlap, NEW i \in DOMAIN r
                   PROVE  answered[r[i].c] + r[i].n
                              <= asked[r[i].c] + IF i = 1 /\ ap.stage = "replying" THEN 1 ELSE 0
        BY <2>4 DEF Owed
      <3>1. CASE i \in 1 .. Len(q)
        BY <1>1, <1>3, <2>3, <3>1 DEF Owed
      <3>2. CASE i = Len(q) + 1
        <4>1. r[i].c = c /\ r[i].n = 0
          BY <2>2, <2>3, <3>2
        <4>2. answered[c] \in Nat /\ asked[c] \in Nat /\ answered[c] <= asked[c]
          BY <1>0 DEF RelayInv, AnsweredOnce, RelayTypes, Histories
        <4> QED
          BY <4>1, <4>2
      <3> QED
        BY <2>5, <3>1, <3>2
    <2>10. ap.stage = "ready" => \A i \in DOMAIN r : r[i].n = 0
      BY <1>3, <2>2, <2>3, <2>5
    <2>11. q # <<>> => r[1] = q[1]
      BY <1>2, <2>3
    <2> QED
      BY <2>1, <2>3, <2>4, <2>6, <2>7, <2>8, <2>9, <2>10, <2>11
  <1> QED
    BY <1>4, <1>5

\* Another request of c: what handle_content leaves before write_msg or connect.
Joined(s, c) ==
    /\ s \in Relays /\ s.stage = ap.stage /\ s.writes = ap.writes
    /\ s.dialing = ap.dialing /\ s.dialed = ap.dialed /\ s.refused = ap.refused
    /\ s.reads = ap.reads /\ s.failed = ap.failed
    /\ EntriesKept(s.queue, conn') /\ LiveOnes(s.queue, conn', deep)
    /\ ~overlap => Owed(s, answered, asked')
    /\ ap.queue # <<>> /\ ap.queue[1].n > 0 => s.queue # <<>> /\ s.queue[1].n > 0

Requested(c) ==
    /\ conn[c].state = "rest"
    /\ conn' = [conn EXCEPT ![c].state = "line", ![c].bound = TRUE]
    /\ asked' = [asked EXCEPT ![c] = @ + 1]

LEMMA RequestedHere ==
    ASSUME Histories, NEW c \in Conn, Requested(c)
    PROVE  /\ conn' \in Conns /\ conn'[c].bound /\ conn'[c].state = "line"
           /\ \A d \in Conn : d # c => conn'[d] = conn[d]
           /\ asked' \in [Conn -> Nat] /\ asked[c] \in Nat /\ asked'[c] = asked[c] + 1
           /\ \A d \in Conn : d # c => asked'[d] = asked[d]
  <1>0. conn \in Conns /\ asked \in [Conn -> Nat]
    BY DEF Histories
  <1>1. /\ asked' \in [Conn -> Nat] /\ asked[c] \in Nat /\ asked'[c] = asked[c] + 1
        /\ \A d \in Conn : d # c => asked'[d] = asked[d]
    BY <1>0 DEF Requested
  <1> DEFINE a == [conn[c] EXCEPT !.state = "line"]
             k == [a EXCEPT !.bound = TRUE]
  <1>2. conn' = [conn EXCEPT ![c] = k]
    BY <1>0 DEF Requested, Conns
  <1>3. k.bound /\ k.state = "line" /\ k \in
            [state : Reading \union {"waiting", "gone", "dead"}, bound : BOOLEAN, params : BOOLEAN]
    BY <1>0 DEF Conns, Reading
  <1> HIDE DEF k
  <1>4. conn' \in Conns /\ \A d \in Conn : conn'[d] = IF d = c THEN k ELSE conn[d]
    BY <1>0, <1>2, <1>3 DEF Conns
  <1> QED
    BY <1>1, <1>3, <1>4

LEMMA JoinedRelay ==
    ASSUME RelayInv, fault = "none", program = "relay", NEW c \in Conn, Requested(c)
    PROVE  Joined(Appended(Entered(ap, c), c), c)
  <1>0. RelayTypes /\ Running /\ ap \in Relays /\ Histories
    BY DEF RelayInv, RelayTypes
  <1> DEFINE q == ap.queue
             e == Entry(c, 1)
             r == Append(q, e)
             s == [ap EXCEPT !.queue = r]
  <1>1. Appended(Entered(ap, c), c) = s
    BY DEF Appended, Entered
  <1>2. q \in Queues /\ Len(q) \in Nat /\ DOMAIN q = 1 .. Len(q)
    BY <1>0, Fields, QueueElements
  <1>3. /\ \A i \in 1 .. Len(q) : q[i] \in Entries /\ q[i].c \in Conn /\ q[i].n = 1
        /\ LiveOnes(q, conn, deep)
        /\ ~overlap => Owed(ap, answered, asked)
    BY <1>0, <1>2, QueueElements DEF Running, EntriesKept
  <1>4. e \in Entries /\ e.c = c /\ e.live /\ e.n = 1
    BY DEF Entry, Entries
  <1> HIDE DEF e
  <1>5. /\ r \in Queues /\ DOMAIN r = 1 .. Len(q) + 1
        /\ \A i \in 1 .. Len(q) : r[i] = q[i]
        /\ r[Len(q) + 1] = e /\ r # <<>>
    <2>1. /\ r \in Queues /\ Len(r) = Len(q) + 1
          /\ \A i \in 1 .. Len(q) : r[i] = q[i]
          /\ r[Len(q) + 1] = e
      BY <1>2, <1>4, OneMore
    <2> HIDE DEF r
    <2> QED
      BY <1>2, <2>1, QueueElements
  <1> HIDE DEF r
  <1>6. /\ s \in Relays /\ s.queue = r /\ s.stage = ap.stage /\ s.writes = ap.writes
        /\ s.dialing = ap.dialing /\ s.dialed = ap.dialed /\ s.refused = ap.refused
        /\ s.reads = ap.reads /\ s.failed = ap.failed
    BY <1>0, <1>5, Requeued
  <1> HIDE DEF s
  <1>7. \A i \in DOMAIN r : i \in 1 .. Len(q) \/ i = Len(q) + 1
    BY <1>2, <1>5
  <1>8. /\ conn'[c].state = "line"
        /\ \A d \in Conn : d # c => conn'[d] = conn[d]
        /\ asked \in [Conn -> Nat] /\ asked[c] \in Nat /\ asked'[c] = asked[c] + 1
        /\ \A d \in Conn : d # c => asked'[d] = asked[d]
        /\ answered \in [Conn -> Nat]
    BY <1>0, RequestedHere DEF Histories
  <1>9. \A d \in Conn : d # c => LiveAt(r, d) = LiveAt(q, d)
    BY <1>2, <1>4, <1>5, <1>7 DEF LiveAt
  <1>10. EntriesKept(r, conn')
    BY <1>3, <1>4, <1>5, <1>7 DEF EntriesKept
  <1>11. LiveOnes(r, conn', deep)
    <2> SUFFICES ASSUME ~deep, NEW d \in Conn
                 PROVE  /\ conn'[d].state = "dead" => LiveAt(r, d) = {}
                        /\ conn'[d].state = "gone" => \A i, j \in LiveAt(r, d) : i = j
      BY DEF LiveOnes
    <2>1. CASE d = c
      BY <1>8, <2>1
    <2>2. CASE d # c
      BY <1>3, <1>8, <1>9, <2>2 DEF LiveOnes
    <2> QED
      BY <2>1, <2>2
  <1>12. ~overlap => Owed(s, answered, asked')
    <2> SUFFICES ASSUME ~overlap, NEW d \in Conn
                 PROVE  answered[d] + Cardinality(Waiting(s, d)) <= asked'[d]
      BY DEF Owed
    <2>1. answered[d] + Cardinality(Waiting(ap, d)) <= asked[d]
      BY <1>3 DEF Owed
    <2>2. CASE d # c
      <3>1. Waiting(s, d) = Waiting(ap, d)
        BY <1>6, <1>9, <2>2 DEF Waiting
      <3> QED
        BY <1>8, <2>1, <2>2, <3>1
    <2>3. CASE d = c
      <3> DEFINE W == Waiting(ap, c)
                 V == W \union {Len(q) + 1}
                 U == Waiting(s, c)
      <3>1. U \subseteq V
        BY <1>2, <1>5, <1>6, <1>7 DEF Waiting, LiveAt
      <3>2. IsFiniteSet(W) /\ Cardinality(W) \in Nat /\ IsFiniteSet(U) /\ Cardinality(U) \in Nat
        BY <1>2, <1>5, <1>6, WaitingFinite
      <3> HIDE DEF W, U
      <3>3. IsFiniteSet(V) /\ Cardinality(V) = IF Len(q) + 1 \in W THEN Cardinality(W)
                                               ELSE Cardinality(W) + 1
        BY <3>2, FS_AddElement
      <3> HIDE DEF V
      <3>4. Cardinality(U) <= Cardinality(V) /\ Cardinality(V) \in Nat
        BY <3>1, <3>2, <3>3, FS_Subset
      <3> DEFINE x == answered[c]
                 z == asked[c]
      <3>5. x \in Nat /\ z \in Nat /\ x + Cardinality(W) <= z /\ asked'[c] = z + 1
        BY <1>8, <2>1, <2>3 DEF W
      <3> HIDE DEF x, z
      <3>6. x + Cardinality(U) <= z + 1
        BY <3>2, <3>3, <3>4, <3>5
      <3>7. answered[c] + Cardinality(Waiting(s, c)) <= asked'[c]
        BY <3>5, <3>6 DEF x, U
      <3> QED
        BY <2>3, <3>7
    <2> QED
      BY <2>2, <2>3
  <1>13. ap.queue # <<>> /\ ap.queue[1].n > 0 => r # <<>> /\ r[1].n > 0
    <2>1. q # <<>> => 1 \in 1 .. Len(q)
      BY <1>2, QueueElements
    <2> QED
      BY <1>5, <2>1
  <1> QED
    BY <1>1, <1>6, <1>10, <1>11, <1>12, <1>13 DEF Joined

LEMMA JoinedList ==
    ASSUME RelayInv, fault = "none", program # "relay", NEW c \in Conn, Requested(c)
    PROVE  Joined(Appended(Entered(ap, c), c), c)
  <1>0. RelayTypes /\ Running /\ ap \in Relays /\ Histories
    BY DEF RelayInv, RelayTypes
  <1> DEFINE a == Entered(ap, c)
             q == a.queue
  <1>1. /\ a \in Relays /\ a.stage = ap.stage /\ a.writes = ap.writes
        /\ a.dialing = ap.dialing /\ a.dialed = ap.dialed /\ a.refused = ap.refused
        /\ a.reads = ap.reads /\ a.failed = ap.failed
        /\ Distinct(q)
        /\ \A i \in DOMAIN q : q[i].c = c \/ conn[q[i].c].bound
        /\ LiveOnes(q, conn, deep)
        /\ ~overlap => Owed(a, answered, asked)
        /\ ap.queue # <<>> => q # <<>> /\ q[1] = ap.queue[1]
    BY EnteredOnce DEF Requested
  <1> HIDE DEF a
  <1>2. q \in Queues /\ DOMAIN q = 1 .. Len(q)
    BY <1>1, Fields, QueueElements
  <1>3. /\ \A i \in DOMAIN q : q[i] \in Entries /\ q[i].c \in Conn /\ q[i].n \in Nat
        /\ q # <<>> => 1 \in DOMAIN q
    BY <1>2, QueueElements
  <1> DEFINE r == [i \in DOMAIN q |-> IF q[i].c = c THEN [q[i] EXCEPT !.n = q[i].n + 1] ELSE q[i]]
             s == [a EXCEPT !.queue = r]
  <1>4. Appended(a, c) = s
    BY Zenon DEF Appended
  <1>5. /\ DOMAIN r = DOMAIN q
        /\ \A i \in DOMAIN q : /\ r[i] \in Entries /\ r[i].c = q[i].c /\ r[i].live = q[i].live
                               /\ r[i].n = IF q[i].c = c THEN q[i].n + 1 ELSE q[i].n
    BY <1>3 DEF Entries
  <1>6. r = [i \in DOMAIN q |-> r[i]]
    OBVIOUS
  <1> HIDE DEF r
  <1>7. r \in Queues /\ (q # <<>> => r # <<>>)
    <2>1. r \in Queues /\ Len(r) = Len(q)
      BY <1>2, <1>5, <1>6, AllChanged
    <2>2. (r = <<>> <=> Len(r) = 0) /\ (q = <<>> <=> Len(q) = 0)
      BY <1>2, <2>1, QueueElements
    <2> QED
      BY <2>1, <2>2
  <1>8. /\ s \in Relays /\ s.queue = r /\ s.stage = a.stage /\ s.writes = a.writes
        /\ s.dialing = a.dialing /\ s.dialed = a.dialed /\ s.refused = a.refused
        /\ s.reads = a.reads /\ s.failed = a.failed
    BY <1>1, <1>7, Requeued
  <1> HIDE DEF s
  <1>9. /\ conn'[c].state = "line" /\ conn'[c].bound /\ conn[c].state = "rest"
        /\ \A d \in Conn : d # c => conn'[d] = conn[d]
        /\ asked \in [Conn -> Nat] /\ asked[c] \in Nat /\ asked'[c] = asked[c] + 1
        /\ \A d \in Conn : d # c => asked'[d] = asked[d]
        /\ answered \in [Conn -> Nat]
    BY <1>0, RequestedHere DEF Histories, Requested
  <1>10. \A i \in DOMAIN q : q[i].c # c => conn'[q[i].c] = conn[q[i].c]
    BY <1>3, <1>9
  <1>11. EntriesKept(r, conn')
    <2>1. Distinct(r)
      BY <1>1, <1>5 DEF Distinct
    <2>2. \A i \in DOMAIN q : conn'[q[i].c].bound
      BY <1>1, <1>9, <1>10
    <2>3. \A i \in DOMAIN r : conn'[r[i].c].bound
      BY <1>5, <2>2
    <2> QED
      BY <2>1, <2>3 DEF EntriesKept
  <1>12. LiveOnes(r, conn', deep)
    <2>1. \A i \in DOMAIN q : q[i].live \/ conn[q[i].c].state \in {"gone", "dead"}
      BY <1>1 DEF LiveOnes
    <2>2. \A i \in DOMAIN r : r[i].live \/ conn'[q[i].c].state \in {"gone", "dead"}
      BY <1>5, <1>9, <1>10, <2>1
    <2> QED
      BY <1>5, <2>2 DEF LiveOnes
  <1>13. ~overlap => Owed(s, answered, asked')
    <2> SUFFICES ASSUME ~overlap, NEW i \in DOMAIN q
                 PROVE  answered[r[i].c] + r[i].n
                            <= asked'[r[i].c] + IF i = 1 /\ a.stage = "replying" THEN 1 ELSE 0
      BY <1>5, <1>8 DEF Owed
    <2>1. answered[q[i].c] + q[i].n
              <= asked[q[i].c] + IF i = 1 /\ a.stage = "replying" THEN 1 ELSE 0
      BY <1>1 DEF Owed
    <2> DEFINE x == answered[q[i].c]
               y == q[i].n
               z == asked[q[i].c]
               k == IF i = 1 /\ a.stage = "replying" THEN 1 ELSE 0
    <2>2. x \in Nat /\ y \in Nat /\ z \in Nat /\ k \in Nat /\ x + y <= z + k
      BY <1>3, <1>9, <2>1
    <2>3. /\ r[i].c = q[i].c
          /\ \/ r[i].n = y /\ asked'[q[i].c] = z
             \/ r[i].n = y + 1 /\ asked'[q[i].c] = z + 1
      BY <1>3, <1>5, <1>9
    <2> HIDE DEF x, y, z, k
    <2>4. x + r[i].n <= asked'[q[i].c] + k
      BY <2>2, <2>3
    <2> QED
      BY <2>3, <2>4 DEF x, k
  <1>14. ap.queue # <<>> /\ ap.queue[1].n > 0 => r # <<>> /\ r[1].n > 0
    BY <1>1, <1>3, <1>5, <1>7
  <1> QED
    BY <1>1, <1>4, <1>8, <1>11, <1>12, <1>13, <1>14 DEF Joined, a

LEMMA HandleContentRelayInv ==
    ASSUME RelayInv, fault = "none", NEW c \in Conn, HandleContent(c)
    PROVE  RelayInv'
  <1>0. RelayTypes /\ Running /\ ap \in Relays /\ Histories
    BY DEF RelayInv, RelayTypes
  <1>1. /\ Requested(c) /\ Push(c) /\ UNCHANGED program /\ UNCHANGED broken
        /\ UNCHANGED replies /\ UNCHANGED answered /\ UNCHANGED deep
    BY DEF HandleContent, Requested
  <1> DEFINE s == Appended(Entered(ap, c), c)
  <1>2. Joined(s, c)
    BY <1>1, JoinedRelay, JoinedList
  <1>3. overlap' = overlap \/ overlap' = (overlap \/ Underway)
    BY <1>1, Zenon DEF Push
  <1>4. Histories'
    BY <1>0, <1>1, <1>3, RequestedHere DEF Histories, Underway
  <1>5. ~overlap => \A d \in Conn : answered'[d] <= asked'[d]
    <2>1. \A d \in Conn : asked[d] \in Nat /\ asked'[d] >= asked[d]
      BY <1>0, <1>1, RequestedHere DEF Histories
    <2>2. \A d \in Conn : answered[d] \in Nat /\ asked'[d] \in Nat
      BY <1>0, <1>4 DEF Histories
    <2> QED
      BY <1>1, <2>1, <2>2 DEF RelayInv, AnsweredOnce
  <1>6. ~overlap => Owed(s, answered', asked')
    BY <1>1, <1>2 DEF Joined
  <1>7. CASE program = "relay" /\ s.stage \in {"zero", "connecting"}
    <2> DEFINE t == Connect(s)
    <2>1. ap' = t /\ overlap' = (overlap \/ Underway) /\ fault' = "none"
      BY <1>1, <1>7, Zenon DEF Push
    <2>2. s \in Relays /\ s.writes = ap.writes
      BY <1>2 DEF Joined
    <2>3. EntriesKept(s.queue, conn') /\ LiveOnes(s.queue, conn', deep)
      BY <1>2 DEF Joined
    <2> HIDE DEF s
    <2>4. /\ t \in Relays /\ t.queue = s.queue /\ t.stage = "connecting" /\ t.writes = s.writes
          /\ t.dialing = 1 /\ t.dialed = s.dialed /\ t.refused \in Nat
      BY <2>2, Reconnected
    <2>5. s.dialed \in Nat
      BY <2>2, Fields
    <2> HIDE DEF t
    <2>6. t.dialing + t.dialed + t.refused > 0
      BY <2>4, <2>5
    <2>7. ~overlap' => Owed(t, answered', asked') /\ \A d \in Conn : answered'[d] <= asked'[d]
      <3>1. ~overlap' => ~overlap
        BY <2>1
      <3>2. s.stage # "replying"
        BY <1>7
      <3>3. ~overlap => Owed(t, answered', asked')
        BY <1>6, <2>4, <3>2, OwedSame
      <3> QED
        BY <1>5, <3>1, <3>3
    <2> QED
      BY <1>1, <1>4, <1>7, <2>1, <2>2, <2>3, <2>4, <2>6, <2>7, Redials
  <1>8. CASE ~(program = "relay" /\ s.stage \in {"zero", "connecting"})
    <2>1. ap' = WriteMsg(s) /\ fault' = WriteFault(s) /\ UNCHANGED overlap
      BY <1>1, <1>8, Zenon DEF Push
    <2>2. /\ s \in Relays /\ s.stage = ap.stage /\ s.writes = ap.writes
          /\ s.dialing = ap.dialing /\ s.dialed = ap.dialed /\ s.refused = ap.refused
          /\ s.reads = ap.reads /\ s.failed = ap.failed
          /\ EntriesKept(s.queue, conn') /\ LiveOnes(s.queue, conn', deep)
          /\ ap.queue # <<>> /\ ap.queue[1].n > 0 => s.queue # <<>> /\ s.queue[1].n > 0
      BY <1>2 DEF Joined
    <2> HIDE DEF s
    <2>3. CASE s.stage = "ready"
      <3>1. program = "proxy" => WritesAlone(s) /\ ~overlap'
        BY <1>0, <2>1, <2>2 DEF Running, WritesAlone
      <3>2. program # "proxy" /\ ~overlap' => Quiet(s, replies')
        BY <1>0, <1>1, <2>1, <2>2, <2>3 DEF Running, OneAtATime, Quiet
      <3>3. ~overlap' => Owed(s, answered', asked') /\ \A d \in Conn : answered'[d] <= asked'[d]
        BY <1>5, <1>6, <2>1
      <3> QED
        BY <1>0, <1>1, <1>4, <2>1, <2>2, <2>3, <3>1, <3>2, <3>3, GoesOn
    <2>4. CASE s.stage # "ready"
      <3>1. WriteMsg(s) = s
        BY <1>0, <2>4, Kinds DEF WriteMsg, WriteMsgRelay, WriteMsgList, WriteMsgProxy
      <3>2. fault' = "none"
        BY <2>1, <2>4 DEF WriteFault
      <3>3. ap' = s
        BY <2>1, <3>1
      <3>4. LiveOnes(s.queue, conn', deep')
        BY <1>1, <2>2
      <3>5. ~overlap => Owed(s, answered', asked') /\ \A d \in Conn : answered'[d] <= asked'[d]
        BY <1>5, <1>6
      <3>6. ap.stage = "ready" => \A i \in DOMAIN s.queue : s.queue[i].n = 0
        BY <2>2, <2>4
      <3> QED
        BY <1>1, <1>4, <2>1, <2>2, <3>2, <3>3, <3>4, <3>5, <3>6, Stays
    <2> QED
      BY <2>3, <2>4
  <1> QED
    BY <1>7, <1>8

\* A client leaves: the pointers to it are cleared in the two later programs.
LEMMA ListLeft ==
    ASSUME RelayInv, fault = "none", program # "relay", NEW c \in Conn,
           NEW a \in Relays, a.stage = ap.stage, a.writes = ap.writes,
           a.dialing = ap.dialing, a.dialed = ap.dialed, a.refused = ap.refused,
           a.reads = ap.reads, a.failed = ap.failed,
           Distinct(a.queue),
           \A i \in DOMAIN a.queue : a.queue[i].c = c \/ conn[a.queue[i].c].bound,
           LiveOnes(a.queue, conn, deep),
           ~overlap => Owed(a, answered, asked),
           ap.queue # <<>> => a.queue # <<>> /\ a.queue[1] = ap.queue[1],
           ap.stage = "ready" => \A i \in DOMAIN a.queue : a.queue[i].n = 0,
           ap' = Leave(a, c), fault' = "none", UNCHANGED program, UNCHANGED replies,
           UNCHANGED asked, UNCHANGED answered, UNCHANGED overlap, Histories',
           conn'[c].state \in {"gone", "dead"},
           (\E i \in DOMAIN a.queue : a.queue[i].c = c) => conn'[c].bound,
           \A d \in Conn : d # c => conn'[d] = conn[d]
    PROVE  RelayInv'
  <1> DEFINE q == a.queue
             r == Disconnected(q, c)
             t == [a EXCEPT !.queue = r]
  <1>1. q \in Queues /\ DOMAIN q = 1 .. Len(q)
    BY Fields, QueueElements
  <1>2. /\ \A i \in DOMAIN q : q[i] \in Entries /\ q[i].c \in Conn /\ q[i].n \in Nat
        /\ q # <<>> => 1 \in DOMAIN q
    BY <1>1, QueueElements
  <1>3. Leave(a, c) = t
    BY DEF Leave
  <1>4. /\ DOMAIN r = DOMAIN q
        /\ \A i \in DOMAIN q : /\ r[i] \in Entries /\ r[i].c = q[i].c /\ r[i].n = q[i].n
                               /\ q[i].c # c => r[i].live = q[i].live
        /\ r = [i \in DOMAIN q |-> r[i]]
    BY <1>2 DEF Disconnected, Entries
  <1> HIDE DEF r
  <1>5. r \in Queues /\ (q # <<>> => r # <<>>)
    <2>1. r \in Queues /\ Len(r) = Len(q)
      BY <1>1, <1>4, AllChanged
    <2>2. (r = <<>> <=> Len(r) = 0) /\ (q = <<>> <=> Len(q) = 0)
      BY <1>1, <2>1, QueueElements
    <2> QED
      BY <2>1, <2>2
  <1>6. /\ t \in Relays /\ t.queue = r /\ t.stage = a.stage /\ t.writes = a.writes
        /\ t.dialing = a.dialing /\ t.dialed = a.dialed /\ t.refused = a.refused
        /\ t.reads = a.reads /\ t.failed = a.failed
    BY <1>5, Requeued
  <1> HIDE DEF t
  <1>7. \A i \in DOMAIN q : q[i].c # c => conn'[q[i].c] = conn[q[i].c]
    BY <1>2
  <1>8. EntriesKept(t.queue, conn')
    <2>1. Distinct(r)
      <3> SUFFICES ASSUME NEW i \in DOMAIN q, NEW j \in DOMAIN q, r[i].c = r[j].c
                   PROVE  i = j
        BY <1>4 DEF Distinct
      <3>1. q[i].c = q[j].c
        BY <1>4
      <3> QED
        BY <3>1 DEF Distinct
    <2>2. \A i \in DOMAIN q : conn'[q[i].c].bound
      BY <1>7
    <2> QED
      BY <1>4, <1>6, <2>1, <2>2 DEF EntriesKept
  <1>9. LiveOnes(t.queue, conn', deep')
    <2>1. \A i \in DOMAIN q : q[i].live \/ conn[q[i].c].state \in {"gone", "dead"}
      BY DEF LiveOnes
    <2>2. \A i \in DOMAIN q : r[i].live \/ conn'[q[i].c].state \in {"gone", "dead"}
      BY <1>4, <1>7, <2>1
    <2> QED
      BY <1>4, <1>6, <2>2 DEF LiveOnes
  <1>10. ~overlap => Owed(t, answered', asked') /\ \A d \in Conn : answered'[d] <= asked'[d]
    <2>1. ~overlap => \A d \in Conn : answered[d] <= asked[d]
      BY DEF RelayInv, AnsweredOnce
    <2>2. ~overlap => Owed(t, answered, asked)
      BY <1>4, <1>6 DEF Owed
    <2> QED
      BY <2>1, <2>2
  <1>11. ap.queue # <<>> /\ ap.queue[1].n > 0 => t.queue # <<>> /\ t.queue[1].n > 0
    BY <1>2, <1>4, <1>5, <1>6
  <1>12. ap.stage = "ready" => \A i \in DOMAIN t.queue : t.queue[i].n = 0
    BY <1>4, <1>6
  <1>13. ap' = t /\ t.stage = ap.stage /\ t.writes = ap.writes /\ t.dialing = ap.dialing
         /\ t.dialed = ap.dialed /\ t.refused = ap.refused /\ t.reads = ap.reads
         /\ t.failed = ap.failed
    BY <1>3, <1>6
  <1> QED
    BY <1>6, <1>8, <1>9, <1>10, <1>11, <1>12, <1>13, Stays

\* r is q without a live entry f of c, or with its pointer cleared: m says where an entry was.
Sifted(q, r, m, f, c) ==
    /\ r \in Queues
    /\ m \in [DOMAIN r -> DOMAIN q]
    /\ \A i, j \in DOMAIN r : m[i] = m[j] => i = j
    /\ \A i \in DOMAIN r : /\ i > 1 => m[i] > 1
                           /\ r[i].c = q[m[i]].c /\ r[i].n = q[m[i]].n
                           /\ r[i].live => q[m[i]].live
                           /\ r[i].live /\ r[i].c = c => m[i] # f
    /\ q # <<>> => r # <<>>

LEMMA RelayLeaves ==
    ASSUME program = "relay", NEW s \in Relays, NEW c \in Conn
    PROVE  LET t == Leave(s, c)
           IN  /\ t \in Relays /\ t.stage = s.stage /\ t.writes = s.writes
               /\ t.dialing = s.dialing /\ t.dialed = s.dialed /\ t.refused = s.refused
               /\ t.reads = s.reads /\ t.failed = s.failed
               /\ \E m : Sifted(s.queue, t.queue, m, FirstOf(s.queue, c), c)
  <1> DEFINE q == s.queue
             f == FirstOf(q, c)
             t == Leave(s, c)
  <1>1. q \in Queues /\ Len(q) \in Nat /\ DOMAIN q = 1 .. Len(q)
    BY Fields, QueueElements
  <1>2. /\ \A i \in 1 .. Len(q) : q[i] \in Entries
        /\ q # <<>> <=> Len(q) # 0
    BY <1>1, QueueElements
  <1>3. /\ f \in 0 .. Len(q)
        /\ f = 0 => \A i \in 1 .. Len(q) : ~ (q[i].c = c /\ q[i].live)
        /\ f # 0 => q[f].c = c /\ q[f].live
    BY <1>1, FirstOfClient
  <1>4. t = CASE f = 0 -> s
              [] f = 1 -> [s EXCEPT !.queue[1].live = FALSE]
              [] f > 1 -> [s EXCEPT !.queue = RemoveAt(q, f)]
    BY <1>1, <1>3 DEF Leave
  <1> HIDE DEF f
  <1>5. CASE f = 0
    <2> DEFINE m == [i \in DOMAIN q |-> i]
    <2>1. t = s
      BY <1>4, <1>5
    <2>2. Sifted(q, q, m, f, c)
      BY <1>1, <1>3, <1>5 DEF Sifted
    <2> QED
      BY <2>1, <2>2 DEF f
  <1>6. CASE f = 1
    <2> DEFINE m == [i \in DOMAIN q |-> i]
               e == [q[1] EXCEPT !.live = FALSE]
               r == [q EXCEPT ![1] = e]
               u == [s EXCEPT !.queue = r]
    <2>1. t = u
      BY <1>4, <1>6
    <2>2. 1 \in 1 .. Len(q) /\ q[1] \in Entries
      BY <1>1, <1>2, <1>3, <1>6
    <2>3. e \in Entries /\ e.c = q[1].c /\ e.n = q[1].n /\ ~e.live
      BY <2>2 DEF Entries
    <2> HIDE DEF e
    <2>4. r \in Queues /\ Len(r) = Len(q) /\ \A i \in 1 .. Len(q) : r[i] = IF i = 1 THEN e ELSE q[i]
      BY <1>1, <2>2, <2>3, ExceptSeq DEF Queues
    <2> HIDE DEF r
    <2>5. DOMAIN r = DOMAIN q /\ r # <<>>
      BY <1>1, <2>2, <2>4, QueueElements
    <2>6. Sifted(q, r, m, f, c)
      BY <1>1, <1>6, <2>3, <2>4, <2>5 DEF Sifted
    <2>7. /\ u \in Relays /\ u.queue = r /\ u.stage = s.stage /\ u.writes = s.writes
          /\ u.dialing = s.dialing /\ u.dialed = s.dialed /\ u.refused = s.refused
          /\ u.reads = s.reads /\ u.failed = s.failed
      BY <2>4, Requeued
    <2> QED
      BY <2>1, <2>6, <2>7 DEF f
  <1>7. CASE f > 1
    <2> DEFINE r == RemoveAt(q, f)
               m == [i \in DOMAIN r |-> IF i < f THEN i ELSE i + 1]
               u == [s EXCEPT !.queue = r]
    <2>1. t = u
      BY <1>3, <1>4, <1>7
    <2>2. /\ r \in Queues /\ Len(r) = Len(q) - 1
          /\ \A j \in 1 .. Len(q) - 1 : r[j] = q[IF j < f THEN j ELSE j + 1]
      <3>1. f \in 1 .. Len(q)
        BY <1>1, <1>3, <1>7
      <3> QED
        BY <1>1, <3>1, OneLess
    <2> HIDE DEF r
    <2>3. DOMAIN r = 1 .. Len(q) - 1 /\ r # <<>>
      BY <1>1, <1>3, <1>7, <2>2, QueueElements
    <2>4. Sifted(q, r, m, f, c)
      <3>1. /\ \A i \in DOMAIN r : m[i] = IF i < f THEN i ELSE i + 1
            /\ \A i \in DOMAIN r : i \in Nat /\ i > 0
        BY <1>1, <2>3
      <3>2. m \in [DOMAIN r -> DOMAIN q]
        BY <1>1, <1>3, <2>3
      <3> HIDE DEF m
      <3>3. \A i \in DOMAIN r : m[i] # f /\ (i > 1 => m[i] > 1)
        BY <1>1, <1>3, <1>7, <3>1
      <3>4. \A i, j \in DOMAIN r : m[i] = m[j] => i = j
        BY <1>1, <1>3, <3>1
      <3>5. \A i \in DOMAIN r : r[i] = q[m[i]]
        BY <2>2, <2>3, <3>1
      <3> QED
        BY <2>2, <2>3, <3>2, <3>3, <3>4, <3>5 DEF Sifted
    <2>5. /\ u \in Relays /\ u.queue = r /\ u.stage = s.stage /\ u.writes = s.writes
          /\ u.dialing = s.dialing /\ u.dialed = s.dialed /\ u.refused = s.refused
          /\ u.reads = s.reads /\ u.failed = s.failed
      BY <2>2, Requeued
    <2> QED
      BY <2>1, <2>4, <2>5 DEF f
  <1> QED
    BY <1>1, <1>3, <1>5, <1>6, <1>7

ThreeOf(q, c) ==
    \E i, j, k \in DOMAIN q : i < j /\ j < k /\ {q[n].c : n \in {i, j, k}} = {c}

LEMMA ThreeInOrder ==
    ASSUME NEW q, DOMAIN q \subseteq Nat, NEW c, NEW x \in DOMAIN q, NEW y \in DOMAIN q,
           NEW z \in DOMAIN q, x # y, y # z, x # z, q[x].c = c, q[y].c = c, q[z].c = c
    PROVE  ThreeOf(q, c)
  <1>1. \E i, j, k \in {x, y, z} : i < j /\ j < k
    OBVIOUS
  <1>2. PICK i \in {x, y, z}, j \in {x, y, z}, k \in {x, y, z} : i < j /\ j < k
    BY <1>1
  <1>3. {q[n].c : n \in {i, j, k}} = {c}
    OBVIOUS
  <1>4. i \in DOMAIN q /\ j \in DOMAIN q /\ k \in DOMAIN q
    OBVIOUS
  <1> QED
    BY <1>2, <1>3, <1>4, Zenon DEF ThreeOf

\* What both steps of a client's end do besides.
LEMMA Departs ==
    ASSUME Histories, NEW c \in Conn, HandleError(c) \/ Reset(c)
    PROVE  /\ UNCHANGED program /\ UNCHANGED fault /\ UNCHANGED replies /\ UNCHANGED asked
           /\ UNCHANGED answered /\ UNCHANGED overlap /\ Histories'
           /\ \A d \in Conn : d # c => conn'[d] = conn[d]
           /\ deep => deep'
           /\ HandleError(c) => /\ conn'[c].state = "gone" /\ conn'[c].bound
                                /\ conn[c].state \in {"line", "rest"}
                                /\ ap' = Leave(Entered(ap, c), c)
                                /\ ThreeOf(ap.queue, c) => deep'
           /\ ~HandleError(c) => /\ conn'[c].state = "dead" /\ conn'[c].bound = conn[c].bound
                                 /\ conn[c].state = "gone"
                                 /\ ap' = Leave(ap, c) /\ UNCHANGED deep
  <1>0. conn \in Conns
    BY DEF Histories
  <1>1. /\ UNCHANGED program /\ UNCHANGED fault /\ UNCHANGED replies /\ UNCHANGED asked
        /\ UNCHANGED answered /\ UNCHANGED overlap /\ UNCHANGED broken
    BY DEF HandleError, Reset
  <1>2. CASE HandleError(c)
    <2> DEFINE a == [conn[c] EXCEPT !.state = "gone"]
               k == [a EXCEPT !.bound = TRUE]
    <2>1. conn' = [conn EXCEPT ![c] = k]
      BY <1>0, <1>2 DEF HandleError, Destroy, Conns
    <2>2. k.bound /\ k.state = "gone" /\ k \in
              [state : Reading \union {"waiting", "gone", "dead"}, bound : BOOLEAN, params : BOOLEAN]
      BY <1>0 DEF Conns, Reading
    <2> HIDE DEF k
    <2>3. conn' \in Conns /\ \A d \in Conn : conn'[d] = IF d = c THEN k ELSE conn[d]
      BY <1>0, <2>1, <2>2 DEF Conns
    <2>4. deep' = (deep \/ ThreeOf(ap.queue, c))
      BY <1>2, Zenon DEF HandleError, ThreeOf
    <2>5. deep' \in BOOLEAN /\ (deep => deep') /\ (ThreeOf(ap.queue, c) => deep')
      BY <2>4
    <2>6. conn[c].state \in {"line", "rest"} /\ ap' = Leave(Entered(ap, c), c)
      BY <1>2 DEF HandleError, Reading
    <2>7. Histories'
      BY <1>1, <2>3, <2>5 DEF Histories
    <2> QED
      BY <1>1, <1>2, <2>2, <2>3, <2>5, <2>6, <2>7
  <1>3. CASE ~HandleError(c)
    <2> DEFINE k == [conn[c] EXCEPT !.state = "dead"]
    <2>1. /\ conn' = [conn EXCEPT ![c] = k] /\ ap' = Leave(ap, c) /\ UNCHANGED deep
          /\ conn[c].state = "gone"
      BY <1>3 DEF Reset, ToState
    <2>2. k.bound = conn[c].bound /\ k.state = "dead" /\ k \in
              [state : Reading \union {"waiting", "gone", "dead"}, bound : BOOLEAN, params : BOOLEAN]
      BY <1>0 DEF Conns, Reading
    <2> HIDE DEF k
    <2>3. conn' \in Conns /\ \A d \in Conn : conn'[d] = IF d = c THEN k ELSE conn[d]
      BY <1>0, <2>1, <2>2 DEF Conns
    <2>4. Histories'
      BY <1>1, <2>1, <2>3 DEF Histories
    <2> QED
      BY <1>1, <1>3, <2>1, <2>2, <2>3, <2>4
  <1> QED
    BY <1>2, <1>3

LEMMA RelayLeft ==
    ASSUME RelayInv, fault = "none", program = "relay", NEW c \in Conn,
           HandleError(c) \/ Reset(c)
    PROVE  RelayInv'
  <1>0. RelayTypes /\ Running /\ ap \in Relays /\ Histories
    BY DEF RelayInv, RelayTypes
  <1> DEFINE q == ap.queue
             f == FirstOf(q, c)
             t == Leave(ap, c)
             r == t.queue
  <1>1. ap' = t
    BY <1>0, Departs DEF Entered
  <1>2. /\ t \in Relays /\ t.stage = ap.stage /\ t.writes = ap.writes
        /\ t.dialing = ap.dialing /\ t.dialed = ap.dialed /\ t.refused = ap.refused
        /\ t.reads = ap.reads /\ t.failed = ap.failed
        /\ \E m : Sifted(q, r, m, f, c)
    BY <1>0, RelayLeaves
  <1> HIDE DEF t
  <1>3. PICK m : Sifted(q, r, m, f, c)
    BY <1>2
  <1>4. /\ r \in Queues
        /\ m \in [DOMAIN r -> DOMAIN q]
        /\ \A i, j \in DOMAIN r : m[i] = m[j] => i = j
        /\ \A i \in DOMAIN r : /\ i > 1 => m[i] > 1
                               /\ r[i].c = q[m[i]].c /\ r[i].n = q[m[i]].n
                               /\ r[i].live => q[m[i]].live
                               /\ r[i].live /\ r[i].c = c => m[i] # f
        /\ q # <<>> => r # <<>>
    BY <1>3 DEF Sifted
  <1>5. q \in Queues /\ DOMAIN q = 1 .. Len(q) /\ DOMAIN q \subseteq Nat
    BY <1>0, Fields, QueueElements
  <1>6. /\ f \in 0 .. Len(q)
        /\ f = 0 => \A i \in DOMAIN q : ~ (q[i].c = c /\ q[i].live)
        /\ f # 0 => f \in DOMAIN q /\ q[f].c = c /\ q[f].live
    <2>1. /\ f \in 0 .. Len(q)
          /\ f = 0 => \A i \in 1 .. Len(q) : ~ (q[i].c = c /\ q[i].live)
          /\ f # 0 => q[f].c = c /\ q[f].live
      BY <1>5, FirstOfClient
    <2> HIDE DEF f
    <2>2. Len(q) \in Nat
      BY <1>5, QueueElements
    <2> QED
      BY <1>5, <2>1, <2>2
  <1> HIDE DEF f
  <1>7. DOMAIN r \subseteq Nat /\ (r # <<>> => 1 \in DOMAIN r)
    BY <1>4, QueueElements
  <1> HIDE DEF r
  <1>8. /\ UNCHANGED program /\ UNCHANGED fault /\ UNCHANGED replies /\ UNCHANGED asked
        /\ UNCHANGED answered /\ UNCHANGED overlap /\ Histories'
        /\ \A d \in Conn : d # c => conn'[d] = conn[d]
        /\ deep => deep'
    BY <1>0, Departs
  <1>9. \A d \in Conn : \A i \in LiveAt(r, d) : m[i] \in LiveAt(q, d)
    BY <1>4 DEF LiveAt
  <1>10. \A i \in LiveAt(r, c) : m[i] # f /\ f # 0 /\ f \in LiveAt(q, c) /\ i \in DOMAIN r
    BY <1>4, <1>6, <1>9 DEF LiveAt
  <1>11. EntriesKept(q, conn) /\ LiveOnes(q, conn, deep)
    BY <1>0 DEF Running
  <1>12. EntriesKept(r, conn')
    BY <1>4, <1>11 DEF EntriesKept
  <1>13. LiveOnes(r, conn', deep')
    <2> SUFFICES ASSUME ~deep', NEW d \in Conn
                 PROVE  /\ conn'[d].state = "dead" => LiveAt(r, d) = {}
                        /\ conn'[d].state = "gone" => \A i, j \in LiveAt(r, d) : i = j
      BY DEF LiveOnes
    <2>1. /\ conn[d].state = "dead" => LiveAt(q, d) = {}
          /\ conn[d].state = "gone" => \A i, j \in LiveAt(q, d) : i = j
      BY <1>8, <1>11 DEF LiveOnes
    <2>2. CASE d # c
      <3>1. conn'[d] = conn[d]
        BY <1>8, <2>2
      <3>2. \A i \in LiveAt(r, d) : i \in DOMAIN r
        BY DEF LiveAt
      <3> QED
        BY <1>4, <1>9, <2>1, <3>1, <3>2
    <2>3. CASE d = c /\ HandleError(c)
      <3>1. conn'[c].state = "gone" /\ (ThreeOf(q, c) => deep')
        BY <1>0, <2>3, Departs
      <3>2. \A i, j \in LiveAt(r, c) : i = j
        <4> SUFFICES ASSUME NEW i \in LiveAt(r, c), NEW j \in LiveAt(r, c), i # j
                     PROVE  FALSE
          OBVIOUS
        <4>1. m[i] # m[j] /\ m[i] # f /\ m[j] # f
          BY <1>4, <1>10
        <4>2. /\ m[i] \in DOMAIN q /\ q[m[i]].c = c /\ m[j] \in DOMAIN q /\ q[m[j]].c = c
              /\ f \in DOMAIN q /\ q[f].c = c
          BY <1>9, <1>10 DEF LiveAt
        <4> DEFINE x == m[i]
                   y == m[j]
        <4>3. x # y /\ x # f /\ y # f /\ x \in DOMAIN q /\ y \in DOMAIN q /\ q[x].c = c /\ q[y].c = c
          BY <4>1, <4>2
        <4> HIDE DEF x, y
        <4>4. ThreeOf(q, c)
          BY <1>5, <4>2, <4>3, ThreeInOrder
        <4> QED
          BY <3>1, <4>4
      <3> QED
        BY <2>3, <3>1, <3>2
    <2>4. CASE d = c /\ ~HandleError(c)
      <3>1. conn'[c].state = "dead" /\ conn[c].state = "gone"
        BY <1>0, <2>4, Departs
      <3>2. LiveAt(r, c) = {}
        <4> SUFFICES ASSUME NEW i \in LiveAt(r, c)
                     PROVE  FALSE
          OBVIOUS
        <4> QED
          BY <1>9, <1>10, <2>1, <2>4, <3>1
      <3> QED
        BY <2>4, <3>1, <3>2
    <2> QED
      BY <2>2, <2>3, <2>4
  <1>14. ~overlap => Owed(t, answered', asked') /\ \A d \in Conn : answered'[d] <= asked'[d]
    <2> SUFFICES ASSUME ~overlap
                 PROVE  Owed(t, answered, asked) /\ \A d \in Conn : answered[d] <= asked[d]
      BY <1>8
    <2>1. Owed(t, answered, asked)
      <3> SUFFICES ASSUME NEW d \in Conn
                   PROVE  answered[d] + Cardinality(Waiting(t, d)) <= asked[d]
        BY DEF Owed
      <3> DEFINE W == Waiting(ap, d)
                 U == Waiting(t, d)
                 n == [i \in U |-> m[i]]
      <3>1. n \in [U -> W] /\ \A i, j \in U : n[i] = n[j] => i = j
        <4>1. \A i \in U : /\ i \in DOMAIN r /\ i \in LiveAt(r, d) /\ (i > 1 \/ ap.stage # "replying")
          BY <1>2 DEF Waiting, LiveAt, r
        <4>2. \A i \in U : m[i] \in W
          BY <1>4, <1>9, <4>1 DEF Waiting
        <4> HIDE DEF U, W
        <4> QED
          BY <1>4, <4>1, <4>2
      <3> HIDE DEF n
      <3>2. t.queue \in Queues
        BY <1>2, Fields
      <3>3. Cardinality(U) <= Cardinality(W)
        BY <1>5, <3>1, <3>2, FewerWaiting
      <3>4. Cardinality(U) \in Nat /\ Cardinality(W) \in Nat
        BY <1>5, <3>2, WaitingFinite
      <3>5. answered[d] + Cardinality(W) <= asked[d]
        BY <1>0 DEF Running, Owed
      <3>6. answered[d] \in Nat /\ asked[d] \in Nat
        BY <1>0 DEF Histories
      <3> HIDE DEF U, W
      <3>7. answered[d] + Cardinality(U) <= asked[d]
        BY <3>3, <3>4, <3>5, <3>6
      <3> QED
        BY <3>7 DEF U
    <2> QED
      BY <2>1 DEF RelayInv, AnsweredOnce
  <1>15. ap.queue # <<>> /\ ap.queue[1].n > 0 => r # <<>> /\ r[1].n > 0
    <2>1. \A i \in DOMAIN r : r[i].n = 1
      BY <1>12 DEF EntriesKept
    <2> QED
      BY <1>4, <1>7, <2>1
  <1>16. ap.stage = "ready" => \A i \in DOMAIN r : r[i].n = 0
    <2>1. ap.stage = "ready" => \A i \in DOMAIN q : q[i].n = 0
      BY <1>0 DEF Running, Moves
    <2> QED
      BY <1>4, <2>1
  <1> QED
    BY <1>1, <1>2, <1>8, <1>12, <1>13, <1>14, <1>15, <1>16, Stays DEF r

LEMMA LeavesRelayInv ==
    ASSUME RelayInv, fault = "none", NEW c \in Conn, HandleError(c) \/ Reset(c)
    PROVE  RelayInv'
  <1>0. RelayTypes /\ Running /\ ap \in Relays /\ Histories
    BY DEF RelayInv, RelayTypes
  <1>1. /\ UNCHANGED program /\ UNCHANGED fault /\ UNCHANGED replies /\ UNCHANGED asked
        /\ UNCHANGED answered /\ UNCHANGED overlap /\ Histories'
        /\ \A d \in Conn : d # c => conn'[d] = conn[d]
        /\ conn'[c].state \in {"gone", "dead"}
    BY <1>0, Departs
  <1>2. CASE program = "relay"
    BY <1>2, RelayLeft
  <1>3. CASE program # "relay" /\ HandleError(c)
    <2> DEFINE a == Entered(ap, c)
    <2>1. ap' = Leave(a, c) /\ conn'[c].bound /\ conn[c].state \in {"line", "rest"}
      BY <1>0, <1>3, Departs
    <2>2. /\ a \in Relays /\ a.stage = ap.stage /\ a.writes = ap.writes
          /\ a.dialing = ap.dialing /\ a.dialed = ap.dialed /\ a.refused = ap.refused
          /\ a.reads = ap.reads /\ a.failed = ap.failed
          /\ Distinct(a.queue)
          /\ \A i \in DOMAIN a.queue : a.queue[i].c = c \/ conn[a.queue[i].c].bound
          /\ LiveOnes(a.queue, conn, deep)
          /\ ~overlap => Owed(a, answered, asked)
          /\ ap.queue # <<>> => a.queue # <<>> /\ a.queue[1] = ap.queue[1]
          /\ ap.stage = "ready" => \A i \in DOMAIN a.queue : a.queue[i].n = 0
      BY <1>3, <2>1, EnteredOnce
    <2> HIDE DEF a
    <2> QED
      BY <1>1, <1>3, <2>1, <2>2, ListLeft
  <1>4. CASE program # "relay" /\ ~HandleError(c)
    <2>1. ap' = Leave(ap, c) /\ conn'[c].bound = conn[c].bound
      BY <1>0, <1>4, Departs
    <2>2. EntriesKept(ap.queue, conn) /\ LiveOnes(ap.queue, conn, deep)
      BY <1>0 DEF Running
    <2>3. Distinct(ap.queue) /\ \A i \in DOMAIN ap.queue : conn[ap.queue[i].c].bound
      BY <1>4, <2>2 DEF EntriesKept
    <2>4. /\ ~overlap => Owed(ap, answered, asked)
          /\ ap.stage = "ready" => \A i \in DOMAIN ap.queue : ap.queue[i].n = 0
      BY <1>0 DEF Running, Moves
    <2>5. (\E i \in DOMAIN ap.queue : ap.queue[i].c = c) => conn'[c].bound
      BY <2>1, <2>3
    <2> QED
      BY <1>0, <1>1, <1>4, <2>1, <2>2, <2>3, <2>4, <2>5, ListLeft
  <1> QED
    BY <1>2, <1>3, <1>4

-----------------------------------------------------------------------------
(* The results                                                              *)

LEMMA NextRelayInv == RelayInv /\ [Next]_vars => RelayInv'
  <1> SUFFICES ASSUME RelayInv, [Next]_vars
               PROVE  RelayInv'
    OBVIOUS
  <1>1. CASE UNCHANGED vars
    <2>1. /\ UNCHANGED program /\ UNCHANGED conn /\ UNCHANGED ap /\ UNCHANGED fault
          /\ UNCHANGED broken /\ UNCHANGED replies /\ UNCHANGED asked /\ UNCHANGED answered
          /\ UNCHANGED overlap /\ UNCHANGED deep
      BY <1>1 DEF vars
    <2>2. RelayTypes' /\ NoHarm' /\ AnsweredOnce'
      BY <2>1 DEF RelayInv, RelayTypes, Histories, NoHarm, AnsweredOnce, Left
    <2>3. Running => Running'
      BY <2>1 DEF Running, EntriesKept, LiveOnes, Owed
    <2> QED
      BY <2>1, <2>2, <2>3 DEF RelayInv
  <1>2. CASE Next
    <2> fault = "none"
      BY <1>2 DEF Next
    <2>1. CASE ApStep
      BY <2>1, HandleConnectRelayInv, HandleConnectErrorRelayInv, HandleWriteRelayInv,
         HandleWriteProxyRelayInv, ReplySentRelayInv DEF ApStep
    <2>2. CASE \E c \in Conn : ConnStep(c)
      <3>1. PICK c \in Conn : ConnStep(c)
        BY <2>2
      <3> QED
        BY <3>1, ReadsRelayInv, ThrowRelayInv, HandleContentRelayInv, LeavesRelayInv DEF ConnStep
    <2>3. CASE Answers \/ Refuses \/ Hangs
      BY <2>3, OutsideRelayInv
    <2> QED
      BY <1>2, <2>1, <2>2, <2>3 DEF Next
  <1> QED
    BY <1>1, <1>2

LEMMA AlwaysRelayInv == Spec => []RelayInv
  <1> QED
    BY InitRelayInv, NextRelayInv, PTL DEF Spec

\* What the run checks of a state follows from the invariant: the motor from what is to come
\* for each stage.
LEMMA InvSound == RelayInv => QueueSound /\ AnsweredOnce
  <1> SUFFICES ASSUME RelayInv
               PROVE  QueueSound /\ AnsweredOnce
    OBVIOUS
  <1>0. RelayTypes /\ NoHarm /\ AnsweredOnce /\ ap \in Relays /\ (fault = "none" => Running)
    BY DEF RelayInv, RelayTypes
  <1>1. TypeOK
    <2>1. /\ ap.stage \in Stages /\ ap.queue \in Queues /\ ap.dialing \in 0 .. 1
          /\ ap.dialed \in Nat /\ ap.refused \in Nat /\ ap.reads \in Nat /\ ap.failed \in Nat
          /\ ap.writes \in Nat
      BY <1>0, Fields
    <2>2. \A i \in DOMAIN ap.queue : ap.queue[i] \in [c : Conn, live : BOOLEAN, n : Nat]
      BY <2>1, QueueElements DEF Entries
    <2>3. {ap.dialed, ap.refused, ap.reads, ap.failed, ap.writes} \subseteq Nat
      BY <2>1
    <2>4. ap.stage \in {"zero", "connecting", "ready", "writing", "replying", "unset"}
      BY <2>1 DEF Stages
    <2>5. /\ program \in Programs
          /\ fault \in {"none", "assert", "empty", "iterator", "dangling", "thrown"}
          /\ conn \in [Conn -> [state : Reading \union {"waiting", "gone", "dead"},
                                bound : BOOLEAN, params : BOOLEAN]]
          /\ broken \in 0 .. MaxBroken
          /\ replies \in [Conn -> Nat] /\ asked \in [Conn -> Nat] /\ answered \in [Conn -> Nat]
          /\ overlap \in BOOLEAN /\ deep \in BOOLEAN
      BY <1>0 DEF RelayTypes, Histories, Conns
    <2> QED
      BY <2>1, <2>2, <2>3, <2>4, <2>5, Zenon DEF TypeOK
  <1>2. Motor
    BY <1>0 DEF Motor, Running, Moves, Underway
  <1> QED
    BY <1>0, <1>1, <1>2 DEF QueueSound

\* Whatever clients and push server do, in any number, the queue of each of the three programs
\* is sound: no handler meets an empty list, an erased element or a destroyed connection but in
\* the three ways NoHarm names, and a stage that waits has a completion to come.
THEOREM ClientsDoNoHarm == Spec => []QueueSound
  <1> QED
    BY AlwaysRelayInv, InvSound, PTL

\* No request is answered twice, and no client is answered for another one's request, unless
\* apple_push connects anew while one is under way.
THEOREM NoRequestTwice == Spec => []AnsweredOnce
  <1> QED
    BY AlwaysRelayInv, InvSound, PTL
=============================================================================
