----------------------------- MODULE RtpReceiver -----------------------------
(***************************************************************************)
(* The media path of the player (rtp_receiver, h264nal and rtcp_client of  *)
(* android/jni-01/hgs-rtph264.cpp): RTP datagrams that the network loses,  *)
(* delays and duplicates are put together to NAL units for the sink, the   *)
(* accepted fragments are counted, and a sender report is answered by a    *)
(* receiver report when the next RTCP datagram comes.  All handlers run in *)
(* the one thread of the io_service, so each is a step.                    *)
(***************************************************************************)
EXTENDS Integers, Sequences

CONSTANTS
    SeqMod,     \* RTP_SEQ_MOD, 2^16 in the code
    CycMod,     \* the range of the 16-bit counter cycles
    Far,        \* 0x1fff of handle_datagram
    Near,       \* 0x0fff of statis
    FirstSeq,   \* the sequence numbers a sender may begin with
    Garbage,    \* what an uninitialised counter may hold
    MaxParts,   \* a NAL unit has at most this many fragments (model bound)
    MaxSent,    \* the sender sends at most this many packets (model bound)
    MaxLate,    \* at most this many datagrams come late or twice (model bound)
    Window      \* a late datagram is at most this many behind (model bound)

ASSUME RtpAssumption ==
    /\ {SeqMod, CycMod, Far, Near, MaxParts, MaxSent, MaxLate, Window} \subseteq Nat \ {0}
    /\ MaxParts > 1 /\ CycMod > 1
    /\ Near <= Far /\ Far < SeqMod /\ Window < Near
    /\ FirstSeq \subseteq 0 .. SeqMod - 1
    /\ Garbage \subseteq 0 .. CycMod - 1

VARIABLES
    first,      \* the sequence number the sender began with
    past,       \* the packets sent last, at most Window, oldest first
    sent,       \* how many packets were sent
    expseq_,    \* the sequence number expected next
    bufp_,      \* the fragments put together so far
    sink,       \* the NAL unit committed last: its number, whether it is whole
                \* (ok) and whether it was glued across a wrap (gap)
    rtpsi_,     \* rtp_statis_info
    due,        \* ts_rr_ + 100 < ts_sr_
    rr_,        \* the last report: which one (the second and later are 2),
                \* whether it tells a loss, and the history clean it covers
    zeroed,     \* history: the counters happened to be 0 at the start
    late,       \* history: how many datagrams came late or twice
    run,        \* history: the packets that came in sequence up to now
    got,        \* history: the packet that came last
    took,       \* history: the last datagram was a fragment that was accepted
    clean       \* history: so were all since the last report, none was lost

sender == <<first, past, sent>>
assembly == <<expseq_, bufp_, sink>>
report == <<due, rr_>>
history == <<zeroed, late, run, got, took, clean>>
vars == <<sender, assembly, rtpsi_, report, history>>

NoPacket == [at |-> 0, kind |-> "other", nal |-> 0, part |-> 0, e |-> TRUE]

Init ==
    /\ first \in FirstSeq
    /\ past = <<>>
    /\ sent = 0
    /\ expseq_ = 0
    /\ bufp_ = <<>>
    /\ sink = [nal |-> 0, ok |-> TRUE, gap |-> FALSE]
    /\ \E g \in Garbage : rtpsi_ = [cycles |-> g, base_seq |-> 0, max_seq |-> 0, received |-> g,
                                   expected_prior |-> 0, received_prior |-> 0]
    /\ due = FALSE
    /\ rr_ = [n |-> 0, lost |-> FALSE, clean |-> FALSE]
    /\ zeroed = (rtpsi_.cycles = 0 /\ rtpsi_.received = 0)
    /\ late = 0
    /\ run = 0
    /\ got = NoPacket
    /\ took = FALSE
    /\ clean = FALSE

-----------------------------------------------------------------------------
(* The sender (external)                                                   *)

seq(p) == (first + p.at - 1) % SeqMod

Last == IF past = <<>> THEN NoPacket ELSE past[Len(past)]

\* What the sender may send next: the fragments of a NAL unit are consecutive,
\* a STAP-A packet holds two units.
NextPackets ==
    IF Last.kind = "fu" /\ ~Last.e
    THEN {[at |-> sent + 1, kind |-> "fu", nal |-> Last.nal, part |-> Last.part + 1, e |-> e] :
              e \in IF Last.part + 1 = MaxParts THEN {TRUE} ELSE BOOLEAN}
    ELSE LET nal == Last.nal + (IF Last.kind = "stap" THEN 2 ELSE 1) IN
         {[at |-> sent + 1, kind |-> k, nal |-> nal, part |-> 1, e |-> k # "fu"] :
              k \in {"single", "stap", "fu", "other"}}

Send(p) ==
    /\ sent < MaxSent
    /\ sent' = sent + 1
    /\ past' = IF Len(past) = Window THEN Append(Tail(past), p) ELSE Append(past, p)
    /\ UNCHANGED first

-----------------------------------------------------------------------------
(* rtp_statis_info::statis                                                 *)

statis(s, q) ==
    IF s.cycles = 0
    THEN [s EXCEPT !.cycles = 1, !.base_seq = q, !.max_seq = q, !.received = 1]
    ELSE IF q < s.max_seq /\ s.max_seq - q < Near
    THEN s
    ELSE [s EXCEPT !.cycles = IF q < s.max_seq THEN (@ + 1) % CycMod ELSE @,
                   !.max_seq = q,
                   !.received = @ + 1]

-----------------------------------------------------------------------------
(* handle_datagram and nalu_incoming                                       *)

\* without the distance
ContinusBehind(q) == q = expseq_ % SeqMod \/ q < expseq_

\* whether the datagram is taken to follow the one before
continus(q) == q = expseq_ % SeqMod \/ (q < expseq_ /\ expseq_ - q > Far)

\* Packets were lost before p, and the sequence number wrapped among them.
WrapGap(p) == got.at < p.at - 1 /\ (seq(p) <= seq(got) \/ p.at - got.at > SeqMod)

Piece(p) == [nal |-> p.nal, part |-> p.part, e |-> p.e, gap |-> p.part > 1 /\ WrapGap(p)]

\* The fragments are exactly those of one NAL unit.
Whole(b) ==
    \A i \in DOMAIN b : b[i].nal = b[1].nal /\ b[i].part = i /\ b[i].e = (i = Len(b))

Committed(b) == [nal |-> b[1].nal, ok |-> Whole(b), gap |-> \E i \in DOMAIN b : b[i].gap]

\* a fragment that does not follow is left out and the buffer kept
FragmentKeep(p) ==
    LET taken == p.part = 1 \/ (continus(seq(p)) /\ bufp_ # <<>>)
        b == IF p.part = 1 THEN <<Piece(p)>> ELSE Append(bufp_, Piece(p))
    IN  /\ took' = taken
        /\ IF taken
           THEN /\ rtpsi_' = statis(rtpsi_, seq(p))
                /\ bufp_' = IF p.e THEN <<>> ELSE b
                /\ sink' = IF p.e THEN Committed(b) ELSE sink
           ELSE UNCHANGED <<bufp_, sink, rtpsi_>>

\* An FU-A fragment: the first begins a buffer, another is appended if the
\* datagram follows the one before and a buffer was begun; the last commits it.
Fragment(p) ==
    LET taken == p.part = 1 \/ (continus(seq(p)) /\ bufp_ # <<>>)
        b == IF p.part = 1 THEN <<Piece(p)>> ELSE Append(bufp_, Piece(p))
    IN  /\ took' = taken
        /\ IF taken
           THEN /\ rtpsi_' = statis(rtpsi_, seq(p))
                /\ bufp_' = IF p.e THEN <<>> ELSE b
                /\ sink' = IF p.e THEN Committed(b) ELSE sink
           ELSE /\ bufp_' = IF continus(seq(p)) THEN bufp_ ELSE <<>>
                /\ UNCHANGED <<sink, rtpsi_>>

\* nalu_incoming: a STAP-A commits each of its units, a single unit is
\* committed, other types are dropped; none of them touches bufp_.
nalu_incoming(p) ==
    \/ /\ p.kind = "fu"
       /\ Fragment(p)
    \/ /\ p.kind \in {"single", "stap"}
       /\ sink' = [nal |-> p.nal + (IF p.kind = "stap" THEN 1 ELSE 0), ok |-> TRUE, gap |-> FALSE]
       /\ took' = FALSE
       /\ UNCHANGED <<bufp_, rtpsi_>>
    \/ /\ p.kind = "other"
       /\ took' = FALSE
       /\ UNCHANGED <<bufp_, sink, rtpsi_>>

handle_datagram(p) ==
    /\ expseq_' = seq(p) + 1
    /\ nalu_incoming(p)

Came(p) ==
    /\ handle_datagram(p)
    /\ got' = p
    /\ UNCHANGED report

\* The next packet arrives.
Deliver ==
    \E p \in NextPackets :
        /\ Send(p)
        /\ Came(p)
        /\ run' = IF got.at # p.at - 1 THEN 1 ELSE IF run < MaxParts THEN run + 1 ELSE run
        /\ clean' = (clean /\ took' /\ rtpsi_.cycles # 0)
        /\ UNCHANGED <<zeroed, late>>

\* A packet is lost, or delayed.
Lose ==
    \E p \in NextPackets :
        /\ Send(p)
        /\ run' = 0
        /\ clean' = FALSE
        /\ UNCHANGED <<assembly, rtpsi_, report, zeroed, late, got, took>>

\* A packet comes that was delayed or had come before.
Late ==
    \E i \in DOMAIN past :
        /\ late < MaxLate
        /\ Came(past[i])
        /\ late' = late + 1
        /\ run' = 0
        /\ clean' = FALSE
        /\ UNCHANGED <<sender, zeroed>>

-----------------------------------------------------------------------------
(* rtcp_client::handle_receive_from and rreport                            *)

Word == SeqMod * CycMod     \* the range of uint32_t
Signed(x) == IF x % Word < Word \div 2 THEN x % Word ELSE (x % Word) - Word

expected(s) == (s.cycles * SeqMod + s.max_seq - s.base_seq + 1) % Word

LostInterval(s) == Signed(expected(s) - s.expected_prior) - (s.received - s.received_prior)

Told == [n |-> IF rr_.n = 0 THEN 1 ELSE 2, lost |-> LostInterval(rtpsi_) > 0, clean |-> clean]

\* expected_prior is not kept
ReportForget ==
    /\ rr_' = Told
    /\ rtpsi_' = [rtpsi_ EXCEPT !.received_prior = rtpsi_.received]
    /\ clean' = (took /\ run > 0)

\* The report; of the fraction only whether it is 0 matters.
Report ==
    /\ rr_' = Told
    /\ rtpsi_' = [rtpsi_ EXCEPT !.expected_prior = expected(rtpsi_),
                                !.received_prior = rtpsi_.received]
    /\ clean' = (took /\ run > 0)

rreport ==
    IF due /\ rtpsi_.received > 0
    THEN Report
    ELSE UNCHANGED <<rr_, rtpsi_, clean>>

\* An RTCP datagram: the report that is due goes first, then a sender report
\* makes the next one due if the last was sent long enough ago.
handle_receive_from ==
    /\ rreport
    /\ due' \in IF due /\ rtpsi_.received = 0 THEN {TRUE} ELSE BOOLEAN
    /\ UNCHANGED <<sender, assembly, zeroed, late, run, got, took>>

Next == Deliver \/ Lose \/ Late \/ handle_receive_from

Spec == Init /\ [][Next]_vars

-----------------------------------------------------------------------------
(* Properties                                                              *)

Packets == [at : 0 .. MaxSent, kind : {"single", "stap", "fu", "other"},
            nal : 0 .. 2 * MaxSent, part : 0 .. MaxParts, e : BOOLEAN]

TypeOK ==
    /\ first \in FirstSeq
    /\ past \in Seq(Packets) /\ Len(past) <= Window
    /\ sent \in 0 .. MaxSent
    /\ expseq_ \in 0 .. SeqMod
    /\ \A i \in DOMAIN bufp_ : bufp_[i].part <= MaxParts
    /\ sink \in [nal : 0 .. 2 * MaxSent, ok : BOOLEAN, gap : BOOLEAN]
    /\ rtpsi_ \in [cycles : 0 .. CycMod - 1, base_seq : 0 .. SeqMod - 1, max_seq : 0 .. SeqMod - 1,
                   received : Nat, expected_prior : 0 .. Word - 1, received_prior : Nat]
    /\ due \in BOOLEAN
    /\ rr_ \in [n : 0 .. 2, lost : BOOLEAN, clean : BOOLEAN]
    /\ zeroed \in BOOLEAN
    /\ late \in 0 .. MaxLate
    /\ run \in 0 .. MaxParts
    /\ got \in Packets
    /\ took \in BOOLEAN
    /\ clean \in BOOLEAN

\* What nalu_incoming() hands to the sink is one whole NAL unit, never one with a
\* fragment missing or glued to another, whatever the network loses, delays or
\* duplicates -- except that handle_datagram() takes any loss during which the
\* 16-bit sequence number wraps for no loss.
WholeNal == sink.ok \/ sink.gap

\* A NAL unit whose fragments come in sequence is committed when the last one
\* comes, whatever happened before, also when the sequence number wraps in it.
UnhurtCommitted ==
    got.kind = "fu" /\ got.e /\ run >= got.part => sink.nal = got.nal /\ sink.ok

\* NAL units reach the sink in the order in which they were sent and each once,
\* unless a datagram comes late or twice or a unit was glued.
InOrder ==
    [][sink' # sink => sink'.nal > sink.nal \/ sink.gap \/ sink'.gap \/ late' # late]_vars

\* BOOST_ASSERT(s->received <= expected) of rreport() holds although datagrams
\* that come twice are counted, until cycles itself wraps -- if the counters,
\* which nothing initialises, were 0.
NotMoreThanExpected ==
    zeroed /\ due /\ rtpsi_.received > 0 /\ rtpsi_.cycles # 0 => rtpsi_.received <= expected(rtpsi_)

\* From the second report on, an interval in which every packet was a fragment
\* and was accepted is reported without loss.
CleanReport == rr_.n = 2 /\ rr_.clean => ~rr_.lost

\* What reaches the sink, in spite of loss, delay and duplicates: the types, and both.
NalsSound == TypeOK /\ WholeNal /\ UnhurtCommitted

\* What statis() counts and rreport() reports.
CountsSound == NotMoreThanExpected /\ CleanReport
=============================================================================
