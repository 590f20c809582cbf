------------------------------ MODULE LinkTester ------------------------------
(***************************************************************************)
(* The link testers network/epoll/udp-io.cpp (asio, UDP) and udp-io2.cpp   *)
(* (plain sockets, UDP or TCP): a sender sends numbered messages of random *)
(* length, a receiver tells from the numbers what was lost on the way.     *)
(* A unit is four bytes, the int32_t in which data_ is indexed.  The       *)
(* header of 20 bytes is two units here, the length and the number.  The   *)
(* pace of the sender, the rates and how often a line is printed are left  *)
(* out: time and arithmetic on the printed rates only.                     *)
(***************************************************************************)
EXTENDS Integers, Sequences, FiniteSets

CONSTANTS
    MaxSeq,     \* messages (model bound)
    Lengths,    \* lengths of messages in units
    MaxLost, MaxTwice, MaxCuts  \* faults of the network and short sends (model bounds)

Header == 2

ASSUME LengthsAssumption == Lengths \subseteq {n \in Nat : n > Header}

VARIABLES
    proto,      \* "tcp", "udp" (both of udp-io2) or "asio" (udp-io)
    seq,        \* sent_.seq
    out,        \* [len, nsend] of the message in do_send, len = 0 if there is none
    net,        \* UDP: the datagrams on the way, in their order; TCP: the units
    recv,       \* recv_: [seq, n_dgram]
    reading,    \* [lenv, nread, seq] in ProtocolTCP::recv, lenv = 0 before the header
    told,       \* what print says of the last message: [seqv, missing]
    got,        \* history: the numbers of the messages that were received
    mixed,      \* history: a datagram came twice or late, or a number was cut off
    life,       \* of sender and receiver: "new", "up", "gone", or "refused" by connect
    icmp,       \* the sender's socket has an error to report: nobody has the port
    budget      \* what is left of the bounds

linkVars == <<proto, seq, out, net, recv, reading, told, got, mixed, life, icmp, budget>>

Idle == [len |-> 0, nsend |-> 0]
NoHeader == [lenv |-> 0, nread |-> 0, seq |-> 0]

Spend(fault) == budget[fault] > 0 /\ budget' = [budget EXCEPT ![fault] = @ - 1]

-----------------------------------------------------------------------------
(* Start-up                                                                *)

Runs(who) == life[who] = "up"

\* main with two arguments: udp_bind, or the TCPAcceptor, of which accept waits.
StartReceiver ==
    /\ life.receiver = "new"
    /\ life' = [life EXCEPT !.receiver = "up"]
    /\ UNCHANGED <<proto, seq, out, net, recv, reading, told, got, mixed, icmp, budget>>

\* main with five arguments: udp_connect succeeds in any case, tcp_connect only if there is
\* a receiver, and is not tried again.
StartSender ==
    /\ life.sender = "new"
    /\ life' = [life EXCEPT !.sender = IF proto = "tcp" /\ ~Runs("receiver") THEN "refused" ELSE "up"]
    /\ UNCHANGED <<proto, seq, out, net, recv, reading, told, got, mixed, icmp, budget>>

-----------------------------------------------------------------------------
(* The sender                                                              *)

\* data_[k]: only the header is ever written.
Data(k) == IF k = 0 THEN <<"length", out.len>> ELSE IF k = 1 THEN <<"number", seq>> ELSE <<"rest">>

\* do_send as far as the call of proto_.send.
do_send(len) ==
    /\ Runs("sender") /\ out = Idle /\ seq < MaxSeq
    /\ out' = [len |-> len, nsend |-> 0]
    /\ UNCHANGED <<proto, seq, net, recv, reading, told, got, mixed, life, icmp, budget>>

\* sent_st::outgoing
outgoing == seq' = seq + 1 /\ out' = Idle

\* send of a datagram, ProtocolUDP::send or the async_send_to of udp-io and its handler.
\* In udp-io the random part may leave a datagram shorter than the 16 bytes the receiver
\* asks for.  Without a receiver the datagram is lost, and a connected socket may learn it.
SendDatagram ==
    /\ proto # "tcp" /\ out # Idle /\ ~icmp
    /\ IF Runs("receiver")
       THEN /\ \E short \in IF proto = "asio" THEN BOOLEAN ELSE {FALSE} :
                   net' = Append(net, [seq |-> seq, short |-> short])
            /\ UNCHANGED icmp
       ELSE icmp' \in (IF proto = "udp" THEN BOOLEAN ELSE {FALSE}) /\ UNCHANGED net
    /\ outgoing
    /\ UNCHANGED <<proto, recv, reading, told, got, mixed, life, budget>>

\* ... and then the next send fails, which ends the sender.
SendRefused ==
    /\ out # Idle /\ icmp
    /\ life' = [life EXCEPT !.sender = "gone"] /\ out' = Idle
    /\ UNCHANGED <<proto, seq, net, recv, reading, told, got, mixed, icmp, budget>>

\* ProtocolTCP::send: n units are taken, from &buf[nsend].  nsend counts bytes and buf is
\* of int32_t, so what follows a short send comes from four times the place.
SendSome ==
    /\ proto = "tcp" /\ out # Idle
    /\ \E n \in 1 .. out.len - out.nsend :
           /\ net' = net \o [i \in 1 .. n |-> Data(4 * out.nsend + i - 1)]
           /\ IF out.nsend + n = out.len
              THEN outgoing /\ UNCHANGED <<budget, mixed>>
              ELSE /\ Spend("cuts")
                   /\ out' = [out EXCEPT !.nsend = @ + n]
                   /\ mixed' = (mixed \/ out.nsend + n = 1)
                   /\ UNCHANGED seq
    /\ UNCHANGED <<proto, recv, reading, told, got, life, icmp>>

\* The sender is stopped; a TCP stream ends after what was sent.
Interrupted ==
    /\ Runs("sender")
    /\ life' = [life EXCEPT !.sender = "gone"] /\ out' = Idle
    /\ UNCHANGED <<proto, seq, net, recv, reading, told, got, mixed, icmp, budget>>

-----------------------------------------------------------------------------
(* The network                                                             *)

Without(i) == SubSeq(net, 1, i - 1) \o SubSeq(net, i + 1, Len(net))

LoseDatagram ==
    /\ proto # "tcp" /\ Spend("lost")
    /\ \E i \in DOMAIN net : net' = Without(i)
    /\ UNCHANGED <<proto, seq, out, recv, reading, told, got, mixed, life, icmp>>

\* A datagram comes a second time: it stays on the way.
RepeatDatagram ==
    /\ proto # "tcp" /\ Spend("twice")
    /\ \E i \in DOMAIN net : net' = Append(net, net[i])
    /\ mixed' = TRUE
    /\ UNCHANGED <<proto, seq, out, recv, reading, told, got, life, icmp>>

-----------------------------------------------------------------------------
(* The receiver                                                            *)

\* recv_st::print: the word about the number, and the messages that are missing.
print(prev, now) ==
    [seqv |-> CASE now.seq = prev.seq + 1 -> "none"
                [] now.seq < prev.seq -> "misorder"
                [] now.seq = prev.seq -> "repeated"
                [] now.seq > prev.seq + 1 -> "lost",
     missing |-> now.seq + 1 - now.n_dgram]

\* recv_st::incoming with a copy of what was before.
incoming(s) ==
    /\ recv' = [seq |-> s, n_dgram |-> recv.n_dgram + 1]
    /\ told' = print(recv, recv')

Exit == life' = [life EXCEPT !.receiver = "gone"] /\ UNCHANGED <<recv, told, got>>

\* do_receive of a datagram, any of those on the way.
ReceiveDatagram ==
    /\ proto # "tcp" /\ Runs("receiver")
    /\ \E i \in DOMAIN net :
           /\ net' = Without(i)
           /\ mixed' = (mixed \/ i > 1)
           /\ IF net[i].short THEN Exit
              ELSE incoming(net[i].seq) /\ got' = got \union {net[i].seq} /\ UNCHANGED life
    /\ UNCHANGED <<proto, seq, out, reading, icmp, budget>>

\* ProtocolTCP::recv, the header.  A length that is none may be any number, and so may a
\* number that was cut off; an impossible length ends the program.
RecvHeader ==
    /\ proto = "tcp" /\ Runs("receiver")
    /\ reading = NoHeader /\ Len(net) >= Header
    /\ net' = SubSeq(net, Header + 1, Len(net))
    /\ \E len \in IF net[1][1] = "length" THEN {net[1][2]} ELSE {0} \union Lengths,
          s \in IF net[2][1] = "number" THEN {net[2][2]} ELSE 0 .. MaxSeq :
           IF len <= Header
           THEN Exit /\ UNCHANGED reading
           ELSE /\ reading' = [lenv |-> len, nread |-> Header, seq |-> s]
                /\ UNCHANGED <<life, recv, told, got>>
    /\ UNCHANGED <<proto, seq, out, mixed, icmp, budget>>

\* The bytes ::recv is asked for once nread are there.  WantedAll forgets the header.
WantedAll(r) == r.lenv - r.nread + Header
Wanted(r) == r.lenv - r.nread

\* ProtocolTCP::recv, the rest, in one piece or in several, and the end of do_receive.
RecvRest ==
    /\ proto = "tcp" /\ Runs("receiver") /\ reading # NoHeader
    /\ \E n \in 1 .. Wanted(reading) :
           /\ n <= Len(net)
           /\ net' = SubSeq(net, n + 1, Len(net))
           /\ IF n = Wanted(reading)
              THEN /\ incoming(reading.seq)
                   /\ got' = got \union {reading.seq}
                   /\ reading' = NoHeader
              ELSE /\ reading' = [reading EXCEPT !.nread = @ + n]
                   /\ UNCHANGED <<recv, told, got>>
    /\ UNCHANGED <<proto, seq, out, mixed, life, icmp, budget>>

\* ProtocolTCP::recv at the end of the stream: less than the header, or n = 0.
RecvEnd ==
    /\ proto = "tcp" /\ Runs("receiver") /\ life.sender = "gone"
    /\ IF reading = NoHeader THEN Len(net) < Header ELSE net = <<>>
    /\ Exit
    /\ UNCHANGED <<proto, seq, out, net, reading, mixed, icmp, budget>>

-----------------------------------------------------------------------------
LinkInit ==
    /\ proto \in {"tcp", "udp", "asio"}
    /\ seq = 0 /\ out = Idle /\ net = <<>>
    /\ recv = [seq |-> 0, n_dgram |-> 0]
    /\ reading = NoHeader
    /\ told = [seqv |-> "none", missing |-> 0]
    /\ got = {} /\ mixed = FALSE
    /\ life = [sender |-> "new", receiver |-> "new"] /\ icmp = FALSE
    /\ budget = [lost |-> MaxLost, twice |-> MaxTwice, cuts |-> MaxCuts]

LinkNext ==
    \/ StartReceiver
    \/ StartSender
    \/ \E len \in Lengths : do_send(len)
    \/ SendDatagram
    \/ SendRefused
    \/ SendSome
    \/ Interrupted
    \/ LoseDatagram
    \/ RepeatDatagram
    \/ ReceiveDatagram
    \/ RecvHeader
    \/ RecvRest
    \/ RecvEnd

-----------------------------------------------------------------------------
(* Properties                                                              *)

\* As long as no datagram comes twice or late, the count of recv_st::print is the number
\* of messages that are missing, and its word is "lost" exactly when there is a gap.
\* (The first datagram is compared with number 0 as if that had come.)
LossTold ==
    (recv.n_dgram > 0 /\ ~mixed) =>
        /\ told.missing = Cardinality((0 .. recv.seq) \ got)
        /\ recv.n_dgram > 1 => (told.seqv = "lost" <=> recv.seq - 1 \notin got)

\* Short sends do not put the TCP receiver out of step, though their rest is taken from
\* the wrong place: the n-th message it takes is the n-th that was sent, with its own
\* number unless the first send stopped in the header, and it goes on until the stream
\* ends.
InStep ==
    proto = "tcp" =>
        /\ recv.n_dgram <= seq
        /\ (recv.n_dgram > 0 /\ ~mixed) => recv.seq = recv.n_dgram - 1
        /\ life.receiver = "gone" => life.sender = "gone"
        /\ (reading = NoHeader /\ net # <<>>) => net[1][1] = "length"

\* What the receiver says of the link is true of it: both of these.
ReportsRight == LossTold /\ InStep
=============================================================================
