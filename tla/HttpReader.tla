------------------------------ MODULE HttpReader ------------------------------
(***************************************************************************)
(* How four programs of the repository cut HTTP messages out of a TCP      *)
(* stream, whatever the pieces in which it arrives: the echo server as.cpp *)
(* with its reply writers, the client ac.cpp, the push proxies             *)
(* (apple_push_proxy.cpp and apple_push_relay.cpp, whose readers are the   *)
(* same) and the request parser of chs.cc.  A message on the wire is a     *)
(* sequence of tokens: perhaps a blank line, the first line, the header    *)
(* lines with the blank line after them, the bytes of the body.            *)
(***************************************************************************)
EXTENDS Integers, Sequences, FiniteSets, SequencesExt

CONSTANTS
    Shapes,         \* the messages [blank, line, length] a peer may send (model bound)
    MaxMessages     \* messages on one connection (model bound)

Bare == -2          \* the header is the blank line only
NoLength == -1      \* there are header lines, none of them Content-Length
None == 0

\* A body byte stands for one byte, a line for at least two: no body is longer.
ASSUME ShapesAssumption ==
    Shapes \subseteq [blank : BOOLEAN, line : {"GET", "POST", "bad"}, length : Bare .. 2]

VARIABLES
    prog,       \* "as", "ac", "proxy" or "chs"
    script,     \* the messages of the peer
    wire,       \* tokens that have not arrived
    rsbuf,      \* tokens that have arrived and were not consumed
    op,         \* what is waited for, "none" when the program has given up
    need,       \* bytes that async_read still has to transfer
    size,       \* content_.size(), body_size_
    params,     \* whose request line the reader has: the message's number
    handed,     \* history: the messages handed over, [line, body]
    early,      \* history: the messages with body bytes in rsbuf too soon
    lost,       \* history: the messages whose first line was misread
    writers,    \* as: for each socwriter the pieces in its list
    hired,      \* as: the socwriter in hired_ or None
    written,    \* as: pieces <<message, half>> of replies on the socket
    burst       \* history: replies given out since no socwriter was alive, 3: or more

readVars == <<wire, rsbuf, op, need, size, params, handed, early, lost>>
writeVars == <<writers, hired, written, burst>>
httpVars == <<prog, script, readVars, writeVars>>

-----------------------------------------------------------------------------
(* The stream                                                              *)

Token(kind, m) == [kind |-> kind, of |-> m, bare |-> FALSE, length |-> NoLength, cut |-> FALSE]

\* The tokens of message m, which has the given shape.
Tokens(shape, m) ==
    (IF shape.blank THEN <<Token("blank", m)>> ELSE <<>>)
    \o <<[Token("line", m) EXCEPT !.cut = (shape.line = "bad")]>>
    \o <<[Token("head", m) EXCEPT !.bare = (shape.length = Bare), !.length = shape.length]>>
    \o [i \in 1 .. (IF shape.length > 0 THEN shape.length ELSE 0) |-> Token("byte", m)]

\* "\r\n" ends every token that is not of a body.
HasLine(s) == \E i \in DOMAIN s : s[i].kind # "byte"

\* "\r\n\r\n": header lines end with it, and it is where an empty line follows any
\* other line.  The empty line of a bare header has lost its first half to the
\* request line once that is consumed.
HasGap(s) ==
    \E i \in DOMAIN s :
        \/ s[i].kind = "head" /\ ~s[i].bare
        \/ /\ i < Len(s) /\ s[i].kind # "byte"
           /\ s[i + 1].kind = "blank" \/ (s[i + 1].kind = "head" /\ s[i + 1].bare)

\* The stream after the blank lines that >> and parse_status_line skip.
Skipped(s) == LET first == {i \in DOMAIN s : s[i].kind # "blank"}
              IN  IF first = {} THEN <<>>
                  ELSE SubSeq(s, CHOOSE i \in first : \A j \in first : i <= j, Len(s))

\* getline until the empty line: the header that ends there and what follows it.
HeadAt(s) == CHOOSE i \in DOMAIN s : s[i].kind = "head" /\ \A j \in 1 .. i - 1 : s[j].kind # "head"
AfterHead(s) == SubSeq(s, HeadAt(s) + 1, Len(s))

\* How many bytes there are: a byte of a body counts once, any other token twice.
Bytes(s) == Len(s) + Cardinality({i \in DOMAIN s : s[i].kind # "byte"})

\* sgetn: n bytes of the stream.  What is left of a line of which bytes are taken
\* is cut; of a blank line nothing is left.
Taken(s, n) ==
    IF n = 0 \/ s = <<>> THEN <<>>
    ELSE IF s[1].kind = "byte" THEN SubSeq(s, 1, n) ELSE <<s[1]>>
Rest(s, n) ==
    IF n = 0 \/ s = <<>> THEN s
    ELSE IF s[1].kind = "byte" THEN SubSeq(s, n + 1, Len(s))
    ELSE IF s[1].kind = "blank" THEN Tail(s)
    ELSE <<[s[1] EXCEPT !.cut = TRUE]>> \o Tail(s)

Satisfied ==
    \/ op = "line" /\ HasLine(rsbuf)
    \/ op = "head" /\ HasGap(rsbuf)
    \/ op = "body" /\ need = 0
    \/ op = "try"

\* async_read_until and async_read take what has arrived as long as they are not
\* satisfied; recvbuf takes it and looks.
Receive ==
    /\ op \in {"line", "head", "body", "more"} /\ ~Satisfied
    /\ \E k \in 1 .. Len(wire) :
        /\ rsbuf' = rsbuf \o SubSeq(wire, 1, k)
        /\ wire' = SubSeq(wire, k + 1, Len(wire))
        /\ LET left == need - Bytes(SubSeq(wire, 1, k)) IN need' = IF left > 0 THEN left ELSE 0
        /\ op' = IF op = "more" THEN "try" ELSE op
    /\ UNCHANGED <<prog, script, size, params, handed, early, lost, writeVars>>

\* The peer closes: the operation fails, the error handler runs, and that is all.
error_ ==
    /\ op \in {"line", "head", "body", "more"} /\ ~Satisfied
    /\ wire = <<>>
    /\ op' = "none"
    /\ UNCHANGED <<prog, script, wire, rsbuf, need, size, params, handed, early, lost, writeVars>>

-----------------------------------------------------------------------------
(* The starts                                                              *)

\* as: the Acceptor hands the socket to a new Http_reader_impl, whose start() reads.
handle_accept ==
    /\ prog = "as" /\ op = "start"
    /\ op' = "line"
    /\ UNCHANGED <<prog, script, wire, rsbuf, need, size, params, handed, early, lost, writeVars>>

\* proxy: relay_server keeps the connection; ready() reads.
ready ==
    /\ prog = "proxy" /\ op = "start"
    /\ op' = "line"
    /\ UNCHANGED <<prog, script, wire, rsbuf, need, size, params, handed, early, lost, writeVars>>

\* chs: the connection waits for EV_READ.
connection ==
    /\ prog = "chs" /\ op = "start"
    /\ op' = "more"
    /\ UNCHANGED <<prog, script, wire, rsbuf, need, size, params, handed, early, lost, writeVars>>

\* ac: one step after the other, each of which may fail.
handle_resolve ==
    /\ prog = "ac" /\ op = "start"
    /\ op' \in {"connect", "none"}
    /\ UNCHANGED <<prog, script, wire, rsbuf, need, size, params, handed, early, lost, writeVars>>

handle_connect ==
    /\ op = "connect"
    /\ op' \in {"write", "none"}
    /\ UNCHANGED <<prog, script, wire, rsbuf, need, size, params, handed, early, lost, writeVars>>

handle_write_request ==
    /\ op = "write"
    /\ op' \in {"line", "none"}
    /\ UNCHANGED <<prog, script, wire, rsbuf, need, size, params, handed, early, lost, writeVars>>

-----------------------------------------------------------------------------
(* as: replies                                                             *)

\* send: the reply goes to the end of the writer's list and is written at once when
\* that was empty.
send(ws, w, m) ==
    LET reply == <<<<m, 1>>, <<m, 2>>>>
    IN  [i \in DOMAIN ws \union {w} |->
            IF i # w THEN ws[i] ELSE IF i \in DOMAIN ws THEN ws[i] \o reply ELSE reply]

\* Sender::associate: the reply goes to the socket's writer.  The new one, which
\* was made in any case, is then destroyed, and erases the entry of the socket.
\* AssociateNew does not look for a writer that is there.
AssociateNew(m) ==
    /\ writers' = send(writers, m, m)
    /\ hired' = m

associate(m) ==
    IF hired = None
    THEN writers' = send(writers, m, m) /\ hired' = m
    ELSE writers' = send(writers, hired, m) /\ hired' = None

\* MyService::work: the request is echoed.
work(m) ==
    /\ associate(m)
    /\ burst' = IF burst = 3 THEN 3 ELSE IF DOMAIN writers = {} THEN 1 ELSE burst + 1
    /\ UNCHANGED written

\* writeb: a piece of the first reply of a list is on the socket; after the last
\* piece nothing holds the writer any more, and its destructor erases the entry.
writeb ==
    /\ \E w \in DOMAIN writers :
        /\ written' = Append(written, Head(writers[w]))
        /\ IF Len(writers[w]) > 1
           THEN writers' = [writers EXCEPT ![w] = Tail(@)] /\ UNCHANGED hired
           ELSE /\ writers' = [i \in DOMAIN writers \ {w} |-> writers[i]]
                /\ hired' = None
    /\ UNCHANGED <<prog, script, readVars, burst>>

-----------------------------------------------------------------------------
(* The first line                                                          *)

\* http_request(): the request that starts has nothing of the one before.
\* KeptRequest is the slip of using it again.
KeptRequest == size

http_request == 0

\* as: an empty buffer means that there were blank lines only.
handle_method_line ==
    /\ prog = "as" /\ op = "line" /\ Satisfied
    /\ size' = http_request
    /\ rsbuf' = IF Skipped(rsbuf) = <<>> THEN <<>> ELSE Tail(Skipped(rsbuf))
    /\ IF Skipped(rsbuf) = <<>>
       THEN op' = "line" /\ UNCHANGED params
       ELSE op' = "head" /\ params' = Head(Skipped(rsbuf)).of
    /\ UNCHANGED <<prog, script, wire, need, handed, early, lost, writeVars>>

\* ac: a stream that ends, another version or another status than 200 is the end.
handle_read_status_line ==
    /\ prog = "ac" /\ op = "line" /\ Satisfied
    /\ rsbuf' = IF Skipped(rsbuf) = <<>> THEN <<>> ELSE Tail(Skipped(rsbuf))
    /\ IF Skipped(rsbuf) = <<>> \/ Head(Skipped(rsbuf)).cut
       THEN op' = "none" /\ UNCHANGED params
       ELSE op' = "head" /\ params' = Head(Skipped(rsbuf)).of
    /\ UNCHANGED <<prog, script, wire, need, size, handed, early, lost, writeVars>>

\* parse_status_line leaves request and parameters as they are when the line is not
\* one; of the lines it takes, get() finds the parameters of the first (keyvalues).
path_params(old, line) == IF line.cut \/ old # None THEN old ELSE line.of

\* proxy: what parse_status_line leaves of the buffer, the parameters then, and the
\* messages of which it has missed the line: the next one when there were blank lines
\* only, the one whose line it refuses.
parse_status_line(s) ==
    LET rest == Skipped(s)
    IN  IF rest = <<>>
        THEN [rsbuf |-> <<>>, params |-> params, lost |-> {s[Len(s)].of}]
        ELSE [rsbuf |-> Tail(rest), params |-> path_params(params, Head(rest)),
              lost |-> IF Head(rest).cut THEN {Head(rest).of} ELSE {}]

\* proxy: neither error ends anything, for make_error_code makes no error of it:
\* the header is read in any case.
MethodLineOfProxy ==
    LET parsed == parse_status_line(rsbuf)
    IN  /\ prog = "proxy" /\ op = "line" /\ Satisfied
        /\ rsbuf' = parsed.rsbuf
        /\ params' = parsed.params
        /\ lost' = lost \union parsed.lost
        /\ op' = "head"
        /\ UNCHANGED <<prog, script, wire, need, size, handed, early, writeVars>>

-----------------------------------------------------------------------------
(* The header and the body                                                 *)

\* The Content-Length of a header, else what the size was before.
parse_header_line(t) == IF t.length >= 0 THEN t.length ELSE size

Early(t, s) == t.length > 0 /\ s # <<>> /\ Head(s).kind = "byte"

\* as: the whole body is still to come, whether it has come or not.
handle_headers ==
    LET t == rsbuf[HeadAt(rsbuf)]
    IN  /\ prog = "as" /\ op = "head" /\ Satisfied
        /\ rsbuf' = AfterHead(rsbuf)
        /\ size' = parse_header_line(t)
        /\ need' = size'
        /\ op' = "body"
        /\ early' = IF Early(t, rsbuf') THEN early \union {t.of} ELSE early
        /\ UNCHANGED <<prog, script, wire, params, handed, lost, writeVars>>

\* ac: nothing or too much is an error; a body that is there is taken, of one that
\* is partly there all of it is waited for.
handle_read_headers ==
    LET t == rsbuf[HeadAt(rsbuf)]
    IN  /\ prog = "ac" /\ op = "head" /\ Satisfied
        /\ rsbuf' = AfterHead(rsbuf)
        /\ size' = parse_header_line(t)
        /\ need' = IF Bytes(rsbuf') >= size' THEN 0 ELSE size'
        /\ op' = IF size' = 0 THEN "none" ELSE "body"
        /\ early' = IF Early(t, rsbuf') /\ need' > 0 THEN early \union {t.of} ELSE early
        /\ UNCHANGED <<prog, script, wire, params, handed, lost, writeVars>>

\* proxy: what is missing is waited for.  NeedAll waits for the whole body.
NeedAll(n, s) == n

Need(n, s) == IF n <= Bytes(s) THEN 0 ELSE n - Bytes(s)

HeadersOfProxy ==
    LET t == rsbuf[HeadAt(rsbuf)]
    IN  /\ prog = "proxy" /\ op = "head" /\ Satisfied
        /\ rsbuf' = AfterHead(rsbuf)
        /\ size' = parse_header_line(t)
        /\ need' = Need(size', rsbuf')
        /\ op' = "body"
        /\ UNCHANGED <<prog, script, wire, params, handed, early, lost, writeVars>>

Hand(m, body) == handed' = Append(handed, [line |-> m, body |-> body])

handle_content ==
    /\ prog = "as" /\ op = "body" /\ Satisfied
    /\ Hand(params, Taken(rsbuf, size))
    /\ rsbuf' = Rest(rsbuf, size)
    /\ work(Len(handed) + 1)
    /\ op' = "line"
    /\ UNCHANGED <<prog, script, wire, need, size, params, early, lost>>

\* ac: whatever is in the buffer is printed.
handle_read_content ==
    /\ prog = "ac" /\ op = "body" /\ Satisfied
    /\ Hand(params, rsbuf)
    /\ rsbuf' = <<>>
    /\ op' = "line"
    /\ UNCHANGED <<prog, script, wire, need, size, params, early, lost, writeVars>>

\* proxy: on_REQUEST throws when it has no parameters, which ends the program.
ContentOfProxy ==
    /\ prog = "proxy" /\ op = "body" /\ Satisfied
    /\ rsbuf' = Rest(rsbuf, size)
    /\ IF params = None
       THEN op' = "none" /\ UNCHANGED handed
       ELSE op' = "line" /\ Hand(params, Taken(rsbuf, size))
    /\ UNCHANGED <<prog, script, wire, need, size, params, early, lost, writeVars>>

\* chs: the value of Content-Length, negative when there is none.
headval(t) == t.length

\* chs: size_ok.  A GET needs no body.  "bad" is any other method.
size_ok(line, len, t) ==
    CASE line = "GET" -> TRUE
      [] line = "POST" -> headval(t) <= len
      [] OTHER -> FALSE

\* chs: method_line_parse looks at the first line, which may be blank.
method_line_parse(s) == IF s[1].kind = "blank" THEN "bad" ELSE script[s[1].of].line

\* chs: not complete, then more is waited for; without a length, without a cookie
\* (a bare header) or without a body the connection is closed.
makereq ==
    /\ prog = "chs" /\ op = "try"
    /\ IF ~HasGap(rsbuf)
       THEN op' = "more" /\ UNCHANGED handed
       ELSE LET t == rsbuf[HeadAt(rsbuf)]
                body == AfterHead(rsbuf)
                line == method_line_parse(rsbuf)
            IN  CASE line = "POST" /\ headval(t) < 0 -> op' = "none" /\ UNCHANGED handed
                  [] ~size_ok(line, Len(body), t) -> op' = "more" /\ UNCHANGED handed
                  [] OTHER ->
                        /\ op' = "none"
                        /\ IF t.bare \/ body = <<>> THEN UNCHANGED handed ELSE Hand(t.of, body)
    /\ UNCHANGED <<prog, script, wire, rsbuf, need, size, params, early, lost, writeVars>>

-----------------------------------------------------------------------------
\* A connection of chs and of ac carries one message.
HttpInit ==
    /\ prog \in {"as", "ac", "proxy", "chs"}
    /\ script \in UNION {[1 .. n -> Shapes] : n \in IF prog \in {"ac", "chs"} THEN {1} ELSE 1 .. MaxMessages}
    /\ wire = FlattenSeq([m \in DOMAIN script |-> Tokens(script[m], m)])
    /\ rsbuf = <<>> /\ op = "start" /\ need = 0 /\ size = 0 /\ params = None
    /\ handed = <<>> /\ early = {} /\ lost = {}
    /\ writers = [i \in {} |-> <<>>] /\ hired = None /\ written = <<>> /\ burst = 0

Handlers ==
    \/ handle_accept \/ ready \/ connection
    \/ handle_resolve \/ handle_connect \/ handle_write_request
    \/ handle_method_line \/ handle_read_status_line \/ MethodLineOfProxy
    \/ handle_headers \/ handle_read_headers \/ HeadersOfProxy
    \/ handle_content \/ handle_read_content \/ ContentOfProxy \/ makereq

HttpNext == Receive \/ Handlers \/ writeb \/ error_

-----------------------------------------------------------------------------
(* Properties                                                              *)

\* However the stream is cut and whatever came before on the connection: the
\* messages are handed over in their order, none twice, as and ac and chs with
\* the line, the length and the body that are its own, the proxies with its own
\* body if its header names the length (else they take as much as for the message
\* before, from the next one's line) and with the parameters of the first.
OwnRequest ==
    \A i \in DOMAIN handed :
        LET h == handed[i]
            own == h.body = [j \in 1 .. (IF script[i].length > 0 THEN script[i].length ELSE 0) |->
                                Token("byte", i)]
        IN  IF prog = "proxy"
            THEN h.line <= i /\ (script[i].length >= 0 => own)
            ELSE h.line = i /\ own

\* The replies of as are written whole and in the order of their requests, unless
\* three of them are under way without a pause: for the third the Sender makes a
\* second writer for the same socket.
RepliesInOrder ==
    burst = 3 \/ \A i \in DOMAIN written : written[i] = <<(i + 1) \div 2, 2 - (i % 2)>>

\* What the readers are known not to finish: as and ac when part of the body came
\* with the header; a bare header that ends the stream; a proxy when a line was
\* misread or when it still waits for the length of the message before; chs what it
\* refuses, ac what it cannot take.
Stalls(i) ==
    LET shape == script[i]
    IN  \/ i \in early
        \/ shape.length = Bare /\ (i = Len(script) \/ prog \in {"ac", "chs"})
        \/ prog = "proxy" /\ (lost # {} \/ (shape.length < 0 /\ size > 0))
        \/ prog \in {"ac", "chs"} /\ (shape.length <= 0 \/ shape.line = "bad" \/ shape.blank)

\* Otherwise every message that was sent is handed over, whatever the pieces in
\* which it arrives, with no need of bytes that come later.
HandedOver ==
    \A i \in 1 .. MaxMessages :
        <>(i \in DOMAIN script =>
            \/ i \in DOMAIN handed
            \/ op = "none"
            \/ \E j \in 1 .. i : Stalls(j))
=============================================================================
