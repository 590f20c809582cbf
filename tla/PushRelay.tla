------------------------------ MODULE PushRelay ------------------------------
(***************************************************************************)
(* The push relays: clients send requests over HTTP, the relay writes them *)
(* one after the other to one push server and answers each client.  Three  *)
(* programs of the repository share the server side (relay_server and      *)
(* connection) and differ in their struct apple_push:                      *)
(*   "relay"  relay.cpp: a list of messages, each with its client;         *)
(*   "list"   apple_push_relay.cpp: a list of clients with their messages; *)
(*   "proxy"  apple_push_proxy.cpp: the same over TLS, and a queue of       *)
(*            answers per connection.                                      *)
(* One thread runs all handlers.  An asynchronous operation is started in  *)
(* one handler and completes in another; closing the socket does not take  *)
(* back a completion, it makes it an error.                                *)
(*                                                                         *)
(* request::encode() of the first two returns an empty string: a write of  *)
(* it completes with success whatever became of the socket.  The proxy     *)
(* never calls connect(), so each of its writes fails.                     *)
(***************************************************************************)
EXTENDS Naturals, Sequences, SequencesExt

CONSTANTS
    Programs,   \* the programs looked at
    Conn,       \* connections of clients, each accepted once
    MaxAsked,   \* requests in all (model bound)
    MaxBroken   \* failures of the connection to the push server (model bound)

ASSUME ProgramsAssumption == Programs \subseteq {"relay", "list", "proxy"}
ASSUME BoundsAssumption == {MaxAsked, MaxBroken} \subseteq Nat

VARIABLES
    program,    \* which of the programs runs
    conn,       \* the connections: what their next read is for, or how far they
                \* are destroyed; whether messager_ is set; whether the request
                \* line of any request had parameters
    ap,         \* apple_push
    fault,      \* "none", or how the process went wrong
    broken,     \* failures so far
    replies,    \* answers under way, by connection
    asked, answered, \* history: requests handed over and answers sent
    overlap,    \* history: connect() or handle_connect() set the stage with a write
                \* or an answer under way
    deep        \* history: a client left with three messages or more in the queue

vars == <<program, conn, ap, fault, broken, replies, asked, answered, overlap, deep>>

Reading == {"line", "rest"}

Init ==
    /\ program \in Programs
    /\ conn = [c \in Conn |-> [state |-> "waiting", bound |-> FALSE, params |-> FALSE]]
    /\ ap \in [stage : IF program = "proxy" THEN {"ready", "unset"} ELSE {"connecting"},
               queue : {<<>>}, dialing : {IF program = "proxy" THEN 0 ELSE 1},
               dialed : {0}, refused : {0}, reads : {0}, failed : {0}, writes : {0}]
    /\ fault = "none"
    /\ broken = 0
    /\ replies = [c \in Conn |-> 0]
    /\ asked = [c \in Conn |-> 0]
    /\ answered = [c \in Conn |-> 0]
    /\ overlap = FALSE
    /\ deep = FALSE

-----------------------------------------------------------------------------
(* apple_push.  An entry of the queue is a client, whether the pointer to  *)
(* it is still set, and the number of its messages.  An operator takes     *)
(* apple_push to what the function leaves; WriteMsg's guard is the stage.  *)

Entry(c, n) == [c |-> c, live |-> TRUE, n |-> n]

\* socket_.close() completes what was under way with an error
Connect(s) ==
    [s EXCEPT !.stage = "connecting", !.dialing = 1, !.refused = @ + s.dialing,
              !.reads = 0, !.failed = @ + s.reads]

\* the first client with a message goes to the front
Spliced(q) ==
    LET i == SelectInSeq(q, LAMBDA e : e.n > 0)
    IN  IF i = 0 THEN q ELSE <<q[i]>> \o RemoveAt(q, i)

\* the clients that are still there
Connected(q) ==
    LET upto[i \in 0 .. Len(q)] ==
            IF i = 0 THEN <<>>
            ELSE IF q[i].live THEN Append(upto[i - 1], q[i]) ELSE upto[i - 1]
    IN  upto[Len(q)]

Write(s) == [s EXCEPT !.stage = "writing", !.writes = @ + 1]

\* write_msg() of the three programs
WriteMsgRelay(s) ==
    IF s.stage # "ready" \/ s.queue = <<>> THEN s ELSE Write(s)

\* the front only, whoever has a message
WriteMsgFront(s) ==
    IF s.stage # "ready" \/ s.queue = <<>> \/ s.queue[1].n = 0 THEN s ELSE Write(s)

WriteMsgList(s) ==
    IF s.stage # "ready" \/ s.queue = <<>> THEN s
    ELSE LET q == Spliced(s.queue)
         IN  IF q[1].n = 0 THEN [s EXCEPT !.queue = q] ELSE Write([s EXCEPT !.queue = q])

WriteMsgProxy(s) ==
    LET t == [s EXCEPT !.queue = Connected(@)]
    IN  IF s.stage # "ready" \/ s.queue = <<>> THEN s
        ELSE IF t.queue = <<>> THEN t ELSE WriteMsgList(t)

WriteMsg(s) ==
    CASE program = "relay" -> WriteMsgRelay(s)
      [] program = "list" -> WriteMsgList(s)
      [] program = "proxy" -> WriteMsgProxy(s)

\* write_msg() erases an element and goes on with its iterator (list), or takes
\* the front of the list it has just emptied (proxy)
WriteFault(s) ==
    IF /\ s.stage = "ready" /\ s.queue # <<>>
       /\ \/ program = "list" /\ \E i \in DOMAIN s.queue : ~s.queue[i].live
          \/ program = "proxy" /\ \A i \in DOMAIN s.queue : ~s.queue[i].live
    THEN "iterator" ELSE "none"

Disconnected(q, c) ==
    [i \in DOMAIN q |-> IF q[i].c = c THEN [q[i] EXCEPT !.live = FALSE] ELSE q[i]]

FirstOf(q, c) == SelectInSeq(q, LAMBDA e : e.c = c /\ e.live)

\* pushmsg() or pmessage() with an error: relay.cpp takes the client's first
\* message away, or only its client when it is the front, which may be under way;
\* the others clear the client's pointer.
Leave(s, c) ==
    LET i == FirstOf(s.queue, c)
    IN  CASE program # "relay" -> [s EXCEPT !.queue = Disconnected(@, c)]
          [] program = "relay" /\ i = 0 -> s
          [] program = "relay" /\ i = 1 -> [s EXCEPT !.queue[1].live = FALSE]
          [] program = "relay" /\ i > 1 -> [s EXCEPT !.queue = RemoveAt(@, i)]

\* message(): the first request of a client enters it into the list
Entered(s, c) ==
    IF program # "relay" /\ ~conn[c].bound THEN [s EXCEPT !.queue = Append(@, Entry(c, 0))]
    ELSE s

\* relay.cpp dropping what comes while it writes
AppendedIdle(s, c) ==
    IF program = "relay" /\ s.stage # "writing"
    THEN [s EXCEPT !.queue = Append(@, Entry(c, 1))]
    ELSE [s EXCEPT !.queue = [i \in DOMAIN @ |->
                                IF @[i].c = c THEN [@[i] EXCEPT !.n = 1] ELSE @[i]]]

Appended(s, c) ==
    IF program = "relay" THEN [s EXCEPT !.queue = Append(@, Entry(c, 1))]
    ELSE [s EXCEPT !.queue = [i \in DOMAIN s.queue |->
                                IF s.queue[i].c = c THEN [s.queue[i] EXCEPT !.n = @ + 1]
                                ELSE s.queue[i]]]

Underway == ap.writes > 0 \/ \E c \in Conn : replies[c] > 0

\* pushmsg() or pmessage() with a request
Push(c) ==
    LET s == Appended(Entered(ap, c), c)
    IN  IF program = "relay" /\ s.stage \in {"zero", "connecting"}
        THEN /\ ap' = Connect(s)
             /\ overlap' = (overlap \/ Underway)
             /\ fault' = fault
        ELSE /\ ap' = WriteMsg(s)
             /\ fault' = WriteFault(s)
             /\ overlap' = overlap

-----------------------------------------------------------------------------
(* The completion handlers of apple_push.                                  *)

\* The handler runs and leaves apple_push as s, unless f is not "none".
ApDone(s, f) ==
    /\ ap' = s
    /\ fault' = f
    /\ UNCHANGED <<program, conn, broken, asked, deep>>

HandleConnect ==
    /\ ap.dialed > 0
    /\ LET s == [ap EXCEPT !.dialed = @ - 1, !.stage = "ready", !.reads = @ + 1]
       IN  ApDone(WriteMsg(s), WriteFault(s))
    /\ overlap' = (overlap \/ Underway)
    /\ UNCHANGED <<replies, answered>>

\* no retry: relay.cpp connects again for the next request, the list never
HandleConnectError ==
    /\ ap.refused > 0
    /\ ApDone([ap EXCEPT !.refused = @ - 1, !.stage = "zero"], "none")
    /\ overlap' = (overlap \/ Underway)
    /\ UNCHANGED <<replies, answered>>

\* An answer of the push server is only logged; an error connects again.
HandleRead ==
    /\ ap.failed > 0
    /\ ApDone(Connect([ap EXCEPT !.failed = @ - 1]), "none")
    /\ overlap' = (overlap \/ Underway)
    /\ UNCHANGED <<replies, answered>>

\* handle_reply() of relay.cpp without its pop_front()
RepliedKept(s) == [s EXCEPT !.stage = "ready"]

\* handle_reply() once the answer is sent: the message is through.
RepliedRelay(s) == [s EXCEPT !.stage = "ready", !.queue = Tail(@)]

RepliedList(s) == [s EXCEPT !.stage = "ready", !.queue[1].n = @ - 1]

Replied(s) == IF program = "relay" THEN RepliedRelay(s) ELSE RepliedList(s)

\* Nothing to pop: pop_front() of an empty list
NothingLeft(s) == s.queue = <<>> \/ s.queue[1].n = 0

HandleReply(s) ==
    IF NothingLeft(s) THEN ApDone(s, "empty")
    ELSE ApDone(WriteMsg(Replied(s)), WriteFault(Replied(s)))

\* The write of the front completed: answer its client, if it is still there.
HandleWrite ==
    /\ program # "proxy"
    /\ ap.writes > 0
    /\ UNCHANGED overlap
    /\ LET s == [ap EXCEPT !.writes = @ - 1, !.stage = "ready"]
       IN  \/ /\ s.queue = <<>>
              /\ ApDone(s, "assert")
              /\ UNCHANGED <<replies, answered>>
           \/ /\ s.queue # <<>> /\ ~s.queue[1].live
              /\ HandleReply(s)
              /\ UNCHANGED <<replies, answered>>
           \/ /\ s.queue # <<>> /\ s.queue[1].live
              /\ LET c == s.queue[1].c
                 IN  /\ ApDone([s EXCEPT !.stage = "replying"],
                               IF conn[c].state = "dead" THEN "dangling" ELSE "none")
                     /\ replies' = [replies EXCEPT ![c] = @ + 1]
                     /\ answered' = [answered EXCEPT ![c] = @ + 1]

\* relay_back(): the front's message is through, and its client goes to the end.
RelayBack(q) == Append(Tail(q), [q[1] EXCEPT !.n = @ - 1])

HandleWriteProxy ==
    /\ program = "proxy"
    /\ ap.writes > 0
    /\ UNCHANGED overlap
    /\ LET s == [ap EXCEPT !.writes = @ - 1, !.stage = "ready"]
       IN  \/ /\ ~s.queue[1].live
              /\ LET t == [s EXCEPT !.queue = Tail(@)] IN ApDone(WriteMsg(t), WriteFault(t))
              /\ UNCHANGED <<replies, answered>>
           \/ /\ s.queue[1].live
              /\ LET t == [s EXCEPT !.queue = RelayBack(@)] IN ApDone(WriteMsg(t), WriteFault(t))
              /\ replies' = [replies EXCEPT ![s.queue[1].c] = @ + 1]
              /\ answered' = [answered EXCEPT ![s.queue[1].c] = @ + 1]

\* The answer to c was sent, or failed because c's socket was closed.  The handler
\* of the proxy is c's own, and c may be destroyed.
ReplySent(c) ==
    /\ replies[c] > 0
    /\ replies' = [replies EXCEPT ![c] = @ - 1]
    /\ UNCHANGED <<answered, overlap>>
    /\ IF program = "proxy"
       THEN ApDone(ap, IF conn[c].state = "dead" THEN "dangling" ELSE "none")
       ELSE HandleReply(ap)

ApStep ==
    \/ HandleConnect \/ HandleConnectError \/ HandleRead
    \/ HandleWrite \/ HandleWriteProxy
    \/ \E c \in Conn : ReplySent(c)

-----------------------------------------------------------------------------
(* relay_server and connection.                                            *)

ToState(c, state) == conn' = [conn EXCEPT ![c].state = state]

\* handle_accept; an error stops accepting, as if no client came any more
Accept(c) ==
    /\ conn[c].state = "waiting"
    /\ ToState(c, "line")
    /\ UNCHANGED <<program, ap, fault, broken, replies, asked, answered, overlap, deep>>

\* make_error_code() returns success for every error: a line that is empty or
\* wrong is a request line without parameters.  The parameters of later requests
\* stand behind those of the first, which are the ones found.
ParseStatusLine(k, params) == [k EXCEPT !.state = "rest", !.params = @ \/ params]

HandleMethodLine(c, params) ==
    /\ conn[c].state = "line"
    /\ SumFunction(asked) < MaxAsked
    /\ params => program = "proxy"  \* the others do not look at them
    /\ conn' = [conn EXCEPT ![c] = ParseStatusLine(@, params)]
    /\ UNCHANGED <<program, ap, fault, broken, replies, asked, answered, overlap, deep>>

Throw(c) ==
    /\ conn[c].state = "rest"
    /\ fault' = "thrown"
    /\ UNCHANGED <<program, conn, ap, broken, replies, asked, answered, overlap, deep>>

\* A content length that is no number throws out of main()'s io_service::run().
ParseHeaderLineThrows(c) == Throw(c)

\* So does the proxy's get() for a request without parameters.
OnRequestThrows(c) == program = "proxy" /\ ~conn[c].params /\ Throw(c)

\* The rest of a request: handle_headers, and handle_content when the body is there.
HandleContent(c) ==
    /\ conn[c].state = "rest"
    /\ program = "proxy" => conn[c].params
    /\ conn' = [conn EXCEPT ![c].state = "line", ![c].bound = TRUE]
    /\ asked' = [asked EXCEPT ![c] = @ + 1]
    /\ Push(c)
    /\ UNCHANGED <<program, broken, replies, answered, deep>>

\* the connection leaves cs_, its destruction is posted
Destroy(k) == [k EXCEPT !.state = "gone", !.bound = TRUE]

HandleError(c) ==
    /\ conn[c].state \in Reading
    /\ conn' = [conn EXCEPT ![c] = Destroy(@)]
    /\ ap' = Leave(Entered(ap, c), c)
    /\ deep' = (deep \/ \E i, j, k \in DOMAIN ap.queue :
                          i < j /\ j < k /\ {ap.queue[m].c : m \in {i, j, k}} = {c})
    /\ UNCHANGED <<program, fault, broken, replies, asked, answered, overlap>>

\* The posted reset(): the destructor tells apple_push once more.
Reset(c) ==
    /\ conn[c].state = "gone"
    /\ ToState(c, "dead")
    /\ ap' = Leave(ap, c)
    /\ UNCHANGED <<program, fault, broken, replies, asked, answered, overlap, deep>>

ConnStep(c) ==
    \/ Accept(c)
    \/ \E params \in BOOLEAN : HandleMethodLine(c, params)
    \/ HandleContent(c) \/ ParseHeaderLineThrows(c) \/ OnRequestThrows(c)
    \/ HandleError(c) \/ Reset(c)

-----------------------------------------------------------------------------
(* The push server, as the socket sees it.                                 *)

Outside(s, n) ==
    /\ ap' = s
    /\ broken' = broken + n
    /\ broken' <= MaxBroken
    /\ UNCHANGED <<program, conn, fault, replies, asked, answered, overlap, deep>>

Answers == ap.dialing > 0 /\ Outside([ap EXCEPT !.dialing = 0, !.dialed = @ + 1], 0)

Refuses == ap.dialing > 0 /\ Outside([ap EXCEPT !.dialing = 0, !.refused = @ + 1], 1)

Hangs == ap.reads > 0 /\ Outside([ap EXCEPT !.reads = 0, !.failed = @ + ap.reads], 1)

-----------------------------------------------------------------------------
\* Bound of the model: after an overlap, of which the properties say nothing, only
\* what is under way goes on.  The relay would go on connecting and answering.
Bounded == ~overlap

Next ==
    /\ fault = "none"
    /\ \/ ApStep
       \/ Bounded /\ \E c \in Conn : ConnStep(c)
       \/ Bounded /\ (Answers \/ Refuses \/ Hangs)

\* io_service runs every handler that is ready, the posted ones too; nothing is
\* assumed of clients and of the push server.  An answer of two bytes is taken by
\* the kernel.
Spec ==
    /\ Init /\ [][Next]_vars
    /\ WF_vars(fault = "none" /\ ApStep)

-----------------------------------------------------------------------------
(* Properties                                                              *)

TypeOK ==
    /\ program \in Programs
    /\ conn \in [Conn -> [state : Reading \union {"waiting", "gone", "dead"},
                          bound : BOOLEAN, params : BOOLEAN]]
    /\ ap.stage \in {"zero", "connecting", "ready", "writing", "replying", "unset"}
    /\ \A i \in DOMAIN ap.queue : ap.queue[i] \in [c : Conn, live : BOOLEAN, n : Nat]
    /\ ap.dialing \in 0 .. 1
    /\ {ap.dialed, ap.refused, ap.reads, ap.failed, ap.writes} \subseteq Nat
    /\ fault \in {"none", "assert", "empty", "iterator", "dangling", "thrown"}
    /\ broken \in 0 .. MaxBroken
    /\ replies \in [Conn -> Nat]
    /\ asked \in [Conn -> Nat]
    /\ answered \in [Conn -> Nat]
    /\ overlap \in BOOLEAN /\ deep \in BOOLEAN

Left(c) == conn[c].state \in {"gone", "dead"}

\* A client that leaves at any moment does no harm: no handler meets an empty list,
\* an erased element or a destroyed connection.  Three things break it: a new
\* connection to the push server with a write or an answer under way, a client
\* that leaves three messages behind (only two of them are taken back), and in the
\* two later programs any client that leaves.
NoHarm ==
    fault \in {"assert", "empty", "iterator", "dangling"} =>
        overlap \/ deep \/ (program # "relay" /\ \E c \in Conn : Left(c))

\* Every answer belongs to a request of the client that gets it, and no request is
\* answered twice, unless the relay connected anew in the middle of one.
AnsweredOnce == \A c \in Conn : answered[c] <= asked[c] \/ overlap

\* Nothing is waited for in vain: the queue has no other motor than the completion
\* handlers, so a stage other than zero has one of them to come, although connect()
\* and handle_connect() set the stage whatever is under way.
Motor ==
    fault = "none" =>
        /\ ap.stage \in {"writing", "replying"} => Underway
        /\ ap.stage = "connecting" => ap.dialing + ap.dialed + ap.refused > 0
        /\ ap.stage = "ready" => Underway \/ \A i \in DOMAIN ap.queue : ap.queue[i].n = 0

\* The queue under handlers and clients that come and go: the types, and both of these.
QueueSound == TypeOK /\ NoHarm /\ Motor

Served(c) ==
    \/ answered[c] >= asked[c]
    \/ Left(c) \/ overlap
    \/ ap.stage \in {"zero", "connecting", "unset"}
    \/ fault # "none"

\* A client that stays gets all its answers, unless the push server cannot be
\* reached or the relay connected anew in the middle of an answer: whatever the
\* other clients do meanwhile.
AllServed == \A c \in Conn : []<>Served(c)
=============================================================================
