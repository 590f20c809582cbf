------------------------------ MODULE ChatClient ------------------------------
(***************************************************************************)
(* The chat clients asio/ter.cpp ("ter": logs in over HTTP, connects again *)
(* after an error) and chat_client.cpp ("chat": one connection, a timer    *)
(* for the keep-alive).  One thread runs the handlers; what an operation   *)
(* has to report waits until its handler is run, and a handler that is     *)
(* already waiting cannot be cancelled any more.  Clock times are          *)
(* abstracted to "due": the time stage_tp_ stands for has come.            *)
(***************************************************************************)
EXTENDS Naturals, Sequences

CONSTANTS
    MaxIncoming,    \* messages the server sends (model bound)
    MaxHellos,      \* hello messages (model bound)
    MaxFaults       \* failing steps and lost connections (model bound)

Hello == 0          \* a message to write: Hello or the number of the message acknowledged

VARIABLES
    client,     \* the program that runs, or "crashed"
    stage,      \* ter: "init", "connecting", "established"
    due,        \* ter: the time stage_tp_ stands for has come
    http,       \* ter: "none", "connect", "write", "read", "failed"
    sock,       \* "closed", "connecting", "open", "lost"
    conn,       \* async_connect: "none", "pending", and "ok", "fail" when reported
    overtaken,  \* ter: a success was reported, but the socket was opened anew
    rd,         \* the read chain: "none", "size", "data", "aborted"
    twofold,    \* history: a second read chain was begun
    wr,         \* async_write: "none", "pending", "aborted"
    posted,      \* messages posted by write() and not queued yet
    write_msgs_,
    written,        \* history: the messages written
    incoming,   \* messages from the server that wait in the socket
    received,   \* messages read
    timer,      \* chat: deadline_: "none", "armed", "ready", "cancelled"
    closing,    \* chat: the handler of close() is posted
    late,       \* history: close() came when the timer had expired
    hellos,     \* hello messages so far
    faults      \* what is left of MaxFaults

chatWriteVars == <<wr, posted, write_msgs_, written>>
chatReadVars == <<rd, twofold, incoming, received>>
terVars == <<stage, due, http, overtaken>>
chatVars == <<timer, closing, late>>
chatClientVars == <<client, terVars, chatVars, sock, conn, chatReadVars, chatWriteVars, hellos, faults>>

ChatInit ==
    /\ client \in {"ter", "chat"}
    /\ stage = "init"
    /\ due = TRUE
    /\ http = "none"
    /\ sock = IF client = "ter" THEN "closed" ELSE "connecting"
    /\ conn = IF client = "ter" THEN "none" ELSE "pending"
    /\ overtaken = FALSE
    /\ rd = "none"
    /\ twofold = FALSE
    /\ wr = "none"
    /\ posted = IF client = "ter" THEN <<>> ELSE <<Hello>>
    /\ write_msgs_ = <<>>
    /\ written = <<>>
    /\ incoming = 0
    /\ received = 0
    /\ timer = IF client = "ter" THEN "none" ELSE "armed"
    /\ closing = FALSE
    /\ late = FALSE
    /\ hellos = 1
    /\ faults = MaxFaults

Fault == faults > 0 /\ faults' = faults - 1

\* Closing a socket makes the operations under way report an abort.
Aborted(op) == IF op \in {"pending", "size", "data"} THEN "aborted" ELSE op

-----------------------------------------------------------------------------
(* ter: timed_loop, every two seconds                                      *)

\* A new http_t takes the place of one that has not answered for 12 seconds, or has failed.
LoopInit ==
    /\ stage = "init"
    /\ http' = "connect"
    /\ UNCHANGED <<stage, overtaken, sock, conn, rd, wr, incoming, posted, hellos>>

\* The socket is closed and opened anew, whatever was under way on it.
\* ConnectingOnce is the slip of leaving an open socket alone.
ConnectingOnce ==
    /\ stage = "connecting"
    /\ IF sock = "closed" THEN sock' = "connecting" /\ conn' = "pending"
       ELSE UNCHANGED <<sock, conn>>
    /\ UNCHANGED <<stage, http, overtaken, rd, wr, incoming, posted, hellos>>

LoopConnecting ==
    /\ stage = "connecting"
    /\ sock' = "connecting"
    /\ conn' = "pending"
    /\ overtaken' = (overtaken \/ conn = "ok")
    /\ rd' = Aborted(rd)
    /\ wr' = Aborted(wr)
    /\ incoming' = 0
    /\ UNCHANGED <<stage, http, posted, hellos>>

LoopEstablished ==
    /\ stage = "established"
    /\ IF hellos < MaxHellos
       THEN posted' = Append(posted, Hello) /\ hellos' = hellos + 1
       ELSE UNCHANGED <<posted, hellos>>
    /\ UNCHANGED <<stage, http, overtaken, sock, conn, rd, wr, incoming>>

timed_loop ==
    /\ client = "ter"
    /\ due
    /\ due' = FALSE
    /\ LoopInit \/ LoopConnecting \/ LoopEstablished
    /\ UNCHANGED <<client, chatVars, twofold, write_msgs_, written, received, faults>>

\* The http_t whose place is taken is destroyed: the handler of its write, and one that
\* waits already, go on with it all the same, and the program may end.  timed_loop has
\* the behaviours that survive.
HttpFreed ==
    /\ client = "ter" /\ due /\ stage = "init" /\ http \in {"connect", "write", "read"}
    /\ client' = "crashed" /\ http' = "none" /\ due' = FALSE
    /\ UNCHANGED <<stage, overtaken, chatVars, sock, conn, chatReadVars, chatWriteVars, hellos, faults>>

\* The 6, 12 or 55 seconds are over.
TimePasses ==
    /\ client = "ter"
    /\ ~due
    /\ due' = TRUE
    /\ UNCHANGED <<client, stage, http, overtaken, chatVars, sock, conn, chatReadVars, chatWriteVars,
                   hellos, faults>>

\* http_t: connect, sign_in, read_response; after a failure nothing happens until
\* timed_loop begins again.
HttpStep ==
    /\ http \in {"connect", "write", "read"}
    /\ \/ /\ http' = [connect |-> "write", write |-> "read", read |-> "none"][http]
          /\ stage' = IF http = "read" THEN "connecting" ELSE stage
          /\ due' = (due \/ http = "read")
          /\ UNCHANGED faults
       \/ http' = "failed" /\ Fault /\ UNCHANGED <<stage, due>>
    /\ UNCHANGED <<client, overtaken, chatVars, sock, conn, chatReadVars, chatWriteVars, hellos>>

-----------------------------------------------------------------------------
(* The connection                                                          *)

\* async_connect has something to report.
ConnectDone ==
    /\ conn = "pending"
    /\ \/ conn' = "ok" /\ sock' = "open" /\ UNCHANGED faults
       \/ conn' = "fail" /\ sock' = "lost" /\ Fault
    /\ UNCHANGED <<client, terVars, chatVars, chatReadVars, chatWriteVars, hellos>>

\* Its handler, also that of an attempt that was given up: do_read_size begins.
\* Aborts are reported as soon as the socket is closed, so before it.
Connected ==
    /\ rd' = "size"
    /\ twofold' = (twofold \/ rd # "none")
    /\ stage' = IF client = "ter" THEN "established" ELSE stage
    /\ due' = TRUE

ConnectHandler ==
    /\ conn \in {"ok", "fail"}
    /\ rd # "aborted" /\ wr # "aborted"
    /\ conn' = "none"
    /\ IF conn = "ok" THEN Connected ELSE UNCHANGED <<rd, twofold, stage, due>>
    /\ UNCHANGED <<client, http, overtaken, chatVars, sock, incoming, received, chatWriteVars,
                   hellos, faults>>

OvertakenHandler ==
    /\ overtaken
    /\ overtaken' = FALSE
    /\ Connected
    /\ UNCHANGED <<client, http, chatVars, sock, conn, incoming, received, chatWriteVars, hellos, faults>>

\* The server sends a message, or the connection breaks.
ServerSends ==
    /\ sock = "open"
    /\ incoming + received < MaxIncoming
    /\ incoming' = incoming + 1
    /\ UNCHANGED <<client, terVars, chatVars, sock, conn, rd, twofold, received, chatWriteVars,
                   hellos, faults>>

Lost ==
    /\ sock = "open"
    /\ Fault
    /\ sock' = "lost"
    /\ incoming' = 0
    /\ UNCHANGED <<client, terVars, chatVars, conn, rd, twofold, received, chatWriteVars, hellos>>

-----------------------------------------------------------------------------
(* Reading                                                                 *)

do_read_size ==
    /\ rd = "size"
    /\ sock = "open"
    /\ incoming > 0
    /\ rd' = "data"
    /\ UNCHANGED <<client, terVars, chatVars, sock, conn, twofold, incoming, received, chatWriteVars,
                   hellos, faults>>

\* The message is there: its acknowledgement is written, and the next one read.
do_read_data ==
    /\ rd = "data"
    /\ sock = "open"
    /\ rd' = "size"
    /\ incoming' = incoming - 1
    /\ received' = received + 1
    /\ posted' = Append(posted, received + 1)
    /\ UNCHANGED <<client, terVars, chatVars, sock, conn, twofold, wr, write_msgs_, written, hellos, faults>>

\* do_socket_error of ter.  The first try after it is a second away.
do_socket_error ==
    IF stage = "established" THEN stage' = "connecting" /\ due' = FALSE
    ELSE UNCHANGED <<stage, due>>

\* The read fails or was aborted.
ReadError ==
    /\ \/ rd = "aborted"
       \/ rd \in {"size", "data"} /\ sock \in {"lost", "closed"}
    /\ rd' = "none"
    /\ IF client = "ter"
       THEN do_socket_error /\ UNCHANGED closing
       ELSE closing' = TRUE /\ UNCHANGED <<stage, due>>
    /\ UNCHANGED <<client, http, overtaken, timer, late, sock, conn, twofold, incoming, received,
                   chatWriteVars, hellos, faults>>

-----------------------------------------------------------------------------
(* Writing                                                                 *)

\* The handler posted by write(): a write is begun when the queue was empty.
\* RunPostEager is the slip of putting a message before the one being written.
RunPostEager ==
    /\ posted # <<>>
    /\ posted' = Tail(posted)
    /\ write_msgs_' = <<Head(posted)>> \o write_msgs_
    /\ wr' = IF write_msgs_ = <<>> THEN "pending" ELSE wr
    /\ UNCHANGED <<client, terVars, chatVars, sock, conn, chatReadVars, written, hellos, faults>>

RunPost ==
    /\ posted # <<>>
    /\ posted' = Tail(posted)
    /\ write_msgs_' = Append(write_msgs_, Head(posted))
    /\ wr' = IF write_msgs_ = <<>> THEN "pending" ELSE wr
    /\ UNCHANGED <<client, terVars, chatVars, sock, conn, chatReadVars, written, hellos, faults>>

\* do_write's handler.  ter puts stage_tp_ off by 55 seconds, whatever the stage.
WriteDone ==
    /\ wr = "pending"
    /\ sock = "open"
    /\ written' = Append(written, Head(write_msgs_))
    /\ write_msgs_' = Tail(write_msgs_)
    /\ wr' = IF Tail(write_msgs_) # <<>> THEN "pending" ELSE "none"
    /\ due' = IF client = "ter" THEN FALSE ELSE due
    /\ UNCHANGED <<client, stage, http, overtaken, chatVars, sock, conn, chatReadVars, posted,
                   hellos, faults>>

\* After an error the message stays in front: nothing is ever written again.
WriteError ==
    /\ \/ wr = "aborted"
       \/ wr = "pending" /\ sock \in {"lost", "closed"}
    /\ wr' = "none"
    /\ IF client = "ter"
       THEN due' = FALSE /\ UNCHANGED closing
       ELSE closing' = TRUE /\ UNCHANGED due
    /\ UNCHANGED <<client, stage, http, overtaken, timer, late, sock, conn, chatReadVars, posted, write_msgs_,
                   written, hellos, faults>>

-----------------------------------------------------------------------------
(* chat: the timer and close()                                             *)

\* 33 seconds are over.
Expire ==
    /\ timer = "armed"
    /\ hellos < MaxHellos
    /\ timer' = "ready"
    /\ UNCHANGED <<client, terVars, closing, late, sock, conn, chatReadVars, chatWriteVars, hellos, faults>>

\* keep_alive does not look at the error: it asks whether the time has come, and a
\* timer that was cancelled is not set again.
keep_alive ==
    /\ timer \in {"ready", "cancelled"}
    /\ IF timer = "ready"
       THEN /\ timer' = "armed"
            /\ posted' = Append(posted, Hello)
            /\ hellos' = hellos + 1
       ELSE timer' = "none" /\ UNCHANGED <<posted, hellos>>
    /\ UNCHANGED <<client, terVars, closing, late, sock, conn, chatReadVars, wr, write_msgs_, written, faults>>

\* The handler posted by close().
Close ==
    /\ closing
    /\ closing' = FALSE
    /\ sock' = "closed"
    /\ conn' = IF conn = "pending" THEN "fail" ELSE conn
    /\ rd' = Aborted(rd)
    /\ wr' = Aborted(wr)
    /\ incoming' = 0
    /\ timer' = IF timer = "armed" THEN "cancelled" ELSE timer
    /\ late' = (late \/ timer = "ready")
    /\ UNCHANGED <<client, terVars, twofold, received, posted, write_msgs_, written, hellos, faults>>

-----------------------------------------------------------------------------
\* io_service::run returns when there is nothing left to wait for.
Ended ==
    /\ client = "chat"
    /\ timer = "none" /\ ~closing
    /\ posted = <<>>
    /\ rd = "none" /\ wr = "none" /\ conn = "none"

Handler ==
    \/ HttpStep \/ ConnectHandler \/ OvertakenHandler
    \/ do_read_size \/ do_read_data \/ ReadError
    \/ RunPost \/ WriteDone \/ WriteError
    \/ keep_alive \/ Close

ChatNext ==
    \/ timed_loop \/ HttpFreed \/ TimePasses \/ Handler
    \/ ConnectDone \/ ServerSends \/ Lost \/ Expire

-----------------------------------------------------------------------------
(* Properties                                                              *)

\* The acknowledgements among the messages w are those of 1 .. n, once each and in order.
Acknowledges(w, n) ==
    /\ \A i \in DOMAIN w : w[i] # Hello => w[i] \in 1 .. n
    /\ \A k \in 1 .. n : \E i \in DOMAIN w : w[i] = k
    /\ \A i, j \in DOMAIN w : (i < j /\ w[i] # Hello /\ w[j] # Hello) => w[i] < w[j]

\* Each message read is acknowledged once and in order, whatever hello messages
\* come in between, writes that fail and connections that are opened anew: the
\* acknowledgements written, queued and posted are those of the messages read.
\* (When the retry of timed_loop overtakes a connection just made, two chains of
\* reads take each other's bytes.)
AcksInOrder ==
    twofold \/ Acknowledges(written \o write_msgs_ \o posted, received)

\* After an error ter is connected again, although every retry gives up the
\* attempt under way and every write that fails puts the retry off.
Reconnects == (client = "ter" /\ stage = "connecting") ~> stage = "established"

\* After an error chat ends: no timer, no operation and no posted handler stays,
\* unless the timer had just expired, whose handler then sets it again for a
\* socket on which nothing is written.
ClosedEnds == (client = "chat" /\ sock = "closed") ~> (Ended \/ late)

\* Both of these: an error ends in a new connection or in the end of the program.
Recovers == Reconnects /\ ClosedEnds
=============================================================================
