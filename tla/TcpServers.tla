----------------------------- MODULE TcpServers -----------------------------
(***************************************************************************)
(* Servers that share nothing with each other, checked in one run: the     *)
(* HTTP readers and the TCP variant of the video server.  A behaviour      *)
(* picks one and runs it.                                                  *)
(***************************************************************************)
EXTENDS HttpReader, TcpStream

VARIABLE service

\* The messages of the HTTP readers: with and without a body, with the length 0, without
\* a length, without any header line, after a blank line, and with a first line that is
\* refused.
Shape(blank, line, length) == [blank |-> blank, line |-> line, length |-> length]

MCShapes ==
    {Shape(FALSE, "POST", 2), Shape(FALSE, "GET", NoLength), Shape(FALSE, "POST", 0),
     Shape(FALSE, "GET", Bare), Shape(TRUE, "POST", 1), Shape(FALSE, "bad", 1)}

\* What is not running stays in one of its initial states.
Init ==
    /\ service \in {"http", "tcp"}
    /\ HttpInit /\ TcpInit
    /\ service # "http" => prog = "as" /\ script = <<Shape(FALSE, "POST", 0)>>

Next ==
    /\ UNCHANGED service
    /\ \/ service = "http" /\ HttpNext /\ UNCHANGED tcpVars
       \/ service = "tcp" /\ TcpNext /\ UNCHANGED httpVars

vars == <<service, httpVars, tcpVars>>

\* io_service::run and ev_loop run what is ready, and the network delivers what the
\* peer has sent.  When the peer closes is its affair.
HttpFairness ==
    /\ WF_httpVars(service = "http" /\ (Receive \/ Handlers))
    /\ WF_httpVars(service = "http" /\ writeb)

\* The thread runs until it is stopped, and its wait ends after 6 ms at the latest.  A
\* client that stays reads what it was sent.
TcpFairness ==
    /\ WF_tcpVars(service = "tcp" /\ xpoll)
    /\ WF_tcpVars(service = "tcp" /\ join)
    /\ \A c \in Clients : WF_tcpVars(service = "tcp" /\ ClientReads(c))

Spec ==
    /\ Init /\ [][Next]_vars
    /\ HttpFairness
    /\ TcpFairness

\* HandedOver, of the behaviours in which the reader runs: as.cpp, ac.cpp, the proxies and
\* chs.cc hand over every message they are not known to stall at.
MessagesHandedOver == service = "http" => HandedOver
=============================================================================
