------------------------------- MODULE Player -------------------------------
(***************************************************************************)
(* The life cycle of the player on android/jni-01: what hgs_init,          *)
(* hgs_start and hgs_stop (hgs-jni.cpp) do in the thread that calls them,  *)
(* the network thread (RtpH264 of hgs-rtph264.cpp, which runs the RTSP     *)
(* session and passes NAL units to nwk_dataincoming), and the output       *)
(* thread (Main::run), which polls the decoder for pictures.  The decoder  *)
(* is modelled by AvcSetup and AvcInput, the stream by RtpReceiver; here   *)
(* they are reduced to when they start and end.  The caller keeps to the   *)
(* order of main(): init, start, stop.                                     *)
(***************************************************************************)
EXTENDS Naturals, Sequences

CONSTANTS
    MaxRounds,  \* how often init, start and stop are called (model bound)
    MaxDecoded   \* pictures decoded in a round (model bound)

ASSUME PlayerAssumption == MaxRounds \in Nat /\ MaxDecoded \in Nat

VARIABLES
    java,       \* what the calling thread does: "idle", "join" (waits for the
                \* network thread), "stop", "destroy", "joinmain"
    rounds,     \* the calls of hgs_init
    jni_stage_,     \* 0 or 1
    tmpargs_,   \* {} if null, else "args" and the parameter sets seen so far
    main_,      \* whether there is a Main: Nothing or "main"
    args_,      \* whether its arguments, the decoder with them, are there
    rtph264_,   \* 0 if null, else the round it was created in
    net,        \* the network thread: "off", "run", "make" (it constructs Main), "ended"
    posts,      \* handlers posted to it
    tcpsock_,   \* "closed", "connecting", "open", "lost"
    action,     \* the RTSP request under way, or Nothing
    step,       \* how far: "write", "head", "body"
    playing,    \* start_playing was called and rtp is not torn down
    out,        \* the output thread: "off", "loop", "poll", "render", "ended", "hung"
    stopped,    \* its flag
    icount,     \* pictures the decoder counted as decoded
    ocount,     \* pictures polled
    died        \* Nothing or why the process ended

netvars == <<rtph264_, net, posts, tcpsock_, action, step, playing>>
outvars == <<out, stopped, icount, ocount>>
playerVars == <<java, rounds, jni_stage_, tmpargs_, main_, args_, netvars, outvars, died>>

Nothing == "none"

PlayerInit ==
    /\ java = "idle"
    /\ rounds = 0
    /\ jni_stage_ = 0
    /\ tmpargs_ = {}
    /\ main_ = Nothing
    /\ args_ = FALSE
    /\ rtph264_ = 0
    /\ net = "off"
    /\ posts = <<>>
    /\ tcpsock_ = "closed"
    /\ action = Nothing
    /\ step = Nothing
    /\ playing = FALSE
    /\ out = "off"
    /\ stopped = FALSE
    /\ icount = 0
    /\ ocount = 0
    /\ died = Nothing

Alive == died = Nothing

-----------------------------------------------------------------------------
(* The calling thread                                                      *)

hgs_init ==
    /\ Alive /\ java = "idle" /\ jni_stage_ = 0 /\ tmpargs_ = {}
    /\ rounds < MaxRounds
    /\ rounds' = rounds + 1
    /\ tmpargs_' = {"args"}
    /\ UNCHANGED <<java, jni_stage_, main_, args_, netvars, outvars, died>>

\* hgsnwk_init and hgsnwk_run
hgsnwk_run ==
    IF rtph264_ # 0
    THEN died' = "assert" /\ UNCHANGED netvars
    ELSE /\ rtph264_' = rounds
         /\ net' = "run"
         /\ posts' = <<>>
         /\ tcpsock_' = "connecting"
         /\ UNCHANGED <<action, step, playing, died>>

hgs_start ==
    /\ Alive /\ java = "idle" /\ jni_stage_ = 0 /\ tmpargs_ # {}
    /\ jni_stage_' = 1
    /\ hgsnwk_run
    /\ UNCHANGED <<java, rounds, tmpargs_, main_, args_, outvars>>

\* ... only the teardown is posted, the second call of hgsnwk_exit is missing
StopNoExit ==
    /\ Alive /\ java = "idle" /\ jni_stage_ = 1
    /\ jni_stage_' = 0
    /\ posts' = posts \o <<"teardown">>
    /\ java' = "stop"
    /\ UNCHANGED <<rounds, tmpargs_, main_, args_, rtph264_, net, tcpsock_, action, step, playing, outvars, died>>

\* hgs_stop as far as it waits in hgsnwk_exit(0)
hgs_stop ==
    /\ Alive /\ java = "idle" /\ jni_stage_ = 1
    /\ jni_stage_' = 0
    /\ posts' = posts \o <<"teardown", "stop">>
    /\ java' = "join"
    /\ UNCHANGED <<rounds, tmpargs_, main_, args_, rtph264_, net, tcpsock_, action, step, playing, outvars, died>>

\* hgsnwk_exit(0): stop_thread() returns and the connection is destroyed.
hgsnwk_exit ==
    /\ Alive /\ java = "join" /\ net = "ended"
    /\ java' = "stop"
    /\ rtph264_' = 0
    /\ net' = "off"
    /\ posts' = <<>>
    /\ tcpsock_' = "closed" /\ action' = Nothing /\ step' = Nothing /\ playing' = FALSE
    /\ UNCHANGED <<rounds, jni_stage_, tmpargs_, main_, args_, outvars, died>>

\* main_->thread.stop(): main_ is not tested.
ThreadStop ==
    /\ Alive /\ java = "stop"
    /\ IF main_ = Nothing
       THEN died' = "null" /\ UNCHANGED <<java, stopped>>
       ELSE java' = "destroy" /\ stopped' = TRUE /\ UNCHANGED died
    /\ UNCHANGED <<rounds, jni_stage_, tmpargs_, main_, args_, netvars, out, icount, ocount>>

\* main_.reset(): ~Main destroys args_, declared after thread, before ...
DestroyArgs ==
    /\ Alive /\ java = "destroy"
    /\ main_' = Nothing
    /\ args_' = FALSE
    /\ java' = "joinmain"
    /\ UNCHANGED <<rounds, jni_stage_, tmpargs_, netvars, outvars, died>>

\* ... ~Thread joins the output thread.
ThreadJoin ==
    /\ Alive /\ java = "joinmain" /\ out = "ended"
    /\ java' = "idle"
    /\ out' = "off"
    /\ stopped' = FALSE
    /\ icount' = 0 /\ ocount' = 0
    /\ UNCHANGED <<rounds, jni_stage_, tmpargs_, main_, args_, netvars, died>>

Java == hgs_init \/ hgs_start \/ hgs_stop \/ hgsnwk_exit \/ ThreadStop \/ DestroyArgs \/ ThreadJoin

-----------------------------------------------------------------------------
(* The network thread                                                      *)

Running == Alive /\ net = "run"

Same == UNCHANGED <<java, rounds, jni_stage_, outvars>>

\* Main::Args::init with the parameter set s
ArgsInit(s) == tmpargs_ \union {s}

\* nwk_dataincoming: before there is a Main, parameter sets are collected; with
\* both of them Main is constructed, which sets up the decoder.
nwk_dataincoming(nal) ==
    \/ /\ main_ # Nothing                          \* Main::input
       /\ UNCHANGED <<tmpargs_, net, died>>
    \/ /\ main_ = Nothing /\ tmpargs_ # {} /\ nal \in {"sps", "pps"}
       /\ IF {"sps", "pps"} \subseteq ArgsInit(nal)
          THEN tmpargs_' = {} /\ net' = "make"
          ELSE tmpargs_' = ArgsInit(nal) /\ UNCHANGED net
       /\ UNCHANGED died
    \/ /\ main_ = Nothing /\ tmpargs_ # {} /\ nal = "idr"
       /\ UNCHANGED <<tmpargs_, net, died>>
    \/ /\ main_ = Nothing /\ tmpargs_ = {}
       /\ died' = "sink"
       /\ UNCHANGED <<tmpargs_, net>>

\* The stream has a NAL unit.
Incoming ==
    /\ Running /\ playing
    /\ \E nal \in {"sps", "pps", "idr"} : nwk_dataincoming(nal)
    /\ Same /\ UNCHANGED <<main_, args_, rtph264_, posts, tcpsock_, action, step, playing>>

\* The constructor of Main returns and its thread is started.
MainMade ==
    /\ Alive /\ net = "make"
    /\ main_' = "main"
    /\ args_' = TRUE
    /\ net' = "run"
    /\ out' = "loop"
    /\ UNCHANGED <<java, rounds, jni_stage_, tmpargs_, rtph264_, posts, tcpsock_, action, step, playing,
                   stopped, icount, ocount, died>>

\* The next request is written: options(), describe(), setup(), play()
Request(a) == action' = a /\ step' = "write"

\* connect()'s handler
HandleConnect ==
    /\ Running /\ tcpsock_ = "connecting"
    /\ \/ tcpsock_' = "open" /\ Request("options")
       \/ tcpsock_' = "lost" /\ UNCHANGED <<action, step>>
    /\ Same /\ UNCHANGED <<tmpargs_, main_, args_, rtph264_, net, posts, playing, died>>

\* on_success(Describe): the SDP may hold the parameter sets, which are passed on
\* as one NAL unit, an SPS.
on_success_Describe ==
    /\ \/ nwk_dataincoming("sps")
       \/ UNCHANGED <<tmpargs_, net, died>>
    /\ Request("setup") /\ UNCHANGED playing

\* on_success(Setup): the stream is received before it is asked for.
on_success_Setup ==
    /\ playing' = (tcpsock_ = "open")
    /\ Request("play")
    /\ UNCHANGED <<tmpargs_, net, died>>

on_success ==
    \/ action = "options" /\ Request("describe") /\ UNCHANGED <<tmpargs_, net, playing, died>>
    \/ action = "describe" /\ on_success_Describe
    \/ action = "setup" /\ on_success_Setup
    \/ action = "play" /\ action' = Nothing /\ step' = Nothing /\ UNCHANGED <<tmpargs_, net, playing, died>>

\* Action_helper: the request is written, then the head of the answer is read and,
\* if Content-Length says so, the rest of its body.
ActionDone ==
    /\ Running /\ action # Nothing /\ tcpsock_ = "open"
    /\ \/ /\ step = "write" /\ step' = "head"
          /\ UNCHANGED <<action, tmpargs_, net, playing, died>>
       \/ /\ step = "head" /\ step' = "body"
          /\ UNCHANGED <<action, tmpargs_, net, playing, died>>
       \/ step \in {"head", "body"} /\ on_success
    /\ Same /\ UNCHANGED <<main_, args_, rtph264_, posts, tcpsock_>>

\* on_error(): only a line of the log; the connection is left as it is.
on_error ==
    /\ Running /\ action # Nothing
    /\ tcpsock_' = IF tcpsock_ = "open" THEN "lost" ELSE tcpsock_
    /\ action' = Nothing /\ step' = Nothing
    /\ Same /\ UNCHANGED <<tmpargs_, main_, args_, rtph264_, net, posts, playing, died>>

\* RtpH264::teardown: both UDP sockets are closed, then TEARDOWN is written with a
\* call that throws if there is no connection; nothing in thread_main catches it.
rtph264_teardown ==
    /\ Running /\ posts # <<>> /\ Head(posts) = "teardown"
    /\ posts' = Tail(posts)
    /\ playing' = FALSE
    /\ tcpsock_' = "closed"
    /\ died' = IF tcpsock_ = "open" THEN Nothing ELSE "exception"
    /\ Same /\ UNCHANGED <<tmpargs_, main_, args_, rtph264_, net, action, step>>

\* The posted handler calls stop(), run() returns and thread_main ends.
stop ==
    /\ Running /\ posts # <<>> /\ Head(posts) = "stop"
    /\ posts' = Tail(posts)
    /\ net' = "ended"
    /\ Same /\ UNCHANGED <<tmpargs_, main_, args_, rtph264_, tcpsock_, action, step, playing, died>>

\* run() also returns when nothing is left to do after the sockets are closed.
OutOfWork ==
    /\ Running /\ posts = <<>> /\ tcpsock_ = "closed" /\ action = Nothing
    /\ net' = "ended"
    /\ Same /\ UNCHANGED <<tmpargs_, main_, args_, rtph264_, posts, tcpsock_, action, step, playing, died>>

Network ==
    \/ Incoming \/ MainMade \/ HandleConnect \/ ActionDone \/ on_error \/ rtph264_teardown \/ stop \/ OutOfWork

-----------------------------------------------------------------------------
(* The decoder and the output thread                                       *)

\* InputPort::callback: a frame is decoded.
Decoded ==
    /\ Alive /\ args_ /\ out # "off" /\ icount < MaxDecoded
    /\ icount' = icount + 1
    /\ UNCHANGED <<java, rounds, jni_stage_, tmpargs_, main_, args_, netvars, out, stopped, ocount, died>>

OutputStays == UNCHANGED <<java, rounds, jni_stage_, tmpargs_, main_, args_, netvars, stopped, icount, died>>

\* while (!thread.stopped)
Loop ==
    /\ Alive /\ out = "loop"
    /\ out' = IF stopped THEN "ended" ELSE "poll"
    /\ OutputStays /\ UNCHANGED ocount

\* ... the wait does not look at the flag
OutpollDeaf ==
    /\ Alive /\ out = "poll"
    /\ ocount < icount
    /\ \/ out' = "render" /\ ocount' = ocount + 1
       \/ out' = "ended" /\ UNCHANGED ocount
    /\ OutputStays

\* outpoll() waits until the decoder is ahead or the flag is set; poll() finds a
\* picture in the buffer, or none, and that ends the thread.
outpoll ==
    /\ Alive /\ out = "poll"
    /\ \/ stopped /\ out' = "ended" /\ UNCHANGED ocount
       \/ /\ ~stopped /\ ocount < icount
          /\ \/ out' = "render" /\ ocount' = ocount + 1
             \/ out' = "ended" /\ UNCHANGED ocount
    /\ OutputStays

\* The picture is copied and drawn.
renderFrame ==
    /\ Alive /\ out = "render"
    /\ out' = "loop"
    /\ OutputStays /\ UNCHANGED ocount

\* Once args_ is gone the thread is in a decoder, or draws with a renderer, that is
\* destroyed: what it does then is undefined.  outpoll and renderFrame have the behaviours
\* in which it goes on; it may also die, or wait for ever for what nobody signals.
UseFreed ==
    /\ Alive /\ ~args_ /\ out \in {"poll", "render"}
    /\ \/ died' = "freed" /\ UNCHANGED out
       \/ out' = "hung" /\ UNCHANGED died
    /\ UNCHANGED <<java, rounds, jni_stage_, tmpargs_, main_, args_, netvars, stopped, icount, ocount>>

Output == Loop \/ outpoll \/ renderFrame

PlayerNext == Java \/ Network \/ Decoded \/ Output \/ UseFreed

-----------------------------------------------------------------------------
(* Properties                                                              *)

PlayerTypeOK ==
    /\ java \in {"idle", "join", "stop", "destroy", "joinmain"}
    /\ rounds \in 0 .. MaxRounds
    /\ jni_stage_ \in 0 .. 1
    /\ tmpargs_ \subseteq {"args", "sps", "pps"}
    /\ main_ \in {Nothing, "main"}
    /\ args_ \in BOOLEAN
    /\ rtph264_ \in 0 .. MaxRounds
    /\ net \in {"off", "run", "make", "ended"}
    /\ posts \in Seq({"teardown", "stop"})
    /\ tcpsock_ \in {"closed", "connecting", "open", "lost"}
    /\ action \in {Nothing, "options", "describe", "setup", "play"}
    /\ step \in {Nothing, "write", "head", "body"}
    /\ playing \in BOOLEAN
    /\ out \in {"off", "loop", "poll", "render", "ended", "hung"}
    /\ stopped \in BOOLEAN
    /\ icount \in 0 .. MaxDecoded
    /\ ocount \in 0 .. icount
    /\ died \in {Nothing, "assert", "null", "sink", "exception", "freed"}

\* Within init, start, stop neither an assertion of hgsnwk_init() fails nor the
\* ERR_EXIT of nwk_dataincoming(): a NAL unit always finds Main or its arguments.
NoAssert == died \notin {"assert", "sink"}

\* main_, args_ and tmpargs_ have no lock: the thread that calls hgs_stop() touches
\* them only when the network thread has ended.
OneOwner == java \in {"stop", "destroy", "joinmain"} => net = "off"

\* The three threads between init and stop: the types, and both of these.
PlayerSound == PlayerTypeOK /\ NoAssert /\ OneOwner

\* hgs_stop() returns, unless the process dies of a null main_ (no parameter sets had
\* come) or of the exception of a teardown without a connection, or the output thread was
\* still using the arguments that are destroyed before it is joined.
StopReturns == (java = "join") ~> (java = "idle" \/ died # Nothing \/ out = "hung")
=============================================================================
