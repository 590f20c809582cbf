----------------------------- MODULE ClientPrograms ----------------------------
(***************************************************************************)
(* The programs at the client's end, checked in one run: the three parts   *)
(* of the Android player that have threads of their own (the input port of *)
(* the decoder, its set-up and tear-down, and the life of the player       *)
(* around both), and the chat clients.  A part of the player is used by    *)
(* the next one through calls that return only when they are done, so a    *)
(* behaviour is one of them.                                               *)
(***************************************************************************)
EXTENDS AvcInput, AvcSetup, Player, ChatClient

VARIABLE part

Init ==
    /\ part \in {"input", "setup", "player", "chat"}
    /\ InputInit /\ SetupInit /\ PlayerInit /\ ChatInit
    /\ part # "setup" => program = CHOOSE p \in Programs : TRUE
    /\ part # "setup" => ~keeps
    /\ part # "chat" => client = "ter"

Next ==
    /\ UNCHANGED part
    /\ \/ part = "input" /\ InputNext /\ UNCHANGED <<setupVars, playerVars, chatClientVars>>
       \/ part = "setup" /\ SetupNext /\ UNCHANGED <<inputVars, playerVars, chatClientVars>>
       \/ part = "player" /\ PlayerNext /\ UNCHANGED <<inputVars, setupVars, chatClientVars>>
       \/ part = "chat" /\ ChatNext /\ UNCHANGED <<inputVars, setupVars, playerVars>>

vars == <<part, inputVars, setupVars, playerVars, chatClientVars>>

\* A send goes on once begun, and the decoder gives back every buffer.
InputPartFairness ==
    /\ WF_inputVars(part = "input" /\ SendStep)
    /\ WF_inputVars(part = "input" /\ CallbackStep)

\* The thread that calls runs until it waits; the component carries out its
\* commands and gives buffers back.
SetupFairness ==
    /\ WF_setupVars(part = "setup" /\ Caller)
    /\ WF_setupVars(part = "setup" /\ Component)

\* A call that is under way goes on, the network thread runs its handlers (posted
\* ones are not overtaken for ever), decoding a set-up ends, and the timed wait of
\* outpoll() wakes up to look at the flag.
PlayerFairness ==
    /\ WF_playerVars(part = "player" /\ (hgsnwk_exit \/ ThreadStop \/ DestroyArgs \/ ThreadJoin))
    /\ WF_playerVars(part = "player" /\ MainMade)
    /\ SF_playerVars(part = "player" /\ rtph264_teardown)
    /\ SF_playerVars(part = "player" /\ stop)
    /\ WF_playerVars(part = "player" /\ OutOfWork)
    /\ WF_playerVars(part = "player" /\ Output)

\* The thread runs the handlers that are ready, timed_loop sets its timer again in
\* every case, and an attempt to connect is answered before the next one, once in
\* a while.
ChatFairness ==
    /\ WF_chatClientVars(part = "chat" /\ Handler)
    /\ WF_chatClientVars(part = "chat" /\ timed_loop)
    /\ WF_chatClientVars(part = "chat" /\ TimePasses)
    /\ SF_chatClientVars(part = "chat" /\ ConnectDone)
    /\ SF_chatClientVars(part = "chat" /\ ConnectHandler)
    /\ SF_chatClientVars(part = "chat" /\ HttpStep)

Spec ==
    /\ Init /\ [][Next]_vars
    /\ InputPartFairness
    /\ SetupFairness
    /\ PlayerFairness
    /\ ChatFairness
=============================================================================
