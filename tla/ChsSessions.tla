----------------------------- MODULE ChsSessions -----------------------------
(***************************************************************************)
(* The step server chs.cc: a client uploads a script of steps (Ch-Init)    *)
(* and is then led through them, request by request (Ch-Response).  Every  *)
(* request comes on a connection of its own; the script's state stays in   *)
(* stats_ between them, and in an archive between two runs of the program. *)
(* One thread runs all handlers, and a request has any number of commands, *)
(* each an action of its own here.  A request that fails or ends the       *)
(* script keeps its reference (wcscoped::iidx_) to the session, and the    *)
(* destructor of the connection erases the session through it.             *)
(***************************************************************************)
EXTENDS Naturals

CONSTANTS
    Conn,        \* connections
    Cid,         \* client identities (the cookie ck)
    StepCounts,  \* the numbers of steps of the scripts uploaded
    Repeats,     \* the repeat counts uploaded, a byte each
    MaxCommands, \* commands in one request (model bound)
    UintMax,     \* the value n_repeat wraps to
    MaxRequests, \* completed requests in all (model bound)
    MaxRestarts  \* ends of the process in all (model bound)

ASSUME CidAssumption == Cid # {}
ASSUME ScriptAssumption == StepCounts \subseteq 1 .. 16 /\ Repeats \subseteq 0 .. 255
ASSUME UintAssumption == UintMax \in Nat /\ UintMax > 255
ASSUME BoundAssumption == {MaxCommands, MaxRequests, MaxRestarts} \subseteq Nat

VARIABLES
    up,         \* "up", "down", or "ub" once an invalid iterator was erased
    sess,       \* cid -> its session in stats_ and stats_idx_, or NoSession
    arc,        \* the sessions in the archive file
    conn,       \* the connections
    nodes,      \* number of list nodes allocated so far
    handled,    \* the commands handled of the request that is being handled
    requests, restarts,
    told,       \* history: the client was told which step to take next
    overlapped, \* history: a request of the client was handled before the answer
                \* to another one was sent
    revived,    \* history: the archive gave back a session that was through
    overran     \* history: a request went on with a session it had ended itself

history == <<overlapped, revived, overran>>
vars == <<up, sess, arc, conn, nodes, handled, requests, restarts, told, history>>

NoSession == [node |-> 0, steps |-> 0, repeat |-> 0]
wcstat(node) == [NoSession EXCEPT !.node = node]

Closed == [state |-> "closed", cid |-> CHOOSE k \in Cid : TRUE, node |-> 0,
           out |-> "none", left |-> 0, actime |-> "none"]

Init ==
    /\ up = "up"
    /\ sess = [k \in Cid |-> NoSession]
    /\ arc = [k \in Cid |-> NoSession]
    /\ conn = [c \in Conn |-> Closed]
    /\ nodes = 0
    /\ handled = 0
    /\ requests = 0
    /\ restarts = 0
    /\ told = [k \in Cid |-> FALSE]
    /\ overlapped = [k \in Cid |-> FALSE]
    /\ revived = [k \in Cid |-> FALSE]
    /\ overran = [k \in Cid |-> FALSE]

-----------------------------------------------------------------------------
(* The commands of a request.  A result is the session, the answer (out)   *)
(* and whether commands() returned or threw an error.                      *)

Result(s, out, err) == [s |-> s, out |-> out, err |-> err]

\* --n_repeat of an unsigned int
Decremented(n) == IF n = 0 THEN UintMax ELSE n - 1

\* step_fwd: the step after t, the first one again, or the end.
step_fwd(s, t) ==
    IF t < s.steps THEN Result(s, "step", FALSE)
    ELSE LET s1 == [s EXCEPT !.repeat = Decremented(@)]
         IN  Result(s1, IF s1.repeat = 0 THEN "FIN" ELSE "step", FALSE)

\* wapinit and the reset before it: what it returns is not looked at, so a
\* refused script gets no answer but stays; one cut short throws.
Uploads ==
    [form : {"whole"}, steps : StepCounts, repeat : Repeats]
        \union [form : {"short"}, steps : {0} \union StepCounts, repeat : {0} \union Repeats]
        \union {[form |-> "nosteps", steps |-> 0, repeat |-> 0]}

Loaded(fresh, u) ==
    LET loaded == [fresh EXCEPT !.steps = u.steps, !.repeat = u.repeat]
    IN  CASE u.form = "nosteps" -> Result(fresh, "none", FALSE)
          [] u.form = "short" -> Result(loaded, "none", TRUE)
          [] u.form = "whole" /\ u.repeat \notin 1 .. 8 -> Result(loaded, "none", FALSE)
          [] u.form = "whole" /\ u.repeat \in 1 .. 8 -> step_fwd(loaded, 0)

\* with a list node of its own for the new script
wapinitNode(s, u) == Loaded(wcstat(s.node + 1), u)

wapinit(s, u) == Loaded(wcstat(s.node), u)

\* wapnext: the reply of the site to step t, as the client passes it on: a page,
\* a redirection, one that cannot be parsed (the error is dropped), one an
\* extraction pattern throws on.
wapnext(s, t, reply) ==
    CASE reply = "page" -> step_fwd(s, t)
      [] reply = "redirect" -> Result(s, "step", FALSE)
      [] reply = "garbled" -> Result(s, "none", FALSE)
      [] reply = "throws" -> Result(s, "none", TRUE)

Commands ==
    [name : {"Ch-Init"}, trac : {0, 1}, upload : Uploads]
        \union [name : {"Ch-Response"},
                trac : UNION {0 .. n + 1 : n \in StepCounts},
                reply : {"page", "redirect", "garbled", "throws"}]
        \union [name : {"Ch-Variables"}, found : BOOLEAN]

\* One command, of the session s, when the answer so far is out.
Answer(r, out) == IF r.out = "none" THEN [r EXCEPT !.out = out] ELSE r

Command(s, out, cmd) ==
    CASE cmd.name = "Ch-Variables" -> Result(s, out, ~cmd.found)
      [] cmd.name = "Ch-Init" ->
            IF cmd.trac # 0 THEN Result(s, out, TRUE) ELSE Answer(wapinit(s, cmd.upload), out)
      [] cmd.name = "Ch-Response" ->
            IF cmd.trac \notin 1 .. s.steps THEN Result(s, out, TRUE)
            ELSE Answer(wapnext(s, cmd.trac, cmd.reply), out)

\* An earlier command of the same request has used up the repetitions, or was refused,
\* and this one answers with a step none the less; or it takes the session away behind
\* an answer that was a step.
Overruns(s, out, cmd) ==
    /\ handled > 0
    /\ \/ /\ cmd.name = "Ch-Response" /\ s.repeat = 0
          /\ cmd.trac \in 1 .. s.steps /\ wapnext(s, cmd.trac, cmd.reply).out # "none"
       \/ /\ cmd.name = "Ch-Init" /\ out = "step"
          /\ Command(s, out, cmd).s.repeat = 0

\* The request keeps its reference: an error, or no repetition left.
KeepsAlways(r) == TRUE

Keeps(r) == r.err \/ r.s.repeat = 0

-----------------------------------------------------------------------------
(* Connections                                                             *)

\* delete self: ~wcscoped erases the session the connection holds.
Erased(c, s) ==
    IF conn[c].node # 0 THEN [s EXCEPT ![conn[c].cid] = NoSession] ELSE s

Dangling(c) == conn[c].node # 0 /\ sess[conn[c].cid].node # conn[c].node

Delete(c) ==
    /\ conn' = [conn EXCEPT ![c] = Closed]
    /\ up' = IF Dangling(c) THEN "ub" ELSE up
    /\ sess' = Erased(c, sess)

Unbounded == UNCHANGED <<arc, nodes, handled, requests, restarts, revived, overran>>

\* The thread is between two handlers.
Ready == up = "up" /\ \A c \in Conn : conn[c].state # "handling"

\* cb_accept; the constructor leaves _actime uninitialised.
cb_accept(c) ==
    /\ Ready
    /\ conn[c].state = "closed"
    /\ \E t \in {"long ago", "in the future"} :
           conn' = [conn EXCEPT ![c] = [Closed EXCEPT !.state = "reading", !.actime = t]]
    /\ UNCHANGED <<up, sess, told, overlapped>> /\ Unbounded

\* Part of a request was received.
ReadSome(c) ==
    /\ Ready
    /\ conn[c].state = "reading"
    /\ conn' = [conn EXCEPT ![c].actime = "now"]
    /\ UNCHANGED <<up, sess, told, overlapped>> /\ Unbounded

\* recv failed, the peer closed too early, or the request is not acceptable.
ReadFail(c) ==
    /\ Ready
    /\ conn[c].state = "reading"
    /\ Delete(c)
    /\ UNCHANGED <<told, overlapped>> /\ Unbounded

Unfinished(k) == {c \in Conn : conn[c].state = "writing" /\ conn[c].cid = k}

\* wcreader::operator() with a completed request: initref finds or makes the session.
Request(c, k) ==
    LET new == sess[k] = NoSession
    IN  /\ Ready
        /\ conn[c].state = "reading"
        /\ requests < MaxRequests
        /\ requests' = requests + 1
        /\ nodes' = IF new THEN nodes + 1 ELSE nodes
        /\ handled' = 0
        /\ sess' = IF new THEN [sess EXCEPT ![k] = wcstat(nodes + 1)] ELSE sess
        /\ conn' = [conn EXCEPT ![c] =
               [Closed EXCEPT !.state = "handling", !.cid = k, !.node = sess'[k].node]]
        /\ told' = [told EXCEPT ![k] = FALSE]
        /\ overlapped' = [overlapped EXCEPT ![k] = @ \/ Unfinished(k) # {}]
        /\ UNCHANGED <<up, arc, restarts, revived, overran>>

\* The rest of cb_rdwr: the connection turns to writing, or is deleted when there is no
\* answer.
Respond(c, r) ==
    LET k == conn[c].cid
        answer == IF r.err THEN "501" ELSE r.out
    IN  IF answer = "none"
        THEN /\ sess' = [sess EXCEPT ![k] = IF Keeps(r) THEN NoSession ELSE r.s]
             /\ conn' = [conn EXCEPT ![c] = Closed]
        ELSE /\ sess' = [sess EXCEPT ![k] = r.s]
             /\ conn' = [conn EXCEPT ![c] =
                   [state |-> "writing", cid |-> k, node |-> IF Keeps(r) THEN @.node ELSE 0,
                    out |-> answer, left |-> 2, actime |-> "now"]]

\* commands(): the next command of the request, the last one if it fails ...
NextCommand(c, cmd) ==
    LET k == conn[c].cid
        r == Command(sess[k], conn[c].out, cmd)
    IN  /\ up = "up" /\ conn[c].state = "handling"
        /\ handled < MaxCommands
        /\ handled' = handled + 1
        /\ IF r.err
           THEN Respond(c, r)
           ELSE /\ sess' = [sess EXCEPT ![k] = r.s]
                /\ conn' = [conn EXCEPT ![c].out = r.out]
        /\ overran' = [overran EXCEPT ![k] = @ \/ Overruns(sess[k], conn[c].out, cmd)]
        /\ UNCHANGED <<up, arc, nodes, requests, restarts, told, overlapped, revived>>

\* ... and the end of its body.
LastCommand(c) ==
    /\ up = "up" /\ conn[c].state = "handling"
    /\ Respond(c, Result(sess[conn[c].cid], conn[c].out, FALSE))
    /\ UNCHANGED <<up, told, overlapped>> /\ Unbounded

Handler(c) == LastCommand(c) \/ \E cmd \in Commands : NextCommand(c, cmd)

\* send() took a part of the answer.
SendSome(c) ==
    /\ Ready
    /\ conn[c].state = "writing"
    /\ conn[c].left > 1
    /\ conn' = [conn EXCEPT ![c].left = @ - 1, ![c].actime = "now"]
    /\ UNCHANGED <<up, sess, told, overlapped>> /\ Unbounded

SendRest(c) ==
    /\ Ready
    /\ conn[c].state = "writing"
    /\ Delete(c)
    /\ told' = [told EXCEPT ![conn[c].cid] = @ \/ conn[c].out = "step"]
    /\ UNCHANGED overlapped /\ Unbounded

SendFail(c) ==
    /\ Ready
    /\ conn[c].state = "writing"
    /\ Delete(c)
    /\ UNCHANGED <<told, overlapped>> /\ Unbounded

\* cb_timer without delete self and without a new start of the timer
cb_timerIdle(c) ==
    /\ Ready
    /\ conn[c].actime = "long ago"
    /\ conn' = [conn EXCEPT ![c].actime = "in the future"]
    /\ UNCHANGED <<up, sess, told, overlapped>> /\ Unbounded

\* cb_timer: the connection was not active for more than 180 seconds, or seems so.
cb_timer(c) ==
    /\ Ready
    /\ conn[c].actime = "long ago"
    /\ Delete(c)
    /\ UNCHANGED <<told, overlapped>> /\ Unbounded

TimePasses(c) ==
    /\ Ready
    /\ conn[c].actime = "now"
    /\ conn' = [conn EXCEPT ![c].actime = "long ago"]
    /\ UNCHANGED <<up, sess, told, overlapped>> /\ Unbounded

-----------------------------------------------------------------------------
(* The process                                                             *)

\* Connections are not deleted when the process ends.
Ends ==
    /\ Ready
    /\ restarts < MaxRestarts
    /\ restarts' = restarts + 1
    /\ up' = "down"
    /\ sess' = [k \in Cid |-> NoSession]
    /\ conn' = [c \in Conn |-> Closed]
    /\ UNCHANGED <<nodes, handled, requests, history>>

\* cb_sigterm: save_arc, with the sessions that only wait to be erased.
cb_sigterm == Ends /\ arc' = sess /\ UNCHANGED told

\* The process is killed; the archive stays what it was.
Killed == Ends /\ arc' = arc /\ told' = [k \in Cid |-> FALSE]

\* restore_stats; the archive is not removed.
restore_stats ==
    /\ up = "down"
    /\ up' = "up"
    /\ sess' = arc
    /\ revived' = [k \in Cid |-> revived[k] \/ (arc[k].steps > 0 /\ arc[k].repeat = 0)]
    /\ UNCHANGED <<arc, conn, nodes, handled, requests, restarts, told, overlapped, overran>>

Stopped ==
    /\ up = "ub"
    /\ UNCHANGED vars

-----------------------------------------------------------------------------
Next ==
    \/ \E c \in Conn :
          \/ cb_accept(c) \/ ReadSome(c) \/ ReadFail(c)
          \/ (\E k \in Cid : Request(c, k)) \/ Handler(c)
          \/ SendSome(c) \/ SendRest(c) \/ SendFail(c)
          \/ cb_timer(c) \/ TimePasses(c)
    \/ cb_sigterm \/ Killed \/ restore_stats
    \/ Stopped

\* A handler runs to its end, libev fires the timers it was given between two of them,
\* and time passes.
Spec ==
    /\ Init /\ [][Next]_vars
    /\ \A c \in Conn :
          WF_vars(Handler(c)) /\ WF_vars(TimePasses(c)) /\ WF_vars(cb_timer(c))

-----------------------------------------------------------------------------
(* Properties                                                              *)

Session == [node : Nat, steps : {0} \union StepCounts, repeat : 0 .. UintMax]

TypeOK ==
    /\ up \in {"up", "down", "ub"}
    /\ sess \in [Cid -> Session]
    /\ arc \in [Cid -> Session]
    /\ conn \in [Conn -> [state : {"closed", "reading", "handling", "writing"}, cid : Cid, node : Nat,
                          out : {"none", "step", "FIN", "501"}, left : 0 .. 2,
                          actime : {"none", "now", "long ago", "in the future"}]]
    /\ nodes \in 0 .. MaxRequests
    /\ handled \in 0 .. MaxCommands
    /\ requests \in 0 .. MaxRequests
    /\ restarts \in 0 .. MaxRestarts
    /\ told \in [Cid -> BOOLEAN]
    /\ {overlapped, revived, overran} \subseteq [Cid -> BOOLEAN]

\* The iterator a connection keeps for its destructor points into stats_ as long
\* as the client does not send a request before its last connection is gone.
SafeErase ==
    \A c \in Conn : Dangling(c) => overlapped[conn[c].cid]

\* A client that was told its next step finds its session again, through orderly
\* restarts too: no late destructor has erased it and the archive has it.  Not so one
\* whose request held commands behind the one that ended the session.
ToldContinues ==
    up = "up" =>
        \A k \in Cid :
            told[k] /\ ~overlapped[k] /\ ~revived[k] /\ ~overran[k] => sess[k].steps > 0

\* The unsigned repeat count is decremented below zero, and the script then
\* repeated for ever, only for a session that was archived after its last
\* repetition, before its connection was gone, or within the request that brought it.
NeverWraps ==
    \A k \in Cid :
        sess[k].repeat > 255 => revived[k] \/ overlapped[k] \/ overran[k]

\* The store under overlapping connections and restarts: the types, and these two.
StoreSound == TypeOK /\ SafeErase /\ NeverWraps

\* A session that is through, or failed, goes away: the connection that will
\* erase it cannot be kept open by a client that does not read.
EndedGoes ==
    \A c \in Conn : conn[c].node # 0 ~> (conn[c].node = 0 \/ up = "ub")

\* No script is walked with a repeat count that wapinit refuses
\* ("Repeat count error", chs.cc:1278).
RepeatAccepted ==
    \A k \in Cid : sess[k].steps > 0 => sess[k].repeat <= 8
=============================================================================
