--------------------------- MODULE ChsSessionsProofs ---------------------------
(***************************************************************************)
(* Proofs about the step server, for every set of connections and clients  *)
(* and any number of requests, of commands in a request and of restarts.   *)
(***************************************************************************)
EXTENDS ChsSessions, TLAPS

-----------------------------------------------------------------------------
(* What one command does to a session                                      *)

Results(n) ==
    {r \in [s : Session, out : {"none", "step", "FIN"}, err : BOOLEAN] : r.s.node = n}

LEMMA ScriptNumbers ==
    /\ \A x \in StepCounts : x \in 1 .. 16
    /\ \A x \in Repeats : x \in 0 .. 255
  <1>1. StepCounts \subseteq 1 .. 16
    BY ScriptAssumption
  <1>2. Repeats \subseteq 0 .. 255
    BY ScriptAssumption
  <1> QED
    BY <1>1, <1>2

LEMMA FreshSession ==
    ASSUME NEW n \in Nat
    PROVE  wcstat(n) \in Session /\ wcstat(n).node = n /\ wcstat(n).steps = 0
           /\ wcstat(n).repeat = 0
  <1>1. wcstat(n) = [node |-> n, steps |-> 0, repeat |-> 0]
    BY DEF wcstat, NoSession
  <1>2. 0 \in 0 .. UintMax
    BY UintAssumption
  <1> QED
    BY <1>1, <1>2 DEF Session

LEMMA FwdResult ==
    ASSUME NEW s \in Session, NEW t
    PROVE  /\ step_fwd(s, t) \in Results(s.node)
           /\ step_fwd(s, t).s.steps = s.steps /\ ~step_fwd(s, t).err
           /\ step_fwd(s, t).out # "none"
           /\ s.repeat \in 1 .. 255 =>
                 /\ step_fwd(s, t).s.repeat <= 255
                 /\ step_fwd(s, t).out = "step" => step_fwd(s, t).s.repeat # 0
  <1>1. s.node \in Nat /\ s.steps \in {0} \union StepCounts /\ s.repeat \in 0 .. UintMax
    BY DEF Session
  <1>2. s = [node |-> s.node, steps |-> s.steps, repeat |-> s.repeat]
    BY DEF Session
  <1> DEFINE d == Decremented(s.repeat)
  <1>3. d \in 0 .. UintMax /\ (s.repeat \in 1 .. 255 => d <= 255)
    BY <1>1, UintAssumption DEF Decremented
  <1>4. CASE t < s.steps
    <2>1. step_fwd(s, t) = [s |-> s, out |-> "step", err |-> FALSE]
      BY <1>4 DEF step_fwd, Result
    <2>2. s.repeat \in 1 .. 255 => s.repeat <= 255 /\ s.repeat # 0
      BY <1>1
    <2> QED
      BY <2>1, <2>2 DEF Results
  <1>5. CASE ~(t < s.steps)
    <2> DEFINE s1 == [node |-> s.node, steps |-> s.steps, repeat |-> d]
               o == IF d = 0 THEN "FIN" ELSE "step"
    <2>1. [s EXCEPT !.repeat = Decremented(@)] = s1
      BY <1>2
    <2>2. step_fwd(s, t) = [s |-> s1, out |-> o, err |-> FALSE]
      BY <1>5, <2>1 DEF step_fwd, Result
    <2>3. s1 \in Session
      BY <1>1, <1>3 DEF Session
    <2>4. s1.node = s.node /\ s1.steps = s.steps /\ s1.repeat = d
      OBVIOUS
    <2>5. o \in {"none", "step", "FIN"} /\ (o = "step" => d # 0) /\ o # "none"
      OBVIOUS
    <2> HIDE DEF d, s1, o
    <2> QED
      BY <1>3, <2>2, <2>3, <2>4, <2>5 DEF Results
  <1> QED
    BY <1>4, <1>5

LEMMA LoadedResult ==
    ASSUME NEW n \in Nat, NEW u \in Uploads
    PROVE  /\ Loaded(wcstat(n), u) \in Results(n)
           /\ Loaded(wcstat(n), u).s.repeat <= 255
           /\ Loaded(wcstat(n), u).out = "step" => Loaded(wcstat(n), u).s.repeat # 0
           /\ Loaded(wcstat(n), u).s.repeat # 0 /\ ~Loaded(wcstat(n), u).err =>
                 Loaded(wcstat(n), u).s.steps > 0
  <1> DEFINE fresh == wcstat(n)
             loaded == [fresh EXCEPT !.steps = u.steps, !.repeat = u.repeat]
             r == Loaded(fresh, u)
  <1>1. fresh \in Session /\ fresh.node = n /\ fresh.repeat = 0
    BY FreshSession
  <1>2. CASE u.form = "nosteps"
    <2>1. r = [s |-> fresh, out |-> "none", err |-> FALSE]
      BY <1>2 DEF Loaded, Result
    <2>2. r.s = fresh /\ r.out = "none" /\ r \in [s : Session, out : {"none", "step", "FIN"}, err : BOOLEAN]
      BY <1>1, <2>1
    <2> HIDE DEF fresh, loaded, r
    <2>3. r \in Results(n) /\ r.s.repeat = 0 /\ r.out # "step"
      BY <1>1, <2>2 DEF Results
    <2> QED
      BY <2>3 DEF r, fresh
  <1>3. CASE u.form \in {"whole", "short"}
    <2>1. /\ u.steps \in {0} \union StepCounts /\ u.repeat \in {0} \union Repeats
          /\ u.form = "whole" => u.steps \in StepCounts
      BY <1>3 DEF Uploads
    <2>2. u.steps \in 0 .. 16 /\ u.repeat \in 0 .. 255 /\ (u.form = "whole" => u.steps > 0)
      BY <2>1, ScriptNumbers
    <2>3. loaded = [node |-> n, steps |-> u.steps, repeat |-> u.repeat]
      <3>1. fresh = [node |-> n, steps |-> 0, repeat |-> 0]
        BY DEF wcstat, NoSession
      <3>2. loaded = [fresh EXCEPT !.steps = u.steps, !.repeat = u.repeat]
        OBVIOUS
      <3> HIDE DEF loaded, fresh
      <3> QED
        BY <2>2, <3>1, <3>2
    <2>4. loaded \in Session
      <3>1. u.repeat \in 0 .. UintMax
        BY <2>2, UintAssumption
      <3> HIDE DEF loaded
      <3> QED
        BY <2>1, <2>3, <3>1 DEF Session
    <2>5. loaded.node = n /\ loaded.steps = u.steps /\ loaded.repeat = u.repeat
      BY <2>3
    <2>6. CASE u.form = "short"
      <3>1. r = [s |-> loaded, out |-> "none", err |-> TRUE]
        BY <2>6 DEF Loaded, Result
      <3> HIDE DEF loaded
      <3> QED
        BY <2>2, <2>4, <2>5, <3>1 DEF Results
    <2>7. CASE u.form = "whole" /\ u.repeat \notin 1 .. 8
      <3>1. r = [s |-> loaded, out |-> "none", err |-> FALSE]
        BY <2>7 DEF Loaded, Result
      <3> HIDE DEF loaded
      <3> QED
        BY <2>2, <2>4, <2>5, <2>7, <3>1 DEF Results
    <2>8. CASE u.form = "whole" /\ u.repeat \in 1 .. 8
      <3>1. r = step_fwd(loaded, 0)
        BY <2>8 DEF Loaded
      <3> HIDE DEF loaded, r, fresh
      <3>2. loaded.repeat \in 1 .. 255 /\ loaded.steps > 0
        BY <2>2, <2>5, <2>8
      <3>3. /\ r \in Results(n) /\ r.s.steps = loaded.steps /\ ~r.err
            /\ r.s.repeat <= 255
            /\ r.out = "step" => r.s.repeat # 0
        BY <2>4, <2>5, <3>1, <3>2, FwdResult
      <3> QED
        BY <3>2, <3>3 DEF r, fresh
    <2> QED
      BY <1>3, <2>6, <2>7, <2>8
  <1>4. u.form \in {"whole", "short", "nosteps"}
    BY DEF Uploads
  <1> QED
    BY <1>2, <1>3, <1>4

LEMMA NextResult ==
    ASSUME NEW s \in Session, NEW t \in 1 .. s.steps,
           NEW reply \in {"page", "redirect", "garbled", "throws"}
    PROVE  /\ wapnext(s, t, reply) \in Results(s.node)
           /\ wapnext(s, t, reply).s.steps = s.steps /\ s.steps > 0
           /\ wapnext(s, t, reply).out = "none" => wapnext(s, t, reply).s = s
           /\ s.repeat \in 1 .. 255 =>
                 /\ wapnext(s, t, reply).s.repeat <= 255
                 /\ wapnext(s, t, reply).out = "step" => wapnext(s, t, reply).s.repeat # 0
  <1>1. s.steps > 0 /\ s.repeat \in Nat
    <2>1. s.steps \in {0} \union StepCounts /\ s.repeat \in 0 .. UintMax
      BY DEF Session
    <2> QED
      BY <2>1, ScriptNumbers, UintAssumption
  <1>2. CASE reply = "page"
    <2>1. wapnext(s, t, reply) = step_fwd(s, t)
      BY <1>2 DEF wapnext
    <2> QED
      BY <1>1, <2>1, FwdResult
  <1>3. CASE reply # "page"
    <2> DEFINE o == IF reply = "redirect" THEN "step" ELSE "none"
               e == reply = "throws"
    <2>1. wapnext(s, t, reply) = [s |-> s, out |-> o, err |-> e]
      <3>1. CASE reply = "redirect"
        BY <3>1 DEF wapnext, Result
      <3>2. CASE reply = "garbled"
        BY <3>2 DEF wapnext, Result
      <3>3. CASE reply = "throws"
        BY <3>3 DEF wapnext, Result
      <3> QED
        BY <1>3, <3>1, <3>2, <3>3
    <2>2. o \in {"none", "step", "FIN"} /\ e \in BOOLEAN /\ (o = "step" => ~e)
      OBVIOUS
    <2>3. s.repeat \in 1 .. 255 => s.repeat <= 255 /\ s.repeat # 0
      BY <1>1
    <2> HIDE DEF o, e
    <2> QED
      BY <1>1, <2>1, <2>2, <2>3 DEF Results
  <1> QED
    BY <1>2, <1>3
\* A command leaves a session in its list node.
LEMMA CommandResult ==
    ASSUME NEW s \in Session, NEW out \in {"none", "step", "FIN"}, NEW cmd \in Commands
    PROVE  Command(s, out, cmd) \in Results(s.node)
  <1>1. cmd.name \in {"Ch-Init", "Ch-Response", "Ch-Variables"}
    BY DEF Commands
  <1>2. s.node \in Nat
    BY DEF Session
  <1>3. \A e \in BOOLEAN : Result(s, out, e) \in Results(s.node)
    BY DEF Result, Results
  <1>4. \A i \in Results(s.node) : Answer(i, out) \in Results(s.node)
    BY DEF Results, Answer
  <1>5. CASE cmd.name = "Ch-Variables"
    <2>1. cmd.found \in BOOLEAN
      BY <1>5 DEF Commands
    <2>2. Command(s, out, cmd) = Result(s, out, ~cmd.found)
      BY <1>5 DEF Command
    <2> QED
      BY <1>3, <2>1, <2>2
  <1>6. CASE cmd.name = "Ch-Init"
    <2>1. cmd.upload \in Uploads
      BY <1>6 DEF Commands
    <2>2. wapinit(s, cmd.upload) \in Results(s.node)
      BY <1>2, <2>1, LoadedResult DEF wapinit
    <2>3. \/ Command(s, out, cmd) = Result(s, out, TRUE)
          \/ Command(s, out, cmd) = Answer(wapinit(s, cmd.upload), out)
      BY <1>6 DEF Command
    <2> QED
      BY <1>3, <1>4, <2>2, <2>3
  <1>7. CASE cmd.name = "Ch-Response"
    <2>1. cmd.reply \in {"page", "redirect", "garbled", "throws"}
      BY <1>7 DEF Commands
    <2>2. cmd.trac \in 1 .. s.steps => wapnext(s, cmd.trac, cmd.reply) \in Results(s.node)
      BY <2>1, NextResult
    <2>3. \/ Command(s, out, cmd) = Result(s, out, TRUE)
          \/ /\ cmd.trac \in 1 .. s.steps
             /\ Command(s, out, cmd) = Answer(wapnext(s, cmd.trac, cmd.reply), out)
      BY <1>7 DEF Command
    <2> QED
      BY <1>3, <1>4, <2>2, <2>3
  <1> QED
    BY <1>1, <1>5, <1>6, <1>7

\* A session that goes on with the answer, as far as it is made.
GoesOn(s, out) == out = "step" => s.steps > 0 /\ s.repeat # 0

\* The first command of a request finds a session that has not ended.
Fresh(n, s, out) == n = 0 => out = "none" /\ (s.steps > 0 => s.repeat # 0)

\* A command, that does not go on behind the one that ended the session, does not
\* count below zero, and the session goes on when the answer is a step.
LEMMA CommandGoesOn ==
    ASSUME NEW s \in Session, s.repeat <= 255, NEW out \in {"none", "step", "FIN"},
           NEW cmd \in Commands, handled \in Nat, GoesOn(s, out), Fresh(handled, s, out),
           ~Overruns(s, out, cmd)
    PROVE  /\ Command(s, out, cmd).s.repeat <= 255
           /\ ~Command(s, out, cmd).err =>
                 GoesOn(Command(s, out, cmd).s, Command(s, out, cmd).out)
  <1> DEFINE r == Command(s, out, cmd)
             Good(i) == i.s.repeat <= 255 /\ (~i.err => GoesOn(i.s, i.out))
  <1>1. cmd.name \in {"Ch-Init", "Ch-Response", "Ch-Variables"}
    BY DEF Commands
  <1>2. s.node \in Nat /\ s.steps \in Nat /\ s.repeat \in Nat
    <2>1. s.node \in Nat /\ s.steps \in {0} \union StepCounts /\ s.repeat \in 0 .. UintMax
      BY DEF Session
    <2> QED
      BY <2>1, ScriptNumbers, UintAssumption
  <1>3. \A e \in BOOLEAN : Good(Result(s, out, e))
    BY DEF Result
  <1>4. CASE cmd.name = "Ch-Variables"
    <2>1. cmd.found \in BOOLEAN /\ r = Result(s, out, ~cmd.found)
      BY <1>4 DEF Command, Commands
    <2> HIDE DEF r, Good
    <2>2. Good(r)
      BY <1>3, <2>1
    <2> QED
      BY <2>2 DEF r, Good
  <1>5. CASE cmd.name = "Ch-Init"
    <2>1. cmd.upload \in Uploads
      BY <1>5 DEF Commands
    <2> DEFINE i == wapinit(s, cmd.upload)
    <2>2. /\ i \in Results(s.node) /\ i.s.repeat <= 255
          /\ i.out = "step" => i.s.repeat # 0
          /\ i.s.repeat # 0 /\ ~i.err => i.s.steps > 0
      BY <1>2, <2>1, LoadedResult DEF wapinit
    <2>3. r = IF cmd.trac # 0 THEN Result(s, out, TRUE) ELSE Answer(i, out)
      BY <1>5 DEF Command
    <2> HIDE DEF i
    <2>4. CASE cmd.trac # 0
      <3> HIDE DEF r, Good
      <3>1. Good(r)
        BY <1>3, <2>3, <2>4
      <3> QED
        BY <3>1 DEF r, Good
    <2>5. CASE cmd.trac = 0
      <3>1. r = Answer(i, out)
        BY <2>3, <2>5
      <3>2. /\ r.s = i.s /\ r.err = i.err
            /\ r.out = IF i.out = "none" THEN out ELSE i.out
        BY <2>2, <3>1 DEF Answer, Results
      <3>3. out = "step" => r.s.repeat # 0
        <4>1. SUFFICES ASSUME out = "step", r.s.repeat = 0 PROVE FALSE
          OBVIOUS
        <4>2. handled > 0
          BY <4>1 DEF Fresh
        <4> QED
          BY <1>5, <4>1, <4>2 DEF Overruns
      <3> HIDE DEF r
      <3>4. Good(r)
        BY <2>2, <3>2, <3>3 DEF GoesOn
      <3> QED
        BY <3>4 DEF r
    <2> QED
      BY <2>4, <2>5
  <1>6. CASE cmd.name = "Ch-Response"
    <2>1. cmd.reply \in {"page", "redirect", "garbled", "throws"}
      BY <1>6 DEF Commands
    <2> DEFINE i == wapnext(s, cmd.trac, cmd.reply)
    <2>2. CASE cmd.trac \notin 1 .. s.steps
      <3>1. r = Result(s, out, TRUE)
        BY <1>6, <2>2 DEF Command
      <3> HIDE DEF r, Good
      <3>2. Good(r)
        BY <1>3, <3>1
      <3> QED
        BY <3>2 DEF r, Good
    <2>3. CASE cmd.trac \in 1 .. s.steps
      <3>1. /\ i \in Results(s.node) /\ i.s.steps = s.steps /\ s.steps > 0
            /\ i.out = "none" => i.s = s
            /\ s.repeat \in 1 .. 255 =>
                  i.s.repeat <= 255 /\ (i.out = "step" => i.s.repeat # 0)
        BY <2>1, <2>3, NextResult
      <3>2. r = Answer(i, out)
        BY <1>6, <2>3 DEF Command
      <3>3. s.repeat = 0 => i.out = "none"
        <4>1. SUFFICES ASSUME s.repeat = 0, i.out # "none" PROVE FALSE
          OBVIOUS
        <4>2. handled > 0
          BY <3>1, <4>1 DEF Fresh
        <4> QED
          BY <1>6, <2>3, <4>1, <4>2 DEF Overruns
      <3> HIDE DEF i
      <3>4. /\ r.s = i.s /\ r.err = i.err
            /\ r.out = IF i.out = "none" THEN out ELSE i.out
        BY <3>1, <3>2 DEF Answer, Results
      <3> HIDE DEF r
      <3>5. s.repeat = 0 \/ s.repeat \in 1 .. 255
        BY <1>2
      <3>6. i.s.repeat <= 255 /\ (i.out = "step" => i.s.repeat # 0)
        BY <3>1, <3>3, <3>5
      <3>7. Good(r)
        BY <3>1, <3>4, <3>6 DEF GoesOn
      <3> QED
        BY <3>7 DEF r
    <2> QED
      BY <2>2, <2>3
  <1> QED
    BY <1>1, <1>4, <1>5, <1>6

-----------------------------------------------------------------------------
(* The store, for requests of any number of commands                       *)

\* Only a connection with a request holds an iterator for its destructor.
Held == \A c \in Conn : conn[c].node # 0 => conn[c].state \in {"handling", "writing"}

\* The connections with a request of a client.
Busy(k) == {c \in Conn : conn[c].state \in {"handling", "writing"} /\ conn[c].cid = k}

\* The requests of a client are answered one after another, and handled so.
OneAnswer ==
    /\ \A k \in Cid : ~overlapped[k] => \A c, d \in Busy(k) : c = d
    /\ \A c, d \in Conn : conn[c].state = "handling" /\ conn[d].state = "handling" => c = d

\* A request is handled with the session its connection holds.
HandledHolds ==
    \A c \in Conn : conn[c].state = "handling" =>
        /\ up = "up" /\ conn[c].out \in {"none", "step", "FIN"}
        /\ conn[c].node # 0 /\ sess[conn[c].cid].node = conn[c].node

\* A session in stats_, or in the archive, has a list node.
NodesThere ==
    \A k \in Cid : /\ sess[k] # NoSession => sess[k].node # 0
                   /\ arc[k] # NoSession => arc[k].node # 0

\* The process ends with its connections.
EndsClosed == up = "down" => \A c \in Conn : conn[c] = Closed

StoreInv ==
    /\ TypeOK /\ SafeErase /\ nodes <= requests
    /\ NodesThere /\ Held /\ OneAnswer /\ HandledHolds /\ EndsClosed

Connection ==
    [state : {"closed", "reading", "handling", "writing"}, cid : Cid, node : Nat,
     out : {"none", "step", "FIN", "501"}, left : 0 .. 2,
     actime : {"none", "now", "long ago", "in the future"}]

LEMMA ClosedConnection ==
    /\ Closed \in Connection /\ Closed.state = "closed" /\ Closed.node = 0
    /\ Closed.actime = "none"
  <1> DEFINE k0 == CHOOSE k \in Cid : TRUE
  <1>1. k0 \in Cid
    BY CidAssumption
  <1>2. Closed = [state |-> "closed", cid |-> k0, node |-> 0,
                  out |-> "none", left |-> 0, actime |-> "none"]
    BY DEF Closed
  <1> HIDE DEF k0
  <1> QED
    BY <1>1, <1>2 DEF Connection

\* The requests under way are the same after a step.
SameAnswers ==
    \A d \in Conn :
        /\ \A t \in {"handling", "writing"} : conn'[d].state = t <=> conn[d].state = t
        /\ conn[d].state \in {"handling", "writing"} =>
              conn'[d].cid = conn[d].cid /\ conn'[d].out = conn[d].out
        /\ conn'[d].node = conn[d].node

\* A step on one connection that leaves the requests as they are.
LEMMA TouchSame ==
    ASSUME TypeOK, NEW c \in Conn, NEW x \in Connection,
           conn' = [conn EXCEPT ![c] = x],
           x.node = conn[c].node,
           \A t \in {"handling", "writing"} : x.state = t <=> conn[c].state = t,
           x.state \in {"handling", "writing"} => x.cid = conn[c].cid /\ x.out = conn[c].out
    PROVE  conn' \in [Conn -> Connection] /\ SameAnswers
  <1>1. conn \in [Conn -> Connection]
    BY DEF TypeOK, Connection
  <1>2. conn' \in [Conn -> Connection] /\ \A d \in Conn : conn'[d] = IF d = c THEN x ELSE conn[d]
    BY <1>1
  <1> QED
    BY <1>2 DEF SameAnswers

\* What the handlers leave alone that do not work on a request.
Untouched ==
    UNCHANGED <<arc, nodes, handled, requests, restarts, overlapped, revived, overran>>

LEMMA SameAnswersStore ==
    ASSUME StoreInv, up = "up", SameAnswers, conn' \in [Conn -> Connection],
           UNCHANGED <<up, sess, told>>, Untouched
    PROVE  StoreInv' /\ \A k \in Cid : Busy(k)' = Busy(k) /\ Unfinished(k)' = Unfinished(k)
  <1>1. TypeOK'
    BY DEF StoreInv, TypeOK, Connection, Untouched
  <1>2. \A k \in Cid : Busy(k)' = Busy(k) /\ Unfinished(k)' = Unfinished(k)
    BY DEF SameAnswers, Busy, Unfinished
  <1>3. SafeErase'
    <2>1. \A d \in Conn : conn[d].node # 0 => conn'[d].cid = conn[d].cid
      BY DEF StoreInv, Held, SameAnswers
    <2> QED
      BY <2>1 DEF StoreInv, SafeErase, Dangling, SameAnswers, Untouched
  <1>4. Held'
    BY DEF StoreInv, Held, SameAnswers
  <1>5. OneAnswer'
    BY <1>2 DEF StoreInv, OneAnswer, SameAnswers, Untouched
  <1>6. HandledHolds'
    BY DEF StoreInv, HandledHolds, SameAnswers
  <1>7. EndsClosed' /\ (nodes <= requests)' /\ NodesThere'
    BY DEF StoreInv, EndsClosed, NodesThere, Untouched
  <1> QED
    BY <1>1, <1>2, <1>3, <1>4, <1>5, <1>6, <1>7 DEF StoreInv

LEMMA DeleteStore ==
    ASSUME StoreInv, NEW c \in Conn, Ready, Delete(c), Untouched, told' \in [Cid -> BOOLEAN]
    PROVE  StoreInv'
  <1> DEFINE k == conn[c].cid
  <1>1. conn \in [Conn -> Connection] /\ sess \in [Cid -> Session] /\ k \in Cid
    BY DEF StoreInv, TypeOK, Connection
  <1>2. /\ conn' \in [Conn -> Connection]
        /\ \A d \in Conn : conn'[d] = IF d = c THEN Closed ELSE conn[d]
    BY <1>1, ClosedConnection DEF Delete
  <1>3. NoSession \in Session
    BY UintAssumption DEF NoSession, Session
  <1>4. /\ sess' \in [Cid -> Session]
        /\ \A j \in Cid : sess'[j] = IF j = k /\ conn[c].node # 0 THEN NoSession ELSE sess[j]
    BY <1>1, <1>3 DEF Delete, Erased
  <1>5. up' \in {"up", "ub"}
    BY DEF Delete, Ready
  <1>6. TypeOK'
    <2>1. up' \in {"up", "down", "ub"}
      BY <1>5
    <2> QED
      BY <1>2, <1>4, <2>1 DEF StoreInv, TypeOK, Connection, Untouched
  <1>7. Held'
    BY <1>2, ClosedConnection DEF StoreInv, Held
  <1>8. \A d \in Conn : conn'[d].state # "handling"
    BY <1>2, ClosedConnection DEF Ready
  <1>9. OneAnswer'
    <2>1. \A j \in Cid : Busy(j)' \subseteq Busy(j)
      BY <1>2, ClosedConnection DEF Busy
    <2> QED
      BY <1>8, <2>1 DEF StoreInv, OneAnswer, Untouched
  <1>10. SafeErase'
    <2>1. SUFFICES ASSUME NEW d \in Conn, conn'[d].node # 0, ~overlapped[conn'[d].cid]
                   PROVE  sess'[conn'[d].cid].node = conn'[d].node
      BY DEF SafeErase, Dangling, Untouched
    <2>2. d # c /\ conn'[d] = conn[d]
      BY <1>2, <2>1, ClosedConnection
    <2>3. conn[d].state \in {"handling", "writing"} /\ conn[d].cid \in Cid
      BY <1>1, <2>1, <2>2 DEF StoreInv, Held, Connection
    <2>4. sess[conn[d].cid].node = conn[d].node
      BY <2>1, <2>2 DEF StoreInv, SafeErase, Dangling
    <2>5. conn[d].cid # k \/ conn[c].node = 0
      <3>1. SUFFICES ASSUME conn[d].cid = k, conn[c].node # 0 PROVE FALSE
        OBVIOUS
      <3>2. conn[c].state \in {"handling", "writing"}
        BY <3>1 DEF StoreInv, Held
      <3>3. c \in Busy(k) /\ d \in Busy(k)
        BY <2>3, <3>1, <3>2 DEF Busy
      <3> QED
        BY <1>1, <2>1, <2>2, <3>1, <3>3 DEF StoreInv, OneAnswer
    <2> QED
      BY <1>4, <2>2, <2>3, <2>4, <2>5
  <1>11. HandledHolds'
    BY <1>8 DEF HandledHolds
  <1>12. NodesThere'
    BY <1>4 DEF StoreInv, NodesThere, Untouched
  <1>13. EndsClosed' /\ (nodes <= requests)'
    BY <1>5 DEF StoreInv, EndsClosed, Untouched
  <1> QED
    BY <1>6, <1>7, <1>9, <1>10, <1>11, <1>12, <1>13 DEF StoreInv

LEMMA NoneUnfinished ==
    ASSUME \A d \in Conn : conn'[d] = Closed
    PROVE  /\ \A k \in Cid : Busy(k)' = {} /\ Unfinished(k)' = {}
           /\ Held' /\ SafeErase' /\ OneAnswer' /\ HandledHolds' /\ EndsClosed'
  <1>1. \A k \in Cid : Busy(k)' = {} /\ Unfinished(k)' = {}
    BY ClosedConnection DEF Busy, Unfinished
  <1>2. OneAnswer'
    BY <1>1, ClosedConnection DEF OneAnswer
  <1>3. Held' /\ SafeErase' /\ HandledHolds' /\ EndsClosed'
    BY ClosedConnection DEF Held, SafeErase, Dangling, HandledHolds, EndsClosed
  <1> QED
    BY <1>1, <1>2, <1>3

LEMMA EndsHow ==
    ASSUME StoreInv, cb_sigterm \/ Killed
    PROVE  /\ Ends /\ arc' \in [Cid -> Session] /\ told' \in [Cid -> BOOLEAN]
           /\ \A k \in Cid : \/ arc'[k] = sess[k] /\ told'[k] = told[k]
                             \/ arc'[k] = arc[k] /\ ~told'[k]
  BY DEF StoreInv, TypeOK, cb_sigterm, Killed

LEMMA EndsStore ==
    ASSUME StoreInv, cb_sigterm \/ Killed
    PROVE  StoreInv'
  <1>0. /\ Ends /\ arc' \in [Cid -> Session] /\ told' \in [Cid -> BOOLEAN]
        /\ \A k \in Cid : arc'[k] \in {sess[k], arc[k]}
    BY EndsHow
  <1>1. NoSession \in Session
    BY UintAssumption DEF NoSession, Session
  <1>2. conn' \in [Conn -> Connection] /\ \A d \in Conn : conn'[d] = Closed
    BY <1>0, ClosedConnection DEF Ends
  <1>3. restarts' \in 0 .. MaxRestarts
    <2>1. restarts \in 0 .. MaxRestarts /\ MaxRestarts \in Nat
      BY BoundAssumption DEF StoreInv, TypeOK
    <2> QED
      BY <1>0, <2>1 DEF Ends
  <1>4. sess' \in [Cid -> Session] /\ up' = "down" /\ \A k \in Cid : sess'[k] = NoSession
    BY <1>0, <1>1 DEF Ends
  <1>5. TypeOK'
    BY <1>0, <1>2, <1>3, <1>4 DEF StoreInv, TypeOK, Ends, Connection, history
  <1>6. NodesThere'
    BY <1>0, <1>4 DEF StoreInv, NodesThere
  <1>7. (nodes <= requests)'
    BY <1>0 DEF StoreInv, Ends
  <1> QED
    BY <1>2, <1>5, <1>6, <1>7, NoneUnfinished DEF StoreInv

LEMMA RestoreStore ==
    ASSUME StoreInv, restore_stats
    PROVE  StoreInv'
  <1>1. \A d \in Conn : conn'[d] = Closed
    BY DEF StoreInv, EndsClosed, restore_stats
  <1>2. revived' \in [Cid -> BOOLEAN]
    BY DEF StoreInv, TypeOK, restore_stats
  <1>3. TypeOK'
    BY <1>2 DEF StoreInv, TypeOK, restore_stats
  <1>4. (nodes <= requests)' /\ NodesThere'
    BY DEF StoreInv, NodesThere, restore_stats
  <1> QED
    BY <1>1, <1>3, <1>4, NoneUnfinished DEF StoreInv

\* A completed request gets a session that has a list node, a new one if there is none.
RequestEffect(c, k) ==
    /\ Ready /\ up' = up /\ conn[c].state = "reading"
    /\ conn' \in [Conn -> Connection] /\ sess' \in [Cid -> Session]
    /\ \A d \in Conn : d # c => conn'[d] = conn[d]
    /\ conn'[c].state = "handling" /\ conn'[c].cid = k /\ conn'[c].out = "none"
    /\ conn'[c].node = sess'[k].node /\ sess'[k].node # 0
    /\ \A j \in Cid : j # k =>
          sess'[j] = sess[j] /\ overlapped'[j] = overlapped[j] /\ told'[j] = told[j]
    /\ sess'[k] = sess[k] \/ (sess'[k].steps = 0 /\ sess'[k].repeat = 0)
    /\ overlapped' \in [Cid -> BOOLEAN] /\ told' \in [Cid -> BOOLEAN]
    /\ overlapped[k] => overlapped'[k]
    /\ Unfinished(k) # {} => overlapped'[k]
    /\ ~told'[k]

LEMMA RequestHas ==
    ASSUME StoreInv, NEW c \in Conn, NEW k \in Cid, Request(c, k)
    PROVE  RequestEffect(c, k)
  <1>1. /\ conn \in [Conn -> Connection] /\ sess \in [Cid -> Session]
        /\ told \in [Cid -> BOOLEAN] /\ overlapped \in [Cid -> BOOLEAN] /\ nodes \in Nat
    <2>1. MaxRequests \in Nat /\ nodes \in 0 .. MaxRequests
      BY BoundAssumption DEF StoreInv, TypeOK
    <2>2. nodes \in Nat
      BY <2>1
    <2>3. overlapped \in [Cid -> BOOLEAN]
      BY DEF StoreInv, TypeOK
    <2> QED
      BY <2>2, <2>3 DEF StoreInv, TypeOK, Connection
  <1>2. nodes + 1 \in Nat /\ nodes + 1 # 0
    BY <1>1
  <1>3. /\ sess' \in [Cid -> Session] /\ sess'[k].node # 0
        /\ \A j \in Cid : j # k => sess'[j] = sess[j]
        /\ sess'[k] = sess[k] \/ (sess'[k].steps = 0 /\ sess'[k].repeat = 0)
    <2>1. CASE sess[k] = NoSession
      <3> DEFINE x == wcstat(nodes + 1)
      <3>1. x \in Session /\ x.node # 0 /\ x.steps = 0 /\ x.repeat = 0
        BY <1>2, FreshSession
      <3>2. sess' = [sess EXCEPT ![k] = x]
        BY <2>1 DEF Request
      <3> HIDE DEF x
      <3> QED
        BY <1>1, <3>1, <3>2
    <2>2. CASE sess[k] # NoSession
      <3>1. sess' = sess
        BY <2>2 DEF Request
      <3> QED
        BY <1>1, <2>2, <3>1 DEF StoreInv, NodesThere
    <2> QED
      BY <2>1, <2>2
  <1>4. sess'[k].node \in Nat
    BY <1>3 DEF Session
  <1> DEFINE x == [Closed EXCEPT !.state = "handling", !.cid = k, !.node = sess'[k].node]
  <1>5. /\ x \in Connection /\ x.state = "handling" /\ x.cid = k /\ x.node = sess'[k].node
        /\ x.out = "none"
    BY <1>4, ClosedConnection DEF Connection, Closed
  <1>6. conn' = [conn EXCEPT ![c] = x]
    BY DEF Request
  <1> HIDE DEF x
  <1>7. /\ conn' \in [Conn -> Connection] /\ conn'[c] = x
        /\ \A d \in Conn : d # c => conn'[d] = conn[d]
    BY <1>1, <1>5, <1>6
  <1>8. /\ told' \in [Cid -> BOOLEAN] /\ ~told'[k]
        /\ \A j \in Cid : j # k => told'[j] = told[j]
    BY <1>1 DEF Request
  <1>9. /\ overlapped' \in [Cid -> BOOLEAN]
        /\ \A j \in Cid : j # k => overlapped'[j] = overlapped[j]
        /\ (overlapped[k] => overlapped'[k]) /\ (Unfinished(k) # {} => overlapped'[k])
    <2> DEFINE u == Unfinished(k) # {}
    <2>1. u \in BOOLEAN
      OBVIOUS
    <2>2. overlapped' = [overlapped EXCEPT ![k] = overlapped[k] \/ u]
      BY DEF Request
    <2> HIDE DEF u
    <2>3. /\ overlapped' \in [Cid -> BOOLEAN]
          /\ \A j \in Cid : j # k => overlapped'[j] = overlapped[j]
          /\ overlapped'[k] = (overlapped[k] \/ u)
      BY <1>1, <2>1, <2>2
    <2> QED
      BY <2>3 DEF u
  <1>10. Ready /\ up' = up /\ conn[c].state = "reading"
    BY DEF Request
  <1> QED
    BY <1>3, <1>5, <1>7, <1>8, <1>9, <1>10 DEF RequestEffect

\* The requests of the clients after one was completed.
LEMMA RequestBusy ==
    ASSUME NEW c \in Conn, NEW k \in Cid, RequestEffect(c, k)
    PROVE  /\ \A j \in Cid : Busy(j) = Unfinished(j) /\ c \notin Busy(j)
           /\ \A j \in Cid : j # k => Busy(j)' = Busy(j) /\ Unfinished(j)' = Unfinished(j)
           /\ Busy(k)' = Busy(k) \union {c} /\ Unfinished(k)' = Unfinished(k)
  <1>1. /\ \A d \in Conn : conn[d].state # "handling"
        /\ conn[c].state = "reading" /\ conn'[c].state = "handling" /\ conn'[c].cid = k
        /\ \A d \in Conn : d # c => conn'[d] = conn[d]
    BY DEF RequestEffect, Ready
  <1> QED
    BY <1>1 DEF Busy, Unfinished

LEMMA RequestStore ==
    ASSUME StoreInv, NEW c \in Conn, NEW k \in Cid, Request(c, k)
    PROVE  StoreInv'
  <1>1. RequestEffect(c, k)
    BY RequestHas
  <1>2. /\ up' = up /\ nodes' \in {nodes, nodes + 1} /\ requests' = requests + 1
        /\ requests < MaxRequests /\ handled' = 0
        /\ UNCHANGED <<arc, restarts, revived, overran>>
    BY DEF Request
  <1>3. /\ nodes' \in 0 .. MaxRequests /\ requests' \in 0 .. MaxRequests /\ nodes' <= requests'
        /\ handled' \in 0 .. MaxCommands
    <2>1. MaxRequests \in Nat /\ nodes \in 0 .. MaxRequests /\ requests \in 0 .. MaxRequests
          /\ nodes <= requests /\ MaxCommands \in Nat
      BY BoundAssumption DEF StoreInv, TypeOK
    <2> QED
      BY <1>2, <2>1
  <1>4. TypeOK'
    BY <1>1, <1>2, <1>3 DEF StoreInv, TypeOK, RequestEffect, Connection
  <1>5. Held'
    BY <1>1 DEF StoreInv, Held, RequestEffect
  <1>6. \A j \in Cid : ~overlapped'[j] => ~overlapped[j]
    BY <1>1 DEF RequestEffect
  <1>7. OneAnswer'
    <2>1. ASSUME NEW j \in Cid, ~overlapped'[j]
          PROVE  \A d, e \in Busy(j)' : d = e
      <3>1. CASE j = k
        <4>1. Busy(k)' = {c}
          BY <1>1, <2>1, <3>1, RequestBusy DEF RequestEffect
        <4> QED
          BY <3>1, <4>1
      <3>2. CASE j # k
        <4>1. Busy(j)' = Busy(j)
          BY <1>1, <3>2, RequestBusy
        <4> QED
          BY <1>6, <2>1, <4>1 DEF StoreInv, OneAnswer
      <3> QED
        BY <3>1, <3>2
    <2>2. \A d \in Conn : conn'[d].state = "handling" => d = c
      BY <1>1 DEF RequestEffect, Ready
    <2> QED
      BY <2>1, <2>2 DEF OneAnswer
  <1>8. SafeErase'
    <2>1. SUFFICES ASSUME NEW d \in Conn, conn'[d].node # 0, ~overlapped'[conn'[d].cid]
                   PROVE  sess'[conn'[d].cid].node = conn'[d].node
      BY DEF SafeErase, Dangling
    <2>2. CASE d = c
      BY <1>1, <2>2 DEF RequestEffect
    <2>3. CASE d # c
      <3> DEFINE j == conn[d].cid
      <3>1. conn'[d] = conn[d] /\ j \in Cid
        BY <1>1, <2>3 DEF StoreInv, TypeOK, RequestEffect
      <3>2. d \in Busy(j)
        BY <2>1, <3>1 DEF StoreInv, Held, Busy
      <3>3. ~overlapped[j] /\ ~overlapped'[j]
        BY <1>6, <2>1, <3>1
      <3>4. j # k
        BY <1>1, <3>2, <3>3, RequestBusy DEF RequestEffect
      <3>5. sess'[j] = sess[j]
        BY <1>1, <3>1, <3>4 DEF RequestEffect
      <3>6. sess[j].node = conn[d].node
        BY <2>1, <3>1, <3>3 DEF StoreInv, SafeErase, Dangling
      <3> QED
        BY <3>1, <3>5, <3>6
    <2> QED
      BY <2>2, <2>3
  <1>9. HandledHolds'
    BY <1>1 DEF HandledHolds, RequestEffect, Ready
  <1>10. NodesThere'
    <2>1. \A j \in Cid : j = k \/ sess'[j] = sess[j]
      BY <1>1 DEF RequestEffect
    <2> QED
      BY <1>1, <1>2, <2>1 DEF StoreInv, NodesThere, RequestEffect
  <1>11. EndsClosed'
    BY <1>1 DEF EndsClosed, RequestEffect, Ready
  <1> QED
    BY <1>3, <1>4, <1>5, <1>7, <1>8, <1>9, <1>10, <1>11 DEF StoreInv

\* What a command, or the end of the request, does with the result r: the request goes
\* on, or its connection is closed without an answer, or the answer is to be sent.
Continues(c, r) ==
    /\ ~r.err /\ handled' > 0
    /\ conn'[c].state = "handling" /\ conn'[c].node = conn[c].node /\ conn'[c].out = r.out
    /\ sess'[conn[c].cid] = r.s

Leaves(c, r) ==
    /\ conn'[c] = Closed
    /\ sess'[conn[c].cid] = IF Keeps(r) THEN NoSession ELSE r.s

Answers(c, r) ==
    /\ conn'[c].state = "writing"
    /\ conn'[c].node = IF Keeps(r) THEN conn[c].node ELSE 0
    /\ conn'[c].out = IF r.err THEN "501" ELSE r.out
    /\ sess'[conn[c].cid] = r.s

HandlerEffect(c, r) ==
    /\ conn[c].state = "handling" /\ up' = up
    /\ UNCHANGED <<arc, nodes, requests, restarts, told, overlapped, revived>>
    /\ conn' \in [Conn -> Connection] /\ sess' \in [Cid -> Session]
    /\ \A d \in Conn : d # c => conn'[d] = conn[d]
    /\ \A j \in Cid : j # conn[c].cid => sess'[j] = sess[j] /\ overran'[j] = overran[j]
    /\ overran' \in [Cid -> BOOLEAN] /\ (overran[conn[c].cid] => overran'[conn[c].cid])
    /\ handled' \in 0 .. MaxCommands
    /\ conn'[c] = Closed \/ conn'[c].cid = conn[c].cid
    /\ Continues(c, r) \/ Leaves(c, r) \/ Answers(c, r)

\* The result comes from a command, or from those before it when the body is at its end.
ResultOf(c, r) ==
    LET s == sess[conn[c].cid]
        out == conn[c].out
    IN  \/ r = Result(s, out, FALSE)
        \/ \E cmd \in Commands :
              /\ r = Command(s, out, cmd)
              /\ Overruns(s, out, cmd) => overran'[conn[c].cid]

LEMMA RespondHas ==
    ASSUME StoreInv, NEW c \in Conn, conn[c].state = "handling",
           NEW r \in Results(sess[conn[c].cid].node), Respond(c, r)
    PROVE  /\ conn' \in [Conn -> Connection] /\ sess' \in [Cid -> Session]
           /\ \A d \in Conn : d # c => conn'[d] = conn[d]
           /\ \A j \in Cid : j # conn[c].cid => sess'[j] = sess[j]
           /\ conn'[c] = Closed \/ conn'[c].cid = conn[c].cid
           /\ Leaves(c, r) \/ Answers(c, r)
  <1> DEFINE k == conn[c].cid
             answer == IF r.err THEN "501" ELSE r.out
             held == IF Keeps(r) THEN conn[c].node ELSE 0
             kept == IF Keeps(r) THEN NoSession ELSE r.s
             x == [state |-> "writing", cid |-> k, node |-> held, out |-> answer,
                   left |-> 2, actime |-> "now"]
  <1>1. conn \in [Conn -> Connection] /\ sess \in [Cid -> Session] /\ conn[c] \in Connection /\ k \in Cid
    BY DEF StoreInv, TypeOK, Connection
  <1>2. r.s \in Session /\ r.out \in {"none", "step", "FIN"} /\ NoSession \in Session
    BY UintAssumption DEF Results, NoSession, Session
  <1>3. answer \in {"none", "step", "FIN", "501"} /\ kept \in Session /\ held \in Nat
    BY <1>1, <1>2 DEF Connection
  <1>4. IF answer = "none"
        THEN sess' = [sess EXCEPT ![k] = kept] /\ conn' = [conn EXCEPT ![c] = Closed]
        ELSE sess' = [sess EXCEPT ![k] = r.s] /\ conn' = [conn EXCEPT ![c] = x]
    BY DEF Respond
  <1>5. kept = (IF Keeps(r) THEN NoSession ELSE r.s) /\ held = (IF Keeps(r) THEN conn[c].node ELSE 0)
        /\ answer = IF r.err THEN "501" ELSE r.out
    OBVIOUS
  <1> HIDE DEF answer, held, kept
  <1>6. x \in Connection /\ x.state = "writing" /\ x.cid = k /\ x.node = held /\ x.out = answer
    <2>1. 2 \in 0 .. 2
      OBVIOUS
    <2> QED
      BY <1>1, <1>3, <2>1 DEF Connection
  <1> HIDE DEF x
  <1>7. CASE answer = "none"
    <2>1. sess' = [sess EXCEPT ![k] = kept] /\ conn' = [conn EXCEPT ![c] = Closed]
      BY <1>4, <1>7
    <2> QED
      BY <1>1, <1>3, <1>5, <2>1, ClosedConnection DEF Leaves
  <1>8. CASE answer # "none"
    <2>1. sess' = [sess EXCEPT ![k] = r.s] /\ conn' = [conn EXCEPT ![c] = x]
      BY <1>4, <1>8
    <2> QED
      BY <1>1, <1>2, <1>5, <1>6, <2>1 DEF Answers
  <1> QED
    BY <1>7, <1>8

LEMMA HandlerHas ==
    ASSUME StoreInv, NEW c \in Conn, Handler(c)
    PROVE  \E r \in Results(sess[conn[c].cid].node) : HandlerEffect(c, r) /\ ResultOf(c, r)
  <1> DEFINE k == conn[c].cid
             s == sess[k]
             out == conn[c].out
  <1>1. /\ conn \in [Conn -> Connection] /\ sess \in [Cid -> Session] /\ conn[c] \in Connection
        /\ k \in Cid /\ s \in Session /\ overran \in [Cid -> BOOLEAN]
        /\ handled \in 0 .. MaxCommands /\ MaxCommands \in Nat
    <2>1. overran \in [Cid -> BOOLEAN] /\ handled \in 0 .. MaxCommands
      BY DEF StoreInv, TypeOK
    <2> QED
      BY <2>1, BoundAssumption DEF StoreInv, TypeOK, Connection
  <1>2. conn[c].state = "handling"
    BY DEF Handler, NextCommand, LastCommand
  <1>3. out \in {"none", "step", "FIN"}
    BY <1>2 DEF StoreInv, HandledHolds
  <1>4. CASE LastCommand(c)
    <2> DEFINE r == Result(s, out, FALSE)
    <2>1. r \in Results(s.node)
      BY <1>1, <1>3 DEF Result, Results
    <2>2. /\ Respond(c, r) /\ UNCHANGED <<up, told, overlapped>> /\ Unbounded
      BY <1>4 DEF LastCommand
    <2> HIDE DEF r
    <2>3. HandlerEffect(c, r)
      BY <1>1, <1>2, <2>1, <2>2, RespondHas DEF HandlerEffect, Unbounded
    <2>4. ResultOf(c, r)
      BY DEF ResultOf, r
    <2> QED
      BY <2>1, <2>3, <2>4
  <1>5. ASSUME NEW cmd \in Commands, NextCommand(c, cmd)
        PROVE  \E r \in Results(s.node) : HandlerEffect(c, r) /\ ResultOf(c, r)
    <2> DEFINE r == Command(s, out, cmd)
               o == Overruns(s, out, cmd)
    <2>1. r \in Results(s.node)
      BY <1>1, <1>3, CommandResult
    <2>2. r.s \in Session /\ r.out \in {"none", "step", "FIN"}
      BY <2>1 DEF Results
    <2>3. /\ handled < MaxCommands /\ handled' = handled + 1
          /\ overran' = [overran EXCEPT ![k] = @ \/ o]
          /\ IF r.err THEN Respond(c, r)
             ELSE sess' = [sess EXCEPT ![k] = r.s] /\ conn' = [conn EXCEPT ![c].out = r.out]
          /\ UNCHANGED <<up, arc, nodes, requests, restarts, told, overlapped, revived>>
      BY <1>5 DEF NextCommand
    <2>4. o \in BOOLEAN
      BY DEF Overruns
    <2>5. ResultOf(c, r) <=> (r = Result(s, out, FALSE) \/ \E d \in Commands :
                                 r = Command(s, out, d) /\ (Overruns(s, out, d) => overran'[k]))
      BY DEF ResultOf
    <2>6. o => overran'[k]
      <3> HIDE DEF o, r
      <3> QED
        BY <1>1, <2>3, <2>4
    <2>7. ResultOf(c, r)
      BY <2>5, <2>6
    <2> HIDE DEF o, r
    <2>8. /\ overran' \in [Cid -> BOOLEAN] /\ (overran[k] => overran'[k])
          /\ \A j \in Cid : j # k => overran'[j] = overran[j]
      BY <1>1, <2>3, <2>4
    <2>9. handled' \in 0 .. MaxCommands /\ handled' > 0
      BY <1>1, <2>3
    <2>10. CASE r.err
      BY <1>2, <2>1, <2>3, <2>7, <2>8, <2>9, <2>10, RespondHas DEF HandlerEffect
    <2>11. CASE ~r.err
      <3> DEFINE x == [conn[c] EXCEPT !.out = r.out]
      <3>1. x \in Connection /\ x.state = "handling" /\ x.cid = k /\ x.node = conn[c].node /\ x.out = r.out
        BY <1>1, <1>2, <2>2 DEF Connection
      <3>2. conn' = [conn EXCEPT ![c] = x] /\ sess' = [sess EXCEPT ![k] = r.s]
        BY <2>3, <2>11
      <3> HIDE DEF x
      <3>3. /\ conn' \in [Conn -> Connection] /\ conn'[c] = x
            /\ \A d \in Conn : d # c => conn'[d] = conn[d]
        BY <1>1, <3>1, <3>2
      <3>4. /\ sess' \in [Cid -> Session] /\ sess'[k] = r.s
            /\ \A j \in Cid : j # k => sess'[j] = sess[j]
        BY <1>1, <2>2, <3>2
      <3>5. Continues(c, r)
        BY <2>9, <2>11, <3>1, <3>3, <3>4 DEF Continues
      <3>6. HandlerEffect(c, r)
        BY <1>2, <2>3, <2>8, <2>9, <3>1, <3>3, <3>4, <3>5 DEF HandlerEffect
      <3> QED
        BY <2>1, <2>7, <3>6
    <2> QED
      BY <2>10, <2>11
  <1> QED
    BY <1>4, <1>5 DEF Handler

\* The requests of the clients after a step of the handler.
LEMMA HandlerBusy ==
    ASSUME StoreInv, NEW c \in Conn, NEW k \in Cid, k = conn[c].cid, NEW r, HandlerEffect(c, r)
    PROVE  /\ \A j \in Cid : j # k =>
                 Busy(j)' = Busy(j) /\ Unfinished(j)' = Unfinished(j) /\ c \notin Busy(j)
           /\ c \in Busy(k)
           /\ \A j \in Cid : Busy(j)' \subseteq Busy(j)
           /\ conn'[c] # Closed => c \in Busy(k)'
           /\ \A j \in Cid : Unfinished(j)' \subseteq Unfinished(j) \union {c}
  <1>1. /\ conn[c].state = "handling"
        /\ \A d \in Conn : d # c => conn'[d] = conn[d]
        /\ \/ conn'[c] = Closed
           \/ conn'[c].cid = k /\ conn'[c].state \in {"handling", "writing"}
    <2>1. conn'[c] = Closed \/ conn'[c].state \in {"handling", "writing"}
      BY DEF HandlerEffect, Continues, Leaves, Answers
    <2> QED
      BY <2>1 DEF StoreInv, TypeOK, HandlerEffect
  <1> QED
    BY <1>1, ClosedConnection DEF Busy, Unfinished

LEMMA HandlerStore ==
    ASSUME StoreInv, NEW c \in Conn, NEW k \in Cid, k = conn[c].cid,
           NEW r \in Results(sess[k].node), HandlerEffect(c, r)
    PROVE  StoreInv'
  <1>1. /\ conn[c].state = "handling" /\ up = "up"
        /\ conn[c].node # 0 /\ sess[k].node = conn[c].node
    BY DEF StoreInv, TypeOK, HandledHolds, HandlerEffect
  <1>2. r.s.node = conn[c].node /\ r.s.node # 0 /\ r.out \in {"none", "step", "FIN"}
    BY <1>1 DEF Results
  <1>3. TypeOK'
    BY DEF StoreInv, TypeOK, HandlerEffect, Connection
  <1>4. NoSession.node = 0
    BY DEF NoSession
  <1>5. \/ sess'[k] = NoSession /\ conn'[c] = Closed
        \/ /\ sess'[k] = r.s
           /\ conn'[c].node = conn[c].node \/ conn'[c].node = 0
           /\ conn'[c].state \in {"handling", "writing"} \/ conn'[c].node = 0
           /\ conn'[c].state = "handling" => conn'[c].node = conn[c].node /\ conn'[c].out = r.out
    BY <1>1, ClosedConnection DEF HandlerEffect, Continues, Leaves, Answers
  <1>6. /\ \A d \in Conn : d # c => conn'[d] = conn[d]
        /\ \A j \in Cid : j # k => sess'[j] = sess[j]
        /\ conn'[c] = Closed \/ conn'[c].cid = k
    BY DEF HandlerEffect
  <1>7. Held'
    BY <1>5, <1>6, ClosedConnection DEF StoreInv, Held
  <1>8. \A d \in Conn : d # c => conn[d].state # "handling"
    BY <1>1 DEF StoreInv, OneAnswer
  <1>9. OneAnswer'
    <2>1. \A j \in Cid : Busy(j)' \subseteq Busy(j)
      BY HandlerBusy
    <2>2. \A d \in Conn : conn'[d].state = "handling" => d = c
      BY <1>6, <1>8
    <2>3. UNCHANGED overlapped
      BY DEF HandlerEffect
    <2> QED
      BY <2>1, <2>2, <2>3 DEF StoreInv, OneAnswer
  <1>10. SafeErase'
    <2>1. SUFFICES ASSUME NEW d \in Conn, conn'[d].node # 0, ~overlapped[conn'[d].cid]
                   PROVE  sess'[conn'[d].cid].node = conn'[d].node
      BY DEF SafeErase, Dangling, HandlerEffect
    <2>2. CASE d = c
      BY <1>2, <1>5, <1>6, <2>1, <2>2, ClosedConnection
    <2>3. CASE d # c
      <3>1. conn'[d] = conn[d] /\ conn[d].cid \in Cid
        BY <1>6, <2>3 DEF StoreInv, TypeOK
      <3>2. d \in Busy(conn[d].cid)
        BY <2>1, <3>1 DEF StoreInv, Held, Busy
      <3>3. conn[d].cid # k
        BY <1>1, <2>1, <2>3, <3>1, <3>2, HandlerBusy DEF StoreInv, OneAnswer
      <3>4. sess'[conn[d].cid] = sess[conn[d].cid]
        BY <1>6, <3>1, <3>3
      <3> QED
        BY <2>1, <3>1, <3>4 DEF StoreInv, SafeErase, Dangling
    <2> QED
      BY <2>2, <2>3
  <1>11. HandledHolds'
    <2>1. SUFFICES ASSUME NEW d \in Conn, conn'[d].state = "handling"
                   PROVE  /\ up' = "up" /\ conn'[d].out \in {"none", "step", "FIN"}
                          /\ conn'[d].node # 0 /\ sess'[conn'[d].cid].node = conn'[d].node
      BY DEF HandledHolds
    <2>2. d = c
      BY <1>6, <1>8, <2>1
    <2>3. /\ sess'[k] = r.s /\ conn'[c].cid = k
          /\ conn'[c].node = conn[c].node /\ conn'[c].out = r.out
      BY <1>5, <1>6, <2>1, <2>2, ClosedConnection
    <2>4. up' = up
      BY DEF HandlerEffect
    <2> QED
      BY <1>1, <1>2, <2>2, <2>3, <2>4
  <1>12. NodesThere'
    <2>1. UNCHANGED arc
      BY DEF HandlerEffect
    <2>2. \A j \in Cid : j # k => sess'[j] = sess[j]
      BY <1>6
    <2>3. sess'[k] # NoSession => sess'[k].node # 0
      BY <1>2, <1>5
    <2> QED
      BY <2>1, <2>2, <2>3 DEF StoreInv, NodesThere
  <1>13. EndsClosed' /\ (nodes <= requests)'
    BY <1>1 DEF StoreInv, EndsClosed, HandlerEffect
  <1> QED
    BY <1>3, <1>7, <1>9, <1>10, <1>11, <1>12, <1>13 DEF StoreInv

\* The steps on one connection that leave the requests under way as they are.
LEMMA TouchStore ==
    ASSUME StoreInv, NEW c \in Conn,
           cb_accept(c) \/ ReadSome(c) \/ SendSome(c) \/ TimePasses(c)
    PROVE  /\ up = "up" /\ SameAnswers /\ conn' \in [Conn -> Connection]
           /\ UNCHANGED <<up, sess, told>> /\ Untouched
  <1>1. TypeOK /\ conn[c] \in Connection
    BY DEF StoreInv, TypeOK, Connection
  <1>2. CASE cb_accept(c)
    <2>1. PICK t \in {"long ago", "in the future"} :
             conn' = [conn EXCEPT ![c] = [Closed EXCEPT !.state = "reading", !.actime = t]]
      BY <1>2 DEF cb_accept
    <2> DEFINE x == [Closed EXCEPT !.state = "reading", !.actime = t]
    <2>2. x \in Connection /\ x.state = "reading" /\ x.node = 0
      BY ClosedConnection DEF Connection
    <2> HIDE DEF x
    <2>3. conn[c].state = "closed" /\ conn[c].node = 0
      BY <1>2 DEF cb_accept, StoreInv, Held
    <2>4. conn' = [conn EXCEPT ![c] = x]
      BY <2>1 DEF x
    <2>5. conn' \in [Conn -> Connection] /\ SameAnswers
      BY <1>1, <2>2, <2>3, <2>4, TouchSame
    <2> QED
      BY <1>2, <2>5 DEF cb_accept, Unbounded, Untouched, Ready
  <1>3. CASE ReadSome(c)
    <2> DEFINE x == [conn[c] EXCEPT !.actime = "now"]
    <2>1. x \in Connection /\ x.state = conn[c].state /\ x.node = conn[c].node
          /\ x.cid = conn[c].cid /\ x.out = conn[c].out
      BY <1>1 DEF Connection
    <2>2. conn' = [conn EXCEPT ![c] = x]
      BY <1>3 DEF ReadSome
    <2> HIDE DEF x
    <2>3. conn' \in [Conn -> Connection] /\ SameAnswers
      BY <1>1, <2>1, <2>2, TouchSame
    <2> QED
      BY <1>3, <2>3 DEF ReadSome, Unbounded, Untouched, Ready
  <1>4. CASE SendSome(c)
    <2> DEFINE l == conn[c].left - 1
               x == [conn[c] EXCEPT !.left = l, !.actime = "now"]
    <2>1. l \in 0 .. 2
      <3> DEFINE old == conn[c].left
      <3>1. old \in 0 .. 2 /\ old > 1
        BY <1>1, <1>4 DEF SendSome, Connection
      <3> HIDE DEF old
      <3>2. old - 1 \in 0 .. 2
        BY <3>1
      <3> QED
        BY <3>2 DEF old
    <2>2. conn' = [conn EXCEPT ![c] = x]
      BY <1>4 DEF SendSome
    <2> HIDE DEF l
    <2>3. x \in Connection /\ x.state = conn[c].state /\ x.node = conn[c].node
          /\ x.cid = conn[c].cid /\ x.out = conn[c].out
      BY <1>1, <2>1 DEF Connection
    <2> HIDE DEF x
    <2>4. conn' \in [Conn -> Connection] /\ SameAnswers
      BY <1>1, <2>2, <2>3, TouchSame
    <2> QED
      BY <1>4, <2>4 DEF SendSome, Unbounded, Untouched, Ready
  <1>5. CASE TimePasses(c)
    <2> DEFINE x == [conn[c] EXCEPT !.actime = "long ago"]
    <2>1. x \in Connection /\ x.state = conn[c].state /\ x.node = conn[c].node
          /\ x.cid = conn[c].cid /\ x.out = conn[c].out
      BY <1>1 DEF Connection
    <2>2. conn' = [conn EXCEPT ![c] = x]
      BY <1>5 DEF TimePasses
    <2> HIDE DEF x
    <2>3. conn' \in [Conn -> Connection] /\ SameAnswers
      BY <1>1, <2>1, <2>2, TouchSame
    <2> QED
      BY <1>5, <2>3 DEF TimePasses, Unbounded, Untouched, Ready
  <1> QED
    BY <1>2, <1>3, <1>4, <1>5

\* The steps that delete a connection.
LEMMA DeletesHow ==
    ASSUME StoreInv, NEW c \in Conn,
           ReadFail(c) \/ SendRest(c) \/ SendFail(c) \/ cb_timer(c)
    PROVE  /\ Ready /\ Delete(c) /\ Untouched
           /\ told' \in [Cid -> BOOLEAN]
           /\ \A j \in Cid : told'[j] => told[j] \/ (/\ conn[c].state = "writing"
                                                    /\ conn[c].cid = j
                                                    /\ conn[c].out = "step")
  <1>1. told \in [Cid -> BOOLEAN]
    BY DEF StoreInv, TypeOK
  <1>2. CASE SendRest(c)
    <2> DEFINE o == conn[c].out = "step"
               k == conn[c].cid
    <2>1. told' = [told EXCEPT ![k] = told[k] \/ o] /\ o \in BOOLEAN
      BY <1>2 DEF SendRest
    <2>2. conn[c].state = "writing"
      BY <1>2 DEF SendRest
    <2> HIDE DEF o, k
    <2>3. told' \in [Cid -> BOOLEAN] /\ \A j \in Cid : told'[j] => told[j] \/ (j = k /\ o)
      BY <1>1, <2>1
    <2> QED
      BY <1>2, <2>2, <2>3 DEF SendRest, Unbounded, Untouched, o, k
  <1>3. CASE ReadFail(c) \/ SendFail(c) \/ cb_timer(c)
    BY <1>1, <1>3 DEF ReadFail, SendFail, cb_timer, Unbounded, Untouched
  <1> QED
    BY <1>2, <1>3

LEMMA StoreStep ==
    ASSUME StoreInv, [Next]_vars
    PROVE  StoreInv'
  <1>1. ASSUME NEW c \in Conn, cb_accept(c) \/ ReadSome(c) \/ SendSome(c) \/ TimePasses(c)
        PROVE  StoreInv'
    BY <1>1, TouchStore, SameAnswersStore
  <1>2. ASSUME NEW c \in Conn, ReadFail(c) \/ SendRest(c) \/ SendFail(c) \/ cb_timer(c)
        PROVE  StoreInv'
    BY <1>2, DeletesHow, DeleteStore
  <1>3. ASSUME NEW c \in Conn, NEW k \in Cid, Request(c, k)
        PROVE  StoreInv'
    BY <1>3, RequestStore
  <1>4. ASSUME NEW c \in Conn, Handler(c)
        PROVE  StoreInv'
    <2>1. PICK k \in Cid : k = conn[c].cid
      BY DEF StoreInv, TypeOK
    <2>2. PICK r \in Results(sess[k].node) : HandlerEffect(c, r)
      BY <1>4, <2>1, HandlerHas
    <2> QED
      BY <2>1, <2>2, HandlerStore
  <1>5. CASE cb_sigterm \/ Killed
    BY <1>5, EndsStore
  <1>6. CASE restore_stats
    BY <1>6, RestoreStore
  <1>7. CASE UNCHANGED vars
    <2>1. TypeOK'
      BY <1>7 DEF vars, history, StoreInv, TypeOK
    <2>2. SafeErase' /\ (nodes <= requests)' /\ NodesThere' /\ Held' /\ HandledHolds' /\ EndsClosed'
      BY <1>7 DEF vars, history, StoreInv, SafeErase, Dangling, NodesThere, Held, HandledHolds, EndsClosed
    <2>3. OneAnswer'
      <3>1. \A k \in Cid : Busy(k)' = Busy(k)
        BY <1>7 DEF vars, Busy
      <3> QED
        BY <1>7, <3>1 DEF vars, history, StoreInv, OneAnswer
    <2> QED
      BY <2>1, <2>2, <2>3 DEF StoreInv
  <1> QED
    BY <1>1, <1>2, <1>3, <1>4, <1>5, <1>6, <1>7 DEF Next, Stopped

LEMMA StoreInit ==
    ASSUME Init
    PROVE  StoreInv
  <1>1. NoSession \in Session
    BY UintAssumption DEF NoSession, Session
  <1>2. conn \in [Conn -> Connection] /\ \A d \in Conn : conn[d] = Closed
    BY ClosedConnection DEF Init
  <1>3. MaxRequests \in Nat /\ MaxRestarts \in Nat /\ MaxCommands \in Nat
    BY BoundAssumption
  <1>4. nodes \in 0 .. MaxRequests /\ requests \in 0 .. MaxRequests
        /\ restarts \in 0 .. MaxRestarts /\ nodes <= requests /\ handled \in 0 .. MaxCommands
    BY <1>3 DEF Init
  <1>5. TypeOK
    BY <1>1, <1>2, <1>4 DEF Init, TypeOK, Connection
  <1>6. Held /\ SafeErase /\ HandledHolds /\ EndsClosed /\ NodesThere
    BY <1>2, ClosedConnection DEF Init, Held, SafeErase, HandledHolds, EndsClosed, Dangling, NodesThere
  <1>7. OneAnswer
    <2>1. \A k \in Cid : Busy(k) = {}
      BY <1>2, ClosedConnection DEF Busy
    <2> QED
      BY <1>2, <2>1, ClosedConnection DEF OneAnswer
  <1> QED
    BY <1>4, <1>5, <1>6, <1>7 DEF StoreInv

\* The iterator a connection keeps for its destructor (~wcscoped) points to its
\* session as long as the client waits for its answers, whatever number of commands
\* a request has, whatever fails and however often the process ends.
THEOREM NoStaleIterator == Spec => [](TypeOK /\ SafeErase)
  <1>1. Spec => []StoreInv
    BY StoreInit, StoreStep, PTL DEF Spec
  <1>2. StoreInv => TypeOK /\ SafeErase
    BY DEF StoreInv
  <1> QED
    BY <1>1, <1>2, PTL

-----------------------------------------------------------------------------
(* Clients that wait for the answer and end their request with the command *)
(* that ends the script                                                    *)

Steady(k) == ~overlapped[k] /\ ~revived[k] /\ ~overran[k]

\* No repeat count was decremented below zero.
Counted ==
    \A k \in Cid : Steady(k) => sess[k].repeat <= 255 /\ arc[k].repeat <= 255

\* A script that is through is being erased by the connection of its last answer.
ThroughIsHeld ==
    \A k \in Cid : Steady(k) /\ sess[k].steps > 0 /\ sess[k].repeat = 0 =>
        \E c \in Busy(k) : conn[c].node # 0

\* While a request is handled, its session goes on with the answer made so far.
HandledGoesOn ==
    \A c \in Conn : conn[c].state = "handling" /\ Steady(conn[c].cid) =>
        /\ GoesOn(sess[conn[c].cid], conn[c].out)
        /\ Fresh(handled, sess[conn[c].cid], conn[c].out)

\* The session of a client that is told its next step is kept by that answer.
StepGoesOn ==
    \A k \in Cid : Steady(k) => \A c \in Unfinished(k) :
        conn[c].out = "step" => conn[c].node = 0 /\ sess[k].steps > 0

\* Told its next step, a client has its session and no request under way.
ToldHasIt ==
    \A k \in Cid : Steady(k) /\ told[k] =>
        /\ Busy(k) = {}
        /\ up = "up" => sess[k].steps > 0
        /\ up = "down" => arc[k].steps > 0

ScriptInv ==
    StoreInv /\ Counted /\ ThroughIsHeld /\ HandledGoesOn /\ StepGoesOn /\ ToldHasIt

LEMMA WritesBusy == \A k \in Cid : Unfinished(k) \subseteq Busy(k)
  BY DEF Unfinished, Busy

LEMMA SameAnswersScript ==
    ASSUME ScriptInv, up = "up", SameAnswers, conn' \in [Conn -> Connection],
           UNCHANGED <<up, sess, told>>, Untouched
    PROVE  ScriptInv'
  <1>1. StoreInv' /\ \A k \in Cid : Busy(k)' = Busy(k) /\ Unfinished(k)' = Unfinished(k)
    BY SameAnswersStore DEF ScriptInv
  <1>2. \A k \in Cid : Steady(k)' <=> Steady(k)
    BY DEF Steady, Untouched
  <1>3. \A k \in Cid : \A c \in Busy(k) :
            conn'[c].node = conn[c].node /\ conn'[c].out = conn[c].out
    BY DEF SameAnswers, Busy
  <1>4. Counted'
    BY <1>2 DEF ScriptInv, Counted, Untouched
  <1>5. ThroughIsHeld'
    BY <1>1, <1>2, <1>3 DEF ScriptInv, ThroughIsHeld
  <1>6. HandledGoesOn'
    <2>1. SUFFICES ASSUME NEW c \in Conn, NEW k, k = conn'[c].cid,
                          conn'[c].state = "handling", Steady(k)'
                   PROVE  /\ GoesOn(sess'[k], conn'[c].out)
                          /\ Fresh(handled', sess'[k], conn'[c].out)
      BY DEF HandledGoesOn, GoesOn, Fresh
    <2>2. conn[c].state = "handling" /\ k = conn[c].cid /\ conn'[c].out = conn[c].out
      BY <2>1 DEF SameAnswers
    <2>3. k \in Cid
      BY <2>2 DEF ScriptInv, StoreInv, TypeOK
    <2>4. Steady(k)
      BY <1>2, <2>1, <2>3
    <2> QED
      BY <2>2, <2>4 DEF ScriptInv, HandledGoesOn, Untouched
  <1>7. StepGoesOn'
    BY <1>1, <1>2, <1>3, WritesBusy DEF ScriptInv, StepGoesOn
  <1>8. ToldHasIt'
    BY <1>1, <1>2 DEF ScriptInv, ToldHasIt
  <1> QED
    BY <1>1, <1>4, <1>5, <1>6, <1>7, <1>8 DEF ScriptInv

LEMMA DeleteScript ==
    ASSUME ScriptInv, NEW c \in Conn, Ready, Delete(c), Untouched, told' \in [Cid -> BOOLEAN],
           \A j \in Cid : told'[j] => told[j] \/ (/\ conn[c].state = "writing"
                                                 /\ conn[c].cid = j
                                                 /\ conn[c].out = "step")
    PROVE  ScriptInv'
  <1> DEFINE k == conn[c].cid
  <1>1. StoreInv /\ StoreInv'
    BY DeleteStore DEF ScriptInv
  <1>2. conn \in [Conn -> Connection] /\ sess \in [Cid -> Session] /\ k \in Cid
    BY <1>1 DEF StoreInv, TypeOK, Connection
  <1>3. /\ conn'[c] = Closed
        /\ \A d \in Conn : d # c => conn'[d] = conn[d]
    BY <1>2, ClosedConnection DEF Delete
  <1>4. \A j \in Cid : sess'[j] = IF j = k /\ conn[c].node # 0 THEN NoSession ELSE sess[j]
    BY <1>2 DEF Delete, Erased
  <1>5. NoSession.steps = 0 /\ NoSession.repeat = 0
    BY DEF NoSession
  <1>6. \A j \in Cid : Unfinished(j)' = Unfinished(j) \ {c} /\ Busy(j)' = Busy(j) \ {c}
    BY <1>3, ClosedConnection DEF Unfinished, Busy
  <1>7. \A j \in Cid : (Steady(j)' <=> Steady(j)) /\ arc'[j] = arc[j]
    BY DEF Steady, Untouched
  <1>8. conn[c].node # 0 => c \in Busy(k)
    BY <1>1 DEF StoreInv, Held, Busy
  <1>9. \A j \in Cid : Steady(j) => \A d, e \in Busy(j) : d = e
    BY <1>1 DEF StoreInv, OneAnswer, Steady
  <1>10. up' \in {"up", "ub"} /\ up = "up"
    BY DEF Delete, Ready
  <1>11. Counted'
    <2>1. SUFFICES ASSUME NEW j \in Cid, Steady(j)
                   PROVE  sess'[j].repeat <= 255 /\ arc'[j].repeat <= 255
      BY <1>7 DEF Counted
    <2>2. sess[j].repeat <= 255 /\ arc[j].repeat <= 255
      BY <2>1 DEF ScriptInv, Counted
    <2>3. sess'[j] = NoSession \/ sess'[j] = sess[j]
      BY <1>4
    <2>4. sess'[j].repeat <= 255
      BY <1>5, <2>2, <2>3
    <2> QED
      BY <1>7, <2>2, <2>4
  <1>12. ThroughIsHeld'
    <2>1. SUFFICES ASSUME NEW j \in Cid, Steady(j), sess'[j].steps > 0, sess'[j].repeat = 0
                   PROVE  \E d \in Busy(j)' : conn'[d].node # 0
      BY <1>7 DEF ThroughIsHeld
    <2>2. sess'[j] # NoSession
      BY <1>5, <2>1
    <2>3. sess'[j] = sess[j] /\ (j # k \/ conn[c].node = 0)
      BY <1>4, <2>2
    <2>4. PICK d \in Busy(j) : conn[d].node # 0
      BY <2>1, <2>3 DEF ScriptInv, ThroughIsHeld
    <2>5. d # c
      BY <2>3, <2>4 DEF Busy
    <2>6. d \in Busy(j)' /\ conn'[d].node # 0
      BY <1>3, <1>6, <2>4, <2>5 DEF Busy
    <2> QED
      BY <2>6
  <1>13. HandledGoesOn'
    BY <1>3, ClosedConnection DEF HandledGoesOn, Ready
  <1>14. StepGoesOn'
    <2>1. SUFFICES ASSUME NEW j \in Cid, Steady(j), NEW d \in Unfinished(j)', conn'[d].out = "step"
                   PROVE  conn'[d].node = 0 /\ sess'[j].steps > 0
      BY <1>7 DEF StepGoesOn
    <2>2. d \in Unfinished(j) /\ d \in Busy(j) /\ d # c /\ d \in Conn
      BY <1>6, <2>1 DEF Unfinished, Busy
    <2>3. conn'[d] = conn[d]
      BY <1>3, <2>2
    <2>4. conn[d].node = 0 /\ sess[j].steps > 0
      BY <2>1, <2>2, <2>3 DEF ScriptInv, StepGoesOn
    <2>5. sess'[j] = sess[j]
      BY <1>4, <1>8, <1>9, <2>1, <2>2
    <2> QED
      BY <2>3, <2>4, <2>5
  <1>15. ToldHasIt'
    <2>1. SUFFICES ASSUME NEW j \in Cid, Steady(j), told'[j]
                   PROVE  Busy(j)' = {} /\ sess'[j].steps > 0
      BY <1>7, <1>10 DEF ToldHasIt
    <2>2. CASE told[j]
      <3>1. Busy(j) = {} /\ sess[j].steps > 0
        BY <1>10, <2>1, <2>2 DEF ScriptInv, ToldHasIt
      <3>2. sess'[j] = sess[j]
        BY <1>4, <1>8, <3>1
      <3> QED
        BY <1>6, <3>1, <3>2
    <2>3. CASE conn[c].state = "writing" /\ k = j /\ conn[c].out = "step"
      <3>1. c \in Unfinished(j) /\ c \in Busy(j)
        BY <2>3 DEF Unfinished, Busy
      <3>2. Busy(j)' = {}
        BY <1>6, <1>9, <2>1, <3>1
      <3>3. conn[c].node = 0 /\ sess[j].steps > 0
        BY <2>1, <2>3, <3>1 DEF ScriptInv, StepGoesOn
      <3>4. sess'[j] = sess[j]
        BY <1>4, <3>3
      <3> QED
        BY <3>2, <3>3, <3>4
    <2> QED
      BY <2>1, <2>2, <2>3
  <1> QED
    BY <1>1, <1>11, <1>12, <1>13, <1>14, <1>15 DEF ScriptInv

LEMMA RequestScript ==
    ASSUME ScriptInv, NEW c \in Conn, NEW k \in Cid, Request(c, k)
    PROVE  ScriptInv'
  <1>1. StoreInv /\ StoreInv'
    BY RequestStore DEF ScriptInv
  <1>2. RequestEffect(c, k)
    BY <1>1, RequestHas
  <1>3. UNCHANGED <<up, arc, revived, overran>> /\ handled' = 0
    BY DEF Request
  <1>4. /\ \A d \in Conn : d # c => conn'[d] = conn[d]
        /\ conn'[c].state = "handling" /\ conn'[c].cid = k /\ conn'[c].out = "none"
        /\ conn'[c].node # 0
        /\ \A j \in Cid : j # k => sess'[j] = sess[j] /\ told'[j] = told[j]
        /\ sess'[k] = sess[k] \/ (sess'[k].steps = 0 /\ sess'[k].repeat = 0)
        /\ ~told'[k] /\ up = "up"
    BY <1>2 DEF RequestEffect, Ready
  <1>5. \A j \in Cid : Steady(j)' => Steady(j)
    BY <1>2, <1>3 DEF Steady, RequestEffect
  <1>6. /\ \A j \in Cid : j # k => Busy(j)' = Busy(j) /\ Unfinished(j)' = Unfinished(j)
        /\ Busy(k)' = Busy(k) \union {c} /\ Unfinished(k)' = Unfinished(k)
        /\ Busy(k) = Unfinished(k)
        /\ \A j \in Cid : c \notin Busy(j) /\ c \notin Unfinished(j)
    BY <1>2, RequestBusy
  <1>7. Steady(k)' => Unfinished(k) = {} /\ Busy(k) = {}
    BY <1>2, <1>6 DEF Steady, RequestEffect
  <1>8. \A j \in Cid : \A d \in Busy(j) \union Unfinished(j) : conn'[d] = conn[d]
    BY <1>4, <1>6 DEF Busy, Unfinished
  <1>9. Counted'
    <2>1. SUFFICES ASSUME NEW j \in Cid, Steady(j)'
                   PROVE  sess'[j].repeat <= 255 /\ arc'[j].repeat <= 255
      BY DEF Counted
    <2>2. sess[j].repeat <= 255 /\ arc'[j].repeat <= 255
      BY <1>3, <1>5, <2>1 DEF ScriptInv, Counted
    <2>3. sess'[j] = sess[j] \/ sess'[j].repeat = 0
      BY <1>4
    <2> QED
      BY <2>2, <2>3
  <1>10. ThroughIsHeld'
    <2>1. SUFFICES ASSUME NEW j \in Cid, Steady(j)', sess'[j].steps > 0, sess'[j].repeat = 0
                   PROVE  \E d \in Busy(j)' : conn'[d].node # 0
      BY DEF ThroughIsHeld
    <2>2. CASE j = k
      BY <1>4, <1>6, <2>2
    <2>3. CASE j # k
      <3>1. PICK d \in Busy(j) : conn[d].node # 0
        BY <1>4, <1>5, <2>1, <2>3 DEF ScriptInv, ThroughIsHeld
      <3> QED
        BY <1>6, <1>8, <2>3, <3>1
    <2> QED
      BY <2>2, <2>3
  <1>11. HandledGoesOn'
    <2>1. \A d \in Conn : conn'[d].state = "handling" => d = c
      BY <1>2, <1>4 DEF RequestEffect, Ready
    <2>2. ASSUME Steady(k)'
          PROVE  sess'[k].steps > 0 => sess'[k].repeat # 0
      <3>1. ~(sess[k].steps > 0 /\ sess[k].repeat = 0)
        BY <1>5, <1>7, <2>2 DEF ScriptInv, ThroughIsHeld
      <3>2. CASE sess'[k] = sess[k]
        BY <3>1, <3>2
      <3>3. CASE sess'[k].steps = 0
        BY <3>3
      <3> QED
        BY <1>4, <3>2, <3>3
    <2> QED
      BY <1>4, <2>1, <2>2 DEF HandledGoesOn, GoesOn, Fresh
  <1>12. StepGoesOn'
    <2>1. SUFFICES ASSUME NEW j \in Cid, Steady(j)', NEW d \in Unfinished(j)', conn'[d].out = "step"
                   PROVE  conn'[d].node = 0 /\ sess'[j].steps > 0
      BY DEF StepGoesOn
    <2>2. j # k /\ d \in Unfinished(j)
      BY <1>6, <1>7, <2>1
    <2> QED
      BY <1>4, <1>5, <1>8, <2>1, <2>2 DEF ScriptInv, StepGoesOn
  <1>13. ToldHasIt'
    <2>1. SUFFICES ASSUME NEW j \in Cid, Steady(j)', told'[j]
                   PROVE  /\ Busy(j)' = {}
                          /\ up' = "up" => sess'[j].steps > 0
                          /\ up' = "down" => arc'[j].steps > 0
      BY DEF ToldHasIt
    <2>2. j # k
      BY <1>4, <2>1
    <2>3. told[j] /\ Steady(j) /\ sess'[j] = sess[j] /\ Busy(j)' = Busy(j)
      BY <1>4, <1>5, <1>6, <2>1, <2>2
    <2> QED
      BY <1>3, <2>3 DEF ScriptInv, ToldHasIt
  <1> QED
    BY <1>1, <1>9, <1>10, <1>11, <1>12, <1>13 DEF ScriptInv

\* The result of a step of the handler, for a client that goes on being steady.
LEMMA HandlerResult ==
    ASSUME ScriptInv, NEW c \in Conn, NEW k \in Cid, k = conn[c].cid,
           NEW r \in Results(sess[k].node), HandlerEffect(c, r), ResultOf(c, r), Steady(k)'
    PROVE  Steady(k) /\ r.s.repeat <= 255 /\ (~r.err => GoesOn(r.s, r.out))
  <1> DEFINE s == sess[k]
             out == conn[c].out
  <1>1. conn[c].state = "handling" /\ k \in Cid /\ s \in Session /\ handled \in Nat
    <2>1. handled \in 0 .. MaxCommands /\ MaxCommands \in Nat
      BY BoundAssumption DEF ScriptInv, StoreInv, TypeOK
    <2>2. handled \in Nat
      BY <2>1
    <2> QED
      BY <2>2 DEF ScriptInv, StoreInv, TypeOK, HandlerEffect
  <1>2. Steady(k)
    BY <1>1 DEF Steady, HandlerEffect
  <1>3. /\ GoesOn(s, out) /\ Fresh(handled, s, out) /\ s.repeat <= 255
        /\ out \in {"none", "step", "FIN"}
    BY <1>1, <1>2 DEF ScriptInv, HandledGoesOn, Counted, StoreInv, HandledHolds
  <1>4. CASE r = Result(s, out, FALSE)
    BY <1>2, <1>3, <1>4 DEF Result
  <1>5. ASSUME NEW cmd \in Commands, r = Command(s, out, cmd),
               Overruns(s, out, cmd) => overran'[k]
        PROVE  r.s.repeat <= 255 /\ (~r.err => GoesOn(r.s, r.out))
    <2>1. ~Overruns(s, out, cmd)
      BY <1>5 DEF Steady
    <2> HIDE DEF s, out
    <2> QED
      BY <1>1, <1>3, <1>5, <2>1, CommandGoesOn
  <1> QED
    BY <1>2, <1>4, <1>5 DEF ResultOf

LEMMA HandlerScript ==
    ASSUME ScriptInv, NEW c \in Conn, NEW k \in Cid, k = conn[c].cid,
           NEW r \in Results(sess[k].node), HandlerEffect(c, r), ResultOf(c, r)
    PROVE  ScriptInv'
  <1>1. StoreInv /\ StoreInv'
    BY HandlerStore DEF ScriptInv
  <1>2. /\ conn[c].state = "handling" /\ up = "up" /\ conn[c].node # 0
        /\ \A d \in Conn : d # c => conn[d].state # "handling"
    BY <1>1 DEF StoreInv, TypeOK, HandledHolds, OneAnswer, HandlerEffect
  <1>3. /\ UNCHANGED <<up, arc, told, overlapped, revived>>
        /\ \A d \in Conn : d # c => conn'[d] = conn[d]
        /\ \A j \in Cid : j # k => sess'[j] = sess[j]
        /\ conn'[c] = Closed \/ conn'[c].cid = k
    BY DEF HandlerEffect
  <1>4. \A j \in Cid : Steady(j)' => Steady(j)
    BY <1>2 DEF Steady, HandlerEffect
  <1>5. /\ \A j \in Cid : j # k =>
              Busy(j)' = Busy(j) /\ Unfinished(j)' = Unfinished(j) /\ c \notin Busy(j)
        /\ c \in Busy(k)
        /\ \A j \in Cid : Busy(j)' \subseteq Busy(j)
        /\ conn'[c] # Closed => c \in Busy(k)'
    BY <1>1, HandlerBusy
  <1>6. Steady(k)' => r.s.repeat <= 255 /\ (~r.err => GoesOn(r.s, r.out))
    BY HandlerResult
  <1>7. NoSession.steps = 0 /\ NoSession.repeat = 0
    BY DEF NoSession
  <1>8. \/ sess'[k] = NoSession /\ conn'[c] = Closed
        \/ sess'[k] = r.s /\ ~Keeps(r)
        \/ sess'[k] = r.s /\ conn'[c] # Closed /\ conn'[c].node = conn[c].node
    BY ClosedConnection DEF HandlerEffect, Continues, Leaves, Answers
  <1>9. Counted'
    <2>1. SUFFICES ASSUME NEW j \in Cid, Steady(j)'
                   PROVE  sess'[j].repeat <= 255 /\ arc'[j].repeat <= 255
      BY DEF Counted
    <2>2. sess[j].repeat <= 255 /\ arc'[j].repeat <= 255
      BY <1>3, <1>4, <2>1 DEF ScriptInv, Counted
    <2>3. CASE j = k
      <3>1. sess'[k] = NoSession \/ sess'[k] = r.s
        BY <1>8
      <3>2. r.s.repeat <= 255
        BY <1>6, <2>1, <2>3
      <3> QED
        BY <1>7, <2>2, <2>3, <3>1, <3>2
    <2>4. CASE j # k
      BY <1>3, <2>2, <2>4
    <2> QED
      BY <2>3, <2>4
  <1>10. ThroughIsHeld'
    <2>1. SUFFICES ASSUME NEW j \in Cid, Steady(j)', sess'[j].steps > 0, sess'[j].repeat = 0
                   PROVE  \E d \in Busy(j)' : conn'[d].node # 0
      BY DEF ThroughIsHeld
    <2>2. CASE j = k
      <3>1. sess'[k] # NoSession
        BY <1>7, <2>1, <2>2
      <3>2. sess'[k] = r.s /\ Keeps(r)
        BY <1>8, <2>1, <2>2, <3>1 DEF Keeps
      <3> QED
        BY <1>2, <1>5, <1>8, <2>2, <3>1, <3>2
    <2>3. CASE j # k
      <3>1. PICK d \in Busy(j) : conn[d].node # 0
        BY <1>3, <1>4, <2>1, <2>3 DEF ScriptInv, ThroughIsHeld
      <3>2. d \in Busy(j)' /\ d # c /\ d \in Conn
        BY <1>5, <2>3, <3>1 DEF Busy
      <3> QED
        BY <1>3, <3>1, <3>2
    <2> QED
      BY <2>2, <2>3
  <1>11. HandledGoesOn'
    <2>1. SUFFICES ASSUME NEW d \in Conn, NEW j, j = conn'[d].cid,
                          conn'[d].state = "handling", Steady(j)'
                   PROVE  /\ GoesOn(sess'[j], conn'[d].out)
                          /\ Fresh(handled', sess'[j], conn'[d].out)
      BY DEF HandledGoesOn, GoesOn, Fresh
    <2>2. d = c
      BY <1>2, <1>3, <2>1
    <2>3. j = k
      BY <1>3, <2>1, <2>2, ClosedConnection
    <2>4. Continues(c, r)
      BY <2>1, <2>2, ClosedConnection DEF HandlerEffect, Leaves, Answers
    <2>5. ~r.err /\ handled' > 0 /\ conn'[c].out = r.out /\ sess'[k] = r.s
      BY <2>4 DEF Continues
    <2>6. handled' # 0
      BY <2>5
    <2>7. GoesOn(r.s, r.out)
      BY <1>6, <2>1, <2>2, <2>3, <2>5
    <2> QED
      BY <2>2, <2>3, <2>5, <2>6, <2>7 DEF Fresh
  <1>12. StepGoesOn'
    <2>1. SUFFICES ASSUME NEW j \in Cid, Steady(j)', NEW d \in Unfinished(j)', conn'[d].out = "step"
                   PROVE  conn'[d].node = 0 /\ sess'[j].steps > 0
      BY DEF StepGoesOn
    <2>2. CASE j = k
      <3>1. d = c /\ conn'[c].state = "writing"
        <4>1. d \in Busy(k)
          BY <1>5, <2>1, <2>2 DEF Unfinished, Busy
        <4>2. d = c
          BY <1>1, <1>4, <1>5, <2>1, <2>2, <4>1 DEF StoreInv, OneAnswer, Steady
        <4> QED
          BY <2>1, <4>2 DEF Unfinished
      <3>2. Answers(c, r)
        BY <3>1, ClosedConnection DEF HandlerEffect, Continues, Leaves
      <3>3. r.out = "step" /\ ~r.err /\ sess'[k] = r.s
        BY <2>1, <3>1, <3>2 DEF Answers
      <3>4. r.s.steps > 0 /\ r.s.repeat # 0
        BY <1>6, <2>1, <2>2, <3>3 DEF GoesOn
      <3>5. ~Keeps(r)
        BY <3>3, <3>4 DEF Keeps
      <3> QED
        BY <2>2, <3>1, <3>2, <3>3, <3>4, <3>5 DEF Answers
    <2>3. CASE j # k
      <3>1. d \in Unfinished(j) /\ d # c /\ d \in Conn
        BY <1>5, <2>1, <2>3, WritesBusy DEF Unfinished
      <3>2. conn'[d] = conn[d] /\ sess'[j] = sess[j] /\ Steady(j)
        BY <1>3, <1>4, <2>1, <2>3, <3>1
      <3> QED
        BY <2>1, <3>1, <3>2 DEF ScriptInv, StepGoesOn
    <2> QED
      BY <2>2, <2>3
  <1>13. ToldHasIt'
    <2>1. SUFFICES ASSUME NEW j \in Cid, Steady(j)', told[j]
                   PROVE  Busy(j)' = {} /\ sess'[j].steps > 0
      BY <1>2, <1>3 DEF ToldHasIt
    <2>2. Busy(j) = {} /\ sess[j].steps > 0
      BY <1>2, <1>4, <2>1 DEF ScriptInv, ToldHasIt
    <2>3. j # k
      BY <1>5, <2>2
    <2> QED
      BY <1>3, <1>5, <2>2, <2>3
  <1> QED
    BY <1>1, <1>9, <1>10, <1>11, <1>12, <1>13 DEF ScriptInv

LEMMA EndsScript ==
    ASSUME ScriptInv, cb_sigterm \/ Killed
    PROVE  ScriptInv'
  <1>1. StoreInv
    BY DEF ScriptInv
  <1>3. Ends
    BY <1>1, EndsHow
  <1>4. StoreInv'
    BY <1>1, EndsStore
  <1>5. /\ up = "up" /\ up' = "down" /\ UNCHANGED <<overlapped, revived, overran>>
        /\ \A k \in Cid : sess'[k] = NoSession
        /\ \A d \in Conn : conn'[d] = Closed
    BY <1>3 DEF Ends, Ready, history
  <1>6. \A k \in Cid : Busy(k)' = {} /\ Unfinished(k)' = {}
    BY <1>5, NoneUnfinished
  <1>7. \A k \in Cid : Steady(k)' <=> Steady(k)
    BY <1>5 DEF Steady
  <1>8. \A k \in Cid : \/ arc'[k] = sess[k] /\ told'[k] = told[k]
                       \/ arc'[k] = arc[k] /\ ~told'[k]
    BY <1>1, EndsHow
  <1>9. NoSession.steps = 0 /\ NoSession.repeat = 0
    BY DEF NoSession
  <1>10. HandledGoesOn'
    BY <1>5, ClosedConnection DEF HandledGoesOn
  <1>11. Counted'
    <2>1. SUFFICES ASSUME NEW k \in Cid, Steady(k)
                   PROVE  sess'[k].repeat <= 255 /\ arc'[k].repeat <= 255
      BY <1>7 DEF Counted
    <2>2. sess[k].repeat <= 255 /\ arc[k].repeat <= 255
      BY <2>1 DEF ScriptInv, Counted
    <2>3. sess'[k].repeat <= 255
      BY <1>5, <1>9
    <2>4. arc'[k] = sess[k] \/ arc'[k] = arc[k]
      BY <1>8
    <2> QED
      BY <2>2, <2>3, <2>4
  <1>12. ThroughIsHeld'
    <2>1. \A k \in Cid : ~(sess'[k].steps > 0)
      BY <1>5, <1>9
    <2> QED
      BY <2>1 DEF ThroughIsHeld
  <1>13. StepGoesOn'
    BY <1>6 DEF StepGoesOn
  <1>14. ToldHasIt'
    <2>1. SUFFICES ASSUME NEW k \in Cid, Steady(k), told'[k]
                   PROVE  arc'[k].steps > 0
      BY <1>5, <1>6, <1>7 DEF ToldHasIt
    <2>2. arc'[k] = sess[k] /\ told[k]
      BY <1>8, <2>1
    <2> QED
      BY <1>5, <2>1, <2>2 DEF ScriptInv, ToldHasIt
  <1> QED
    BY <1>4, <1>10, <1>11, <1>12, <1>13, <1>14 DEF ScriptInv

LEMMA RestoreScript ==
    ASSUME ScriptInv, restore_stats
    PROVE  ScriptInv'
  <1>1. StoreInv
    BY DEF ScriptInv
  <1>2. StoreInv'
    BY <1>1, RestoreStore
  <1>3. /\ up = "down" /\ up' = "up" /\ UNCHANGED <<arc, conn, told, overlapped, overran>> /\ sess' = arc
        /\ \A k \in Cid : revived'[k] = (revived[k] \/ (arc[k].steps > 0 /\ arc[k].repeat = 0))
    BY DEF restore_stats
  <1>4. \A d \in Conn : conn'[d] = Closed
    BY <1>1, <1>3 DEF StoreInv, EndsClosed
  <1>5. \A k \in Cid : Busy(k)' = {} /\ Unfinished(k)' = {}
    BY <1>4, NoneUnfinished
  <1>6. \A k \in Cid : Steady(k)' => Steady(k) /\ ~(arc[k].steps > 0 /\ arc[k].repeat = 0)
    BY <1>3 DEF Steady
  <1>7. HandledGoesOn'
    BY <1>4, ClosedConnection DEF HandledGoesOn
  <1>8. Counted'
    BY <1>3, <1>6 DEF ScriptInv, Counted
  <1>9. ThroughIsHeld'
    BY <1>3, <1>6 DEF ThroughIsHeld
  <1>10. StepGoesOn'
    BY <1>5 DEF StepGoesOn
  <1>11. ToldHasIt'
    BY <1>3, <1>5, <1>6 DEF ScriptInv, ToldHasIt
  <1> QED
    BY <1>2, <1>7, <1>8, <1>9, <1>10, <1>11 DEF ScriptInv

LEMMA ScriptStep ==
    ASSUME ScriptInv, [Next]_vars
    PROVE  ScriptInv'
  <1>1. StoreInv
    BY DEF ScriptInv
  <1>2. ASSUME NEW c \in Conn, cb_accept(c) \/ ReadSome(c) \/ SendSome(c) \/ TimePasses(c)
        PROVE  ScriptInv'
    BY <1>1, <1>2, TouchStore, SameAnswersScript
  <1>3. ASSUME NEW c \in Conn, ReadFail(c) \/ SendRest(c) \/ SendFail(c) \/ cb_timer(c)
        PROVE  ScriptInv'
    BY <1>1, <1>3, DeletesHow, DeleteScript
  <1>4. ASSUME NEW c \in Conn, NEW k \in Cid, Request(c, k)
        PROVE  ScriptInv'
    BY <1>4, RequestScript
  <1>5. ASSUME NEW c \in Conn, Handler(c)
        PROVE  ScriptInv'
    <2>1. PICK k \in Cid : k = conn[c].cid
      BY <1>1 DEF StoreInv, TypeOK
    <2>2. PICK r \in Results(sess[k].node) : HandlerEffect(c, r) /\ ResultOf(c, r)
      BY <1>1, <1>5, <2>1, HandlerHas
    <2> QED
      BY <2>1, <2>2, HandlerScript
  <1>6. CASE cb_sigterm \/ Killed
    BY <1>6, EndsScript
  <1>7. CASE restore_stats
    BY <1>7, RestoreScript
  <1>8. CASE UNCHANGED vars
    <2>1. StoreInv'
      BY <1>1, <1>8, StoreStep
    <2>2. \A k \in Cid : /\ Busy(k)' = Busy(k) /\ Unfinished(k)' = Unfinished(k)
                         /\ Steady(k)' <=> Steady(k)
      BY <1>8 DEF vars, history, Busy, Unfinished, Steady
    <2>3. Counted' /\ ThroughIsHeld' /\ StepGoesOn' /\ ToldHasIt'
      BY <1>8, <2>2 DEF vars, ScriptInv, Counted, ThroughIsHeld, StepGoesOn, ToldHasIt
    <2>4. HandledGoesOn'
      BY <1>8 DEF vars, history, ScriptInv, HandledGoesOn, GoesOn, Fresh, Steady
    <2> QED
      BY <2>1, <2>3, <2>4 DEF ScriptInv
  <1> QED
    BY <1>2, <1>3, <1>4, <1>5, <1>6, <1>7, <1>8 DEF Next, Stopped

LEMMA ScriptInit ==
    ASSUME Init
    PROVE  ScriptInv
  <1>1. StoreInv
    BY StoreInit
  <1>2. NoSession.steps = 0 /\ NoSession.repeat = 0
    BY DEF NoSession
  <1>3. \A k \in Cid : sess[k] = NoSession /\ arc[k] = NoSession /\ ~told[k]
    BY DEF Init
  <1>4. \A k \in Cid : Unfinished(k) = {}
    BY ClosedConnection DEF Init, Unfinished
  <1>5. HandledGoesOn /\ ToldHasIt
    BY <1>3, ClosedConnection DEF Init, HandledGoesOn, ToldHasIt
  <1>6. Counted
    BY <1>2, <1>3 DEF Counted
  <1>7. ThroughIsHeld
    BY <1>2, <1>3 DEF ThroughIsHeld
  <1>8. StepGoesOn
    BY <1>4 DEF StepGoesOn
  <1> QED
    BY <1>1, <1>5, <1>6, <1>7, <1>8 DEF ScriptInv

LEMMA ScriptAlways == Spec => []ScriptInv
  <1>1. ScriptInv /\ [Next]_vars => ScriptInv'
    BY ScriptStep
  <1>2. Init => ScriptInv
    BY ScriptInit
  <1> QED
    BY <1>1, <1>2, PTL DEF Spec

\* No iterator is stale, and no repeat count goes below zero (step_fwd), unless the
\* client overlaps its requests, the archive gives back a script that was through, or a
\* request goes on behind the command that ended its session: whatever the number of
\* commands in a request.
THEOREM StoreStaysSound == Spec => []StoreSound
  <1>1. ScriptInv => StoreSound
    <2>1. SUFFICES ASSUME ScriptInv PROVE StoreSound
      OBVIOUS
    <2>2. TypeOK /\ SafeErase
      BY <2>1 DEF ScriptInv, StoreInv
    <2>3. NeverWraps
      <3>1. SUFFICES ASSUME NEW k \in Cid, ~revived[k], ~overlapped[k], ~overran[k],
                            sess[k].repeat > 255
                     PROVE  FALSE
        BY DEF NeverWraps
      <3>2. sess[k].repeat <= 255
        BY <2>1, <3>1 DEF ScriptInv, Counted, Steady
      <3> DEFINE n == sess[k].repeat
      <3>3. n \in Nat /\ n <= 255 /\ n > 255
        <4>1. n \in 0 .. UintMax
          BY <2>2 DEF TypeOK, Session
        <4>2. n \in Nat
          BY <4>1, UintAssumption
        <4> QED
          BY <3>1, <3>2, <4>2
      <3> HIDE DEF n
      <3> QED
        BY <3>3
    <2> QED
      BY <2>2, <2>3 DEF StoreSound
  <1> QED
    BY <1>1, ScriptAlways, PTL

\* A client that was told its next step finds its session again, after any number of
\* orderly restarts, whatever its requests held before the command that ended one.
THEOREM ToldFindsSession == Spec => []ToldContinues
  <1>1. ScriptInv => ToldContinues
    BY DEF ScriptInv, ToldHasIt, ToldContinues, Steady
  <1> QED
    BY <1>1, ScriptAlways, PTL
=============================================================================
