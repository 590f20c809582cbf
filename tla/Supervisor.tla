------------------------------ MODULE Supervisor ------------------------------
(***************************************************************************)
(* The process supervisor wproc.cpp: every file of a directory is a        *)
(* program to keep running.  It looks at the directory and at one ended    *)
(* child per round.  The process table, with the pids that other programs  *)
(* take, is the kernel's.                                                  *)
(***************************************************************************)
EXTENDS Naturals, FiniteSets

CONSTANTS
    Programs,       \* the paths that may be in the directory
    Pids,           \* the process numbers (model bound)
    MaxCrashes,     \* programs that end by themselves (model bound)
    MaxForkFails,   \* failing calls of fork (model bound)
    MaxEdits        \* changes of the directory (model bound)

NoPid == 0
Free == "free"          \* a pid nobody has
Stranger == "stranger"  \* a pid of a process that is not a child
None == "none"

ASSUME PidsAssumption == Pids \subseteq Nat \ {NoPid} /\ Cardinality(Programs) < Cardinality(Pids)
ASSUME ProgramsAssumption == Programs \intersect {Free, Stranger, None} = {}

VARIABLES
    files,      \* the programs in the directory
    procs,      \* the pid_ of the programs that are listed
    table,      \* pid -> whose process it is: Free, Stranger or a program
    ended,      \* the children that have ended and were not waited for
    at,         \* where main is: "check", "wait", "crash", "sleep"
    reaped,     \* the program whose child waitpid has returned
    slain,      \* history: the places from which a stranger was killed
    unforked,   \* history: the programs whose fork failed last
    left        \* what is left of the bounds

supervisorVars == <<files, procs, table, ended, at, reaped, slain, unforked, left>>

SupervisorInit ==
    /\ files \in SUBSET Programs
    /\ procs = [p \in {} |-> NoPid]
    /\ table = [i \in Pids |-> Free]
    /\ ended = {}
    /\ at = "check"
    /\ reaped = None
    /\ slain = {}
    /\ unforked = {}
    /\ left = [crashes |-> MaxCrashes, forks |-> MaxForkFails, edits |-> MaxEdits]

-----------------------------------------------------------------------------
(* The program                                                             *)

\* spawn for every program of ps: each gets a pid of its own or, if fork fails,
\* NoPid.  A program that cannot be executed ends at once, which Crash covers.
Spawns(ps) ==
    {new \in [ps -> Pids \union {NoPid}] :
        /\ \A p \in ps : new[p] # NoPid => table[new[p]] = Free
        /\ \A p, q \in ps : p # q /\ new[p] # NoPid => new[p] # new[q]
        /\ Cardinality({p \in ps : new[p] = NoPid}) <= left.forks}

\* The children of the programs in new are there.
Started(t, new) ==
    [i \in Pids |-> IF \E p \in DOMAIN new : new[p] = i
                    THEN CHOOSE p \in DOMAIN new : new[p] = i ELSE t[i]]

\* proc::stop for a set of pids: SIGKILL ends children, and strangers.
Killed(pids) == {i \in pids : i # NoPid /\ table[i] \in Programs}
Slain(pids) == {i \in pids : i # NoPid /\ table[i] = Stranger}

\* walk: the programs of the directory, whatever their order.
walk == files

\* check_procs: new programs are started, the ones that are gone killed, the
\* others stay as they are, whether they have a process or not.
check_procs ==
    LET kept == DOMAIN procs \intersect walk
        gone == {procs[p] : p \in DOMAIN procs \ walk}
    IN  /\ at = "check"
        /\ \E new \in Spawns(walk \ kept) :
            /\ procs' = [p \in walk |-> IF p \in kept THEN procs[p] ELSE new[p]]
            /\ table' = [i \in Pids |-> IF i \in Slain(gone) THEN Free ELSE Started(table, new)[i]]
            /\ unforked' = (unforked \intersect kept)
                               \union {p \in walk \ kept : new[p] = NoPid}
            /\ left' = [left EXCEPT !.forks = @ - Cardinality({p \in walk \ kept : new[p] = NoPid})]
        /\ ended' = ended \union Killed(gone)
        /\ slain' = IF Slain(gone) # {} THEN slain \union {"check"} ELSE slain
        /\ at' = "wait"
        /\ UNCHANGED <<files, reaped>>

\* waitpid(-1, WNOHANG): one ended child, of which the kernel then forgets the pid.
Wait ==
    /\ at = "wait"
    /\ IF ended = {}
       THEN /\ at' = "sleep"
            /\ UNCHANGED <<table, ended, reaped>>
       ELSE \E i \in ended :
            /\ ended' = ended \ {i}
            /\ table' = [table EXCEPT ![i] = Free]
            /\ LET of == {p \in DOMAIN procs : procs[p] = i}
               IN  IF of = {} THEN at' = "sleep" /\ UNCHANGED reaped
                   ELSE at' = "crash" /\ reaped' = CHOOSE p \in of : TRUE
    /\ UNCHANGED <<files, procs, slain, unforked, left>>

\* proc::stop for the child that is gone already, a second of sleep, proc::start.
\* CrashStops does not call start().
CrashStops ==
    LET old == {procs[reaped]}
    IN  /\ at = "crash"
        /\ procs' = [procs EXCEPT ![reaped] = NoPid]
        /\ table' = [i \in Pids |-> IF i \in Slain(old) THEN Free ELSE table[i]]
        /\ slain' = IF Slain(old) # {} THEN slain \union {"crash"} ELSE slain
        /\ reaped' = None
        /\ at' = "sleep"
        /\ UNCHANGED <<files, ended, unforked, left>>

Crashed ==
    LET old == {procs[reaped]}
    IN  /\ at = "crash"
        /\ \E new \in Spawns({reaped}) :
            /\ procs' = [procs EXCEPT ![reaped] = new[reaped]]
            /\ table' = [i \in Pids |-> IF i \in Slain(old) THEN Free ELSE Started(table, new)[i]]
            /\ unforked' = IF new[reaped] = NoPid THEN unforked \union {reaped} ELSE unforked
            /\ left' = IF new[reaped] = NoPid THEN [left EXCEPT !.forks = @ - 1] ELSE left
        /\ slain' = IF Slain(old) # {} THEN slain \union {"crash"} ELSE slain
        /\ reaped' = None
        /\ at' = "sleep"
        /\ UNCHANGED <<files, ended>>

\* sleep(90) is over, or a SIGCHLD has cut it short.
Wake ==
    /\ at = "sleep"
    /\ at' = "check"
    /\ UNCHANGED <<files, procs, table, ended, reaped, slain, unforked, left>>

-----------------------------------------------------------------------------
(* The rest of the system                                                  *)

\* A child ends by itself.
Crash ==
    /\ left.crashes > 0
    /\ left' = [left EXCEPT !.crashes = @ - 1]
    /\ \E i \in Pids \ ended : table[i] \in Programs /\ ended' = ended \union {i}
    /\ UNCHANGED <<files, procs, table, at, reaped, slain, unforked>>

\* Another program starts or ends; one pid per listed program and one more stay
\* free, so that fork fails for other reasons only.
Foreign ==
    /\ \E i \in Pids :
        \/ /\ table[i] = Free
           /\ Cardinality({j \in Pids : table[j] = Free}) > Cardinality(Programs)
           /\ table' = [table EXCEPT ![i] = Stranger]
        \/ table[i] = Stranger /\ table' = [table EXCEPT ![i] = Free]
    /\ UNCHANGED <<files, procs, ended, at, reaped, slain, unforked, left>>

\* A program is put into the directory or taken out of it.
Edit ==
    /\ left.edits > 0
    /\ left' = [left EXCEPT !.edits = @ - 1]
    /\ \E p \in Programs : files' = IF p \in files THEN files \ {p} ELSE files \union {p}
    /\ UNCHANGED <<procs, table, ended, at, reaped, slain, unforked>>

SupervisorStep == check_procs \/ Wait \/ Crashed \/ Wake

SupervisorNext == SupervisorStep \/ Crash \/ Foreign \/ Edit

-----------------------------------------------------------------------------
(* Properties                                                              *)

\* Whatever is edited, ends or cannot be forked in whatever order: every child that
\* runs is the one its program's entry names, so that no program runs twice and
\* none is forgotten.
Accounted ==
    \A i \in Pids \ ended :
        table[i] \in Programs => table[i] \in DOMAIN procs /\ procs[table[i]] = i

\* An entry never keeps the pid of a child that was waited for, which another
\* program may have by now: check_procs kills no stranger.  (Between waitpid and
\* stop() the pid is free, and there a stranger can be hit.)
RemovalKillsOwn == "check" \notin slain

\* One ended child is waited for per round and any of them may be the one; still
\* each program comes back, unless it is taken out of the directory or fork fails,
\* which is not tried again.
CrashComesBack ==
    \A p \in Programs :
        (p \in DOMAIN procs /\ procs[p] \in ended) ~>
            \/ p \notin files
            \/ p \in unforked
            \/ \E i \in Pids \ ended : table[i] = p

\* Programs run once each, nobody else is killed, and what ends is started again.
ChildrenKept == []Accounted /\ []RemovalKillsOwn /\ CrashComesBack
=============================================================================
