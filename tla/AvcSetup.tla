------------------------------ MODULE AvcSetup ------------------------------
(***************************************************************************)
(* Setting up and tearing down the hardware decoder: ILAvcDec of           *)
(* android/jni-01/ildec.cpp and its forerunner AVCDecoder of demo.cpp      *)
(* (variable program).  setup() and teardown() send commands to the OMX    *)
(* component and wait on one semaphore for whatever its thread reports:    *)
(* the completion of a command, changed port settings, or that the last    *)
(* output buffer came back.  They are straight-line code, written here as  *)
(* a sequence of steps that the calling thread carries out; the component  *)
(* is another thread that reads its messages in order.                     *)
(***************************************************************************)
EXTENDS Naturals, FiniteSets, SequencesExt

CONSTANTS
    Programs,   \* the programs checked: a subset of {"ildec", "demo"}
    N,          \* the number of output buffers, nBufferCountActual
    MaxPictures \* pictures decoded in stage 2 (model bound)

ASSUME AvcSetupAssumption ==
    /\ Programs \subseteq {"ildec", "demo"}
    /\ N \in Nat \ {0}
    /\ MaxPictures \in Nat

VARIABLES
    program,    \* which of the programs runs
    keeps,      \* whether the component keeps SPS and PPS until it has buffers
                \* of the enabled output port to decode them with
    pc,         \* the next step of the calling thread
    exited,     \* the process ended with ERR_EXIT
    stage_,     \* 0 .. 3
    used,       \* the output buffers with MSK_USED
    pop,        \* the ports whose buffers are allocated
    sem_command_,   \* what was posted and not yet waited for, oldest first
    sem_bufempty_,  \* how often an input buffer was given back
    inbox,      \* the messages to the component
    held,       \* the output buffers the component has
    inputs,     \* how many input buffers it has
    config,     \* how many of SPS and PPS it read; 3 once it told the settings,
                \* 4 once the port is enabled again, 5 once it got a buffer of it,
                \* 6 once it read a frame
    omx,        \* its state
    doing,      \* the command it carries out
    icur_,      \* demo.cpp: the output buffer the next picture is expected in
    filled,     \* the output buffer with a picture, before it is called back
    pictures,   \* how many pictures it decoded
    crossed,    \* history: a wait ended by something else than it was for
    raced,      \* history: all buffers came back before setup() looked whether
                \* it has to wait for them
    freedHeld   \* history: a buffer was freed that the component had

Buffers == 1 .. N

program_ == <<program, keeps>>
component == <<config, omx, doing, filled, pictures>>
history == <<crossed, raced, freedHeld>>
setupVars == <<program_, pc, exited, stage_, icur_, used, pop, sem_command_, sem_bufempty_, inbox, held, inputs,
          component, history>>

None == "none"

SetupInit ==
    /\ program \in Programs
    /\ keeps \in BOOLEAN
    /\ pc = 1
    /\ exited = FALSE
    /\ stage_ = 0
    /\ icur_ = 1
    /\ used = {}
    /\ pop = {}
    /\ sem_command_ = <<>>
    /\ sem_bufempty_ = 0
    /\ inbox = <<>>
    /\ held = {}
    /\ inputs = 0
    /\ config = 0
    /\ omx = "loaded"
    /\ doing = None
    /\ filled = {}
    /\ pictures = 0
    /\ crossed = FALSE
    /\ raced = FALSE
    /\ freedHeld = FALSE

-----------------------------------------------------------------------------
(* The steps of setup() and teardown()                                     *)

Step(o, a) == [op |-> o, arg |-> a]

\* command(...)(...).wait(): the second step is done between the two.
Command(c, between) == <<Step("send", c)>> \o between \o <<Step("wait", c)>>

\* setup() up to stage 1
Begin ==
    Command("idle", <<Step("alloc", "in"), Step("alloc", "out")>>)
    \o Command("exec", <<>>)
    \o <<Step("fill", 5), Step("config", 1), Step("config", 2), Step("wait", "settings")>>

\* The lambda that waits for the buffers of the output port
Return == <<Step("check", "returned"), Step("wait", "returned"), Step("free", "out")>>

\* The output port is disabled, gets new buffers and is enabled again.
Renew == Command("disable", Return) \o Command("enable", <<Step("alloc", "out")>>)

\* ... both waits for the input buffers before the output buffers are filled
WarmInputFirst ==
    <<Step("drain", "bufempty"), Step("drain", "command"), Step("stage", 1),
      Step("waitempty", 0), Step("waitempty", 0),
      Step("fill", 1), Step("wait", "returned"), Step("fill", 1), Step("wait", "returned"),
      Step("drain", "command"), Step("drain", "bufempty"), Step("stage", 2), Step("fillall", 0)>>

\* stage 1: two buffers make the component decode SPS and PPS
Warm ==
    <<Step("drain", "bufempty"), Step("drain", "command"), Step("stage", 1),
      Step("fill", 1), Step("wait", "returned"), Step("fill", 1), Step("wait", "returned"),
      Step("waitempty", 0), Step("waitempty", 0),
      Step("drain", "command"), Step("drain", "bufempty"), Step("stage", 2), Step("fillall", 0)>>

setup == Begin \o Renew \o Warm

\* AVCDecoder::setup takes the same steps and ends with icur_ at begin().
demo_setup == Begin \o Renew \o Warm

teardown ==
    <<Step("stage", 3), Step("drain", "bufempty"), Step("drain", "command")>>
    \o Command("flush", <<>>)
    \o Command("idle", <<>>)
    \o Command("loaded", <<Step("free", "in"), Step("free", "out")>>)

\* AVCDecoder::decode: one frame in, then its picture is polled
decode == <<Step("config", 3), Step("waitempty", 0), Step("poll", 0)>>

\* main() of demo.cpp, for a file of three frames
demo_main == demo_setup \o decode \o decode \o decode \o teardown

Script == IF program = "demo" THEN demo_main ELSE setup \o teardown

At(o) == ~exited /\ pc <= Len(Script) /\ Script[pc].op = o
Arg == Script[pc].arg
Continue == pc' = pc + 1 /\ UNCHANGED <<program_, exited>>

-----------------------------------------------------------------------------
(* The calling thread                                                      *)

\* CommandHelper::send
Send ==
    /\ At("send") /\ Continue
    /\ inbox' = Append(inbox, Step("command", Arg))
    /\ UNCHANGED <<stage_, icur_, used, pop, sem_command_, sem_bufempty_, held, inputs, component, history>>

\* CommandHelper::wait
Wait ==
    /\ At("wait") /\ Continue
    /\ sem_command_ # <<>>
    /\ sem_command_' = Tail(sem_command_)
    /\ crossed' = (crossed \/ Head(sem_command_) # Arg)
    /\ UNCHANGED <<stage_, icur_, used, pop, sem_bufempty_, inbox, held, inputs, component, raced, freedHeld>>

\* countf(MSK_USED) > 0
Check ==
    /\ At("check")
    /\ pc' = IF used # {} THEN pc + 1 ELSE pc + 2
    /\ raced' = (raced \/ (used = {} /\ sem_command_ # <<>>))
    /\ UNCHANGED <<program_, exited, stage_, icur_, used, pop, sem_command_, sem_bufempty_, inbox, held, inputs,
                   component, crossed, freedHeld>>

\* omxbufs_reinit; the component refuses buffers for a port it is disabling.
omxbufs_reinit ==
    /\ At("alloc")
    /\ IF doing = "disable"
       THEN exited' = TRUE /\ UNCHANGED <<pc, used, pop>>
       ELSE /\ pc' = pc + 1
            /\ pop' = pop \union {Arg}
            /\ used' = IF Arg = "out" THEN {} ELSE used
            /\ UNCHANGED exited
    /\ UNCHANGED <<program_, stage_, icur_, sem_command_, sem_bufempty_, inbox, held, inputs, component, history>>

\* The buffers the component has or will get
Owned == held \union {inbox[i].arg : i \in {j \in DOMAIN inbox : inbox[j].op = "fill"}}

omxbufs_deinit ==
    /\ At("free") /\ Continue
    /\ pop' = pop \ {Arg}
    /\ used' = IF Arg = "out" THEN {} ELSE used
    /\ freedHeld' = (freedHeld \/ (IF Arg = "out" THEN Owned # {} ELSE inputs > 0))
    /\ UNCHANGED <<stage_, icur_, sem_command_, sem_bufempty_, inbox, held, inputs, component, crossed, raced>>

\* The component takes output buffers while it executes and the port is enabled.
Takes == omx = "exec" /\ doing \notin {"disable", "enable"}

\* FillThisBuffer of each buffer in bs, in their order; an error is ERR_EXIT.
FillThese(bs) ==
    IF Takes \/ bs = {}
    THEN /\ Continue
         /\ used' = used \union bs
         /\ \E order \in [1 .. Cardinality(bs) -> bs] :
                /\ \A i, j \in DOMAIN order : i < j => order[i] < order[j]
                /\ inbox' = inbox \o [i \in DOMAIN order |-> Step("fill", order[i])]
    ELSE exited' = TRUE /\ UNCHANGED <<program_, pc, used, inbox>>

\* FindFreeBuffer, n times: the first buffers that are not used
FindFreeBuffer(n) ==
    {b \in Buffers \ used : Cardinality({c \in Buffers \ used : c <= b}) <= n}

\* FillOneBuffer, Arg times
FillOneBuffer ==
    /\ At("fill")
    /\ FillThese(FindFreeBuffer(Arg))
    /\ UNCHANGED <<stage_, icur_, pop, sem_command_, sem_bufempty_, held, inputs, component, history>>

\* At stage 2 all of them, used or not
FillAll ==
    /\ At("fillall")
    /\ FillThese(Buffers)
    /\ UNCHANGED <<stage_, icur_, pop, sem_command_, sem_bufempty_, held, inputs, component, history>>

\* EmptyThis: SPS, PPS or a frame
EmptyThis ==
    /\ At("config") /\ Continue
    /\ inbox' = Append(inbox, Step("empty", Arg))
    /\ UNCHANGED <<stage_, icur_, used, pop, sem_command_, sem_bufempty_, held, inputs, component, history>>

SetStage ==
    /\ At("stage") /\ Continue
    /\ stage_' = Arg
    /\ UNCHANGED <<icur_, used, pop, sem_command_, sem_bufempty_, inbox, held, inputs, component, history>>

\* while (sem_trywait(...) == 0)
Drain ==
    /\ At("drain") /\ Continue
    /\ IF Arg = "command"
       THEN sem_command_' = <<>> /\ UNCHANGED sem_bufempty_
       ELSE sem_bufempty_' = 0 /\ UNCHANGED sem_command_
    /\ UNCHANGED <<stage_, icur_, used, pop, inbox, held, inputs, component, history>>

WaitEmpty ==
    /\ At("waitempty") /\ Continue
    /\ sem_bufempty_ > 0
    /\ sem_bufempty_' = sem_bufempty_ - 1
    /\ UNCHANGED <<stage_, icur_, used, pop, sem_command_, inbox, held, inputs, component, history>>

\* nFilledLen > 0 of the buffer whose turn it is; the callback makes it 0 again.
Poll ==
    /\ At("poll") /\ Continue
    /\ icur_ \in filled
    /\ icur_' = (icur_ % N) + 1
    /\ UNCHANGED <<stage_, used, pop, sem_command_, sem_bufempty_, inbox, held, inputs, component, history>>

Caller ==
    \/ Send \/ Wait \/ Check \/ omxbufs_reinit \/ omxbufs_deinit \/ FillOneBuffer \/ FillAll
    \/ EmptyThis \/ SetStage \/ Drain \/ WaitEmpty \/ Poll

-----------------------------------------------------------------------------
(* The component (external) and the callbacks that run in its thread       *)

Waits == UNCHANGED <<program_, pc, stage_, icur_, pop, history>>

\* The component reads its next message.
Read ==
    /\ ~exited /\ filled = {} /\ inbox # <<>>
    /\ inbox' = Tail(inbox)
    /\ LET m == Head(inbox) IN
       \/ /\ m.op = "command" /\ doing = None
          /\ doing' = m.arg
          /\ UNCHANGED <<held, inputs, config>>
       \/ /\ m.op = "fill"
          /\ held' = held \union {m.arg}
          /\ config' = IF config = 4 THEN 5 ELSE config
          /\ UNCHANGED <<doing, inputs>>
       \/ /\ m.op = "empty"
          /\ inputs' = inputs + 1
          /\ config' = IF m.arg = 3 THEN 6 ELSE config + 1
          /\ UNCHANGED <<doing, held>>
    /\ Waits /\ UNCHANGED <<exited, used, sem_command_, sem_bufempty_, omx, filled, pictures>>

\* Whether the command can complete: buffers are given and taken on demand.
Completes ==
    CASE doing = "idle" -> IF omx = "loaded" THEN pop = {"in", "out"} ELSE held = {} /\ inputs = 0
      [] doing = "disable" -> held = {} /\ "out" \notin pop
      [] doing = "enable" -> "out" \in pop
      [] doing = "flush" -> held = {}
      [] doing = "loaded" -> pop = {}
      [] OTHER -> doing = "exec"

\* cbEventHandler: a command is complete
CmdComplete ==
    /\ ~exited /\ filled = {} /\ doing # None /\ Completes
    /\ sem_command_' = Append(sem_command_, doing)
    /\ omx' = IF doing \in {"idle", "exec", "loaded"} THEN doing ELSE omx
    /\ config' = IF doing = "enable" THEN 4 ELSE config
    /\ doing' = None
    /\ Waits /\ UNCHANGED <<exited, used, sem_bufempty_, inbox, held, inputs, filled, pictures>>

\* cbEventHandler: the settings of the output port changed
PortSettingsChanged ==
    /\ ~exited /\ filled = {} /\ config = 2 /\ omx = "exec"
    /\ config' = 3
    /\ sem_command_' = Append(sem_command_, "settings")
    /\ Waits /\ UNCHANGED <<exited, used, sem_bufempty_, inbox, held, inputs, omx, doing, filled, pictures>>

\* EmptyBufferDone of ildec.cpp: in stage 2 the input port's own callback, which
\* AvcInput models
EmptyBufferDone == IF stage_ < 2 THEN sem_bufempty_ + 1 ELSE sem_bufempty_

\* cbEmptyThisBuffer of demo.cpp
cbEmptyThisBuffer == sem_bufempty_ + 1

\* An input buffer is given back.
InputDone ==
    /\ ~exited /\ filled = {} /\ inputs > 0
    /\ doing = "idle" \/ (omx = "exec" /\ (keeps => config >= 5))
    /\ inputs' = inputs - 1
    /\ sem_bufempty_' = IF program = "demo" THEN cbEmptyThisBuffer ELSE EmptyBufferDone
    /\ Waits /\ UNCHANGED <<exited, used, sem_command_, inbox, held, component>>

\* ... posts for every buffer
ReturnedEach(b) ==
    /\ used' = used \ {b}
    /\ sem_command_' = IF stage_ < 2 THEN Append(sem_command_, "returned") ELSE sem_command_
    /\ UNCHANGED <<exited, inbox>>

\* The flag is cleared, and the last buffer in stage 0, or any in stage 1, posts.
Returned(b) ==
    /\ used' = used \ {b}
    /\ sem_command_' = IF stage_ = 1 \/ (stage_ = 0 /\ used' = {})
                       THEN Append(sem_command_, "returned") ELSE sem_command_
    /\ UNCHANGED <<exited, inbox>>

\* FillThisBuffer in the callback
Refilled(b) ==
    /\ IF Takes
       THEN inbox' = Append(inbox, Step("fill", b)) /\ UNCHANGED exited
       ELSE exited' = TRUE /\ UNCHANGED inbox
    /\ used' = used \union {b}
    /\ UNCHANGED sem_command_

\* FillBufferDone of ildec.cpp
FillBufferDone(b) ==
    \/ stage_ = 3 /\ UNCHANGED <<exited, used, sem_command_, inbox>>
    \/ stage_ = 2 /\ Refilled(b)
    \/ stage_ < 2 /\ Returned(b)

\* cbFillThisBuffer of demo.cpp: it depends on whether there is a picture
cbFillThisBuffer(b) ==
    \/ stage_ = 3 /\ UNCHANGED <<exited, used, sem_command_, inbox>>
    \/ stage_ < 3 /\ b \in filled /\ Refilled(b)
    \/ stage_ < 3 /\ b \notin filled /\ Returned(b)

OutputDone(b) == IF program = "demo" THEN cbFillThisBuffer(b) ELSE FillBufferDone(b)

\* An output buffer comes back without a picture: because of a command, or when
\* SPS and PPS are decoded.
Return0 ==
    /\ ~exited /\ filled = {}
    /\ doing \in {"disable", "flush", "idle"} \/ (stage_ = 1 /\ config = 5)
    /\ \E b \in held : held' = held \ {b} /\ OutputDone(b)
    /\ Waits /\ UNCHANGED <<sem_bufempty_, inputs, component>>

\* A picture is written to a buffer ...
Picture ==
    /\ ~exited /\ filled = {} /\ stage_ = 2 /\ doing = None /\ pictures < MaxPictures
    /\ program = "demo" => config = 6
    /\ \E b \in held : filled' = {b}
    /\ pictures' = pictures + 1
    /\ Waits /\ UNCHANGED <<exited, used, sem_command_, sem_bufempty_, inbox, held, inputs, config, omx, doing>>

\* ... and the buffer comes back, to be filled again.
PictureDone ==
    /\ ~exited /\ filled # {}
    /\ \E b \in filled : held' = held \ {b} /\ OutputDone(b)
    /\ filled' = {}
    /\ Waits /\ UNCHANGED <<sem_bufempty_, inputs, config, omx, doing, pictures>>

Component ==
    \/ Read \/ CmdComplete \/ PortSettingsChanged \/ InputDone \/ Return0 \/ Picture \/ PictureDone

SetupNext == Caller \/ Component

-----------------------------------------------------------------------------
(* Properties                                                              *)

OmxMessages ==
    [op : {"command"}, arg : {"idle", "exec", "disable", "enable", "flush", "loaded"}]
    \union [op : {"fill"}, arg : Buffers]
    \union [op : {"empty"}, arg : 1 .. 3]

SetupTypeOK ==
    /\ program \in Programs
    /\ keeps \in BOOLEAN
    /\ pc \in 1 .. Len(Script) + 1
    /\ exited \in BOOLEAN
    /\ stage_ \in 0 .. 3
    /\ icur_ \in Buffers
    /\ used \subseteq Buffers
    /\ pop \subseteq {"in", "out"}
    /\ sem_command_ \in Seq({"idle", "exec", "disable", "enable", "flush", "loaded", "settings", "returned"})
    /\ sem_bufempty_ \in 0 .. 3
    /\ inbox \in Seq(OmxMessages)
    /\ held \subseteq Buffers
    /\ inputs \in 0 .. 3
    /\ config \in 0 .. 6
    /\ omx \in {"loaded", "idle", "exec"}
    /\ doing \in {None, "idle", "exec", "disable", "enable", "flush", "loaded"}
    /\ filled \subseteq Buffers
    /\ pictures \in 0 .. MaxPictures
    /\ crossed \in BOOLEAN
    /\ raced \in BOOLEAN
    /\ freedHeld \in BOOLEAN

\* Each wait of setup() and teardown() ends by the event it is for, and the
\* component refuses nothing -- unless all output buffers came back before
\* setup() counted the used ones: then their post is left over for the next wait.
InTurn == crossed \/ exited => raced

\* omxbufs_deinit() never frees a buffer the component has or will get.
FreesOwn == ~freedHeld

\* setup() and teardown() against the component's thread: the types, and both of these.
SetupSound == SetupTypeOK /\ InTurn /\ FreesOwn

\* setup() reaches stage 2 if the component keeps SPS and PPS until it gets
\* buffers of the enabled port (one that gives them back earlier has its posts
\* drained, and setup() waits for ever).
SetupEnds == keeps ~> (stage_ >= 2 \/ exited)
=============================================================================
