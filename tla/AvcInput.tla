------------------------------ MODULE AvcInput ------------------------------
(***************************************************************************)
(* The input port of the hardware decoder (ILAvcDec::InputPort of          *)
(* android/jni-01/ildec.cpp) in stage 2: the network thread copies each    *)
(* frame into one of two buffers (send), the decoder's thread gives a      *)
(* decoded buffer back and is handed the other one if a frame waits in it  *)
(* (callback).  send() takes no lock, so each access to the flags byte     *)
(* the two threads share is a step; |= is a read and a write.              *)
(***************************************************************************)
EXTENDS Naturals, Sequences

CONSTANTS
    MaxFrames   \* the network thread sends at most this many frames (model bound)

ASSUME MaxFramesAssumption == MaxFrames \in Nat

VARIABLES
    flags,      \* BufferEx::flags, the set of its bits
    data,       \* the frame in the buffer, Torn while it is copied
    spc,        \* where the network thread is in send()
    frame,      \* the frame it sends
    slot,       \* the buffer it chose
    doempty,    \* whether it will hand the buffer to the decoder itself
    sreg,       \* the flags it read
    cpc,        \* where the decoder's thread is in callback()
    cslot,      \* the buffer given back (it), then the other one (j)
    creg,       \* the flags it read
    decoder,        \* the buffers the decoder has, each with the frame submitted
    decoded,    \* history: the frames decoded
    damaged,    \* history: a frame changed while the decoder had it
    mixed       \* history: one thread went by flags that the other was changing

sendVars == <<spc, frame, slot, doempty, sreg>>
callVars == <<cpc, cslot, creg>>
inputVars == <<flags, data, sendVars, callVars, decoder, decoded, damaged, mixed>>

Slot == {0, 1}      \* begin() and begin() + (size()+1)/2
Torn == 0

Used(s) == "USED" \in flags[s]

InputInit ==
    /\ flags = [s \in Slot |-> {}]
    /\ data = [s \in Slot |-> Torn]
    /\ spc = "idle"
    /\ frame = 0
    /\ slot = 0
    /\ doempty = FALSE
    /\ sreg = {}
    /\ cpc = "idle"
    /\ cslot = 0
    /\ creg = {}
    /\ decoder = <<>>
    /\ decoded = <<>>
    /\ damaged = FALSE
    /\ mixed = FALSE

-----------------------------------------------------------------------------
(* send, in the network thread                                             *)

Unchanged == UNCHANGED <<flags, data, callVars, decoder, decoded, damaged>>

SendStart ==
    /\ spc = "idle"
    /\ frame < MaxFrames
    /\ frame' = frame + 1
    /\ spc' = "first"
    /\ Unchanged /\ UNCHANGED <<slot, doempty, sreg, mixed>>

\* callback() has freed its buffer and may be about to take the other one: neither of
\* them is marked as used.
Deciding == cpc \in {"look", "read", "write"}

\* Goes on to copy into buffer s, and to submit it if no buffer seems to be in use.
Choose(s, e) ==
    /\ slot' = s
    /\ doempty' = e
    /\ spc' = "copy"
    /\ mixed' = (mixed \/ (e /\ Deciding))
    /\ Unchanged /\ UNCHANGED <<frame, sreg>>

GoTo(label) ==
    /\ spc' = label
    /\ Unchanged /\ UNCHANGED <<frame, slot, doempty, sreg, mixed>>

\* !i->used() && !j->used()
TestFirst == spc = "first" /\ IF Used(0) THEN GoTo("third") ELSE GoTo("second")

TestSecond == spc = "second" /\ IF Used(1) THEN GoTo("third") ELSE Choose(0, TRUE)

\* else if (!i->used()), without looking
TestThirdBlind == spc = "third" /\ Choose(0, FALSE)

\* else if (!i->used())
TestThird == spc = "third" /\ IF Used(0) THEN GoTo("fourth") ELSE Choose(0, FALSE)

\* else if (!j->used()), else ERR_EXIT("both used")
TestFourth == spc = "fourth" /\ IF Used(1) THEN GoTo("exit") ELSE Choose(1, FALSE)

\* copydata: memcpy, then |= MSK_COPYED
CopyBegin ==
    /\ spc = "copy"
    /\ data' = [data EXCEPT ![slot] = Torn]
    /\ spc' = "copying"
    /\ UNCHANGED <<flags, frame, slot, doempty, sreg, callVars, decoder, decoded, damaged, mixed>>

CopyEnd ==
    /\ spc = "copying"
    /\ data' = [data EXCEPT ![slot] = frame]
    /\ spc' = "mark"
    /\ UNCHANGED <<flags, frame, slot, doempty, sreg, callVars, decoder, decoded, damaged, mixed>>

ReadFlags ==
    /\ spc \in {"mark", "use"}
    /\ sreg' = flags[slot]
    /\ spc' = IF spc = "mark" THEN "marking" ELSE "using"
    /\ Unchanged /\ UNCHANGED <<frame, slot, doempty, mixed>>

MarkCopyed ==
    /\ spc = "marking"
    /\ flags' = [flags EXCEPT ![slot] = sreg \union {"COPYED"}]
    /\ spc' = IF doempty THEN "use" ELSE "idle"
    /\ UNCHANGED <<data, frame, slot, doempty, sreg, callVars, decoder, decoded, damaged, mixed>>

\* EmptyThisBuffer: |= MSK_USED, then OMX_EmptyThisBuffer
MarkUsed ==
    /\ spc = "using"
    /\ flags' = [flags EXCEPT ![slot] = sreg \union {"USED"}]
    /\ spc' = "submit"
    /\ UNCHANGED <<data, frame, slot, doempty, sreg, callVars, decoder, decoded, damaged, mixed>>

Submission(s) == [slot |-> s, frame |-> data[s]]

Submit ==
    /\ spc = "submit"
    /\ decoder' = Append(decoder, Submission(slot))
    /\ spc' = "idle"
    /\ UNCHANGED <<flags, data, frame, slot, doempty, sreg, callVars, decoded, damaged, mixed>>

SendStep ==
    \/ TestFirst \/ TestSecond \/ TestThird \/ TestFourth
    \/ CopyBegin \/ CopyEnd \/ ReadFlags \/ MarkCopyed \/ MarkUsed \/ Submit

-----------------------------------------------------------------------------
(* callback, in the decoder's thread                                       *)

CallbackStart ==
    /\ cpc = "idle"
    /\ decoder # <<>>
    /\ decoder' = Tail(decoder)
    /\ decoded' = Append(decoded, Head(decoder).frame)
    /\ damaged' = (damaged \/ Head(decoder).frame # data[Head(decoder).slot] \/ Head(decoder).frame = Torn)
    /\ cslot' = Head(decoder).slot
    /\ cpc' = "clear"
    /\ UNCHANGED <<flags, data, sendVars, creg, mixed>>

\* it->flags = 0; j is the other buffer.  send() may have found this one used, and its
\* buffer will not be submitted then.
Clear ==
    /\ cpc = "clear"
    /\ flags' = [flags EXCEPT ![cslot] = {}]
    /\ cslot' = 1 - cslot
    /\ cpc' = "look"
    /\ mixed' = (mixed \/ spc \in {"third", "fourth"})
    /\ UNCHANGED <<data, sendVars, creg, decoder, decoded, damaged>>

\* send() copies into buffer s and has not marked it as copied.
Copying(s) == slot = s /\ spc \in {"copy", "copying", "mark", "marking"}

\* j->copyed(), of the buffer that was given back
LookSame ==
    /\ cpc = "look"
    /\ cpc' = IF "COPYED" \in flags[1 - cslot] THEN "read" ELSE "idle"
    /\ mixed' = (mixed \/ Copying(cslot))
    /\ UNCHANGED <<flags, data, sendVars, cslot, creg, decoder, decoded, damaged>>

\* j->copyed(): of a buffer that is being copied into, it says what was there before.
Look ==
    /\ cpc = "look"
    /\ cpc' = IF "COPYED" \in flags[cslot] THEN "read" ELSE "idle"
    /\ mixed' = (mixed \/ Copying(cslot))
    /\ UNCHANGED <<flags, data, sendVars, cslot, creg, decoder, decoded, damaged>>

\* EmptyThisBuffer(j).  send() may have found buffer 0 unused before it is marked, and
\* has yet to look at the other one.
CallbackRead ==
    /\ cpc = "read"
    /\ creg' = flags[cslot]
    /\ cpc' = "write"
    /\ UNCHANGED <<flags, data, sendVars, cslot, decoder, decoded, damaged, mixed>>

CallbackMark ==
    /\ cpc = "write"
    /\ flags' = [flags EXCEPT ![cslot] = creg \union {"USED"}]
    /\ cpc' = "submit"
    /\ mixed' = (mixed \/ (spc = "second" /\ cslot = 0))
    /\ UNCHANGED <<data, sendVars, cslot, creg, decoder, decoded, damaged>>

CallbackSubmit ==
    /\ cpc = "submit"
    /\ decoder' = Append(decoder, Submission(cslot))
    /\ cpc' = "idle"
    /\ UNCHANGED <<flags, data, sendVars, cslot, creg, decoded, damaged, mixed>>

CallbackStep ==
    \/ CallbackStart \/ Clear \/ Look
    \/ CallbackRead \/ CallbackMark \/ CallbackSubmit

-----------------------------------------------------------------------------
\* No further frame comes, or the process exited.
Terminated ==
    /\ spc = "exit" \/ (spc = "idle" /\ frame = MaxFrames /\ cpc = "idle" /\ decoder = <<>>)
    /\ UNCHANGED inputVars

InputNext == SendStart \/ SendStep \/ CallbackStep \/ Terminated

\* A send goes on once begun, and the decoder gives back every buffer.
InputFairness == WF_inputVars(SendStep) /\ WF_inputVars(CallbackStep)

InputSpec == InputInit /\ [][InputNext]_inputVars /\ InputFairness

-----------------------------------------------------------------------------
(* Properties                                                              *)

InputTypeOK ==
    /\ flags \in [Slot -> SUBSET {"USED", "COPYED"}]
    /\ data \in [Slot -> 0 .. MaxFrames]
    /\ spc \in {"idle", "first", "second", "third", "fourth", "copy", "copying",
                "mark", "marking", "use", "using", "submit", "exit"}
    /\ frame \in 0 .. MaxFrames
    /\ slot \in Slot
    /\ doempty \in BOOLEAN
    /\ sreg \subseteq {"USED", "COPYED"}
    /\ cpc \in {"idle", "clear", "look", "read", "write", "submit"}
    /\ cslot \in Slot
    /\ creg \subseteq {"USED", "COPYED"}
    /\ decoder \in Seq([slot : Slot, frame : 0 .. MaxFrames])
    /\ decoded \in Seq(0 .. MaxFrames)
    /\ {damaged, mixed} \subseteq BOOLEAN

\* A frame always finds a buffer the decoder does not have: ERR_EXIT("both used")
\* of send() is not reached.
NeverBothUsed == spc # "exit"

\* The decoder decodes the frame as it was submitted: no half-copied frame is
\* submitted and none is overwritten before its buffer comes back.
DecodesIntact == ~damaged

\* Frames are decoded in the order in which they were sent, none twice; those
\* replaced while they waited are left out.
DecodesInOrder ==
    \A i, j \in DOMAIN decoded : i < j => decoded[i] < decoded[j]

\* A buffer is used exactly while the decoder has it or is about to get it.
UsedIsSubmitted ==
    spc = "idle" /\ cpc = "idle" =>
        \A s \in Slot : Used(s) <=> \E i \in DOMAIN decoder : decoder[i].slot = s

\* The two buffers under the flags that the thread of send() and the one of callback()
\* share: the types, and the four statements above.
BuffersSound ==
    /\ InputTypeOK
    /\ mixed \/ (NeverBothUsed /\ DecodesIntact /\ DecodesInOrder /\ UsedIsSubmitted)

\* When no more frames come the last one is decoded, not left waiting for a
\* callback that will not come.
LastFrameDecoded ==
    (frame = MaxFrames) ~>
        (mixed \/ \E i \in DOMAIN decoded : decoded[i] = MaxFrames)
=============================================================================
