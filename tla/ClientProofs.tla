----------------------------- MODULE ClientProofs -----------------------------
(***************************************************************************)
(* Proofs about the client's programs, for any number of frames, rounds,   *)
(* messages, buffers and faults: that the decoder's input port is sound   *)
(* wherever the callbacks fall, as long as neither thread goes by flags    *)
(* that the other is changing, that setting the decoder up and tearing it  *)
(* down is, but for one race, that the three threads of the Android player *)
(* stay in step, and that the chat clients acknowledge what they read.     *)
(***************************************************************************)
EXTENDS AvcInput, AvcSetup, Player, ChatClient, SequenceTheorems, FiniteSetTheorems, TLAPS

-----------------------------------------------------------------------------
(* The decoder's input port.  The inductive invariant: as long as neither   *)
(* thread went by flags that the other was changing, at most one buffer is  *)
(* with the decoder, and the flags say which, as far as the steps under way *)
(* have come.                                                               *)

Full == {"USED", "COPYED"}

Other(s) == 1 - s

\* The decoder has buffer s and nothing else.
Has(s) == decoder = <<Submission(s)>>

\* Buffer s is with the decoder, or comes back from it, or is about to be handed to it.
Given(s) ==
    \/ cpc = "idle" /\ Has(s)
    \/ cpc \in {"clear", "submit"} /\ decoder = <<>> /\ cslot = s

\* A frame that waits in buffer s is younger than f, and was sent.
WaitsAfter(s, f) ==
    spc # "copying" /\ "COPYED" \in flags[s] =>
        /\ data[s] > f /\ data[s] <= frame
        /\ spc \in {"first", "second", "third", "fourth"} => data[s] < frame

\* send() copies beside the decoder into buffer s.
CopiesInto(s) ==
    /\ spc \in {"copy", "copying", "mark", "marking"} => slot = s /\ ~doempty
    /\ spc \in {"mark", "marking"} => data[s] = frame
    /\ spc = "marking" => sreg = flags[s]

\* Nothing is with the decoder: send() fills the first buffer and hands it over.
SendAlone ==
    /\ flags[1] = {}
    /\ spc \in {"idle", "first", "second", "copy", "copying", "mark", "marking",
                "use", "using", "submit"}
    /\ spc \in {"idle", "first", "second", "copy", "copying", "mark", "marking"} =>
           flags[0] = {}
    /\ spc \in {"use", "using"} => flags[0] = {"COPYED"}
    /\ spc = "submit" => flags[0] = Full
    /\ spc \in {"copy", "copying", "mark", "marking", "use", "using", "submit"} =>
           slot = 0 /\ doempty
    /\ spc \in {"mark", "marking", "use", "using", "submit"} => data[0] = frame
    /\ spc \in {"marking", "using"} => sreg = flags[0]

SendBeside(s) ==
    /\ flags[s] = Full
    /\ "USED" \notin flags[Other(s)]
    /\ data[s] # Torn
    /\ data[s] <= frame
    /\ spc # "idle" => data[s] < frame
    /\ WaitsAfter(Other(s), data[s])
    /\ spc \in {"idle", "first", "second", "third", "fourth", "copy", "copying",
                "mark", "marking"}
    /\ spc = "second" => s = 1
    /\ spc = "fourth" => s = 0
    /\ CopiesInto(Other(s))

\* callback() looks for a frame in the other buffer, and takes it.
CallbackView ==
    /\ flags[Other(cslot)] = {}
    /\ "USED" \notin flags[cslot]
    /\ WaitsAfter(cslot, 0)
    /\ spc \in {"idle", "first", "second", "copy", "copying", "mark", "marking"}
    /\ CopiesInto(cslot)
    /\ cpc \in {"read", "write"} => spc \in {"idle", "first", "second"} /\ flags[cslot] = {"COPYED"}
    /\ cpc = "write" => creg = flags[cslot]

\* Everything decoded is older than what is with the decoder, waits or is sent.
DecodedBefore ==
    \A i \in DOMAIN decoded :
        /\ decoded[i] <= frame
        /\ spc # "idle" => decoded[i] < frame
        /\ \A s \in Slot : Given(s) =>
              decoded[i] <= data[s] /\ (cpc # "clear" => decoded[i] < data[s])
        /\ Deciding => WaitsAfter(cslot, decoded[i])

InStep ==
    /\ spc # "idle" => frame # Torn
    /\ decoder # <<>> \/ cpc \in {"clear", "submit"} => \E s \in Slot : Given(s)
    /\ cpc = "idle" /\ decoder = <<>> => SendAlone
    /\ \A s \in Slot : Given(s) => SendBeside(s)
    /\ Deciding => CallbackView
    /\ DecodedBefore
    /\ DecodesIntact
    /\ DecodesInOrder

InputInv == InputTypeOK /\ (mixed \/ InStep)

-----------------------------------------------------------------------------
\* There are two buffers.
LEMMA OtherSlot ==
    ASSUME NEW s \in Slot
    PROVE  /\ Other(s) \in Slot /\ Other(s) # s /\ Other(Other(s)) = s
           /\ \A t \in Slot : t = s \/ t = Other(s)
  BY DEF Slot, Other

\* A decoder that has one buffer has no other one.
LEMMA OneBuffer ==
    ASSUME NEW q, NEW s, NEW a, q = <<[slot |-> s, frame |-> a]>>
    PROVE  /\ q # <<>> /\ Head(q).slot = s /\ Head(q).frame = a /\ Tail(q) = <<>>
           /\ \A t, b : q = <<[slot |-> t, frame |-> b]>> => t = s
  <1>1. ASSUME NEW t, NEW b, q = <<[slot |-> t, frame |-> b]>>
        PROVE  t = s
    <2>1. q[1].slot = t /\ q[1].slot = s
      BY <1>1
    <2> QED
      BY <2>1
  <1> QED
    BY <1>1

\* One buffer is given to the decoder, and callback() is not deciding then.
LEMMA GivenOne ==
    ASSUME NEW s, Given(s)
    PROVE  /\ \A t : Given(t) => t = s
           /\ ~Deciding
           /\ ~(cpc = "idle" /\ decoder = <<>>)
           /\ cpc = "idle" => Has(s)
           /\ cpc # "idle" => decoder = <<>> /\ cslot = s
  <1>1. CASE cpc = "idle"
    <2>1. decoder = <<[slot |-> s, frame |-> data[s]]>>
      BY <1>1 DEF Given, Has, Submission
    <2> QED
      BY <1>1, <2>1, OneBuffer DEF Given, Has, Submission, Deciding
  <1>2. CASE cpc # "idle"
    BY <1>2 DEF Given, Deciding
  <1> QED
    BY <1>1, <1>2

\* The statements about the buffers follow from the inductive invariant.
LEMMA InvSound == InputInv => BuffersSound
  <1> SUFFICES ASSUME InputInv, ~mixed
               PROVE  NeverBothUsed /\ UsedIsSubmitted
    BY DEF BuffersSound, InputInv, InStep
  <1> USE DEF InputInv, InStep
  <1>1. NeverBothUsed
    <2>1. cpc \in {"idle", "clear", "submit"} \/ Deciding
      BY DEF Deciding, InputTypeOK
    <2>2. CASE \E s \in Slot : Given(s)
      BY <2>2 DEF NeverBothUsed, SendBeside
    <2>3. CASE cpc = "idle" /\ decoder = <<>>
      BY <2>3 DEF NeverBothUsed, SendAlone
    <2>4. CASE Deciding
      BY <2>4 DEF NeverBothUsed, CallbackView
    <2> QED
      BY <2>1, <2>2, <2>3, <2>4
  <1>2. UsedIsSubmitted
    <2> SUFFICES ASSUME spc = "idle", cpc = "idle", NEW s \in Slot
                 PROVE  Used(s) <=> \E i \in DOMAIN decoder : decoder[i].slot = s
      BY DEF UsedIsSubmitted
    <2>1. CASE decoder = <<>>
      BY <2>1 DEF SendAlone, Used, Slot
    <2>2. CASE decoder # <<>>
      <3>1. PICK t \in Slot : Given(t)
        BY <2>2
      <3>2. Used(s) <=> s = t
        BY <3>1, OtherSlot DEF SendBeside, Used, Full
      <3>3. decoder = <<[slot |-> t, frame |-> data[t]]>>
        BY <3>1, GivenOne DEF Has, Submission
      <3> QED
        BY <3>2, <3>3
    <2> QED
      BY <2>1, <2>2
  <1> QED
    BY <1>1, <1>2

\* At the start both buffers are free.
LEMMA InitInputInv == InputInit => InputInv
  <1> SUFFICES ASSUME InputInit
               PROVE  InputInv
    OBVIOUS
  <1> USE MaxFramesAssumption DEF InputInit
  <1>1. InputTypeOK
    BY SMTT(30) DEF InputTypeOK, Torn, Slot
  <1>2. (~ \E s \in Slot : Given(s)) /\ ~Deciding
    BY DEF Given, Has, Submission, Deciding
  <1>3. SendAlone
    BY DEF SendAlone, Slot
  <1>4. DecodedBefore /\ DecodesIntact /\ DecodesInOrder
    BY DEF DecodedBefore, DecodesIntact, DecodesInOrder
  <1> QED
    BY <1>1, <1>2, <1>3, <1>4 DEF InputInv, InStep

\* send() keeps the types.
LEMMA SendTypes == InputTypeOK /\ (SendStart \/ SendStep) => InputTypeOK'
  <1> SUFFICES ASSUME InputTypeOK, SendStart \/ SendStep
               PROVE  InputTypeOK'
    OBVIOUS
  <1> USE MaxFramesAssumption DEF InputTypeOK, Unchanged, Choose, GoTo, callVars, Torn
  <1>0. 0 \in Slot /\ 1 \in Slot
    BY DEF Slot
  <1>1. CASE SendStart
    BY <1>0, <1>1 DEF SendStart
  <1>2. CASE TestFirst
    BY <1>0, <1>2 DEF TestFirst
  <1>3. CASE TestSecond
    BY <1>0, <1>3 DEF TestSecond
  <1>4. CASE TestThird
    BY <1>0, <1>4 DEF TestThird
  <1>5. CASE TestFourth
    BY <1>0, <1>5 DEF TestFourth
  <1>6. CASE CopyBegin
    BY <1>0, <1>6 DEF CopyBegin
  <1>7. CASE CopyEnd
    BY <1>0, <1>7 DEF CopyEnd
  <1>8. CASE ReadFlags
    BY <1>0, <1>8 DEF ReadFlags
  <1>9. CASE MarkCopyed
    BY <1>0, <1>9 DEF MarkCopyed
  <1>10. CASE MarkUsed
    BY <1>0, <1>10 DEF MarkUsed
  <1>11. CASE Submit
    <2>1. Submission(slot) \in [slot : Slot, frame : 0 .. MaxFrames]
      BY DEF Submission
    <2> QED
      BY <1>11, <2>1 DEF Submit
  <1> QED
    BY <1>1, <1>2, <1>3, <1>4, <1>5, <1>6, <1>7, <1>8, <1>9, <1>10, <1>11 DEF SendStep

\* callback() keeps the types.
LEMMA CallbackTypes == InputTypeOK /\ CallbackStep => InputTypeOK'
  <1> SUFFICES ASSUME InputTypeOK, CallbackStep
               PROVE  InputTypeOK'
    OBVIOUS
  <1> USE MaxFramesAssumption DEF InputTypeOK, sendVars
  <1>0. \A s \in Slot : 1 - s \in Slot
    BY DEF Slot
  <1>1. CASE CallbackStart
    <2> DEFINE Subs == [slot : Slot, frame : 0 .. MaxFrames]
    <2>0. decoder \in Seq(Subs) /\ decoder # <<>>
      BY <1>1 DEF CallbackStart
    <2> HIDE DEF Subs
    <2>1. Head(decoder) \in Subs /\ Tail(decoder) \in Seq(Subs)
      BY <2>0
    <2> USE DEF Subs
    <2>3. Append(decoded, Head(decoder).frame) \in Seq(0 .. MaxFrames)
      BY <2>1
    <2>4. damaged' \in BOOLEAN
      BY <1>1 DEF CallbackStart
    <2>5. /\ decoder' = Tail(decoder) /\ decoded' = Append(decoded, Head(decoder).frame)
          /\ cslot' \in Slot /\ cpc' = "clear" /\ UNCHANGED <<flags, data, sendVars, creg, mixed>>
      BY <1>1, <2>1 DEF CallbackStart
    <2> QED
      BY <2>1, <2>3, <2>4, <2>5
  <1>2. CASE Clear
    BY <1>0, <1>2 DEF Clear
  <1>3. CASE Look
    BY <1>3 DEF Look
  <1>4. CASE CallbackRead
    BY <1>4 DEF CallbackRead
  <1>5. CASE CallbackMark
    BY <1>5 DEF CallbackMark
  <1>6. CASE CallbackSubmit
    <2>1. Submission(cslot) \in [slot : Slot, frame : 0 .. MaxFrames]
      BY DEF Submission
    <2> QED
      BY <1>6, <2>1 DEF CallbackSubmit
  <1> QED
    BY <1>1, <1>2, <1>3, <1>4, <1>5, <1>6 DEF CallbackStep

\* send() while the decoder has nothing.
LEMMA SendAloneStep ==
    ASSUME InputTypeOK, InStep, SendStart \/ SendStep, cpc = "idle", decoder = <<>>
    PROVE  InStep'
  <1> USE MaxFramesAssumption DEF InStep, Unchanged, Choose, GoTo, Used, callVars, Torn
  <1> USE DEF SendStart, TestFirst, TestSecond, TestThird, TestFourth, CopyBegin, CopyEnd,
              ReadFlags, MarkCopyed, MarkUsed
  <1>0. 0 \in Slot /\ 1 \in Slot /\ \A s \in Slot : s = 0 \/ s = 1
    BY DEF Slot
  <1>1. spc \in {"idle", "first", "second", "copy", "copying", "mark", "marking",
                 "use", "using", "submit"}
    BY DEF SendAlone
  <1>2. UNCHANGED <<cpc, decoded, damaged>> /\ cpc' = "idle"
    BY DEF SendStep, Submit
  <1>3. DecodesIntact' /\ DecodesInOrder' /\ ~Deciding'
    BY <1>2 DEF DecodesIntact, DecodesInOrder, Deciding
  <1>5. CASE ~Submit
    <2>1. decoder' = <<>>
      BY <1>5 DEF SendStep
    <2>2. \A s \in Slot : ~Given(s)'
      BY <1>2, <2>1 DEF Given, Has, Submission
    <2>4. frame' \in Nat /\ frame' # Torn /\ spc' # "idle"
      BY <1>1, <1>5 DEF SendStep, InputTypeOK, SendAlone
    <2>5. SendAlone'
      <3>1. CASE SendStart \/ TestFirst \/ TestSecond \/ TestThird \/ TestFourth \/ ReadFlags
        BY <1>1, <3>1 DEF SendAlone, InputTypeOK
      <3>2. CASE CopyBegin \/ CopyEnd \/ MarkCopyed \/ MarkUsed
        BY <1>0, <1>1, <3>2 DEF SendAlone, InputTypeOK, Full
      <3> QED
        BY <1>5, <3>1, <3>2 DEF SendStep
    <2>6. DecodedBefore'
      <3> SUFFICES ASSUME NEW i \in DOMAIN decoded
                   PROVE  decoded[i] <= frame' /\ decoded[i] < frame'
        BY <1>2, <1>3, <2>2 DEF DecodedBefore
      <3>1. decoded[i] \in Nat /\ frame \in Nat
        BY DEF InputTypeOK
      <3>2. decoded[i] <= frame /\ (spc # "idle" => decoded[i] < frame)
        BY DEF DecodedBefore
      <3>3. (spc = "idle" /\ frame' = frame + 1) \/ (spc # "idle" /\ frame' = frame)
        BY <1>5 DEF SendStep
      <3> QED
        BY <3>1, <3>2, <3>3
    <2> QED
      BY <1>2, <1>3, <2>1, <2>2, <2>4, <2>5, <2>6
  <1>6. CASE Submit
    <2>1. /\ slot = 0 /\ spc = "submit" /\ spc' = "idle" /\ data[0] = frame
          /\ flags[0] = Full /\ flags[1] = {} /\ frame # Torn
          /\ UNCHANGED <<flags, data, frame, slot, doempty, sreg, cslot, creg>>
      BY <1>6 DEF Submit, SendAlone
    <2>2. decoder' = <<[slot |-> 0, frame |-> data'[0]]>>
      BY <1>6, <2>1 DEF Submit, Submission
    <2>3. decoder' # <<>> /\ Given(0)' /\ \A s : Given(s)' => s = 0
      BY <1>2, <2>2, OneBuffer DEF Given, Has, Submission
    <2>6. SendBeside(0)'
      <3>1. Other(0) = 1
        BY DEF Other
      <3> QED
        BY <1>2, <2>1, <2>3, <3>1 DEF SendBeside, WaitsAfter, CopiesInto, Full, InputTypeOK
    <2>7. DecodedBefore'
      BY <1>2, <1>3, <2>1, <2>3 DEF DecodedBefore
    <2> QED
      BY <1>0, <1>2, <1>3, <2>1, <2>3, <2>6, <2>7
  <1> QED
    BY <1>5, <1>6

\* send() while the decoder has a buffer, or is giving it back, or is about to get it.
LEMMA SendBesideStep ==
    ASSUME InputTypeOK, InStep, SendStart \/ SendStep, NEW s \in Slot, Given(s)
    PROVE  InStep'
  <1> USE MaxFramesAssumption DEF InStep, Unchanged, Choose, GoTo, Used, callVars, Torn
  <1> USE DEF SendStart, TestFirst, TestSecond, TestThird, TestFourth, CopyBegin, CopyEnd,
              ReadFlags, MarkCopyed, MarkUsed
  <1> DEFINE o == Other(s)
  <1>0. /\ o \in Slot /\ o # s /\ \A t \in Slot : t = s \/ t = o
        /\ 0 \in Slot /\ 1 \in Slot /\ (s = 0 => o = 1) /\ (s = 1 => o = 0)
    BY OtherSlot DEF Slot, Other
  <1> HIDE DEF o
  <1>1. /\ spc \in {"idle", "first", "second", "third", "fourth", "copy", "copying",
                    "mark", "marking"}
        /\ flags[s] = Full /\ "USED" \notin flags[o]
        /\ data[s] # Torn /\ data[s] <= frame /\ (spc # "idle" => data[s] < frame)
        /\ WaitsAfter(o, data[s])
        /\ spc = "second" => s = 1
        /\ spc = "fourth" => s = 0
        /\ spc \in {"copy", "copying", "mark", "marking"} => slot = o /\ ~doempty
        /\ spc \in {"mark", "marking"} => data[o] = frame
        /\ spc = "marking" => sreg = flags[o]
    BY DEF SendBeside, CopiesInto, o
  <1>2. /\ UNCHANGED <<cpc, cslot, decoded, damaged, decoder>>
        /\ spc \notin {"use", "using", "submit"}
    BY <1>1 DEF SendStep, Submit
  <1>3. DecodesIntact' /\ DecodesInOrder'
    BY <1>2 DEF DecodesIntact, DecodesInOrder
  <1>4. InputTypeOK'
    BY SendTypes
  <1>5. data'[s] = data[s] /\ flags'[s] = flags[s]
    BY <1>0, <1>1 DEF SendStep, Submit, InputTypeOK
  <1>6. /\ Given(s)' /\ (\A t : Given(t)' => t = s)
        /\ ~Deciding' /\ ~(cpc' = "idle" /\ decoder' = <<>>)
    <2>1. Given(s)'
      BY <1>2, <1>5 DEF Given, Has, Submission
    <2>2. CASE cpc = "idle"
      <3>1. decoder = <<[slot |-> s, frame |-> data[s]]>>
        BY <2>2 DEF Given, Has, Submission
      <3> QED
        BY <1>2, <2>1, <2>2, <3>1, OneBuffer DEF Given, Has, Submission, Deciding
    <2>3. CASE cpc # "idle"
      BY <1>2, <2>1, <2>3 DEF Given, Deciding
    <2> QED
      BY <2>2, <2>3
  <1>7. /\ (spc = "idle" /\ frame' = frame + 1) \/ (spc # "idle" /\ frame' = frame)
        /\ frame' # Torn
    BY <1>1, <1>2 DEF SendStep, Submit, InputTypeOK
  <1>9. SendBeside(s)'
    <2>1. /\ frame \in Nat /\ data[s] \in Nat /\ data[s] # Torn /\ data[s] <= frame'
          /\ data[s] < frame'
      BY <1>1, <1>7, <1>0 DEF InputTypeOK
    <2>2. /\ spc' \in {"idle", "first", "second", "third", "fourth", "copy", "copying",
                       "mark", "marking"}
          /\ spc' = "second" => s = 1
          /\ spc' = "fourth" => s = 0
          /\ spc' \in {"copy", "copying", "mark", "marking"} => slot' = o /\ ~doempty'
      BY <1>0, <1>1, <1>2 DEF SendStep, Submit, Full
    <2>3. /\ "USED" \notin flags'[o]
          /\ spc' # "copying" /\ "COPYED" \in flags'[o] =>
                 /\ data'[o] > data[s] /\ data'[o] <= frame'
                 /\ spc' \in {"first", "second", "third", "fourth"} => data'[o] < frame'
          /\ spc' \in {"mark", "marking"} => data'[o] = frame'
          /\ spc' = "marking" => sreg' = flags'[o]
      <3>1. CASE SendStart \/ TestFirst \/ TestSecond \/ TestThird \/ TestFourth
        BY <1>0, <1>1, <1>7, <2>1, <2>2, <3>1 DEF WaitsAfter, InputTypeOK
      <3>2. CASE CopyBegin
        BY <1>1, <1>0, <3>2 DEF InputTypeOK
      <3>3. CASE CopyEnd
        BY <1>1, <1>0, <2>1, <3>3 DEF InputTypeOK
      <3>4. CASE ReadFlags
        BY <1>1, <1>0, <2>1, <3>4 DEF InputTypeOK, WaitsAfter
      <3>5. CASE MarkCopyed
        BY <1>1, <1>0, <2>1, <3>5 DEF InputTypeOK
      <3> QED
        BY <1>2, <3>1, <3>2, <3>3, <3>4, <3>5 DEF SendStep, Submit
    <2> QED
      BY <1>1, <1>2, <1>5, <2>1, <2>2, <2>3 DEF SendBeside, CopiesInto, WaitsAfter, o
  <1>11. DecodedBefore'
    <2> SUFFICES ASSUME NEW i \in DOMAIN decoded
                 PROVE  /\ decoded[i] <= frame' /\ decoded[i] < frame'
                        /\ decoded[i] <= data'[s] /\ (cpc # "clear" => decoded[i] < data'[s])
      BY <1>2, <1>6 DEF DecodedBefore
    <2>1. decoded[i] \in Nat /\ frame \in Nat /\ data[s] \in Nat
      BY DEF InputTypeOK
    <2>2. /\ decoded[i] <= frame /\ (spc # "idle" => decoded[i] < frame)
          /\ decoded[i] <= data[s] /\ (cpc # "clear" => decoded[i] < data[s])
      BY DEF DecodedBefore
    <2> QED
      BY <1>5, <1>7, <2>1, <2>2
  <1> QED
    BY <1>3, <1>6, <1>7, <1>9, <1>11

\* send() while callback() looks for a frame in the other buffer.
LEMMA SendDecidingStep ==
    ASSUME InputTypeOK, InStep, SendStart \/ SendStep, Deciding, ~mixed'
    PROVE  InStep'
  <1> USE MaxFramesAssumption DEF InStep, Unchanged, Choose, GoTo, Used, callVars, Torn
  <1> USE DEF SendStart, TestFirst, TestSecond, TestThird, TestFourth, CopyBegin, CopyEnd,
              ReadFlags, MarkCopyed, MarkUsed
  <1> DEFINE b == Other(cslot)
  <1>0. /\ cslot \in Slot /\ b \in Slot /\ b # cslot /\ \A t \in Slot : t = cslot \/ t = b
        /\ 0 \in Slot /\ 1 \in Slot
    BY OtherSlot DEF Slot, Other, InputTypeOK
  <1> HIDE DEF b
  <1>1. /\ flags[b] = {} /\ "USED" \notin flags[cslot]
        /\ WaitsAfter(cslot, 0)
        /\ spc \in {"idle", "first", "second", "copy", "copying", "mark", "marking"}
        /\ spc \in {"copy", "copying", "mark", "marking"} => slot = cslot /\ ~doempty
        /\ spc \in {"mark", "marking"} => data[cslot] = frame
        /\ spc = "marking" => sreg = flags[cslot]
        /\ cpc \in {"read", "write"} =>
               spc \in {"idle", "first", "second"} /\ flags[cslot] = {"COPYED"}
        /\ cpc = "write" => creg = flags[cslot]
    BY DEF CallbackView, CopiesInto, b
  <1>2. /\ UNCHANGED <<cpc, cslot, creg, decoded, damaged, decoder>>
        /\ ~TestSecond /\ spc \notin {"third", "fourth", "use", "using", "submit"}
    BY <1>0, <1>1, Zenon DEF SendStep, Submit
  <1>3. /\ DecodesIntact' /\ DecodesInOrder' /\ Deciding' /\ ~(cpc' = "idle")
        /\ \A t : ~Given(t)'
    BY <1>2 DEF DecodesIntact, DecodesInOrder, Deciding, Given
  <1>4. flags \in [Slot -> SUBSET Full] /\ frame \in Nat /\ data \in [Slot -> Nat]
    BY DEF InputTypeOK, Full
  <1>5. /\ (spc = "idle" /\ spc' = "first" /\ frame' = frame + 1) \/ (spc # "idle" /\ frame' = frame)
        /\ frame' # Torn
    BY <1>1, <1>2, <1>4 DEF SendStep, Submit
  <1>6. ASSUME NEW f \in Nat, WaitsAfter(cslot, f), f <= frame, spc # "idle" => f < frame
        PROVE  WaitsAfter(cslot, f)'
    <2>1. data[cslot] \in Nat
      BY <1>0, <1>4
    <2> SUFFICES spc' # "copying" /\ "COPYED" \in flags'[cslot] =>
                     /\ data'[cslot] > f /\ data'[cslot] <= frame'
                     /\ spc' \in {"first", "second", "third", "fourth"} => data'[cslot] < frame'
      BY <1>2 DEF WaitsAfter
    <2>2. CASE SendStart \/ TestFirst
      BY <1>1, <1>4, <1>6, <2>1, <2>2 DEF WaitsAfter
    <2>3. CASE CopyBegin
      BY <2>3
    <2>4. CASE CopyEnd
      BY <1>0, <1>1, <1>4, <1>6, <2>4
    <2>5. CASE ReadFlags
      BY <1>1, <1>2, <1>4, <1>6, <2>5 DEF WaitsAfter
    <2>6. CASE MarkCopyed
      BY <1>0, <1>1, <1>4, <1>6, <2>6
    <2> QED
      BY <1>2, <2>2, <2>3, <2>4, <2>5, <2>6 DEF SendStep, Submit
  <1>7. CallbackView'
    <2>1. WaitsAfter(cslot, 0)'
      BY <1>1, <1>4, <1>6
    <2>2. /\ flags'[b] = {} /\ "USED" \notin flags'[cslot]
          /\ spc' \in {"idle", "first", "second", "copy", "copying", "mark", "marking"}
          /\ spc' \in {"copy", "copying", "mark", "marking"} => slot' = cslot /\ ~doempty'
          /\ spc' \in {"mark", "marking"} => data'[cslot] = frame'
          /\ spc' = "marking" => sreg' = flags'[cslot]
          /\ cpc \in {"read", "write"} =>
                 spc' \in {"idle", "first", "second"} /\ flags'[cslot] = {"COPYED"}
          /\ cpc = "write" => creg = flags'[cslot]
      <3>1. CASE SendStart \/ TestFirst
        <4>1. /\ spc' \in {"first", "second"} /\ UNCHANGED <<flags, data>>
              /\ cpc \in {"read", "write"} => flags[cslot] = {"COPYED"}
          BY <1>0, <1>1, <3>1
        <4> QED
          BY <1>1, <4>1
      <3>2. CASE CopyBegin \/ CopyEnd
        BY <1>0, <1>1, <1>4, <3>2
      <3>3. CASE ReadFlags
        BY <1>1, <1>2, <3>3
      <3>4. CASE MarkCopyed
        BY <1>0, <1>1, <1>4, <3>4
      <3> QED
        BY <1>2, <3>1, <3>2, <3>3, <3>4 DEF SendStep, Submit
    <2> QED
      BY <1>2, <2>1, <2>2 DEF CallbackView, CopiesInto, WaitsAfter, b
  <1>8. DecodedBefore'
    <2> SUFFICES ASSUME NEW i \in DOMAIN decoded, NEW f, f = decoded[i]
                 PROVE  f <= frame' /\ f < frame' /\ WaitsAfter(cslot, f)'
      BY <1>2, <1>3 DEF DecodedBefore, WaitsAfter
    <2>1. f \in Nat
      BY DEF InputTypeOK
    <2>2. f <= frame /\ (spc # "idle" => f < frame) /\ WaitsAfter(cslot, f)
      BY DEF DecodedBefore
    <2>3. f <= frame' /\ f < frame'
      BY <1>4, <1>5, <2>1, <2>2
    <2> QED
      BY <1>6, <2>1, <2>2, <2>3
  <1> QED
    <2>1. decoder' = <<>>
      BY <1>2 DEF Given, Deciding
    <2> QED
      BY <1>3, <1>5, <1>7, <1>8, <2>1 DEF Deciding

\* callback() takes the buffer back and hands over the other one if a frame waits in it.
LEMMA CallbackInv ==
    ASSUME InputTypeOK, InStep, CallbackStep, ~mixed'
    PROVE  InStep'
  <1> USE MaxFramesAssumption DEF InStep, sendVars, Torn
  <1>0. InputTypeOK' /\ UNCHANGED <<data, spc, frame, slot, doempty, sreg>>
    BY CallbackTypes DEF CallbackStep, CallbackStart, Clear, Look, CallbackRead, CallbackMark,
                         CallbackSubmit
  <1>00. /\ frame \in Nat /\ data \in [Slot -> Nat] /\ cslot \in Slot
         /\ \A t \in Slot : Other(t) \in Slot /\ Other(t) # t /\ Other(Other(t)) = t
         /\ flags \in [Slot -> SUBSET Full]
         /\ \A i \in DOMAIN decoded : decoded[i] \in Nat
    BY OtherSlot DEF InputTypeOK, Full
  <1>1. CASE CallbackStart
    <2>1. PICK s \in Slot : Given(s)
      BY <1>1 DEF CallbackStart
    <2>2. decoder = <<[slot |-> s, frame |-> data[s]]>>
      BY <1>1, <2>1, GivenOne DEF CallbackStart, Has, Submission
    <2>3. /\ decoder' = <<>> /\ decoded' = Append(decoded, data[s]) /\ cslot' = s
          /\ cpc = "idle" /\ cpc' = "clear" /\ flags' = flags
          /\ damaged' = (damaged \/ data[s] # data[s] \/ data[s] = Torn)
      BY <1>1, <2>2, OneBuffer DEF CallbackStart
    <2>4. /\ SendBeside(s) /\ data[s] # Torn /\ data[s] <= frame
          /\ (spc # "idle" => data[s] < frame)
      BY <2>1 DEF SendBeside
    <2>6. Given(s)' /\ (\A t : Given(t)' => t = s) /\ ~Deciding'
      BY <2>3 DEF Given, Deciding
    <2>7. DecodesIntact'
      BY <2>3, <2>4 DEF DecodesIntact
    <2>8. /\ DOMAIN decoded' = DOMAIN decoded \union {Len(decoded) + 1}
          /\ \A i \in DOMAIN decoded : decoded'[i] = decoded[i] /\ i < Len(decoded) + 1
          /\ decoded'[Len(decoded) + 1] = data[s]
          /\ \A i \in DOMAIN decoded : decoded[i] \in Nat /\ i \in Nat
          /\ Len(decoded) \in Nat
      BY <2>3, SMTT(30) DEF InputTypeOK
    <2>9. \A i \in DOMAIN decoded : decoded[i] < data[s]
      BY <2>1, <2>3 DEF DecodedBefore
    <2>10. DecodesInOrder'
      <3> SUFFICES ASSUME NEW i \in DOMAIN decoded', NEW j \in DOMAIN decoded', i < j
                   PROVE  decoded'[i] < decoded'[j]
        BY DEF DecodesInOrder
      <3>1. i \in DOMAIN decoded
        BY <2>8
      <3>2. CASE j \in DOMAIN decoded
        BY <2>8, <3>1, <3>2 DEF DecodesInOrder
      <3>3. CASE j = Len(decoded) + 1
        BY <2>8, <2>9, <3>1, <3>3
      <3> QED
        BY <2>8, <3>2, <3>3
    <2>11. DecodedBefore'
      <3> SUFFICES ASSUME NEW i \in DOMAIN decoded'
                   PROVE  /\ decoded'[i] <= frame
                          /\ spc # "idle" => decoded'[i] < frame
                          /\ decoded'[i] <= data[s]
        BY <1>0, <2>3, <2>6 DEF DecodedBefore
      <3>1. CASE i \in DOMAIN decoded
        BY <1>00, <2>4, <2>8, <2>9, <3>1 DEF DecodedBefore
      <3>2. CASE i = Len(decoded) + 1
        BY <1>00, <2>4, <2>8, <3>2
      <3> QED
        BY <2>8, <3>1, <3>2
    <2>12. SendBeside(s)'
      BY <1>0, <2>3, <2>4 DEF SendBeside, WaitsAfter, CopiesInto
    <2> QED
      BY <1>0, <2>3, <2>6, <2>7, <2>10, <2>11, <2>12
  <1>2. CASE Clear
    <2>0. PICK o \in Slot : o = Other(cslot)
      BY <1>00
    <2>1. /\ Given(cslot) /\ cpc = "clear" /\ decoder = <<>>
      BY <1>2 DEF Clear, Given
    <2>2. /\ cpc' = "look" /\ cslot' = o /\ Other(o) = cslot /\ o \in Slot
          /\ flags'[cslot] = {} /\ flags'[o] = flags[o]
          /\ UNCHANGED <<decoder, decoded, damaged>> /\ spc \notin {"third", "fourth"}
      BY <1>00, <1>2, <2>0 DEF Clear, Other
    <2>3. SendBeside(cslot)
      BY <1>00, <2>1
    <2>4. Deciding' /\ \A t : ~Given(t)'
      BY <2>2 DEF Deciding, Given
    <2>5. /\ "USED" \notin flags[o] /\ WaitsAfter(o, data[cslot]) /\ CopiesInto(o)
          /\ spc \in {"idle", "first", "second", "third", "fourth", "copy", "copying",
                      "mark", "marking"}
      BY <2>0, <2>3 DEF SendBeside
    <2>6. CallbackView'
      <3>1. data[cslot] \in Nat /\ data[o] \in Nat
        BY <1>00, <2>2
      <3>2. WaitsAfter(o, 0)'
        BY <1>0, <1>00, <2>2, <2>5, <3>1 DEF WaitsAfter
      <3>3. CopiesInto(o)'
        BY <1>0, <2>2, <2>5 DEF CopiesInto
      <3>4. o = cslot'
        BY <2>2
      <3> QED
        BY <1>0, <2>2, <2>5, <3>2, <3>3 DEF CallbackView, WaitsAfter, CopiesInto
    <2>7. DecodedBefore'
      <3> SUFFICES ASSUME NEW i \in DOMAIN decoded
                   PROVE  /\ decoded[i] <= frame /\ (spc # "idle" => decoded[i] < frame)
                          /\ spc # "copying" /\ "COPYED" \in flags[o] =>
                                 /\ data[o] > decoded[i] /\ data[o] <= frame
                                 /\ spc \in {"first", "second", "third", "fourth"} => data[o] < frame
        BY <1>0, <2>2, <2>4 DEF DecodedBefore, WaitsAfter
      <3>1. /\ decoded[i] <= frame /\ (spc # "idle" => decoded[i] < frame)
            /\ decoded[i] <= data[cslot]
        BY <1>00, <2>1 DEF DecodedBefore
      <3>2. decoded[i] \in Nat /\ data[cslot] \in Nat /\ data[o] \in Nat
        BY <1>00, <2>2
      <3> QED
        BY <2>5, <3>1, <3>2 DEF WaitsAfter
    <2> QED
      BY <1>0, <2>1, <2>2, <2>4, <2>6, <2>7 DEF DecodesIntact, DecodesInOrder
  <1>3. CASE Look
    <2>1. /\ cpc = "look" /\ Deciding /\ ~Copying(cslot)
          /\ UNCHANGED <<flags, cslot, creg, decoder, decoded, damaged>>
          /\ cpc' = IF "COPYED" \in flags[cslot] THEN "read" ELSE "idle"
      BY <1>3 DEF Look, Deciding
    <2>2. /\ flags[Other(cslot)] = {} /\ "USED" \notin flags[cslot]
          /\ spc \in {"idle", "first", "second"}
      BY <2>1 DEF CallbackView, CopiesInto, Copying
    <2>3. CASE cpc' = "read"
      <3>1. Deciding' /\ \A t : ~Given(t)'
        BY <2>3 DEF Deciding, Given
      <3>2. flags[cslot] = {"COPYED"}
        BY <1>00, <2>1, <2>2, <2>3 DEF Full
      <3>3. CallbackView'
        BY <1>0, <2>1, <2>2, <2>3, <3>2 DEF CallbackView, WaitsAfter, CopiesInto
      <3>4. DecodedBefore'
        BY <1>0, <2>1, <3>1 DEF DecodedBefore, WaitsAfter
      <3> QED
        BY <1>0, <2>1, <2>3, <3>1, <3>3, <3>4 DEF DecodesIntact, DecodesInOrder, Given, Deciding
    <2>4. CASE cpc' = "idle" /\ "COPYED" \notin flags[cslot]
      <3>1. flags[cslot] = {}
        BY <1>00, <2>2, <2>4 DEF Full
      <3>2. flags[0] = {} /\ flags[1] = {}
        BY <1>00, <2>2, <3>1 DEF Other, Slot
      <3>3. decoder = <<>>
        BY <2>1 DEF Given, Deciding
      <3>4. ~Deciding' /\ \A t : ~Given(t)'
        BY <2>1, <2>4, <3>3 DEF Deciding, Given, Has, Submission
      <3>5. SendAlone'
        BY <1>0, <2>1, <2>2, <3>2 DEF SendAlone
      <3>6. DecodedBefore'
        BY <1>0, <2>1, <3>4 DEF DecodedBefore
      <3> QED
        BY <1>0, <2>1, <2>4, <3>3, <3>4, <3>5, <3>6 DEF DecodesIntact, DecodesInOrder
    <2> QED
      BY <2>1, <2>3, <2>4
  <1>4. CASE CallbackRead
    <2>1. /\ cpc = "read" /\ cpc' = "write" /\ Deciding /\ Deciding' /\ creg' = flags[cslot]
          /\ UNCHANGED <<flags, cslot, decoder, decoded, damaged>> /\ \A t : ~Given(t)'
      BY <1>4 DEF CallbackRead, Deciding, Given
    <2>2. CallbackView'
      BY <1>0, <2>1 DEF CallbackView, WaitsAfter, CopiesInto
    <2>3. DecodedBefore'
      BY <1>0, <2>1 DEF DecodedBefore, WaitsAfter
    <2>4. decoder = <<>>
      BY <2>1 DEF Given, Deciding
    <2> QED
      BY <1>0, <2>1, <2>2, <2>3, <2>4 DEF DecodesIntact, DecodesInOrder
  <1>5. CASE CallbackMark
    <2> DEFINE o == Other(cslot)
    <2>1. /\ cpc = "write" /\ cpc' = "submit" /\ Deciding /\ ~Deciding'
          /\ ~(spc = "second" /\ cslot = 0)
          /\ UNCHANGED <<cslot, decoder, decoded, damaged>>
      BY <1>5 DEF CallbackMark, Deciding
    <2>2. /\ flags[o] = {} /\ spc \in {"idle", "first", "second"} /\ flags[cslot] = {"COPYED"}
          /\ creg = flags[cslot] /\ WaitsAfter(cslot, 0)
      BY <2>1 DEF CallbackView
    <2>3. flags'[cslot] = Full /\ flags'[o] = {} /\ o \in Slot /\ o # cslot
      BY <1>00, <1>5, <2>2 DEF CallbackMark, Full
    <2>4. data[cslot] # Torn /\ data[cslot] <= frame /\ (spc # "idle" => data[cslot] < frame)
      BY <1>00, <2>2 DEF WaitsAfter
    <2>5. decoder = <<>>
      BY <2>1 DEF Given, Deciding
    <2>6. Given(cslot)' /\ \A t : Given(t)' => t = cslot
      BY <2>1, <2>5 DEF Given
    <2> HIDE DEF o
    <2>7. SendBeside(cslot)'
      <3>1. spc = "second" => cslot = 1
        BY <1>00, <2>1 DEF Slot
      <3> QED
        BY <1>0, <2>1, <2>2, <2>3, <2>4, <3>1 DEF SendBeside, WaitsAfter, CopiesInto, o
    <2>8. DecodedBefore'
      <3> SUFFICES ASSUME NEW i \in DOMAIN decoded
                   PROVE  /\ decoded[i] <= frame /\ (spc # "idle" => decoded[i] < frame)
                          /\ decoded[i] <= data[cslot] /\ decoded[i] < data[cslot]
        BY <1>0, <2>1, <2>6 DEF DecodedBefore
      <3>1. /\ decoded[i] <= frame /\ (spc # "idle" => decoded[i] < frame)
            /\ WaitsAfter(cslot, decoded[i])
        BY <2>1 DEF DecodedBefore
      <3> QED
        BY <1>00, <2>2, <3>1 DEF WaitsAfter
    <2> QED
      BY <1>0, <1>00, <2>1, <2>5, <2>6, <2>7, <2>8 DEF DecodesIntact, DecodesInOrder
  <1>6. CASE CallbackSubmit
    <2>1. /\ cpc = "submit" /\ cpc' = "idle" /\ Given(cslot) /\ ~Deciding'
          /\ UNCHANGED <<flags, cslot, decoded, damaged>>
      BY <1>6 DEF CallbackSubmit, Given, Deciding
    <2>2. decoder' = <<[slot |-> cslot, frame |-> data'[cslot]]>>
      BY <1>0, <1>6, <2>1 DEF CallbackSubmit, Given, Submission
    <2>3. Given(cslot)' /\ (\A t : Given(t)' => t = cslot) /\ decoder' # <<>>
      BY <2>1, <2>2, OneBuffer DEF Given, Has, Submission
    <2>4. SendBeside(cslot)'
      BY <1>0, <1>00, <2>1 DEF SendBeside, WaitsAfter, CopiesInto
    <2>5. DecodedBefore'
      BY <1>0, <1>00, <2>1, <2>3 DEF DecodedBefore
    <2> QED
      BY <1>0, <1>00, <2>1, <2>3, <2>4, <2>5 DEF DecodesIntact, DecodesInOrder
  <1> QED
    BY <1>1, <1>2, <1>3, <1>4, <1>5, <1>6 DEF CallbackStep

\* However many frames are sent and wherever the callbacks fall, as long as neither
\* thread goes by flags that the other is changing: a frame always finds a buffer, no
\* frame is touched while the decoder has it, frames are decoded whole, in order and
\* once, and a buffer is marked used exactly while the decoder has it.
THEOREM InputSound == InputSpec => []BuffersSound
  <1>1. InputInv /\ UNCHANGED inputVars => InputInv'
    <2> SUFFICES ASSUME InputInv, UNCHANGED inputVars
                 PROVE  InputInv'
      OBVIOUS
    <2> USE DEF inputVars, sendVars, callVars
    <2>1. InputTypeOK' /\ mixed' = mixed
      BY DEF InputInv, InputTypeOK
    <2>2. SendAlone = SendAlone' /\ CallbackView = CallbackView' /\ Deciding = Deciding'
      BY Zenon DEF SendAlone, CallbackView, Deciding, WaitsAfter, CopiesInto
    <2>3. ASSUME NEW s \in Slot
          PROVE  Given(s) = Given(s)' /\ SendBeside(s) = SendBeside(s)'
      BY Zenon DEF Given, Has, Submission, SendBeside, WaitsAfter, CopiesInto
    <2>4. DecodedBefore = DecodedBefore'
      BY Zenon, <2>2, <2>3 DEF DecodedBefore, WaitsAfter
    <2> QED
      BY <2>1, <2>2, <2>3, <2>4 DEF InputInv, InStep, DecodesIntact, DecodesInOrder
  <1>2. InputInv /\ [InputNext]_inputVars => InputInv'
    <2> SUFFICES ASSUME InputInv, [InputNext]_inputVars
                 PROVE  InputInv'
      OBVIOUS
    <2>1. CASE SendStart \/ SendStep
      <3>1. InputTypeOK'
        BY <2>1, SendTypes DEF InputInv
      <3>2. mixed => mixed'
        BY <2>1 DEF SendStart, SendStep, TestFirst, TestSecond, TestThird, TestFourth, CopyBegin,
                    CopyEnd, ReadFlags, MarkCopyed, MarkUsed, Submit, Choose, GoTo
      <3>3. ASSUME ~mixed'
            PROVE  InStep'
        <4>1. InputTypeOK /\ InStep
          BY <3>2, <3>3 DEF InputInv
        <4>2. CASE cpc = "idle" /\ decoder = <<>>
          BY <2>1, <4>1, <4>2, SendAloneStep
        <4>3. CASE \E s \in Slot : Given(s)
          BY <2>1, <4>1, <4>3, SendBesideStep
        <4>4. CASE Deciding
          BY <2>1, <3>3, <4>1, <4>4, SendDecidingStep
        <4> QED
          BY <4>1, <4>2, <4>3, <4>4 DEF InStep, InputTypeOK, Deciding
      <3> QED
        BY <3>1, <3>3 DEF InputInv
    <2>2. CASE CallbackStep
      <3>1. InputTypeOK'
        BY <2>2, CallbackTypes DEF InputInv
      <3>2. mixed => mixed'
        BY <2>2 DEF CallbackStep, CallbackStart, Clear, Look, CallbackRead, CallbackMark,
                    CallbackSubmit
      <3> QED
        BY <2>2, <3>1, <3>2, CallbackInv DEF InputInv
    <2>3. CASE UNCHANGED inputVars
      BY <1>1, <2>3
    <2> QED
      BY <2>1, <2>2, <2>3 DEF InputNext, Terminated
  <1> QED
    BY InitInputInv, InvSound, <1>2, PTL DEF InputSpec

-----------------------------------------------------------------------------
(* The player                                                               *)

\* Between hgs_stop and the next hgs_start nothing of a round is left in the network
\* thread, and while that runs there is a Main or what it will be made of.
InRounds ==
    /\ java = "idle" /\ jni_stage_ = 0 => rtph264_ = 0 /\ net = "off"
    /\ java \in {"stop", "destroy", "joinmain"} => rtph264_ = 0 /\ net = "off"
    /\ java # "idle" => jni_stage_ = 0
    /\ net = "run" => main_ # Nothing \/ tmpargs_ # {}

Posts == Seq({"teardown", "stop"})

Nets == {"off", "run", "make", "ended"}

Numbers ==
    /\ rounds \in 0 .. MaxRounds
    /\ rtph264_ \in 0 .. MaxRounds
    /\ icount \in 0 .. MaxDecoded
    /\ ocount \in 0 .. icount

Words ==
    /\ java \in {"idle", "join", "stop", "destroy", "joinmain"}
    /\ jni_stage_ \in 0 .. 1
    /\ tmpargs_ \subseteq {"args", "sps", "pps"}
    /\ main_ \in {Nothing, "main"}
    /\ args_ \in BOOLEAN
    /\ net \in Nets
    /\ tcpsock_ \in {"closed", "connecting", "open", "lost"}
    /\ action \in {Nothing, "options", "describe", "setup", "play"}
    /\ step \in {Nothing, "write", "head", "body"}
    /\ playing \in BOOLEAN
    /\ out \in {"off", "loop", "poll", "render", "ended", "hung"}
    /\ stopped \in BOOLEAN
    /\ died \in {Nothing, "null", "exception", "freed"}

PlayerTypes == posts \in Posts /\ Numbers /\ Words

PlayerInv == PlayerTypes /\ InRounds

PlayerSpec == PlayerInit /\ [][PlayerNext]_playerVars

\* The threads begin with nothing under way.
LEMMA InitPlayerInv == PlayerInit => PlayerInv
  <1> SUFFICES ASSUME PlayerInit
               PROVE  PlayerInv
    OBVIOUS
  <1>1. posts \in Posts
    BY EmptySeq DEF PlayerInit, Posts
  <1>2. rounds \in 0 .. MaxRounds /\ rtph264_ \in 0 .. MaxRounds /\ icount \in 0 .. MaxDecoded
    BY PlayerAssumption DEF PlayerInit
  <1>3. Words
    <2>1. /\ java = "idle" /\ net = "off" /\ tcpsock_ = "closed" /\ out = "off"
          /\ main_ = Nothing /\ action = Nothing /\ step = Nothing /\ died = Nothing
      BY DEF PlayerInit
    <2>2. jni_stage_ \in 0 .. 1 /\ tmpargs_ \subseteq {"args", "sps", "pps"}
      BY DEF PlayerInit
    <2>3. args_ \in BOOLEAN /\ playing \in BOOLEAN /\ stopped \in BOOLEAN
      BY DEF PlayerInit
    <2> QED
      BY <2>1, <2>2, <2>3 DEF Words, Nets
  <1>4. Numbers
    BY <1>2 DEF PlayerInit, Numbers
  <1> QED
    BY <1>1, <1>3, <1>4 DEF PlayerTypes, PlayerInit, PlayerInv, InRounds

\* The variables of the network and of the output thread, one by one.
LEMMA Flat ==
    /\ UNCHANGED netvars =>
           UNCHANGED rtph264_ /\ UNCHANGED net /\ UNCHANGED posts /\ UNCHANGED tcpsock_
           /\ UNCHANGED action /\ UNCHANGED step /\ UNCHANGED playing
    /\ UNCHANGED outvars =>
           UNCHANGED out /\ UNCHANGED stopped /\ UNCHANGED icount /\ UNCHANGED ocount
  BY DEF netvars, outvars

\* What a call of the Java thread does.
LEMMA JavaPlayerInv ==
    ASSUME PlayerInv, Java
    PROVE  PlayerInv'
  <1>0. PlayerTypes /\ InRounds
    BY DEF PlayerInv
  <1>1. CASE hgs_init
    <2>1. PlayerTypes'
      <3>1. posts' \in Posts
        BY <1>0, <1>1, PlayerAssumption, Flat DEF hgs_init, PlayerTypes
      <3>2. Words'
        BY <1>0, <1>1, PlayerAssumption, Flat DEF hgs_init, PlayerTypes, Words
      <3>3. Numbers'
        BY <1>0, <1>1, PlayerAssumption, Flat DEF hgs_init, PlayerTypes, Numbers
      <3> QED
        BY <3>1, <3>2, <3>3 DEF PlayerTypes
    <2> QED
      BY <1>0, <1>1, <2>1, Flat DEF hgs_init, InRounds, PlayerInv
  <1>2. CASE hgs_start
    <2>1. /\ died' = died /\ rtph264_' = rounds /\ net' = "run" /\ posts' = <<>>
          /\ tcpsock_' = "connecting" /\ UNCHANGED <<action, step, playing>>
      BY <1>0, <1>2 DEF hgs_start, hgsnwk_run, InRounds
    <2>2. posts' \in Posts
      BY <2>1, EmptySeq DEF Posts
    <2>3. PlayerTypes'
      <3>1. posts' \in Posts
        BY <1>0, <1>2, <2>1, <2>2, Flat DEF hgs_start, Nets, PlayerTypes
      <3>2. Words'
        BY <1>0, <1>2, <2>1, <2>2, Flat DEF hgs_start, Nets, PlayerTypes, Words
      <3>3. Numbers'
        BY <1>0, <1>2, <2>1, <2>2, Flat DEF hgs_start, Nets, PlayerTypes, Numbers
      <3> QED
        BY <3>1, <3>2, <3>3 DEF PlayerTypes
    <2> QED
      BY <1>0, <1>2, <2>1, <2>3 DEF hgs_start, InRounds, PlayerInv
  <1>3. CASE hgs_stop
    <2>1. posts' \in Posts
      <3>1. <<"teardown", "stop">> \in Posts /\ posts \in Posts
        BY <1>0 DEF PlayerTypes, Posts
      <3> QED
        BY <1>3, <3>1, ConcatProperties DEF hgs_stop, Posts
    <2>2. PlayerTypes'
      <3>1. posts' \in Posts
        BY <1>0, <1>3, <2>1, Flat DEF hgs_stop, PlayerTypes
      <3>2. Words'
        BY <1>0, <1>3, <2>1, Flat DEF hgs_stop, PlayerTypes, Words
      <3>3. Numbers'
        BY <1>0, <1>3, <2>1, Flat DEF hgs_stop, PlayerTypes, Numbers
      <3> QED
        BY <3>1, <3>2, <3>3 DEF PlayerTypes
    <2> QED
      BY <1>0, <1>3, <2>2 DEF hgs_stop, InRounds, PlayerInv
  <1>4. CASE hgsnwk_exit
    <2>1. posts' \in Posts
      BY <1>4, EmptySeq DEF hgsnwk_exit, Posts
    <2>2. PlayerTypes'
      <3>1. posts' \in Posts
        BY <1>0, <1>4, <2>1, PlayerAssumption, Flat DEF hgsnwk_exit, Nets, PlayerTypes
      <3>2. Words'
        BY <1>0, <1>4, <2>1, PlayerAssumption, Flat DEF hgsnwk_exit, Nets, PlayerTypes, Words
      <3>3. Numbers'
        BY <1>0, <1>4, <2>1, PlayerAssumption, Flat DEF hgsnwk_exit, Nets, PlayerTypes, Numbers
      <3> QED
        BY <3>1, <3>2, <3>3 DEF PlayerTypes
    <2> QED
      BY <1>0, <1>4, <2>2 DEF hgsnwk_exit, InRounds, PlayerInv
  <1>5. CASE ThreadStop
    <2>1. PlayerTypes'
      <3>1. posts' \in Posts
        BY <1>0, <1>5, Flat DEF ThreadStop, PlayerTypes
      <3>2. Words'
        <4>1. /\ UNCHANGED jni_stage_ /\ UNCHANGED tmpargs_ /\ UNCHANGED main_ /\ UNCHANGED args_
              /\ UNCHANGED net /\ UNCHANGED tcpsock_ /\ UNCHANGED action /\ UNCHANGED step
              /\ UNCHANGED playing /\ UNCHANGED out
          BY <1>5, Flat DEF ThreadStop
        <4>2. /\ java' = java \/ java' = "destroy"
              /\ died' = died \/ died' = "null"
              /\ stopped' = stopped \/ stopped' = TRUE
          BY <1>5 DEF ThreadStop
        <4>3. Words
          BY <1>0 DEF PlayerTypes
        <4>4. java' \in {"idle", "join", "stop", "destroy", "joinmain"} /\ stopped' \in BOOLEAN
          BY <4>2, <4>3 DEF Words
        <4>5. died' \in {Nothing, "null", "exception", "freed"}
          BY <4>2, <4>3 DEF Words
        <4> QED
          BY <4>1, <4>3, <4>4, <4>5 DEF Words
      <3>3. Numbers'
        BY <1>0, <1>5, Flat DEF ThreadStop, PlayerTypes, Numbers
      <3> QED
        BY <3>1, <3>2, <3>3 DEF PlayerTypes
    <2> QED
      BY <1>0, <1>5, <2>1, Flat DEF ThreadStop, InRounds, PlayerInv
  <1>6. CASE DestroyArgs
    <2>1. PlayerTypes'
      <3>1. posts' \in Posts
        BY <1>0, <1>6, Flat DEF DestroyArgs, PlayerTypes
      <3>2. Words'
        BY <1>0, <1>6, Flat, ZenonT(60) DEF DestroyArgs, PlayerTypes, Words
      <3>3. Numbers'
        BY <1>0, <1>6, Flat DEF DestroyArgs, PlayerTypes, Numbers
      <3> QED
        BY <3>1, <3>2, <3>3 DEF PlayerTypes
    <2> QED
      BY <1>0, <1>6, <2>1, Flat DEF DestroyArgs, InRounds, PlayerInv
  <1>7. CASE ThreadJoin
    <2>1. PlayerTypes'
      <3>1. posts' \in Posts
        BY <1>0, <1>7, PlayerAssumption, Flat DEF ThreadJoin, PlayerTypes
      <3>2. Words'
        BY <1>0, <1>7, PlayerAssumption, Flat DEF ThreadJoin, PlayerTypes, Words
      <3>3. Numbers'
        BY <1>0, <1>7, PlayerAssumption, Flat DEF ThreadJoin, PlayerTypes, Numbers
      <3> QED
        BY <3>1, <3>2, <3>3 DEF PlayerTypes
    <2> QED
      BY <1>0, <1>7, <2>1, Flat DEF ThreadJoin, InRounds, PlayerInv
  <1> QED
    BY <1>1, <1>2, <1>3, <1>4, <1>5, <1>6, <1>7 DEF Java

\* What a NAL unit does to the arguments and the network thread.
LEMMA Collected ==
    ASSUME Words, InRounds, net = "run", NEW nal \in {"sps", "pps", "idr"}, nwk_dataincoming(nal)
    PROVE  /\ died' = died /\ tmpargs_' \subseteq {"args", "sps", "pps"} /\ net' \in {"run", "make"}
           /\ net' = "run" => main_ # Nothing \/ tmpargs_' # {}
  <1>1. tmpargs_ \subseteq {"args", "sps", "pps"} /\ (main_ # Nothing \/ tmpargs_ # {})
    BY DEF Words, InRounds
  <1>2. tmpargs_' \in {tmpargs_, {}, tmpargs_ \union {nal}} /\ died' = died
    BY <1>1 DEF nwk_dataincoming, ArgsInit
  <1>3. nal \in {"sps", "pps"} => tmpargs_ \union {nal} \subseteq {"args", "sps", "pps"}
    BY <1>1
  <1>4. tmpargs_' \subseteq {"args", "sps", "pps"}
    BY <1>1, <1>3 DEF nwk_dataincoming, ArgsInit
  <1>5. net' = net \/ net' = "make"
    BY DEF nwk_dataincoming
  <1>6. net' = "run" => main_ # Nothing \/ tmpargs_' # {}
    BY <1>1 DEF nwk_dataincoming, ArgsInit
  <1> QED
    BY <1>2, <1>4, <1>5, <1>6

\* What a handler of the network thread does.
LEMMA NetworkPlayerInv ==
    ASSUME PlayerInv, Network
    PROVE  PlayerInv'
  <1>0. Words /\ Numbers /\ posts \in Posts /\ InRounds
    BY DEF PlayerInv, PlayerTypes
  <1>1. net \in {"run", "make"} /\ net # "off"
    BY DEF Network, Incoming, MainMade, HandleConnect, ActionDone, on_error, rtph264_teardown,
           stop, OutOfWork, Running
  <1>2. UNCHANGED java /\ UNCHANGED rounds /\ UNCHANGED jni_stage_ /\ UNCHANGED rtph264_
    BY DEF Network, Incoming, MainMade, HandleConnect, ActionDone, on_error, rtph264_teardown,
           stop, OutOfWork, Same
  <1>3. UNCHANGED stopped /\ UNCHANGED icount /\ UNCHANGED ocount
    BY Flat DEF Network, Incoming, MainMade, HandleConnect, ActionDone, on_error,
                rtph264_teardown, stop, OutOfWork, Same
  <1>4. Numbers'
    BY <1>0, <1>2, <1>3 DEF Numbers
  <1>5. posts' \in Posts
    <2>1. posts # <<>> => Tail(posts) \in Posts
      BY <1>0, HeadTailProperties DEF Posts
    <2>2. posts' = posts \/ (posts # <<>> /\ posts' = Tail(posts))
      BY DEF Network, Incoming, MainMade, HandleConnect, ActionDone, on_error, rtph264_teardown,
             stop, OutOfWork
    <2> QED
      BY <1>0, <2>1, <2>2
  <1>6. ASSUME Words', net' = "run" => main_' # Nothing \/ tmpargs_' # {}
        PROVE  PlayerInv'
    <2>1. InRounds'
      BY <1>0, <1>1, <1>2, <1>6 DEF InRounds
    <2> QED
      BY <1>4, <1>5, <1>6, <2>1 DEF PlayerInv, PlayerTypes
  <1>7. ASSUME net = "run", UNCHANGED main_, UNCHANGED args_, UNCHANGED out,
               \/ UNCHANGED tmpargs_ /\ UNCHANGED net /\ UNCHANGED died
               \/ \E nal \in {"sps", "pps", "idr"} : nwk_dataincoming(nal),
               action' \in {Nothing, "options", "describe", "setup", "play"},
               step' \in {Nothing, "write", "head", "body"}, playing' \in BOOLEAN,
               tcpsock_' \in {"closed", "connecting", "open", "lost"}
        PROVE  PlayerInv'
    <2>1. /\ died' = died /\ tmpargs_' \subseteq {"args", "sps", "pps"} /\ net' \in {"run", "make"}
          /\ net' = "run" => main_ # Nothing \/ tmpargs_' # {}
      <3>1. CASE UNCHANGED tmpargs_ /\ UNCHANGED net /\ UNCHANGED died
        BY <1>0, <1>7, <3>1 DEF Words, InRounds
      <3>2. CASE \E nal \in {"sps", "pps", "idr"} : nwk_dataincoming(nal)
        BY <1>0, <1>7, <3>2, Collected
      <3> QED
        BY <1>7, <3>1, <3>2
    <2>2. Words'
      BY <1>0, <1>2, <1>3, <1>7, <2>1 DEF Words, Nets
    <2> QED
      BY <1>6, <1>7, <2>1, <2>2
  <1>8. CASE Incoming
    <2>1. \E nal \in {"sps", "pps", "idr"} : nwk_dataincoming(nal)
      BY <1>8 DEF Incoming
    <2>2. /\ net = "run" /\ UNCHANGED main_ /\ UNCHANGED args_ /\ UNCHANGED out /\ UNCHANGED action
          /\ UNCHANGED step /\ UNCHANGED playing /\ UNCHANGED tcpsock_
      BY <1>8, Flat DEF Incoming, Same, Running
    <2> QED
      BY <1>0, <1>7, <2>1, <2>2 DEF Words
  <1>9. CASE MainMade
    <2>1. main_' = "main" /\ Nothing # "main"
      BY <1>9 DEF MainMade, Nothing
    <2>2. Words'
      BY <1>0, <1>2, <1>3, <1>9 DEF MainMade, Words, Nets
    <2> QED
      BY <1>6, <2>1, <2>2
  <1>10. CASE HandleConnect
    <2>1. /\ net = "run" /\ UNCHANGED main_ /\ UNCHANGED args_ /\ UNCHANGED out /\ UNCHANGED playing
          /\ UNCHANGED tmpargs_ /\ UNCHANGED net /\ UNCHANGED died /\ tcpsock_' \in {"open", "lost"}
          /\ (UNCHANGED action /\ UNCHANGED step) \/ (action' = "options" /\ step' = "write")
      BY <1>10, Flat DEF HandleConnect, Same, Running, Request
    <2> QED
      BY <1>0, <1>7, <2>1 DEF Words
  <1>11. CASE ActionDone
    <2>1. /\ net = "run" /\ UNCHANGED main_ /\ UNCHANGED args_ /\ UNCHANGED out /\ UNCHANGED tcpsock_
      BY <1>11, Flat DEF ActionDone, Same, Running
    <2>2. /\ \/ UNCHANGED tmpargs_ /\ UNCHANGED net /\ UNCHANGED died
             \/ nwk_dataincoming("sps")
          /\ action' \in {action, Nothing, "describe", "setup", "play"}
          /\ step' \in {Nothing, "write", "head", "body"}
          /\ playing' \in {playing, TRUE, FALSE}
      BY <1>11, Zenon DEF ActionDone, on_success, on_success_Describe, on_success_Setup, Request
    <2> QED
      BY <1>0, <1>7, <2>1, <2>2 DEF Words
  <1>12. CASE on_error
    <2>1. /\ net = "run" /\ UNCHANGED main_ /\ UNCHANGED args_ /\ UNCHANGED out /\ UNCHANGED playing
          /\ UNCHANGED tmpargs_ /\ UNCHANGED net /\ UNCHANGED died /\ tcpsock_' \in {tcpsock_, "lost"}
          /\ action' = Nothing /\ step' = Nothing
      BY <1>12, Flat DEF on_error, Same, Running
    <2> QED
      BY <1>0, <1>7, <2>1 DEF Words
  <1>13. CASE rtph264_teardown
    <2>1. /\ net = "run" /\ UNCHANGED main_ /\ UNCHANGED args_ /\ UNCHANGED out /\ UNCHANGED action
          /\ UNCHANGED tmpargs_ /\ UNCHANGED net /\ UNCHANGED step /\ playing' = FALSE
          /\ tcpsock_' = "closed" /\ died' \in {Nothing, "exception"}
      BY <1>13, Flat DEF rtph264_teardown, Same, Running
    <2>2. Words'
      BY <1>0, <1>2, <1>3, <2>1, ZenonT(60) DEF Words
    <2> QED
      BY <1>0, <1>6, <2>1, <2>2 DEF InRounds
  <1>14. CASE stop \/ OutOfWork
    <2>1. /\ net' = "ended" /\ UNCHANGED main_ /\ UNCHANGED args_ /\ UNCHANGED out /\ UNCHANGED action
          /\ UNCHANGED tmpargs_ /\ UNCHANGED step /\ UNCHANGED playing /\ UNCHANGED tcpsock_
          /\ UNCHANGED died
      BY <1>14, Flat DEF stop, OutOfWork, Same
    <2>2. Words'
      BY <1>0, <1>2, <1>3, <2>1 DEF Words, Nets
    <2> QED
      BY <1>6, <2>1, <2>2
  <1> QED
    BY <1>8, <1>9, <1>10, <1>11, <1>12, <1>13, <1>14 DEF Network

\* What the decoder and the output thread do, with and without their arguments.
LEMMA OutputPlayerInv ==
    ASSUME PlayerInv, Decoded \/ Output \/ UseFreed
    PROVE  PlayerInv'
  <1>0. Words /\ Numbers /\ posts \in Posts /\ InRounds
    BY DEF PlayerInv, PlayerTypes
  <1>1. /\ UNCHANGED java /\ UNCHANGED rounds /\ UNCHANGED jni_stage_ /\ UNCHANGED tmpargs_
        /\ UNCHANGED main_ /\ UNCHANGED args_ /\ UNCHANGED netvars /\ UNCHANGED stopped
        /\ died' \in {died, "freed"}
    BY DEF Decoded, Output, Loop, outpoll, renderFrame, OutputStays, UseFreed
  <1>2. out' \in {out, "ended", "poll", "render", "loop", "hung"}
    BY DEF Decoded, Output, Loop, outpoll, renderFrame, UseFreed
  <1>3. \/ icount' = icount /\ ocount' = ocount
        \/ icount' = icount + 1 /\ icount < MaxDecoded /\ ocount' = ocount
        \/ icount' = icount /\ ocount < icount /\ ocount' = ocount + 1
    BY DEF Decoded, Output, Loop, outpoll, renderFrame, OutputStays, UseFreed
  <1>4. Words' /\ posts' \in Posts
    BY <1>0, <1>1, <1>2, Flat DEF Words
  <1>5. Numbers'
    BY <1>0, <1>1, <1>3, PlayerAssumption, Flat DEF Numbers
  <1>6. InRounds'
    BY <1>0, <1>1, Flat DEF InRounds
  <1> QED
    BY <1>4, <1>5, <1>6 DEF PlayerInv, PlayerTypes

\* Within init, start, stop no assertion of hgsnwk_init() and no ERR_EXIT of
\* nwk_dataincoming() is reached, and hgs_stop() touches main_, args_ and tmpargs_ only
\* when the network thread has ended, in any number of rounds.
THEOREM ThreadsInStep == PlayerSpec => []PlayerSound
  <1>1. PlayerInit => PlayerInv
    BY InitPlayerInv
  <1>2. PlayerInv /\ [PlayerNext]_playerVars => PlayerInv'
    <2> SUFFICES ASSUME PlayerInv, [PlayerNext]_playerVars
                 PROVE  PlayerInv'
      OBVIOUS
    <2>1. CASE PlayerNext
      BY <2>1, JavaPlayerInv, NetworkPlayerInv, OutputPlayerInv DEF PlayerNext
    <2>2. CASE UNCHANGED playerVars
      <3>1. /\ UNCHANGED java /\ UNCHANGED rounds /\ UNCHANGED jni_stage_ /\ UNCHANGED tmpargs_
            /\ UNCHANGED main_ /\ UNCHANGED args_ /\ UNCHANGED netvars /\ UNCHANGED outvars
            /\ UNCHANGED died
        BY <2>2 DEF playerVars
      <3> QED
        BY <3>1, Flat DEF PlayerInv, PlayerTypes, Words, Numbers, InRounds
    <2> QED
      BY <2>1, <2>2
  <1>3. PlayerInv => PlayerSound
    <2> SUFFICES ASSUME PlayerInv
                 PROVE  PlayerSound
      OBVIOUS
    <2>1. PlayerTypeOK
      BY DEF PlayerInv, PlayerTypes, Words, Numbers, PlayerTypeOK, Posts, Nets
    <2> QED
      BY <2>1 DEF PlayerInv, PlayerTypes, Words, InRounds, PlayerSound, NoAssert, OneOwner, Nothing
  <1> QED
    BY <1>1, <1>2, <1>3, PTL DEF PlayerSpec

-----------------------------------------------------------------------------
(* The chat clients                                                         *)

\* All messages written or to be written, in the order of write(): what is posted goes to
\* the queue and from there to the socket without a change of this sequence.
AllWrites == written \o write_msgs_ \o posted

Messages == Seq(Nat)

\* A write is under way only for the message in front of the queue.
ChatInv ==
    /\ written \in Messages /\ write_msgs_ \in Messages /\ posted \in Messages
    /\ received \in Nat
    /\ wr = "pending" => write_msgs_ # <<>>
    /\ Acknowledges(AllWrites, received)

ChatSpec == ChatInit /\ [][ChatNext]_chatClientVars

\* A message moved from the front of one sequence to the end of the one before it.
LEMMA Moved ==
    ASSUME NEW s \in Messages, NEW t \in Messages, t # <<>>
    PROVE  /\ Append(s, Head(t)) \in Messages /\ Tail(t) \in Messages
           /\ Append(s, Head(t)) \o Tail(t) = s \o t
  <1>1. Head(t) \in Nat /\ Tail(t) \in Seq(Nat) /\ s \in Seq(Nat) /\ <<Head(t)>> \in Seq(Nat)
    BY HeadTailProperties DEF Messages
  <1>2. t = <<Head(t)>> \o Tail(t)
    <2>1. t \in Seq(Nat)
      BY DEF Messages
    <2> QED
      BY <2>1, <1>1
  <1>3. Append(s, Head(t)) = s \o <<Head(t)>>
    BY <1>1, AppendIsConcat
  <1>4. (s \o <<Head(t)>>) \o Tail(t) = s \o (<<Head(t)>> \o Tail(t))
    BY <1>1, ConcatAssociative, SMTT(30)
  <1>5. Append(s, Head(t)) \in Seq(Nat)
    BY <1>1, AppendProperties
  <1> QED
    BY <1>1, <1>2, <1>3, <1>4, <1>5 DEF Messages

\* A hello message, or the acknowledgement of the message just read, at the end.
LEMMA Acknowledged ==
    ASSUME NEW w \in Messages, NEW n \in Nat, Acknowledges(w, n)
    PROVE  /\ Acknowledges(Append(w, Hello), n)
           /\ Acknowledges(Append(w, n + 1), n + 1)
  <1>1. w \in Seq(Nat) /\ Len(w) \in Nat /\ DOMAIN w = 1 .. Len(w)
    BY LenProperties DEF Messages
  <1>2. ASSUME NEW m \in Nat
        PROVE  /\ DOMAIN Append(w, m) = 1 .. Len(w) + 1
               /\ \A i \in 1 .. Len(w) : Append(w, m)[i] = w[i]
               /\ Append(w, m)[Len(w) + 1] = m
    BY <1>1, AppendProperties
  <1>3. /\ \A i \in 1 .. Len(w) : w[i] # Hello => w[i] \in 1 .. n
        /\ \A k \in 1 .. n : \E i \in 1 .. Len(w) : w[i] = k
        /\ \A i, j \in 1 .. Len(w) : (i < j /\ w[i] # Hello /\ w[j] # Hello) => w[i] < w[j]
    BY <1>1 DEF Acknowledges
  <1>4. ASSUME NEW m \in Nat, NEW b \in Nat, (m = Hello /\ b = n) \/ (m = n + 1 /\ b = n + 1)
        PROVE  Acknowledges(Append(w, m), b)
    <2> DEFINE v == Append(w, m)
    <2>1. /\ DOMAIN v = 1 .. Len(w) + 1
          /\ \A i \in 1 .. Len(w) : v[i] = w[i]
          /\ v[Len(w) + 1] = m
      BY <1>2
    <2> HIDE DEF v
    <2>2. \A i \in DOMAIN v : v[i] # Hello => v[i] \in 1 .. b
      BY <1>1, <1>3, <1>4, <2>1 DEF Hello
    <2>3. \A k \in 1 .. b : \E i \in DOMAIN v : v[i] = k
      <3> SUFFICES ASSUME NEW k \in 1 .. b
                   PROVE  \E i \in DOMAIN v : v[i] = k
        OBVIOUS
      <3>1. CASE k \in 1 .. n
        <4>1. PICK i \in 1 .. Len(w) : w[i] = k
          BY <1>3, <3>1
        <4>2. i \in DOMAIN v /\ v[i] = k
          BY <1>1, <2>1, <4>1
        <4> QED
          BY <4>2
      <3>2. CASE k = m
        <4>1. Len(w) + 1 \in DOMAIN v /\ v[Len(w) + 1] = k
          BY <1>1, <2>1, <3>2
        <4> QED
          BY <4>1
      <3> QED
        BY <1>4, <3>1, <3>2
    <2>4. \A i, j \in DOMAIN v : (i < j /\ v[i] # Hello /\ v[j] # Hello) => v[i] < v[j]
      <3> SUFFICES ASSUME NEW i \in 1 .. Len(w) + 1, NEW j \in 1 .. Len(w) + 1,
                          i < j, v[i] # Hello, v[j] # Hello
                   PROVE  v[i] < v[j]
        BY <2>1
      <3>1. i \in 1 .. Len(w) /\ v[i] = w[i] /\ w[i] \in 1 .. n
        BY <1>1, <1>3, <2>1
      <3>2. CASE j \in 1 .. Len(w)
        BY <1>3, <2>1, <3>1, <3>2
      <3>3. CASE j = Len(w) + 1
        BY <1>4, <2>1, <3>1, <3>3
      <3>4. j \in 1 .. Len(w) \/ j = Len(w) + 1
        <4>1. Len(w) \in Nat
          BY <1>1
        <4> QED
          BY <4>1
      <3> QED
        BY <3>2, <3>3, <3>4
    <2> QED
      BY <2>2, <2>3, <2>4 DEF v, Acknowledges
  <1>5. Hello \in Nat /\ n + 1 \in Nat
    BY DEF Hello
  <1> QED
    BY <1>4, <1>5

\* At the start nothing is read or written.
LEMMA InitChatInv == ChatInit => ChatInv
  <1> SUFFICES ASSUME ChatInit
               PROVE  ChatInv
    OBVIOUS
  <1>1. <<>> \in Seq(Nat) /\ <<Hello>> \in Seq(Nat)
    BY DEF Hello
  <1>2. /\ written = <<>> /\ write_msgs_ = <<>> /\ (posted = <<>> \/ posted = <<Hello>>)
        /\ received = 0 /\ wr = "none"
    BY DEF ChatInit
  <1>3. AllWrites = posted
    <2>1. posted \in Seq(Nat)
      BY <1>1, <1>2
    <2>2. AllWrites = (<<>> \o <<>>) \o posted /\ <<>> \o <<>> = <<>>
      BY <1>2 DEF AllWrites
    <2> QED
      BY <2>1, <2>2
  <1>4. Acknowledges(<<>>, 0)
    BY DEF Acknowledges
  <1>5. Acknowledges(<<Hello>>, 0)
    <2>1. DOMAIN <<Hello>> = {1} /\ <<Hello>>[1] = Hello
      OBVIOUS
    <2> QED
      BY <2>1 DEF Acknowledges
  <1> QED
    BY <1>1, <1>2, <1>3, <1>4, <1>5 DEF ChatInv, Messages

\* Moving a message keeps the sequence, posting one appends to it.
LEMMA WritesKept ==
    ASSUME ChatInv
    PROVE  /\ (posted # <<>> /\ posted' = Tail(posted)
                  /\ write_msgs_' = Append(write_msgs_, Head(posted)) /\ written' = written)
               => AllWrites' = AllWrites /\ posted' \in Messages /\ write_msgs_' \in Messages
           /\ (write_msgs_ # <<>> /\ write_msgs_' = Tail(write_msgs_)
                  /\ written' = Append(written, Head(write_msgs_)) /\ posted' = posted)
               => AllWrites' = AllWrites /\ written' \in Messages /\ write_msgs_' \in Messages
           /\ \A m \in Nat :
                (posted' = Append(posted, m) /\ UNCHANGED write_msgs_ /\ UNCHANGED written)
                  => AllWrites' = Append(AllWrites, m) /\ posted' \in Messages
           /\ AllWrites \in Messages
  <1>1. written \in Seq(Nat) /\ write_msgs_ \in Seq(Nat) /\ posted \in Seq(Nat)
    BY DEF ChatInv, Messages
  <1>2. /\ AllWrites = written \o (write_msgs_ \o posted)
        /\ AllWrites = (written \o write_msgs_) \o posted
        /\ written \o write_msgs_ \in Seq(Nat) /\ AllWrites \in Seq(Nat)
    BY <1>1, ConcatAssociative, ConcatProperties, SMTT(30) DEF AllWrites
  <1>3. ASSUME posted # <<>>, posted' = Tail(posted), written' = written,
               write_msgs_' = Append(write_msgs_, Head(posted))
        PROVE  AllWrites' = AllWrites /\ posted' \in Messages /\ write_msgs_' \in Messages
    <2>1. /\ write_msgs_' \in Messages /\ posted' \in Messages
          /\ write_msgs_' \o posted' = write_msgs_ \o posted
      BY <1>1, <1>3, Moved DEF Messages
    <2>2. AllWrites' = written \o (write_msgs_' \o posted')
      <3>1. written \in Seq(Nat) /\ write_msgs_' \in Seq(Nat) /\ posted' \in Seq(Nat)
        BY <1>1, <2>1 DEF Messages
      <3>2. (written \o write_msgs_') \o posted' = written \o (write_msgs_' \o posted')
        BY <3>1, ConcatAssociative
      <3>3. AllWrites' = (written \o write_msgs_') \o posted'
        BY <1>3 DEF AllWrites
      <3> QED
        BY <3>2, <3>3, Zenon
    <2>3. AllWrites' = written \o (write_msgs_ \o posted)
      BY <2>1, <2>2, Zenon
    <2>4. AllWrites' = AllWrites
      BY <1>2, <2>3, Zenon
    <2> QED
      BY <2>1, <2>4
  <1>4. ASSUME write_msgs_ # <<>>, write_msgs_' = Tail(write_msgs_), posted' = posted,
               written' = Append(written, Head(write_msgs_))
        PROVE  AllWrites' = AllWrites /\ written' \in Messages /\ write_msgs_' \in Messages
    <2>1. /\ written' \in Messages /\ write_msgs_' \in Messages
          /\ written' \o write_msgs_' = written \o write_msgs_
      BY <1>1, <1>4, Moved DEF Messages
    <2> QED
      BY <1>2, <1>4, <2>1 DEF AllWrites
  <1>5. ASSUME NEW m \in Nat, posted' = Append(posted, m), write_msgs_' = write_msgs_,
               written' = written
        PROVE  AllWrites' = Append(AllWrites, m) /\ posted' \in Messages
    <2>1. <<m>> \in Seq(Nat) /\ posted' = posted \o <<m>> /\ posted' \in Seq(Nat)
      BY <1>1, <1>5, AppendIsConcat, AppendProperties
    <2>2. AllWrites' = (written \o write_msgs_) \o (posted \o <<m>>)
      BY <1>5, <2>1 DEF AllWrites
    <2>3. @ = AllWrites \o <<m>>
      BY <1>1, <1>2, <2>1, ConcatAssociative, SMTT(30)
    <2>4. @ = Append(AllWrites, m)
      BY <1>2, AppendIsConcat
    <2> QED
      BY <2>1, <2>2, <2>3, <2>4 DEF Messages
  <1> QED
    BY <1>2, <1>3, <1>4, <1>5 DEF Messages

\* Every step keeps the chat clients' invariant.
LEMMA ChatStep == ChatInv /\ [ChatNext]_chatClientVars => ChatInv'
  <1> SUFFICES ASSUME ChatInv, [ChatNext]_chatClientVars
               PROVE  ChatInv'
    OBVIOUS
  <1>0. /\ written \in Messages /\ write_msgs_ \in Messages /\ posted \in Messages
        /\ received \in Nat /\ AllWrites \in Messages
        /\ wr = "pending" => write_msgs_ # <<>>
        /\ Acknowledges(AllWrites, received)
    BY WritesKept DEF ChatInv
  <1>1. ASSUME UNCHANGED written, UNCHANGED write_msgs_, UNCHANGED posted, UNCHANGED received,
               wr' = "pending" => wr = "pending"
        PROVE  ChatInv'
    BY <1>0, <1>1 DEF ChatInv, AllWrites
  <1>2. ASSUME UNCHANGED written, UNCHANGED write_msgs_, NEW m \in Nat, posted' = Append(posted, m),
               \/ m = Hello /\ received' = received
               \/ m = received + 1 /\ received' = received + 1,
               wr' = "pending" => wr = "pending"
        PROVE  ChatInv'
    <2>1. AllWrites' = Append(AllWrites, m) /\ posted' \in Messages
      BY <1>2, WritesKept
    <2>2. Acknowledges(AllWrites', received') /\ received' \in Nat
      BY <1>0, <1>2, <2>1, Acknowledged
    <2> QED
      BY <1>0, <1>2, <2>1, <2>2 DEF ChatInv
  <1>3. CASE RunPost
    <2>1. /\ posted # <<>> /\ posted' = Tail(posted) /\ UNCHANGED written /\ UNCHANGED received
          /\ write_msgs_' = Append(write_msgs_, Head(posted))
      BY <1>3 DEF RunPost, chatReadVars
    <2>2. AllWrites' = AllWrites /\ posted' \in Messages /\ write_msgs_' \in Messages
      BY <2>1, WritesKept
    <2>3. write_msgs_' # <<>>
      <3>1. Head(posted) \in Nat /\ write_msgs_ \in Seq(Nat)
        BY <1>0, <2>1, HeadTailProperties DEF Messages
      <3> QED
        BY <2>1, <3>1, AppendProperties
    <2> QED
      BY <1>0, <2>1, <2>2, <2>3 DEF ChatInv
  <1>4. CASE WriteDone
    <2>1. /\ write_msgs_ # <<>> /\ write_msgs_' = Tail(write_msgs_)
          /\ written' = Append(written, Head(write_msgs_)) /\ UNCHANGED posted
          /\ UNCHANGED received /\ (wr' = "pending" => write_msgs_' # <<>>)
      BY <1>0, <1>4 DEF WriteDone, chatReadVars
    <2>2. AllWrites' = AllWrites /\ written' \in Messages /\ write_msgs_' \in Messages
      BY <2>1, WritesKept
    <2> QED
      BY <1>0, <2>1, <2>2 DEF ChatInv
  <1>5. CASE do_read_data
    <2>1. /\ UNCHANGED written /\ UNCHANGED write_msgs_ /\ UNCHANGED wr /\ received' = received + 1
          /\ posted' = Append(posted, received + 1)
      BY <1>5 DEF do_read_data
    <2>2. received + 1 \in Nat
      BY <1>0
    <2> QED
      BY <1>2, <2>1, <2>2
  <1>6. CASE timed_loop \/ keep_alive
    <2>1. /\ UNCHANGED written /\ UNCHANGED write_msgs_ /\ UNCHANGED received
          /\ wr' = "pending" => wr = "pending"
          /\ posted' = posted \/ posted' = Append(posted, Hello)
      BY <1>6 DEF timed_loop, LoopInit, LoopConnecting, LoopEstablished, keep_alive, Aborted,
                  chatReadVars
    <2>2. Hello \in Nat
      BY DEF Hello
    <2> QED
      BY <1>1, <1>2, <2>1, <2>2
  <1>7. CASE \/ TimePasses \/ HttpFreed \/ HttpStep \/ ConnectHandler \/ OvertakenHandler \/ do_read_size
             \/ ReadError \/ WriteError \/ Close \/ ConnectDone \/ ServerSends \/ Lost \/ Expire
             \/ UNCHANGED chatClientVars
    <2>1. UNCHANGED chatWriteVars =>
              /\ UNCHANGED written /\ UNCHANGED write_msgs_ /\ UNCHANGED posted /\ UNCHANGED wr
      BY DEF chatWriteVars
    <2>2. /\ UNCHANGED written /\ UNCHANGED write_msgs_ /\ UNCHANGED posted /\ UNCHANGED received
          /\ wr' = "pending" => wr = "pending"
      BY <1>7, <2>1 DEF TimePasses, HttpFreed, HttpStep, ConnectHandler, OvertakenHandler, do_read_size,
             ReadError, WriteError, Close, ConnectDone, ServerSends, Lost, Expire, Connected,
             Aborted, chatReadVars, chatClientVars
    <2> QED
      BY <1>1, <2>2
  <1> QED
    BY <1>3, <1>4, <1>5, <1>6, <1>7 DEF ChatNext, Handler

\* Whatever fails and however often ter connects anew, the messages a client has written,
\* queued and posted acknowledge each message it has read, once and in the order read.
THEOREM ReadsAcknowledged == ChatSpec => []AcksInOrder
  <1>1. ChatInit => ChatInv
    BY InitChatInv
  <1>2. ChatInv /\ [ChatNext]_chatClientVars => ChatInv'
    BY ChatStep
  <1>3. ChatInv => AcksInOrder
    BY DEF ChatInv, AcksInOrder, AllWrites
  <1> QED
    BY <1>1, <1>2, <1>3, PTL DEF ChatSpec

-----------------------------------------------------------------------------
(* Setting up and tearing down the decoder.  The script first: which step is *)
(* at which place.  The invariant then says for every place which command is *)
(* under way, what is posted, and which buffers the component has.          *)

\* The operations and arguments of a step
Operations == {"send", "alloc", "wait", "fill", "config", "check", "free", "drain", "stage", "waitempty",
               "fillall", "poll"}
Arguments == {"idle", "exec", "disable", "enable", "flush", "loaded", "settings", "returned", "in", "out",
              "bufempty", "command"} \union Nat
StepSet == [op : Operations, arg : Arguments]

\* A step of the script has an operation and an argument.
LEMMA StepIn ==
    ASSUME NEW o \in Operations, NEW a \in Arguments
    PROVE  Step(o, a) \in StepSet
  BY DEF Step, StepSet

\* u is s followed by t.
Joins(u, s, t) ==
    /\ Len(u) = Len(s) + Len(t)
    /\ \A i \in 1 .. Len(s) : u[i] = s[i]
    /\ \A i \in 1 .. Len(t) : u[Len(s) + i] = t[i]

\* Where the elements of two joined sequences are
LEMMA Joined ==
    ASSUME NEW S, NEW s \in Seq(S), NEW t \in Seq(S)
    PROVE  s \o t \in Seq(S) /\ Joins(s \o t, s, t)
  <1>1. /\ s \o t \in Seq(S) /\ Len(s \o t) = Len(s) + Len(t)
        /\ \A i \in 1 .. Len(s) + Len(t) : (s \o t)[i] = IF i <= Len(s) THEN s[i] ELSE t[i - Len(s)]
    BY ConcatProperties, Zenon
  <1>2. Len(s) \in Nat /\ Len(t) \in Nat
    OBVIOUS
  <1> DEFINE n == Len(s)  m == Len(t)  u == s \o t
  <1> HIDE DEF n, m, u
  <1>3. \A i \in 1 .. n + m : u[i] = IF i <= n THEN s[i] ELSE t[i - n]
    BY <1>1 DEF n, m, u
  <1>4. n \in Nat /\ m \in Nat
    BY <1>2 DEF n, m
  <1>5. \A i \in 1 .. n : u[i] = s[i]
    BY <1>3, <1>4
  <1>6. \A i \in 1 .. m : u[n + i] = t[i]
    BY <1>3, <1>4
  <1> QED
    BY <1>1, <1>5, <1>6 DEF n, m, u, Joins

\* s is a list of n steps.
Lists(s, n) == s \in Seq(StepSet) /\ Len(s) = n

\* u is list s of n steps followed by list t of m steps.
Follows(u, s, n, t, m) ==
    /\ Lists(u, n + m)
    /\ \A i \in 1 .. n : u[i] = s[i]
    /\ \A i \in 1 .. m : u[n + i] = t[i]

\* Two lists of steps, one after the other
LEMMA ListsJoined ==
    ASSUME NEW s, NEW t, NEW n \in Nat, NEW m \in Nat, Lists(s, n), Lists(t, m)
    PROVE  Follows(s \o t, s, n, t, m)
  <1>1. s \in Seq(StepSet) /\ t \in Seq(StepSet)
    BY DEF Lists
  <1>2. Len(s) = n /\ Len(t) = m
    BY DEF Lists
  <1>3. s \o t \in Seq(StepSet) /\ Joins(s \o t, s, t)
    BY <1>1, Joined
  <1> QED
    BY <1>2, <1>3 DEF Lists, Follows, Joins

\* The lists of up to three steps
LEMMA ListsLiteral ==
    ASSUME NEW x \in StepSet
    PROVE  /\ Lists(<<>>, 0)
           /\ Lists(<<x>>, 1) /\ <<x>>[1] = x
           /\ \A y \in StepSet :
                /\ Lists(<<x, y>>, 2) /\ <<x, y>>[1] = x /\ <<x, y>>[2] = y
                /\ \A z \in StepSet :
                     /\ Lists(<<x, y, z>>, 3)
                     /\ <<x, y, z>>[1] = x /\ <<x, y, z>>[2] = y /\ <<x, y, z>>[3] = z
  BY DEF Lists

\* u is list b of n steps between the sending of command c and the wait for it.
Encloses(u, c, b, n) ==
    /\ Lists(u, n + 2)
    /\ u[1] = Step("send", c)
    /\ \A i \in 1 .. n : u[1 + i] = b[i]
    /\ u[n + 2] = Step("wait", c)

\* A command, what is done before the wait, and the wait
LEMMA CommandIs ==
    ASSUME NEW c \in Arguments, NEW b, NEW n \in Nat, Lists(b, n)
    PROVE  Encloses(Command(c, b), c, b, n)
  <1>1. Step("send", c) \in StepSet /\ Step("wait", c) \in StepSet
    BY StepIn DEF Operations
  <1> DEFINE s == <<Step("send", c)>>  w == <<Step("wait", c)>>
  <1>2. /\ Lists(s, 1) /\ s[1] = Step("send", c)
        /\ Lists(w, 1) /\ w[1] = Step("wait", c)
    BY <1>1, ListsLiteral
  <1>3. Command(c, b) = (s \o b) \o w
    BY DEF Command
  <1> HIDE DEF s, w
  <1> DEFINE u == s \o b  v == u \o w
  <1>4. Follows(u, s, 1, b, n)
    BY <1>2, ListsJoined
  <1> HIDE DEF u
  <1>41. Lists(u, 1 + n) /\ u[1] = s[1] /\ \A i \in 1 .. n : u[1 + i] = b[i]
    BY <1>4 DEF Follows
  <1>42. 1 + n \in Nat
    OBVIOUS
  <1>5. Follows(v, u, 1 + n, w, 1)
    BY <1>2, <1>41, <1>42, ListsJoined
  <1>6. v = Command(c, b)
    BY <1>3 DEF u
  <1> HIDE DEF v
  <1>7. /\ Lists(v, n + 2) /\ v[1] = u[1] /\ v[n + 2] = w[1]
        /\ \A i \in 1 .. n : v[1 + i] = u[1 + i]
    BY <1>5 DEF Follows
  <1> QED
    BY <1>2, <1>41, <1>6, <1>7 DEF Encloses

\* A command that is waited for at once
LEMMA CommandAlone ==
    ASSUME NEW c \in Arguments
    PROVE  /\ Lists(Command(c, <<>>), 2)
           /\ Command(c, <<>>)[1] = Step("send", c) /\ Command(c, <<>>)[2] = Step("wait", c)
  <1>1. Step("send", c) \in StepSet
    BY StepIn DEF Operations
  <1>2. Lists(<<>>, 0)
    BY <1>1, ListsLiteral
  <1>3. Encloses(Command(c, <<>>), c, <<>>, 0)
    BY <1>2, CommandIs
  <1> QED
    BY <1>3 DEF Encloses

\* The steps of setup() up to stage 1.
LEMMA BeginIs ==
    /\ Lists(Begin, 10) /\ Begin[1] = Step("send", "idle")
    /\ Begin[2] = Step("alloc", "in") /\ Begin[3] = Step("alloc", "out")
    /\ Begin[4] = Step("wait", "idle") /\ Begin[5] = Step("send", "exec")
    /\ Begin[6] = Step("wait", "exec") /\ Begin[7] = Step("fill", 5)
    /\ Begin[8] = Step("config", 1) /\ Begin[9] = Step("config", 2)
    /\ Begin[10] = Step("wait", "settings")
  <1> DEFINE toIdle == Command("idle", <<Step("alloc", "in"), Step("alloc", "out")>>)
             toExec == Command("exec", <<>>)
             feed == <<Step("fill", 5), Step("config", 1), Step("config", 2), Step("wait", "settings")>>
  <1>1. /\ Lists(toIdle, 4) /\ toIdle[1] = Step("send", "idle")
        /\ toIdle[2] = Step("alloc", "in") /\ toIdle[3] = Step("alloc", "out")
        /\ toIdle[4] = Step("wait", "idle")
    <2>1. "idle" \in Arguments
      BY DEF Arguments
    <2> DEFINE between == <<Step("alloc", "in"), Step("alloc", "out")>>
    <2>2. /\ Lists(between, 2) /\ between[1] = Step("alloc", "in")
          /\ between[2] = Step("alloc", "out")
      <3>1. /\ Step("alloc", "in") \in StepSet /\ Step("alloc", "out") \in StepSet
        BY StepIn DEF Operations, Arguments
      <3> QED
        BY <3>1 DEF Lists
    <2> HIDE DEF between
    <2>3. Encloses(Command("idle", between), "idle", between, 2)
      BY <2>1, <2>2, CommandIs
    <2>4. toIdle = Command("idle", between)
      BY DEF between
    <2> HIDE DEF toIdle
    <2> QED
      BY <2>3, <2>4, <2>2 DEF Encloses
  <1>2. /\ Lists(toExec, 2) /\ toExec[1] = Step("send", "exec")
        /\ toExec[2] = Step("wait", "exec")
    BY CommandAlone DEF Arguments
  <1>3. /\ Lists(feed, 4) /\ feed[1] = Step("fill", 5) /\ feed[2] = Step("config", 1)
        /\ feed[3] = Step("config", 2) /\ feed[4] = Step("wait", "settings")
    <2>1. /\ Step("fill", 5) \in StepSet /\ Step("config", 1) \in StepSet
          /\ Step("config", 2) \in StepSet /\ Step("wait", "settings") \in StepSet
      BY StepIn DEF Operations, Arguments
    <2> QED
      BY <2>1 DEF Lists
  <1>4. Begin = (toIdle \o toExec) \o feed
    BY DEF Begin
  <1> HIDE DEF toIdle, toExec, feed
  <1> DEFINE u1 == toIdle \o toExec
  <1>5. Follows(u1, toIdle, 4, toExec, 2)
    BY <1>1, <1>2, ListsJoined
  <1>6. /\ Lists(u1, 6) /\ u1[1] = Step("send", "idle") /\ u1[2] = Step("alloc", "in")
        /\ u1[3] = Step("alloc", "out") /\ u1[4] = Step("wait", "idle")
        /\ u1[5] = Step("send", "exec") /\ u1[6] = Step("wait", "exec")
    <2> HIDE DEF u1
    <2> QED
      BY <1>5, <1>1, <1>2 DEF Follows
  <1>7. u1 = toIdle \o toExec
    OBVIOUS
  <1> HIDE DEF u1
  <1> DEFINE u2 == u1 \o feed
  <1>8. Follows(u2, u1, 6, feed, 4)
    BY <1>6, <1>3, ListsJoined
  <1>9. /\ Lists(u2, 10) /\ u2[1] = Step("send", "idle") /\ u2[2] = Step("alloc", "in")
        /\ u2[3] = Step("alloc", "out") /\ u2[4] = Step("wait", "idle")
        /\ u2[5] = Step("send", "exec") /\ u2[6] = Step("wait", "exec")
        /\ u2[7] = Step("fill", 5) /\ u2[8] = Step("config", 1)
        /\ u2[9] = Step("config", 2) /\ u2[10] = Step("wait", "settings")
    <2> HIDE DEF u2
    <2> QED
      BY <1>8, <1>6, <1>3 DEF Follows
  <1>10. u2 = u1 \o feed
    OBVIOUS
  <1> HIDE DEF u2
  <1> QED
    BY <1>4, <1>7, <1>10, <1>9

\* The steps of the lambda that waits for the output buffers.
LEMMA ReturnIs ==
    /\ Lists(Return, 3) /\ Return[1] = Step("check", "returned")
    /\ Return[2] = Step("wait", "returned") /\ Return[3] = Step("free", "out")
  <1>1. /\ Step("check", "returned") \in StepSet /\ Step("wait", "returned") \in StepSet
        /\ Step("free", "out") \in StepSet
    BY StepIn DEF Operations, Arguments
  <1> QED
    BY <1>1 DEF Lists, Return

\* The steps that renew the output port.
LEMMA RenewIs ==
    /\ Lists(Renew, 8) /\ Renew[1] = Step("send", "disable")
    /\ Renew[2] = Step("check", "returned") /\ Renew[3] = Step("wait", "returned")
    /\ Renew[4] = Step("free", "out") /\ Renew[5] = Step("wait", "disable")
    /\ Renew[6] = Step("send", "enable") /\ Renew[7] = Step("alloc", "out")
    /\ Renew[8] = Step("wait", "enable")
  <1> DEFINE off == Command("disable", Return)
             on == Command("enable", <<Step("alloc", "out")>>)
  <1>1. /\ Lists(off, 5) /\ off[1] = Step("send", "disable")
        /\ off[2] = Step("check", "returned") /\ off[3] = Step("wait", "returned")
        /\ off[4] = Step("free", "out") /\ off[5] = Step("wait", "disable")
    <2>1. "disable" \in Arguments
      BY DEF Arguments
    <2>3. Encloses(Command("disable", Return), "disable", Return, 3)
      BY <2>1, ReturnIs, CommandIs
    <2>4. off = Command("disable", Return)
      OBVIOUS
    <2> HIDE DEF off
    <2> QED
      BY <2>3, <2>4, ReturnIs DEF Encloses
  <1>2. /\ Lists(on, 3) /\ on[1] = Step("send", "enable") /\ on[2] = Step("alloc", "out")
        /\ on[3] = Step("wait", "enable")
    <2>1. "enable" \in Arguments
      BY DEF Arguments
    <2> DEFINE between == <<Step("alloc", "out")>>
    <2>2. /\ Lists(between, 1) /\ between[1] = Step("alloc", "out")
      <3>1. /\ Step("alloc", "out") \in StepSet
        BY StepIn DEF Operations, Arguments
      <3> QED
        BY <3>1 DEF Lists
    <2> HIDE DEF between
    <2>3. Encloses(Command("enable", between), "enable", between, 1)
      BY <2>1, <2>2, CommandIs
    <2>4. on = Command("enable", between)
      BY DEF between
    <2> HIDE DEF on
    <2> QED
      BY <2>3, <2>4, <2>2 DEF Encloses
  <1>3. Renew = off \o on
    BY DEF Renew
  <1> HIDE DEF off, on
  <1> DEFINE u1 == off \o on
  <1>4. Follows(u1, off, 5, on, 3)
    BY <1>1, <1>2, ListsJoined
  <1>5. /\ Lists(u1, 8) /\ u1[1] = Step("send", "disable")
        /\ u1[2] = Step("check", "returned") /\ u1[3] = Step("wait", "returned")
        /\ u1[4] = Step("free", "out") /\ u1[5] = Step("wait", "disable")
        /\ u1[6] = Step("send", "enable") /\ u1[7] = Step("alloc", "out")
        /\ u1[8] = Step("wait", "enable")
    <2> HIDE DEF u1
    <2> QED
      BY <1>4, <1>1, <1>2 DEF Follows
  <1>6. u1 = off \o on
    OBVIOUS
  <1> HIDE DEF u1
  <1> QED
    BY <1>3, <1>6, <1>5

\* The steps of stage 1 and into stage 2.
LEMMA WarmIs ==
    /\ Lists(Warm, 13) /\ Warm[1] = Step("drain", "bufempty")
    /\ Warm[2] = Step("drain", "command") /\ Warm[3] = Step("stage", 1)
    /\ Warm[4] = Step("fill", 1) /\ Warm[5] = Step("wait", "returned")
    /\ Warm[6] = Step("fill", 1) /\ Warm[7] = Step("wait", "returned")
    /\ Warm[8] = Step("waitempty", 0) /\ Warm[9] = Step("waitempty", 0)
    /\ Warm[10] = Step("drain", "command") /\ Warm[11] = Step("drain", "bufempty")
    /\ Warm[12] = Step("stage", 2) /\ Warm[13] = Step("fillall", 0)
  <1>1. /\ Step("drain", "bufempty") \in StepSet /\ Step("drain", "command") \in StepSet
        /\ Step("stage", 1) \in StepSet /\ Step("fill", 1) \in StepSet
        /\ Step("wait", "returned") \in StepSet /\ Step("waitempty", 0) \in StepSet
        /\ Step("stage", 2) \in StepSet /\ Step("fillall", 0) \in StepSet
    BY StepIn DEF Operations, Arguments
  <1> QED
    BY <1>1 DEF Lists, Warm

\* The steps of AVCDecoder::decode.
LEMMA DecodeIs ==
    /\ Lists(decode, 3) /\ decode[1] = Step("config", 3)
    /\ decode[2] = Step("waitempty", 0) /\ decode[3] = Step("poll", 0)
  <1>1. /\ Step("config", 3) \in StepSet /\ Step("waitempty", 0) \in StepSet
        /\ Step("poll", 0) \in StepSet
    BY StepIn DEF Operations, Arguments
  <1> QED
    BY <1>1 DEF Lists, decode

\* The steps of teardown().
LEMMA TeardownIs ==
    /\ Lists(teardown, 11) /\ teardown[1] = Step("stage", 3)
    /\ teardown[2] = Step("drain", "bufempty") /\ teardown[3] = Step("drain", "command")
    /\ teardown[4] = Step("send", "flush") /\ teardown[5] = Step("wait", "flush")
    /\ teardown[6] = Step("send", "idle") /\ teardown[7] = Step("wait", "idle")
    /\ teardown[8] = Step("send", "loaded") /\ teardown[9] = Step("free", "in")
    /\ teardown[10] = Step("free", "out") /\ teardown[11] = Step("wait", "loaded")
  <1> DEFINE halt == <<Step("stage", 3), Step("drain", "bufempty"), Step("drain", "command")>>
             empty == Command("flush", <<>>)
             toIdle == Command("idle", <<>>)
             toLoaded == Command("loaded", <<Step("free", "in"), Step("free", "out")>>)
  <1>1. /\ Lists(halt, 3) /\ halt[1] = Step("stage", 3)
        /\ halt[2] = Step("drain", "bufempty") /\ halt[3] = Step("drain", "command")
    <2>1. /\ Step("stage", 3) \in StepSet /\ Step("drain", "bufempty") \in StepSet
          /\ Step("drain", "command") \in StepSet
      BY StepIn DEF Operations, Arguments
    <2> QED
      BY <2>1 DEF Lists
  <1>2. /\ Lists(empty, 2) /\ empty[1] = Step("send", "flush")
        /\ empty[2] = Step("wait", "flush")
    BY CommandAlone DEF Arguments
  <1>3. /\ Lists(toIdle, 2) /\ toIdle[1] = Step("send", "idle")
        /\ toIdle[2] = Step("wait", "idle")
    BY CommandAlone DEF Arguments
  <1>4. /\ Lists(toLoaded, 4) /\ toLoaded[1] = Step("send", "loaded")
        /\ toLoaded[2] = Step("free", "in") /\ toLoaded[3] = Step("free", "out")
        /\ toLoaded[4] = Step("wait", "loaded")
    <2>1. "loaded" \in Arguments
      BY DEF Arguments
    <2> DEFINE between == <<Step("free", "in"), Step("free", "out")>>
    <2>2. /\ Lists(between, 2) /\ between[1] = Step("free", "in")
          /\ between[2] = Step("free", "out")
      <3>1. /\ Step("free", "in") \in StepSet /\ Step("free", "out") \in StepSet
        BY StepIn DEF Operations, Arguments
      <3> QED
        BY <3>1 DEF Lists
    <2> HIDE DEF between
    <2>3. Encloses(Command("loaded", between), "loaded", between, 2)
      BY <2>1, <2>2, CommandIs
    <2>4. toLoaded = Command("loaded", between)
      BY DEF between
    <2> HIDE DEF toLoaded
    <2> QED
      BY <2>3, <2>4, <2>2 DEF Encloses
  <1>5. teardown = ((halt \o empty) \o toIdle) \o toLoaded
    BY DEF teardown
  <1> HIDE DEF halt, empty, toIdle, toLoaded
  <1> DEFINE u1 == halt \o empty
  <1>6. Follows(u1, halt, 3, empty, 2)
    BY <1>1, <1>2, ListsJoined
  <1>7. /\ Lists(u1, 5) /\ u1[1] = Step("stage", 3) /\ u1[2] = Step("drain", "bufempty")
        /\ u1[3] = Step("drain", "command") /\ u1[4] = Step("send", "flush")
        /\ u1[5] = Step("wait", "flush")
    <2> HIDE DEF u1
    <2> QED
      BY <1>6, <1>1, <1>2 DEF Follows
  <1>8. u1 = halt \o empty
    OBVIOUS
  <1> HIDE DEF u1
  <1> DEFINE u2 == u1 \o toIdle
  <1>9. Follows(u2, u1, 5, toIdle, 2)
    BY <1>7, <1>3, ListsJoined
  <1>10. /\ Lists(u2, 7) /\ u2[1] = Step("stage", 3) /\ u2[2] = Step("drain", "bufempty")
         /\ u2[3] = Step("drain", "command") /\ u2[4] = Step("send", "flush")
         /\ u2[5] = Step("wait", "flush") /\ u2[6] = Step("send", "idle")
         /\ u2[7] = Step("wait", "idle")
    <2> HIDE DEF u2
    <2> QED
      BY <1>9, <1>7, <1>3 DEF Follows
  <1>11. u2 = u1 \o toIdle
    OBVIOUS
  <1> HIDE DEF u2
  <1> DEFINE u3 == u2 \o toLoaded
  <1>12. Follows(u3, u2, 7, toLoaded, 4)
    BY <1>10, <1>4, ListsJoined
  <1>13. /\ Lists(u3, 11) /\ u3[1] = Step("stage", 3) /\ u3[2] = Step("drain", "bufempty")
         /\ u3[3] = Step("drain", "command") /\ u3[4] = Step("send", "flush")
         /\ u3[5] = Step("wait", "flush") /\ u3[6] = Step("send", "idle")
         /\ u3[7] = Step("wait", "idle") /\ u3[8] = Step("send", "loaded")
         /\ u3[9] = Step("free", "in") /\ u3[10] = Step("free", "out")
         /\ u3[11] = Step("wait", "loaded")
    <2> HIDE DEF u3
    <2> QED
      BY <1>12, <1>10, <1>4 DEF Follows
  <1>14. u3 = u2 \o toLoaded
    OBVIOUS
  <1> HIDE DEF u3
  <1> QED
    BY <1>5, <1>8, <1>11, <1>14, <1>13

\* The steps of setup().
LEMMA SetupIs ==
    /\ Lists(setup, 31)
    /\ \A i \in 1 .. 10 : setup[i] = Begin[i]
    /\ \A i \in 1 .. 8 : setup[10 + i] = Renew[i]
    /\ \A i \in 1 .. 13 : setup[18 + i] = Warm[i]
  <1> DEFINE b == Begin  r == Renew  w == Warm
             u == b \o r
             v == u \o w
  <1>1. setup = v
    BY DEF setup
  <1>2. Lists(b, 10) /\ Lists(r, 8) /\ Lists(w, 13)
    BY BeginIs, RenewIs, WarmIs
  <1> HIDE DEF b, r, w
  <1>3. Follows(u, b, 10, r, 8)
    BY <1>2, ListsJoined
  <1> HIDE DEF u
  <1>4. Lists(u, 18)
    BY <1>3 DEF Follows
  <1>5. Follows(v, u, 18, w, 13)
    BY <1>2, <1>4, ListsJoined
  <1> HIDE DEF v
  <1>6. /\ Lists(v, 31)
        /\ \A i \in 1 .. 10 : v[i] = b[i]
        /\ \A i \in 1 .. 8 : v[10 + i] = r[i]
        /\ \A i \in 1 .. 13 : v[18 + i] = w[i]
    BY <1>3, <1>5 DEF Follows
  <1> QED
    BY <1>1, <1>6 DEF b, r, w

\* The step at which the tear-down begins, after the set-up and what demo.cpp decodes.
DownAt == IF program = "demo" THEN 41 ELSE 32

\* Where the parts of the script are.
LEMMA ScriptIs ==
    ASSUME program \in {"ildec", "demo"}
    PROVE  /\ Lists(Script, DownAt + 10)
           /\ \A i \in 1 .. 10 : Script[i] = Begin[i]
           /\ \A i \in 1 .. 8 : Script[10 + i] = Renew[i]
           /\ \A i \in 1 .. 13 : Script[18 + i] = Warm[i]
           /\ program = "demo" =>
                  \A i \in 1 .. 3 : /\ Script[31 + i] = decode[i]
                                    /\ Script[34 + i] = decode[i]
                                    /\ Script[37 + i] = decode[i]
           /\ \A i \in 1 .. 11 : Script[(DownAt - 1) + i] = teardown[i]
  <1> DEFINE s == setup  d == decode  t == teardown
  <1>1. /\ Lists(s, 31)
        /\ \A i \in 1 .. 10 : s[i] = Begin[i]
        /\ \A i \in 1 .. 8 : s[10 + i] = Renew[i]
        /\ \A i \in 1 .. 13 : s[18 + i] = Warm[i]
    BY SetupIs
  <1>2. Lists(d, 3) /\ Lists(t, 11)
    BY DecodeIs, TeardownIs
  <1>3. CASE program = "ildec"
    <2> DEFINE u == s \o t
    <2>1. Script = u /\ DownAt = 32
      BY <1>3 DEF Script, DownAt
    <2> HIDE DEF s, d, t
    <2>2. Follows(u, s, 31, t, 11)
      BY <1>1, <1>2, ListsJoined
    <2> HIDE DEF u
    <2>3. /\ Lists(u, 42)
          /\ \A i \in 1 .. 31 : u[i] = s[i]
          /\ \A i \in 1 .. 11 : u[31 + i] = t[i]
      BY <2>2 DEF Follows
    <2>4. /\ \A i \in 1 .. 10 : u[i] = Begin[i]
          /\ \A i \in 1 .. 8 : u[10 + i] = Renew[i]
          /\ \A i \in 1 .. 13 : u[18 + i] = Warm[i]
      BY <1>1, <2>3
    <2> QED
      BY <1>3, <2>1, <2>3, <2>4 DEF t
  <1>4. CASE program = "demo"
    <2> DEFINE u == s \o d
               v == u \o d
               w == v \o d
               x == w \o t
    <2>1. Script = x /\ DownAt = 41
      BY <1>4 DEF Script, DownAt, demo_main, demo_setup, setup
    <2> HIDE DEF s, d, t
    <2>2. Follows(u, s, 31, d, 3)
      BY <1>1, <1>2, ListsJoined
    <2> HIDE DEF u
    <2>3. Lists(u, 34)
      BY <2>2 DEF Follows
    <2>4. Follows(v, u, 34, d, 3)
      BY <1>2, <2>3, ListsJoined
    <2> HIDE DEF v
    <2>5. Lists(v, 37)
      BY <2>4 DEF Follows
    <2>6. Follows(w, v, 37, d, 3)
      BY <1>2, <2>5, ListsJoined
    <2> HIDE DEF w
    <2>7. Lists(w, 40)
      BY <2>6 DEF Follows
    <2>8. Follows(x, w, 40, t, 11)
      BY <1>2, <2>7, ListsJoined
    <2> HIDE DEF x
    <2>9. \A i \in 1 .. 31 : x[i] = s[i]
      BY <2>2, <2>4, <2>6, <2>8 DEF Follows
    <2>10. \A i \in 1 .. 3 : x[31 + i] = d[i] /\ x[34 + i] = d[i] /\ x[37 + i] = d[i]
      BY <2>2, <2>4, <2>6, <2>8 DEF Follows
    <2>11. Lists(x, 51) /\ \A i \in 1 .. 11 : x[40 + i] = t[i]
      BY <2>8 DEF Follows
    <2>12. /\ \A i \in 1 .. 10 : x[i] = Begin[i]
           /\ \A i \in 1 .. 8 : x[10 + i] = Renew[i]
           /\ \A i \in 1 .. 13 : x[18 + i] = Warm[i]
      BY <1>1, <2>9
    <2> QED
      BY <1>4, <2>1, <2>10, <2>11, <2>12 DEF t, d
  <1> QED
    BY <1>3, <1>4

\* Which step is at which place.
LEMMA StepAt ==
    ASSUME program \in {"ildec", "demo"}, pc \in 1 .. Len(Script) + 1, NEW o, At(o)
    PROVE  /\ o = "send" => \/ pc = 1 /\ Arg = "idle"
                            \/ pc = 5 /\ Arg = "exec"
                            \/ pc = 11 /\ Arg = "disable"
                            \/ pc = 16 /\ Arg = "enable"
                            \/ pc = DownAt + 3 /\ Arg = "flush"
                            \/ pc = DownAt + 5 /\ Arg = "idle"
                            \/ pc = DownAt + 7 /\ Arg = "loaded"
           /\ o = "wait" => \/ pc = 4 /\ Arg = "idle"
                            \/ pc = 6 /\ Arg = "exec"
                            \/ pc = 10 /\ Arg = "settings"
                            \/ pc \in {13, 23, 25} /\ Arg = "returned"
                            \/ pc = 15 /\ Arg = "disable"
                            \/ pc = 18 /\ Arg = "enable"
                            \/ pc = DownAt + 4 /\ Arg = "flush"
                            \/ pc = DownAt + 6 /\ Arg = "idle"
                            \/ pc = DownAt + 10 /\ Arg = "loaded"
           /\ o = "check" => pc = 12
           /\ o = "alloc" => \/ pc = 2 /\ Arg = "in"
                             \/ pc \in {3, 17} /\ Arg = "out"
           /\ o = "free" => \/ pc \in {14, DownAt + 9} /\ Arg = "out"
                            \/ pc = DownAt + 8 /\ Arg = "in"
           /\ o = "fill" => \/ pc = 7 /\ Arg = 5
                            \/ pc \in {22, 24} /\ Arg = 1
           /\ o = "fillall" => pc = 31
           /\ o = "config" => \/ pc = 8 /\ Arg = 1
                              \/ pc = 9 /\ Arg = 2
                              \/ program = "demo" /\ pc \in {32, 35, 38} /\ Arg = 3
           /\ o = "stage" => \/ pc = 21 /\ Arg = 1
                             \/ pc = 30 /\ Arg = 2
                             \/ pc = DownAt /\ Arg = 3
           /\ o = "drain" => \/ pc \in {19, 29, DownAt + 1} /\ Arg = "bufempty"
                             \/ pc \in {20, 28, DownAt + 2} /\ Arg = "command"
           /\ o = "waitempty" => \/ pc \in {26, 27}
                                 \/ program = "demo" /\ pc \in {33, 36, 39}
           /\ o = "poll" => program = "demo" /\ pc \in {34, 37, 40}
           /\ pc \in 1 .. DownAt + 10
  <1>1. DownAt \in {32, 41} /\ (program = "demo" <=> DownAt = 41)
    BY DEF DownAt
  <1>2. pc \in 1 .. DownAt + 10 /\ Script[pc].op = o /\ Arg = Script[pc].arg
    <2>1. Len(Script) = DownAt + 10
      BY ScriptIs DEF Lists
    <2> QED
      BY <1>1, <2>1 DEF At, Arg
  <1>3. CASE pc \in 1 .. 10
    <2>1. Script[pc] = Begin[pc]
      BY <1>3, ScriptIs
    <2>2. \/ pc = 1 /\ o = "send" /\ Arg = "idle"
          \/ pc = 2 /\ o = "alloc" /\ Arg = "in"
          \/ pc = 3 /\ o = "alloc" /\ Arg = "out"
          \/ pc = 4 /\ o = "wait" /\ Arg = "idle"
          \/ pc = 5 /\ o = "send" /\ Arg = "exec"
          \/ pc = 6 /\ o = "wait" /\ Arg = "exec"
          \/ pc = 7 /\ o = "fill" /\ Arg = 5
          \/ pc = 8 /\ o = "config" /\ Arg = 1
          \/ pc = 9 /\ o = "config" /\ Arg = 2
          \/ pc = 10 /\ o = "wait" /\ Arg = "settings"
      <3>1. o = Begin[pc].op /\ Arg = Begin[pc].arg
        BY <1>2, <2>1
      <3> QED
        BY <1>3, <3>1, BeginIs DEF Step
    <2> QED
      BY <1>1, <1>2, <2>2
  <1>4. CASE pc \in 11 .. 18
    <2>1. PICK j \in 1 .. 8 : pc = 10 + j
      BY <1>4
    <2>2. Script[10 + j] = Renew[j]
      BY ScriptIs
    <2>3. \/ pc = 11 /\ o = "send" /\ Arg = "disable"
          \/ pc = 12 /\ o = "check" /\ Arg = "returned"
          \/ pc = 13 /\ o = "wait" /\ Arg = "returned"
          \/ pc = 14 /\ o = "free" /\ Arg = "out"
          \/ pc = 15 /\ o = "wait" /\ Arg = "disable"
          \/ pc = 16 /\ o = "send" /\ Arg = "enable"
          \/ pc = 17 /\ o = "alloc" /\ Arg = "out"
          \/ pc = 18 /\ o = "wait" /\ Arg = "enable"
      <3>1. o = Renew[j].op /\ Arg = Renew[j].arg
        BY <1>2, <2>1, <2>2
      <3> QED
        BY <2>1, <3>1, RenewIs DEF Step
    <2> QED
      BY <1>1, <1>2, <2>3
  <1>5. CASE pc \in 19 .. 31
    <2>1. PICK j \in 1 .. 13 : pc = 18 + j
      BY <1>5
    <2>2. Script[18 + j] = Warm[j]
      BY ScriptIs
    <2>3. \/ pc = 19 /\ o = "drain" /\ Arg = "bufempty"
          \/ pc = 20 /\ o = "drain" /\ Arg = "command"
          \/ pc = 21 /\ o = "stage" /\ Arg = 1
          \/ pc = 22 /\ o = "fill" /\ Arg = 1
          \/ pc = 23 /\ o = "wait" /\ Arg = "returned"
          \/ pc = 24 /\ o = "fill" /\ Arg = 1
          \/ pc = 25 /\ o = "wait" /\ Arg = "returned"
          \/ pc = 26 /\ o = "waitempty" /\ Arg = 0
          \/ pc = 27 /\ o = "waitempty" /\ Arg = 0
          \/ pc = 28 /\ o = "drain" /\ Arg = "command"
          \/ pc = 29 /\ o = "drain" /\ Arg = "bufempty"
          \/ pc = 30 /\ o = "stage" /\ Arg = 2
          \/ pc = 31 /\ o = "fillall" /\ Arg = 0
      <3>1. o = Warm[j].op /\ Arg = Warm[j].arg
        BY <1>2, <2>1, <2>2
      <3>2. /\ Warm[1].op = "drain" /\ Warm[1].arg = "bufempty"
            /\ Warm[2].op = "drain" /\ Warm[2].arg = "command"
            /\ Warm[3].op = "stage" /\ Warm[3].arg = 1
            /\ Warm[4].op = "fill" /\ Warm[4].arg = 1
            /\ Warm[5].op = "wait" /\ Warm[5].arg = "returned"
            /\ Warm[6].op = "fill" /\ Warm[6].arg = 1
            /\ Warm[7].op = "wait" /\ Warm[7].arg = "returned"
            /\ Warm[8].op = "waitempty" /\ Warm[8].arg = 0
            /\ Warm[9].op = "waitempty" /\ Warm[9].arg = 0
            /\ Warm[10].op = "drain" /\ Warm[10].arg = "command"
            /\ Warm[11].op = "drain" /\ Warm[11].arg = "bufempty"
            /\ Warm[12].op = "stage" /\ Warm[12].arg = 2
            /\ Warm[13].op = "fillall" /\ Warm[13].arg = 0
        BY WarmIs DEF Step
      <3> QED
        BY <2>1, <3>1, <3>2
    <2> QED
      BY <1>1, <1>2, <2>3
  <1>6. CASE program = "demo" /\ pc \in 32 .. 40
    <2>1. PICK j \in 1 .. 3 : pc = 31 + j \/ pc = 34 + j \/ pc = 37 + j
      BY <1>6
    <2>2. Script[31 + j] = decode[j] /\ Script[34 + j] = decode[j] /\ Script[37 + j] = decode[j]
      BY <1>6, ScriptIs
    <2>3. Script[pc] = decode[j]
      BY <2>1, <2>2
    <2> QED
      BY <1>1, <1>2, <1>6, <2>1, <2>3, DecodeIs DEF Step
  <1>7. CASE pc \in DownAt .. DownAt + 10
    <2> DEFINE d == DownAt - 1
    <2>1. PICK j \in 1 .. 11 : pc = d + j
      BY <1>1, <1>7
    <2>2. Script[d + j] = teardown[j]
      BY ScriptIs
    <2>3. \/ pc = DownAt /\ o = "stage" /\ Arg = 3
          \/ pc = DownAt + 1 /\ o = "drain" /\ Arg = "bufempty"
          \/ pc = DownAt + 2 /\ o = "drain" /\ Arg = "command"
          \/ pc = DownAt + 3 /\ o = "send" /\ Arg = "flush"
          \/ pc = DownAt + 4 /\ o = "wait" /\ Arg = "flush"
          \/ pc = DownAt + 5 /\ o = "send" /\ Arg = "idle"
          \/ pc = DownAt + 6 /\ o = "wait" /\ Arg = "idle"
          \/ pc = DownAt + 7 /\ o = "send" /\ Arg = "loaded"
          \/ pc = DownAt + 8 /\ o = "free" /\ Arg = "in"
          \/ pc = DownAt + 9 /\ o = "free" /\ Arg = "out"
          \/ pc = DownAt + 10 /\ o = "wait" /\ Arg = "loaded"
      <3>1. o = teardown[j].op /\ Arg = teardown[j].arg
        BY <1>2, <2>1, <2>2
      <3> QED
        BY <1>1, <2>1, <3>1, TeardownIs DEF Step
    <2> QED
      BY <1>1, <1>2, <2>3
  <1> QED
    BY <1>1, <1>2, <1>3, <1>4, <1>5, <1>6, <1>7

-----------------------------------------------------------------------------
(* The messages to the component                                           *)

NoCommand(s) == \A i \in DOMAIN s : s[i].op # "command"

\* Command c is the only command in s.
Sole(s, c) == \E i \in DOMAIN s :
    /\ s[i].op = "command" /\ s[i].arg = c
    /\ \A j \in DOMAIN s : j # i => s[j].op # "command"

EndsInCommand(s) == s # <<>> /\ s[Len(s)].op = "command"

NoFill(s) == \A i \in DOMAIN s : s[i].op # "fill"

\* The buffers in s are used, the component has none of them, and each is in s once.
FillsRight(s, u, h) ==
    /\ \A i \in DOMAIN s : s[i].op = "fill" => s[i].arg \in u \ h
    /\ \A i, j \in DOMAIN s :
           s[i].op = "fill" /\ s[j].op = "fill" /\ s[i].arg = s[j].arg => i = j

\* The input buffers in s hold nothing but what is in A.
FedOnly(s, A) == \A i \in DOMAIN s : s[i].op = "empty" => s[i].arg \in A

Empties(s) == {i \in DOMAIN s : s[i].op = "empty"}
Fed(s) == Cardinality(Empties(s))

\* What a message can be
LEMMA MessageOps ==
    ASSUME NEW m \in OmxMessages
    PROVE  /\ m.op = "command" \/ m.op = "fill" \/ m.op = "empty"
           /\ m.op = "command" => m.arg \in {"idle", "exec", "disable", "enable", "flush", "loaded"}
           /\ m.op = "fill" => m.arg \in Buffers
           /\ m.op = "empty" => m.arg \in 1 .. 3
  BY DEF OmxMessages

\* The input buffers on their way are counted by a number.
LEMMA EmptiesFinite ==
    ASSUME NEW s \in Seq(OmxMessages)
    PROVE  /\ IsFiniteSet(Empties(s)) /\ Fed(s) \in Nat
           /\ Fed(s) = 0 => FedOnly(s, {})
  <1>1. Len(s) \in Nat /\ DOMAIN s = 1 .. Len(s)
    OBVIOUS
  <1>2. IsFiniteSet(1 .. Len(s))
    BY <1>1, FS_Interval
  <1>3. Empties(s) \in SUBSET (1 .. Len(s))
    BY <1>1 DEF Empties
  <1>4. IsFiniteSet(Empties(s))
    BY <1>2, <1>3, FS_Subset
  <1>5. Fed(s) \in Nat
    BY <1>4, FS_CardinalityType DEF Fed
  <1>6. Fed(s) = 0 => Empties(s) = {}
    BY <1>4, FS_EmptySet DEF Fed
  <1> QED
    BY <1>4, <1>5, <1>6 DEF Empties, FedOnly

\* A message is sent.
LEMMA AppendMessage ==
    ASSUME NEW s \in Seq(OmxMessages), NEW m \in OmxMessages
    PROVE  LET z == Append(s, m) IN
           /\ z \in Seq(OmxMessages)
           /\ m.op # "command" /\ NoCommand(s) => NoCommand(z)
           /\ m.op # "command" => \A c : Sole(s, c) => Sole(z, c)
           /\ m.op = "command" /\ NoCommand(s) => Sole(z, m.arg) /\ EndsInCommand(z)
           /\ m.op # "fill" /\ NoFill(s) => NoFill(z)
           /\ m.op # "fill" => \A u, h : FillsRight(s, u, h) => FillsRight(z, u, h)
           /\ Fed(z) = IF m.op = "empty" THEN Fed(s) + 1 ELSE Fed(s)
           /\ \A A : FedOnly(s, A) /\ (m.op = "empty" => m.arg \in A) => FedOnly(z, A)
  <1> DEFINE z == Append(s, m)
             n == Len(s)
  <1>1. /\ z \in Seq(OmxMessages) /\ n \in Nat /\ DOMAIN s = 1 .. n /\ DOMAIN z = 1 .. n + 1
        /\ Len(z) = n + 1 /\ z[n + 1] = m /\ \A i \in 1 .. n : z[i] = s[i]
    OBVIOUS
  <1> HIDE DEF z, n
  <1>2. m.op # "command" /\ NoCommand(s) => NoCommand(z)
    BY <1>1 DEF NoCommand
  <1>3. m.op # "command" => \A c : Sole(s, c) => Sole(z, c)
    BY <1>1 DEF Sole
  <1>4. ASSUME m.op = "command", NoCommand(s) PROVE Sole(z, m.arg) /\ EndsInCommand(z)
    <2>1. n + 1 \in DOMAIN z /\ z[n + 1].op = "command" /\ z[n + 1].arg = m.arg
      BY <1>1, <1>4
    <2>2. \A j \in DOMAIN z : j # n + 1 => z[j].op # "command"
      BY <1>1, <1>4 DEF NoCommand
    <2>3. z # <<>> /\ z[Len(z)].op = "command"
      BY <1>1, <1>4
    <2> QED
      BY <2>1, <2>2, <2>3 DEF Sole, EndsInCommand
  <1>5. m.op # "fill" /\ NoFill(s) => NoFill(z)
    BY <1>1 DEF NoFill
  <1>6. m.op # "fill" => \A u, h : FillsRight(s, u, h) => FillsRight(z, u, h)
    BY <1>1 DEF FillsRight
  <1>7. Fed(z) = IF m.op = "empty" THEN Fed(s) + 1 ELSE Fed(s)
    <2>1. Empties(z) = IF m.op = "empty" THEN Empties(s) \union {n + 1} ELSE Empties(s)
      BY <1>1 DEF Empties
    <2>2. n + 1 \notin Empties(s)
      BY <1>1 DEF Empties
    <2> QED
      BY <2>1, <2>2, EmptiesFinite, FS_AddElement DEF Fed
  <1>8. \A A : FedOnly(s, A) /\ (m.op = "empty" => m.arg \in A) => FedOnly(z, A)
    BY <1>1 DEF FedOnly
  <1> QED
    BY <1>1, <1>2, <1>3, <1>4, <1>5, <1>6, <1>7, <1>8 DEF z

\* The component reads the first message.
LEMMA ReadMessage ==
    ASSUME NEW s \in Seq(OmxMessages), s # <<>>
    PROVE  LET t == Tail(s)  m == Head(s) IN
           /\ t \in Seq(OmxMessages) /\ m \in OmxMessages
           /\ NoCommand(s) => NoCommand(t) /\ m.op # "command"
           /\ m.op # "command" => \A c : Sole(s, c) => Sole(t, c)
           /\ m.op = "command" => \A c : Sole(s, c) => m.arg = c /\ NoCommand(t)
           /\ m.op = "command" => \A c : Sole(s, c) /\ EndsInCommand(s) => NoFill(t)
           /\ m.op # "command" /\ EndsInCommand(s) => EndsInCommand(t)
           /\ NoFill(s) => NoFill(t) /\ m.op # "fill"
           /\ \A u, h : FillsRight(s, u, h) =>
                  IF m.op = "fill" THEN m.arg \in u \ h /\ FillsRight(t, u, h \union {m.arg})
                  ELSE FillsRight(t, u, h)
           /\ Fed(s) = IF m.op = "empty" THEN Fed(t) + 1 ELSE Fed(t)
           /\ \A A : FedOnly(s, A) => FedOnly(t, A) /\ (m.op = "empty" => m.arg \in A)
  <1> DEFINE t == Tail(s)
             m == Head(s)
             n == Len(t)
  <1>1. /\ t \in Seq(OmxMessages) /\ m \in OmxMessages /\ n \in Nat /\ DOMAIN t = 1 .. n /\ DOMAIN s = 1 .. n + 1
        /\ Len(s) = n + 1 /\ s[1] = m /\ \A i \in 1 .. n : t[i] = s[i + 1]
    OBVIOUS
  <1> HIDE DEF t, m, n
  <1>2. \A i \in 1 .. n + 1 : i = 1 \/ (i - 1 \in 1 .. n /\ s[i] = t[i - 1])
    BY <1>1
  <1>3. NoCommand(s) => NoCommand(t) /\ m.op # "command"
    BY <1>1 DEF NoCommand
  <1>4. ASSUME m.op # "command", NEW c, Sole(s, c) PROVE Sole(t, c)
    <2>1. PICK i \in 1 .. n + 1 : /\ s[i].op = "command" /\ s[i].arg = c
                                  /\ \A j \in 1 .. n + 1 : j # i => s[j].op # "command"
      BY <1>1, <1>4 DEF Sole
    <2>2. i - 1 \in 1 .. n /\ t[i - 1] = s[i]
      BY <1>1, <1>2, <1>4, <2>1
    <2>3. \A j \in 1 .. n : j # i - 1 => t[j].op # "command"
      BY <1>1, <2>1
    <2> QED
      BY <1>1, <2>1, <2>2, <2>3 DEF Sole
  <1>5. ASSUME m.op = "command", NEW c, Sole(s, c) PROVE m.arg = c /\ NoCommand(t)
    <2>1. PICK i \in 1 .. n + 1 : /\ s[i].op = "command" /\ s[i].arg = c
                                  /\ \A j \in 1 .. n + 1 : j # i => s[j].op # "command"
      BY <1>1, <1>5 DEF Sole
    <2>2. i = 1
      BY <1>1, <1>5, <2>1
    <2>3. \A j \in 1 .. n : t[j].op # "command"
      BY <1>1, <2>1, <2>2
    <2> QED
      BY <1>1, <2>1, <2>2, <2>3 DEF NoCommand
  <1>6. ASSUME m.op = "command", NEW c, Sole(s, c), EndsInCommand(s) PROVE NoFill(t)
    <2>1. \A j \in 1 .. n : t[j].op # "command"
      BY <1>1, <1>5, <1>6 DEF NoCommand
    <2>2. n # 0 => t[n] = s[n + 1]
      BY <1>1
    <2>3. n = 0
      BY <1>1, <1>6, <2>1, <2>2 DEF EndsInCommand
    <2> QED
      BY <1>1, <2>3 DEF NoFill
  <1>7. ASSUME m.op # "command", EndsInCommand(s) PROVE EndsInCommand(t)
    <2>1. n # 0
      BY <1>1, <1>7 DEF EndsInCommand
    <2>2. t[n] = s[n + 1] /\ t # <<>>
      BY <1>1, <2>1
    <2> QED
      BY <1>1, <1>7, <2>2 DEF EndsInCommand, n
  <1>8. NoFill(s) => NoFill(t) /\ m.op # "fill"
    BY <1>1 DEF NoFill
  <1>9. ASSUME NEW u, NEW h, FillsRight(s, u, h)
        PROVE  IF m.op = "fill" THEN m.arg \in u \ h /\ FillsRight(t, u, h \union {m.arg})
               ELSE FillsRight(t, u, h)
    <2>1. \A i \in 1 .. n + 1 : s[i].op = "fill" => s[i].arg \in u \ h
      BY <1>1, <1>9 DEF FillsRight
    <2>2. \A i, j \in 1 .. n + 1 :
              s[i].op = "fill" /\ s[j].op = "fill" /\ s[i].arg = s[j].arg => i = j
      BY <1>1, <1>9 DEF FillsRight
    <2>3. \A i, j \in 1 .. n :
              t[i].op = "fill" /\ t[j].op = "fill" /\ t[i].arg = t[j].arg => i = j
      <3> TAKE i \in 1 .. n, j \in 1 .. n
      <3>1. t[i] = s[i + 1] /\ t[j] = s[j + 1] /\ i + 1 \in 1 .. n + 1 /\ j + 1 \in 1 .. n + 1
        BY <1>1
      <3>2. i + 1 = j + 1 => i = j
        BY <1>1
      <3> QED
        BY <2>2, <3>1, <3>2
    <2>4. \A i \in 1 .. n : t[i].op = "fill" => t[i].arg \in u \ h
      BY <1>1, <2>1
    <2>5. ASSUME m.op = "fill" PROVE \A i \in 1 .. n : t[i].op = "fill" => t[i].arg # m.arg
      <3> TAKE i \in 1 .. n
      <3>1. t[i] = s[i + 1] /\ i + 1 \in 1 .. n + 1 /\ 1 \in 1 .. n + 1 /\ i + 1 # 1 /\ s[1] = m
        BY <1>1
      <3> QED
        BY <2>2, <2>5, <3>1
    <2>6. m.op = "fill" => m.arg \in u \ h
      BY <1>1, <2>1
    <2> QED
      BY <1>1, <2>3, <2>4, <2>5, <2>6 DEF FillsRight
  <1>10. Fed(s) = IF m.op = "empty" THEN Fed(t) + 1 ELSE Fed(t)
    <2> DEFINE More == Empties(s) \ {1}
               f == [i \in Empties(t) |-> i + 1]
    <2>1. More = {i + 1 : i \in Empties(t)}
      <3>1. ASSUME NEW i \in More PROVE i - 1 \in Empties(t) /\ i = (i - 1) + 1
        BY <1>1, <1>2 DEF Empties
      <3>2. ASSUME NEW i \in Empties(t) PROVE i + 1 \in More
        BY <1>1 DEF Empties
      <3> QED
        BY <3>1, <3>2
    <2>2. f \in Bijection(Empties(t), More)
      <3>1. Empties(t) \subseteq Nat
        BY <1>1 DEF Empties
      <3>2. f \in [Empties(t) -> More]
        BY <2>1
      <3>3. \A i, j \in Empties(t) : f[i] = f[j] => i = j
        BY <3>1
      <3>4. \A k \in More : \E i \in Empties(t) : f[i] = k
        BY <2>1
      <3> QED
        BY <3>2, <3>3, <3>4 DEF Bijection, Injection, Surjection, IsInjective
    <2>3. ExistsBijection(Empties(t), More)
      BY <2>2 DEF ExistsBijection
    <2>4. IsFiniteSet(Empties(t)) /\ IsFiniteSet(Empties(s)) /\ Fed(t) \in Nat /\ Fed(s) \in Nat
      BY <1>1, EmptiesFinite
    <2>5. Cardinality(More) = Fed(t)
      BY <2>3, <2>4, FS_Bijection DEF Fed
    <2>6. Cardinality(More) = IF 1 \in Empties(s) THEN Fed(s) - 1 ELSE Fed(s)
      BY <2>4, FS_RemoveElement DEF Fed
    <2>7. 1 \in Empties(s) <=> m.op = "empty"
      BY <1>1 DEF Empties
    <2> QED
      BY <2>4, <2>5, <2>6, <2>7
  <1>11. \A A : FedOnly(s, A) => FedOnly(t, A) /\ (m.op = "empty" => m.arg \in A)
    BY <1>1 DEF FedOnly
  <1> QED
    BY <1>1, <1>3, <1>4, <1>5, <1>6, <1>7, <1>8, <1>9, <1>10, <1>11 DEF t, m

\* Buffers are given to the component in a row.
LEMMA AppendFills ==
    ASSUME NEW s \in Seq(OmxMessages), NEW bs \in SUBSET Buffers, NEW n \in Nat, NEW order \in [1 .. n -> bs],
           \A i, j \in DOMAIN order : i < j => order[i] < order[j]
    PROVE  LET z == s \o [i \in DOMAIN order |-> Step("fill", order[i])] IN
           /\ z \in Seq(OmxMessages)
           /\ NoCommand(s) => NoCommand(z)
           /\ \A c : Sole(s, c) => Sole(z, c)
           /\ \A u, h : FillsRight(s, u, h) /\ h \subseteq u /\ bs \intersect u = {} =>
                  FillsRight(z, u \union bs, h)
           /\ Fed(z) = Fed(s)
           /\ \A A : FedOnly(s, A) => FedOnly(z, A)
  <1> DEFINE t == [i \in 1 .. n |-> Step("fill", order[i])]
             z == s \o t
             k == Len(s)
  <1>1. DOMAIN order = 1 .. n
    OBVIOUS
  <1>2. t \in Seq(OmxMessages) /\ Len(t) = n
    BY DEF OmxMessages, Step
  <1>3. \A i \in 1 .. n : t[i].op = "fill" /\ t[i].arg = order[i] /\ order[i] \in bs
    BY DEF Step
  <1>4. \A i, j \in 1 .. n : order[i] = order[j] => i = j
    <2>1. N \in Nat
      BY AvcSetupAssumption
    <2>2. \A b \in bs : b \in Nat
      BY <2>1 DEF Buffers
    <2>3. \A i \in 1 .. n : order[i] \in Nat
      BY <2>2
    <2> QED
      BY <1>1, <2>3
  <1> HIDE DEF t
  <1>5. /\ z \in Seq(OmxMessages) /\ Len(z) = k + n
        /\ \A i \in 1 .. k : z[i] = s[i]
        /\ \A i \in 1 .. n : z[k + i] = t[i]
    <2>1. s \o t \in Seq(OmxMessages) /\ Joins(s \o t, s, t)
      BY <1>2, Joined
    <2> QED
      BY <1>2, <2>1 DEF Joins
  <1>6. k \in Nat /\ DOMAIN s = 1 .. k /\ DOMAIN z = 1 .. k + n
    BY <1>5
  <1> HIDE DEF z, k
  <1>7. \A i \in 1 .. k + n : i \in 1 .. k \/ (i - k \in 1 .. n /\ z[i] = t[i - k])
    <2> TAKE i \in 1 .. k + n
    <2>1. i \in 1 .. k \/ (i - k \in 1 .. n /\ i = k + (i - k))
      BY <1>6
    <2> QED
      BY <1>5, <2>1
  <1>8. \A i \in 1 .. k + n : i \in 1 .. k \/ (z[i].op = "fill" /\ z[i].arg \in bs)
    BY <1>3, <1>7
  <1>9. 1 .. k \subseteq 1 .. k + n
    BY <1>6
  <1>10. NoCommand(s) => NoCommand(z)
    BY <1>5, <1>6, <1>8 DEF NoCommand
  <1>11. ASSUME NEW c, Sole(s, c) PROVE Sole(z, c)
    <2>1. PICK i \in 1 .. k : /\ s[i].op = "command" /\ s[i].arg = c
                              /\ \A j \in 1 .. k : j # i => s[j].op # "command"
      BY <1>6, <1>11 DEF Sole
    <2>2. i \in 1 .. k + n /\ z[i] = s[i]
      BY <1>5, <1>9
    <2>3. \A j \in 1 .. k + n : j # i => z[j].op # "command"
      BY <1>5, <1>8, <2>1
    <2> QED
      BY <1>6, <2>1, <2>2, <2>3 DEF Sole
  <1>12. ASSUME NEW u, NEW h, FillsRight(s, u, h), h \subseteq u, bs \intersect u = {}
         PROVE  FillsRight(z, u \union bs, h)
    <2>1. \A i \in 1 .. k + n : z[i].op = "fill" => z[i].arg \in (u \union bs) \ h
      BY <1>5, <1>6, <1>8, <1>12 DEF FillsRight
    <2>2. ASSUME NEW i \in 1 .. k + n, NEW j \in 1 .. k + n,
                 z[i].op = "fill", z[j].op = "fill", z[i].arg = z[j].arg
          PROVE  i = j
      <3>1. CASE i \in 1 .. k /\ j \in 1 .. k
        BY <1>5, <1>6, <1>12, <2>2, <3>1 DEF FillsRight
      <3>2. CASE i \in 1 .. k /\ j \notin 1 .. k
        <4>1. z[i].arg \in u
          BY <1>5, <1>6, <1>12, <2>2, <3>2 DEF FillsRight
        <4>2. z[j].arg \in bs
          BY <1>8, <3>2
        <4> QED
          BY <1>12, <2>2, <4>1, <4>2
      <3>3. CASE i \notin 1 .. k /\ j \in 1 .. k
        <4>1. z[j].arg \in u
          BY <1>5, <1>6, <1>12, <2>2, <3>3 DEF FillsRight
        <4>2. z[i].arg \in bs
          BY <1>8, <3>3
        <4> QED
          BY <1>12, <2>2, <4>1, <4>2
      <3>4. CASE i \notin 1 .. k /\ j \notin 1 .. k
        <4>1. /\ i - k \in 1 .. n /\ z[i] = t[i - k]
              /\ j - k \in 1 .. n /\ z[j] = t[j - k]
          BY <1>7, <3>4
        <4>2. i - k = j - k
          BY <1>3, <1>4, <2>2, <4>1
        <4> QED
          BY <1>6, <4>2
      <3> QED
        BY <3>1, <3>2, <3>3, <3>4
    <2> QED
      BY <1>6, <2>1, <2>2 DEF FillsRight
  <1>13. Fed(z) = Fed(s)
    <2>1. Empties(z) = Empties(s)
      BY <1>5, <1>6, <1>8, <1>9 DEF Empties
    <2> QED
      BY <2>1 DEF Fed
  <1>14. \A A : FedOnly(s, A) => FedOnly(z, A)
    BY <1>5, <1>6, <1>8 DEF FedOnly
  <1>15. [i \in DOMAIN order |-> Step("fill", order[i])] = t
    BY <1>1 DEF t
  <1> QED
    BY <1>5, <1>10, <1>11, <1>12, <1>13, <1>14, <1>15 DEF z

-----------------------------------------------------------------------------
(* The inductive invariant                                                 *)

\* The component has nothing to do and is told to do nothing;
Quiet(d, s) == d = None /\ NoCommand(s)

\* command c is sent, but not begun; it is carried out;
Sent(d, s, c) == d = None /\ Sole(s, c)
Doing(d, s, c) == d = c /\ NoCommand(s)
Open(d, s, c) == Sent(d, s, c) \/ Doing(d, s, c)

\* nothing is under way, and nothing is posted; only command c is, which is posted
\* when it is complete.
Still == Quiet(doing, inbox) /\ sem_command_ = <<>>
UnderWay(c) ==
    \/ Open(doing, inbox, c) /\ sem_command_ = <<>>
    \/ Quiet(doing, inbox) /\ sem_command_ = <<c>>

\* How many input buffers are on their way, with the component, or given back and
\* not waited for
InputsOut == sem_bufempty_ + inputs + Fed(inbox)
InputsRight ==
    /\ InputsOut <= 2
    /\ pc <= 8 => InputsOut = 0
    /\ pc \in {9, 27} \/ (program = "demo" /\ pc \in {33, 36, 39}) => InputsOut <= 1
    /\ pc > 27 /\ ~(program = "demo" /\ pc \in {33, 36, 39}) => InputsOut = 0

\* SPS and PPS are counted until the component told the settings, then how far it
\* has come: it has not begun anew before the output port is enabled again.
SettingsRight ==
    /\ pc <= 8 => config + Fed(inbox) = 0
    /\ pc = 9 => config + Fed(inbox) = 1
    /\ pc = 10 => config + Fed(inbox) = 2 \/ (config = 3 /\ FedOnly(inbox, {}))
    /\ pc <= 10 => FedOnly(inbox, {1, 2})
    /\ pc \in 11 .. 23 => FedOnly(inbox, {})
    /\ pc \in 11 .. 16 => config = 3
    /\ pc > 10 => config \in 3 .. 6 /\ FedOnly(inbox, {3})

\* Before stage 2 the flags of the output buffers say which of them the component
\* has or will get, each once, and there is no picture.
OutputsRight ==
    stage_ < 2 => filled = {} /\ held \subseteq used /\ FillsRight(inbox, used, held)

\* What depends on the step alone
StagesRight ==
    /\ pc <= 21 => stage_ = 0
    /\ pc \in 22 .. 30 => stage_ = 1
    /\ pc \in 31 .. DownAt => stage_ = 2
    /\ pc > DownAt => stage_ = 3
    /\ pc <= 7 \/ pc \in 14 .. 22 => used = {}
    /\ pc \in 4 .. 14 => "out" \in pop
    /\ pc \in 7 .. DownAt + 5 => omx = "exec"
    /\ pc <= 13 => ~raced

\* setup() until the settings changed
BeginPlace ==
    /\ pc \in {1, 5, 7, 8, 9, 11} => Still
    /\ pc \in 2 .. 4 => UnderWay("idle")
    /\ pc = 6 => UnderWay("exec") /\ (sem_command_ # <<>> => omx = "exec")
    /\ pc = 10 => /\ Quiet(doing, inbox)
                  /\ sem_command_ = IF config = 3 THEN <<"settings">> ELSE <<>>

\* While the output port is disabled: its last buffer is posted when it came back,
\* and if that was before setup() looked, the post stays.
DisablePlace ==
    /\ pc \in {12, 13} => \/ Open(doing, inbox, "disable") /\ sem_command_ = <<>>
                          \/ Doing(doing, inbox, "disable") /\ sem_command_ = <<"returned">> /\ used = {}
    /\ pc = 14 => \/ ~raced /\ Open(doing, inbox, "disable") /\ sem_command_ = <<>>
                  \/ raced /\ Doing(doing, inbox, "disable") /\ sem_command_ = <<"returned">>
    /\ pc = 15 => \/ ~raced /\ UnderWay("disable")
                  \/ raced /\ Doing(doing, inbox, "disable") /\ sem_command_ = <<"returned">>
                  \/ raced /\ Quiet(doing, inbox) /\ sem_command_ = <<"returned", "disable">>
    /\ pc = 16 => \/ ~raced /\ Still
                  \/ raced /\ Doing(doing, inbox, "disable") /\ sem_command_ = <<>>
                  \/ raced /\ Quiet(doing, inbox) /\ sem_command_ = <<"disable">>

\* While the port is enabled: after a race each wait is ended by the post of the one
\* before, up to the buffers of stage 1, none of which comes back before the port is
\* enabled.
Enabling(q) == Open(doing, inbox, "enable") /\ config = 3 /\ sem_command_ = q
EnablePlace ==
    /\ pc = 17 => \/ ~raced /\ (Enabling(<<>>) \/ (Quiet(doing, inbox) /\ sem_command_ = <<"enable">>))
                  \/ raced /\ doing = "disable" /\ Sole(inbox, "enable") /\ config = 3 /\ sem_command_ = <<>>
                  \/ raced /\ Enabling(<<"disable">>)
                  \/ raced /\ Quiet(doing, inbox) /\ sem_command_ = <<"disable", "enable">>
    /\ pc = 18 => \/ ~raced /\ (Enabling(<<>>) \/ (Quiet(doing, inbox) /\ sem_command_ = <<"enable">>))
                  \/ raced /\ Enabling(<<"disable">>)
                  \/ raced /\ Quiet(doing, inbox) /\ sem_command_ = <<"disable", "enable">>
    /\ pc \in 19 .. 23 => \/ Quiet(doing, inbox)
                          \/ raced /\ Enabling(<<>>)
    /\ pc \in 19 .. 21 /\ ~raced => sem_command_ = <<>>

\* Stages 1 and 2: without a race nothing but buffers is posted.
WarmPlace ==
    /\ pc \in 22 .. 27 /\ ~raced => \A i \in DOMAIN sem_command_ : sem_command_[i] = "returned"
    /\ pc \in 24 .. DownAt + 3 => Quiet(doing, inbox)
    /\ pc = DownAt + 3 => sem_command_ = <<>>

\* teardown(): a flush leaves the component without output buffers.
DownPlace ==
    /\ pc = DownAt + 4 =>
          \/ Sent(doing, inbox, "flush") /\ EndsInCommand(inbox) /\ sem_command_ = <<>>
          \/ Doing(doing, inbox, "flush") /\ NoFill(inbox) /\ sem_command_ = <<>>
          \/ Quiet(doing, inbox) /\ NoFill(inbox) /\ held = {} /\ sem_command_ = <<"flush">>
    /\ pc \in {DownAt + 5, DownAt + 7, DownAt + 11} => Still
    /\ pc = DownAt + 6 => UnderWay("idle")
    /\ pc \in DownAt + 8 .. DownAt + 10 => UnderWay("loaded")
    /\ pc > DownAt + 4 => held = {} /\ NoFill(inbox)

PlacesRight == BeginPlace /\ DisablePlace /\ EnablePlace /\ WarmPlace /\ DownPlace

SetupInv ==
    /\ SetupSound
    /\ ~exited =>
        /\ InputsRight /\ SettingsRight /\ OutputsRight /\ StagesRight
        /\ PlacesRight

-----------------------------------------------------------------------------
(* The calling thread keeps the invariant                                  *)

\* What every proof about a step begins with.
LEMMA Places ==
    ASSUME SetupInv
    PROVE  /\ program \in {"ildec", "demo"}
           /\ DownAt \in {32, 41} /\ (program = "demo" <=> DownAt = 41)
           /\ Len(Script) = DownAt + 10 /\ pc \in 1 .. DownAt + 11
           /\ SetupTypeOK /\ InTurn /\ FreesOwn
           /\ Fed(inbox) \in Nat /\ (Fed(inbox) = 0 => FedOnly(inbox, {}))
  <1>1. program \in {"ildec", "demo"} /\ pc \in 1 .. Len(Script) + 1 /\ inbox \in Seq(OmxMessages)
    BY AvcSetupAssumption DEF SetupInv, SetupSound, SetupTypeOK
  <1>2. DownAt \in {32, 41} /\ (program = "demo" <=> DownAt = 41)
    BY DEF DownAt
  <1>3. Len(Script) = DownAt + 10
    BY <1>1, ScriptIs DEF Lists
  <1> QED
    BY <1>1, <1>2, <1>3, EmptiesFinite DEF SetupInv, SetupSound

\* The script is the same as long as the program is.
LEMMA SameScript ==
    ASSUME program' = program
    PROVE  Script' = Script /\ DownAt' = DownAt
  BY DEF Script, DownAt

\* A step of the calling thread goes on to the next one.
LEMMA Continues ==
    ASSUME SetupInv, NEW o, At(o), Continue
    PROVE  /\ exited = FALSE /\ exited' = exited /\ pc' = pc + 1 /\ program' = program /\ keeps' = keeps
           /\ Script' = Script /\ DownAt' = DownAt
           /\ DownAt \in {32, 41} /\ (program = "demo" <=> DownAt = 41)
           /\ pc \in 1 .. DownAt + 10 /\ pc' \in 1 .. Len(Script') + 1
           /\ InputsRight /\ SettingsRight /\ OutputsRight /\ StagesRight /\ PlacesRight
  <1>1. exited = FALSE /\ exited' = exited /\ pc' = pc + 1 /\ program' = program /\ keeps' = keeps
    BY Places DEF At, Continue, program_, SetupTypeOK
  <1>2. Script' = Script /\ DownAt' = DownAt
    BY <1>1, SameScript
  <1>3. pc \in 1 .. DownAt + 10
    BY Places DEF At
  <1>4. pc' \in 1 .. Len(Script') + 1
    BY <1>1, <1>2, <1>3, Places
  <1> QED
    BY <1>1, <1>2, <1>3, <1>4, Places DEF SetupInv

\* The numbers that the invariant is about.
LEMMA SetupNumbers ==
    ASSUME SetupInv
    PROVE  /\ Fed(inbox) \in Nat /\ sem_bufempty_ \in Nat /\ inputs \in Nat /\ config \in 0 .. 6
           /\ Fed(inbox) = 0 => FedOnly(inbox, {})
           /\ FedOnly(inbox, {}) => FedOnly(inbox, {3})
  BY Places DEF SetupTypeOK, FedOnly

\* A command is sent.
LEMMA SendInv ==
    ASSUME SetupInv, Send
    PROVE  SetupInv'
  <1>1. /\ exited = FALSE /\ exited' = exited /\ pc' = pc + 1 /\ program' = program /\ keeps' = keeps
        /\ Script' = Script /\ DownAt' = DownAt
        /\ DownAt \in {32, 41} /\ (program = "demo" <=> DownAt = 41)
        /\ pc \in 1 .. DownAt + 10 /\ pc' \in 1 .. Len(Script') + 1
    BY Continues DEF Send
  <1>2. UNCHANGED <<stage_, icur_, used, pop, sem_command_, sem_bufempty_, held, inputs, config, omx,
                    doing, filled, pictures, crossed, raced, freedHeld>>
    BY DEF Send, component, history
  <1>3. \/ pc = 1 /\ Arg = "idle"
        \/ pc = 5 /\ Arg = "exec"
        \/ pc = 11 /\ Arg = "disable"
        \/ pc = 16 /\ Arg = "enable"
        \/ pc = DownAt + 3 /\ Arg = "flush"
        \/ pc = DownAt + 5 /\ Arg = "idle"
        \/ pc = DownAt + 7 /\ Arg = "loaded"
    BY Places, StepAt DEF Send
  <1> DEFINE m == Step("command", Arg)
  <1>4. m \in OmxMessages /\ m.op = "command" /\ m.arg = Arg
    BY <1>3 DEF OmxMessages, Step
  <1>5. inbox \in Seq(OmxMessages) /\ inbox' = Append(inbox, m)
    BY Places DEF Send, SetupTypeOK
  <1> HIDE DEF m
  <1>6. /\ inbox' \in Seq(OmxMessages)
        /\ NoCommand(inbox) => Sole(inbox', Arg) /\ EndsInCommand(inbox')
        /\ NoFill(inbox) => NoFill(inbox')
        /\ \A u, h : FillsRight(inbox, u, h) => FillsRight(inbox', u, h)
        /\ Fed(inbox') = Fed(inbox)
        /\ \A A : FedOnly(inbox, A) => FedOnly(inbox', A)
    BY <1>4, <1>5, AppendMessage
  <1>7. SetupTypeOK /\ InTurn /\ FreesOwn
    BY Places
  <1>8. InputsRight /\ SettingsRight /\ OutputsRight /\ StagesRight
    BY <1>1 DEF SetupInv
  <1>9. PlacesRight
    BY <1>1 DEF SetupInv
  <1>10. SetupTypeOK'
    BY <1>1, <1>2, <1>3, <1>6, <1>7 DEF SetupTypeOK
  <1>11. InTurn' /\ FreesOwn'
    BY <1>1, <1>2, <1>3, <1>6, <1>7 DEF InTurn, FreesOwn
  <1>12. InputsRight'
    BY <1>1, <1>2, <1>3, <1>6, <1>8, SetupNumbers DEF InputsRight, InputsOut
  <1>13. SettingsRight'
    BY <1>1, <1>2, <1>3, <1>6, <1>8, SetupNumbers DEF SettingsRight
  <1>14. OutputsRight'
    BY <1>1, <1>2, <1>3, <1>6, <1>8 DEF OutputsRight, StagesRight
  <1>15. StagesRight'
    BY <1>1, <1>2, <1>3, <1>6, <1>8 DEF StagesRight
  <1>16. BeginPlace'
    BY <1>1, <1>2, <1>3, <1>6, <1>8, <1>9 DEF PlacesRight, BeginPlace, DisablePlace, EnablePlace,
      WarmPlace, DownPlace, Still, UnderWay, Open, Sent, Doing, Quiet, Enabling, None
  <1>17. DisablePlace'
    BY <1>1, <1>2, <1>3, <1>6, <1>8, <1>9 DEF PlacesRight, BeginPlace, DisablePlace, EnablePlace,
      WarmPlace, DownPlace, Still, UnderWay, Open, Sent, Doing, Quiet, Enabling, None, StagesRight
  <1>18. EnablePlace'
    BY <1>1, <1>2, <1>3, <1>6, <1>8, <1>9 DEF PlacesRight, BeginPlace, DisablePlace, EnablePlace,
      WarmPlace, DownPlace, Still, UnderWay, Open, Sent, Doing, Quiet, Enabling, None, SettingsRight
  <1>19. WarmPlace'
    BY <1>1, <1>2, <1>3, <1>6, <1>8, <1>9 DEF PlacesRight, BeginPlace, DisablePlace, EnablePlace,
      WarmPlace, DownPlace, Still, UnderWay, Open, Sent, Doing, Quiet, Enabling, None, StagesRight
  <1>20. DownPlace'
    BY <1>1, <1>2, <1>3, <1>6, <1>8, <1>9 DEF PlacesRight, BeginPlace, DisablePlace, EnablePlace,
      WarmPlace, DownPlace, Still, UnderWay, Open, Sent, Doing, Quiet, Enabling, None, StagesRight
  <1> QED
    BY <1>10, <1>11, <1>12, <1>13, <1>14, <1>15, <1>16, <1>17, <1>18, <1>19, <1>20
       DEF SetupInv, SetupSound, PlacesRight

\* The oldest post is taken.
LEMMA TakePost ==
    ASSUME NEW S, NEW s \in Seq(S), s # <<>>
    PROVE  /\ Tail(s) \in Seq(S)
           /\ \A c : s = <<c>> => Head(s) = c /\ Tail(s) = <<>>
           /\ \A c, d : s = <<c, d>> => Head(s) = c /\ Tail(s) = <<d>>
           /\ \A c : (\A i \in DOMAIN s : s[i] = c) =>
                  Head(s) = c /\ \A i \in DOMAIN Tail(s) : Tail(s)[i] = c
  <1>1. Tail(s) \in Seq(S) /\ Len(s) \in Nat /\ Len(s) > 0 /\ DOMAIN s = 1 .. Len(s)
    OBVIOUS
  <1>2. Len(Tail(s)) = Len(s) - 1 /\ \A i \in 1 .. Len(s) - 1 : Tail(s)[i] = s[i + 1]
    OBVIOUS
  <1>3. Head(s) = s[1]
    OBVIOUS
  <1>4. ASSUME NEW c, \A i \in DOMAIN s : s[i] = c
        PROVE  Head(s) = c /\ \A i \in DOMAIN Tail(s) : Tail(s)[i] = c
    <2>1. DOMAIN Tail(s) = 1 .. Len(s) - 1
      BY <1>1, <1>2
    <2> QED
      BY <1>1, <1>2, <1>3, <1>4, <2>1
  <1>5. \A c, d : s = <<c, d>> => Head(s) = c /\ Tail(s) = <<d>>
    OBVIOUS
  <1>6. \A c : s = <<c>> => Head(s) = c /\ Tail(s) = <<>>
    OBVIOUS
  <1> QED
    BY <1>1, <1>4, <1>5, <1>6

\* Once the semaphore is posted, the calling thread goes on.
LEMMA WaitInv ==
    ASSUME SetupInv, Wait
    PROVE  SetupInv'
  <1>1. /\ exited = FALSE /\ exited' = exited /\ pc' = pc + 1 /\ program' = program /\ keeps' = keeps
        /\ Script' = Script /\ DownAt' = DownAt
        /\ DownAt \in {32, 41} /\ (program = "demo" <=> DownAt = 41)
        /\ pc \in 1 .. DownAt + 10 /\ pc' \in 1 .. Len(Script') + 1
    BY Continues DEF Wait
  <1>2. UNCHANGED <<stage_, icur_, used, pop, sem_bufempty_, inbox, held, inputs, config, omx, doing,
                    filled, pictures, raced, freedHeld>>
    BY DEF Wait, component, history
  <1>3. \/ pc = 4 /\ Arg = "idle"
        \/ pc = 6 /\ Arg = "exec"
        \/ pc = 10 /\ Arg = "settings"
        \/ pc \in {13, 23, 25} /\ Arg = "returned"
        \/ pc = 15 /\ Arg = "disable"
        \/ pc = 18 /\ Arg = "enable"
        \/ pc = DownAt + 4 /\ Arg = "flush"
        \/ pc = DownAt + 6 /\ Arg = "idle"
        \/ pc = DownAt + 10 /\ Arg = "loaded"
    BY Places, StepAt DEF Wait
  <1> DEFINE q == sem_command_
             r == Tail(q)
             p == Head(q)
  <1>4. q # <<>> /\ sem_command_' = r /\ crossed' = (crossed \/ p # Arg)
    BY DEF Wait
  <1>5. /\ r \in Seq({"idle", "exec", "disable", "enable", "flush", "loaded", "settings", "returned"})
        /\ \A c : q = <<c>> => p = c /\ r = <<>>
        /\ \A c, d : q = <<c, d>> => p = c /\ r = <<d>>
        /\ (\A i \in DOMAIN q : q[i] = "returned") =>
               p = "returned" /\ \A i \in DOMAIN r : r[i] = "returned"
    <2> DEFINE S == {"idle", "exec", "disable", "enable", "flush", "loaded", "settings", "returned"}
    <2>1. q \in Seq(S)
      BY Places DEF SetupTypeOK
    <2> HIDE DEF S, q
    <2>2. /\ r \in Seq(S)
          /\ \A c : q = <<c>> => p = c /\ r = <<>>
          /\ \A c, d : q = <<c, d>> => p = c /\ r = <<d>>
          /\ (\A i \in DOMAIN q : q[i] = "returned") =>
                 p = "returned" /\ \A i \in DOMAIN r : r[i] = "returned"
      BY <1>4, <2>1, TakePost
    <2> HIDE DEF r, p
    <2> QED
      BY <2>2 DEF S
  <1> HIDE DEF r, p
  <1>6. PlacesRight
    BY <1>1 DEF SetupInv
  <1>7. (pc = 6 => omx = "exec") /\ (pc = 10 => config = 3) /\ (pc = 13 => used = {})
    BY <1>4, <1>6 DEF PlacesRight, BeginPlace, DisablePlace
  <1>8. SetupTypeOK /\ InTurn /\ FreesOwn
    BY Places
  <1>9. InputsRight /\ SettingsRight /\ OutputsRight /\ StagesRight
    BY <1>1 DEF SetupInv
  <1>10. PlacesRight
    BY <1>1 DEF SetupInv
  <1>11. SetupTypeOK'
    BY <1>1, <1>2, <1>3, <1>4, <1>5, <1>7, <1>8 DEF SetupTypeOK
  <1>12. InTurn' /\ FreesOwn'
    BY <1>1, <1>2, <1>3, <1>4, <1>5, <1>8, <1>9, <1>10 DEF InTurn, FreesOwn, SetupTypeOK, StagesRight,
      PlacesRight, BeginPlace, DisablePlace, EnablePlace,
      WarmPlace, DownPlace, Still, UnderWay, Open, Sent, Doing, Quiet, Enabling, None
  <1>13. InputsRight'
    BY <1>1, <1>2, <1>3, <1>4, <1>5, <1>7, <1>9, SetupNumbers DEF InputsRight, InputsOut
  <1>14. SettingsRight'
    BY <1>1, <1>2, <1>3, <1>4, <1>5, <1>7, <1>9, SetupNumbers DEF SettingsRight
  <1>15. OutputsRight'
    BY <1>1, <1>2, <1>3, <1>4, <1>5, <1>7, <1>9 DEF OutputsRight, StagesRight
  <1>16. StagesRight'
    BY <1>1, <1>2, <1>3, <1>4, <1>5, <1>7, <1>9 DEF StagesRight
  <1>17. BeginPlace'
    BY <1>1, <1>2, <1>3, <1>4, <1>5, <1>7, <1>9, <1>10
       DEF PlacesRight, BeginPlace, DisablePlace, EnablePlace,
      WarmPlace, DownPlace, Still, UnderWay, Open, Sent, Doing, Quiet, Enabling, None
  <1>18. DisablePlace'
    BY <1>1, <1>2, <1>3, <1>4, <1>5, <1>7, <1>9, <1>10
       DEF PlacesRight, BeginPlace, DisablePlace, EnablePlace,
      WarmPlace, DownPlace, Still, UnderWay, Open, Sent, Doing, Quiet, Enabling, None, StagesRight
  <1>19. EnablePlace'
    BY <1>1, <1>2, <1>3, <1>4, <1>5, <1>7, <1>9, <1>10
       DEF PlacesRight, BeginPlace, DisablePlace, EnablePlace,
      WarmPlace, DownPlace, Still, UnderWay, Open, Sent, Doing, Quiet, Enabling, None, SettingsRight
  <1>20. WarmPlace'
    BY <1>1, <1>2, <1>3, <1>4, <1>5, <1>7, <1>9, <1>10
       DEF PlacesRight, BeginPlace, DisablePlace, EnablePlace,
      WarmPlace, DownPlace, Still, UnderWay, Open, Sent, Doing, Quiet, Enabling, None, StagesRight
  <1>21. DownPlace'
    BY <1>1, <1>2, <1>3, <1>4, <1>5, <1>7, <1>9, <1>10
       DEF PlacesRight, BeginPlace, DisablePlace, EnablePlace,
      WarmPlace, DownPlace, Still, UnderWay, Open, Sent, Doing, Quiet, Enabling, None, StagesRight
  <1> QED
    BY <1>11, <1>12, <1>13, <1>14, <1>15, <1>16, <1>17, <1>18, <1>19, <1>20, <1>21
       DEF SetupInv, SetupSound, PlacesRight

\* setup() looks whether it has to wait for the output buffers.
LEMMA CheckInv ==
    ASSUME SetupInv, Check
    PROVE  SetupInv'
  <1>1. /\ exited = FALSE /\ exited' = exited /\ program' = program /\ keeps' = keeps
        /\ Script' = Script /\ DownAt' = DownAt
        /\ DownAt \in {32, 41} /\ (program = "demo" <=> DownAt = 41)
        /\ pc = 12 /\ Len(Script) = DownAt + 10
        /\ pc' = IF used # {} THEN 13 ELSE 14
    BY Places, StepAt, SameScript DEF Check, At, program_, SetupTypeOK
  <1>2. pc' \in 1 .. Len(Script') + 1
    BY <1>1
  <1>3. UNCHANGED <<stage_, icur_, used, pop, sem_command_, sem_bufempty_, inbox, held, inputs, config, omx,
                    doing, filled, pictures, crossed, freedHeld>>
    BY DEF Check, component
  <1>4. raced = FALSE
    BY <1>1, Places DEF SetupInv, StagesRight, SetupTypeOK
  <1>5. raced' = (used = {} /\ sem_command_ # <<>>)
    BY <1>4 DEF Check
  <1>6. \/ used # {} /\ pc' = 13 /\ raced' = FALSE
        \/ used = {} /\ pc' = 14 /\ sem_command_ = <<>> /\ raced' = FALSE
        \/ used = {} /\ pc' = 14 /\ sem_command_ # <<>> /\ raced' = TRUE
    BY <1>1, <1>5
  <1>7. SetupTypeOK /\ InTurn /\ FreesOwn
    BY Places
  <1>8. InputsRight /\ SettingsRight /\ OutputsRight /\ StagesRight
    BY <1>1 DEF SetupInv
  <1>9. PlacesRight
    BY <1>1 DEF SetupInv
  <1>10. SetupTypeOK'
    BY <1>1, <1>2, <1>3, <1>6, <1>7 DEF SetupTypeOK
  <1>11. InTurn' /\ FreesOwn'
    BY <1>1, <1>3, <1>4, <1>6, <1>7 DEF InTurn, FreesOwn
  <1>12. InputsRight'
    BY <1>1, <1>3, <1>4, <1>6, <1>8, SetupNumbers DEF InputsRight, InputsOut
  <1>13. SettingsRight'
    BY <1>1, <1>3, <1>4, <1>6, <1>8, SetupNumbers DEF SettingsRight
  <1>14. OutputsRight'
    BY <1>1, <1>3, <1>4, <1>6, <1>8 DEF OutputsRight, StagesRight
  <1>15. StagesRight'
    BY <1>1, <1>3, <1>4, <1>6, <1>8 DEF StagesRight
  <1>16. BeginPlace'
    BY <1>1, <1>3, <1>4, <1>6, <1>8, <1>9 DEF PlacesRight, BeginPlace, DisablePlace, EnablePlace,
      WarmPlace, DownPlace, Still, UnderWay, Open, Sent, Doing, Quiet, Enabling, None
  <1>17. DisablePlace'
    BY <1>1, <1>3, <1>4, <1>6, <1>8, <1>9 DEF PlacesRight, BeginPlace, DisablePlace, EnablePlace,
      WarmPlace, DownPlace, Still, UnderWay, Open, Sent, Doing, Quiet, Enabling, None, StagesRight
  <1>18. EnablePlace'
    BY <1>1, <1>3, <1>4, <1>6, <1>8, <1>9 DEF PlacesRight, BeginPlace, DisablePlace, EnablePlace,
      WarmPlace, DownPlace, Still, UnderWay, Open, Sent, Doing, Quiet, Enabling, None, SettingsRight
  <1>19. WarmPlace'
    BY <1>1, <1>3, <1>4, <1>6, <1>8, <1>9 DEF PlacesRight, BeginPlace, DisablePlace, EnablePlace,
      WarmPlace, DownPlace, Still, UnderWay, Open, Sent, Doing, Quiet, Enabling, None, StagesRight
  <1>20. DownPlace'
    BY <1>1, <1>3, <1>4, <1>6, <1>8, <1>9 DEF PlacesRight, BeginPlace, DisablePlace, EnablePlace,
      WarmPlace, DownPlace, Still, UnderWay, Open, Sent, Doing, Quiet, Enabling, None, StagesRight
  <1> QED
    BY <1>10, <1>11, <1>12, <1>13, <1>14, <1>15, <1>16, <1>17, <1>18, <1>19, <1>20
       DEF SetupInv, SetupSound, PlacesRight

\* A refused call ends the process.
LEMMA RefusedInv ==
    ASSUME SetupInv, raced, exited' = TRUE,
           UNCHANGED <<program_, pc, stage_, icur_, used, pop, sem_command_, sem_bufempty_, inbox,
                       held, inputs,
                       component, history>>
    PROVE  SetupInv'
  <1>1. /\ SetupTypeOK /\ FreesOwn
    BY Places
  <1>2. program' = program /\ keeps' = keeps /\ pc' = pc /\ Script' = Script
    BY SameScript DEF program_
  <1>3. UNCHANGED <<stage_, icur_, used, pop, sem_command_, sem_bufempty_, inbox, held, inputs, config, omx,
                    doing, filled, pictures, crossed, raced, freedHeld>>
    BY DEF component, history
  <1>4. SetupTypeOK'
    BY <1>1, <1>2, <1>3 DEF SetupTypeOK
  <1>5. InTurn' /\ FreesOwn'
    BY <1>1, <1>3 DEF InTurn, FreesOwn
  <1> QED
    BY <1>4, <1>5 DEF SetupInv, SetupSound

\* The component takes the buffers of a port.
LEMMA AllocInv ==
    ASSUME SetupInv, omxbufs_reinit, doing # "disable"
    PROVE  SetupInv'
  <1>1. /\ exited = FALSE /\ exited' = exited /\ pc' = pc + 1 /\ program' = program /\ keeps' = keeps
        /\ Script' = Script /\ DownAt' = DownAt
        /\ DownAt \in {32, 41} /\ (program = "demo" <=> DownAt = 41)
        /\ pc \in 1 .. DownAt + 10 /\ pc' \in 1 .. Len(Script') + 1
    BY Continues DEF omxbufs_reinit, Continue
  <1>2. pop' = pop \union {Arg} /\ used' = IF Arg = "out" THEN {} ELSE used
    BY DEF omxbufs_reinit
  <1>3. UNCHANGED <<stage_, icur_, sem_command_, sem_bufempty_, inbox, held, inputs, config, omx,
                    doing, filled, pictures, crossed, raced, freedHeld>>
    BY DEF omxbufs_reinit, component, history
  <1>4. \/ pc = 2 /\ Arg = "in"
        \/ pc \in {3, 17} /\ Arg = "out"
    BY Places, StepAt DEF omxbufs_reinit
  <1>5. used' = {}
    <2>1. StagesRight
      BY <1>1 DEF SetupInv
    <2>2. used = {}
      BY <1>1, <1>4, <2>1 DEF StagesRight
    <2> QED
      BY <1>2, <2>2
  <1>6. SetupTypeOK /\ InTurn /\ FreesOwn
    BY Places
  <1>7. InputsRight /\ SettingsRight /\ OutputsRight /\ StagesRight
    BY <1>1 DEF SetupInv
  <1>8. PlacesRight
    BY <1>1 DEF SetupInv
  <1>9. SetupTypeOK'
    <2>1. pop' \subseteq {"in", "out"} /\ used' \subseteq Buffers
      BY <1>2, <1>4, <1>5, <1>6 DEF SetupTypeOK
    <2> QED
      BY <1>1, <1>3, <1>6, <2>1 DEF SetupTypeOK
  <1>10. InTurn' /\ FreesOwn'
    BY <1>1, <1>2, <1>3, <1>4, <1>5, <1>6 DEF InTurn, FreesOwn
  <1>11. InputsRight'
    BY <1>1, <1>2, <1>3, <1>4, <1>5, <1>7, SetupNumbers DEF InputsRight, InputsOut
  <1>12. SettingsRight'
    BY <1>1, <1>2, <1>3, <1>4, <1>5, <1>7, SetupNumbers DEF SettingsRight
  <1>13. OutputsRight'
    <2>1. used = {}
      BY <1>1, <1>4, <1>7 DEF StagesRight
    <2>2. used' = used /\ held' = held /\ inbox' = inbox /\ filled' = filled /\ stage_' = stage_
      BY <1>3, <1>5, <2>1
    <2> QED
      BY <1>7, <2>2 DEF OutputsRight
  <1>14. StagesRight'
    BY <1>1, <1>2, <1>3, <1>4, <1>5, <1>7 DEF StagesRight
  <1>15. BeginPlace'
    BY <1>1, <1>2, <1>3, <1>4, <1>5, <1>7, <1>8 DEF PlacesRight, BeginPlace, DisablePlace, EnablePlace,
      WarmPlace, DownPlace, Still, UnderWay, Open, Sent, Doing, Quiet, Enabling, None
  <1>16. DisablePlace'
    BY <1>1, <1>2, <1>3, <1>4, <1>5, <1>7, <1>8 DEF PlacesRight, BeginPlace, DisablePlace, EnablePlace,
      WarmPlace, DownPlace, Still, UnderWay, Open, Sent, Doing, Quiet, Enabling, None, StagesRight
  <1>17. EnablePlace'
    BY <1>1, <1>2, <1>3, <1>4, <1>5, <1>7, <1>8 DEF PlacesRight, BeginPlace, DisablePlace, EnablePlace,
      WarmPlace, DownPlace, Still, UnderWay, Open, Sent, Doing, Quiet, Enabling, None, SettingsRight
  <1>18. WarmPlace'
    BY <1>1, <1>2, <1>3, <1>4, <1>5, <1>7, <1>8 DEF PlacesRight, BeginPlace, DisablePlace, EnablePlace,
      WarmPlace, DownPlace, Still, UnderWay, Open, Sent, Doing, Quiet, Enabling, None, StagesRight
  <1>19. DownPlace'
    BY <1>1, <1>2, <1>3, <1>4, <1>5, <1>7, <1>8 DEF PlacesRight, BeginPlace, DisablePlace, EnablePlace,
      WarmPlace, DownPlace, Still, UnderWay, Open, Sent, Doing, Quiet, Enabling, None, StagesRight
  <1> QED
    BY <1>9, <1>10, <1>11, <1>12, <1>13, <1>14, <1>15, <1>16, <1>17, <1>18, <1>19
       DEF SetupInv, SetupSound, PlacesRight

\* omxbufs_reinit()
LEMMA ReinitInv ==
    ASSUME SetupInv, omxbufs_reinit
    PROVE  SetupInv'
  <1>1. CASE doing # "disable"
    BY <1>1, AllocInv
  <1>2. CASE doing = "disable"
    <2>1. ~exited
      BY DEF omxbufs_reinit, At
    <2>2. pc \in {2, 3, 17}
      BY Places, StepAt DEF omxbufs_reinit
    <2>3. PlacesRight
      BY <2>1 DEF SetupInv
    <2>4. raced
      BY <1>2, <2>2, <2>3
         DEF PlacesRight, BeginPlace, EnablePlace, UnderWay, Open, Sent, Doing, Quiet, Enabling, None
    <2>5. exited' = TRUE
      BY <1>2 DEF omxbufs_reinit
    <2>6. UNCHANGED <<program_, pc, stage_, icur_, used, pop, sem_command_, sem_bufempty_, inbox, held,
                      inputs,
                      component, history>>
      BY <1>2 DEF omxbufs_reinit
    <2> QED
      BY <2>4, <2>5, <2>6, RefusedInv
  <1> QED
    BY <1>1, <1>2

\* Where a port's buffers are freed, the component has none of them, and will get none.
LEMMA NothingOwned ==
    ASSUME SetupInv, omxbufs_deinit
    PROVE  freedHeld' = freedHeld
  <1>1. ~exited
    BY DEF omxbufs_deinit, At
  <1>2. InputsRight /\ OutputsRight /\ StagesRight /\ PlacesRight
    BY <1>1 DEF SetupInv
  <1>3. /\ DownAt \in {32, 41} /\ pc \in Nat
        /\ \/ pc \in {14, DownAt + 9} /\ Arg = "out"
           \/ pc = DownAt + 8 /\ Arg = "in"
    BY Places, StepAt DEF omxbufs_deinit
  <1>4. CASE pc = 14 /\ Arg = "out"
    <2>1. used = {} /\ stage_ = 0
      BY <1>2, <1>4 DEF StagesRight
    <2>2. held = {} /\ \A i \in DOMAIN inbox : inbox[i].op # "fill"
      BY <1>2, <2>1 DEF OutputsRight, FillsRight
    <2>3. Owned = {}
      BY <2>2 DEF Owned
    <2> QED
      BY <1>4, <2>3, Places DEF omxbufs_deinit, SetupTypeOK
  <1>5. CASE pc = DownAt + 9 /\ Arg = "out"
    <2>1. held = {} /\ NoFill(inbox)
      BY <1>2, <1>3, <1>5 DEF PlacesRight, DownPlace
    <2>2. Owned = {}
      BY <2>1 DEF Owned, NoFill
    <2> QED
      BY <1>5, <2>2, Places DEF omxbufs_deinit, SetupTypeOK
  <1>6. CASE pc = DownAt + 8 /\ Arg = "in"
    <2>1. InputsOut = 0
      BY <1>2, <1>3, <1>6 DEF InputsRight
    <2>2. ~(inputs > 0)
      BY <2>1, SetupNumbers DEF InputsOut
    <2> QED
      BY <1>6, <2>2, Places DEF omxbufs_deinit, SetupTypeOK
  <1> QED
    BY <1>3, <1>4, <1>5, <1>6

\* The buffers of a port are freed.
LEMMA DeinitInv ==
    ASSUME SetupInv, omxbufs_deinit
    PROVE  SetupInv'
  <1>1. /\ exited = FALSE /\ exited' = exited /\ pc' = pc + 1 /\ program' = program /\ keeps' = keeps
        /\ Script' = Script /\ DownAt' = DownAt
        /\ DownAt \in {32, 41} /\ (program = "demo" <=> DownAt = 41)
        /\ pc \in 1 .. DownAt + 10 /\ pc' \in 1 .. Len(Script') + 1
    BY Continues DEF omxbufs_deinit
  <1>2. pop' = pop \ {Arg} /\ used' = IF Arg = "out" THEN {} ELSE used
    BY DEF omxbufs_deinit
  <1>3. UNCHANGED <<stage_, icur_, sem_command_, sem_bufempty_, inbox, held, inputs, config, omx,
                    doing, filled, pictures, crossed, raced>>
    BY DEF omxbufs_deinit, component, history
  <1>4. \/ pc \in {14, DownAt + 9} /\ Arg = "out"
        \/ pc = DownAt + 8 /\ Arg = "in"
    BY Places, StepAt DEF omxbufs_deinit
  <1>5. freedHeld' = freedHeld
    BY NothingOwned
  <1>6. SetupTypeOK /\ InTurn /\ FreesOwn
    BY Places
  <1>7. InputsRight /\ SettingsRight /\ OutputsRight /\ StagesRight
    BY <1>1 DEF SetupInv
  <1>8. PlacesRight
    BY <1>1 DEF SetupInv
  <1>9. SetupTypeOK'
    <2>1. pop' \subseteq {"in", "out"} /\ used' \subseteq Buffers
      BY <1>2, <1>6 DEF SetupTypeOK
    <2> QED
      BY <1>1, <1>3, <1>5, <1>6, <2>1 DEF SetupTypeOK
  <1>10. InTurn' /\ FreesOwn'
    BY <1>1, <1>2, <1>3, <1>4, <1>5, <1>6 DEF InTurn, FreesOwn
  <1>11. InputsRight'
    BY <1>1, <1>2, <1>3, <1>4, <1>5, <1>7, SetupNumbers DEF InputsRight, InputsOut
  <1>12. SettingsRight'
    BY <1>1, <1>2, <1>3, <1>4, <1>5, <1>7, SetupNumbers DEF SettingsRight
  <1>13. OutputsRight'
    BY <1>1, <1>2, <1>3, <1>4, <1>5, <1>7 DEF OutputsRight, StagesRight
  <1>14. StagesRight'
    BY <1>1, <1>2, <1>3, <1>4, <1>5, <1>7 DEF StagesRight
  <1>15. BeginPlace'
    BY <1>1, <1>2, <1>3, <1>4, <1>5, <1>7, <1>8 DEF PlacesRight, BeginPlace, DisablePlace, EnablePlace,
      WarmPlace, DownPlace, Still, UnderWay, Open, Sent, Doing, Quiet, Enabling, None
  <1>16. DisablePlace'
    BY <1>1, <1>2, <1>3, <1>4, <1>5, <1>7, <1>8 DEF PlacesRight, BeginPlace, DisablePlace, EnablePlace,
      WarmPlace, DownPlace, Still, UnderWay, Open, Sent, Doing, Quiet, Enabling, None, StagesRight
  <1>17. EnablePlace'
    BY <1>1, <1>2, <1>3, <1>4, <1>5, <1>7, <1>8 DEF PlacesRight, BeginPlace, DisablePlace, EnablePlace,
      WarmPlace, DownPlace, Still, UnderWay, Open, Sent, Doing, Quiet, Enabling, None, SettingsRight
  <1>18. WarmPlace'
    BY <1>1, <1>2, <1>3, <1>4, <1>5, <1>7, <1>8 DEF PlacesRight, BeginPlace, DisablePlace, EnablePlace,
      WarmPlace, DownPlace, Still, UnderWay, Open, Sent, Doing, Quiet, Enabling, None, StagesRight
  <1>19. DownPlace'
    BY <1>1, <1>2, <1>3, <1>4, <1>5, <1>7, <1>8 DEF PlacesRight, BeginPlace, DisablePlace, EnablePlace,
      WarmPlace, DownPlace, Still, UnderWay, Open, Sent, Doing, Quiet, Enabling, None, StagesRight
  <1> QED
    BY <1>9, <1>10, <1>11, <1>12, <1>13, <1>14, <1>15, <1>16, <1>17, <1>18, <1>19
       DEF SetupInv, SetupSound, PlacesRight

\* Where output buffers are given to the component, and which.
LEMMA FillsAt ==
    ASSUME SetupInv, FillOneBuffer \/ FillAll
    PROVE  \E bs \in SUBSET Buffers :
               /\ FillThese(bs)
               /\ (pc \in {7, 22, 24} /\ bs \intersect used = {}) \/ pc = 31
  <1>1. CASE FillOneBuffer
    <2>1. pc \in {7, 22, 24}
      BY <1>1, Places, StepAt DEF FillOneBuffer
    <2>2. FindFreeBuffer(Arg) \in SUBSET Buffers /\ FindFreeBuffer(Arg) \intersect used = {}
      BY DEF FindFreeBuffer
    <2> QED
      BY <1>1, <2>1, <2>2 DEF FillOneBuffer
  <1>2. CASE FillAll
    BY <1>2, Places, StepAt DEF FillAll
  <1> QED
    BY <1>1, <1>2

\* The component takes them, but for the race.
LEMMA TakesThem ==
    ASSUME SetupInv, ~exited, pc \in {7, 22, 24, 31}, ~raced
    PROVE  Takes
  <1>1. StagesRight /\ PlacesRight /\ DownAt \in {32, 41}
    BY Places DEF SetupInv
  <1>2. omx = "exec"
    BY <1>1 DEF StagesRight
  <1>3. Quiet(doing, inbox)
    BY <1>1 DEF PlacesRight, BeginPlace, EnablePlace, WarmPlace, Still
  <1> QED
    BY <1>2, <1>3 DEF Takes, Quiet, None

\* The component takes output buffers.
LEMMA GivenInv ==
    ASSUME SetupInv, NEW o, At(o), NEW bs \in SUBSET Buffers, FillThese(bs), Takes \/ bs = {},
           (pc \in {7, 22, 24} /\ bs \intersect used = {}) \/ pc = 31,
           UNCHANGED <<stage_, icur_, pop, sem_command_, sem_bufempty_, held, inputs, component, history>>
    PROVE  SetupInv'
  <1>1. /\ exited = FALSE /\ exited' = exited /\ pc' = pc + 1 /\ program' = program /\ keeps' = keeps
        /\ Script' = Script /\ DownAt' = DownAt
        /\ DownAt \in {32, 41} /\ (program = "demo" <=> DownAt = 41)
        /\ pc \in 1 .. DownAt + 10 /\ pc' \in 1 .. Len(Script') + 1
    BY Continues DEF FillThese
  <1>2. UNCHANGED <<stage_, icur_, pop, sem_command_, sem_bufempty_, held, inputs, config, omx, doing,
                    filled,
                    pictures, crossed, raced, freedHeld>>
    BY DEF component, history
  <1>3. used' = used \union bs
    BY DEF FillThese
  <1>4. inbox \in Seq(OmxMessages) /\ Cardinality(bs) \in Nat
    <2>1. N \in Nat
      BY AvcSetupAssumption
    <2>2. IsFiniteSet(1 .. N)
      BY <2>1, FS_Interval
    <2>3. IsFiniteSet(bs)
      BY <2>2, FS_Subset DEF Buffers
    <2> QED
      BY <2>3, FS_CardinalityType, Places DEF SetupTypeOK
  <1>5. PICK order \in [1 .. Cardinality(bs) -> bs] :
            /\ \A i, j \in DOMAIN order : i < j => order[i] < order[j]
            /\ inbox' = inbox \o [i \in DOMAIN order |-> Step("fill", order[i])]
    BY DEF FillThese
  <1>6. /\ inbox' \in Seq(OmxMessages)
        /\ NoCommand(inbox) => NoCommand(inbox')
        /\ \A c : Sole(inbox, c) => Sole(inbox', c)
        /\ \A u, h : FillsRight(inbox, u, h) /\ h \subseteq u /\ bs \intersect u = {} =>
               FillsRight(inbox', u \union bs, h)
        /\ Fed(inbox') = Fed(inbox)
        /\ \A A : FedOnly(inbox, A) => FedOnly(inbox', A)
    <2> DEFINE n == Cardinality(bs)
    <2>1. n \in Nat /\ order \in [1 .. n -> bs]
      BY <1>4
    <2> HIDE DEF n
    <2> DEFINE z == inbox \o [i \in DOMAIN order |-> Step("fill", order[i])]
    <2>2. /\ z \in Seq(OmxMessages)
          /\ NoCommand(inbox) => NoCommand(z)
          /\ \A c : Sole(inbox, c) => Sole(z, c)
          /\ \A u, h : FillsRight(inbox, u, h) /\ h \subseteq u /\ bs \intersect u = {} =>
                 FillsRight(z, u \union bs, h)
          /\ Fed(z) = Fed(inbox)
          /\ \A A : FedOnly(inbox, A) => FedOnly(z, A)
      <3>1. \A i, j \in DOMAIN order : i < j => order[i] < order[j]
        BY <1>5
      <3> HIDE DEF z
      <3> QED
        BY <1>4, <2>1, <3>1, AppendFills DEF z
    <2>3. inbox' = z
      BY <1>5
    <2> HIDE DEF z
    <2> QED
      BY <2>2, <2>3
  <1>7. (pc \in {7, 22, 24} /\ bs \intersect used = {}) \/ pc = 31
    OBVIOUS
  <1>8. SetupTypeOK /\ InTurn /\ FreesOwn
    BY Places
  <1>9. InputsRight /\ SettingsRight /\ OutputsRight /\ StagesRight
    BY <1>1 DEF SetupInv
  <1>10. PlacesRight
    BY <1>1 DEF SetupInv
  <1>11. SetupTypeOK'
    BY <1>1, <1>2, <1>3, <1>6, <1>7, <1>8 DEF SetupTypeOK
  <1>12. InTurn' /\ FreesOwn'
    BY <1>1, <1>2, <1>3, <1>6, <1>7, <1>8 DEF InTurn, FreesOwn
  <1>13. InputsRight'
    BY <1>1, <1>2, <1>3, <1>6, <1>7, <1>9, SetupNumbers DEF InputsRight, InputsOut
  <1>14. SettingsRight'
    BY <1>1, <1>2, <1>3, <1>6, <1>7, <1>9, SetupNumbers DEF SettingsRight
  <1>15. OutputsRight'
    BY <1>1, <1>2, <1>3, <1>6, <1>7, <1>9 DEF OutputsRight, StagesRight
  <1>16. StagesRight'
    BY <1>1, <1>2, <1>3, <1>6, <1>7, <1>9 DEF StagesRight
  <1>17. BeginPlace'
    BY <1>1, <1>2, <1>3, <1>6, <1>7, <1>9, <1>10 DEF PlacesRight, BeginPlace, DisablePlace, EnablePlace,
      WarmPlace, DownPlace, Still, UnderWay, Open, Sent, Doing, Quiet, Enabling, None
  <1>18. DisablePlace'
    BY <1>1, <1>2, <1>3, <1>6, <1>7, <1>9, <1>10 DEF PlacesRight, BeginPlace, DisablePlace, EnablePlace,
      WarmPlace, DownPlace, Still, UnderWay, Open, Sent, Doing, Quiet, Enabling, None, StagesRight
  <1>19. EnablePlace'
    BY <1>1, <1>2, <1>3, <1>6, <1>7, <1>9, <1>10 DEF PlacesRight, BeginPlace, DisablePlace, EnablePlace,
      WarmPlace, DownPlace, Still, UnderWay, Open, Sent, Doing, Quiet, Enabling, None, SettingsRight
  <1>20. WarmPlace'
    BY <1>1, <1>2, <1>3, <1>6, <1>7, <1>9, <1>10 DEF PlacesRight, BeginPlace, DisablePlace, EnablePlace,
      WarmPlace, DownPlace, Still, UnderWay, Open, Sent, Doing, Quiet, Enabling, None, StagesRight
  <1>21. DownPlace'
    BY <1>1, <1>2, <1>3, <1>6, <1>7, <1>9, <1>10 DEF PlacesRight, BeginPlace, DisablePlace, EnablePlace,
      WarmPlace, DownPlace, Still, UnderWay, Open, Sent, Doing, Quiet, Enabling, None, StagesRight
  <1> QED
    BY <1>11, <1>12, <1>13, <1>14, <1>15, <1>16, <1>17, <1>18, <1>19, <1>20, <1>21
       DEF SetupInv, SetupSound, PlacesRight

\* FillOneBuffer() and the loop over all of them
LEMMA FillInv ==
    ASSUME SetupInv, FillOneBuffer \/ FillAll
    PROVE  SetupInv'
  <1>1. PICK bs \in SUBSET Buffers :
            /\ FillThese(bs)
            /\ (pc \in {7, 22, 24} /\ bs \intersect used = {}) \/ pc = 31
    BY FillsAt
  <1>2. UNCHANGED <<stage_, icur_, pop, sem_command_, sem_bufempty_, held, inputs, component, history>>
    BY DEF FillOneBuffer, FillAll
  <1>3. PICK o \in {"fill", "fillall"} : At(o)
    BY DEF FillOneBuffer, FillAll
  <1>4. CASE Takes \/ bs = {}
    BY <1>1, <1>2, <1>3, <1>4, GivenInv
  <1>5. CASE ~(Takes \/ bs = {})
    <2>1. ~exited /\ pc \in {7, 22, 24, 31}
      BY <1>1, <1>3 DEF At
    <2>2. raced
      BY <1>5, <2>1, TakesThem
    <2>3. exited' = TRUE /\ UNCHANGED <<program_, pc, used, inbox>>
      BY <1>1, <1>5 DEF FillThese
    <2> QED
      BY <1>2, <2>2, <2>3, RefusedInv
  <1> QED
    BY <1>4, <1>5

\* SPS, PPS or a frame is given to the component.
LEMMA EmptyInv ==
    ASSUME SetupInv, EmptyThis
    PROVE  SetupInv'
  <1>1. /\ exited = FALSE /\ exited' = exited /\ pc' = pc + 1 /\ program' = program /\ keeps' = keeps
        /\ Script' = Script /\ DownAt' = DownAt
        /\ DownAt \in {32, 41} /\ (program = "demo" <=> DownAt = 41)
        /\ pc \in 1 .. DownAt + 10 /\ pc' \in 1 .. Len(Script') + 1
    BY Continues DEF EmptyThis
  <1>2. UNCHANGED <<stage_, icur_, used, pop, sem_command_, sem_bufempty_, held, inputs, config, omx,
                    doing, filled, pictures, crossed, raced, freedHeld>>
    BY DEF EmptyThis, component, history
  <1>3. \/ pc = 8 /\ Arg = 1
        \/ pc = 9 /\ Arg = 2
        \/ program = "demo" /\ pc \in {32, 35, 38} /\ Arg = 3
    BY Places, StepAt DEF EmptyThis
  <1> DEFINE m == Step("empty", Arg)
  <1>4. m \in OmxMessages /\ m.op = "empty" /\ m.arg = Arg
    BY <1>3 DEF OmxMessages, Step
  <1>5. inbox \in Seq(OmxMessages) /\ inbox' = Append(inbox, m)
    BY Places DEF EmptyThis, SetupTypeOK
  <1> HIDE DEF m
  <1>6. /\ inbox' \in Seq(OmxMessages)
        /\ NoCommand(inbox) => NoCommand(inbox')
        /\ \A u, h : FillsRight(inbox, u, h) => FillsRight(inbox', u, h)
        /\ Fed(inbox') = Fed(inbox) + 1
        /\ \A A : FedOnly(inbox, A) /\ Arg \in A => FedOnly(inbox', A)
    BY <1>4, <1>5, AppendMessage
  <1>7. SetupTypeOK /\ InTurn /\ FreesOwn
    BY Places
  <1>8. InputsRight /\ SettingsRight /\ OutputsRight /\ StagesRight
    BY <1>1 DEF SetupInv
  <1>9. PlacesRight
    BY <1>1 DEF SetupInv
  <1>10. SetupTypeOK'
    BY <1>1, <1>2, <1>3, <1>6, <1>7 DEF SetupTypeOK
  <1>11. InTurn' /\ FreesOwn'
    BY <1>1, <1>2, <1>3, <1>6, <1>7 DEF InTurn, FreesOwn
  <1>12. InputsRight'
    BY <1>1, <1>2, <1>3, <1>6, <1>8, SetupNumbers DEF InputsRight, InputsOut
  <1>13. SettingsRight'
    BY <1>1, <1>2, <1>3, <1>6, <1>8, SetupNumbers DEF SettingsRight
  <1>14. OutputsRight'
    BY <1>1, <1>2, <1>3, <1>6, <1>8 DEF OutputsRight, StagesRight
  <1>15. StagesRight'
    BY <1>1, <1>2, <1>3, <1>6, <1>8 DEF StagesRight
  <1>16. BeginPlace'
    <2>1. pc = 9 => config # 3
      BY <1>1, <1>8, SetupNumbers DEF SettingsRight
    <2> QED
      BY <1>1, <1>2, <1>3, <1>6, <1>9, <2>1 DEF PlacesRight, BeginPlace, DisablePlace, EnablePlace,
      WarmPlace, DownPlace, Still, UnderWay, Open, Sent, Doing, Quiet, Enabling, None
  <1>17. DisablePlace'
    BY <1>1, <1>2, <1>3, <1>6, <1>8, <1>9 DEF PlacesRight, BeginPlace, DisablePlace, EnablePlace,
      WarmPlace, DownPlace, Still, UnderWay, Open, Sent, Doing, Quiet, Enabling, None, StagesRight
  <1>18. EnablePlace'
    BY <1>1, <1>2, <1>3, <1>6, <1>8, <1>9 DEF PlacesRight, BeginPlace, DisablePlace, EnablePlace,
      WarmPlace, DownPlace, Still, UnderWay, Open, Sent, Doing, Quiet, Enabling, None, SettingsRight
  <1>19. WarmPlace'
    BY <1>1, <1>2, <1>3, <1>6, <1>8, <1>9 DEF PlacesRight, BeginPlace, DisablePlace, EnablePlace,
      WarmPlace, DownPlace, Still, UnderWay, Open, Sent, Doing, Quiet, Enabling, None, StagesRight
  <1>20. DownPlace'
    BY <1>1, <1>2, <1>3, <1>6, <1>8, <1>9 DEF PlacesRight, BeginPlace, DisablePlace, EnablePlace,
      WarmPlace, DownPlace, Still, UnderWay, Open, Sent, Doing, Quiet, Enabling, None, StagesRight
  <1> QED
    BY <1>10, <1>11, <1>12, <1>13, <1>14, <1>15, <1>16, <1>17, <1>18, <1>19, <1>20
       DEF SetupInv, SetupSound, PlacesRight

\* The stage is set.
LEMMA SetStageInv ==
    ASSUME SetupInv, SetStage
    PROVE  SetupInv'
  <1>1. /\ exited = FALSE /\ exited' = exited /\ pc' = pc + 1 /\ program' = program /\ keeps' = keeps
        /\ Script' = Script /\ DownAt' = DownAt
        /\ DownAt \in {32, 41} /\ (program = "demo" <=> DownAt = 41)
        /\ pc \in 1 .. DownAt + 10 /\ pc' \in 1 .. Len(Script') + 1
    BY Continues DEF SetStage
  <1>2. UNCHANGED <<icur_, used, pop, sem_command_, sem_bufempty_, inbox, held, inputs, config, omx,
                    doing, filled, pictures, crossed, raced, freedHeld>>
    BY DEF SetStage, component, history
  <1>3. \/ pc = 21 /\ Arg = 1
        \/ pc = 30 /\ Arg = 2
        \/ pc = DownAt /\ Arg = 3
    BY Places, StepAt DEF SetStage
  <1>4. \/ pc = 21 /\ stage_' = 1
        \/ pc = 30 /\ stage_' = 2
        \/ pc = DownAt /\ stage_' = 3
    BY <1>3 DEF SetStage
  <1>5. SetupTypeOK /\ InTurn /\ FreesOwn
    BY Places
  <1>6. InputsRight /\ SettingsRight /\ OutputsRight /\ StagesRight
    BY <1>1 DEF SetupInv
  <1>7. PlacesRight
    BY <1>1 DEF SetupInv
  <1>8. SetupTypeOK'
    BY <1>1, <1>2, <1>4, <1>5 DEF SetupTypeOK
  <1>9. InTurn' /\ FreesOwn'
    BY <1>1, <1>2, <1>4, <1>5 DEF InTurn, FreesOwn
  <1>10. InputsRight'
    BY <1>1, <1>2, <1>4, <1>6, SetupNumbers DEF InputsRight, InputsOut
  <1>11. SettingsRight'
    BY <1>1, <1>2, <1>4, <1>6, SetupNumbers DEF SettingsRight
  <1>12. OutputsRight'
    BY <1>1, <1>2, <1>4, <1>6 DEF OutputsRight, StagesRight
  <1>13. StagesRight'
    BY <1>1, <1>2, <1>4, <1>6 DEF StagesRight
  <1>14. BeginPlace'
    BY <1>1, <1>2, <1>4, <1>6, <1>7 DEF PlacesRight, BeginPlace, DisablePlace, EnablePlace,
      WarmPlace, DownPlace, Still, UnderWay, Open, Sent, Doing, Quiet, Enabling, None
  <1>15. DisablePlace'
    BY <1>1, <1>2, <1>4, <1>6, <1>7 DEF PlacesRight, BeginPlace, DisablePlace, EnablePlace,
      WarmPlace, DownPlace, Still, UnderWay, Open, Sent, Doing, Quiet, Enabling, None, StagesRight
  <1>16. EnablePlace'
    BY <1>1, <1>2, <1>4, <1>6, <1>7 DEF PlacesRight, BeginPlace, DisablePlace, EnablePlace,
      WarmPlace, DownPlace, Still, UnderWay, Open, Sent, Doing, Quiet, Enabling, None, SettingsRight
  <1>17. WarmPlace'
    BY <1>1, <1>2, <1>4, <1>6, <1>7 DEF PlacesRight, BeginPlace, DisablePlace, EnablePlace,
      WarmPlace, DownPlace, Still, UnderWay, Open, Sent, Doing, Quiet, Enabling, None, StagesRight
  <1>18. DownPlace'
    BY <1>1, <1>2, <1>4, <1>6, <1>7 DEF PlacesRight, BeginPlace, DisablePlace, EnablePlace,
      WarmPlace, DownPlace, Still, UnderWay, Open, Sent, Doing, Quiet, Enabling, None, StagesRight
  <1> QED
    BY <1>8, <1>9, <1>10, <1>11, <1>12, <1>13, <1>14, <1>15, <1>16, <1>17, <1>18
       DEF SetupInv, SetupSound, PlacesRight

\* What was posted to a semaphore is taken.
LEMMA DrainInv ==
    ASSUME SetupInv, Drain
    PROVE  SetupInv'
  <1>1. /\ exited = FALSE /\ exited' = exited /\ pc' = pc + 1 /\ program' = program /\ keeps' = keeps
        /\ Script' = Script /\ DownAt' = DownAt
        /\ DownAt \in {32, 41} /\ (program = "demo" <=> DownAt = 41)
        /\ pc \in 1 .. DownAt + 10 /\ pc' \in 1 .. Len(Script') + 1
    BY Continues DEF Drain
  <1>2. UNCHANGED <<stage_, icur_, used, pop, inbox, held, inputs, config, omx, doing, filled,
                    pictures, crossed, raced, freedHeld>>
    BY DEF Drain, component, history
  <1>3. \/ pc \in {19, 29, DownAt + 1} /\ Arg = "bufempty"
        \/ pc \in {20, 28, DownAt + 2} /\ Arg = "command"
    BY Places, StepAt DEF Drain
  <1>4. \/ Arg = "command" /\ sem_command_' = <<>> /\ sem_bufempty_' = sem_bufempty_
        \/ Arg # "command" /\ sem_command_' = sem_command_ /\ sem_bufempty_' = 0
    BY DEF Drain
  <1>5. /\ sem_command_' \in Seq({"idle", "exec", "disable", "enable", "flush", "loaded", "settings", "returned"})
        /\ sem_bufempty_' \in 0 .. 3
    <2>1. /\ sem_command_ \in Seq({"idle", "exec", "disable", "enable", "flush", "loaded", "settings", "returned"})
          /\ sem_bufempty_ \in 0 .. 3
      BY Places DEF SetupTypeOK
    <2>2. <<>> \in Seq({"idle", "exec", "disable", "enable", "flush", "loaded", "settings", "returned"})
      OBVIOUS
    <2>3. sem_bufempty_' \in 0 .. 3
      BY <1>4, <2>1
    <2> QED
      BY <1>4, <2>1, <2>2, <2>3
  <1>6. SetupTypeOK /\ InTurn /\ FreesOwn
    BY Places
  <1>7. InputsRight /\ SettingsRight /\ OutputsRight /\ StagesRight
    BY <1>1 DEF SetupInv
  <1>8. PlacesRight
    BY <1>1 DEF SetupInv
  <1>9. SetupTypeOK'
    BY <1>1, <1>2, <1>5, <1>6 DEF SetupTypeOK
  <1>10. InTurn' /\ FreesOwn'
    BY <1>1, <1>2, <1>3, <1>4, <1>6 DEF InTurn, FreesOwn
  <1>11. InputsRight'
    BY <1>1, <1>2, <1>3, <1>4, <1>7, SetupNumbers DEF InputsRight, InputsOut
  <1>12. SettingsRight'
    BY <1>1, <1>2, <1>3, <1>4, <1>7, SetupNumbers DEF SettingsRight
  <1>13. OutputsRight'
    BY <1>1, <1>2, <1>3, <1>4, <1>7 DEF OutputsRight, StagesRight
  <1>14. StagesRight'
    BY <1>1, <1>2, <1>3, <1>4, <1>7 DEF StagesRight
  <1>15. BeginPlace'
    BY <1>1, <1>2, <1>3, <1>4, <1>7, <1>8 DEF PlacesRight, BeginPlace, DisablePlace, EnablePlace,
      WarmPlace, DownPlace, Still, UnderWay, Open, Sent, Doing, Quiet, Enabling, None
  <1>16. DisablePlace'
    BY <1>1, <1>2, <1>3, <1>4, <1>7, <1>8 DEF PlacesRight, BeginPlace, DisablePlace, EnablePlace,
      WarmPlace, DownPlace, Still, UnderWay, Open, Sent, Doing, Quiet, Enabling, None, StagesRight
  <1>17. EnablePlace'
    BY <1>1, <1>2, <1>3, <1>4, <1>7, <1>8 DEF PlacesRight, BeginPlace, DisablePlace, EnablePlace,
      WarmPlace, DownPlace, Still, UnderWay, Open, Sent, Doing, Quiet, Enabling, None, SettingsRight
  <1>18. WarmPlace'
    BY <1>1, <1>2, <1>3, <1>4, <1>7, <1>8 DEF PlacesRight, BeginPlace, DisablePlace, EnablePlace,
      WarmPlace, DownPlace, Still, UnderWay, Open, Sent, Doing, Quiet, Enabling, None, StagesRight
  <1>19. DownPlace'
    BY <1>1, <1>2, <1>3, <1>4, <1>7, <1>8 DEF PlacesRight, BeginPlace, DisablePlace, EnablePlace,
      WarmPlace, DownPlace, Still, UnderWay, Open, Sent, Doing, Quiet, Enabling, None, StagesRight
  <1> QED
    BY <1>9, <1>10, <1>11, <1>12, <1>13, <1>14, <1>15, <1>16, <1>17, <1>18, <1>19
       DEF SetupInv, SetupSound, PlacesRight

\* An input buffer was given back.
LEMMA WaitEmptyInv ==
    ASSUME SetupInv, WaitEmpty
    PROVE  SetupInv'
  <1>1. /\ exited = FALSE /\ exited' = exited /\ pc' = pc + 1 /\ program' = program /\ keeps' = keeps
        /\ Script' = Script /\ DownAt' = DownAt
        /\ DownAt \in {32, 41} /\ (program = "demo" <=> DownAt = 41)
        /\ pc \in 1 .. DownAt + 10 /\ pc' \in 1 .. Len(Script') + 1
    BY Continues DEF WaitEmpty
  <1>2. UNCHANGED <<stage_, icur_, used, pop, sem_command_, inbox, held, inputs, config, omx, doing,
                    filled, pictures, crossed, raced, freedHeld>>
    BY DEF WaitEmpty, component, history
  <1>3. \/ pc \in {26, 27}
        \/ program = "demo" /\ pc \in {33, 36, 39}
    BY Places, StepAt DEF WaitEmpty
  <1>4. sem_bufempty_ > 0 /\ sem_bufempty_' = sem_bufempty_ - 1
    BY DEF WaitEmpty
  <1>5. SetupTypeOK /\ InTurn /\ FreesOwn
    BY Places
  <1>6. InputsRight /\ SettingsRight /\ OutputsRight /\ StagesRight
    BY <1>1 DEF SetupInv
  <1>7. PlacesRight
    BY <1>1 DEF SetupInv
  <1>8. SetupTypeOK'
    BY <1>1, <1>2, <1>3, <1>4, <1>5 DEF SetupTypeOK
  <1>9. InTurn' /\ FreesOwn'
    BY <1>1, <1>2, <1>3, <1>4, <1>5 DEF InTurn, FreesOwn
  <1>10. InputsRight'
    BY <1>1, <1>2, <1>3, <1>4, <1>6, SetupNumbers DEF InputsRight, InputsOut
  <1>11. SettingsRight'
    BY <1>1, <1>2, <1>3, <1>4, <1>6, SetupNumbers DEF SettingsRight
  <1>12. OutputsRight'
    BY <1>1, <1>2, <1>3, <1>4, <1>6 DEF OutputsRight, StagesRight
  <1>13. StagesRight'
    BY <1>1, <1>2, <1>3, <1>4, <1>6 DEF StagesRight
  <1>14. BeginPlace'
    BY <1>1, <1>2, <1>3, <1>4, <1>6, <1>7 DEF PlacesRight, BeginPlace, DisablePlace, EnablePlace,
      WarmPlace, DownPlace, Still, UnderWay, Open, Sent, Doing, Quiet, Enabling, None
  <1>15. DisablePlace'
    BY <1>1, <1>2, <1>3, <1>4, <1>6, <1>7 DEF PlacesRight, BeginPlace, DisablePlace, EnablePlace,
      WarmPlace, DownPlace, Still, UnderWay, Open, Sent, Doing, Quiet, Enabling, None, StagesRight
  <1>16. EnablePlace'
    BY <1>1, <1>2, <1>3, <1>4, <1>6, <1>7 DEF PlacesRight, BeginPlace, DisablePlace, EnablePlace,
      WarmPlace, DownPlace, Still, UnderWay, Open, Sent, Doing, Quiet, Enabling, None, SettingsRight
  <1>17. WarmPlace'
    BY <1>1, <1>2, <1>3, <1>4, <1>6, <1>7 DEF PlacesRight, BeginPlace, DisablePlace, EnablePlace,
      WarmPlace, DownPlace, Still, UnderWay, Open, Sent, Doing, Quiet, Enabling, None, StagesRight
  <1>18. DownPlace'
    BY <1>1, <1>2, <1>3, <1>4, <1>6, <1>7 DEF PlacesRight, BeginPlace, DisablePlace, EnablePlace,
      WarmPlace, DownPlace, Still, UnderWay, Open, Sent, Doing, Quiet, Enabling, None, StagesRight
  <1> QED
    BY <1>8, <1>9, <1>10, <1>11, <1>12, <1>13, <1>14, <1>15, <1>16, <1>17, <1>18
       DEF SetupInv, SetupSound, PlacesRight

\* A picture is found in the buffer whose turn it is.
LEMMA PollInv ==
    ASSUME SetupInv, Poll
    PROVE  SetupInv'
  <1>1. /\ exited = FALSE /\ exited' = exited /\ pc' = pc + 1 /\ program' = program /\ keeps' = keeps
        /\ Script' = Script /\ DownAt' = DownAt
        /\ DownAt \in {32, 41} /\ (program = "demo" <=> DownAt = 41)
        /\ pc \in 1 .. DownAt + 10 /\ pc' \in 1 .. Len(Script') + 1
    BY Continues DEF Poll
  <1>2. UNCHANGED <<stage_, used, pop, sem_command_, sem_bufempty_, inbox, held, inputs, config, omx,
                    doing, filled, pictures, crossed, raced, freedHeld>>
    BY DEF Poll, component, history
  <1>3. program = "demo" /\ pc \in {34, 37, 40}
    BY Places, StepAt DEF Poll
  <1>4. icur_' \in Buffers
    <2>1. icur_ \in 1 .. N /\ icur_' = (icur_ % N) + 1
      BY Places DEF Poll, SetupTypeOK, Buffers
    <2>2. N \in Nat \ {0}
      BY AvcSetupAssumption
    <2>3. icur_ % N \in 0 .. N - 1
      BY <2>1, <2>2
    <2> QED
      BY <2>1, <2>2, <2>3 DEF Buffers
  <1>5. SetupTypeOK /\ InTurn /\ FreesOwn
    BY Places
  <1>6. InputsRight /\ SettingsRight /\ OutputsRight /\ StagesRight
    BY <1>1 DEF SetupInv
  <1>7. PlacesRight
    BY <1>1 DEF SetupInv
  <1>8. SetupTypeOK'
    BY <1>1, <1>2, <1>4, <1>5 DEF SetupTypeOK
  <1>9. InTurn' /\ FreesOwn'
    BY <1>1, <1>2, <1>3, <1>4, <1>5 DEF InTurn, FreesOwn
  <1>10. InputsRight'
    BY <1>1, <1>2, <1>3, <1>4, <1>6, SetupNumbers DEF InputsRight, InputsOut
  <1>11. SettingsRight'
    BY <1>1, <1>2, <1>3, <1>4, <1>6, SetupNumbers DEF SettingsRight
  <1>12. OutputsRight'
    BY <1>1, <1>2, <1>3, <1>4, <1>6 DEF OutputsRight, StagesRight
  <1>13. StagesRight'
    BY <1>1, <1>2, <1>3, <1>4, <1>6 DEF StagesRight
  <1>14. BeginPlace'
    BY <1>1, <1>2, <1>3, <1>4, <1>6, <1>7 DEF PlacesRight, BeginPlace, DisablePlace, EnablePlace,
      WarmPlace, DownPlace, Still, UnderWay, Open, Sent, Doing, Quiet, Enabling, None
  <1>15. DisablePlace'
    BY <1>1, <1>2, <1>3, <1>4, <1>6, <1>7 DEF PlacesRight, BeginPlace, DisablePlace, EnablePlace,
      WarmPlace, DownPlace, Still, UnderWay, Open, Sent, Doing, Quiet, Enabling, None, StagesRight
  <1>16. EnablePlace'
    BY <1>1, <1>2, <1>3, <1>4, <1>6, <1>7 DEF PlacesRight, BeginPlace, DisablePlace, EnablePlace,
      WarmPlace, DownPlace, Still, UnderWay, Open, Sent, Doing, Quiet, Enabling, None, SettingsRight
  <1>17. WarmPlace'
    BY <1>1, <1>2, <1>3, <1>4, <1>6, <1>7 DEF PlacesRight, BeginPlace, DisablePlace, EnablePlace,
      WarmPlace, DownPlace, Still, UnderWay, Open, Sent, Doing, Quiet, Enabling, None, StagesRight
  <1>18. DownPlace'
    BY <1>1, <1>2, <1>3, <1>4, <1>6, <1>7 DEF PlacesRight, BeginPlace, DisablePlace, EnablePlace,
      WarmPlace, DownPlace, Still, UnderWay, Open, Sent, Doing, Quiet, Enabling, None, StagesRight
  <1> QED
    BY <1>8, <1>9, <1>10, <1>11, <1>12, <1>13, <1>14, <1>15, <1>16, <1>17, <1>18
       DEF SetupInv, SetupSound, PlacesRight

-----------------------------------------------------------------------------
(* The component keeps the invariant                                       *)

\* A step of the component leaves the calling thread where it is.
LEMMA StaysThere ==
    ASSUME SetupInv, ~exited, Waits
    PROVE  /\ exited = FALSE /\ pc' = pc /\ program' = program /\ keeps' = keeps
           /\ Script' = Script /\ DownAt' = DownAt
           /\ DownAt \in {32, 41} /\ (program = "demo" <=> DownAt = 41)
           /\ pc \in 1 .. DownAt + 11 /\ pc' \in 1 .. Len(Script') + 1
           /\ UNCHANGED <<stage_, icur_, pop, crossed, raced, freedHeld>>
  <1>1. /\ exited = FALSE /\ pc' = pc /\ program' = program /\ keeps' = keeps
        /\ UNCHANGED <<stage_, icur_, pop, crossed, raced, freedHeld>>
    BY Places DEF Waits, program_, history, SetupTypeOK
  <1>2. Script' = Script /\ DownAt' = DownAt
    BY <1>1, SameScript
  <1>3. pc' \in 1 .. Len(Script') + 1
    BY <1>1, <1>2, Places
  <1> QED
    BY <1>1, <1>2, <1>3, Places

\* The component begins with a command.
LEMMA ReadCommandInv ==
    ASSUME SetupInv, Read, Head(inbox).op = "command"
    PROVE  SetupInv'
  <1>1. /\ exited = FALSE /\ exited' = exited /\ pc' = pc /\ program' = program /\ keeps' = keeps
        /\ Script' = Script /\ DownAt' = DownAt
        /\ DownAt \in {32, 41} /\ (program = "demo" <=> DownAt = 41)
        /\ pc \in 1 .. DownAt + 11 /\ pc' \in 1 .. Len(Script') + 1
        /\ UNCHANGED <<stage_, icur_, pop, crossed, raced, freedHeld>>
    BY StaysThere DEF Read
  <1>2. UNCHANGED <<used, sem_command_, sem_bufempty_, omx, filled, pictures>>
    BY DEF Read
  <1>3. inbox \in Seq(OmxMessages) /\ inbox # <<>> /\ inbox' = Tail(inbox)
    BY Places DEF Read, SetupTypeOK
  <1> DEFINE m == Head(inbox)
  <1>4. m \in OmxMessages /\ m.op = "command"
    BY <1>3, ReadMessage
  <1>5. doing = None /\ doing' = m.arg /\ held' = held /\ inputs' = inputs /\ config' = config
    BY <1>4 DEF Read
  <1>6. /\ inbox' \in Seq(OmxMessages)
        /\ ~NoCommand(inbox)
        /\ \A c : Sole(inbox, c) => m.arg = c /\ NoCommand(inbox')
        /\ \A c : Sole(inbox, c) /\ EndsInCommand(inbox) => NoFill(inbox')
        /\ NoFill(inbox) => NoFill(inbox')
        /\ \A u, h : FillsRight(inbox, u, h) => FillsRight(inbox', u, h)
        /\ Fed(inbox') = Fed(inbox)
        /\ \A A : FedOnly(inbox, A) => FedOnly(inbox', A)
    BY <1>3, <1>4, ReadMessage
  <1>7. m.arg \in {"idle", "exec", "disable", "enable", "flush", "loaded"}
    BY <1>4, MessageOps
  <1>8. Fed(inbox') \in Nat
    BY <1>6, EmptiesFinite
  <1> HIDE DEF m
  <1>9. SetupTypeOK /\ InTurn /\ FreesOwn
    BY Places
  <1>10. InputsRight /\ SettingsRight /\ OutputsRight /\ StagesRight
    BY <1>1 DEF SetupInv
  <1>11. PlacesRight
    BY <1>1 DEF SetupInv
  <1>12. SetupTypeOK'
    BY <1>1, <1>2, <1>5, <1>6, <1>7, <1>9 DEF SetupTypeOK
  <1>13. InTurn' /\ FreesOwn'
    BY <1>1, <1>2, <1>5, <1>6, <1>9 DEF InTurn, FreesOwn
  <1>14. InputsRight'
    BY <1>1, <1>2, <1>5, <1>6, <1>10, SetupNumbers DEF InputsRight, InputsOut
  <1>15. SettingsRight'
    BY <1>1, <1>2, <1>5, <1>6, <1>10, SetupNumbers DEF SettingsRight
  <1>16. OutputsRight'
    BY <1>1, <1>2, <1>5, <1>6, <1>10 DEF OutputsRight, StagesRight
  <1>17. StagesRight'
    BY <1>1, <1>2, <1>5, <1>6, <1>10 DEF StagesRight
  <1>18. BeginPlace'
    BY <1>1, <1>2, <1>5, <1>6, <1>10, <1>11 DEF PlacesRight, BeginPlace, DisablePlace, EnablePlace,
      WarmPlace, DownPlace, Still, UnderWay, Open, Sent, Doing, Quiet, Enabling, None
  <1>19. DisablePlace'
    BY <1>1, <1>2, <1>5, <1>6, <1>10, <1>11 DEF PlacesRight, BeginPlace, DisablePlace, EnablePlace,
      WarmPlace, DownPlace, Still, UnderWay, Open, Sent, Doing, Quiet, Enabling, None, StagesRight
  <1>20. EnablePlace'
    BY <1>1, <1>2, <1>5, <1>6, <1>10, <1>11 DEF PlacesRight, BeginPlace, DisablePlace, EnablePlace,
      WarmPlace, DownPlace, Still, UnderWay, Open, Sent, Doing, Quiet, Enabling, None, SettingsRight
  <1>21. WarmPlace'
    BY <1>1, <1>2, <1>5, <1>6, <1>10, <1>11 DEF PlacesRight, BeginPlace, DisablePlace, EnablePlace,
      WarmPlace, DownPlace, Still, UnderWay, Open, Sent, Doing, Quiet, Enabling, None, StagesRight
  <1>22. DownPlace'
    BY <1>1, <1>2, <1>5, <1>6, <1>10, <1>11 DEF PlacesRight, BeginPlace, DisablePlace, EnablePlace,
      WarmPlace, DownPlace, Still, UnderWay, Open, Sent, Doing, Quiet, Enabling, None, StagesRight
  <1> QED
    BY <1>12, <1>13, <1>14, <1>15, <1>16, <1>17, <1>18, <1>19, <1>20, <1>21, <1>22
       DEF SetupInv, SetupSound, PlacesRight

\* The component takes an output buffer.
LEMMA ReadFillInv ==
    ASSUME SetupInv, Read, Head(inbox).op = "fill"
    PROVE  SetupInv'
  <1>1. /\ exited = FALSE /\ exited' = exited /\ pc' = pc /\ program' = program /\ keeps' = keeps
        /\ Script' = Script /\ DownAt' = DownAt
        /\ DownAt \in {32, 41} /\ (program = "demo" <=> DownAt = 41)
        /\ pc \in 1 .. DownAt + 11 /\ pc' \in 1 .. Len(Script') + 1
        /\ UNCHANGED <<stage_, icur_, pop, crossed, raced, freedHeld>>
    BY StaysThere DEF Read
  <1>2. UNCHANGED <<used, sem_command_, sem_bufempty_, omx, filled, pictures>>
    BY DEF Read
  <1>3. inbox \in Seq(OmxMessages) /\ inbox # <<>> /\ inbox' = Tail(inbox)
    BY Places DEF Read, SetupTypeOK
  <1> DEFINE m == Head(inbox)
  <1>4. m \in OmxMessages /\ m.op = "fill"
    BY <1>3, ReadMessage
  <1>5. /\ held' = held \union {m.arg} /\ doing' = doing /\ inputs' = inputs
        /\ config' = IF config = 4 THEN 5 ELSE config
    BY <1>4 DEF Read
  <1>6. /\ inbox' \in Seq(OmxMessages)
        /\ NoCommand(inbox) => NoCommand(inbox')
        /\ \A c : Sole(inbox, c) => Sole(inbox', c)
        /\ EndsInCommand(inbox) => EndsInCommand(inbox')
        /\ ~NoFill(inbox)
        /\ \A u, h : FillsRight(inbox, u, h) => m.arg \in u /\ FillsRight(inbox', u, h \union {m.arg})
        /\ Fed(inbox') = Fed(inbox)
        /\ \A A : FedOnly(inbox, A) => FedOnly(inbox', A)
    BY <1>3, <1>4, ReadMessage
  <1>7. m.arg \in Buffers
    BY <1>4, MessageOps
  <1> HIDE DEF m
  <1>8. SetupTypeOK /\ InTurn /\ FreesOwn
    BY Places
  <1>9. InputsRight /\ SettingsRight /\ OutputsRight /\ StagesRight
    BY <1>1 DEF SetupInv
  <1>10. PlacesRight
    BY <1>1 DEF SetupInv
  <1>11. SetupTypeOK'
    BY <1>1, <1>2, <1>5, <1>6, <1>7, <1>8 DEF SetupTypeOK
  <1>12. InTurn' /\ FreesOwn'
    BY <1>1, <1>2, <1>5, <1>6, <1>8 DEF InTurn, FreesOwn
  <1>13. InputsRight'
    BY <1>1, <1>2, <1>5, <1>6, <1>9, SetupNumbers DEF InputsRight, InputsOut
  <1>14. SettingsRight'
    BY <1>1, <1>2, <1>5, <1>6, <1>9, SetupNumbers DEF SettingsRight
  <1>15. OutputsRight'
    BY <1>1, <1>2, <1>5, <1>6, <1>9 DEF OutputsRight, StagesRight
  <1>16. StagesRight'
    BY <1>1, <1>2, <1>5, <1>6, <1>9 DEF StagesRight
  <1>17. BeginPlace'
    BY <1>1, <1>2, <1>5, <1>6, <1>9, <1>10 DEF PlacesRight, BeginPlace, DisablePlace, EnablePlace,
      WarmPlace, DownPlace, Still, UnderWay, Open, Sent, Doing, Quiet, Enabling, None
  <1>18. DisablePlace'
    BY <1>1, <1>2, <1>5, <1>6, <1>9, <1>10 DEF PlacesRight, BeginPlace, DisablePlace, EnablePlace,
      WarmPlace, DownPlace, Still, UnderWay, Open, Sent, Doing, Quiet, Enabling, None, StagesRight
  <1>19. EnablePlace'
    BY <1>1, <1>2, <1>5, <1>6, <1>9, <1>10 DEF PlacesRight, BeginPlace, DisablePlace, EnablePlace,
      WarmPlace, DownPlace, Still, UnderWay, Open, Sent, Doing, Quiet, Enabling, None, SettingsRight
  <1>20. WarmPlace'
    BY <1>1, <1>2, <1>5, <1>6, <1>9, <1>10 DEF PlacesRight, BeginPlace, DisablePlace, EnablePlace,
      WarmPlace, DownPlace, Still, UnderWay, Open, Sent, Doing, Quiet, Enabling, None, StagesRight
  <1>21. DownPlace'
    BY <1>1, <1>2, <1>5, <1>6, <1>9, <1>10 DEF PlacesRight, BeginPlace, DisablePlace, EnablePlace,
      WarmPlace, DownPlace, Still, UnderWay, Open, Sent, Doing, Quiet, Enabling, None, StagesRight
  <1> QED
    BY <1>11, <1>12, <1>13, <1>14, <1>15, <1>16, <1>17, <1>18, <1>19, <1>20, <1>21
       DEF SetupInv, SetupSound, PlacesRight

\* The component takes an input buffer.
LEMMA ReadEmptyInv ==
    ASSUME SetupInv, Read, Head(inbox).op = "empty"
    PROVE  SetupInv'
  <1>1. /\ exited = FALSE /\ exited' = exited /\ pc' = pc /\ program' = program /\ keeps' = keeps
        /\ Script' = Script /\ DownAt' = DownAt
        /\ DownAt \in {32, 41} /\ (program = "demo" <=> DownAt = 41)
        /\ pc \in 1 .. DownAt + 11 /\ pc' \in 1 .. Len(Script') + 1
        /\ UNCHANGED <<stage_, icur_, pop, crossed, raced, freedHeld>>
    BY StaysThere DEF Read
  <1>2. UNCHANGED <<used, sem_command_, sem_bufempty_, omx, filled, pictures>>
    BY DEF Read
  <1>3. inbox \in Seq(OmxMessages) /\ inbox # <<>> /\ inbox' = Tail(inbox)
    BY Places DEF Read, SetupTypeOK
  <1> DEFINE m == Head(inbox)
  <1>4. m \in OmxMessages /\ m.op = "empty"
    BY <1>3, ReadMessage
  <1>5. /\ held' = held /\ doing' = doing /\ inputs' = inputs + 1
        /\ config' = IF m.arg = 3 THEN 6 ELSE config + 1
    BY <1>4 DEF Read
  <1>6. /\ inbox' \in Seq(OmxMessages)
        /\ NoCommand(inbox) => NoCommand(inbox')
        /\ \A c : Sole(inbox, c) => Sole(inbox', c)
        /\ EndsInCommand(inbox) => EndsInCommand(inbox')
        /\ NoFill(inbox) => NoFill(inbox')
        /\ \A u, h : FillsRight(inbox, u, h) => FillsRight(inbox', u, h)
        /\ Fed(inbox) = Fed(inbox') + 1
        /\ \A A : FedOnly(inbox, A) => FedOnly(inbox', A) /\ m.arg \in A
    BY <1>3, <1>4, ReadMessage
  <1>7. Fed(inbox') \in Nat
    BY <1>6, EmptiesFinite
  <1> HIDE DEF m
  <1>8. InputsRight /\ SettingsRight
    BY <1>1 DEF SetupInv
  <1>9. inputs' \in 0 .. 3
    BY <1>5, <1>6, <1>7, <1>8, SetupNumbers DEF InputsRight, InputsOut
  <1>10. \/ pc \in {9, 10} /\ config \in {0, 1} /\ config' = config + 1
         \/ pc > 23 /\ config' = 6
    <2>1. Fed(inbox) \in Nat /\ Fed(inbox) # 0 /\ config \in 0 .. 6
      BY <1>6, <1>7, SetupNumbers
    <2>2. ~FedOnly(inbox, {}) /\ (FedOnly(inbox, {1, 2}) => m.arg # 3) /\ (FedOnly(inbox, {3}) => m.arg = 3)
      BY <1>6
    <2>3. pc \in {9, 10} \/ pc > 23
      BY <1>1, <1>8, <2>1, <2>2 DEF SettingsRight
    <2>4. CASE pc \in {9, 10}
      <3>1. config + Fed(inbox) \in {1, 2} /\ m.arg # 3
        BY <1>8, <2>1, <2>2, <2>4 DEF SettingsRight
      <3>2. config \in {0, 1}
        BY <2>1, <3>1
      <3> QED
        BY <1>5, <2>4, <3>1, <3>2
    <2>5. CASE pc > 23
      <3>1. m.arg = 3
        BY <1>1, <1>8, <2>2, <2>5 DEF SettingsRight
      <3> QED
        BY <1>5, <2>5, <3>1
    <2> QED
      BY <2>3, <2>4, <2>5
  <1>11. SetupTypeOK /\ InTurn /\ FreesOwn
    BY Places
  <1>12. InputsRight /\ SettingsRight /\ OutputsRight /\ StagesRight
    BY <1>1 DEF SetupInv
  <1>13. PlacesRight
    BY <1>1 DEF SetupInv
  <1>14. SetupTypeOK'
    BY <1>1, <1>2, <1>5, <1>6, <1>9, <1>10, <1>11 DEF SetupTypeOK
  <1>15. InTurn' /\ FreesOwn'
    BY <1>1, <1>2, <1>6, <1>10, <1>11 DEF InTurn, FreesOwn
  <1>16. InputsRight'
    BY <1>1, <1>2, <1>5, <1>6, <1>7, <1>12, SetupNumbers DEF InputsRight, InputsOut
  <1>17. SettingsRight'
    <2>1. CASE pc \in {9, 10} /\ config \in {0, 1} /\ config' = config + 1
      <3>1. pc' = pc /\ config' + Fed(inbox') = config + Fed(inbox)
        BY <1>1, <1>6, <1>7, <2>1, SetupNumbers
      <3>2. FedOnly(inbox', {1, 2})
        BY <1>6, <1>12, <2>1 DEF SettingsRight
      <3>3. (pc = 9 => config + Fed(inbox) = 1) /\ (pc = 10 => config + Fed(inbox) = 2)
        BY <1>12, <2>1 DEF SettingsRight
      <3> QED
        BY <2>1, <3>1, <3>2, <3>3 DEF SettingsRight
    <2>2. CASE pc > 23 /\ config' = 6
      <3>1. FedOnly(inbox', {3})
        BY <1>1, <1>6, <1>12, <2>2 DEF SettingsRight
      <3> QED
        BY <1>1, <2>2, <3>1 DEF SettingsRight
    <2> QED
      BY <1>10, <2>1, <2>2
  <1>18. OutputsRight'
    BY <1>1, <1>2, <1>5, <1>6, <1>10, <1>12 DEF OutputsRight, StagesRight
  <1>19. StagesRight'
    BY <1>1, <1>2, <1>6, <1>10, <1>12 DEF StagesRight
  <1>20. BeginPlace'
    BY <1>1, <1>2, <1>5, <1>6, <1>10, <1>12, <1>13 DEF PlacesRight, BeginPlace, DisablePlace, EnablePlace,
      WarmPlace, DownPlace, Still, UnderWay, Open, Sent, Doing, Quiet, Enabling, None
  <1>21. DisablePlace'
    BY <1>1, <1>2, <1>5, <1>6, <1>10, <1>12, <1>13 DEF PlacesRight, BeginPlace, DisablePlace, EnablePlace,
      WarmPlace, DownPlace, Still, UnderWay, Open, Sent, Doing, Quiet, Enabling, None, StagesRight
  <1>22. EnablePlace'
    BY <1>1, <1>2, <1>5, <1>6, <1>10, <1>12, <1>13 DEF PlacesRight, BeginPlace, DisablePlace, EnablePlace,
      WarmPlace, DownPlace, Still, UnderWay, Open, Sent, Doing, Quiet, Enabling, None, SettingsRight
  <1>23. WarmPlace'
    BY <1>1, <1>2, <1>5, <1>6, <1>10, <1>12, <1>13 DEF PlacesRight, BeginPlace, DisablePlace, EnablePlace,
      WarmPlace, DownPlace, Still, UnderWay, Open, Sent, Doing, Quiet, Enabling, None, StagesRight
  <1>24. DownPlace'
    BY <1>1, <1>2, <1>5, <1>6, <1>10, <1>12, <1>13 DEF PlacesRight, BeginPlace, DisablePlace, EnablePlace,
      WarmPlace, DownPlace, Still, UnderWay, Open, Sent, Doing, Quiet, Enabling, None, StagesRight
  <1> QED
    BY <1>14, <1>15, <1>16, <1>17, <1>18, <1>19, <1>20, <1>21, <1>22, <1>23, <1>24
       DEF SetupInv, SetupSound, PlacesRight

\* The component reads a message.
LEMMA ReadInv ==
    ASSUME SetupInv, Read
    PROVE  SetupInv'
  <1>1. inbox \in Seq(OmxMessages) /\ inbox # <<>>
    BY Places DEF Read, SetupTypeOK
  <1>2. Head(inbox).op = "command" \/ Head(inbox).op = "fill" \/ Head(inbox).op = "empty"
    BY <1>1, ReadMessage, MessageOps
  <1> QED
    BY <1>2, ReadCommandInv, ReadFillInv, ReadEmptyInv

\* Where the component carries out a command
LEMMA DoingAt ==
    ASSUME SetupInv, ~exited, doing # None
    PROVE  \/ pc \in 2 .. 4 /\ doing = "idle"
           \/ pc = 6 /\ doing = "exec"
           \/ pc \in 12 .. 17 /\ doing = "disable"
           \/ pc \in 17 .. 23 /\ doing = "enable"
           \/ pc = DownAt + 4 /\ doing = "flush"
           \/ pc = DownAt + 6 /\ doing = "idle"
           \/ pc \in DownAt + 8 .. DownAt + 10 /\ doing = "loaded"
  <1>1. PlacesRight /\ DownAt \in {32, 41} /\ pc \in 1 .. DownAt + 11
    BY Places DEF SetupInv
  <1> QED
    BY <1>1 DEF PlacesRight, BeginPlace, DisablePlace, EnablePlace,
      WarmPlace, DownPlace, Still, UnderWay, Open, Sent, Doing, Quiet, Enabling, None

\* A sequence of one is appended to.
LEMMA AppendToOne ==
    ASSUME NEW S, NEW c \in S, NEW d \in S
    PROVE  Append(<<d>>, c) = <<d, c>>
  <1> DEFINE z == Append(<<d>>, c)
             w == <<d, c>>
  <1>1. /\ z \in Seq(S) /\ w \in Seq(S) /\ Len(z) = 2 /\ Len(w) = 2
        /\ z[1] = d /\ z[2] = c /\ w[1] = d /\ w[2] = c
    OBVIOUS
  <1> HIDE DEF z, w
  <1>2. z = w
    BY <1>1
  <1> QED
    BY <1>2 DEF z, w

\* One more post
LEMMA OnePost ==
    ASSUME NEW S, NEW c \in S, NEW s \in Seq(S)
    PROVE  /\ Append(s, c) \in Seq(S)
           /\ s = <<>> => Append(s, c) = <<c>>
           /\ \A d : s = <<d>> => Append(s, c) = <<d, c>>
           /\ (\A i \in DOMAIN s : s[i] = c) => \A i \in DOMAIN Append(s, c) : Append(s, c)[i] = c
  <1> DEFINE z == Append(s, c)
  <1>1. /\ z \in Seq(S)
        /\ Len(s) \in Nat /\ DOMAIN s = 1 .. Len(s) /\ DOMAIN z = 1 .. Len(s) + 1
        /\ z[Len(s) + 1] = c /\ \A i \in 1 .. Len(s) : z[i] = s[i]
    OBVIOUS
  <1>2. (\A i \in DOMAIN s : s[i] = c) => \A i \in DOMAIN z : z[i] = c
    <2> HIDE DEF z
    <2> QED
      BY <1>1
  <1>3. s = <<>> => z = <<c>>
    OBVIOUS
  <1>4. ASSUME NEW d, s = <<d>> PROVE z = <<d, c>>
    <2>1. Len(s) = 1 /\ s[1] = d
      BY <1>4
    <2>2. s[1] \in S
      BY <2>1
    <2>3. Append(<<d>>, c) = <<d, c>>
      BY <2>1, <2>2, AppendToOne, Zenon
    <2> QED
      BY <1>4, <2>3
  <1> QED
    BY <1>1, <1>2, <1>3, <1>4

\* A command is complete.
LEMMA CompleteInv ==
    ASSUME SetupInv, CmdComplete
    PROVE  SetupInv'
  <1>1. /\ exited = FALSE /\ exited' = exited /\ pc' = pc /\ program' = program /\ keeps' = keeps
        /\ Script' = Script /\ DownAt' = DownAt
        /\ DownAt \in {32, 41} /\ (program = "demo" <=> DownAt = 41)
        /\ pc \in 1 .. DownAt + 11 /\ pc' \in 1 .. Len(Script') + 1
        /\ UNCHANGED <<stage_, icur_, pop, crossed, raced, freedHeld>>
    BY StaysThere DEF CmdComplete
  <1>2. UNCHANGED <<used, sem_bufempty_, inbox, held, inputs, filled, pictures>>
    BY DEF CmdComplete
  <1>3. /\ doing # None /\ doing' = None /\ sem_command_' = Append(sem_command_, doing)
        /\ omx' = IF doing \in {"idle", "exec", "loaded"} THEN doing ELSE omx
        /\ config' = IF doing = "enable" THEN 4 ELSE config
    BY DEF CmdComplete
  <1>4. (doing = "disable" => "out" \notin pop) /\ (doing = "flush" => held = {})
    BY DEF CmdComplete, Completes
  <1>5. /\ doing \in {"idle", "exec", "disable", "enable", "flush", "loaded"}
        /\ sem_command_ \in Seq({"idle", "exec", "disable", "enable", "flush", "loaded", "settings", "returned"})
    BY <1>3, Places DEF SetupTypeOK
  <1>6. /\ sem_command_' \in Seq({"idle", "exec", "disable", "enable", "flush", "loaded", "settings", "returned"})
        /\ sem_command_ = <<>> => sem_command_' = <<doing>>
        /\ \A d : sem_command_ = <<d>> => sem_command_' = <<d, doing>>
    <2> DEFINE S == {"idle", "exec", "disable", "enable", "flush", "loaded", "settings", "returned"}
               z == Append(sem_command_, doing)
    <2>1. doing \in S /\ sem_command_ \in Seq(S)
      BY <1>5
    <2> HIDE DEF S
    <2>2. z \in Seq(S) /\ (sem_command_ = <<>> => z = <<doing>>) /\ \A d : sem_command_ = <<d>> => z = <<d, doing>>
      BY <2>1, OnePost
    <2> HIDE DEF z
    <2>3. sem_command_' = z
      BY <1>3 DEF z
    <2> QED
      BY <2>2, <2>3 DEF S
  <1>7. \/ pc \in 2 .. 4 /\ doing = "idle"
        \/ pc = 6 /\ doing = "exec"
        \/ pc \in 12 .. 17 /\ doing = "disable"
        \/ pc \in 17 .. 23 /\ doing = "enable"
        \/ pc = DownAt + 4 /\ doing = "flush"
        \/ pc = DownAt + 6 /\ doing = "idle"
        \/ pc \in DownAt + 8 .. DownAt + 10 /\ doing = "loaded"
    BY <1>1, <1>3, DoingAt
  <1>8. pc \notin 12 .. 14 \/ doing # "disable"
    BY <1>1, <1>4 DEF SetupInv, StagesRight
  <1>9. SetupTypeOK /\ InTurn /\ FreesOwn
    BY Places
  <1>10. InputsRight /\ SettingsRight /\ OutputsRight /\ StagesRight
    BY <1>1 DEF SetupInv
  <1>11. PlacesRight
    BY <1>1 DEF SetupInv
  <1>12. SetupTypeOK'
    BY <1>1, <1>2, <1>3, <1>5, <1>6, <1>9 DEF SetupTypeOK
  <1>13. InTurn' /\ FreesOwn'
    BY <1>1, <1>2, <1>3, <1>4, <1>6, <1>7, <1>8, <1>9 DEF InTurn, FreesOwn
  <1>14. InputsRight'
    BY <1>1, <1>2, <1>3, <1>4, <1>6, <1>7, <1>8, <1>10, SetupNumbers DEF InputsRight, InputsOut
  <1>15. SettingsRight'
    BY <1>1, <1>2, <1>3, <1>4, <1>6, <1>7, <1>8, <1>10, SetupNumbers DEF SettingsRight
  <1>16. OutputsRight'
    BY <1>1, <1>2, <1>3, <1>4, <1>6, <1>7, <1>8, <1>10 DEF OutputsRight, StagesRight
  <1>17. StagesRight'
    BY <1>1, <1>2, <1>3, <1>4, <1>6, <1>7, <1>8, <1>10 DEF StagesRight
  <1>18. BeginPlace'
    BY <1>1, <1>2, <1>3, <1>4, <1>6, <1>7, <1>8, <1>10, <1>11
       DEF PlacesRight, BeginPlace, DisablePlace, EnablePlace,
      WarmPlace, DownPlace, Still, UnderWay, Open, Sent, Doing, Quiet, Enabling, None
  <1>19. DisablePlace'
    BY <1>1, <1>2, <1>3, <1>4, <1>6, <1>7, <1>8, <1>10, <1>11
       DEF PlacesRight, BeginPlace, DisablePlace, EnablePlace,
      WarmPlace, DownPlace, Still, UnderWay, Open, Sent, Doing, Quiet, Enabling, None, StagesRight
  <1>20. EnablePlace'
    BY <1>1, <1>2, <1>3, <1>4, <1>6, <1>7, <1>8, <1>10, <1>11
       DEF PlacesRight, BeginPlace, DisablePlace, EnablePlace,
      WarmPlace, DownPlace, Still, UnderWay, Open, Sent, Doing, Quiet, Enabling, None, SettingsRight
  <1>21. WarmPlace'
    BY <1>1, <1>2, <1>3, <1>4, <1>6, <1>7, <1>8, <1>10, <1>11
       DEF PlacesRight, BeginPlace, DisablePlace, EnablePlace,
      WarmPlace, DownPlace, Still, UnderWay, Open, Sent, Doing, Quiet, Enabling, None, StagesRight
  <1>22. DownPlace'
    BY <1>1, <1>2, <1>3, <1>4, <1>6, <1>7, <1>8, <1>10, <1>11
       DEF PlacesRight, BeginPlace, DisablePlace, EnablePlace,
      WarmPlace, DownPlace, Still, UnderWay, Open, Sent, Doing, Quiet, Enabling, None, StagesRight
  <1> QED
    BY <1>12, <1>13, <1>14, <1>15, <1>16, <1>17, <1>18, <1>19, <1>20, <1>21, <1>22
       DEF SetupInv, SetupSound, PlacesRight

\* The settings of the output port changed.
LEMMA SettingsInv ==
    ASSUME SetupInv, PortSettingsChanged
    PROVE  SetupInv'
  <1>1. /\ exited = FALSE /\ exited' = exited /\ pc' = pc /\ program' = program /\ keeps' = keeps
        /\ Script' = Script /\ DownAt' = DownAt
        /\ DownAt \in {32, 41} /\ (program = "demo" <=> DownAt = 41)
        /\ pc \in 1 .. DownAt + 11 /\ pc' \in 1 .. Len(Script') + 1
        /\ UNCHANGED <<stage_, icur_, pop, crossed, raced, freedHeld>>
    BY StaysThere DEF PortSettingsChanged
  <1>2. UNCHANGED <<used, sem_bufempty_, inbox, held, inputs, omx, doing, filled, pictures>>
    BY DEF PortSettingsChanged
  <1>3. config = 2 /\ config' = 3 /\ sem_command_' = Append(sem_command_, "settings")
    BY DEF PortSettingsChanged
  <1>4. pc = 10 /\ FedOnly(inbox, {})
    <2>1. SettingsRight
      BY <1>1 DEF SetupInv
    <2> QED
      BY <1>1, <1>3, <2>1, SetupNumbers DEF SettingsRight
  <1>5. sem_command_ = <<>>
    BY <1>1, <1>3, <1>4 DEF SetupInv, PlacesRight, BeginPlace
  <1>6. sem_command_' = <<"settings">>
    BY <1>3, <1>5
  <1>7. SetupTypeOK /\ InTurn /\ FreesOwn
    BY Places
  <1>8. InputsRight /\ SettingsRight /\ OutputsRight /\ StagesRight
    BY <1>1 DEF SetupInv
  <1>9. PlacesRight
    BY <1>1 DEF SetupInv
  <1>10. SetupTypeOK'
    BY <1>1, <1>2, <1>3, <1>6, <1>7 DEF SetupTypeOK
  <1>11. InTurn' /\ FreesOwn'
    BY <1>1, <1>2, <1>3, <1>4, <1>6, <1>7 DEF InTurn, FreesOwn
  <1>12. InputsRight'
    BY <1>1, <1>2, <1>3, <1>4, <1>6, <1>8, SetupNumbers DEF InputsRight, InputsOut
  <1>13. SettingsRight'
    BY <1>1, <1>2, <1>3, <1>4, <1>6, <1>8, SetupNumbers DEF SettingsRight
  <1>14. OutputsRight'
    BY <1>1, <1>2, <1>3, <1>4, <1>6, <1>8 DEF OutputsRight, StagesRight
  <1>15. StagesRight'
    BY <1>1, <1>2, <1>3, <1>4, <1>6, <1>8 DEF StagesRight
  <1>16. BeginPlace'
    BY <1>1, <1>2, <1>3, <1>4, <1>6, <1>8, <1>9 DEF PlacesRight, BeginPlace, DisablePlace, EnablePlace,
      WarmPlace, DownPlace, Still, UnderWay, Open, Sent, Doing, Quiet, Enabling, None
  <1>17. DisablePlace'
    BY <1>1, <1>2, <1>3, <1>4, <1>6, <1>8, <1>9 DEF PlacesRight, BeginPlace, DisablePlace, EnablePlace,
      WarmPlace, DownPlace, Still, UnderWay, Open, Sent, Doing, Quiet, Enabling, None, StagesRight
  <1>18. EnablePlace'
    BY <1>1, <1>2, <1>3, <1>4, <1>6, <1>8, <1>9 DEF PlacesRight, BeginPlace, DisablePlace, EnablePlace,
      WarmPlace, DownPlace, Still, UnderWay, Open, Sent, Doing, Quiet, Enabling, None, SettingsRight
  <1>19. WarmPlace'
    BY <1>1, <1>2, <1>3, <1>4, <1>6, <1>8, <1>9 DEF PlacesRight, BeginPlace, DisablePlace, EnablePlace,
      WarmPlace, DownPlace, Still, UnderWay, Open, Sent, Doing, Quiet, Enabling, None, StagesRight
  <1>20. DownPlace'
    BY <1>1, <1>2, <1>3, <1>4, <1>6, <1>8, <1>9 DEF PlacesRight, BeginPlace, DisablePlace, EnablePlace,
      WarmPlace, DownPlace, Still, UnderWay, Open, Sent, Doing, Quiet, Enabling, None, StagesRight
  <1> QED
    BY <1>10, <1>11, <1>12, <1>13, <1>14, <1>15, <1>16, <1>17, <1>18, <1>19, <1>20
       DEF SetupInv, SetupSound, PlacesRight

\* An input buffer is given back.
LEMMA InputDoneInv ==
    ASSUME SetupInv, InputDone
    PROVE  SetupInv'
  <1>1. /\ exited = FALSE /\ exited' = exited /\ pc' = pc /\ program' = program /\ keeps' = keeps
        /\ Script' = Script /\ DownAt' = DownAt
        /\ DownAt \in {32, 41} /\ (program = "demo" <=> DownAt = 41)
        /\ pc \in 1 .. DownAt + 11 /\ pc' \in 1 .. Len(Script') + 1
        /\ UNCHANGED <<stage_, icur_, pop, crossed, raced, freedHeld>>
    BY StaysThere DEF InputDone
  <1>2. UNCHANGED <<used, sem_command_, inbox, held, config, omx, doing, filled, pictures>>
    BY DEF InputDone, component
  <1>3. /\ inputs > 0 /\ inputs' = inputs - 1
        /\ sem_bufempty_' = sem_bufempty_ \/ sem_bufempty_' = sem_bufempty_ + 1
    BY DEF InputDone, cbEmptyThisBuffer, EmptyBufferDone
  <1>4. inputs' \in 0 .. 3 /\ sem_bufempty_' \in 0 .. 3
    <2>1. InputsRight
      BY <1>1 DEF SetupInv
    <2> QED
      BY <1>3, <2>1, SetupNumbers DEF InputsRight, InputsOut
  <1>5. SetupTypeOK /\ InTurn /\ FreesOwn
    BY Places
  <1>6. InputsRight /\ SettingsRight /\ OutputsRight /\ StagesRight
    BY <1>1 DEF SetupInv
  <1>7. PlacesRight
    BY <1>1 DEF SetupInv
  <1>8. SetupTypeOK'
    BY <1>1, <1>2, <1>4, <1>5 DEF SetupTypeOK
  <1>9. InTurn' /\ FreesOwn'
    BY <1>1, <1>2, <1>3, <1>5 DEF InTurn, FreesOwn
  <1>10. InputsRight'
    BY <1>1, <1>2, <1>3, <1>6, SetupNumbers DEF InputsRight, InputsOut
  <1>11. SettingsRight'
    BY <1>1, <1>2, <1>3, <1>6, SetupNumbers DEF SettingsRight
  <1>12. OutputsRight'
    BY <1>1, <1>2, <1>3, <1>6 DEF OutputsRight, StagesRight
  <1>13. StagesRight'
    BY <1>1, <1>2, <1>3, <1>6 DEF StagesRight
  <1>14. BeginPlace'
    BY <1>1, <1>2, <1>3, <1>6, <1>7 DEF PlacesRight, BeginPlace, DisablePlace, EnablePlace,
      WarmPlace, DownPlace, Still, UnderWay, Open, Sent, Doing, Quiet, Enabling, None
  <1>15. DisablePlace'
    BY <1>1, <1>2, <1>3, <1>6, <1>7 DEF PlacesRight, BeginPlace, DisablePlace, EnablePlace,
      WarmPlace, DownPlace, Still, UnderWay, Open, Sent, Doing, Quiet, Enabling, None, StagesRight
  <1>16. EnablePlace'
    BY <1>1, <1>2, <1>3, <1>6, <1>7 DEF PlacesRight, BeginPlace, DisablePlace, EnablePlace,
      WarmPlace, DownPlace, Still, UnderWay, Open, Sent, Doing, Quiet, Enabling, None, SettingsRight
  <1>17. WarmPlace'
    BY <1>1, <1>2, <1>3, <1>6, <1>7 DEF PlacesRight, BeginPlace, DisablePlace, EnablePlace,
      WarmPlace, DownPlace, Still, UnderWay, Open, Sent, Doing, Quiet, Enabling, None, StagesRight
  <1>18. DownPlace'
    BY <1>1, <1>2, <1>3, <1>6, <1>7 DEF PlacesRight, BeginPlace, DisablePlace, EnablePlace,
      WarmPlace, DownPlace, Still, UnderWay, Open, Sent, Doing, Quiet, Enabling, None, StagesRight
  <1> QED
    BY <1>8, <1>9, <1>10, <1>11, <1>12, <1>13, <1>14, <1>15, <1>16, <1>17, <1>18
       DEF SetupInv, SetupSound, PlacesRight

\* What becomes of an output buffer that comes back without a picture
LEMMA ReturnKinds ==
    ASSUME SetupInv, Return0
    PROVE  \E b \in held :
               /\ held' = held \ {b} /\ inbox' = inbox /\ exited' = exited
               /\ \/ pc > DownAt /\ UNCHANGED <<used, sem_command_>>
                  \/ /\ pc \in {12, 13} /\ doing = "disable" /\ used' = used \ {b}
                     /\ sem_command_' = IF used' = {} THEN Append(sem_command_, "returned") ELSE sem_command_
                  \/ /\ pc \in 23 .. 30 /\ Quiet(doing, inbox) /\ used' = used \ {b}
                     /\ sem_command_' = Append(sem_command_, "returned")
  <1>1. PICK b \in held : held' = held \ {b} /\ OutputDone(b)
    BY DEF Return0
  <1>2. /\ ~exited /\ filled = {}
        /\ doing \in {"disable", "flush", "idle"} \/ (stage_ = 1 /\ config = 5)
    BY DEF Return0
  <1>3. /\ DownAt \in {32, 41} /\ pc \in 1 .. DownAt + 11 /\ stage_ \in 0 .. 3
    BY Places DEF SetupTypeOK
  <1>4. StagesRight /\ OutputsRight /\ PlacesRight
    BY <1>2 DEF SetupInv
  <1>5. stage_ < 2 => b \in used
    BY <1>4 DEF OutputsRight
  <1>6. \/ pc > DownAt /\ stage_ = 3
        \/ pc \in {12, 13} /\ doing = "disable" /\ stage_ = 0
        \/ pc \in 23 .. 30 /\ Quiet(doing, inbox) /\ stage_ = 1
    <2>1. CASE doing = "disable"
      <3>1. pc \in 12 .. 17
        BY <1>2, <1>3, <2>1, DoingAt DEF None
      <3>2. stage_ = 0
        BY <1>4, <3>1 DEF StagesRight
      <3>3. pc \notin 14 .. 22
        BY <1>4, <1>5, <3>2 DEF StagesRight
      <3> QED
        BY <2>1, <3>1, <3>2, <3>3
    <2>2. CASE doing = "flush"
      <3>1. pc = DownAt + 4
        BY <1>2, <1>3, <2>2, DoingAt DEF None
      <3> QED
        BY <1>3, <1>4, <3>1 DEF StagesRight
    <2>3. CASE doing = "idle"
      <3>1. pc \in 2 .. 4 \/ pc = DownAt + 6
        BY <1>2, <1>3, <2>3, DoingAt DEF None
      <3>2. CASE pc \in 2 .. 4
        BY <1>4, <1>5, <3>2 DEF StagesRight
      <3>3. CASE pc = DownAt + 6
        BY <1>3, <1>4, <3>3 DEF StagesRight
      <3> QED
        BY <3>1, <3>2, <3>3
    <2>4. CASE stage_ = 1 /\ config = 5
      <3>1. pc \in 22 .. 30
        BY <1>3, <1>4, <2>4 DEF StagesRight
      <3>2. pc # 22
        BY <1>4, <1>5, <2>4 DEF StagesRight
      <3>3. Quiet(doing, inbox)
        <4>1. CASE pc = 23
          BY <1>4, <2>4, <4>1 DEF PlacesRight, EnablePlace, Enabling
        <4>2. CASE pc # 23
          BY <1>3, <1>4, <3>1, <3>2, <4>2 DEF PlacesRight, WarmPlace
        <4> QED
          BY <4>1, <4>2
      <3> QED
        BY <2>4, <3>1, <3>2, <3>3
    <2> QED
      BY <1>2, <2>1, <2>2, <2>3, <2>4
  <1>7. stage_ = 3 => UNCHANGED <<exited, used, sem_command_, inbox>>
    BY <1>1 DEF OutputDone, FillBufferDone, cbFillThisBuffer
  <1>8. stage_ \in {0, 1} => Returned(b)
    BY <1>1, <1>2 DEF OutputDone, FillBufferDone, cbFillThisBuffer
  <1>9. stage_ = 0 => /\ inbox' = inbox /\ exited' = exited /\ used' = used \ {b}
                      /\ sem_command_' = IF used' = {} THEN Append(sem_command_, "returned") ELSE sem_command_
    BY <1>8 DEF Returned
  <1>10. stage_ = 1 => /\ inbox' = inbox /\ exited' = exited /\ used' = used \ {b}
                       /\ sem_command_' = Append(sem_command_, "returned")
    BY <1>8 DEF Returned
  <1> QED
    BY <1>1, <1>6, <1>7, <1>9, <1>10

\* A buffer that came back is not expected back.
LEMMA FillsWithout ==
    ASSUME NEW s, NEW u, NEW h, NEW b \in h, FillsRight(s, u, h)
    PROVE  FillsRight(s, u \ {b}, h \ {b})
  BY DEF FillsRight

\* An output buffer comes back without a picture.
LEMMA Return0Inv ==
    ASSUME SetupInv, Return0
    PROVE  SetupInv'
  <1>1. /\ exited = FALSE /\ pc' = pc /\ program' = program /\ keeps' = keeps
        /\ Script' = Script /\ DownAt' = DownAt
        /\ DownAt \in {32, 41} /\ (program = "demo" <=> DownAt = 41)
        /\ pc \in 1 .. DownAt + 11 /\ pc' \in 1 .. Len(Script') + 1
        /\ UNCHANGED <<stage_, icur_, pop, crossed, raced, freedHeld>>
    BY StaysThere DEF Return0
  <1>2. UNCHANGED <<sem_bufempty_, inputs, config, omx, doing, filled, pictures>>
    BY DEF Return0, component
  <1>3. PICK b \in held :
               /\ held' = held \ {b} /\ inbox' = inbox /\ exited' = exited
               /\ \/ pc > DownAt /\ UNCHANGED <<used, sem_command_>>
                  \/ /\ pc \in {12, 13} /\ doing = "disable" /\ used' = used \ {b}
                     /\ sem_command_' = IF used' = {} THEN Append(sem_command_, "returned") ELSE sem_command_
                  \/ /\ pc \in 23 .. 30 /\ Quiet(doing, inbox) /\ used' = used \ {b}
                     /\ sem_command_' = Append(sem_command_, "returned")
    BY ReturnKinds
  <1>4. sem_command_ \in Seq({"idle", "exec", "disable", "enable", "flush", "loaded", "settings", "returned"})
    BY Places DEF SetupTypeOK
  <1> DEFINE q == Append(sem_command_, "returned")
  <1>5. /\ q \in Seq({"idle", "exec", "disable", "enable", "flush", "loaded", "settings", "returned"})
        /\ sem_command_ = <<>> => q = <<"returned">>
        /\ (\A i \in DOMAIN sem_command_ : sem_command_[i] = "returned") => \A i \in DOMAIN q : q[i] = "returned"
    <2> DEFINE S == {"idle", "exec", "disable", "enable", "flush", "loaded", "settings", "returned"}
    <2>1. "returned" \in S /\ sem_command_ \in Seq(S)
      BY <1>4
    <2> HIDE DEF S
    <2>2. /\ q \in Seq(S)
          /\ sem_command_ = <<>> => q = <<"returned">>
          /\ (\A i \in DOMAIN sem_command_ : sem_command_[i] = "returned") => \A i \in DOMAIN q : q[i] = "returned"
      BY <2>1, OnePost
    <2> HIDE DEF q
    <2> QED
      BY <2>2 DEF S
  <1>6. \/ pc > DownAt /\ used' = used /\ sem_command_' = sem_command_
        \/ /\ pc \in {12, 13} /\ doing = "disable" /\ used' = used \ {b}
           /\ \/ used' = {} /\ sem_command_' = q
              \/ used' # {} /\ sem_command_' = sem_command_
        \/ pc \in 23 .. 30 /\ Quiet(doing, inbox) /\ used' = used \ {b} /\ sem_command_' = q
    BY <1>3
  <1> HIDE DEF q
  <1>7. exited' = exited /\ inbox' = inbox /\ held' = held \ {b} /\ held # {}
    BY <1>3
  <1>8. \A u : FillsRight(inbox, u, held) => FillsRight(inbox, u \ {b}, held \ {b})
    BY FillsWithout
  <1>9. pc \in {12, 13} => used # {}
    BY <1>1, <1>7 DEF SetupInv, OutputsRight, StagesRight
  <1>10. SetupTypeOK /\ InTurn /\ FreesOwn
    BY Places
  <1>11. InputsRight /\ SettingsRight /\ OutputsRight /\ StagesRight
    BY <1>1 DEF SetupInv
  <1>12. PlacesRight
    BY <1>1 DEF SetupInv
  <1>13. SetupTypeOK'
    BY <1>1, <1>2, <1>4, <1>5, <1>6, <1>7, <1>10 DEF SetupTypeOK
  <1>14. InTurn' /\ FreesOwn'
    BY <1>1, <1>2, <1>5, <1>6, <1>7, <1>9, <1>10 DEF InTurn, FreesOwn
  <1>15. InputsRight'
    BY <1>1, <1>2, <1>5, <1>6, <1>7, <1>9, <1>11, SetupNumbers DEF InputsRight, InputsOut
  <1>16. SettingsRight'
    BY <1>1, <1>2, <1>5, <1>6, <1>7, <1>9, <1>11, SetupNumbers DEF SettingsRight
  <1>17. OutputsRight'
    <2>1. CASE pc > DownAt
      BY <1>1, <1>2, <1>11, <2>1 DEF OutputsRight, StagesRight
    <2>2. CASE ~(pc > DownAt)
      <3>1. used' = used \ {b}
        BY <1>6, <2>2
      <3> QED
        BY <1>1, <1>2, <1>7, <1>8, <1>11, <3>1 DEF OutputsRight
    <2> QED
      BY <2>1, <2>2
  <1>18. StagesRight'
    BY <1>1, <1>2, <1>5, <1>6, <1>7, <1>9, <1>11 DEF StagesRight
  <1>19. BeginPlace'
    BY <1>1, <1>2, <1>5, <1>6, <1>7, <1>9, <1>11, <1>12
       DEF PlacesRight, BeginPlace, DisablePlace, EnablePlace,
      WarmPlace, DownPlace, Still, UnderWay, Open, Sent, Doing, Quiet, Enabling, None
  <1>20. DisablePlace'
    BY <1>1, <1>2, <1>5, <1>6, <1>7, <1>9, <1>11, <1>12
       DEF PlacesRight, BeginPlace, DisablePlace, EnablePlace,
      WarmPlace, DownPlace, Still, UnderWay, Open, Sent, Doing, Quiet, Enabling, None, StagesRight
  <1>21. EnablePlace'
    BY <1>1, <1>2, <1>5, <1>6, <1>7, <1>9, <1>11, <1>12
       DEF PlacesRight, BeginPlace, DisablePlace, EnablePlace,
      WarmPlace, DownPlace, Still, UnderWay, Open, Sent, Doing, Quiet, Enabling, None, SettingsRight
  <1>22. WarmPlace'
    BY <1>1, <1>2, <1>5, <1>6, <1>7, <1>9, <1>11, <1>12
       DEF PlacesRight, BeginPlace, DisablePlace, EnablePlace,
      WarmPlace, DownPlace, Still, UnderWay, Open, Sent, Doing, Quiet, Enabling, None, StagesRight
  <1>23. DownPlace'
    BY <1>1, <1>2, <1>5, <1>6, <1>7, <1>9, <1>11, <1>12
       DEF PlacesRight, BeginPlace, DisablePlace, EnablePlace,
      WarmPlace, DownPlace, Still, UnderWay, Open, Sent, Doing, Quiet, Enabling, None, StagesRight
  <1> QED
    BY <1>13, <1>14, <1>15, <1>16, <1>17, <1>18, <1>19, <1>20, <1>21, <1>22, <1>23
       DEF SetupInv, SetupSound, PlacesRight

\* A picture is written.
LEMMA PictureInv ==
    ASSUME SetupInv, Picture
    PROVE  SetupInv'
  <1>1. /\ exited = FALSE /\ exited' = exited /\ pc' = pc /\ program' = program /\ keeps' = keeps
        /\ Script' = Script /\ DownAt' = DownAt
        /\ DownAt \in {32, 41} /\ (program = "demo" <=> DownAt = 41)
        /\ pc \in 1 .. DownAt + 11 /\ pc' \in 1 .. Len(Script') + 1
        /\ UNCHANGED <<stage_, icur_, pop, crossed, raced, freedHeld>>
    BY StaysThere DEF Picture
  <1>2. UNCHANGED <<used, sem_command_, sem_bufempty_, inbox, held, inputs, config, omx, doing>>
    BY DEF Picture
  <1>3. stage_ = 2 /\ filled' \subseteq held /\ pictures < MaxPictures /\ pictures' = pictures + 1
    BY DEF Picture
  <1>4. filled' \subseteq Buffers /\ pictures' \in 0 .. MaxPictures
    <2>1. SetupTypeOK
      BY Places
    <2>2. held \subseteq Buffers /\ pictures \in 0 .. MaxPictures
      BY <2>1 DEF SetupTypeOK
    <2> QED
      BY <1>3, <2>2, AvcSetupAssumption
  <1>5. SetupTypeOK /\ InTurn /\ FreesOwn
    BY Places
  <1>6. InputsRight /\ SettingsRight /\ OutputsRight /\ StagesRight
    BY <1>1 DEF SetupInv
  <1>7. PlacesRight
    BY <1>1 DEF SetupInv
  <1>8. SetupTypeOK'
    BY <1>1, <1>2, <1>4, <1>5 DEF SetupTypeOK
  <1>9. InTurn' /\ FreesOwn'
    BY <1>1, <1>2, <1>3, <1>5 DEF InTurn, FreesOwn
  <1>10. InputsRight'
    BY <1>1, <1>2, <1>3, <1>6, SetupNumbers DEF InputsRight, InputsOut
  <1>11. SettingsRight'
    BY <1>1, <1>2, <1>3, <1>6, SetupNumbers DEF SettingsRight
  <1>12. OutputsRight'
    BY <1>1, <1>2, <1>3, <1>6 DEF OutputsRight, StagesRight
  <1>13. StagesRight'
    BY <1>1, <1>2, <1>3, <1>6 DEF StagesRight
  <1>14. BeginPlace'
    BY <1>1, <1>2, <1>3, <1>6, <1>7 DEF PlacesRight, BeginPlace, DisablePlace, EnablePlace,
      WarmPlace, DownPlace, Still, UnderWay, Open, Sent, Doing, Quiet, Enabling, None
  <1>15. DisablePlace'
    BY <1>1, <1>2, <1>3, <1>6, <1>7 DEF PlacesRight, BeginPlace, DisablePlace, EnablePlace,
      WarmPlace, DownPlace, Still, UnderWay, Open, Sent, Doing, Quiet, Enabling, None, StagesRight
  <1>16. EnablePlace'
    BY <1>1, <1>2, <1>3, <1>6, <1>7 DEF PlacesRight, BeginPlace, DisablePlace, EnablePlace,
      WarmPlace, DownPlace, Still, UnderWay, Open, Sent, Doing, Quiet, Enabling, None, SettingsRight
  <1>17. WarmPlace'
    BY <1>1, <1>2, <1>3, <1>6, <1>7 DEF PlacesRight, BeginPlace, DisablePlace, EnablePlace,
      WarmPlace, DownPlace, Still, UnderWay, Open, Sent, Doing, Quiet, Enabling, None, StagesRight
  <1>18. DownPlace'
    BY <1>1, <1>2, <1>3, <1>6, <1>7 DEF PlacesRight, BeginPlace, DisablePlace, EnablePlace,
      WarmPlace, DownPlace, Still, UnderWay, Open, Sent, Doing, Quiet, Enabling, None, StagesRight
  <1> QED
    BY <1>8, <1>9, <1>10, <1>11, <1>12, <1>13, <1>14, <1>15, <1>16, <1>17, <1>18
       DEF SetupInv, SetupSound, PlacesRight

\* What becomes of the buffer with a picture
LEMMA PictureKinds ==
    ASSUME SetupInv, PictureDone
    PROVE  \E b \in Buffers :
               /\ held' = held \ {b} /\ exited' = exited
               /\ \/ pc > DownAt /\ UNCHANGED <<used, sem_command_, inbox>>
                  \/ /\ pc \in 31 .. DownAt /\ used' = used \union {b} /\ sem_command_' = sem_command_
                     /\ inbox' = Append(inbox, Step("fill", b))
  <1>1. PICK b \in filled : held' = held \ {b} /\ OutputDone(b)
    BY DEF PictureDone
  <1>2. ~exited
    BY DEF PictureDone
  <1>3. /\ DownAt \in {32, 41} /\ pc \in 1 .. DownAt + 11 /\ stage_ \in 0 .. 3 /\ b \in Buffers
    BY <1>1, Places DEF SetupTypeOK
  <1>4. StagesRight /\ OutputsRight /\ PlacesRight
    BY <1>2 DEF SetupInv
  <1>5. ~(stage_ < 2)
    BY <1>1, <1>4 DEF OutputsRight
  <1>6. \/ pc > DownAt /\ stage_ = 3
        \/ pc \in 31 .. DownAt /\ stage_ = 2
    BY <1>3, <1>4, <1>5 DEF StagesRight
  <1>7. stage_ = 3 => UNCHANGED <<exited, used, sem_command_, inbox>>
    BY <1>1 DEF OutputDone, FillBufferDone, cbFillThisBuffer
  <1>8. stage_ = 2 => Refilled(b)
    BY <1>1 DEF OutputDone, FillBufferDone, cbFillThisBuffer
  <1>9. pc \in 31 .. DownAt => Takes
    <2>1. ASSUME pc \in 31 .. DownAt PROVE omx = "exec" /\ Quiet(doing, inbox)
      BY <1>3, <1>4, <2>1 DEF StagesRight, PlacesRight, WarmPlace
    <2> QED
      BY <2>1 DEF Takes, Quiet, None
  <1>10. pc \in 31 .. DownAt /\ stage_ = 2 =>
            /\ used' = used \union {b} /\ sem_command_' = sem_command_ /\ exited' = exited
            /\ inbox' = Append(inbox, Step("fill", b))
    BY <1>8, <1>9 DEF Refilled
  <1> QED
    BY <1>1, <1>3, <1>6, <1>7, <1>10

\* The buffer with a picture comes back.
LEMMA PictureDoneInv ==
    ASSUME SetupInv, PictureDone
    PROVE  SetupInv'
  <1>1. /\ exited = FALSE /\ pc' = pc /\ program' = program /\ keeps' = keeps
        /\ Script' = Script /\ DownAt' = DownAt
        /\ DownAt \in {32, 41} /\ (program = "demo" <=> DownAt = 41)
        /\ pc \in 1 .. DownAt + 11 /\ pc' \in 1 .. Len(Script') + 1
        /\ UNCHANGED <<stage_, icur_, pop, crossed, raced, freedHeld>>
    BY StaysThere DEF PictureDone
  <1>2. UNCHANGED <<sem_bufempty_, inputs, config, omx, doing, pictures>> /\ filled' = {}
    BY DEF PictureDone
  <1>3. PICK b \in Buffers :
               /\ held' = held \ {b} /\ exited' = exited
               /\ \/ pc > DownAt /\ UNCHANGED <<used, sem_command_, inbox>>
                  \/ /\ pc \in 31 .. DownAt /\ used' = used \union {b} /\ sem_command_' = sem_command_
                     /\ inbox' = Append(inbox, Step("fill", b))
    BY PictureKinds
  <1> DEFINE m == Step("fill", b)
             z == Append(inbox, m)
  <1>4. m \in OmxMessages /\ m.op = "fill" /\ inbox \in Seq(OmxMessages)
    BY Places DEF OmxMessages, Step, SetupTypeOK
  <1>5. /\ z \in Seq(OmxMessages)
        /\ NoCommand(inbox) => NoCommand(z)
        /\ Fed(z) = Fed(inbox)
        /\ \A A : FedOnly(inbox, A) => FedOnly(z, A)
    <2> HIDE DEF m
    <2> QED
      BY <1>4, AppendMessage
  <1> HIDE DEF z
  <1>6. /\ held' = held \ {b} /\ exited' = exited /\ sem_command_' = sem_command_
        /\ \/ pc > DownAt /\ used' = used /\ inbox' = inbox
           \/ pc \in 31 .. DownAt /\ used' = used \union {b} /\ inbox' = z
    BY <1>3 DEF z
  <1>7. SetupTypeOK /\ InTurn /\ FreesOwn
    BY Places
  <1>8. InputsRight /\ SettingsRight /\ OutputsRight /\ StagesRight
    BY <1>1 DEF SetupInv
  <1>9. PlacesRight
    BY <1>1 DEF SetupInv
  <1>10. SetupTypeOK'
    BY <1>1, <1>2, <1>4, <1>5, <1>6, <1>7 DEF SetupTypeOK
  <1>11. InTurn' /\ FreesOwn'
    BY <1>1, <1>2, <1>5, <1>6, <1>7 DEF InTurn, FreesOwn
  <1>12. InputsRight'
    BY <1>1, <1>2, <1>5, <1>6, <1>8, SetupNumbers DEF InputsRight, InputsOut
  <1>13. SettingsRight'
    BY <1>1, <1>2, <1>5, <1>6, <1>8, SetupNumbers DEF SettingsRight
  <1>14. OutputsRight'
    BY <1>1, <1>2, <1>5, <1>6, <1>8 DEF OutputsRight, StagesRight
  <1>15. StagesRight'
    BY <1>1, <1>2, <1>5, <1>6, <1>8 DEF StagesRight
  <1>16. BeginPlace'
    BY <1>1, <1>2, <1>5, <1>6, <1>8, <1>9 DEF PlacesRight, BeginPlace, DisablePlace, EnablePlace,
      WarmPlace, DownPlace, Still, UnderWay, Open, Sent, Doing, Quiet, Enabling, None
  <1>17. DisablePlace'
    BY <1>1, <1>2, <1>5, <1>6, <1>8, <1>9 DEF PlacesRight, BeginPlace, DisablePlace, EnablePlace,
      WarmPlace, DownPlace, Still, UnderWay, Open, Sent, Doing, Quiet, Enabling, None, StagesRight
  <1>18. EnablePlace'
    BY <1>1, <1>2, <1>5, <1>6, <1>8, <1>9 DEF PlacesRight, BeginPlace, DisablePlace, EnablePlace,
      WarmPlace, DownPlace, Still, UnderWay, Open, Sent, Doing, Quiet, Enabling, None, SettingsRight
  <1>19. WarmPlace'
    BY <1>1, <1>2, <1>5, <1>6, <1>8, <1>9 DEF PlacesRight, BeginPlace, DisablePlace, EnablePlace,
      WarmPlace, DownPlace, Still, UnderWay, Open, Sent, Doing, Quiet, Enabling, None, StagesRight
  <1>20. DownPlace'
    BY <1>1, <1>2, <1>5, <1>6, <1>8, <1>9 DEF PlacesRight, BeginPlace, DisablePlace, EnablePlace,
      WarmPlace, DownPlace, Still, UnderWay, Open, Sent, Doing, Quiet, Enabling, None, StagesRight
  <1> QED
    BY <1>10, <1>11, <1>12, <1>13, <1>14, <1>15, <1>16, <1>17, <1>18, <1>19, <1>20
       DEF SetupInv, SetupSound, PlacesRight

-----------------------------------------------------------------------------
(* So the whole of it does                                                 *)

\* At the start nothing is posted, sent or held.
LEMMA SetupStarts ==
    ASSUME SetupInit
    PROVE  SetupInv
  <1>1. /\ program \in Programs /\ keeps \in BOOLEAN /\ pc = 1 /\ exited = FALSE /\ stage_ = 0 /\ icur_ = 1
        /\ used = {} /\ pop = {} /\ sem_command_ = <<>> /\ sem_bufempty_ = 0 /\ inbox = <<>> /\ held = {}
        /\ inputs = 0 /\ config = 0 /\ omx = "loaded" /\ doing = None /\ filled = {} /\ pictures = 0
        /\ crossed = FALSE /\ raced = FALSE /\ freedHeld = FALSE
    BY DEF SetupInit
  <1>2. program \in {"ildec", "demo"} /\ N \in Nat \ {0} /\ MaxPictures \in Nat
    BY <1>1, AvcSetupAssumption
  <1>3. DownAt \in {32, 41} /\ Len(Script) = DownAt + 10
    BY <1>2, ScriptIs DEF Lists, DownAt
  <1>4. SetupTypeOK
    <2>1. pc \in 1 .. Len(Script) + 1 /\ icur_ \in Buffers /\ pictures \in 0 .. MaxPictures
      BY <1>1, <1>2, <1>3 DEF Buffers
    <2>2. sem_command_ \in Seq({"idle", "exec", "disable", "enable", "flush", "loaded", "settings", "returned"})
          /\ inbox \in Seq(OmxMessages)
      BY <1>1
    <2>3. /\ exited \in BOOLEAN /\ crossed \in BOOLEAN /\ raced \in BOOLEAN /\ freedHeld \in BOOLEAN
          /\ used \subseteq Buffers /\ held \subseteq Buffers /\ filled \subseteq Buffers /\ pop \subseteq {"in", "out"}
      BY <1>1
    <2>5. stage_ \in 0 .. 3 /\ sem_bufempty_ \in 0 .. 3 /\ inputs \in 0 .. 3 /\ config \in 0 .. 6
      BY <1>1
    <2>4. /\ omx \in {"loaded", "idle", "exec"}
          /\ doing \in {None, "idle", "exec", "disable", "enable", "flush", "loaded"}
      BY <1>1
    <2> QED
      BY <1>1, <2>1, <2>2, <2>3, <2>4, <2>5 DEF SetupTypeOK
  <1>5. InTurn /\ FreesOwn
    BY <1>1 DEF InTurn, FreesOwn
  <1>6. NoCommand(inbox) /\ NoFill(inbox) /\ FillsRight(inbox, {}, {}) /\ \A A : FedOnly(inbox, A)
    BY <1>1 DEF NoCommand, NoFill, FillsRight, FedOnly
  <1>7. Fed(inbox) = 0
    <2>1. Empties(inbox) = {}
      BY <1>1 DEF Empties
    <2> QED
      BY <2>1, FS_EmptySet DEF Fed
  <1>8. InputsRight /\ SettingsRight /\ OutputsRight /\ StagesRight
    BY <1>1, <1>3, <1>6, <1>7 DEF InputsRight, InputsOut, SettingsRight, OutputsRight, StagesRight
  <1>9. PlacesRight
    BY <1>1, <1>3, <1>6 DEF PlacesRight, BeginPlace, DisablePlace, EnablePlace,
      WarmPlace, DownPlace, Still, UnderWay, Open, Sent, Doing, Quiet, Enabling, None
  <1> QED
    BY <1>4, <1>5, <1>8, <1>9 DEF SetupInv, SetupSound

\* Nor does it break when nothing changes.
LEMMA SetupStutters ==
    ASSUME SetupInv, UNCHANGED setupVars
    PROVE  SetupInv'
  <1>1. /\ program' = program /\ keeps' = keeps /\ pc' = pc /\ exited' = exited
        /\ Script' = Script /\ DownAt' = DownAt
    BY SameScript DEF setupVars, program_
  <1>2. UNCHANGED <<stage_, icur_, used, pop, sem_command_, sem_bufempty_, inbox, held, inputs, config, omx,
                    doing, filled, pictures, crossed, raced, freedHeld>>
    BY DEF setupVars, component, history
  <1>3. SetupSound'
    BY <1>1, <1>2 DEF SetupInv, SetupSound, SetupTypeOK, InTurn, FreesOwn
  <1>4. ASSUME ~exited
        PROVE  InputsRight' /\ SettingsRight' /\ OutputsRight' /\ StagesRight'
    BY <1>1, <1>2, <1>4 DEF SetupInv, InputsRight, InputsOut, SettingsRight, OutputsRight, StagesRight
  <1>5. ASSUME ~exited
        PROVE  PlacesRight'
    BY <1>1, <1>2, <1>5 DEF SetupInv, PlacesRight, BeginPlace, DisablePlace, EnablePlace,
      WarmPlace, DownPlace, Still, UnderWay, Open, Sent, Doing, Quiet, Enabling, None
  <1> QED
    BY <1>1, <1>3, <1>4, <1>5 DEF SetupInv

\* Every step keeps the invariant.
LEMMA SetupSteps ==
    ASSUME SetupInv, SetupNext
    PROVE  SetupInv'
  <1>1. CASE Caller
    BY <1>1, SendInv, WaitInv, CheckInv, ReinitInv, DeinitInv, FillInv, EmptyInv, SetStageInv, DrainInv,
       WaitEmptyInv, PollInv DEF Caller
  <1>2. CASE Component
    BY <1>2, ReadInv, CompleteInv, SettingsInv, InputDoneInv, Return0Inv, PictureInv, PictureDoneInv
       DEF Component
  <1> QED
    BY <1>1, <1>2 DEF SetupNext

SetupSpec == SetupInit /\ [][SetupNext]_setupVars

\* For any number of output buffers and pictures: every wait of setup() and teardown() ends
\* by the event it is for, and the component refuses nothing, unless all output buffers came
\* back before setup() counted them; and no buffer is freed that the component has or gets.
THEOREM SetupsSound == SetupSpec => []SetupSound
  <1>1. SetupInit => SetupInv
    BY SetupStarts
  <1>2. SetupInv /\ [SetupNext]_setupVars => SetupInv'
    BY SetupSteps, SetupStutters
  <1>3. SetupInv => SetupSound
    BY DEF SetupInv
  <1> QED
    BY <1>1, <1>2, <1>3, PTL DEF SetupSpec
=============================================================================
