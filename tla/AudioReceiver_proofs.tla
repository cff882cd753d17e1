------------------------ MODULE AudioReceiver_proofs ------------------------
(***************************************************************************)
(* What holds of AudioReceiver for any number of frames, whenever the user *)
(* asks to stop.                                                           *)
(***************************************************************************)
EXTENDS AudioReceiver, SequenceTheorems, TLAPS

(* The queue and what has left it, as sequences of numbers.                *)

(* Moving the front of one sequence to the end of another does not change  *)
(* their concatenation.                                                    *)
LEMMA MoveFront ==
    ASSUME NEW s \in Seq(Nat), NEW q \in Seq(Nat), q # <<>>
    PROVE  /\ Append(s, Head(q)) \o Tail(q) = s \o q
           /\ Append(s, Head(q)) \in Seq(Nat) /\ Tail(q) \in Seq(Nat)
           /\ Len(Append(s, Head(q))) = Len(s) + 1
<1>1. Head(q) \in Nat /\ Tail(q) \in Seq(Nat) /\ Head(q) = q[1] /\ Len(q) \in Nat \ {0}
  BY HeadTailProperties, EmptySeq
<1>2. <<q[1]>> \in Seq(Nat)
  BY <1>1
<1>3. q = <<q[1]>> \o Tail(q)
  <2>1. SubSeq(q, 1, Len(q)) = <<q[1]>> \o SubSeq(q, 2, Len(q))
    <3>1. 1 \in 1 .. Len(q) /\ Len(q) \in 1 .. Len(q) /\ 1 + 1 = 2
      BY <1>1
    <3>2. QED
      BY <3>1, SubSeqRecursiveFirst
  <2>2. QED
    BY <2>1, SubSeqFull, TailIsSubSeq
<1>4. Append(s, Head(q)) = s \o <<q[1]>>
  BY <1>1, AppendIsConcat
<1>5. (s \o <<q[1]>>) \o Tail(q) = s \o (<<q[1]>> \o Tail(q))
  BY <1>1, <1>2, ConcatAssociative
<1>6. Append(s, Head(q)) \in Seq(Nat) /\ Len(Append(s, Head(q))) = Len(s) + 1
  BY <1>1, AppendProperties
<1>7. QED
  BY <1>1, <1>3, <1>4, <1>5, <1>6

(* Appending to the second of two sequences appends to both together. *)
LEMMA AppendBoth ==
    ASSUME NEW s \in Seq(Nat), NEW q \in Seq(Nat), NEW e \in Nat
    PROVE  s \o Append(q, e) = Append(s \o q, e)
<1>1. <<e>> \in Seq(Nat) /\ s \o q \in Seq(Nat)
  BY ConcatProperties
<1>2. Append(q, e) = q \o <<e>> /\ Append(s \o q, e) = (s \o q) \o <<e>>
  BY <1>1, AppendIsConcat
<1>3. (s \o q) \o <<e>> = s \o (q \o <<e>>)
  BY <1>1, ConcatAssociative
<1>4. QED
  BY <1>2, <1>3

(* Appending a greater number to an increasing sequence. *)
LEMMA AppendGreater ==
    ASSUME NEW s \in Seq(Nat), NEW e \in Nat,
           \A i, j \in 1 .. Len(s) : i < j => s[i] < s[j],
           \A i \in 1 .. Len(s) : s[i] < e
    PROVE  /\ \A i, j \in 1 .. Len(Append(s, e)) : i < j => Append(s, e)[i] < Append(s, e)[j]
           /\ \A i \in 1 .. Len(Append(s, e)) : Append(s, e)[i] <= e
<1> DEFINE a == Append(s, e)
<1>0. Len(s) \in Nat
  BY LenProperties
<1>1. /\ Len(a) = Len(s) + 1 /\ a[Len(s) + 1] = e
      /\ \A i \in 1 .. Len(s) : a[i] = s[i]
  BY AppendProperties
<1>2. \A i \in 1 .. Len(s) : s[i] \in Nat
  BY ElementOfSeq
<1> HIDE DEF a
<1>3. ASSUME NEW i \in 1 .. Len(a) PROVE a[i] <= e
  <2>1. i \in 1 .. Len(s) \/ i = Len(s) + 1
    BY <1>0, <1>1
  <2>2. QED
    BY <1>1, <1>2, <2>1
<1>4. ASSUME NEW i \in 1 .. Len(a), NEW j \in 1 .. Len(a), i < j PROVE a[i] < a[j]
  <2>1. i \in 1 .. Len(s) /\ (j \in 1 .. Len(s) \/ j = Len(s) + 1)
    BY <1>0, <1>1, <1>4
  <2>2. QED
    BY <1>1, <1>4, <2>1
<1>5. QED
  BY <1>3, <1>4 DEF a

-----------------------------------------------------------------------------
(* The frame the audio thread may still queue without looking at           *)
(* stopSignal again.                                                       *)
Committed == IF apc \in {"pull", "decode"} THEN 1 ELSE 0

(* What needs no argument. *)
Flags ==
    /\ program \in {"testReceiver", "testDecoder"}
    /\ playing \in BOOLEAN /\ stopSignal \in BOOLEAN /\ key \in BOOLEAN
    /\ apc \in {"test", "pull", "decode", "cleanup", "done"}
    /\ mpc \in {"loop", "join", "finished"}

(* The frames queued so far are those played and those still to be played; *)
(* they are increasing, and the frame the thread has pulled is newer.      *)
Frames ==
    /\ arrived \in 0 .. MaxFrames /\ pulled \in 0 .. arrived
    /\ played \in Seq(Nat) /\ playbackQueue \in Seq(Nat) /\ queued \in Seq(Nat)
    /\ played \o playbackQueue = queued
    /\ \A i, j \in 1 .. Len(queued) : i < j => queued[i] < queued[j]
    /\ \A i \in 1 .. Len(queued) : queued[i] <= pulled
    /\ apc = "decode" => \A i \in 1 .. Len(queued) : queued[i] < pulled

(* After the stop only the committed frame can come. *)
Stop ==
    /\ atStop \in 0 .. Len(queued)
    /\ stopSignal => Len(queued) + Committed <= atStop + 1

Inv == Flags /\ Frames /\ Stop

-----------------------------------------------------------------------------

LEMMA InitInv == Init => Inv
<1> SUFFICES ASSUME Init PROVE Inv
  OBVIOUS
<1>1. played \in Seq(Nat) /\ playbackQueue \in Seq(Nat) /\ queued \in Seq(Nat)
  BY EmptySeq DEF Init
<1>2. played \o playbackQueue = queued /\ Len(queued) = 0
  BY <1>1, ConcatEmptySeq, EmptySeq DEF Init
<1>3. Flags
  BY DEF Init, Flags
<1>4. Frames
  BY <1>1, <1>2, ReceiverAssumption DEF Init, Frames
<1>5. Stop
  BY <1>2 DEF Init, Stop
<1>6. QED
  BY <1>3, <1>4, <1>5 DEF Inv

LEMMA FlagsStep == Flags /\ [Next]_vars => Flags'
<1> SUFFICES ASSUME Flags, [Next]_vars PROVE Flags'
  OBVIOUS
<1> USE DEF Flags, audioVars, mainVars
<1>1. CASE Arrive \/ Play
  BY <1>1 DEF Arrive, Play
<1>2. CASE Audio
  BY <1>2 DEF Audio, Test, Pull, Decode
<1>0. CASE Cleanup
  BY <1>0 DEF Cleanup
<1>3. CASE PressKey
  BY <1>3 DEF PressKey
<1>4. CASE VideoFrame
  BY <1>4 DEF VideoFrame, SetStop
<1>5. CASE LeaveVideo
  BY <1>5 DEF LeaveVideo
<1>6. CASE Enter
  BY <1>6 DEF Enter, SetStop
<1>7. CASE Join
  BY <1>7 DEF Join
<1>8. CASE UNCHANGED vars
  BY <1>8 DEF vars
<1>9. QED
  BY <1>0, <1>1, <1>2, <1>3, <1>4, <1>5, <1>6, <1>7, <1>8 DEF Next, Main

LEMMA FramesStep == Frames /\ [Next]_vars => Frames'
<1> SUFFICES ASSUME Frames, [Next]_vars PROVE Frames'
  OBVIOUS
<1> USE ReceiverAssumption DEF Frames, audioVars, mainVars
<1>1. Len(queued) \in Nat /\ pulled \in Nat
  BY LenProperties
<1>2. CASE UNCHANGED <<arrived, pulled, played, playbackQueue, queued>> /\ (apc' = "decode" => apc = "decode")
  BY <1>2
<1>3. CASE Arrive
  BY <1>3 DEF Arrive
<1>4. CASE Play
  <2>1. /\ played' \o playbackQueue' = played \o playbackQueue
        /\ played' \in Seq(Nat) /\ playbackQueue' \in Seq(Nat)
    BY <1>4, MoveFront DEF Play
  <2>2. QED
    BY <1>4, <2>1 DEF Play
<1>5. CASE Pull
  BY <1>1, <1>5 DEF Pull
<1>6. CASE Decode /\ queued' = Append(queued, pulled) /\ playbackQueue' = Append(playbackQueue, pulled)
  <2>1. /\ queued' \in Seq(Nat) /\ playbackQueue' \in Seq(Nat)
        /\ Len(queued') = Len(queued) + 1
        /\ \A i \in 1 .. Len(queued) : queued'[i] = queued[i]
        /\ queued'[Len(queued) + 1] = pulled
    BY <1>1, <1>6, AppendProperties
  <2>2. played \o playbackQueue' = queued'
    BY <1>1, <1>6, AppendBoth
  <2>3. \A i \in 1 .. Len(queued) : queued[i] < pulled
    BY <1>6 DEF Decode
  <2>4. /\ \A i \in 1 .. Len(queued') : queued'[i] <= pulled
        /\ \A i, j \in 1 .. Len(queued') : i < j => queued'[i] < queued'[j]
    BY <1>1, <1>6, <2>3, AppendGreater
  <2>6. arrived' = arrived /\ pulled' = pulled /\ played' = played /\ apc' = "test"
    BY <1>6 DEF Decode
  <2>7. QED
    BY <2>1, <2>2, <2>4, <2>6
<1>7. CASE Test \/ Cleanup
  BY <1>2, <1>7 DEF Test, Cleanup
<1>8. CASE Decode /\ UNCHANGED <<queued, playbackQueue>>
  BY <1>2, <1>8 DEF Decode
<1>9. CASE PressKey \/ VideoFrame \/ Main
  BY <1>2, <1>9 DEF PressKey, VideoFrame, Main, LeaveVideo, Enter, Join
<1>10. CASE UNCHANGED vars
  BY <1>2, <1>10 DEF vars
<1>11. Decode => \/ UNCHANGED <<queued, playbackQueue>>
                 \/ queued' = Append(queued, pulled) /\ playbackQueue' = Append(playbackQueue, pulled)
  BY DEF Decode
<1>12. QED
  BY <1>3, <1>4, <1>5, <1>6, <1>7, <1>8, <1>9, <1>10, <1>11 DEF Next, Audio

LEMMA StopStep == Inv /\ [Next]_vars => Stop'
<1> SUFFICES ASSUME Inv, [Next]_vars PROVE Stop'
  OBVIOUS
<1> USE DEF Stop, Committed, audioVars, mainVars
<1>1. Len(queued) \in Nat
  BY LenProperties DEF Inv, Frames
<1>2. CASE UNCHANGED <<queued, stopSignal, atStop>> /\ Committed' <= Committed
  BY <1>1, <1>2 DEF Inv
<1>3. CASE Decode /\ queued' = Append(queued, pulled)
  <2>1. Len(queued') = Len(queued) + 1
    BY <1>3, AppendProperties DEF Inv, Frames
  <2>2. Committed = 1 /\ Committed' = 0 /\ UNCHANGED <<stopSignal, atStop>>
    BY <1>3 DEF Decode
  <2>3. QED
    BY <1>1, <2>1, <2>2 DEF Inv
<1>4. CASE Decode /\ UNCHANGED queued
  BY <1>2, <1>4 DEF Decode
<1>5. CASE Test
  BY <1>1, <1>5 DEF Test, Inv
<1>6. CASE Pull \/ Cleanup
  BY <1>2, <1>6 DEF Pull, Cleanup
<1>7. CASE VideoFrame \/ Enter
  <2>1. queued' = queued /\ atStop' = Len(queued) /\ apc' = apc
    BY <1>7 DEF VideoFrame, Enter, SetStop
  <2>2. QED
    BY <1>1, <2>1
<1>8. CASE Arrive \/ Play \/ PressKey \/ LeaveVideo \/ Join \/ UNCHANGED vars
  BY <1>2, <1>8 DEF Arrive, Play, PressKey, LeaveVideo, Join, vars
<1>9. Decode => UNCHANGED queued \/ queued' = Append(queued, pulled)
  BY DEF Decode
<1>10. QED
  BY <1>3, <1>4, <1>5, <1>6, <1>7, <1>8, <1>9 DEF Next, Audio, Main

LEMMA StepInv == Inv /\ [Next]_vars => Inv'
  BY FlagsStep, FramesStep, StopStep DEF Inv

(* The decoded frames are played once and in order, for any number of      *)
(* frames.                                                                 *)
THEOREM FramesInOrder == Spec => []TypeOK
<1>1. Inv => TypeOK
  BY DEF Inv, Flags, Frames, Stop, TypeOK
<1>2. QED
  BY <1>1, InitInv, StepInv, PTL DEF Spec

(* At most one frame is queued after the stop, however many there are. *)
THEOREM OneMoreFrame == Spec => []OneFrameAfterStop
<1>1. Inv => OneFrameAfterStop
  <2> SUFFICES ASSUME Inv, stopSignal PROVE Len(queued) <= atStop + 1
    BY DEF OneFrameAfterStop
  <2>1. Len(queued) \in Nat /\ Committed \in {0, 1}
    BY LenProperties DEF Inv, Frames, Committed
  <2>2. QED
    BY <2>1 DEF Inv, Stop
<1>2. QED
  BY <1>1, InitInv, StepInv, PTL DEF Spec
=============================================================================
