------------------------- MODULE AudioSender_proofs -------------------------
(***************************************************************************)
(* What holds of AudioSender however many buffers the device delivers and  *)
(* whenever Enter is pressed.                                              *)
(***************************************************************************)
EXTENDS AudioSender, SequenceTheorems, TLAPS

(* The queue and what has left it, as sequences of numbers.                *)

(* Moving the front of one sequence to the end of another does not change  *)
(* their concatenation.                                                    *)
LEMMA MoveFront ==
    ASSUME NEW s \in Seq(Nat), NEW q \in Seq(Nat), q # <<>>
    PROVE  /\ Append(s, Head(q)) \o Tail(q) = s \o q
           /\ Append(s, Head(q)) \in Seq(Nat) /\ Tail(q) \in Seq(Nat)
           /\ Len(Append(s, Head(q))) = Len(s) + 1
<1>1. Head(q) \in Nat /\ Tail(q) \in Seq(Nat) /\ Head(q) = q[1] /\ Len(q) \in Nat \ {0}
  BY HeadTailProperties, EmptySeq
<1>2. <<q[1]>> \in Seq(Nat)
  BY <1>1
<1>3. q = <<q[1]>> \o Tail(q)
  <2>1. SubSeq(q, 1, Len(q)) = <<q[1]>> \o SubSeq(q, 2, Len(q))
    <3>1. 1 \in 1 .. Len(q) /\ Len(q) \in 1 .. Len(q) /\ 1 + 1 = 2
      BY <1>1
    <3>2. QED
      BY <3>1, SubSeqRecursiveFirst
  <2>2. QED
    BY <2>1, SubSeqFull, TailIsSubSeq
<1>4. Append(s, Head(q)) = s \o <<q[1]>>
  BY <1>1, AppendIsConcat
<1>5. (s \o <<q[1]>>) \o Tail(q) = s \o (<<q[1]>> \o Tail(q))
  BY <1>1, <1>2, ConcatAssociative
<1>6. Append(s, Head(q)) \in Seq(Nat) /\ Len(Append(s, Head(q))) = Len(s) + 1
  BY <1>1, AppendProperties
<1>7. QED
  BY <1>1, <1>3, <1>4, <1>5, <1>6

(* Appending to the second of two sequences appends to both together. *)
LEMMA AppendBoth ==
    ASSUME NEW s \in Seq(Nat), NEW q \in Seq(Nat), NEW e \in Nat
    PROVE  s \o Append(q, e) = Append(s \o q, e)
<1>1. <<e>> \in Seq(Nat) /\ s \o q \in Seq(Nat)
  BY ConcatProperties
<1>2. Append(q, e) = q \o <<e>> /\ Append(s \o q, e) = (s \o q) \o <<e>>
  BY <1>1, AppendIsConcat
<1>3. (s \o q) \o <<e>> = s \o (q \o <<e>>)
  BY <1>1, ConcatAssociative
<1>4. QED
  BY <1>2, <1>3

LEMMA ConcatLen ==
    ASSUME NEW s \in Seq(Nat), NEW q \in Seq(Nat)
    PROVE  s \o q \in Seq(Nat) /\ Len(s \o q) = Len(s) + Len(q)
  BY ConcatProperties, Zenon

(* The first n numbers, and appending the next one. *)
Counted(n) == [i \in 1 .. n |-> i]

LEMMA CountOn ==
    ASSUME NEW s \in Seq(Nat), NEW q \in Seq(Nat), NEW n \in Nat,
           s \o q = Counted(n)
    PROVE  /\ s \o Append(q, n + 1) = Counted(n + 1)
           /\ Append(q, n + 1) \in Seq(Nat)
           /\ Len(s) + Len(q) = n
<1> DEFINE c == s \o q
           d == Append(c, n + 1)
           b == Counted(n + 1)
<1>1. c \in Seq(Nat) /\ Len(c) = n /\ \A i \in 1 .. n : c[i] = i
  BY ConcatLen DEF Counted
<1> HIDE DEF c
<1>2. /\ n + 1 \in Nat
      /\ d \in Seq(Nat) /\ Len(d) = n + 1 /\ d[n + 1] = n + 1
      /\ \A i \in 1 .. n : d[i] = c[i]
  BY <1>1, AppendProperties
<1>3. b \in Seq(Nat) /\ Len(b) = n + 1 /\ \A i \in 1 .. n + 1 : b[i] = i
  BY DEF Counted
<1> HIDE DEF b, d
<1>4. \A i \in 1 .. n + 1 : d[i] = b[i]
  <2> SUFFICES ASSUME NEW i \in 1 .. n + 1 PROVE d[i] = i
    BY <1>3
  <2>1. i \in 1 .. n \/ i = n + 1
    OBVIOUS
  <2>2. QED
    BY <1>1, <1>2, <2>1
<1>5. d = b
  BY <1>2, <1>3, <1>4, SeqEqual
<1>6. s \o Append(q, n + 1) = d
  BY <1>2, AppendBoth DEF c, d
<1>7. Append(q, n + 1) \in Seq(Nat) /\ Len(s) + Len(q) = n
  BY <1>1, <1>2, AppendProperties, ConcatLen DEF c
<1>8. QED
  BY <1>5, <1>6, <1>7 DEF b

-----------------------------------------------------------------------------
(* The two sequences have a type of their own; the thread encodes only     *)
(* what it has seen in the queue, which nobody else takes from; stopSignal *)
(* is set once, by main(), before the thread can end.                      *)
Inv ==
    /\ TypeOK
    /\ sent \in Seq(Nat) /\ sampleQueue \in Seq(Nat)
    /\ apc = "encode" => sampleQueue # <<>>
    /\ stopSignal <=> mpc # "enter"
    /\ apc \in {"cleanup", "done"} => stopSignal /\ Len(sent) >= atStop

-----------------------------------------------------------------------------

LEMMA InitInv == Init => Inv
<1> SUFFICES ASSUME Init PROVE Inv
  OBVIOUS
<1>1. sent \o sampleQueue = [i \in 1 .. recorded |-> i]
  BY DEF Init
<1>2. TypeOK
  <2>1. program \in {"testSender", "testEncoder"} /\ vpc \in {"run", "done"}
    BY DEF Init
  <2>2. recording \in BOOLEAN /\ stopSignal \in BOOLEAN /\ notified \in BOOLEAN
    BY DEF Init
  <2>3. recorded \in 0 .. MaxSamples /\ atStop \in 0 .. recorded
    BY SenderAssumption DEF Init
  <2>4. QED
    BY <1>1, <2>1, <2>2, <2>3 DEF Init, TypeOK
<1>3. QED
  BY <1>2, EmptySeq DEF Init, Inv

LEMMA StepInv == Inv /\ [Next]_vars => Inv'
<1> SUFFICES ASSUME Inv, [Next]_vars PROVE Inv'
  OBVIOUS
<1> USE SenderAssumption DEF Inv, TypeOK
<1>1. CASE Record
  <2>1. /\ sampleQueue' = Append(sampleQueue, recorded + 1) /\ recorded' = recorded + 1
        /\ sent' = sent /\ recorded < MaxSamples
    BY <1>1 DEF Record
  <2>2. sent \o sampleQueue' = [i \in 1 .. recorded + 1 |-> i] /\ sampleQueue' \in Seq(Nat)
    <3>1. recorded \in Nat /\ sent \o sampleQueue = Counted(recorded)
      BY DEF Counted
    <3>2. /\ sent \o Append(sampleQueue, recorded + 1) = Counted(recorded + 1)
          /\ Append(sampleQueue, recorded + 1) \in Seq(Nat)
      BY <3>1, CountOn
    <3>3. QED
      BY <2>1, <3>2 DEF Counted
  <2>3. sampleQueue' # <<>>
    BY <2>1
  <2>4. recorded' \in 0 .. MaxSamples /\ atStop' \in 0 .. recorded'
    BY <1>1, <2>1 DEF Record
  <2>5. notified' \in BOOLEAN
    BY <1>1 DEF Record, Notify
  <2>6. QED
    BY <1>1, <2>1, <2>2, <2>3, <2>4, <2>5 DEF Record
<1>2. CASE Test
  <2>1. sampleQueue = <<>> => Len(sent) = recorded
    <3>1. recorded \in Nat /\ sent \o sampleQueue = Counted(recorded)
      BY DEF Counted
    <3>2. Len(sent) + Len(sampleQueue) = recorded /\ Len(sent) \in Nat
      BY <3>1, CountOn, LenProperties
    <3>3. QED
      BY <3>2
  <2>2. QED
    BY <1>2, <2>1 DEF Test
<1>3. CASE Encode
  <2>1. /\ sent' \o sampleQueue' = sent \o sampleQueue
        /\ sent' \in Seq(Nat) /\ sampleQueue' \in Seq(Nat)
    BY <1>3, MoveFront DEF Encode
  <2>2. QED
    BY <1>3, <2>1 DEF Encode
<1>4. CASE Lock \/ Cleanup
  BY <1>4 DEF Lock, Cleanup
<1>11. CASE Block \/ Wake \/ SpuriousWake
  <2>1. notified' \in BOOLEAN
    BY <1>11 DEF Block, Wake, SpuriousWake
  <2>2. /\ apc' \in {"wait", "test"}
        /\ UNCHANGED <<program, recording, recorded, sampleQueue, sent, stopSignal, vpc, mpc, atStop>>
    BY <1>11 DEF Block, Wake, SpuriousWake
  <2>3. QED
    BY <2>1, <2>2
<1>5. CASE VideoEnds
  BY <1>5 DEF VideoEnds
<1>6. CASE Enter
  BY <1>6 DEF Enter
<1>7. CASE NotifyStop
  BY <1>7 DEF NotifyStop, Notify
<1>8. CASE JoinAudio \/ StopStream \/ JoinVideo \/ JoinAgain
  BY <1>8 DEF JoinAudio, StopStream, JoinVideo, JoinAgain
<1>9. CASE UNCHANGED vars
  BY <1>9 DEF vars
<1>10. QED
  BY <1>1, <1>2, <1>3, <1>4, <1>5, <1>6, <1>7, <1>8, <1>9, <1>11 DEF Next, Audio, Main

(* No buffer is lost, repeated or reordered between the device's callback  *)
(* and the stream, for any number of buffers.                              *)
THEOREM BuffersInOrder == Spec => []TypeOK
<1>1. Inv => TypeOK
  BY DEF Inv
<1>2. QED
  BY <1>1, InitInv, StepInv, PTL DEF Spec

(* The audio thread ends only when all that was recorded before Enter has  *)
(* been sent.                                                              *)
THEOREM DrainsBeforeExit == Spec => []DrainedBeforeExit
<1>1. Inv => DrainedBeforeExit
  BY DEF Inv, DrainedBeforeExit
<1>2. QED
  BY <1>1, InitInv, StepInv, PTL DEF Spec
=============================================================================
