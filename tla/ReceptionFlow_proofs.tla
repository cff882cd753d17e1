------------------------ MODULE ReceptionFlow_proofs ------------------------
(***************************************************************************)
(* Theorems about ReceptionFlow, for every ring size, number of packets,   *)
(* set of pullers, and number of restarts and socket faults.               *)
(***************************************************************************)
EXTENDS ReceptionFlow, TLAPS

(* next_buffer_location() stays inside the ring, from the invalid first    *)
(* index -1 too.                                                           *)
LEMMA NextLocationType ==
    ASSUME NEW i \in -1 .. RingSize - 1
    PROVE  NextLocation(i) \in Slots
  BY FlowAssumption DEF NextLocation, Slots

(* Appending to a sequence and taking it apart stay inside its element set. *)
LEMMA AppendType ==
    ASSUME NEW S, NEW s \in Seq(S), NEW e \in S
    PROVE  Append(s, e) \in Seq(S)
  OBVIOUS

LEMMA HeadTailType ==
    ASSUME NEW S, NEW s \in Seq(S), s # <<>>
    PROVE  Head(s) \in S /\ Tail(s) \in Seq(S)
  OBVIOUS

(* TypeOK is not inductive alone: while a packet is being handled the read *)
(* index is a slot, no longer the invalid first index -1.                  *)
TypeInv ==
    TypeOK /\ (ppc \in {"header", "payload", "clear"} => ring_read_index_ \in Slots)

(* Every step preserves the flags' types. *)
LEMMA FlagTypesStep ==
    ASSUME FlagTypes, [Next]_vars
    PROVE  FlagTypes'
<1> USE DEF FlagTypes, stopVars
<1>1. CASE Arrive \/ Start \/ StopRequest \/ Stopper
  BY <1>1 DEF Arrive, Start, StopRequest, Stopper, StopNotify, StopJoinReceiver,
              StopJoinProcessor, StopClear
<1>2. CASE Receiver \/ ReceiverFault
  BY <1>2 DEF Receiver, ReceiverExit, ReceiverPoll, ReceiverDrainStops, ReceiverCopy,
              ReceiverPublish, ReceiverDrained, ReceiverNotify,
              ReceiverFault, ReceiverPollFails, ReceiverRecvFails
<1>3. CASE Processor \/ SpuriousWakeup
  BY <1>3 DEF Processor, SpuriousWakeup, ProcessorCheck, ProcessorBlock, ProcessorWake,
              ProcessorAdvance, ProcessorScanned, ProcessorHeader, ProcessorInvalid,
              ProcessorPayload, ProcessorClear
<1>4. CASE \E u \in Pullers : Pull(u) \/ Puller(u)
  BY <1>4 DEF Pull, Puller, PullNothing, PullSees, PullTakes
<1>5. CASE UNCHANGED vars
  BY <1>5 DEF vars
<1>6. QED
  BY <1>1, <1>2, <1>3, <1>4, <1>5 DEF Next

(* Every step moves a thread to one of its own control points. *)
LEMMA ControlTypesStep ==
    ASSUME ControlTypes, [Next]_vars
    PROVE  ControlTypes'
<1> USE FlowAssumption DEF ControlTypes, stopVars
<1>1. CASE Arrive \/ Start \/ StopRequest \/ Stopper
  BY <1>1 DEF Arrive, Start, StopRequest, Stopper, StopNotify, StopJoinReceiver,
              StopJoinProcessor, StopClear, NotifyProcessor
<1>2. CASE Receiver \/ ReceiverFault
  BY <1>2 DEF Receiver, ReceiverExit, ReceiverPoll, ReceiverDrainStops, ReceiverCopy,
              ReceiverPublish, ReceiverDrained, ReceiverNotify, NotifyProcessor,
              ReceiverFault, ReceiverPollFails, ReceiverRecvFails
<1>3. CASE Processor \/ SpuriousWakeup
  BY <1>3 DEF Processor, SpuriousWakeup, ProcessorCheck, ProcessorBlock, ProcessorWake,
              ProcessorAdvance, ProcessorScanned, ProcessorHeader, ProcessorInvalid,
              ProcessorPayload, ProcessorClear
<1>4. CASE \E u \in Pullers : Pull(u) \/ Puller(u)
  BY <1>4 DEF Pull, Puller, PullNothing, PullSees, PullTakes
<1>5. CASE UNCHANGED vars
  BY <1>5 DEF vars
<1>6. QED
  BY <1>1, <1>2, <1>3, <1>4, <1>5 DEF Next

(* Every step keeps the indices, the slots and the last header in range. *)
LEMMA RingTypesStep ==
    ASSUME TypeInv, [Next]_vars
    PROVE  RingTypes'
<1>0. RingTypes
  BY DEF TypeInv, TypeOK
<1> USE <1>0, FlowAssumption DEF RingTypes, ringVars, sockVars
<1>1. WriteSlot \in Slots
  BY NextLocationType DEF WriteSlot
<1>2. CASE Arrive
  BY <1>2 DEF Arrive
<1>3. CASE ReceiverCopy
  <2>1. taken + 1 \in 0 .. MaxPackets /\ taken' \in 0 .. arrived'
    BY <1>3 DEF ReceiverCopy
  <2>2. data' \in [Slots -> 0 .. MaxPackets]
    BY <1>3, <2>1 DEF ReceiverCopy
  <2>3. QED
    BY <1>3, <2>1, <2>2 DEF ReceiverCopy
<1>4. CASE ReceiverPublish
  <2>1. read' \in [Slots -> BOOLEAN]
    BY <1>4 DEF ReceiverPublish
  <2>2. last_ring_write_index_' \in -1 .. RingSize - 1
    BY <1>4, <1>1 DEF ReceiverPublish, Slots
  <2>3. QED
    BY <1>4, <2>1, <2>2 DEF ReceiverPublish
<1>5. CASE ReceiverDrained \/ ReceiverFault
  <2>1. read' \in [Slots -> BOOLEAN]
    BY <1>5 DEF ReceiverDrained, ReceiverFault, ReceiverPollFails, ReceiverRecvFails
  <2>2. QED
    BY <1>5, <2>1 DEF ReceiverDrained, ReceiverFault, ReceiverPollFails, ReceiverRecvFails
<1>6. CASE ProcessorAdvance
  <2>1. ring_read_index_' \in -1 .. RingSize - 1
    BY <1>6, NextLocationType DEF ProcessorAdvance, Slots
  <2>2. QED
    BY <1>6, <2>1 DEF ProcessorAdvance
<1>7. CASE ProcessorHeader
  <2>1. hdr' \in 0 .. MaxPackets
    BY <1>7 DEF ProcessorHeader, TypeInv
  <2>2. QED
    BY <1>7, <2>1 DEF ProcessorHeader
<1>8. CASE ProcessorClear
  <2>1. read' \in [Slots -> BOOLEAN]
    BY <1>8 DEF ProcessorClear
  <2>2. QED
    BY <1>8, <2>1 DEF ProcessorClear
<1>9. CASE UNCHANGED <<ringVars, sockVars, hdr>>
  BY <1>9
<1>10. QED
  <2>1. CASE Start \/ StopRequest \/ Stopper
    BY <1>9, <2>1 DEF Start, StopRequest, Stopper, StopNotify, StopJoinReceiver,
                      StopJoinProcessor, StopClear
  <2>2. CASE ReceiverExit \/ ReceiverPoll \/ ReceiverDrainStops \/ ReceiverNotify
    BY <1>9, <2>2 DEF ReceiverExit, ReceiverPoll, ReceiverDrainStops, ReceiverNotify
  <2>3. CASE ProcessorCheck \/ ProcessorBlock \/ SpuriousWakeup \/ ProcessorWake
              \/ ProcessorScanned \/ ProcessorInvalid \/ ProcessorPayload
    BY <1>9, <2>3 DEF ProcessorCheck, ProcessorBlock, SpuriousWakeup, ProcessorWake,
                      ProcessorScanned, ProcessorInvalid, ProcessorPayload
  <2>4. CASE \E u \in Pullers : Pull(u) \/ Puller(u)
    BY <1>9, <2>4 DEF Pull, Puller, PullNothing, PullSees, PullTakes
  <2>5. CASE UNCHANGED vars
    BY <1>9, <2>5 DEF vars
  <2>6. QED
    BY <1>2, <1>3, <1>4, <1>5, <1>6, <1>7, <1>8, <2>1, <2>2, <2>3, <2>4, <2>5
       DEF Next, Receiver, Processor

(* Every step keeps the lists of frames well formed. *)
LEMMA FrameTypesStep ==
    ASSUME TypeInv, [Next]_vars
    PROVE  FrameTypes'
<1>0. FrameTypes
  BY DEF TypeInv, TypeOK
<1> USE <1>0 DEF FrameTypes, pullVars
<1>1. CASE StopClear
  BY <1>1 DEF StopClear
<1>2. CASE ProcessorPayload
  <2>1. [hdr |-> hdr, payload |-> data[ring_read_index_]] \in Frame
    BY <1>2 DEF ProcessorPayload, TypeInv, TypeOK, RingTypes, Frame
  <2>2. frames_' \in Seq(Frame)
    BY <1>2, <2>1, AppendType DEF ProcessorPayload
  <2>3. QED
    BY <1>2, <2>2 DEF ProcessorPayload
<1>3. CASE \E u \in Pullers : Pull(u) \/ Puller(u)
  <2> PICK u \in Pullers : Pull(u) \/ Puller(u)
    BY <1>3
  <2>1. upc' \in [Pullers -> {"idle", "spin", "lock"}]
    BY DEF Puller, Pull, PullNothing, PullSees, PullTakes
  <2>2. CASE PullTakes(u) /\ frames_ # <<>>
    <3>0. frames_ \in Seq(Frame) /\ got[u] \in Seq(Frame)
      OBVIOUS
    <3>1. Head(frames_) \in Frame /\ Tail(frames_) \in Seq(Frame)
      BY <2>2, <3>0, HeadTailType
    <3>2. Append(got[u], Head(frames_)) \in Seq(Frame)
      BY <3>0, <3>1, AppendType
    <3>3. QED
      BY <2>1, <2>2, <3>1, <3>2 DEF PullTakes
  <2>3. CASE UNCHANGED <<frames_, got>>
    BY <2>1, <2>3
  <2>4. QED
    BY <2>2, <2>3 DEF Puller, Pull, PullNothing, PullSees, PullTakes
<1>4. CASE UNCHANGED <<frames_, pullVars>>
  BY <1>4
<1>5. QED
  <2>1. CASE Arrive \/ Start \/ StopRequest \/ StopNotify \/ StopJoinReceiver \/ StopJoinProcessor
    BY <1>4, <2>1 DEF Arrive, Start, StopRequest, StopNotify, StopJoinReceiver, StopJoinProcessor
  <2>2. CASE Receiver \/ ReceiverFault
    BY <1>4, <2>2 DEF Receiver, ReceiverExit, ReceiverPoll, ReceiverDrainStops, ReceiverCopy,
                      ReceiverPublish, ReceiverDrained, ReceiverNotify,
                      ReceiverFault, ReceiverPollFails, ReceiverRecvFails
  <2>3. CASE ProcessorCheck \/ ProcessorBlock \/ SpuriousWakeup \/ ProcessorWake
              \/ ProcessorAdvance \/ ProcessorScanned \/ ProcessorHeader
              \/ ProcessorInvalid \/ ProcessorClear
    BY <1>4, <2>3 DEF ProcessorCheck, ProcessorBlock, SpuriousWakeup, ProcessorWake,
                      ProcessorAdvance, ProcessorScanned, ProcessorHeader,
                      ProcessorInvalid, ProcessorClear
  <2>4. CASE UNCHANGED vars
    BY <1>4, <2>4 DEF vars
  <2>5. QED
    BY <1>1, <1>2, <1>3, <2>1, <2>2, <2>3, <2>4 DEF Next, Stopper, Processor

(* While a packet is handled the read index is a slot. *)
LEMMA IndexInUse ==
    ASSUME TypeInv, [Next]_vars
    PROVE  (ppc \in {"header", "payload", "clear"} => ring_read_index_ \in Slots)'
<1> USE DEF TypeInv, ringVars
<1>1. CASE ProcessorAdvance
  BY <1>1, NextLocationType DEF ProcessorAdvance, TypeOK, RingTypes
<1>2. CASE Processor \/ SpuriousWakeup
  BY <1>1, <1>2 DEF Processor, SpuriousWakeup, ProcessorCheck, ProcessorBlock, ProcessorWake,
                    ProcessorScanned, ProcessorHeader, ProcessorInvalid,
                    ProcessorPayload, ProcessorClear
<1>3. CASE Arrive \/ Start \/ StopRequest \/ Stopper
  BY <1>3 DEF Arrive, Start, StopRequest, Stopper, StopNotify, StopJoinReceiver,
              StopJoinProcessor, StopClear, NotifyProcessor
<1>4. CASE Receiver \/ ReceiverFault
  BY <1>4 DEF Receiver, ReceiverExit, ReceiverPoll, ReceiverDrainStops, ReceiverCopy,
              ReceiverPublish, ReceiverDrained, ReceiverNotify, NotifyProcessor,
              ReceiverFault, ReceiverPollFails, ReceiverRecvFails
<1>5. CASE \E u \in Pullers : Pull(u) \/ Puller(u)
  BY <1>5 DEF Pull, Puller, PullNothing, PullSees, PullTakes
<1>6. CASE UNCHANGED vars
  BY <1>6 DEF vars
<1>7. QED
  BY <1>2, <1>3, <1>4, <1>5, <1>6 DEF Next

(* The flow starts well typed. *)
LEMMA InitTyped == Init => TypeInv
<1> SUFFICES ASSUME Init PROVE TypeInv
  OBVIOUS
<1>1. FlagTypes
  BY DEF Init, FlagTypes
<1>2. ControlTypes
  BY FlowAssumption DEF Init, ControlTypes
<1>3. RingTypes
  BY FlowAssumption DEF Init, RingTypes
<1>4. FrameTypes
  BY DEF Init, FrameTypes
<1>5. QED
  BY <1>1, <1>2, <1>3, <1>4 DEF TypeInv, TypeOK, Init

(* Every step keeps the flow well typed. *)
LEMMA TypeInvStep ==
    ASSUME TypeInv, [Next]_vars
    PROVE  TypeInv'
<1>1. TypeOK'
  BY FlagTypesStep, ControlTypesStep, RingTypesStep, FrameTypesStep DEF TypeInv, TypeOK
<1>2. QED
  BY <1>1, IndexInUse DEF TypeInv

(* Type correctness of the flow: in particular both ring indices always    *)
(* name a slot once the first packet has moved them.                       *)
THEOREM TypeCorrect == Spec => []TypeOK
<1>1. TypeInv => TypeOK
  BY DEF TypeInv
<1>2. QED
  BY <1>1, InitTyped, TypeInvStep, PTL DEF Spec

(* What the two joins of stop() establish, and what they leave to be       *)
(* established while it is under way.                                      *)
QuiescenceInv ==
    /\ ~active_ => rpc = "exit" /\ ppc = "exit" /\ frames_ = <<>>
    /\ cpc # "idle" => active_ /\ should_stop_
    /\ cpc \in {"joinProcessor", "clear"} => rpc = "exit"
    /\ cpc = "clear" => ppc = "exit"

(* The flow starts without threads. *)
LEMMA InitQuiescent == Init => QuiescenceInv
  BY DEF Init, QuiescenceInv

(* Every step keeps what the joins establish. *)
LEMMA QuiescenceStep ==
    ASSUME QuiescenceInv, [Next]_vars
    PROVE  QuiescenceInv'
<1> USE DEF QuiescenceInv, sockVars, ringVars, stopVars, pullVars
<1>1. CASE Arrive
  BY <1>1 DEF Arrive
<1>2. CASE Start
  BY <1>2 DEF Start
<1>3. CASE StopRequest
  BY <1>3 DEF StopRequest
<1>4. CASE StopNotify
  BY <1>4 DEF StopNotify, NotifyProcessor
<1>5. CASE StopJoinReceiver \/ StopJoinProcessor \/ StopClear
  BY <1>5 DEF StopJoinReceiver, StopJoinProcessor, StopClear
<1>6. CASE Receiver
  BY <1>6 DEF Receiver, ReceiverExit, ReceiverPoll, ReceiverDrainStops, ReceiverCopy,
              ReceiverPublish, ReceiverDrained, ReceiverNotify, NotifyProcessor
<1>7. CASE ReceiverFault
  BY <1>7 DEF ReceiverFault, ReceiverPollFails, ReceiverRecvFails
<1>8. CASE Processor \/ SpuriousWakeup
  BY <1>8 DEF Processor, SpuriousWakeup, ProcessorCheck, ProcessorBlock, ProcessorWake,
              ProcessorAdvance, ProcessorScanned, ProcessorHeader, ProcessorInvalid,
              ProcessorPayload, ProcessorClear
<1>9. CASE \E u \in Pullers : Pull(u) \/ Puller(u)
  <2>1. ~active_ => frames_' = <<>>
    BY <1>9 DEF Pull, Puller, PullNothing, PullSees, PullTakes
  <2>2. UNCHANGED <<stopVars, rpc, ppc>>
    BY <1>9 DEF Pull, Puller, PullNothing, PullSees, PullTakes
  <2>3. QED
    BY <2>1, <2>2
<1>10. CASE UNCHANGED vars
  BY <1>10 DEF vars
<1>11. QED
  BY <1>1, <1>2, <1>3, <1>4, <1>5, <1>6, <1>7, <1>8, <1>9, <1>10 DEF Next, Stopper

(* stop() does not return, and start() does not create new threads, before *)
(* the threads of the session have left their loops: an inactive flow has  *)
(* no running thread and holds no frame, so destroying it is safe.         *)
THEOREM StopIsQuiescent == Spec => []StoppedIsQuiescent
<1>1. QuiescenceInv => StoppedIsQuiescent
  BY DEF QuiescenceInv, StoppedIsQuiescent
<1>2. QED
  BY <1>1, InitQuiescent, QuiescenceStep, PTL DEF Spec

(* The flow's threads are there whenever it is active: they leave their    *)
(* loops for a stop() or a failing socket only, so that what reaches an    *)
(* active flow always has a receiver and a processor.                      *)
THEOREM ThreadsStay == Spec => []ThreadsOutliveTraffic
<1>1. Init => ThreadsOutliveTraffic
  BY DEF Init, ThreadsOutliveTraffic
<1>2. TypeInv /\ ThreadsOutliveTraffic /\ [Next]_vars => ThreadsOutliveTraffic'
  <2> SUFFICES ASSUME TypeInv, ThreadsOutliveTraffic, [Next]_vars
               PROVE  ThreadsOutliveTraffic'
    OBVIOUS
  <2> USE DEF ThreadsOutliveTraffic, sockVars, ringVars, stopVars, pullVars
  <2>1. CASE Arrive
    BY <2>1 DEF Arrive
  <2>2. CASE Start \/ StopRequest
    BY <2>2 DEF Start, StopRequest
  <2>3. CASE Stopper
    BY <2>3 DEF Stopper, StopNotify, NotifyProcessor, StopJoinReceiver, StopJoinProcessor, StopClear
  <2>4. CASE Receiver
    BY <2>4 DEF Receiver, ReceiverExit, ReceiverPoll, ReceiverDrainStops, ReceiverCopy,
                ReceiverPublish, ReceiverDrained, ReceiverNotify, NotifyProcessor
  <2>5. CASE ReceiverFault
    <3>1. faults' # 0
      BY <2>5 DEF ReceiverFault, ReceiverPollFails, ReceiverRecvFails,
                  TypeInv, TypeOK, ControlTypes
    <3>2. QED
      BY <3>1
  <2>6. CASE Processor \/ SpuriousWakeup
    BY <2>6 DEF Processor, SpuriousWakeup, ProcessorCheck, ProcessorBlock, ProcessorWake,
                ProcessorAdvance, ProcessorScanned, ProcessorHeader, ProcessorInvalid,
                ProcessorPayload, ProcessorClear
  <2>7. CASE \E u \in Pullers : Pull(u) \/ Puller(u)
    BY <2>7 DEF Pull, Puller, PullNothing, PullSees, PullTakes
  <2>8. CASE UNCHANGED vars
    BY <2>8 DEF vars
  <2>9. QED
    BY <2>1, <2>2, <2>3, <2>4, <2>5, <2>6, <2>7, <2>8 DEF Next
<1>3. QED
  BY <1>1, <1>2, InitTyped, TypeInvStep, PTL DEF Spec

-----------------------------------------------------------------------------
(* The ring as arithmetic: how far the write index w is ahead of the read  *)
(* index r.                                                                *)
Gap(r, w) == IF r = -1 THEN w + 1 ELSE (w - r) % RingSize

(* next_buffer_location() without the remainder. *)
LEMMA NextLocationValue ==
    ASSUME NEW i \in -1 .. RingSize - 1
    PROVE  NextLocation(i) = IF i = RingSize - 1 THEN 0 ELSE i + 1
  BY FlowAssumption DEF NextLocation

(* The gap without the remainder. *)
LEMMA GapValue ==
    ASSUME NEW r \in Slots, NEW w \in Slots
    PROVE  Gap(r, w) = IF r <= w THEN w - r ELSE w - r + RingSize
<1>1. \A a \in Int : -RingSize <= a /\ a < 0 => a % RingSize = a + RingSize
  BY FlowAssumption
<1>2. \A a \in Nat : a < RingSize => a % RingSize = a
  BY FlowAssumption
<1>3. QED
  BY <1>1, <1>2, FlowAssumption DEF Gap, Slots

(* Publishing a slot adds one to a gap that leaves the ring room for it,   *)
(* and the slot it publishes is not the one at the read index.             *)
LEMMA GapPublish ==
    ASSUME NEW r \in -1 .. RingSize - 1, NEW w \in -1 .. RingSize - 1,
           w = -1 => r = -1, Gap(r, w) + 2 <= RingSize
    PROVE  /\ Gap(r, NextLocation(w)) = Gap(r, w) + 1
           /\ NextLocation(w) # r
<1>1. CASE r = -1
  BY <1>1, NextLocationValue, FlowAssumption DEF Gap
<1>2. CASE r # -1
  <2>1. r \in Slots /\ w \in Slots /\ NextLocation(w) \in Slots
    BY <1>2, NextLocationType DEF Slots
  <2>2. Gap(r, w) = IF r <= w THEN w - r ELSE w - r + RingSize
    BY <2>1, GapValue
  <2>3. Gap(r, NextLocation(w)) = IF r <= NextLocation(w) THEN NextLocation(w) - r
                                  ELSE NextLocation(w) - r + RingSize
    BY <2>1, GapValue
  <2>4. NextLocation(w) = IF w = RingSize - 1 THEN 0 ELSE w + 1
    BY NextLocationValue
  <2>5. QED
    BY <2>1, <2>2, <2>3, <2>4, FlowAssumption DEF Slots
<1>3. QED
  BY <1>1, <1>2

(* Advancing the read index takes one from a gap that is not empty. *)
LEMMA GapAdvance ==
    ASSUME NEW r \in -1 .. RingSize - 1, NEW w \in -1 .. RingSize - 1,
           w = -1 => r = -1, r # w
    PROVE  Gap(NextLocation(r), w) = Gap(r, w) - 1
<1>1. w \in Slots /\ NextLocation(r) \in Slots
  BY NextLocationType DEF Slots
<1>2. Gap(NextLocation(r), w) = IF NextLocation(r) <= w THEN w - NextLocation(r)
                                ELSE w - NextLocation(r) + RingSize
  BY <1>1, GapValue
<1>3. CASE r = -1
  BY <1>1, <1>2, <1>3, NextLocationValue, FlowAssumption DEF Gap, Slots
<1>4. CASE r # -1
  <2>1. r \in Slots
    BY <1>4 DEF Slots
  <2>2. QED
    BY <1>1, <1>2, <2>1, GapValue, NextLocationValue, FlowAssumption DEF Slots
<1>5. QED
  BY <1>3, <1>4

(* A gap is a natural number. *)
LEMMA GapType ==
    ASSUME NEW r \in -1 .. RingSize - 1, NEW w \in -1 .. RingSize - 1, w = -1 => r = -1
    PROVE  Gap(r, w) \in Nat
<1>1. CASE r = -1
  BY <1>1 DEF Gap
<1>2. CASE r # -1
  <2>1. r \in Slots /\ w \in Slots
    BY <1>2 DEF Slots
  <2>2. QED
    BY <2>1, GapValue, FlowAssumption DEF Slots
<1>3. QED
  BY <1>1, <1>2

LEMMA UnreadIsGap == Unread = Gap(ring_read_index_, last_ring_write_index_)
  BY DEF Unread, Gap

(* The burst in flight never exceeds its bound, wherever its datagrams are.*)
BacklogInv ==
    /\ Backlog <= MaxBacklog
    /\ last_ring_write_index_ = -1 => ring_read_index_ = -1

(* Nothing is in flight before the first start(). *)
LEMMA InitBacklog == Init => BacklogInv
<1> SUFFICES ASSUME Init PROVE BacklogInv
  OBVIOUS
<1>1. Unread = 0 /\ arrived = 0 /\ taken = 0 /\ rpc # "publish" /\ ring_read_index_ = -1
  BY DEF Init, Unread
<1>2. QED
  BY <1>1, FlowAssumption DEF BacklogInv, Backlog

(* The terms of Backlog are numbers. *)
LEMMA BacklogTerms ==
    ASSUME TypeInv, BacklogInv
    PROVE  /\ Unread \in Nat
           /\ arrived \in Nat /\ taken \in Nat /\ MaxBacklog \in Nat
           /\ ring_read_index_ \in -1 .. RingSize - 1
           /\ last_ring_write_index_ \in -1 .. RingSize - 1
<1>1. /\ ring_read_index_ \in -1 .. RingSize - 1
      /\ last_ring_write_index_ \in -1 .. RingSize - 1
      /\ arrived \in Nat /\ taken \in Nat /\ MaxBacklog \in Nat
  BY FlowAssumption DEF TypeInv, TypeOK, RingTypes
<1>2. Unread \in Nat
  BY <1>1, GapType, UnreadIsGap DEF BacklogInv
<1>3. QED
  BY <1>1, <1>2

(* No step makes the burst in flight longer than its bound. *)
LEMMA BacklogStep ==
    ASSUME TypeInv, BacklogInv, [Next]_vars, MaxBacklog + 2 <= RingSize
    PROVE  BacklogInv'
<1> USE BacklogTerms
<1>1. CASE Arrive
  BY <1>1 DEF Arrive, BacklogInv, Backlog, Unread, ringVars
<1>2. CASE ReceiverCopy
  BY <1>2 DEF ReceiverCopy, BacklogInv, Backlog, Unread
<1>3. CASE ReceiverPublish /\ taken \notin EmptyPackets
  <2>1. Unread + 2 <= RingSize
    BY <1>3, FlowAssumption DEF ReceiverPublish, BacklogInv, Backlog, TypeInv, TypeOK, RingTypes
  <2>2. Unread' = Unread + 1
    BY <1>3, <2>1, GapPublish, UnreadIsGap DEF ReceiverPublish, WriteSlot, BacklogInv, Gap, Unread
  <2>3. last_ring_write_index_' # -1
    BY <1>3, NextLocationType DEF ReceiverPublish, WriteSlot, Slots
  <2>4. QED
    BY <1>3, <2>2, <2>3 DEF ReceiverPublish, BacklogInv, Backlog, sockVars
<1>4. CASE ProcessorAdvance
  <2>1. Unread' = Unread - 1
    BY <1>4, GapAdvance, UnreadIsGap DEF ProcessorAdvance, BacklogInv, Gap, Unread
  <2>2. last_ring_write_index_' # -1
    BY <1>4 DEF ProcessorAdvance, BacklogInv
  <2>3. QED
    BY <1>4, <2>1, <2>2 DEF ProcessorAdvance, BacklogInv, Backlog, sockVars
<1>5. CASE /\ UNCHANGED <<arrived, taken, ring_read_index_, last_ring_write_index_>>
           /\ rpc' = "publish" => rpc = "publish"
  BY <1>5 DEF BacklogInv, Backlog, Unread
<1>6. QED
  <2> USE DEF sockVars, ringVars
  <2>1. CASE Start \/ StopRequest \/ Stopper
    BY <1>5, <2>1 DEF Start, StopRequest, Stopper, StopNotify, StopJoinReceiver,
                      StopJoinProcessor, StopClear
  <2>2. CASE ReceiverExit \/ ReceiverPoll \/ ReceiverDrainStops \/ ReceiverDrained
             \/ ReceiverNotify \/ ReceiverFault
    BY <1>5, <2>2 DEF ReceiverExit, ReceiverPoll, ReceiverDrainStops, ReceiverDrained,
                      ReceiverNotify, ReceiverFault, ReceiverPollFails, ReceiverRecvFails
  <2>3. CASE ReceiverPublish /\ taken \in EmptyPackets
    BY <1>5, <2>3 DEF ReceiverPublish
  <2>4. CASE ProcessorCheck \/ ProcessorBlock \/ SpuriousWakeup \/ ProcessorWake
              \/ ProcessorScanned \/ ProcessorHeader \/ ProcessorInvalid
              \/ ProcessorPayload \/ ProcessorClear
    BY <1>5, <2>4 DEF ProcessorCheck, ProcessorBlock, SpuriousWakeup, ProcessorWake,
                      ProcessorScanned, ProcessorHeader, ProcessorInvalid,
                      ProcessorPayload, ProcessorClear
  <2>5. CASE \E u \in Pullers : Pull(u) \/ Puller(u)
    BY <1>5, <2>5 DEF Pull, Puller, PullNothing, PullSees, PullTakes
  <2>6. CASE UNCHANGED vars
    BY <1>5, <2>6 DEF vars
  <2>7. QED
    BY <1>1, <1>2, <1>3, <1>4, <2>1, <2>2, <2>3, <2>4, <2>5, <2>6 DEF Next, Receiver, Processor

(* As long as no burst comes within two slots of the ring's size, the      *)
(* receiver never writes into the slot whose packet is being handled:      *)
(* recvfrom() and the handlers of process_packet() need no lock.           *)
THEOREM SlotExclusion ==
    ASSUME MaxBacklog + 2 <= RingSize
    PROVE  Spec => []HandledSlotIsNotWritten
<1>1. Init => TypeInv /\ BacklogInv
  BY InitTyped, InitBacklog
<1>2. TypeInv /\ BacklogInv /\ [Next]_vars => (TypeInv /\ BacklogInv)'
  BY TypeInvStep, BacklogStep
<1>3. TypeInv /\ BacklogInv => HandledSlotIsNotWritten
  <2> SUFFICES ASSUME TypeInv, BacklogInv,
                      rpc = "publish", ppc \in {"header", "payload", "clear"}
               PROVE  WriteSlot # ring_read_index_
    BY DEF HandledSlotIsNotWritten
  <2>1. Unread + 2 <= RingSize
    BY BacklogTerms, FlowAssumption DEF BacklogInv, Backlog, TypeInv, TypeOK, RingTypes
  <2>2. QED
    BY <2>1, BacklogTerms, GapPublish, UnreadIsGap DEF WriteSlot, BacklogInv
<1>4. QED
  BY <1>1, <1>2, <1>3, PTL DEF Spec

-----------------------------------------------------------------------------
(* The ring's places as arithmetic, and what the slots hold.               *)

(* SlotAfter without the remainder, up to one turn of the ring. *)
LEMMA SlotAfterValue ==
    ASSUME NEW r \in -1 .. RingSize - 1, NEW i \in 0 .. RingSize - 1
    PROVE  SlotAfter(r, i) = IF r + i = -1 THEN RingSize - 1
                             ELSE IF r + i < RingSize THEN r + i ELSE r + i - RingSize
<1>1. \A a \in Int : -RingSize <= a /\ a < 0 => a % RingSize = a + RingSize
  BY FlowAssumption
<1>2. \A a \in Nat : a < RingSize => a % RingSize = a
  BY FlowAssumption
<1>3. \A a \in Nat : RingSize <= a /\ a < 2 * RingSize => a % RingSize = a - RingSize
  BY FlowAssumption
<1>4. r + i \in Int /\ -1 <= r + i /\ r + i < 2 * RingSize
  BY FlowAssumption
<1>5. QED
  BY <1>1, <1>2, <1>3, <1>4, FlowAssumption DEF SlotAfter

(* The places of one turn are slots, and different ones. *)
LEMMA SlotAfterDistinct ==
    ASSUME NEW r \in -1 .. RingSize - 1,
           NEW i \in 0 .. RingSize - 1, NEW j \in 0 .. RingSize - 1
    PROVE  /\ SlotAfter(r, i) \in Slots
           /\ i # j => SlotAfter(r, i) # SlotAfter(r, j)
  BY SlotAfterValue, FlowAssumption DEF Slots

(* Place 0 is the slot itself. *)
LEMMA SlotAfterZero ==
    ASSUME NEW r \in Slots
    PROVE  SlotAfter(r, 0) = r
  BY SlotAfterValue, FlowAssumption DEF Slots

(* Counted from the next slot every place is one less. *)
LEMMA SlotAfterNext ==
    ASSUME NEW r \in -1 .. RingSize - 1, NEW i \in 0 .. RingSize - 2
    PROVE  SlotAfter(NextLocation(r), i) = SlotAfter(r, i + 1)
<1>1. NextLocation(r) \in -1 .. RingSize - 1 /\ i + 1 \in 0 .. RingSize - 1
      /\ i \in 0 .. RingSize - 1
  BY NextLocationType, FlowAssumption DEF Slots
<1>2. SlotAfter(r, i + 1) = IF r + (i + 1) < RingSize THEN r + (i + 1) ELSE r + (i + 1) - RingSize
  BY <1>1, SlotAfterValue, FlowAssumption
<1>3. SlotAfter(NextLocation(r), i)
        = IF NextLocation(r) + i < RingSize THEN NextLocation(r) + i
          ELSE NextLocation(r) + i - RingSize
  BY <1>1, SlotAfterValue, NextLocationType, FlowAssumption DEF Slots
<1>4. NextLocation(r) = IF r = RingSize - 1 THEN 0 ELSE r + 1
  BY NextLocationValue
<1>5. QED
  BY <1>2, <1>3, <1>4, FlowAssumption

(* The slot recvfrom() is given is the place after the unread ones. *)
LEMMA SlotAfterGap ==
    ASSUME NEW r \in -1 .. RingSize - 1, NEW w \in -1 .. RingSize - 1,
           w = -1 => r = -1, Gap(r, w) + 2 <= RingSize
    PROVE  NextLocation(w) = SlotAfter(r, Gap(r, w) + 1)
<1>1. Gap(r, w) + 1 \in 0 .. RingSize - 1
  BY GapType, FlowAssumption
<1>2. SlotAfter(r, Gap(r, w) + 1) = IF r + Gap(r, w) + 1 = -1 THEN RingSize - 1
         ELSE IF r + Gap(r, w) + 1 < RingSize THEN r + Gap(r, w) + 1
         ELSE r + Gap(r, w) + 1 - RingSize
  BY <1>1, SlotAfterValue, GapType, FlowAssumption
<1>3. CASE r = -1
  BY <1>1, <1>2, <1>3, NextLocationValue, FlowAssumption DEF Gap
<1>4. CASE r # -1
  <2>1. r \in Slots /\ w \in Slots
    BY <1>4 DEF Slots
  <2>2. Gap(r, w) = IF r <= w THEN w - r ELSE w - r + RingSize
    BY <2>1, GapValue
  <2>3. NextLocation(w) = IF w = RingSize - 1 THEN 0 ELSE w + 1
    BY NextLocationValue
  <2>4. QED
    BY <1>1, <1>2, <2>1, <2>2, <2>3, FlowAssumption DEF Slots
<1>5. QED
  BY <1>3, <1>4

(* The slot holding the packet that is i places past the read index. *)
Place(i) == SlotAfter(ring_read_index_, i)

(* What the slots hold.  A pending packet is a datagram with a payload     *)
(* that recvfrom() has returned, its length is there for the processor to  *)
(* see, and the packets are pending in the order in which they arrived;    *)
(* the packet being written is the last one, and the slot from which the   *)
(* payload is copied still holds the packet whose header was parsed.       *)
RingInv ==
    /\ \A i \in Pending :
          /\ read[Place(i)]
          /\ data[Place(i)] \in (1 .. taken) \ EmptyPackets
          /\ rpc = "publish" => data[Place(i)] < taken
    /\ \A i, j \in Pending : i < j => data[Place(i)] < data[Place(j)]
    /\ rpc = "publish" => taken # 0 /\ data[WriteSlot] = taken
    /\ ppc = "payload" => hdr = data[ring_read_index_]

(* The invariant on which the refinement rests. *)
PipeInv == TypeInv /\ BacklogInv /\ RingInv

(* A burst that leaves two slots free: the places of the pending packets   *)
(* and of the slot being written are within one turn, hence different.     *)
LEMMA RingRoom ==
    ASSUME TypeInv, BacklogInv, MaxBacklog + 2 <= RingSize
    PROVE  /\ Unread \in Nat /\ Unread + 2 <= RingSize
           /\ Pending \subseteq 0 .. Unread
           /\ \A i \in 0 .. Unread + 1 : Place(i) \in Slots
           /\ \A i, j \in 0 .. Unread + 1 : i # j => Place(i) # Place(j)
           /\ WriteSlot = Place(Unread + 1)
           /\ WriteSlot \in Slots
<1>1. Unread \in Nat /\ Unread + 2 <= RingSize
  BY BacklogTerms, FlowAssumption DEF BacklogInv, Backlog, TypeInv, TypeOK, RingTypes
<1>2. Pending \subseteq 0 .. Unread
  BY <1>1 DEF Pending
<1>3. /\ \A i \in 0 .. Unread + 1 : Place(i) \in Slots
      /\ \A i, j \in 0 .. Unread + 1 : i # j => Place(i) # Place(j)
  <2>1. 0 .. Unread + 1 \subseteq 0 .. RingSize - 1
    BY <1>1, FlowAssumption
  <2>2. QED
    BY <2>1, BacklogTerms, SlotAfterDistinct DEF Place
<1>4. WriteSlot = Place(Unread + 1)
  BY <1>1, BacklogTerms, SlotAfterGap, UnreadIsGap DEF WriteSlot, Place, BacklogInv
<1>5. QED
  BY <1>1, <1>2, <1>3, <1>4

(* While the processor has a packet in its hands, place 0 is its slot. *)
LEMMA PlaceZero ==
    ASSUME TypeInv, ppc \in {"header", "payload", "clear"}
    PROVE  Place(0) = ring_read_index_ /\ ring_read_index_ \in Slots
  BY SlotAfterZero DEF TypeInv, Place

(* The flow starts with nothing pending. *)
LEMMA InitRing == Init => RingInv
<1> SUFFICES ASSUME Init PROVE RingInv
  OBVIOUS
<1>1. Pending = {}
  BY DEF Init, Pending, Unread
<1>2. QED
  BY <1>1 DEF Init, RingInv

(* Steps that leave the ring, and what is pending in it, as they are. *)
RingStutter ==
    /\ UNCHANGED <<data, read, ring_read_index_, last_ring_write_index_, taken, hdr>>
    /\ ppc' \in {"header", "payload"} <=> ppc \in {"header", "payload"}
    /\ ppc' = "payload" => ppc = "payload"
    /\ rpc' = "publish" <=> rpc = "publish"

LEMMA PendingStutter ==
    ASSUME RingStutter
    PROVE  Pending' = Pending /\ Unread' = Unread /\ WriteSlot' = WriteSlot
           /\ \A i : Place(i)' = Place(i)
  BY DEF RingStutter, Pending, Unread, WriteSlot, Place, SlotAfter, NextLocation

(* Which steps these are. *)
LEMMA StutterSteps ==
    ASSUME \/ Arrive \/ StopRequest \/ Stopper
           \/ Start /\ QuiescenceInv
           \/ ReceiverExit \/ ReceiverPoll \/ ReceiverDrainStops \/ ReceiverNotify
           \/ ReceiverPollFails
           \/ ProcessorCheck \/ ProcessorBlock \/ SpuriousWakeup \/ ProcessorWake
           \/ ProcessorScanned
           \/ \E u \in Pullers : Pull(u) \/ Puller(u)
           \/ UNCHANGED vars
    PROVE  RingStutter
<1> USE DEF RingStutter, sockVars, ringVars
<1>1. CASE Arrive \/ StopRequest \/ Stopper
  BY <1>1 DEF Arrive, StopRequest, Stopper, StopNotify, StopJoinReceiver,
              StopJoinProcessor, StopClear, NotifyProcessor
<1>2. CASE Start /\ QuiescenceInv
  BY <1>2 DEF Start, QuiescenceInv
<1>3. CASE ReceiverExit \/ ReceiverPoll \/ ReceiverDrainStops \/ ReceiverNotify \/ ReceiverPollFails
  BY <1>3 DEF ReceiverExit, ReceiverPoll, ReceiverDrainStops, ReceiverNotify,
              ReceiverPollFails, NotifyProcessor
<1>4. CASE ProcessorCheck \/ ProcessorBlock \/ SpuriousWakeup \/ ProcessorWake \/ ProcessorScanned
  BY <1>4 DEF ProcessorCheck, ProcessorBlock, SpuriousWakeup, ProcessorWake, ProcessorScanned
<1>5. CASE \E u \in Pullers : Pull(u) \/ Puller(u)
  BY <1>5 DEF Pull, Puller, PullNothing, PullSees, PullTakes
<1>6. CASE UNCHANGED vars
  BY <1>6 DEF vars
<1>7. QED
  BY <1>1, <1>2, <1>3, <1>4, <1>5, <1>6

(* recvfrom() writes into a slot in which nothing is pending. *)
LEMMA RingReceiver ==
    ASSUME PipeInv, MaxBacklog + 2 <= RingSize,
           ReceiverCopy \/ ReceiverPublish \/ ReceiverDrained \/ ReceiverRecvFails
    PROVE  RingInv'
<1> USE RingRoom DEF PipeInv
<1>1. \A i \in Pending : i \in 0 .. Unread /\ Place(i) \in Slots /\ Place(i) # WriteSlot
  OBVIOUS
<1>2. RingTypes
  BY DEF TypeInv, TypeOK
<1>3. CASE ReceiverCopy
  <2> USE <1>3 DEF ReceiverCopy
  <2>1. Pending' = Pending /\ WriteSlot' = WriteSlot /\ \A i : Place(i)' = Place(i)
    BY DEF Pending, Unread, WriteSlot, Place, SlotAfter, NextLocation
  <2>2. /\ data'[WriteSlot] = taken' /\ taken' = taken + 1 /\ taken' # 0
        /\ \A i \in Pending : data'[Place(i)] = data[Place(i)]
    BY <1>1, <1>2 DEF RingTypes
  <2>3. \A i \in Pending : data[Place(i)] \in (1 .. taken') \ EmptyPackets /\ data[Place(i)] < taken'
    BY <1>2, <2>2 DEF RingInv, RingTypes
  <2>4. ppc' # "payload" \/ hdr' = data'[ring_read_index_']
    <3> SUFFICES ASSUME ppc = "payload" PROVE hdr = data'[ring_read_index_]
      OBVIOUS
    <3>1. 0 \in Pending /\ Place(0) = ring_read_index_
      BY PlaceZero DEF Pending
    <3>2. QED
      BY <2>2, <3>1 DEF RingInv
  <2>5. QED
    BY <2>1, <2>2, <2>3, <2>4 DEF RingInv
<1>4. CASE (ReceiverPublish /\ taken \in EmptyPackets) \/ ReceiverDrained \/ ReceiverRecvFails
  <2> USE <1>4 DEF ReceiverPublish, ReceiverDrained, ReceiverRecvFails, sockVars
  <2>1. Pending' = Pending /\ \A i : Place(i)' = Place(i)
    BY DEF Pending, Unread, Place, SlotAfter
  <2>2. \A i \in Pending : read'[Place(i)] = read[Place(i)]
    BY <1>1, <1>2 DEF RingTypes
  <2>3. UNCHANGED <<data, taken, hdr, ppc, ring_read_index_>> /\ rpc' # "publish"
    OBVIOUS
  <2>4. QED
    BY <2>1, <2>2, <2>3 DEF RingInv
<1>5. CASE ReceiverPublish /\ taken \notin EmptyPackets
  <2> USE <1>5 DEF ReceiverPublish, sockVars
  <2>1. Unread' = Unread + 1
    BY BacklogTerms, GapPublish, UnreadIsGap DEF WriteSlot, BacklogInv, Gap, Unread
  <2>2. Pending' = Pending \cup {Unread + 1} /\ \A i : Place(i)' = Place(i)
    BY <2>1 DEF Pending, Place, SlotAfter
  <2>3. \A i \in Pending : read'[Place(i)] = read[Place(i)]
    BY <1>1, <1>2 DEF RingTypes
  <2>4. read'[Place(Unread + 1)] /\ data[Place(Unread + 1)] = taken
    BY <1>2 DEF RingTypes, RingInv
  <2>5. taken \in (1 .. taken) \ EmptyPackets
    BY <1>2 DEF RingTypes, RingInv
  <2>6. UNCHANGED <<data, taken, hdr, ppc, ring_read_index_>> /\ rpc' # "publish"
    OBVIOUS
  <2>7. \A i \in Pending' : read'[Place(i)] /\ data[Place(i)] \in (1 .. taken) \ EmptyPackets
    BY <2>2, <2>3, <2>4, <2>5 DEF RingInv
  <2>8. \A i, j \in Pending' : i < j => data[Place(i)] < data[Place(j)]
    <3> SUFFICES ASSUME NEW i \in Pending', NEW j \in Pending', i < j
                 PROVE  data[Place(i)] < data[Place(j)]
      OBVIOUS
    <3>1. i \in Pending
      BY <1>1, <2>2
    <3>2. QED
      BY <2>2, <2>4, <3>1 DEF RingInv
  <2>9. QED
    BY <2>2, <2>6, <2>7, <2>8 DEF RingInv
<1>6. QED
  BY <1>3, <1>4, <1>5

(* The processor takes the packets from the ring's read end. *)
LEMMA RingProcessor ==
    ASSUME PipeInv, MaxBacklog + 2 <= RingSize,
           ProcessorAdvance \/ ProcessorHeader \/ ProcessorPayload \/ ProcessorClear
    PROVE  RingInv'
<1> USE RingRoom DEF PipeInv
<1>1. RingTypes
  BY DEF TypeInv, TypeOK
<1>2. CASE ProcessorAdvance
  <2> USE <1>2 DEF ProcessorAdvance, sockVars
  <2>1. Unread' = Unread - 1 /\ Unread' \in Nat
    <3>1. Unread' = Unread - 1
      BY BacklogTerms, GapAdvance, UnreadIsGap DEF BacklogInv, Gap, Unread
    <3>2. /\ ring_read_index_' \in -1 .. RingSize - 1
          /\ last_ring_write_index_' \in -1 .. RingSize - 1
          /\ last_ring_write_index_' # -1
      BY BacklogTerms, NextLocationType DEF BacklogInv, Slots
    <3>3. Gap(ring_read_index_', last_ring_write_index_') \in Nat
      BY <3>2, GapType
    <3>4. QED
      BY <3>1, <3>3 DEF Gap, Unread
  <2>2. Pending = 1 .. Unread /\ Pending' = 0 .. Unread - 1
    BY <2>1 DEF Pending
  <2>3. \A i \in Pending' : Place(i)' = Place(i + 1)
    <3> SUFFICES ASSUME NEW i \in 0 .. Unread - 1 PROVE Place(i)' = Place(i + 1)
      BY <2>2
    <3>1. i \in 0 .. RingSize - 2
      BY FlowAssumption
    <3>2. QED
      BY <3>1, SlotAfterNext, BacklogTerms DEF Place, SlotAfter
  <2>4. \A i \in Pending' : i + 1 \in Pending
    BY <2>2
  <2>5. WriteSlot' = WriteSlot
    BY DEF WriteSlot, NextLocation
  <2>6. \A i \in Pending' :
           /\ read[Place(i)']
           /\ data[Place(i)'] \in (1 .. taken) \ EmptyPackets
           /\ rpc = "publish" => data[Place(i)'] < taken
    BY <2>3, <2>4 DEF RingInv
  <2>7. \A i, j \in Pending' : i < j => data[Place(i)'] < data[Place(j)']
    BY <2>2, <2>3, <2>4 DEF RingInv
  <2>8. QED
    BY <2>5, <2>6, <2>7 DEF RingInv
<1>3. CASE ProcessorHeader
  BY <1>3 DEF ProcessorHeader, RingInv, Pending, Unread, Place, SlotAfter, WriteSlot,
              NextLocation, sockVars, ringVars
<1>4. CASE ProcessorPayload
  <2> USE <1>4 DEF ProcessorPayload, sockVars, ringVars
  <2>1. Pending' \subseteq Pending /\ WriteSlot' = WriteSlot /\ \A i : Place(i)' = Place(i)
    BY DEF Pending, Unread, Place, SlotAfter, WriteSlot, NextLocation
  <2>2. QED
    BY <2>1 DEF RingInv
<1>5. CASE ProcessorClear
  <2> USE <1>5 DEF ProcessorClear, sockVars
  <2>1. Pending' = Pending /\ WriteSlot' = WriteSlot /\ \A i : Place(i)' = Place(i)
    BY DEF Pending, Unread, Place, SlotAfter, WriteSlot, NextLocation
  <2>2. \A i \in Pending : Place(i) \in Slots /\ Place(i) # ring_read_index_
    BY PlaceZero DEF Pending
  <2>3. \A i \in Pending : read'[Place(i)] = read[Place(i)]
    BY <1>1, <2>2 DEF RingTypes
  <2>4. QED
    BY <2>1, <2>3 DEF RingInv
<1>6. QED
  BY <1>2, <1>3, <1>4, <1>5

(* The processor never finds the slot it moves to empty. *)
LEMMA NeverInvalid ==
    ASSUME PipeInv, MaxBacklog + 2 <= RingSize
    PROVE  ~ProcessorInvalid
<1> SUFFICES ASSUME ppc = "header" PROVE read[ring_read_index_]
  BY DEF ProcessorInvalid
<1>1. 0 \in Pending /\ Place(0) = ring_read_index_
  BY RingRoom, PlaceZero DEF PipeInv, Pending
<1>2. QED
  BY <1>1 DEF PipeInv, RingInv

(* Every step keeps the slots' contents in order. *)
LEMMA RingStep ==
    ASSUME PipeInv, QuiescenceInv, MaxBacklog + 2 <= RingSize, [Next]_vars
    PROVE  RingInv'
<1>1. CASE RingStutter
  BY <1>1, PendingStutter DEF RingStutter, RingInv, PipeInv
<1>2. QED
  BY <1>1, StutterSteps, RingReceiver, RingProcessor, NeverInvalid
     DEF Next, Receiver, ReceiverFault, Processor

-----------------------------------------------------------------------------
(* The refinement of FramePipe: what each step does to the packets on      *)
(* their way and to the frames.                                            *)

(* The frames as the packets they were made from. *)
LEMMA WholeEmpty == WholeSeq(<<>>) = <<>>
  BY DEF WholeSeq

LEMMA WholeAppend ==
    ASSUME NEW s \in Seq(Frame), NEW f \in Frame
    PROVE  WholeSeq(Append(s, f)) = Append(WholeSeq(s), Whole(f))
  BY DEF WholeSeq

LEMMA WholeTake ==
    ASSUME NEW s \in Seq(Frame), s # <<>>
    PROVE  /\ WholeSeq(s) # <<>>
           /\ Head(WholeSeq(s)) = Whole(Head(s))
           /\ Tail(WholeSeq(s)) = WholeSeq(Tail(s))
  BY DEF WholeSeq

(* The packets the ring holds for the processor. *)
InRing == {data[Place(i)] : i \in Pending}
Writing == IF rpc = "publish" THEN {taken} ELSE {}

LEMMA InFlightParts ==
    /\ InFlight = (InRing \cup Writing \cup (taken + 1 .. arrived)) \cap Deliverable
    /\ InFlight' = (InRing' \cup Writing' \cup (taken' + 1 .. arrived')) \cap Deliverable
  BY DEF InFlight, InRing, Writing, Place, Deliverable, Packets

(* Steps that leave the ring and the socket alone move no packet. *)
LEMMA InFlightStutter ==
    ASSUME RingStutter, UNCHANGED arrived
    PROVE  InFlight' = InFlight
  BY PendingStutter, InFlightParts DEF RingStutter, InRing, Writing

(* A datagram that reaches the socket is on its way. *)
LEMMA InFlightArrive ==
    ASSUME PipeInv, Arrive
    PROVE  InFlight' = InFlight \cup ({arrived + 1} \cap Deliverable)
<1>1. InRing' = InRing /\ Writing' = Writing /\ taken' = taken
  BY PendingStutter, StutterSteps DEF Arrive, InRing, Writing, RingStutter, ringVars
<1>2. (taken' + 1 .. arrived') = (taken + 1 .. arrived) \cup {arrived + 1}
  BY DEF PipeInv, TypeInv, TypeOK, RingTypes, Arrive
<1>3. QED
  BY <1>1, <1>2, InFlightParts

(* The receiver moves packets towards the processor and drops none but the *)
(* empty ones.                                                             *)
LEMMA InFlightReceiver ==
    ASSUME PipeInv, MaxBacklog + 2 <= RingSize,
           ReceiverCopy \/ ReceiverPublish \/ ReceiverDrained \/ ReceiverRecvFails
    PROVE  InFlight' = InFlight
<1> USE RingRoom DEF PipeInv
<1>1. \A i \in Pending : i \in 0 .. Unread /\ Place(i) \in Slots /\ Place(i) # WriteSlot
  OBVIOUS
<1>2. RingTypes
  BY DEF TypeInv, TypeOK
<1>3. CASE ReceiverCopy
  <2> USE <1>3 DEF ReceiverCopy
  <2>1. Pending' = Pending /\ \A i : Place(i)' = Place(i)
    BY DEF Pending, Unread, Place, SlotAfter
  <2>2. \A i \in Pending : data'[Place(i)] = data[Place(i)]
    BY <1>1, <1>2 DEF RingTypes
  <2>3. InRing' = InRing
    BY <2>1, <2>2 DEF InRing
  <2>4. Writing = {} /\ Writing' \cup (taken' + 1 .. arrived') = (taken + 1 .. arrived)
    BY <1>2 DEF Writing, RingTypes
  <2>5. QED
    BY <2>3, <2>4, InFlightParts
<1>4. CASE (ReceiverPublish /\ taken \in EmptyPackets) \/ ReceiverDrained \/ ReceiverRecvFails
  <2> USE <1>4 DEF ReceiverPublish, ReceiverDrained, ReceiverRecvFails, sockVars
  <2>1. Pending' = Pending /\ \A i : Place(i)' = Place(i)
    BY DEF Pending, Unread, Place, SlotAfter
  <2>2. InRing' = InRing /\ UNCHANGED <<taken, arrived>>
    BY <2>1 DEF InRing
  <2>3. Writing' = {} /\ Writing \cap Deliverable = {}
    BY DEF Writing, Deliverable
  <2>4. QED
    BY <2>2, <2>3, InFlightParts
<1>5. CASE ReceiverPublish /\ taken \notin EmptyPackets
  <2> USE <1>5 DEF ReceiverPublish, sockVars
  <2>1. Unread' = Unread + 1
    BY BacklogTerms, GapPublish, UnreadIsGap DEF WriteSlot, BacklogInv, Gap, Unread
  <2>2. Pending' = Pending \cup {Unread + 1} /\ \A i : Place(i)' = Place(i)
    BY <2>1 DEF Pending, Place, SlotAfter
  <2>3. data[Place(Unread + 1)] = taken /\ data' = data
    BY DEF RingInv
  <2>4. InRing' = InRing \cup {taken}
    BY <2>2, <2>3 DEF InRing
  <2>5. Writing' = {} /\ Writing = {taken} /\ UNCHANGED <<taken, arrived>>
    BY DEF Writing
  <2>6. QED
    BY <2>4, <2>5, InFlightParts
<1>6. QED
  BY <1>3, <1>4, <1>5

(* Moving the read index, parsing a header and clearing the slot move no   *)
(* packet.                                                                 *)
LEMMA InFlightProcessor ==
    ASSUME PipeInv, MaxBacklog + 2 <= RingSize,
           ProcessorAdvance \/ ProcessorHeader \/ ProcessorClear
    PROVE  InFlight' = InFlight
<1> USE RingRoom DEF PipeInv
<1>1. CASE ProcessorAdvance
  <2> USE <1>1 DEF ProcessorAdvance, sockVars
  <2>1. Unread' = Unread - 1 /\ Unread' \in Nat
    <3>1. Unread' = Unread - 1
      BY BacklogTerms, GapAdvance, UnreadIsGap DEF BacklogInv, Gap, Unread
    <3>2. /\ ring_read_index_' \in -1 .. RingSize - 1
          /\ last_ring_write_index_' \in -1 .. RingSize - 1
          /\ last_ring_write_index_' # -1
      BY BacklogTerms, NextLocationType DEF BacklogInv, Slots
    <3>3. Gap(ring_read_index_', last_ring_write_index_') \in Nat
      BY <3>2, GapType
    <3>4. QED
      BY <3>1, <3>3 DEF Gap, Unread
  <2>2. Pending = 1 .. Unread /\ Pending' = 0 .. Unread - 1
    BY <2>1 DEF Pending
  <2>3. \A i \in Pending' : Place(i)' = Place(i + 1)
    <3> SUFFICES ASSUME NEW i \in 0 .. Unread - 1 PROVE Place(i)' = Place(i + 1)
      BY <2>2
    <3>1. i \in 0 .. RingSize - 2
      BY FlowAssumption
    <3>2. QED
      BY <3>1, SlotAfterNext, BacklogTerms DEF Place, SlotAfter
  <2>4. \A i \in Pending' : i + 1 \in Pending
    BY <2>2
  <2>5. \A i \in Pending : i - 1 \in Pending' /\ (i - 1) + 1 = i
    BY <2>2
  <2>6. InRing' = InRing
    <3>1. InRing' \subseteq InRing
      BY <2>3, <2>4 DEF InRing
    <3>2. InRing \subseteq InRing'
      BY <2>3, <2>5 DEF InRing
    <3>3. QED
      BY <3>1, <3>2
  <2>7. Writing' = Writing /\ UNCHANGED <<taken, arrived>>
    BY DEF Writing
  <2>8. QED
    BY <2>6, <2>7, InFlightParts
<1>2. CASE ProcessorHeader \/ ProcessorClear
  <2>1. InRing' = InRing /\ Writing' = Writing /\ UNCHANGED <<taken, arrived>>
    BY <1>2 DEF ProcessorHeader, ProcessorClear, InRing, Writing, Pending, Unread,
                Place, SlotAfter, sockVars, ringVars
  <2>2. QED
    BY <2>1, InFlightParts
<1>3. QED
  BY <1>1, <1>2

(* The packet in the processor's hands is whole, the oldest on its way,    *)
(* and leaves the way when its frame is made.                              *)
LEMMA InFlightPayload ==
    ASSUME PipeInv, MaxBacklog + 2 <= RingSize, ProcessorPayload
    PROVE  /\ hdr = data[ring_read_index_]
           /\ hdr \notin EmptyPackets
           /\ hdr \in Packets
           /\ \A q \in InFlight : hdr <= q
           /\ InFlight' = InFlight \ {hdr}
           /\ hdr \notin Ignored => hdr \in InFlight
<1> USE RingRoom DEF PipeInv
<1> USE DEF ProcessorPayload, sockVars, ringVars
<1>1. RingTypes
  BY DEF TypeInv, TypeOK
<1>2. 0 \in Pending /\ Place(0) = ring_read_index_
  BY PlaceZero DEF Pending
<1>3. hdr = data[Place(0)] /\ hdr \in (1 .. taken) \ EmptyPackets
  BY <1>2 DEF RingInv
<1>4. \A i \in Pending \ {0} : hdr < data[Place(i)] /\ hdr <= data[Place(i)]
  <2>1. \A i \in Pending \ {0} : i \in Nat /\ 0 < i /\ hdr < data[Place(i)]
    BY <1>2, <1>3 DEF RingInv
  <2>2. \A i \in Pending : data[Place(i)] \in Int
    BY <1>1 DEF RingInv, RingTypes
  <2>3. QED
    BY <1>2, <1>3, <2>1, <2>2
<1>5. Pending' = Pending \ {0} /\ \A i : Place(i)' = Place(i)
  BY DEF Pending, Unread, Place, SlotAfter
<1>6. \A q \in InRing' : hdr < q /\ hdr <= q
  BY <1>4, <1>5 DEF InRing
<1>7. InRing = InRing' \cup {hdr}
  BY <1>2, <1>3, <1>5 DEF InRing
<1>8. Writing' = Writing /\ UNCHANGED <<taken, arrived>>
  BY DEF Writing
<1>9. \A q \in Writing \cup (taken + 1 .. arrived) : hdr < q /\ hdr <= q
  BY <1>1, <1>2, <1>3 DEF Writing, RingInv, RingTypes
<1>10. hdr \in Nat /\ hdr \in Packets
  BY <1>1, <1>3 DEF RingTypes, Packets
<1>11. hdr \notin InRing' \cup Writing \cup (taken + 1 .. arrived)
  BY <1>6, <1>9, <1>10
<1>12. InFlight' = InFlight \ {hdr}
  BY <1>7, <1>8, <1>11, InFlightParts
<1>13. \A q \in InFlight : hdr <= q
  BY <1>6, <1>7, <1>9, <1>10, InFlightParts
<1>14. hdr \notin Ignored => hdr \in InFlight
  BY <1>3, <1>7, <1>10, InFlightParts DEF Deliverable
<1>15. QED
  BY <1>2, <1>3, <1>10, <1>12, <1>13, <1>14

(* The frames, as FramePipe sees them. *)
GotWhole == [u \in Pullers |-> WholeSeq(got[u])]

(* The steps that move no packet and no frame. *)
LEMMA FrameStutter ==
    ASSUME UNCHANGED <<frames_, got>>
    PROVE  WholeSeq(frames_)' = WholeSeq(frames_) /\ GotWhole' = GotWhole
  BY DEF WholeSeq, GotWhole

LEMMA StutterStep ==
    ASSUME UNCHANGED <<arrived, frames_, got>>, InFlight' = InFlight
    PROVE  UNCHANGED Pipe!pipeVars
  BY FrameStutter DEF Pipe!pipeVars, GotWhole

(* The frame that is returned is made of one datagram, the oldest one. *)
LEMMA HandOverStep ==
    ASSUME PipeInv, MaxBacklog + 2 <= RingSize, ProcessorPayload
    PROVE  [Pipe!Next]_(Pipe!pipeVars)
<1> USE InFlightPayload DEF ProcessorPayload, sockVars, pullVars
<1>1. CASE hdr \in Ignored
  <2>1. InFlight' = InFlight
    BY <1>1 DEF InFlight, Deliverable
  <2>2. QED
    BY <1>1, <2>1, StutterStep
<1>2. CASE hdr \notin Ignored
  <2> DEFINE f == [hdr |-> hdr, payload |-> data[ring_read_index_]]
  <2>1. f \in Frame /\ frames_ \in Seq(Frame) /\ Whole(f) = hdr
    BY DEF PipeInv, TypeInv, TypeOK, RingTypes, FrameTypes, Frame, Whole, Packets
  <2>2. WholeSeq(frames_)' = Append(WholeSeq(frames_), hdr)
    <3>1. WholeSeq(frames_)' = WholeSeq(Append(frames_, f))
      BY <1>2 DEF WholeSeq
    <3>2. QED
      BY <2>1, <3>1, WholeAppend
  <2>3. GotWhole' = GotWhole /\ UNCHANGED arrived
    BY DEF GotWhole, WholeSeq
  <2>4. Pipe!HandOver
    BY <1>2, <2>2, <2>3 DEF Pipe!HandOver, GotWhole
  <2>5. QED
    BY <2>4 DEF Pipe!Next
<1>3. QED
  BY <1>1, <1>2

(* A frame that pull_frame takes off the list goes to its caller only. *)
LEMMA PullStep ==
    ASSUME PipeInv, NEW u \in Pullers, Pull(u) \/ Puller(u)
    PROVE  [Pipe!Next]_(Pipe!pipeVars)
<1>1. InFlight' = InFlight /\ UNCHANGED arrived
  <2>1. RingStutter
    BY StutterSteps
  <2>2. UNCHANGED arrived
    BY DEF Pull, Puller, PullNothing, PullSees, PullTakes, sockVars
  <2>3. QED
    BY <2>1, <2>2, InFlightStutter
<1>2. CASE UNCHANGED <<frames_, got>>
  BY <1>1, <1>2, StutterStep
<1>3. CASE PullTakes(u) /\ frames_ # <<>>
  <2>1. frames_ \in Seq(Frame) /\ got \in [Pullers -> Seq(Frame)]
    BY DEF PipeInv, TypeInv, TypeOK, FrameTypes
  <2>2. /\ frames_' = Tail(frames_)
        /\ got' = [got EXCEPT ![u] = Append(got[u], Head(frames_))]
    BY <1>3 DEF PullTakes
  <2>3. /\ WholeSeq(frames_) # <<>>
        /\ Head(WholeSeq(frames_)) = Whole(Head(frames_))
        /\ WholeSeq(frames_)' = Tail(WholeSeq(frames_))
    <3>1. WholeSeq(frames_)' = WholeSeq(Tail(frames_))
      BY <2>2 DEF WholeSeq
    <3>2. QED
      BY <1>3, <2>1, <3>1, WholeTake
  <2>4. GotWhole' = [GotWhole EXCEPT ![u] = Append(GotWhole[u], Head(WholeSeq(frames_)))]
    <3>1. WholeSeq(got'[u]) = Append(WholeSeq(got[u]), Whole(Head(frames_)))
      <4>1. got'[u] = Append(got[u], Head(frames_)) /\ got[u] \in Seq(Frame)
        BY <2>1, <2>2
      <4>2. Head(frames_) \in Frame
        BY <1>3, <2>1, HeadTailType
      <4>3. QED
        BY <4>1, <4>2, WholeAppend
    <3>2. \A v \in Pullers \ {u} : got'[v] = got[v]
      BY <2>1, <2>2
    <3>3. GotWhole' = [v \in Pullers |-> WholeSeq(got'[v])]
      BY DEF GotWhole, WholeSeq
    <3>4. QED
      BY <2>3, <3>1, <3>2, <3>3 DEF GotWhole
  <2>5. Pipe!Pull(u)
    BY <1>1, <2>3, <2>4 DEF Pipe!Pull, GotWhole
  <2>6. QED
    BY <2>5 DEF Pipe!Next
<1>4. QED
  BY <1>2, <1>3 DEF Pull, Puller, PullNothing, PullSees, PullTakes

(* Every step of the flow is a step of FramePipe or none at all. *)
LEMMA PipeStep ==
    ASSUME PipeInv, QuiescenceInv, MaxBacklog + 2 <= RingSize, [Next]_vars
    PROVE  [Pipe!Next]_(Pipe!pipeVars)
<1>1. CASE Arrive
  <2>1. InFlight' = InFlight \cup ({arrived + 1} \cap Deliverable)
    BY <1>1, InFlightArrive
  <2>2. Pipe!Arrive
    BY <1>1, <2>1, FrameStutter DEF Arrive, Pipe!Arrive, pullVars, GotWhole
  <2>3. QED
    BY <2>2 DEF Pipe!Next
<1>2. CASE StopClear
  <2>1. InFlight' = InFlight /\ UNCHANGED arrived
    BY <1>2, StutterSteps, InFlightStutter DEF Stopper, StopClear, sockVars
  <2>2. WholeSeq(frames_)' = <<>>
    BY <1>2, WholeEmpty DEF StopClear, WholeSeq
  <2>3. GotWhole' = GotWhole
    BY <1>2 DEF StopClear, pullVars, GotWhole, WholeSeq
  <2>4. Pipe!Discard
    BY <2>1, <2>2, <2>3 DEF Pipe!Discard, GotWhole
  <2>5. QED
    BY <2>4 DEF Pipe!Next
<1>3. CASE \/ Start \/ StopRequest \/ StopNotify \/ StopJoinReceiver \/ StopJoinProcessor
           \/ ReceiverExit \/ ReceiverPoll \/ ReceiverDrainStops \/ ReceiverNotify
           \/ ReceiverPollFails
           \/ ProcessorCheck \/ ProcessorBlock \/ SpuriousWakeup \/ ProcessorWake
           \/ ProcessorScanned
           \/ UNCHANGED vars
  <2>1. RingStutter
    BY <1>3, StutterSteps DEF Stopper
  <2>2. UNCHANGED <<arrived, frames_, got>>
    BY <1>3 DEF Start, StopRequest, StopNotify, StopJoinReceiver, StopJoinProcessor,
                ReceiverExit, ReceiverPoll, ReceiverDrainStops, ReceiverNotify,
                ReceiverPollFails, ProcessorCheck, ProcessorBlock, SpuriousWakeup,
                ProcessorWake, ProcessorScanned, sockVars, pullVars, vars
  <2>3. QED
    BY <2>1, <2>2, InFlightStutter, StutterStep
<1>4. CASE ReceiverCopy \/ ReceiverPublish \/ ReceiverDrained \/ ReceiverRecvFails
  <2>1. UNCHANGED <<arrived, frames_, got>>
    BY <1>4 DEF ReceiverCopy, ReceiverPublish, ReceiverDrained, ReceiverRecvFails,
                sockVars, pullVars
  <2>2. QED
    BY <1>4, <2>1, InFlightReceiver, StutterStep
<1>5. CASE ProcessorAdvance \/ ProcessorHeader \/ ProcessorClear
  <2>1. UNCHANGED <<arrived, frames_, got>>
    BY <1>5 DEF ProcessorAdvance, ProcessorHeader, ProcessorClear, sockVars, pullVars
  <2>2. QED
    BY <1>5, <2>1, InFlightProcessor, StutterStep
<1>6. QED
  BY <1>1, <1>2, <1>3, <1>4, <1>5, HandOverStep, PullStep, NeverInvalid
     DEF Next, Stopper, Receiver, ReceiverFault, Processor

(* Before the first start() nothing has arrived and nothing is held. *)
LEMMA PipeInit == Init => Pipe!Init
<1> SUFFICES ASSUME Init PROVE Pipe!Init
  OBVIOUS
<1>1. InFlight = {}
  <2>1. Pending = {} /\ taken + 1 .. arrived = {} /\ rpc # "publish"
    BY DEF Init, Pending, Unread
  <2>2. QED
    BY <2>1 DEF InFlight
<1>2. WholeSeq(frames_) = <<>> /\ [u \in Pullers |-> WholeSeq(got[u])] = [u \in Pullers |-> <<>>]
  BY WholeEmpty DEF Init
<1>3. QED
  BY <1>1, <1>2 DEF Init, Pipe!Init

(* As long as no burst comes within two slots of the ring's size, the two  *)
(* threads, the ring and the list of frames implement the pipe: whatever   *)
(* the threads, the callers, stop() and restarts and a failing socket do,  *)
(* no deliverable packet is lost, repeated or overtaken, no frame mixes    *)
(* two datagrams, and no frame is given to two callers.                    *)
THEOREM ImplementsPipe ==
    ASSUME MaxBacklog + 2 <= RingSize
    PROVE  Spec => PipeSpec
<1> DEFINE Inv == PipeInv /\ QuiescenceInv
<1>1. Init => Inv
  BY InitTyped, InitBacklog, InitRing, InitQuiescent DEF PipeInv
<1>2. Inv /\ [Next]_vars => Inv'
  BY TypeInvStep, BacklogStep, RingStep, QuiescenceStep DEF PipeInv
<1>3. Inv /\ [Next]_vars => [Pipe!Next]_(Pipe!pipeVars)
  BY PipeStep
<1>4. QED
  BY <1>1, <1>2, <1>3, PipeInit, PTL DEF Spec, PipeSpec, Pipe!Spec
=============================================================================
