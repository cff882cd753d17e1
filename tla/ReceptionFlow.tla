--------------------------- MODULE ReceptionFlow ---------------------------
(***************************************************************************)
(* uvgrtp::reception_flow, the object through which every RTP datagram of  *)
(* the media library travels.  Two threads share a ring buffer: receiver() *)
(* moves datagrams from the socket into it, process_packet() turns them    *)
(* into frames on the list frames_.  The application's threads pull frames *)
(* from that list, and one of them starts and stops the flow.              *)
(*                                                                         *)
(* Datagrams are named 1 .. MaxPackets in the order the kernel queues them *)
(* on the socket, so the socket's queue is always taken+1 .. arrived.  A   *)
(* frame records which datagram its header and its payload were read from. *)
(***************************************************************************)
EXTENDS Integers, Sequences

CONSTANTS
    RingSize,      \* ring_buffer_.size()
    MaxPackets,    \* bound: datagrams that ever reach the socket
    MaxBacklog,    \* bound: datagrams in flight ahead of the processor
    EmptyPackets,  \* the datagrams of length 0
    Ignored,       \* the datagrams no handler turns into a frame
    Pullers,       \* application threads that call pull_frame
    TimedPullers,  \* those of them that call the overload with a timeout
    MaxStarts,     \* bound: calls of start() that create the threads
    MaxFaults      \* bound: failures of poll() and recvfrom()

ASSUME FlowAssumption ==
    /\ RingSize \in Nat /\ RingSize > 1
    /\ MaxPackets \in Nat
    /\ MaxBacklog \in Nat
    /\ EmptyPackets \subseteq 1 .. MaxPackets
    /\ Ignored \subseteq 1 .. MaxPackets
    /\ TimedPullers \subseteq Pullers
    /\ MaxStarts \in Nat
    /\ MaxFaults \in Nat

VARIABLES
    arrived,                 \* datagrams queued on the socket so far
    taken,                   \* datagrams recvfrom() has returned so far
    data,                    \* ring_buffer_[i].data: the datagram stored there, 0 if none
    read,                    \* ring_buffer_[i].read > 0
    ring_read_index_,
    last_ring_write_index_,
    should_stop_,
    active_,
    rpc,                     \* where the receiver thread is
    ppc,                     \* where the processor thread is
    hdr,                     \* the datagram whose header the processor parsed last
    cpc,                     \* where the thread in start() or stop() is
    frames_,                 \* the frames ready to be pulled
    upc,                     \* where each application thread is in pull_frame
    got,                     \* the frames each application thread was given
    starts,                  \* calls of start() that created the threads
    faults                   \* poll() and recvfrom() failures so far

sockVars == <<arrived, taken>>
ringVars == <<data, read, ring_read_index_, last_ring_write_index_>>
stopVars == <<should_stop_, active_, cpc, starts>>
pullVars == <<upc, got>>
vars == <<sockVars, ringVars, stopVars, pullVars, rpc, ppc, hdr, frames_, faults>>

Packets == 1 .. MaxPackets
Slots == 0 .. RingSize - 1
Frame == [hdr : 0 .. MaxPackets, payload : 0 .. MaxPackets]

(* Mutant: never rotates. *)
NextLocationUnbounded(i) == i + 1

(* next_buffer_location: rotates to the beginning after the buffer's end. *)
NextLocation(i) == (i + 1) % RingSize

(* Mutant: recvfrom() is given the slot that was published last. *)
WriteSlotMutant == IF last_ring_write_index_ = -1 THEN 0 ELSE last_ring_write_index_

(* The slot recvfrom() is given: receiver() is the only writer of          *)
(* last_ring_write_index_, so its local next_write_index is this value     *)
(* until it publishes the slot.                                            *)
WriteSlot == NextLocation(last_ring_write_index_)

(* The slots between the read and the write index, as the processor sees   *)
(* them: both indices are -1 before the first packet.                      *)
Unread ==
    IF ring_read_index_ = -1 THEN last_ring_write_index_ + 1
    ELSE (last_ring_write_index_ - ring_read_index_) % RingSize

(* Datagrams between the kernel's queue and the processor. *)
Backlog == (arrived - taken) + Unread + (IF rpc = "publish" THEN 1 ELSE 0)

-----------------------------------------------------------------------------

Init ==
    /\ arrived = 0 /\ taken = 0
    /\ data = [i \in Slots |-> 0]
    /\ read = [i \in Slots |-> FALSE]
    /\ ring_read_index_ = -1 /\ last_ring_write_index_ = -1
    /\ should_stop_ = TRUE /\ active_ = FALSE
    /\ rpc = "exit" /\ ppc = "exit" /\ cpc = "idle"
    /\ hdr = 0
    /\ frames_ = <<>>
    /\ upc = [u \in Pullers |-> "idle"]
    /\ got = [u \in Pullers |-> <<>>]
    /\ starts = 0 /\ faults = 0

(* A datagram reaches the socket.  MaxBacklog bounds the burst. *)
Arrive ==
    /\ arrived < MaxPackets
    /\ Backlog < MaxBacklog
    /\ arrived' = arrived + 1
    /\ UNCHANGED <<taken, ringVars, stopVars, pullVars, rpc, ppc, hdr, frames_, faults>>

-----------------------------------------------------------------------------
(* start() and stop(), serialised by active_mutex_.                        *)

(* Mutant: a restart leaves should_stop_ as the last stop() set it. *)
StartMutant ==
    /\ cpc = "idle" /\ ~active_
    /\ starts < MaxStarts
    /\ should_stop_' = (starts > 0)
    /\ ppc' = "check" /\ rpc' = "poll"
    /\ active_' = TRUE
    /\ starts' = starts + 1
    /\ UNCHANGED <<sockVars, ringVars, pullVars, cpc, hdr, frames_, faults>>

(* start() returns at once when the flow is active. *)
Start ==
    /\ cpc = "idle" /\ ~active_
    /\ starts < MaxStarts
    /\ should_stop_' = FALSE
    /\ ppc' = "check" /\ rpc' = "poll"
    /\ active_' = TRUE
    /\ starts' = starts + 1
    /\ UNCHANGED <<sockVars, ringVars, pullVars, cpc, hdr, frames_, faults>>

StopRequest ==
    /\ cpc = "idle" /\ active_
    /\ should_stop_' = TRUE
    /\ cpc' = "notify"
    /\ UNCHANGED <<sockVars, ringVars, pullVars, active_, starts, rpc, ppc, hdr, frames_, faults>>

(* notify_all() and notify_one() reach the processor only while it is      *)
(* blocked in process_cond_.wait(); wait_mtx_ is not held by the notifier. *)
NotifyProcessor == ppc' = IF ppc = "wait" THEN "woken" ELSE ppc

StopNotify ==
    /\ cpc = "notify"
    /\ NotifyProcessor
    /\ cpc' = "joinReceiver"
    /\ UNCHANGED <<sockVars, ringVars, pullVars, should_stop_, active_, starts, rpc, hdr, frames_, faults>>

StopJoinReceiver ==
    /\ cpc = "joinReceiver" /\ rpc = "exit"
    /\ cpc' = "joinProcessor"
    /\ UNCHANGED <<sockVars, ringVars, pullVars, should_stop_, active_, starts, rpc, ppc, hdr, frames_, faults>>

(* Mutant: stop() does not join the processor. *)
StopJoinProcessorMutant ==
    /\ cpc = "joinProcessor"
    /\ cpc' = "clear"
    /\ UNCHANGED <<sockVars, ringVars, pullVars, should_stop_, active_, starts, rpc, ppc, hdr, frames_, faults>>

StopJoinProcessor ==
    /\ cpc = "joinProcessor" /\ ppc = "exit"
    /\ cpc' = "clear"
    /\ UNCHANGED <<sockVars, ringVars, pullVars, should_stop_, active_, starts, rpc, ppc, hdr, frames_, faults>>

(* clear_frames() and active_ = false, still under active_mutex_. *)
StopClear ==
    /\ cpc = "clear"
    /\ frames_' = <<>>
    /\ active_' = FALSE
    /\ cpc' = "idle"
    /\ UNCHANGED <<sockVars, ringVars, pullVars, should_stop_, starts, rpc, ppc, hdr, faults>>

-----------------------------------------------------------------------------
(* The receiver thread.                                                    *)

(* Mutant: the receiver tests should_stop_ only when poll() reports data. *)
ReceiverExitMutant ==
    /\ rpc = "poll" /\ should_stop_
    /\ taken < arrived
    /\ rpc' = "exit"
    /\ UNCHANGED <<sockVars, ringVars, stopVars, pullVars, ppc, hdr, frames_, faults>>

ReceiverExit ==
    /\ rpc = "poll" /\ should_stop_
    /\ rpc' = "exit"
    /\ UNCHANGED <<sockVars, ringVars, stopVars, pullVars, ppc, hdr, frames_, faults>>

(* poll() reports data; when it times out the loop only starts again. *)
ReceiverPoll ==
    /\ rpc = "poll" /\ ~should_stop_
    /\ taken < arrived
    /\ rpc' = "drain"
    /\ UNCHANGED <<sockVars, ringVars, stopVars, pullVars, ppc, hdr, frames_, faults>>

(* poll() fails: the loop is left without should_stop_ being set. *)
ReceiverPollFails ==
    /\ rpc = "poll" /\ ~should_stop_
    /\ faults < MaxFaults
    /\ faults' = faults + 1
    /\ rpc' = "exit"
    /\ UNCHANGED <<sockVars, ringVars, stopVars, pullVars, ppc, hdr, frames_>>

ReceiverDrainStops ==
    /\ rpc = "drain" /\ should_stop_
    /\ rpc' = "notify"
    /\ UNCHANGED <<sockVars, ringVars, stopVars, pullVars, ppc, hdr, frames_, faults>>

(* recvfrom() copies the next datagram into the slot. *)
ReceiverCopy ==
    /\ rpc = "drain" /\ ~should_stop_
    /\ taken < arrived
    /\ taken' = taken + 1
    /\ data' = [data EXCEPT ![WriteSlot] = taken + 1]
    /\ rpc' = "publish"
    /\ UNCHANGED <<arrived, read, ring_read_index_, last_ring_write_index_,
                   stopVars, pullVars, ppc, hdr, frames_, faults>>

(* recvfrom() stores the length; a datagram of length 0 ends the burst,    *)
(* any other one moves the write index.                                    *)
ReceiverPublish ==
    /\ rpc = "publish"
    /\ read' = [read EXCEPT ![WriteSlot] = taken \notin EmptyPackets]
    /\ \/ /\ taken \in EmptyPackets
          /\ rpc' = "notify"
          /\ UNCHANGED last_ring_write_index_
       \/ /\ taken \notin EmptyPackets
          /\ rpc' = "drain"
          /\ last_ring_write_index_' = WriteSlot
    /\ UNCHANGED <<sockVars, data, ring_read_index_, stopVars, pullVars, ppc, hdr, frames_, faults>>

(* EAGAIN: recvfrom() stores length 0 in the slot it was given. *)
ReceiverDrained ==
    /\ rpc = "drain" /\ ~should_stop_
    /\ taken = arrived
    /\ read' = [read EXCEPT ![WriteSlot] = FALSE]
    /\ rpc' = "notify"
    /\ UNCHANGED <<sockVars, data, ring_read_index_, last_ring_write_index_,
                   stopVars, pullVars, ppc, hdr, frames_, faults>>

(* Any other error of recvfrom() stops the flow from inside: length -1 in  *)
(* the slot, should_stop_ set, active_ left alone.                         *)
ReceiverRecvFails ==
    /\ rpc = "drain" /\ ~should_stop_
    /\ faults < MaxFaults
    /\ faults' = faults + 1
    /\ read' = [read EXCEPT ![WriteSlot] = FALSE]
    /\ should_stop_' = TRUE
    /\ rpc' = "notify"
    /\ UNCHANGED <<sockVars, data, ring_read_index_, last_ring_write_index_,
                   active_, cpc, starts, pullVars, ppc, hdr, frames_>>

ReceiverNotify ==
    /\ rpc = "notify"
    /\ NotifyProcessor
    /\ rpc' = "poll"
    /\ UNCHANGED <<sockVars, ringVars, stopVars, pullVars, hdr, frames_, faults>>

Receiver ==
    \/ ReceiverExit \/ ReceiverPoll \/ ReceiverDrainStops
    \/ ReceiverCopy \/ ReceiverPublish \/ ReceiverDrained
    \/ ReceiverNotify

ReceiverFault == ReceiverPollFails \/ ReceiverRecvFails

-----------------------------------------------------------------------------
(* The processor thread.                                                   *)

(* while (!should_stop_) *)
ProcessorCheck ==
    /\ ppc = "check"
    /\ ppc' = IF should_stop_ THEN "exit" ELSE "block"
    /\ UNCHANGED <<sockVars, ringVars, stopVars, pullVars, rpc, hdr, frames_, faults>>

(* process_cond_.wait(lk) without a predicate: a notification sent between *)
(* the loop's test and this step finds no waiter.                          *)
ProcessorBlock ==
    /\ ppc = "block"
    /\ ppc' = "wait"
    /\ UNCHANGED <<sockVars, ringVars, stopVars, pullVars, rpc, hdr, frames_, faults>>

(* A condition variable may wake its waiter without a notification. *)
SpuriousWakeup ==
    /\ ppc = "wait"
    /\ ppc' = "woken"
    /\ UNCHANGED <<sockVars, ringVars, stopVars, pullVars, rpc, hdr, frames_, faults>>

ProcessorWake ==
    /\ ppc = "woken"
    /\ ppc' = IF should_stop_ THEN "exit" ELSE "scan"
    /\ UNCHANGED <<sockVars, ringVars, stopVars, pullVars, rpc, hdr, frames_, faults>>

(* Mutant: the read index jumps to the newest packet. *)
ProcessorAdvanceMutant ==
    /\ ppc = "scan"
    /\ ring_read_index_ # last_ring_write_index_
    /\ ring_read_index_' = last_ring_write_index_
    /\ ppc' = "header"
    /\ UNCHANGED <<sockVars, data, read, last_ring_write_index_,
                   stopVars, pullVars, rpc, hdr, frames_, faults>>

(* The loop's test and the move of the read index are one step: no other   *)
(* thread reads ring_read_index_.                                          *)
ProcessorAdvance ==
    /\ ppc = "scan"
    /\ ring_read_index_ # last_ring_write_index_
    /\ ring_read_index_' = NextLocation(ring_read_index_)
    /\ ppc' = "header"
    /\ UNCHANGED <<sockVars, data, read, last_ring_write_index_,
                   stopVars, pullVars, rpc, hdr, frames_, faults>>

ProcessorScanned ==
    /\ ppc = "scan"
    /\ ring_read_index_ = last_ring_write_index_
    /\ ppc' = "check"
    /\ UNCHANGED <<sockVars, ringVars, stopVars, pullVars, rpc, hdr, frames_, faults>>

(* The slot holds a packet: the RTP handler parses its header in place. *)
ProcessorHeader ==
    /\ ppc = "header"
    /\ read[ring_read_index_]
    /\ hdr' = data[ring_read_index_]
    /\ ppc' = "payload"
    /\ UNCHANGED <<sockVars, ringVars, stopVars, pullVars, rpc, frames_, faults>>

(* The slot's length is not positive: "invalid frame in read buffer". *)
ProcessorInvalid ==
    /\ ppc = "header"
    /\ ~read[ring_read_index_]
    /\ ppc' = "scan"
    /\ UNCHANGED <<sockVars, ringVars, stopVars, pullVars, rpc, hdr, frames_, faults>>

(* The handler copies the payload out of the same slot and return_frame()  *)
(* appends the frame to frames_; a packet that fails the protocol checks   *)
(* gives no frame.                                                         *)
ProcessorPayload ==
    /\ ppc = "payload"
    /\ \/ /\ hdr \in Ignored
          /\ UNCHANGED frames_
       \/ /\ hdr \notin Ignored
          /\ frames_' = Append(frames_, [hdr |-> hdr, payload |-> data[ring_read_index_]])
    /\ ppc' = "clear"
    /\ UNCHANGED <<sockVars, ringVars, stopVars, pullVars, rpc, hdr, faults>>

(* Mutant: one packet per wakeup, an if where the code has a while. *)
ProcessorClearMutant ==
    /\ ppc = "clear"
    /\ read' = [read EXCEPT ![ring_read_index_] = FALSE]
    /\ ppc' = "check"
    /\ UNCHANGED <<sockVars, data, ring_read_index_, last_ring_write_index_,
                   stopVars, pullVars, rpc, hdr, frames_, faults>>

(* read = 0: "to make sure we don't process this packet again". *)
ProcessorClear ==
    /\ ppc = "clear"
    /\ read' = [read EXCEPT ![ring_read_index_] = FALSE]
    /\ ppc' = "scan"
    /\ UNCHANGED <<sockVars, data, ring_read_index_, last_ring_write_index_,
                   stopVars, pullVars, rpc, hdr, frames_, faults>>

Processor ==
    \/ ProcessorCheck \/ ProcessorBlock \/ ProcessorWake
    \/ ProcessorAdvance \/ ProcessorScanned
    \/ ProcessorHeader \/ ProcessorInvalid
    \/ ProcessorPayload \/ ProcessorClear

-----------------------------------------------------------------------------
(* pull_frame().                                                           *)

Pull(u) ==
    /\ upc[u] = "idle"
    /\ upc' = [upc EXCEPT ![u] = "spin"]
    /\ UNCHANGED <<sockVars, ringVars, stopVars, rpc, ppc, hdr, frames_, got, faults>>

(* Mutant: the wait for a frame does not look at should_stop_. *)
PullNothingMutant(u) ==
    /\ upc[u] = "spin"
    /\ u \in TimedPullers /\ frames_ = <<>>
    /\ upc' = [upc EXCEPT ![u] = "idle"]
    /\ UNCHANGED <<sockVars, ringVars, stopVars, rpc, ppc, hdr, frames_, got, faults>>

(* Sees should_stop_, or the timeout expires: returns nullptr. *)
PullNothing(u) ==
    /\ upc[u] = "spin"
    /\ should_stop_ \/ (u \in TimedPullers /\ frames_ = <<>>)
    /\ upc' = [upc EXCEPT ![u] = "idle"]
    /\ UNCHANGED <<sockVars, ringVars, stopVars, rpc, ppc, hdr, frames_, got, faults>>

(* Sees a frame on the list and goes on to lock frames_mtx_. *)
PullSees(u) ==
    /\ upc[u] = "spin"
    /\ ~should_stop_ /\ frames_ # <<>>
    /\ upc' = [upc EXCEPT ![u] = "lock"]
    /\ UNCHANGED <<sockVars, ringVars, stopVars, rpc, ppc, hdr, frames_, got, faults>>

(* Under the mutex the list is tested again: another thread may have       *)
(* emptied it, and then this call returns nullptr.                         *)
PullTakes(u) ==
    /\ upc[u] = "lock"
    /\ \/ /\ frames_ = <<>>
          /\ UNCHANGED <<frames_, got>>
       \/ /\ frames_ # <<>>
          /\ got' = [got EXCEPT ![u] = Append(@, Head(frames_))]
          /\ frames_' = Tail(frames_)
    /\ upc' = [upc EXCEPT ![u] = "idle"]
    /\ UNCHANGED <<sockVars, ringVars, stopVars, rpc, ppc, hdr, faults>>

Puller(u) == PullNothing(u) \/ PullSees(u) \/ PullTakes(u)

-----------------------------------------------------------------------------

Stopper == StopNotify \/ StopJoinReceiver \/ StopJoinProcessor \/ StopClear

Next ==
    \/ Arrive
    \/ Start \/ StopRequest \/ Stopper
    \/ Receiver \/ ReceiverFault
    \/ Processor \/ SpuriousWakeup
    \/ \E u \in Pullers : Pull(u) \/ Puller(u)

Spec == Init /\ [][Next]_vars

(* Every thread of the flow that can take a step eventually takes one.     *)
(* Nothing obliges a datagram to arrive, the application to call start(),  *)
(* stop() or pull_frame(), a call to fail, or a wakeup to be spurious.     *)
Fairness ==
    /\ WF_vars(Receiver)
    /\ WF_vars(Processor)
    /\ WF_vars(Stopper)
    /\ \A u \in Pullers : WF_vars(Puller(u))

FairSpec == Spec /\ Fairness
-----------------------------------------------------------------------------
(* Type correctness, in four parts: the flow's flags, the threads' control *)
(* state, the datagrams and the ring, the frames and who has them.         *)
FlagTypes == should_stop_ \in BOOLEAN /\ active_ \in BOOLEAN

ControlTypes ==
    /\ rpc \in {"poll", "drain", "publish", "notify", "exit"}
    /\ ppc \in {"check", "block", "wait", "woken", "scan", "header", "payload", "clear", "exit"}
    /\ cpc \in {"idle", "notify", "joinReceiver", "joinProcessor", "clear"}
    /\ starts \in 0 .. MaxStarts /\ faults \in 0 .. MaxFaults

RingTypes ==
    /\ arrived \in 0 .. MaxPackets /\ taken \in 0 .. arrived
    /\ data \in [Slots -> 0 .. MaxPackets]
    /\ read \in [Slots -> BOOLEAN]
    /\ ring_read_index_ \in -1 .. RingSize - 1
    /\ last_ring_write_index_ \in -1 .. RingSize - 1
    /\ hdr \in 0 .. MaxPackets

FrameTypes ==
    /\ frames_ \in Seq(Frame)
    /\ upc \in [Pullers -> {"idle", "spin", "lock"}]
    /\ got \in [Pullers -> Seq(Frame)]

TypeOK == FlagTypes /\ ControlTypes /\ RingTypes /\ FrameTypes

(* An inactive flow is safe to destroy: stop() does not return before both *)
(* threads have left their loops and the unpulled frames are freed, however*)
(* the threads and a failing socket interleave with it.                    *)
StoppedIsQuiescent ==
    ~active_ => rpc = "exit" /\ ppc = "exit" /\ frames_ = <<>>

(* A step of one flow thread never finds the other gone while stop() has   *)
(* not been asked for, except after a socket failure: receiver() and       *)
(* process_packet() leave their loops only for a stop or a fault.          *)
ThreadsOutliveTraffic ==
    active_ /\ cpc = "idle" /\ faults = 0 => rpc # "exit" /\ ppc # "exit" /\ ~should_stop_

(* The receiver does not write into the slot whose packet is being         *)
(* handled.  Nothing in the code enforces it (the call of                  *)
(* increase_buffer_size() is commented out): it rests on the processor     *)
(* being less than a ring behind.                                          *)
HandledSlotIsNotWritten ==
    rpc = "publish" /\ ppc \in {"header", "payload", "clear"} => WriteSlot # ring_read_index_

-----------------------------------------------------------------------------
(* The refinement mapping to FramePipe.                                    *)

Deliverable == Packets \ (EmptyPackets \cup Ignored)

(* The slot i places past slot r of the ring. *)
SlotAfter(r, i) == (r + i) % RingSize

(* The places, counted from the read index, of the packets that the ring   *)
(* still holds for the processor: the one in its hands and the unread ones.*)
Pending == (IF ppc \in {"header", "payload"} THEN 0 ELSE 1) .. Unread

(* The packets on their way: those pending in the ring, the one being      *)
(* written to a slot, the socket's queue.                                  *)
InFlight ==
    LET ring == {data[SlotAfter(ring_read_index_, i)] : i \in Pending}
        writing == IF rpc = "publish" THEN {taken} ELSE {}
    IN  (ring \cup writing \cup (taken + 1 .. arrived)) \cap Deliverable

(* A frame is the packet it was made from, if header and payload agree. *)
Whole(f) == IF f.hdr = f.payload THEN f.hdr ELSE 0
WholeSeq(s) == [i \in 1 .. Len(s) |-> Whole(s[i])]

Pipe == INSTANCE FramePipe WITH
    queue <- InFlight,
    frames <- WholeSeq(frames_),
    got <- [u \in Pullers |-> WholeSeq(got[u])]

(* As long as the processor is less than a ring behind, the two threads    *)
(* and the ring implement FramePipe: no frame torn between two datagrams,  *)
(* lost, repeated, out of order or given to two callers.                   *)
PipeSpec == Pipe!Spec

-----------------------------------------------------------------------------
(* Liveness. *)

(* The datagrams that receiver() has published and that no frame holds yet.*)
Unhandled == {data[SlotAfter(ring_read_index_, i)] : i \in Pending} \cap Deliverable

Handed(p) ==
    \/ \E i \in 1 .. Len(frames_) : Whole(frames_[i]) = p
    \/ \E u \in Pullers : \E i \in 1 .. Len(got[u]) : Whole(got[u][i]) = p

(* A wakeup that is lost between the processor's test and its wait delays  *)
(* a datagram and does not lose it: when a later notification finds the    *)
(* processor asleep, every datagram published by then becomes an intact    *)
(* frame, those stranded by an earlier notification included, unless the   *)
(* flow is stopped.  It says nothing of a last notification that is lost:  *)
(* with no further datagram what it announced stays in the ring.  Like     *)
(* PipeSpec it is about behaviours whose bursts leave two slots free.      *)
NextNotificationRepairs ==
    [](Backlog + 2 <= RingSize) => \A p \in Deliverable :
        (ppc = "wait" /\ rpc = "notify" /\ p \in Unhandled) ~> (Handed(p) \/ should_stop_)

(* stop() releases every thread that is blocked in pull_frame, unless the  *)
(* flow is started again before the thread looks: the caller of stop()     *)
(* need not wait for a frame to arrive before it can join that thread.     *)
StopReleasesPullers ==
    \A u \in Pullers :
        (upc[u] = "spin" /\ cpc # "idle") ~> (upc[u] = "idle" \/ ~should_stop_)

(* The receiver thread always obeys stop(): the first join returns. *)
ReceiverObeysStop == cpc = "joinReceiver" ~> rpc = "exit"

-----------------------------------------------------------------------------
(* What the comments of the source claim and the code does not do.         *)

(* reception_flow.hh:121, stop(): "Stop the RTP reception flow and wait    *)
(* until the receive loop is exited".  Its wakeup is lost when it comes    *)
(* between the processor's test of should_stop_ and its wait.              *)
StopReturns == cpc = "notify" ~> cpc = "idle"
=============================================================================
