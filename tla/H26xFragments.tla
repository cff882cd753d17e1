--------------------------- MODULE H26xFragments ---------------------------
(***************************************************************************)
(* An H.264 stream of uvgRTP: formats/h26x.cc with formats/h264.cc,        *)
(* frame_queue.cc and the sequence numbers of rtp.cc.  The sender cuts the *)
(* NAL units of an access unit into RTP packets of one timestamp; the      *)
(* receiver's packet_handler puts them together again.  Between them is a  *)
(* network that loses, repeats and reorders packets.                       *)
(*                                                                         *)
(* An access unit is its number, which stands for its timestamp; a packet  *)
(* is <<f, i>>, the i-th of access unit f; a NAL unit is the sequence of   *)
(* its parts.  Times are in units of the model's clock.                    *)
(***************************************************************************)
EXTENDS Integers, Sequences, FiniteSets, SequencesExt

CONSTANTS
  AccessUnits,     \* the access units pushed, each a sequence of NAL units [size, type]
  PayloadSize,     \* rtp_ctx_->get_payload_size(), in bytes
  SeqSpace,        \* sequence numbers are 0 .. SeqSpace - 1: 65536
  FirstNumbers,    \* the numbers a new stream may draw at random: all of them
  RECEIVED_FRAMES, \* packets remembered to detect duplicates: 450000
  GcInterval,      \* GARBAGE_COLLECTION_INTERVAL_MS: 100
  MaxDelay,        \* rtp_ctx_->get_pkt_max_delay(): 500
  KeepTrack,       \* TIME_TO_KEEP_TRACK_OF_PREVIOUS_FRAMES_MS: 5000
  Lag,             \* a packet is under way until Lag more access units are pushed
  Duplicates,      \* bound: how often the network repeats a packet
  Restarts,        \* bound: how often the sender starts again
  MaxTime          \* bound: the last clock reading

ASSUME FragmentsAssumption ==
  /\ SeqSpace \in Nat /\ SeqSpace > 1
  /\ FirstNumbers \subseteq 0 .. SeqSpace - 1
  /\ PayloadSize \in Nat /\ PayloadSize > 2
  /\ RECEIVED_FRAMES \in Nat
  /\ GcInterval \in Nat \ {0} /\ MaxDelay \in Nat /\ KeepTrack \in Nat
  /\ Lag \in Nat /\ Duplicates \in Nat /\ Restarts \in Nat /\ MaxTime \in Nat
  /\ AccessUnits \in Seq(Seq([size : Nat \ {0}, type : STRING]))

VARIABLES
  \* the sender
  pushed,          \* access units pushed so far
  seq_,            \* rtp::seq_, the next packet's sequence number
  base,            \* base[f]: the sequence number of the first packet of f
  next,            \* the packet of the open transaction to be sent next, 0: none is open
  \* the network
  net,             \* packets that can still reach the receiver
  copies,          \* packets repeated so far
  restarts,        \* restarts so far
  \* the receiver
  received_info_,  \* timestamp -> sequence numbers seen with it
  received_frames_,\* the timestamps of the packets seen, oldest first
  frames_,         \* timestamp -> what is known of an incomplete frame
  fragments_,      \* sequence number -> the fragment kept for it
  completed_ts_,   \* timestamp -> when the completed frame began
  dropped_ts_,     \* timestamp -> when the dropped frame began
  last_garbage_collection_,
  now,             \* the clock
  crashed,         \* a null fragment was dereferenced
  \* history
  delivered,       \* delivered[f]: the NAL units of f given to the flow, in that order
  arrived,         \* packets the receiver was given at least once
  collected,       \* access units whose incomplete frame was dropped
  clashed          \* a number was used again while a packet that had it was about

senderVars == <<pushed, seq_, base, next>>
seenVars   == <<received_info_, received_frames_>>
frameVars  == <<frames_, fragments_, completed_ts_, dropped_ts_,
                last_garbage_collection_, crashed, collected>>
vars == <<senderVars, net, copies, restarts, seenVars, frameVars, now, delivered, arrived, clashed>>

Units   == 1 .. Len(AccessUnits)
SeqNums == 0 .. SeqSpace - 1

(***************************************************************************)
(* The packets of an access unit.                                          *)
(***************************************************************************)
\* The size of the aggregation packet after each NAL unit has been considered: it
\* is added, with two bytes for its size, when it fits behind one byte of header.
AggregateSize(f) ==
  LET nals == AccessUnits[f]
      size[i \in 0 .. Len(nals)] ==
        IF i = 0 THEN 0
        ELSE IF size[i - 1] + nals[i].size + 2 <= PayloadSize - 1
             THEN size[i - 1] + nals[i].size + 2
             ELSE size[i - 1]
  IN size

\* The NAL units that travel in the aggregation packet: two at least.
Aggregated(f) ==
  LET fit == {i \in DOMAIN AccessUnits[f] : AggregateSize(f)[i] # AggregateSize(f)[i - 1]}
  IN IF Cardinality(fit) >= 2 THEN fit ELSE {}

\* The number of pieces of a NAL unit: one if it fits a packet; otherwise all but
\* its first byte is cut into pieces that leave room for two bytes of header.
Pieces(size) ==
  IF size <= PayloadSize THEN 1
  ELSE (size - 1 + PayloadSize - 3) \div (PayloadSize - 2)

NalPacketsMutant(f, nal) ==
  LET pieces == Pieces(AccessUnits[f][nal].size)
  IN [k \in 1 .. pieces |->
       [kind |-> CASE pieces = 1 -> "single"
                   [] pieces > 1 /\ k = 1 -> "start"
                   [] pieces > 1 /\ k > 1 -> "end"
                   [] OTHER -> "middle",
        type |-> AccessUnits[f][nal].type,
        units |-> << <<f, nal, k>> >>]]
NalPackets(f, nal) ==
  LET pieces == Pieces(AccessUnits[f][nal].size)
  IN [k \in 1 .. pieces |->
       [kind |-> CASE pieces = 1 -> "single"
                   [] pieces > 1 /\ k = 1 -> "start"
                   [] pieces > 1 /\ k = pieces -> "end"
                   [] OTHER -> "middle",
        type |-> AccessUnits[f][nal].type,
        units |-> << <<f, nal, k>> >>]]

AggregationPacket(f) ==
  IF Aggregated(f) = {} THEN <<>>
  ELSE << [kind |-> "aggregate", type |-> "none",
           units |-> LET nals == SetToSortSeq(Aggregated(f), <)
                     IN [i \in DOMAIN nals |-> <<f, nals[i], 1>>]] >>

Packets ==
  [f \in Units |->
    AggregationPacket(f)
      \o FlattenSeq([nal \in DOMAIN AccessUnits[f] |->
                       IF nal \in Aggregated(f) THEN <<>> ELSE NalPackets(f, nal)])]

Packet(p) == Packets[p[1]][p[2]]
AllPackets == UNION {{f} \X DOMAIN Packets[f] : f \in Units}
NoFragment == <<0, 0>>

\* inc_sequence(), n times, and the sequence number of a packet.
Wrap(n) == IF n >= SeqSpace THEN n - SeqSpace ELSE n
Number(p) == Wrap(base[p[1]] + p[2] - 1)

(***************************************************************************)
(* Initial state: the sender's number is random, the receiver is empty.    *)
(***************************************************************************)
Empty == [f \in {} |-> {}]

Init ==
  /\ pushed = 0 /\ seq_ \in FirstNumbers /\ base = [f \in Units |-> 0] /\ next = 0
  /\ net = {} /\ copies = 0 /\ restarts = 0
  /\ received_info_ = [f \in Units |-> {}] /\ received_frames_ = <<>>
  /\ frames_ = Empty /\ fragments_ = [s \in SeqNums |-> NoFragment]
  /\ completed_ts_ = Empty /\ dropped_ts_ = Empty
  /\ last_garbage_collection_ = 0 /\ now = 0 /\ crashed = FALSE
  /\ delivered = [f \in Units |-> <<>>] /\ arrived = {} /\ collected = {}
  /\ clashed = FALSE

(***************************************************************************)
(* The sender.                                                             *)
(***************************************************************************)
\* The packets that can still arrive when access unit f is pushed.
UnderWay(f) == {p \in net : p[1] + Lag >= f}

\* The numbers of the next packets belong to no packet that is still in the network
\* or kept by the receiver.  Nothing in the code sees to that: the 65536 numbers of
\* one stream take long to come round, but a stream that is created anew draws its
\* first number at random.
Fresh(f) ==
  \A i \in DOMAIN Packets[f] :
    LET s == Wrap(seq_ + i - 1)
    IN fragments_[s] = NoFragment /\ \A p \in UnderWay(f) : Number(p) # s

\* push_media_frame up to the flush: a transaction with a new timestamp, whose
\* packets have consecutive sequence numbers.
PushFrame ==
  LET f == pushed + 1
      n == Len(Packets[f])
  IN /\ f \in Units /\ next = 0 /\ 0 < n /\ n < SeqSpace
     /\ pushed' = f
     /\ net' = UnderWay(f)
     /\ clashed' = (clashed \/ ~Fresh(f))
     /\ base' = [base EXCEPT ![f] = seq_]
     /\ seq_' = Wrap(seq_ + n)
     /\ next' = 1
     /\ UNCHANGED <<copies, restarts, seenVars, frameVars, now, delivered, arrived>>

FollowingMutant == IF next > Len(Packets[pushed]) THEN 0 ELSE next + 1
Following == IF next = Len(Packets[pushed]) THEN 0 ELSE next + 1

\* flush_queue: one packet after the other ...
SendPacket ==
  /\ next > 0
  /\ net' = net \cup {<<pushed, next>>}
  /\ next' = Following
  /\ UNCHANGED <<pushed, seq_, base, copies, restarts, seenVars, frameVars, now, delivered, arrived, clashed>>

\* ... until sendto() fails, and deinit_transaction() forgets the others.
SendFails ==
  /\ next > 0
  /\ next' = 0
  /\ UNCHANGED <<pushed, seq_, base, net, copies, restarts, seenVars, frameVars, now, delivered, arrived, clashed>>

\* The application destroys its stream, perhaps after a failure, and creates one:
\* rtp::rtp() draws a new number.
Restart ==
  /\ next = 0 /\ restarts < Restarts /\ pushed > 0
  /\ restarts' = restarts + 1
  /\ seq_' \in FirstNumbers
  /\ UNCHANGED <<pushed, base, next, net, copies, seenVars, frameVars, now, delivered, arrived, clashed>>

(***************************************************************************)
(* The network and the clock.                                              *)
(***************************************************************************)
Lose(p) ==
  /\ net' = net \ {p}
  /\ UNCHANGED <<senderVars, copies, restarts, seenVars, frameVars, now, delivered, arrived, clashed>>

Tick ==
  /\ now < MaxTime
  /\ now' = now + 1
  /\ UNCHANGED <<senderVars, net, copies, restarts, seenVars, frameVars, delivered, arrived, clashed>>

(***************************************************************************)
(* The receiver.                                                           *)
(***************************************************************************)
Duplicate(p) == Number(p) \in received_info_[p[1]]

TooManyMutant(n) == n >= RECEIVED_FRAMES
TooMany(n) == n > RECEIVED_FRAMES

\* is_duplicate_frame() of a new packet: past the limit the oldest packet is
\* forgotten, with all that is known of its timestamp.
Remember(p) ==
  LET seen == [received_info_ EXCEPT ![p[1]] = @ \cup {Number(p)}]
      full == Append(received_frames_, p[1])
  IN IF TooMany(Len(full))
     THEN /\ received_info_' = [seen EXCEPT ![Head(full)] = {}]
          /\ received_frames_' = Tail(full)
     ELSE received_info_' = seen /\ received_frames_' = full

\* A timestamp whose frame has been dropped or completed.
ClosedMutant(f) == f \in DOMAIN dropped_ts_
Closed(f) == f \in DOMAIN dropped_ts_ \cup DOMAIN completed_ts_

\* calculate_expected_fus
ExpectedMutant(frame) ==
  IF frame.s_seq > frame.e_seq
  THEN SeqSpace - 1 - frame.s_seq + frame.e_seq + 1
  ELSE frame.e_seq - frame.s_seq + 1
Expected(frame) ==
  IF frame.s_seq > frame.e_seq
  THEN SeqSpace - 1 - frame.s_seq + frame.e_seq + 2
  ELSE frame.e_seq - frame.s_seq + 1

\* The fragment's frame, with the fragment in it.
WithFragment(p) ==
  LET s == Number(p)
      frame == IF p[1] \in DOMAIN frames_ THEN frames_[p[1]]
               ELSE [sframe_time |-> now, nal_type |-> Packet(p).type,
                     s_seq |-> -1, e_seq |-> -1, seqs |-> {}]
  IN [frame EXCEPT !.seqs = @ \cup {s},
                   !.s_seq = IF Packet(p).kind = "start" THEN s ELSE @,
                   !.e_seq = IF Packet(p).kind = "end" THEN s ELSE @]

IsComplete(frame) ==
  /\ frame.s_seq # -1 /\ frame.e_seq # -1
  /\ Expected(frame) = Cardinality(frame.seqs)

\* The slots the loop of reconstruction() visits: from s_seq until it meets
\* e_seq + 1, which is at once when they are equal.
Visited(frame) ==
  LET n == IF Wrap(frame.e_seq + 1) = frame.s_seq THEN 0 ELSE Expected(frame)
  IN [k \in 1 .. n |-> Wrap(frame.s_seq + k - 1)]

\* A packet of the kinds "single" and "aggregate" is given to the flow at once.
DeliverNow(p) ==
  /\ delivered' = [delivered EXCEPT ![p[1]] =
                     @ \o [i \in DOMAIN Packet(p).units |-> <<Packet(p).units[i]>>]]
  /\ UNCHANGED frameVars

\* free_fragment(), for each of a set of numbers.
FreedMutant(slots, seqs) == slots
Freed(slots, seqs) == [s \in SeqNums |-> IF s \in seqs THEN NoFragment ELSE slots[s]]

\* reconstruction(): the fragments are copied and freed one by one.  At a slot that
\* is empty it gives up, and leaves the frame as it is.
Reconstruct(f, frame, slots) ==
  LET visited == Visited(frame)
      gaps == {k \in DOMAIN visited : slots[visited[k]] = NoFragment}
      freed == {visited[k] : k \in {j \in DOMAIN visited : \A g \in gaps : j < g}}
  IN /\ fragments_' = Freed(slots, freed)
     /\ IF gaps = {}
        THEN /\ delivered' = [delivered EXCEPT ![f] =
                  Append(@, [k \in DOMAIN visited |-> Packet(slots[visited[k]]).units[1]])]
             /\ completed_ts_' = [t \in DOMAIN completed_ts_ \cup {f} |->
                  IF t = f THEN frame.sframe_time ELSE completed_ts_[t]]
             /\ frames_' = [t \in DOMAIN frames_ \ {f} |-> frames_[t]]
        ELSE /\ frames_' = [t \in DOMAIN frames_ \cup {f} |->
                  IF t = f THEN frame ELSE frames_[t]]
             /\ UNCHANGED <<completed_ts_, delivered>>
     /\ UNCHANGED <<dropped_ts_, last_garbage_collection_, crashed, collected>>

CollectionDueMutant == now - last_garbage_collection_ > GcInterval
CollectionDue == now - last_garbage_collection_ >= GcInterval

Remembered(times) == {t \in DOMAIN times : now - times[t] <= KeepTrack}

\* garbage_collect_lost_frames() after a fragment that completed nothing: frames
\* that began too long ago are dropped with their fragments, each of which is
\* dereferenced; old entries of the two lists are forgotten.
Collect(f, frame, slots) ==
  LET known == [t \in DOMAIN frames_ \cup {f} |-> IF t = f THEN frame ELSE frames_[t]]
      old == {t \in DOMAIN known : now - known[t].sframe_time > MaxDelay}
      freed == UNION {known[t].seqs : t \in old}
      dropped == [t \in DOMAIN dropped_ts_ \cup old |->
                    IF t \in old THEN known[t].sframe_time ELSE dropped_ts_[t]]
  IN /\ UNCHANGED delivered
     /\ IF CollectionDue
        THEN /\ crashed' = \/ \E s \in freed : slots[s] = NoFragment
                           \/ \E t, u \in old : t # u /\ known[t].seqs \cap known[u].seqs # {}
             /\ frames_' = [t \in DOMAIN known \ old |-> known[t]]
             /\ fragments_' = Freed(slots, freed)
             /\ completed_ts_' = [t \in Remembered(completed_ts_) |-> completed_ts_[t]]
             /\ dropped_ts_' = [t \in Remembered(dropped) |-> dropped[t]]
             /\ last_garbage_collection_' = now
             /\ collected' = collected \cup old
        ELSE /\ frames_' = known /\ fragments_' = slots
             /\ UNCHANGED <<completed_ts_, dropped_ts_, last_garbage_collection_, crashed, collected>>

\* A fragment: it is kept in the slot of its number, whatever that slot held.
KeepFragment(p) ==
  LET frame == WithFragment(p)
      slots == [fragments_ EXCEPT ![Number(p)] = p]
  IN IF IsComplete(frame) THEN Reconstruct(p[1], frame, slots) ELSE Collect(p[1], frame, slots)

\* A fragment the frame has already, or of another NAL type than the frame's.
Rejected(p) ==
  /\ p[1] \in DOMAIN frames_
  /\ \/ Number(p) \in frames_[p[1]].seqs
     \/ Packet(p).type # frames_[p[1]].nal_type

\* packet_handler
Handle(p) ==
  IF Duplicate(p) THEN UNCHANGED <<seenVars, frameVars, delivered>>
  ELSE /\ Remember(p)
       /\ IF Closed(p[1])
          THEN UNCHANGED <<frameVars, delivered>>
          ELSE IF Packet(p).kind \in {"single", "aggregate"} THEN DeliverNow(p)
          ELSE IF Rejected(p) THEN UNCHANGED <<frameVars, delivered>>
          ELSE KeepFragment(p)

\* The network hands over a packet, and may keep a copy of it.
Receive(p) ==
  /\ \/ net' = net \ {p} /\ UNCHANGED copies
     \/ copies < Duplicates /\ copies' = copies + 1 /\ UNCHANGED net
  /\ Handle(p)
  /\ arrived' = arrived \cup {p}
  /\ UNCHANGED <<senderVars, restarts, now, clashed>>

Next ==
  /\ ~crashed
  /\ \/ PushFrame
     \/ SendPacket
     \/ SendFails
     \/ Restart
     \/ Tick
     \/ \E p \in net : Lose(p)
     \/ \E p \in net : Receive(p)

Spec == Init /\ [][Next]_vars

(***************************************************************************)
(* Properties.                                                             *)
(***************************************************************************)
Times == 0 .. MaxTime
Frame == [sframe_time : Times, nal_type : STRING,
          s_seq : {-1} \cup SeqNums, e_seq : {-1} \cup SeqNums, seqs : SUBSET SeqNums]

\* Every variable has its type: slots hold fragments, frames have numbers.
TypeOK ==
  /\ pushed \in 0 .. Len(AccessUnits) /\ seq_ \in SeqNums
  /\ base \in [Units -> SeqNums] /\ next \in Nat
  /\ net \subseteq AllPackets /\ arrived \subseteq AllPackets
  /\ copies \in 0 .. Duplicates /\ restarts \in 0 .. Restarts
  /\ received_info_ \in [Units -> SUBSET SeqNums] /\ received_frames_ \in Seq(Units)
  /\ DOMAIN frames_ \subseteq Units /\ frames_ \in [DOMAIN frames_ -> Frame]
  /\ fragments_ \in [SeqNums -> AllPackets \cup {NoFragment}]
  /\ DOMAIN completed_ts_ \subseteq Units /\ completed_ts_ \in [DOMAIN completed_ts_ -> Times]
  /\ DOMAIN dropped_ts_ \subseteq Units /\ dropped_ts_ \in [DOMAIN dropped_ts_ -> Times]
  /\ last_garbage_collection_ \in Times /\ now \in Times /\ crashed \in BOOLEAN
  /\ clashed \in BOOLEAN
  /\ collected \subseteq Units
  /\ delivered \in [Units -> Seq(Seq(Units \X (Nat \ {0}) \X (Nat \ {0})))]

WholeNal(f, nal) == [k \in 1 .. Pieces(AccessUnits[f][nal].size) |-> <<f, nal, k>>]
NalUnits(f) == {WholeNal(f, nal) : nal \in DOMAIN AccessUnits[f]}

\* What packet_handler gives to the flow is a NAL unit that was pushed, all of it
\* and nothing else, whatever the network does to its packets and wherever the
\* sequence numbers wrap.  It says nothing once numbers have clashed: then the loop
\* of reconstruction() can take up another frame's fragment.
WholeFrames == ~clashed => \A f \in Units : ToSet(delivered[f]) \subseteq NalUnits(f)

\* A number on record for an incomplete frame names a slot that holds a fragment of
\* that frame.
RecordsBelong == \A f \in DOMAIN frames_ : \A s \in frames_[f].seqs : fragments_[s][1] = f

\* A fragment is on record with the incomplete frame it belongs to, which frees it
\* when it is completed or dropped.
FragmentsRecorded ==
  \A s \in SeqNums : fragments_[s] # NoFragment =>
    /\ fragments_[s][1] \in DOMAIN frames_
    /\ s \in frames_[fragments_[s][1]].seqs

\* The two tables agree.  Whatever numbers a sender that starts again draws, no
\* fragment is left behind that no frame would ever free.  As long as its numbers
\* do not clash with those of packets that are about, no number on record is that of
\* a fragment freed under another frame, and so no null pointer is dereferenced in
\* drop_frame(); after a clash one can be.
FragmentsBelong ==
  /\ FragmentsRecorded
  /\ ~clashed => ~crashed /\ RecordsBelong

\* A frame that was completed or dropped is not opened again by a late or repeated
\* fragment while it is on the list kept for that purpose.  A fragment that comes after
\* its entry has expired opens the frame again, and StaleFramesAreCollected is all that
\* then bounds the frame's life.
ClosedFramesStayClosed ==
  DOMAIN frames_ \cap (DOMAIN completed_ts_ \cup DOMAIN dropped_ts_) = {}

\* A NAL unit is given to the flow at most once, though packets are repeated and the
\* memory for repeated packets is bounded.  Numbers must not have clashed.
AtMostOnce == ~clashed => \A f \in Units : IsInjective(delivered[f])

\* A NAL unit whose packets have all arrived has been given to the flow, whatever was
\* lost or late around it, unless its frame took too long and was dropped, or numbers
\* have clashed.
EveryNalArrives ==
  ~clashed => \A f \in 1 .. pushed : \A nal \in DOMAIN AccessUnits[f] :
    LET carriers == {p \in {f} \X DOMAIN Packets[f] :
                       \E u \in ToSet(Packet(p).units) : u[2] = nal}
    IN (carriers \subseteq arrived /\ f \notin collected)
         => WholeNal(f, nal) \in ToSet(delivered[f])

\* When a fragment has been kept that completes nothing, no incomplete frame is older
\* than the allowed delay and the interval of the garbage collection together.  After
\* a clash of numbers a frame can be complete by its count and have an empty slot:
\* then nothing is collected.
StaleFramesAreCollected ==
  [][frames_' # frames_ /\ delivered' = delivered /\ ~clashed'
       => \A f \in DOMAIN frames_' :
            now - frames_'[f].sframe_time < MaxDelay + GcInterval]_vars
=============================================================================
