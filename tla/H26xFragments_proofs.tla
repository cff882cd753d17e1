----------------------- MODULE H26xFragments_proofs -----------------------
(***************************************************************************)
(* What H26xFragments promises for every number of access units, every     *)
(* size, every range of sequence numbers and every behaviour of the        *)
(* network, when an access unit is pushed as one NAL unit, which is what   *)
(* RTP_NO_H26X_SCL asks for and what the media library always does.        *)
(***************************************************************************)
EXTENDS H26xFragments, FiniteSetTheorems, TLAPS

OneNal == \A f \in Units : Len(AccessUnits[f]) = 1

(***************************************************************************)
(* The packets of an access unit of one NAL unit.                          *)
(***************************************************************************)
Count(f) == Pieces(AccessUnits[f][1].size)

\* Flattening a sequence of one sequence gives that sequence.
LEMMA FlattenOne ==
  ASSUME NEW s, Len(s) = 1
  PROVE  FlattenSeq(s) = s[1]
<1> DEFINE F(g) == [i \in 1 .. Len(s) |-> IF i = 1 THEN s[i] ELSE g[i - 1] \o s[i]]
           flat == CHOOSE g : g = F(g)
<1>1. FlattenSeq(s) = IF Len(s) = 0 THEN s ELSE flat[Len(s)]
  BY DEF FlattenSeq
<1>2. [i \in 1 .. 1 |-> s[1]] = F([i \in 1 .. 1 |-> s[1]])
  OBVIOUS
<1>3. flat = F(flat)
  BY <1>2
<1> QED
  BY <1>1, <1>3

\* The loop that cuts a NAL unit makes a natural number of pieces.
LEMMA PiecesType ==
  ASSUME NEW size \in Nat \ {0}
  PROVE  Pieces(size) \in Nat
<1>1. ASSUME NEW a \in Nat, NEW b \in Nat, b > 0
      PROVE  a \div b \in Nat
  BY <1>1
<1>2. CASE size <= PayloadSize
  BY <1>2, FragmentsAssumption DEF Pieces
<1>3. CASE ~(size <= PayloadSize)
  <2>1. size - 1 + PayloadSize - 3 \in Nat /\ PayloadSize - 2 \in Nat /\ PayloadSize - 2 > 0
    BY <1>3, FragmentsAssumption
  <2> QED
    BY <1>1, <1>3, <2>1 DEF Pieces
<1> QED
  BY <1>2, <1>3

LEMMA OneUnit ==
  ASSUME OneNal, NEW f \in Units
  PROVE  /\ AccessUnits[f] \in Seq([size : Nat \ {0}, type : STRING])
         /\ DOMAIN AccessUnits[f] = {1}
         /\ AccessUnits[f][1].size \in Nat \ {0}
         /\ AccessUnits[f][1].type \in STRING
<1>1. /\ AccessUnits[f] \in Seq([size : Nat \ {0}, type : STRING])
      /\ DOMAIN AccessUnits[f] = {1}
  BY FragmentsAssumption DEF OneNal, Units
<1>2. AccessUnits[f][1] \in [size : Nat \ {0}, type : STRING]
  <2>1. ASSUME NEW S, NEW q \in Seq(S), 1 \in DOMAIN q
        PROVE  q[1] \in S
    BY <2>1
  <2> QED
    BY <1>1, <2>1
<1> QED
  BY <1>1, <1>2

\* One NAL unit is never aggregated: its packets are its pieces, in order.
LEMMA OnePlan ==
  ASSUME OneNal, NEW f \in Units
  PROVE  /\ DOMAIN AccessUnits[f] = {1}
         /\ Count(f) \in Nat
         /\ Packets[f] = NalPackets(f, 1)
         /\ DOMAIN Packets[f] = 1 .. Count(f)
         /\ Len(Packets[f]) = Count(f)
<1>1. /\ AccessUnits[f] \in Seq([size : Nat \ {0}, type : STRING])
      /\ DOMAIN AccessUnits[f] = {1}
  BY OneUnit
<1>2. Count(f) \in Nat
  BY OneUnit, PiecesType DEF Count
<1>3. Aggregated(f) = {}
  <2> DEFINE fit == {i \in DOMAIN AccessUnits[f] :
                       AggregateSize(f)[i] # AggregateSize(f)[i - 1]}
  <2>1. fit \subseteq {1}
    BY <1>1
  <2>2. IsFiniteSet({1}) /\ Cardinality({1}) = 1
    BY FS_Singleton
  <2>3. Cardinality(fit) <= 1 /\ Cardinality(fit) \in Nat
    BY <2>1, <2>2, FS_Subset, FS_CardinalityType
  <2> HIDE DEF fit
  <2>4. ~(Cardinality(fit) >= 2)
    BY <2>3
  <2> QED
    BY <2>4 DEF Aggregated, fit
<1>4. NalPackets(f, 1) = [k \in 1 .. Count(f) |-> NalPackets(f, 1)[k]]
  BY DEF NalPackets, Count
<1>5. /\ DOMAIN NalPackets(f, 1) = 1 .. Count(f)
      /\ Len(NalPackets(f, 1)) = Count(f)
      /\ <<>> \o NalPackets(f, 1) = NalPackets(f, 1)
  BY <1>2, <1>4
<1>6. Packets[f] = NalPackets(f, 1)
  <2> DEFINE s == [nal \in DOMAIN AccessUnits[f] |->
                     IF nal \in Aggregated(f) THEN <<>> ELSE NalPackets(f, nal)]
  <2>1. s = [nal \in 1 .. 1 |-> NalPackets(f, 1)]
    BY <1>1, <1>3
  <2>2. Len(s) = 1 /\ s[1] = NalPackets(f, 1)
    BY <2>1
  <2>3. FlattenSeq(s) = NalPackets(f, 1)
    <3> HIDE DEF s
    <3> QED
      BY <2>2, FlattenOne
  <2>4. AggregationPacket(f) = <<>>
    BY <1>3 DEF AggregationPacket
  <2>5. Packets[f] = AggregationPacket(f) \o FlattenSeq(s)
    BY DEF Packets
  <2> QED
    BY <1>5, <2>3, <2>4, <2>5
<1> QED
  BY <1>1, <1>2, <1>5, <1>6

\* The marks on the packets: the first piece has the start bit, the last the end bit.
LEMMA OneKinds ==
  ASSUME OneNal, NEW f \in Units, NEW k \in DOMAIN Packets[f]
  PROVE  /\ Packets[f][k].units = << <<f, 1, k>> >>
         /\ Packets[f][k].type = AccessUnits[f][1].type
         /\ Packets[f][k].type \in STRING
         /\ Packets[f][k].kind \in {"single", "start", "middle", "end"}
         /\ Packets[f][k].kind = "single" => Count(f) = 1
         /\ Packets[f][k].kind = "start" => k = 1
         /\ Packets[f][k].kind = "end" => k = Count(f)
         /\ Count(f) = 1 => Packets[f][k].kind = "single"
         /\ Count(f) > 1 /\ k = 1 => Packets[f][k].kind = "start"
         /\ Count(f) > 1 /\ k = Count(f) => Packets[f][k].kind = "end"
<1>1. k \in 1 .. Count(f) /\ Packets[f][k] = NalPackets(f, 1)[k] /\ Count(f) \in Nat
  BY OnePlan
<1>2. AccessUnits[f][1].type \in STRING
  BY OneUnit
<1>3. NalPackets(f, 1)[k] =
        [kind |-> CASE Count(f) = 1 -> "single"
                    [] Count(f) > 1 /\ k = 1 -> "start"
                    [] Count(f) > 1 /\ k = Count(f) -> "end"
                    [] OTHER -> "middle",
         type |-> AccessUnits[f][1].type, units |-> << <<f, 1, k>> >>]
  BY <1>1 DEF NalPackets, Count
<1> QED
  BY <1>1, <1>2, <1>3

(***************************************************************************)
(* Numbers.  The packets of f have consecutive numbers from base[f].       *)
(***************************************************************************)
Numbers(f) == {Wrap(base[f] + k - 1) : k \in 1 .. Count(f)}

\* Fewer packets than numbers: no two have the same.
LEMMA WrapInjective ==
  ASSUME NEW b \in SeqNums, NEW n \in Nat, n < SeqSpace,
         NEW j \in 1 .. n, NEW k \in 1 .. n, Wrap(b + j - 1) = Wrap(b + k - 1)
  PROVE  j = k
BY FragmentsAssumption DEF Wrap, SeqNums

LEMMA WrapType ==
  ASSUME NEW b \in SeqNums, NEW n \in 0 .. SeqSpace
  PROVE  Wrap(b + n) \in SeqNums
BY FragmentsAssumption DEF Wrap, SeqNums

\* calculate_expected_fus() is right between the numbers of the first and the last
\* of n packets, also when the numbers wrap.
LEMMA ExpectedIsCount ==
  ASSUME NEW b \in SeqNums, NEW n \in Nat \ {0}, n < SeqSpace,
         NEW frame, frame.s_seq = b, frame.e_seq = Wrap(b + n - 1)
  PROVE  /\ Expected(frame) = n
         /\ Visited(frame) = [k \in 1 .. n |-> Wrap(b + k - 1)]
<1>1. Expected(frame) = n
  BY FragmentsAssumption DEF Expected, Wrap, SeqNums
<1>2. Wrap(Wrap(b + n - 1) + 1) # b
  BY FragmentsAssumption DEF Wrap, SeqNums
<1> QED
  BY <1>1, <1>2 DEF Visited

\* Fewer packets than numbers: as many numbers as packets.
LEMMA NumbersCount ==
  ASSUME NEW b \in SeqNums, NEW n \in Nat, n < SeqSpace
  PROVE  /\ IsFiniteSet({Wrap(b + k - 1) : k \in 1 .. n})
         /\ Cardinality({Wrap(b + k - 1) : k \in 1 .. n}) = n
<1> DEFINE all == {Wrap(b + k - 1) : k \in 1 .. n}
           number == [k \in 1 .. n |-> Wrap(b + k - 1)]
<1>1. IsFiniteSet(1 .. n) /\ Cardinality(1 .. n) = n
  BY FS_Interval
<1>2. number \in Surjection(1 .. n, all)
  BY DEF Surjection
<1>3. number \in Bijection(1 .. n, all)
  <2>1. \A j, k \in 1 .. n : Wrap(b + j - 1) = Wrap(b + k - 1) => j = k
    BY WrapInjective
  <2>2. \A j, k \in 1 .. n : number[j] = number[k] => j = k
    BY <2>1
  <2> HIDE DEF number, all
  <2> QED
    BY <1>2, <2>2 DEF Bijection, Injection, Surjection, IsInjective
<1> HIDE DEF number, all
<1>4. IsFiniteSet(all) /\ Cardinality(all) = n
  BY <1>1, <1>3, FS_Bijection DEF ExistsBijection
<1> QED
  BY <1>4 DEF all

\* As many numbers as there are packets, all of them numbers of packets: all numbers.
LEMMA AllNumbers ==
  ASSUME NEW b \in SeqNums, NEW n \in Nat, n < SeqSpace,
         NEW S \in SUBSET {Wrap(b + k - 1) : k \in 1 .. n}, Cardinality(S) = n
  PROVE  S = {Wrap(b + k - 1) : k \in 1 .. n}
BY NumbersCount, FS_Subset

(***************************************************************************)
(* The invariant of the reassembly: Good says that a table of frames and a *)
(* table of slots describe one another, and that what a frame knows is     *)
(* true of the packets the sender made of it.                              *)
(***************************************************************************)
GoodFrame(t, frame) ==
  /\ frame \in Frame
  /\ frame.seqs \subseteq Numbers(t)
  /\ frame.s_seq \in {-1, base[t]}
  /\ frame.e_seq \in {-1, Wrap(base[t] + Count(t) - 1)}

GoodSlot(s, fs, p) ==
  /\ p \in AllPackets /\ Number(p) = s
  /\ p[1] \in DOMAIN fs /\ s \in fs[p[1]].seqs

Good(fs, slots) ==
  /\ DOMAIN fs \subseteq 1 .. pushed
  /\ fs = [t \in DOMAIN fs |-> fs[t]]
  /\ \A t \in DOMAIN fs : GoodFrame(t, fs[t])
  /\ slots \in [SeqNums -> AllPackets \cup {NoFragment}]
  /\ \A t \in DOMAIN fs : \A s \in fs[t].seqs : slots[s] # NoFragment /\ slots[s][1] = t
  /\ \A s \in SeqNums : slots[s] # NoFragment => GoodSlot(s, fs, slots[s])

\* Dropping frames with the fragments they have numbers of leaves good tables, and
\* meets no null fragment.
LEMMA DropGood ==
  ASSUME NEW fs, NEW slots, Good(fs, slots),
         NEW old \in SUBSET DOMAIN fs,
         NEW freed, freed = UNION {fs[t].seqs : t \in old},
         NEW fs2, fs2 = [t \in DOMAIN fs \ old |-> fs[t]]
  PROVE  /\ Good(fs2, Freed(slots, freed))
         /\ \A s \in freed : slots[s] # NoFragment
         /\ \A t, u \in old : t # u => fs[t].seqs \cap fs[u].seqs = {}
<1> DEFINE slots2 == Freed(slots, freed)
<1>1. \A s \in freed : slots[s] # NoFragment
  BY DEF Good
<1>2. \A t, u \in old : t # u => fs[t].seqs \cap fs[u].seqs = {}
  BY DEF Good
<1>3. slots2 \in [SeqNums -> AllPackets \cup {NoFragment}]
  BY DEF Good, Freed
<1>4. \A s \in SeqNums : slots2[s] # NoFragment => s \notin freed /\ slots2[s] = slots[s]
  BY DEF Freed
<1>5. ASSUME NEW t \in DOMAIN fs2, NEW s \in fs2[t].seqs
      PROVE  slots2[s] # NoFragment /\ slots2[s][1] = t
  <2>1. slots[s] # NoFragment /\ slots[s][1] = t /\ s \in SeqNums
    BY <1>5 DEF Good, GoodFrame, Frame
  <2>2. s \notin freed
    BY <1>5, <2>1 DEF Good
  <2> QED
    BY <2>1, <2>2 DEF Freed
<1>6. ASSUME NEW s \in SeqNums, slots2[s] # NoFragment
      PROVE  GoodSlot(s, fs2, slots2[s])
  <2>1. GoodSlot(s, fs, slots[s]) /\ s \notin freed /\ slots2[s] = slots[s]
    BY <1>4, <1>6 DEF Good
  <2>2. slots[s][1] \notin old
    BY <2>1 DEF GoodSlot
  <2> QED
    BY <2>1, <2>2 DEF GoodSlot
<1>7. /\ DOMAIN fs2 \subseteq 1 .. pushed
      /\ fs2 = [t \in DOMAIN fs2 |-> fs2[t]]
      /\ \A t \in DOMAIN fs2 : GoodFrame(t, fs2[t])
  BY DEF Good
<1>8. Good(fs2, slots2)
  <2> HIDE DEF slots2
  <2> QED
    BY <1>3, <1>5, <1>6, <1>7 DEF Good
<1> QED
  BY <1>1, <1>2, <1>8

(***************************************************************************)
(* The inductive invariant.                                                *)
(***************************************************************************)
\* The packets that exist: under way, still to be sent, or kept.
Unsent == {q \in AllPackets : next > 0 /\ q[1] = pushed /\ q[2] >= next}
Kept == {fragments_[s] : s \in SeqNums} \ {NoFragment}
Live == net \cup Unsent \cup Kept

\* Two packets that exist have one number only if they are of one access unit.
Distinct ==
  /\ \A q \in Live : q[1] \in 1 .. pushed
  /\ \A q, r \in Live : Number(q) = Number(r) => q[1] = r[1]

SenderInv ==
  /\ \A f \in 1 .. pushed : Count(f) > 0 /\ Count(f) < SeqSpace
  /\ next > 0 => pushed > 0 /\ next <= Count(pushed)

FrameType ==
  /\ DOMAIN completed_ts_ \subseteq Units /\ completed_ts_ \in [DOMAIN completed_ts_ -> Times]
  /\ DOMAIN dropped_ts_ \subseteq Units /\ dropped_ts_ \in [DOMAIN dropped_ts_ -> Times]
  /\ last_garbage_collection_ \in Times
  /\ collected \subseteq Units
  /\ delivered \in [Units -> Seq(Seq(Units \X (Nat \ {0}) \X (Nat \ {0})))]

\* No frame was overdue at the last collection.
Young(fs, gc) ==
  \A t \in DOMAIN fs : fs[t].sframe_time <= now /\ gc <= fs[t].sframe_time + MaxDelay

\* What has been given to the flow are NAL units that were pushed.
Whole == \A f \in Units : ToSet(delivered[f]) \subseteq NalUnits(f)

ReceiverInv ==
  /\ FrameType
  /\ Good(frames_, fragments_)
  /\ crashed = FALSE
  /\ Young(frames_, last_garbage_collection_)
  /\ last_garbage_collection_ <= now
  /\ Whole

IInv == TypeOK /\ SenderInv /\ Distinct /\ ReceiverInv

\* The tables once a fragment has been kept.
KnownFrames(p) ==
  [t \in DOMAIN frames_ \cup {p[1]} |-> IF t = p[1] THEN WithFragment(p) ELSE frames_[t]]
KeptSlots(p) == [fragments_ EXCEPT ![Number(p)] = p]
IsFragment(p) == Packet(p).kind \notin {"single", "aggregate"}

LEMMA NetFacts ==
  ASSUME OneNal, TypeOK, SenderInv, NEW p \in net, p[1] \in 1 .. pushed
  PROVE  /\ p \in AllPackets /\ p = <<p[1], p[2]>> /\ p # NoFragment
         /\ p[1] \in Units /\ p[1] \in 1 .. pushed /\ p[2] \in 1 .. Count(p[1])
         /\ Count(p[1]) \in Nat \ {0} /\ Count(p[1]) < SeqSpace
         /\ base[p[1]] \in SeqNums
         /\ Number(p) \in SeqNums /\ Number(p) \in Numbers(p[1])
         /\ Packet(p).kind = "start" => Number(p) = base[p[1]]
         /\ Packet(p).kind = "end" => Number(p) = Wrap(base[p[1]] + Count(p[1]) - 1)
<1>1. p \in AllPackets /\ p[1] \in 1 .. pushed
  BY DEF TypeOK
<1>2. p = <<p[1], p[2]>> /\ p[1] \in Units /\ p[2] \in DOMAIN Packets[p[1]]
  BY <1>1 DEF AllPackets
<1>3. /\ p[2] \in 1 .. Count(p[1]) /\ Count(p[1]) \in Nat
      /\ Count(p[1]) > 0 /\ Count(p[1]) < SeqSpace
  BY <1>1, <1>2, OnePlan DEF SenderInv
<1>4. base[p[1]] \in SeqNums
  BY <1>2 DEF TypeOK
<1>5. Number(p) = Wrap(base[p[1]] + p[2] - 1)
  BY DEF Number
<1>6. Number(p) \in SeqNums
  <2>1. p[2] - 1 \in 0 .. SeqSpace /\ base[p[1]] + (p[2] - 1) = base[p[1]] + p[2] - 1
    BY <1>3, <1>4, FragmentsAssumption DEF SeqNums
  <2>2. Wrap(base[p[1]] + (p[2] - 1)) \in SeqNums
    BY <1>4, <2>1, WrapType
  <2> QED
    BY <1>5, <2>1, <2>2
<1>7. Number(p) \in Numbers(p[1])
  BY <1>3, <1>5 DEF Numbers
<1>8. Packet(p).kind = "start" => p[2] = 1
  BY <1>2, OneKinds DEF Packet
<1>9. Packet(p).kind = "end" => p[2] = Count(p[1])
  BY <1>2, OneKinds DEF Packet
<1>10. Wrap(base[p[1]] + 1 - 1) = base[p[1]]
  BY <1>4, FragmentsAssumption DEF Wrap, SeqNums
<1>11. p # NoFragment
  BY <1>2 DEF NoFragment, Units
<1> QED
  BY <1>1, <1>2, <1>3, <1>4, <1>5, <1>6, <1>7, <1>8, <1>9, <1>10, <1>11

LEMMA PacketFacts ==
  ASSUME OneNal, IInv, NEW p \in net
  PROVE  /\ p \in AllPackets /\ p = <<p[1], p[2]>> /\ p # NoFragment
         /\ p[1] \in Units /\ p[1] \in 1 .. pushed /\ p[2] \in 1 .. Count(p[1])
         /\ Count(p[1]) \in Nat \ {0} /\ Count(p[1]) < SeqSpace
         /\ base[p[1]] \in SeqNums
         /\ Number(p) \in SeqNums /\ Number(p) \in Numbers(p[1])
         /\ Packet(p).kind = "start" => Number(p) = base[p[1]]
         /\ Packet(p).kind = "end" => Number(p) = Wrap(base[p[1]] + Count(p[1]) - 1)
BY NetFacts DEF IInv, Distinct, Live

\* Keeping a fragment leaves good tables: its slot was empty.
LEMMA KeepGood ==
  ASSUME OneNal, IInv, NEW p \in net, IsFragment(p), ~Rejected(p)
  PROVE  Good(KnownFrames(p), KeptSlots(p))
<1> DEFINE f == p[1]
           fs == KnownFrames(p)
           slots == KeptSlots(p)
           frame == WithFragment(p)
<1>1. /\ p \in AllPackets /\ p # NoFragment /\ f \in Units /\ f \in 1 .. pushed
      /\ Number(p) \in SeqNums /\ Number(p) \in Numbers(f)
      /\ Packet(p).kind = "start" => Number(p) = base[f]
      /\ Packet(p).kind = "end" => Number(p) = Wrap(base[f] + Count(f) - 1)
  BY PacketFacts
<1>2. Good(frames_, fragments_)
  BY DEF IInv, ReceiverInv
<1>3. fragments_[Number(p)] = NoFragment
  <2>1. SUFFICES ASSUME fragments_[Number(p)] # NoFragment
                 PROVE  FALSE
    OBVIOUS
  <2> DEFINE q == fragments_[Number(p)]
  <2>2. GoodSlot(Number(p), frames_, q)
    BY <1>1, <1>2, <2>1 DEF Good
  <2>3. q \in Live /\ p \in Live
    BY <1>1, <2>1 DEF Live, Kept
  <2>4. q[1] = f
    BY <2>2, <2>3 DEF GoodSlot, IInv, Distinct
  <2> QED
    BY <2>2, <2>4 DEF GoodSlot, Rejected
<1>4. GoodFrame(f, frame)
  <2>1. frame.seqs \subseteq Numbers(f) /\ frame.seqs \subseteq SeqNums
    BY <1>1, <1>2 DEF WithFragment, Good, GoodFrame, Frame
  <2>2. frame.s_seq \in {-1, base[f]} /\ frame.s_seq \in {-1} \cup SeqNums
    BY <1>1, <1>2 DEF WithFragment, Good, GoodFrame, Frame
  <2>3. /\ frame.e_seq \in {-1, Wrap(base[f] + Count(f) - 1)}
        /\ frame.e_seq \in {-1} \cup SeqNums
    BY <1>1, <1>2 DEF WithFragment, Good, GoodFrame, Frame
  <2>4. Packet(p).type \in STRING
    BY <1>1, OneKinds DEF Packet, AllPackets
  <2> DEFINE before == IF f \in DOMAIN frames_ THEN frames_[f]
                       ELSE [sframe_time |-> now, nal_type |-> Packet(p).type,
                             s_seq |-> -1, e_seq |-> -1, seqs |-> {}]
  <2>5. before \in Frame
    BY <1>2, <2>4 DEF Good, GoodFrame, Frame, IInv, TypeOK
  <2>6. frame = [before EXCEPT
                   !.seqs = @ \cup {Number(p)},
                   !.s_seq = IF Packet(p).kind = "start" THEN Number(p) ELSE @,
                   !.e_seq = IF Packet(p).kind = "end" THEN Number(p) ELSE @]
    BY DEF WithFragment
  <2> HIDE DEF before, frame
  <2>7. frame \in Frame
    BY <1>1, <2>5, <2>6 DEF Frame
  <2> QED
    BY <2>1, <2>2, <2>3, <2>7 DEF GoodFrame
<1>5. /\ f \in DOMAIN frames_ => frame.seqs = frames_[f].seqs \cup {Number(p)}
      /\ f \notin DOMAIN frames_ => frame.seqs = {Number(p)}
  BY <1>2 DEF WithFragment, Good, GoodFrame, Frame
<1>6. /\ DOMAIN fs = DOMAIN frames_ \cup {f} /\ fs[f] = frame
      /\ \A t \in DOMAIN frames_ : t # f => fs[t] = frames_[t]
  BY DEF KnownFrames
<1>7. /\ slots[Number(p)] = p
      /\ \A s \in SeqNums : s # Number(p) => slots[s] = fragments_[s]
      /\ slots \in [SeqNums -> AllPackets \cup {NoFragment}]
  BY <1>1, <1>2 DEF KeptSlots, Good
<1> HIDE DEF frame, fs, slots
<1>8. ASSUME NEW t \in DOMAIN fs, NEW s \in fs[t].seqs
      PROVE  slots[s] # NoFragment /\ slots[s][1] = t
  <2>1. CASE s = Number(p)
    <3>1. t \in DOMAIN frames_ /\ s \in frames_[t].seqs => fragments_[s] # NoFragment
      BY <1>2 DEF Good
    <3>2. t = f
      BY <1>3, <1>6, <1>8, <2>1, <3>1
    <3> QED
      BY <1>1, <1>7, <2>1, <3>2
  <2>2. CASE s # Number(p)
    <3>1. t \in DOMAIN frames_ /\ s \in frames_[t].seqs
      BY <1>5, <1>6, <1>8, <2>2
    <3>2. s \in SeqNums
      BY <1>2, <3>1 DEF Good, GoodFrame, Frame
    <3> QED
      BY <1>2, <1>7, <2>2, <3>1, <3>2 DEF Good
  <2> QED
    BY <2>1, <2>2
<1>9. ASSUME NEW s \in SeqNums, slots[s] # NoFragment
      PROVE  GoodSlot(s, fs, slots[s])
  <2>1. CASE s = Number(p)
    BY <1>1, <1>5, <1>6, <1>7, <2>1 DEF GoodSlot
  <2>2. CASE s # Number(p)
    <3>1. GoodSlot(s, frames_, fragments_[s]) /\ slots[s] = fragments_[s]
      BY <1>2, <1>7, <1>9, <2>2 DEF Good
    <3> QED
      BY <1>5, <1>6, <3>1 DEF GoodSlot
  <2> QED
    BY <2>1, <2>2
<1>10. \A t \in DOMAIN fs : GoodFrame(t, fs[t])
  BY <1>2, <1>4, <1>6 DEF Good
<1>11. DOMAIN fs \subseteq 1 .. pushed /\ fs = [t \in DOMAIN fs |-> fs[t]]
  BY <1>1, <1>2, <1>6 DEF Good, fs, KnownFrames
<1> QED
  BY <1>7, <1>8, <1>9, <1>10, <1>11 DEF Good, fs, slots

(***************************************************************************)
(* The receiver's steps.                                                   *)
(***************************************************************************)
LEMMA GoodNext ==
  ASSUME pushed' = pushed, base' = base, Good(frames_', fragments_')
  PROVE  Good(frames_, fragments_)'
BY DEF Good, GoodFrame, GoodSlot, Numbers, Number

\* A frame found complete has all its fragments, each in the slot of its number, and
\* the loop of reconstruction() visits them in order.
LEMMA CompleteFrame ==
  ASSUME OneNal, IInv, NEW p \in net, IsFragment(p), ~Rejected(p), IsComplete(WithFragment(p))
  PROVE  LET f == p[1]
             visited == Visited(WithFragment(p))
         IN /\ WithFragment(p).seqs = Numbers(f)
            /\ visited = [k \in 1 .. Count(f) |-> Wrap(base[f] + k - 1)]
            /\ \A k \in 1 .. Count(f) : KeptSlots(p)[visited[k]] = <<f, k>>
<1> DEFINE f == p[1]
           n == Count(f)
           frame == WithFragment(p)
           slots == KeptSlots(p)
<1>1. /\ f \in Units /\ n \in Nat \ {0} /\ n < SeqSpace /\ base[f] \in SeqNums
  BY PacketFacts
<1>2. Good(KnownFrames(p), slots)
  BY KeepGood
<1>3. f \in DOMAIN KnownFrames(p) /\ KnownFrames(p)[f] = frame
  BY DEF KnownFrames
<1> HIDE DEF frame, slots
<1>4. GoodFrame(f, frame)
  BY <1>2, <1>3 DEF Good
<1>5. frame.s_seq = base[f] /\ frame.e_seq = Wrap(base[f] + n - 1)
  BY <1>4 DEF GoodFrame, IsComplete, frame
<1>6. /\ Expected(frame) = n
      /\ Visited(frame) = [k \in 1 .. n |-> Wrap(base[f] + k - 1)]
  BY <1>1, <1>5, ExpectedIsCount
<1>7. frame.seqs = Numbers(f)
  <2>1. Cardinality(frame.seqs) = n
    BY <1>6 DEF IsComplete, frame
  <2> QED
    BY <1>1, <1>4, <2>1, AllNumbers DEF GoodFrame, Numbers
<1>8. ASSUME NEW k \in 1 .. n
      PROVE  slots[Wrap(base[f] + k - 1)] = <<f, k>>
  <2> DEFINE s == Wrap(base[f] + k - 1)
             q == slots[s]
  <2>1. s \in frame.seqs /\ s \in SeqNums
    BY <1>4, <1>7 DEF Numbers, GoodFrame, Frame
  <2>2. q # NoFragment /\ q[1] = f
    BY <1>2, <1>3, <2>1 DEF Good
  <2>3. q \in AllPackets /\ Number(q) = s
    BY <1>2, <2>1, <2>2 DEF Good, GoodSlot
  <2>4. q = <<f, q[2]>> /\ q[2] \in 1 .. n
    BY <1>1, <2>2, <2>3, OnePlan DEF AllPackets
  <2>5. Wrap(base[f] + q[2] - 1) = Wrap(base[f] + k - 1)
    BY <2>2, <2>3 DEF Number
  <2>6. q[2] = k
    BY <1>1, <2>4, <2>5, WrapInjective
  <2> QED
    BY <2>4, <2>6
<1> QED
  BY <1>6, <1>7, <1>8 DEF frame, slots

\* What becomes of an access unit in a step: its NAL unit is given to the flow ...
Gives(f) == delivered' = [delivered EXCEPT ![f] = Append(delivered[f], WholeNal(f, 1))]

\* ... and the frame made of it leaves the tables; ...
Closes(f) ==
  /\ frames_' = [t \in DOMAIN frames_ \ {f} |-> frames_[t]]
  /\ DOMAIN completed_ts_' = DOMAIN completed_ts_ \cup {f}
  /\ UNCHANGED <<dropped_ts_, collected>>

\* ... or a fragment of it is kept, and the frames that are too old are dropped.
Keeps(p) ==
  \E old \in SUBSET DOMAIN KnownFrames(p) :
    /\ frames_' = [t \in DOMAIN KnownFrames(p) \ old |-> KnownFrames(p)[t]]
    /\ DOMAIN completed_ts_' \subseteq DOMAIN completed_ts_
    /\ DOMAIN dropped_ts_' \subseteq DOMAIN dropped_ts_ \cup old
    /\ collected' = collected \cup old
    /\ delivered' = delivered

LEMMA ReconstructStep ==
  ASSUME OneNal, IInv, NEW p \in net, IsFragment(p), ~Rejected(p), IsComplete(WithFragment(p)),
         Reconstruct(p[1], WithFragment(p), KeptSlots(p)), UNCHANGED <<pushed, base, now>>
  PROVE  /\ ReceiverInv'
         /\ Kept' \subseteq Kept \cup {p}
         /\ delivered' # delivered
         /\ Gives(p[1]) /\ Closes(p[1])
         /\ \A q \in AllPackets : q[1] = p[1] => q \in Kept \cup {p}
<1> DEFINE f == p[1]
           n == Count(f)
           frame == WithFragment(p)
           slots == KeptSlots(p)
           visited == Visited(frame)
           gaps == {k \in DOMAIN visited : slots[visited[k]] = NoFragment}
           freed == {visited[k] : k \in {j \in DOMAIN visited : \A g \in gaps : j < g}}
           fs == KnownFrames(p)
<1>1. f \in Units /\ f \in 1 .. pushed /\ n \in Nat \ {0}
  BY PacketFacts
<1>2. /\ frame.seqs = Numbers(f)
      /\ visited = [k \in 1 .. n |-> Wrap(base[f] + k - 1)]
      /\ \A k \in 1 .. n : slots[visited[k]] = <<f, k>>
  BY CompleteFrame
<1>3. Good(fs, slots) /\ f \in DOMAIN fs /\ fs[f] = frame
  BY KeepGood DEF KnownFrames
<1>4. gaps = {}
  BY <1>1, <1>2 DEF NoFragment, Units
<1>5. freed = Numbers(f)
  <2>1. {j \in DOMAIN visited : \A g \in gaps : j < g} = 1 .. n
    BY <1>2, <1>4
  <2>2. \A k \in 1 .. n : visited[k] = Wrap(base[f] + k - 1)
    BY <1>2
  <2>3. freed = {visited[k] : k \in 1 .. n}
    BY <2>1
  <2> HIDE DEF visited, gaps, freed
  <2> QED
    BY <2>2, <2>3 DEF Numbers
<1>6. /\ fragments_' = Freed(slots, freed)
      /\ delivered' = [delivered EXCEPT ![f] =
           Append(@, [k \in DOMAIN visited |-> Packet(slots[visited[k]]).units[1]])]
      /\ completed_ts_' = [t \in DOMAIN completed_ts_ \cup {f} |->
           IF t = f THEN frame.sframe_time ELSE completed_ts_[t]]
      /\ frames_' = [t \in DOMAIN frames_ \ {f} |-> frames_[t]]
      /\ UNCHANGED <<dropped_ts_, last_garbage_collection_, crashed, collected>>
  BY <1>4 DEF Reconstruct
<1>7. frames_' = [t \in DOMAIN fs \ {f} |-> fs[t]]
  BY <1>6 DEF KnownFrames
<1> HIDE DEF frame, slots, visited, gaps, freed, fs
<1>8. Good(frames_', fragments_')
  <2>1. UNION {fs[t].seqs : t \in {f}} = freed
    BY <1>2, <1>3, <1>5
  <2>2. {f} \in SUBSET DOMAIN fs
    BY <1>3
  <2>3. Good(frames_', Freed(slots, freed))
    BY <1>3, <1>7, <2>1, <2>2, DropGood
  <2> QED
    BY <1>6, <2>3
<1>9. [k \in DOMAIN visited |-> Packet(slots[visited[k]]).units[1]] = WholeNal(f, 1)
  <2>1. \A k \in 1 .. n : Packet(slots[visited[k]]).units[1] = <<f, 1, k>>
    <3>1. TAKE k \in 1 .. n
    <3>2. slots[visited[k]] = <<f, k>> /\ k \in DOMAIN Packets[f]
      BY <1>1, <1>2, OnePlan
    <3>3. Packets[f][k].units = << <<f, 1, k>> >>
      BY <1>1, <3>2, OneKinds
    <3> QED
      BY <3>2, <3>3 DEF Packet
  <2>2. DOMAIN visited = 1 .. n
    BY <1>2
  <2> QED
    BY <2>1, <2>2 DEF WholeNal, Count
<1>10. /\ WholeNal(f, 1) \in Seq(Units \X (Nat \ {0}) \X (Nat \ {0}))
       /\ WholeNal(f, 1) \in NalUnits(f)
  <2>1. WholeNal(f, 1) = [k \in 1 .. n |-> <<f, 1, k>>]
    BY DEF WholeNal, Count
  <2>2. \A k \in 1 .. n : <<f, 1, k>> \in Units \X (Nat \ {0}) \X (Nat \ {0})
    BY <1>1
  <2>3. 1 \in DOMAIN AccessUnits[f]
    BY <1>1, OnePlan
  <2> QED
    BY <1>1, <2>1, <2>2, <2>3 DEF NalUnits
<1>11. /\ delivered \in [Units -> Seq(Seq(Units \X (Nat \ {0}) \X (Nat \ {0})))]
       /\ Whole /\ FrameType
  BY DEF IInv, ReceiverInv, FrameType
<1> HIDE DEF f
<1>12. delivered' = [delivered EXCEPT ![f] = Append(delivered[f], WholeNal(f, 1))]
  BY <1>6, <1>9
<1>13. /\ delivered' \in [Units -> Seq(Seq(Units \X (Nat \ {0}) \X (Nat \ {0})))]
       /\ Whole'
       /\ delivered' # delivered
  <2>1. delivered'[f] = Append(delivered[f], WholeNal(f, 1))
    BY <1>1, <1>11, <1>12
  <2>2. \A t \in Units : t # f => delivered'[t] = delivered[t]
    BY <1>11, <1>12
  <2>3. ToSet(delivered[f]) \subseteq NalUnits(f)
    BY <1>1, <1>11 DEF Whole
  <2>4. delivered[f] \in Seq(Seq(Units \X (Nat \ {0}) \X (Nat \ {0})))
    BY <1>1, <1>11
  <2>5. /\ delivered'[f] \in Seq(Seq(Units \X (Nat \ {0}) \X (Nat \ {0})))
        /\ Len(delivered'[f]) = Len(delivered[f]) + 1
    BY <1>10, <2>1, <2>4
  <2>6. ToSet(delivered'[f]) \subseteq NalUnits(f)
    BY <1>10, <2>1, <2>3, <2>4 DEF ToSet
  <2>7. Whole'
    <3>1. ASSUME NEW t \in Units
          PROVE  ToSet(delivered'[t]) \subseteq NalUnits(t)
      <4>1. ToSet(delivered[t]) \subseteq NalUnits(t)
        BY <1>11 DEF Whole
      <4> QED
        BY <2>2, <2>6, <4>1
    <3> QED
      BY <3>1 DEF Whole
  <2>8. delivered' \in [Units -> Seq(Seq(Units \X (Nat \ {0}) \X (Nat \ {0})))]
    BY <1>1, <1>10, <1>11, <1>12, <2>5
  <2>9. delivered' # delivered
    BY <2>4, <2>5
  <2> QED
    BY <2>7, <2>8, <2>9
<1>14. FrameType'
  <2>1. frame.sframe_time \in Times
    BY <1>3 DEF Good, GoodFrame, Frame
  <2>2. /\ DOMAIN completed_ts_' \subseteq Units
        /\ completed_ts_' \in [DOMAIN completed_ts_' -> Times]
    BY <1>1, <1>6, <1>11, <2>1 DEF FrameType
  <2> QED
    BY <1>6, <1>11, <1>13, <2>2 DEF FrameType
<1>15. Young(frames_', last_garbage_collection_')
  BY <1>6 DEF IInv, ReceiverInv, Young
<1>16. Kept' \subseteq Kept \cup {p}
  <2>1. \A s \in SeqNums : fragments_'[s] # NoFragment => fragments_'[s] = slots[s]
    BY <1>6 DEF Freed
  <2>2. \A s \in SeqNums : slots[s] = p \/ slots[s] = fragments_[s]
    BY DEF slots, KeptSlots, IInv, ReceiverInv, Good
  <2> QED
    BY <2>1, <2>2 DEF Kept
<1>17. ReceiverInv'
  BY <1>6, <1>8, <1>13, <1>14, <1>15, GoodNext DEF IInv, ReceiverInv, Young
<1>18. ASSUME NEW q \in AllPackets, q[1] = f
       PROVE  q \in Kept \cup {p}
  <2>1. q = <<f, q[2]>> /\ q[2] \in 1 .. n
    BY <1>1, <1>18, OnePlan DEF AllPackets
  <2>2. slots[visited[q[2]]] = q /\ visited[q[2]] \in Numbers(f)
    BY <1>2, <2>1 DEF Numbers
  <2>3. visited[q[2]] \in SeqNums
    BY <1>2, <1>3, <2>2 DEF Good, GoodFrame, Frame
  <2>4. q = p \/ q = fragments_[visited[q[2]]]
    BY <2>2, <2>3 DEF slots, KeptSlots, IInv, ReceiverInv, Good
  <2>5. q # NoFragment
    BY <1>1, <2>1 DEF NoFragment, Units
  <2> QED
    BY <2>3, <2>4, <2>5 DEF Kept
<1>19. Gives(f) /\ Closes(f)
  BY <1>6, <1>12 DEF Gives, Closes
<1> QED
  BY <1>13, <1>16, <1>17, <1>18, <1>19 DEF f

\* Frames younger than the allowed delay at the last collection, and younger than the
\* delay plus the interval now.
Recent(fs) == \A t \in DOMAIN fs : now - fs[t].sframe_time < MaxDelay + GcInterval

LEMMA CollectStep ==
  ASSUME OneNal, IInv, NEW p \in net, IsFragment(p), ~Rejected(p),
         Collect(p[1], WithFragment(p), KeptSlots(p)), UNCHANGED <<pushed, base, now>>
  PROVE  /\ ReceiverInv'
         /\ Kept' \subseteq Kept \cup {p}
         /\ Recent(frames_')
<1> DEFINE f == p[1]
           frame == WithFragment(p)
           slots == KeptSlots(p)
           known == KnownFrames(p)
           old == {t \in DOMAIN known : now - known[t].sframe_time > MaxDelay}
           freed == UNION {known[t].seqs : t \in old}
           dropped == [t \in DOMAIN dropped_ts_ \cup old |->
                         IF t \in old THEN known[t].sframe_time ELSE dropped_ts_[t]]
<1>1. Good(known, slots)
  BY KeepGood
<1>2. f \in Units /\ now \in Times /\ last_garbage_collection_ \in Times
      /\ MaxDelay \in Nat /\ GcInterval \in Nat \ {0} /\ MaxTime \in Nat
  BY PacketFacts, FragmentsAssumption DEF IInv, TypeOK
<1>3. \A t \in DOMAIN known : known[t].sframe_time \in Times
  BY <1>1 DEF Good, GoodFrame, Frame
<1>4. Young(known, last_garbage_collection_) /\ last_garbage_collection_ <= now
  <2>1. Young(frames_, last_garbage_collection_) /\ last_garbage_collection_ <= now
    BY DEF IInv, ReceiverInv
  <2>2. f \in DOMAIN frames_ => frame.sframe_time = frames_[f].sframe_time
    BY DEF WithFragment, IInv, ReceiverInv, Good, GoodFrame, Frame
  <2>3. f \notin DOMAIN frames_ => frame.sframe_time = now
    BY DEF WithFragment
  <2>4. /\ DOMAIN known = DOMAIN frames_ \cup {f} /\ known[f] = frame
        /\ \A t \in DOMAIN frames_ : t # f => known[t] = frames_[t]
    BY DEF KnownFrames
  <2> HIDE DEF f, frame, known
  <2> QED
    BY <1>2, <2>1, <2>2, <2>3, <2>4 DEF Young, Times
<1>5. Kept' \subseteq Kept \cup {p}
  <2>1. \A s \in SeqNums : fragments_'[s] # NoFragment => fragments_'[s] = slots[s]
    BY DEF Collect, Freed
  <2>2. \A s \in SeqNums : slots[s] = p \/ slots[s] = fragments_[s]
    BY DEF KeptSlots, IInv, ReceiverInv, Good
  <2> HIDE DEF slots
  <2> QED
    BY <2>1, <2>2 DEF Kept
<1>6. Whole' /\ delivered' = delivered /\ FrameType
  <2>1. delivered' = delivered
    BY DEF Collect
  <2> QED
    BY <2>1 DEF Whole, IInv, ReceiverInv
<1>7. CASE CollectionDue
  <2>1. /\ crashed' = \/ \E s \in freed : slots[s] = NoFragment
                      \/ \E t, u \in old : t # u /\ known[t].seqs \cap known[u].seqs # {}
        /\ frames_' = [t \in DOMAIN known \ old |-> known[t]]
        /\ fragments_' = Freed(slots, freed)
        /\ completed_ts_' = [t \in Remembered(completed_ts_) |-> completed_ts_[t]]
        /\ dropped_ts_' = [t \in Remembered(dropped) |-> dropped[t]]
        /\ last_garbage_collection_' = now
        /\ collected' = collected \cup old
    BY <1>7 DEF Collect, KnownFrames
  <2>2. old \subseteq DOMAIN known /\ old \subseteq Units
    <3>1. DOMAIN known \subseteq 1 .. pushed /\ pushed \in 0 .. Len(AccessUnits)
      BY <1>1 DEF Good, IInv, TypeOK
    <3>2. Len(AccessUnits) \in Nat
      BY FragmentsAssumption
    <3> QED
      BY <3>1, <3>2 DEF Units
  <2>3. DOMAIN dropped = DOMAIN dropped_ts_ \cup old
    OBVIOUS
  <2>4. \A t \in DOMAIN dropped : dropped[t] \in Times
    BY <1>3, <1>6, <2>2 DEF FrameType
  <2> HIDE DEF known, slots, old, freed, dropped
  <2>5. /\ Good(frames_', fragments_')
        /\ \A s \in freed : slots[s] # NoFragment
        /\ \A t, u \in old : t # u => known[t].seqs \cap known[u].seqs = {}
    <3>1. freed = UNION {known[t].seqs : t \in old}
      BY DEF freed
    <3>2. old \in SUBSET DOMAIN known
      BY <2>2
    <3> DEFINE left == [t \in DOMAIN known \ old |-> known[t]]
    <3>0. left = [t \in DOMAIN known \ old |-> known[t]]
      OBVIOUS
    <3> HIDE DEF left
    <3>3. Good(left, Freed(slots, freed))
      BY <1>1, <3>0, <3>1, <3>2, DropGood
    <3>5. \A s \in freed : slots[s] # NoFragment
      BY <1>1, <3>1, <3>2 DEF Good
    <3>6. \A t, u \in old : t # u => known[t].seqs \cap known[u].seqs = {}
      BY <1>1, <3>2 DEF Good
    <3>4. frames_' = left /\ fragments_' = Freed(slots, freed)
      BY <2>1, <3>0
    <3> QED
      BY <3>3, <3>4, <3>5, <3>6
  <2>6. crashed' = FALSE
    BY <2>1, <2>5
  <2>7. \A t \in DOMAIN frames_' : /\ frames_'[t] = known[t] /\ t \in DOMAIN known
                                  /\ ~(now - known[t].sframe_time > MaxDelay)
    BY <2>1 DEF old
  <2>8. Young(frames_', now) /\ Recent(frames_')
    BY <1>2, <1>3, <1>4, <2>7 DEF Young, Recent, Times
  <2>9. FrameType'
    <3>1. /\ DOMAIN completed_ts_' \subseteq Units
          /\ completed_ts_' \in [DOMAIN completed_ts_' -> Times]
      BY <1>6, <2>1 DEF FrameType, Remembered
    <3>2. /\ DOMAIN dropped_ts_' \subseteq Units
          /\ dropped_ts_' \in [DOMAIN dropped_ts_' -> Times]
      BY <1>6, <2>1, <2>2, <2>3, <2>4 DEF FrameType, Remembered
    <3> QED
      BY <1>2, <1>6, <2>1, <2>2, <3>1, <3>2 DEF FrameType
  <2>10. Young(frames_, last_garbage_collection_)' /\ (last_garbage_collection_ <= now)'
    BY <1>2, <2>1, <2>8 DEF Young, Times
  <2> QED
    BY <1>5, <1>6, <2>5, <2>6, <2>8, <2>9, <2>10, GoodNext DEF ReceiverInv
<1>8. CASE ~CollectionDue
  <2>1. /\ frames_' = known /\ fragments_' = slots
        /\ UNCHANGED <<completed_ts_, dropped_ts_, last_garbage_collection_, crashed, collected>>
    BY <1>8 DEF Collect, KnownFrames
  <2> HIDE DEF known, slots
  <2>2. Good(frames_, fragments_)'
    BY <1>1, <2>1, GoodNext
  <2>3. Recent(frames_')
    BY <1>2, <1>3, <1>4, <1>8, <2>1 DEF Young, Recent, CollectionDue, Times
  <2>4. Young(frames_, last_garbage_collection_)' /\ (last_garbage_collection_ <= now)'
    BY <1>4, <2>1 DEF Young
  <2>5. FrameType' /\ crashed' = FALSE
    BY <1>6, <2>1 DEF FrameType, IInv, ReceiverInv
  <2> QED
    BY <1>5, <1>6, <2>2, <2>3, <2>4, <2>5 DEF ReceiverInv
<1> QED
  BY <1>7, <1>8

\* A packet that is a NAL unit of its own is given to the flow as it is.
LEMMA DeliverStep ==
  ASSUME OneNal, IInv, NEW p \in net, ~IsFragment(p), DeliverNow(p),
         UNCHANGED <<pushed, base, now>>
  PROVE  ReceiverInv' /\ Kept' = Kept
<1> DEFINE f == p[1]
           unit == << <<f, 1, 1>> >>
           Unit == Seq(Units \X (Nat \ {0}) \X (Nat \ {0}))
<1>1. f \in Units /\ p[2] \in DOMAIN Packets[f] /\ p[2] \in 1 .. Count(f)
  BY PacketFacts, OnePlan
<1>2. Packet(p).units = << <<f, 1, p[2]>> >> /\ Packet(p).kind = "single" /\ Count(f) = 1
  BY <1>1, OneKinds DEF Packet, IsFragment
<1>3. [i \in DOMAIN Packet(p).units |-> <<Packet(p).units[i]>>] = <<unit>>
  BY <1>1, <1>2
<1>4. delivered' = [delivered EXCEPT ![f] = delivered[f] \o <<unit>>]
  BY <1>3 DEF DeliverNow
<1>5. unit \in Unit /\ unit \in NalUnits(f)
  <2>1. unit = WholeNal(f, 1)
    BY <1>2 DEF WholeNal, Count
  <2>2. 1 \in DOMAIN AccessUnits[f]
    BY <1>1, OnePlan
  <2>3. <<f, 1, 1>> \in Units \X (Nat \ {0}) \X (Nat \ {0})
    BY <1>1
  <2> QED
    BY <2>1, <2>2, <2>3 DEF NalUnits
<1>6. delivered \in [Units -> Seq(Unit)] /\ Whole /\ FrameType
  BY DEF IInv, ReceiverInv, FrameType
<1> HIDE DEF f, unit, Unit
<1>7. delivered' \in [Units -> Seq(Unit)]
  BY <1>1, <1>4, <1>5, <1>6
<1>8. Whole'
  <2>1. ASSUME NEW t \in Units
        PROVE  ToSet(delivered'[t]) \subseteq NalUnits(t)
    <3>1. ToSet(delivered[t]) \subseteq NalUnits(t) /\ delivered[t] \in Seq(Unit)
      BY <1>6 DEF Whole
    <3>2. delivered'[t] = IF t = f THEN delivered[t] \o <<unit>> ELSE delivered[t]
      BY <1>4, <1>6
    <3> QED
      BY <1>5, <3>1, <3>2 DEF ToSet
  <2> QED
    BY <2>1 DEF Whole
<1>9. UNCHANGED frameVars
  BY DEF DeliverNow
<1>10. FrameType'
  BY <1>6, <1>7, <1>9 DEF FrameType, frameVars, Unit
<1>11. Good(frames_, fragments_)'
  <2>1. Good(frames_', fragments_')
    BY <1>9 DEF frameVars, IInv, ReceiverInv
  <2> QED
    BY <2>1, GoodNext
<1> QED
  BY <1>8, <1>9, <1>10, <1>11 DEF IInv, ReceiverInv, Young, frameVars, Kept

(***************************************************************************)
(* Steps of the receiver as a whole, and of everybody else.                *)
(***************************************************************************)
SenderType ==
  /\ pushed \in 0 .. Len(AccessUnits) /\ seq_ \in SeqNums
  /\ base \in [Units -> SeqNums] /\ next \in Nat
  /\ net \subseteq AllPackets /\ arrived \subseteq AllPackets
  /\ copies \in 0 .. Duplicates /\ restarts \in 0 .. Restarts /\ now \in Times
  /\ clashed \in BOOLEAN
SeenType ==
  received_info_ \in [Units -> SUBSET SeqNums] /\ received_frames_ \in Seq(Units)

\* The invariant is made of what is known of the four parts.
LEMMA Parts ==
  ASSUME SenderType', SeenType', SenderInv', Distinct', ReceiverInv'
  PROVE  IInv'
<1>1. /\ DOMAIN frames_' \subseteq 1 .. pushed' /\ pushed' \in 0 .. Len(AccessUnits)
      /\ frames_' = [t \in DOMAIN frames_' |-> frames_'[t]]
      /\ \A t \in DOMAIN frames_' : frames_'[t] \in Frame
      /\ fragments_' \in [SeqNums -> AllPackets \cup {NoFragment}]
  BY DEF ReceiverInv, Good, GoodFrame, SenderType
<1>2. Len(AccessUnits) \in Nat
  BY FragmentsAssumption
<1>3. DOMAIN frames_' \subseteq Units
  BY <1>1, <1>2 DEF Units
<1>4. frames_' \in [DOMAIN frames_' -> Frame]
  BY <1>1
<1>5. TypeOK'
  BY <1>1, <1>3, <1>4 DEF TypeOK, SenderType, SeenType, ReceiverInv, FrameType
<1> QED
  BY <1>5 DEF IInv

\* Steps that leave the receiver alone, but for a new access unit and a later clock.
LEMMA ReceiverUntouched ==
  ASSUME IInv, UNCHANGED <<frameVars, delivered>>,
         pushed' \in Nat, pushed <= pushed', now' \in Nat, now <= now',
         \A t \in 1 .. pushed : base'[t] = base[t]
  PROVE  ReceiverInv' /\ Kept' = Kept
<1>1. /\ frames_' = frames_ /\ fragments_' = fragments_ /\ delivered' = delivered
      /\ UNCHANGED <<completed_ts_, dropped_ts_, last_garbage_collection_, crashed, collected>>
  BY DEF frameVars
<1>2. pushed \in Nat /\ now \in Nat /\ last_garbage_collection_ \in Nat
  BY FragmentsAssumption DEF IInv, TypeOK, Times
<1>3. Good(frames_, fragments_)
  BY DEF IInv, ReceiverInv
<1>4. Good(frames_, fragments_)'
  <2>1. DOMAIN frames_ \subseteq 1 .. pushed /\ 1 .. pushed \subseteq 1 .. pushed'
    BY <1>2, <1>3 DEF Good
  <2>2. ASSUME NEW t \in DOMAIN frames_
        PROVE  /\ frames_[t] \in Frame
               /\ frames_[t].seqs \subseteq Numbers(t)'
               /\ frames_[t].s_seq \in {-1, base'[t]}
               /\ frames_[t].e_seq \in {-1, Wrap(base'[t] + Count(t) - 1)}
    <3>1. GoodFrame(t, frames_[t]) /\ base'[t] = base[t]
      BY <1>3, <2>1 DEF Good
    <3>2. Numbers(t)' = Numbers(t)
      BY <3>1 DEF Numbers
    <3> QED
      BY <3>1, <3>2 DEF GoodFrame
  <2>3. ASSUME NEW s \in SeqNums, fragments_[s] # NoFragment
        PROVE  /\ fragments_[s] \in AllPackets
               /\ Wrap(base'[fragments_[s][1]] + fragments_[s][2] - 1) = s
               /\ fragments_[s][1] \in DOMAIN frames_ /\ s \in frames_[fragments_[s][1]].seqs
    <3>1. GoodSlot(s, frames_, fragments_[s])
      BY <1>3, <2>3 DEF Good
    <3> QED
      BY <2>1, <3>1 DEF GoodSlot, Number
  <2> QED
    BY <1>1, <1>3, <2>1, <2>2, <2>3 DEF Good, GoodFrame, GoodSlot, Number
<1>5. Young(frames_, last_garbage_collection_)' /\ (last_garbage_collection_ <= now)'
  <2>1. Young(frames_, last_garbage_collection_) /\ last_garbage_collection_ <= now
    BY DEF IInv, ReceiverInv
  <2>2. \A t \in DOMAIN frames_ : frames_[t].sframe_time \in Nat
    BY <1>3, FragmentsAssumption DEF Good, GoodFrame, Frame, Times
  <2> QED
    BY <1>1, <1>2, <2>1, <2>2 DEF Young
<1>6. FrameType' /\ Whole'
  BY <1>1 DEF IInv, ReceiverInv, FrameType, Whole
<1> QED
  BY <1>1, <1>4, <1>5, <1>6 DEF IInv, ReceiverInv, Kept

\* Remembering a packet keeps the types, also when an old one is forgotten.
LEMMA RememberType ==
  ASSUME SeenType, NEW p, p[1] \in Units, Number(p) \in SeqNums, Remember(p)
  PROVE  SeenType'
<1> DEFINE seen == [received_info_ EXCEPT ![p[1]] = @ \cup {Number(p)}]
           full == Append(received_frames_, p[1])
<1>1. seen \in [Units -> SUBSET SeqNums]
  BY DEF SeenType
<1>2. full \in Seq(Units) /\ full # <<>>
  BY DEF SeenType
<1>3. Tail(full) \in Seq(Units)
  BY <1>2
<1>4. [seen EXCEPT ![Head(full)] = {}] \in [Units -> SUBSET SeqNums]
  BY <1>1
<1>5. \/ received_info_' = [seen EXCEPT ![Head(full)] = {}] /\ received_frames_' = Tail(full)
      \/ received_info_' = seen /\ received_frames_' = full
  BY DEF Remember
<1> QED
  BY <1>1, <1>2, <1>3, <1>4, <1>5 DEF SeenType

\* packet_handler, whatever it does with the packet.
LEMMA HandleStep ==
  ASSUME OneNal, IInv, NEW p \in net, Handle(p), UNCHANGED <<pushed, base, now>>
  PROVE  /\ ReceiverInv' /\ SeenType'
         /\ Kept' \subseteq Kept \cup {p}
         /\ frames_' # frames_ /\ delivered' = delivered => Recent(frames_')
<1>1. p[1] \in Units /\ Number(p) \in SeqNums
  BY PacketFacts
<1>2. SeenType
  BY DEF SeenType, IInv, TypeOK
<1>3. SeenType'
  <2>1. CASE Duplicate(p)
    BY <1>2, <2>1 DEF Handle, seenVars, SeenType
  <2>2. CASE ~Duplicate(p)
    BY <1>1, <1>2, <2>2, RememberType DEF Handle
  <2> QED
    BY <2>1, <2>2
<1>4. CASE UNCHANGED <<frameVars, delivered>>
  <2>1. pushed' \in Nat /\ pushed <= pushed' /\ now' \in Nat /\ now <= now'
    <3>1. pushed \in 0 .. Len(AccessUnits) /\ Len(AccessUnits) \in Nat
      BY FragmentsAssumption DEF IInv, TypeOK
    <3>2. now \in Nat
      BY FragmentsAssumption DEF IInv, TypeOK, Times
    <3> QED
      BY <3>1, <3>2
  <2>2. \A t \in 1 .. pushed : base'[t] = base[t]
    OBVIOUS
  <2>3. ReceiverInv' /\ Kept' = Kept
    BY <1>4, <2>1, <2>2, ReceiverUntouched
  <2> QED
    BY <1>3, <1>4, <2>3 DEF frameVars
<1>5. CASE ~IsFragment(p) /\ DeliverNow(p)
  <2>1. ReceiverInv' /\ Kept' = Kept
    BY <1>5, DeliverStep
  <2>2. frames_' = frames_
    BY <1>5 DEF DeliverNow, frameVars
  <2> QED
    BY <1>3, <2>1, <2>2
<1>6. CASE IsFragment(p) /\ ~Rejected(p) /\ KeepFragment(p)
  <2>1. CASE IsComplete(WithFragment(p))
    <3>1. Reconstruct(p[1], WithFragment(p), KeptSlots(p))
      BY <1>6, <2>1 DEF KeepFragment, KeptSlots
    <3> QED
      BY <1>3, <1>6, <2>1, <3>1, ReconstructStep
  <2>2. CASE ~IsComplete(WithFragment(p))
    <3>1. Collect(p[1], WithFragment(p), KeptSlots(p))
      BY <1>6, <2>2 DEF KeepFragment, KeptSlots
    <3> QED
      BY <1>3, <1>6, <2>2, <3>1, CollectStep
  <2> QED
    BY <2>1, <2>2
<1> QED
  BY <1>4, <1>5, <1>6 DEF Handle, IsFragment

\* A fragment that completes nothing is kept, or dropped with the frames too old.
LEMMA CollectKeeps ==
  ASSUME NEW p, Collect(p[1], WithFragment(p), KeptSlots(p))
  PROVE  Keeps(p)
<1> DEFINE known == KnownFrames(p)
           old == {t \in DOMAIN known : now - known[t].sframe_time > MaxDelay}
           dropped == [t \in DOMAIN dropped_ts_ \cup old |->
                         IF t \in old THEN known[t].sframe_time ELSE dropped_ts_[t]]
<1>1. delivered' = delivered /\ known = [t \in DOMAIN known |-> known[t]]
  BY DEF Collect, KnownFrames
<1>2. CASE CollectionDue
  <2>1. /\ frames_' = [t \in DOMAIN known \ old |-> known[t]]
        /\ completed_ts_' = [t \in Remembered(completed_ts_) |-> completed_ts_[t]]
        /\ dropped_ts_' = [t \in Remembered(dropped) |-> dropped[t]]
        /\ collected' = collected \cup old
    BY <1>2 DEF Collect, KnownFrames
  <2>2. Remembered(completed_ts_) \subseteq DOMAIN completed_ts_
    BY DEF Remembered
  <2>3. Remembered(dropped) \subseteq DOMAIN dropped_ts_ \cup old
    BY DEF Remembered
  <2>4. old \in SUBSET DOMAIN known
    OBVIOUS
  <2> HIDE DEF known, old, dropped
  <2>5. /\ DOMAIN completed_ts_' \subseteq DOMAIN completed_ts_
        /\ DOMAIN dropped_ts_' \subseteq DOMAIN dropped_ts_ \cup old
    BY <2>1, <2>2, <2>3
  <2> QED
    BY <1>1, <2>1, <2>4, <2>5 DEF Keeps, known
<1>3. CASE ~CollectionDue
  <2>1. frames_' = known /\ UNCHANGED <<completed_ts_, dropped_ts_, collected>>
    BY <1>3 DEF Collect, KnownFrames
  <2>2. frames_' = [t \in DOMAIN known \ {} |-> known[t]]
    BY <1>1, <2>1
  <2> HIDE DEF known, old, dropped
  <2>3. {} \in SUBSET DOMAIN known /\ collected' = collected \cup {}
        /\ DOMAIN dropped_ts_' \subseteq DOMAIN dropped_ts_ \cup {}
        /\ DOMAIN completed_ts_' \subseteq DOMAIN completed_ts_
    BY <2>1
  <2> QED
    BY <1>1, <2>2, <2>3 DEF Keeps, known
<1> QED
  BY <1>2, <1>3

\* packet_handler in the terms of access units: the packet is a repeated one, is of no
\* use, is a NAL unit, completes a NAL unit, or is kept.
LEMMA Outcome ==
  ASSUME OneNal, IInv, NEW p \in net, Handle(p), UNCHANGED <<pushed, base, now>>
  PROVE  \/ Duplicate(p) /\ UNCHANGED <<seenVars, frameVars, delivered>>
         \/ /\ ~Duplicate(p) /\ Remember(p)
            /\ \/ /\ Closed(p[1]) \/ (IsFragment(p) /\ Rejected(p))
                  /\ UNCHANGED <<frameVars, delivered>>
               \/ /\ ~IsFragment(p) /\ Gives(p[1]) /\ UNCHANGED frameVars
                  /\ \A q \in AllPackets : q[1] = p[1] => q = p
               \/ /\ IsFragment(p) /\ Gives(p[1]) /\ Closes(p[1])
                  /\ \A q \in AllPackets : q[1] = p[1] => q \in Kept \cup {p}
               \/ IsFragment(p) /\ ~IsComplete(WithFragment(p)) /\ Keeps(p)
<1>1. ASSUME ~IsFragment(p), DeliverNow(p)
      PROVE  /\ Gives(p[1]) /\ UNCHANGED frameVars
             /\ \A q \in AllPackets : q[1] = p[1] => q = p
  <2> DEFINE f == p[1]
  <2>1. f \in Units /\ p = <<f, p[2]>> /\ p[2] \in DOMAIN Packets[f] /\ p[2] \in 1 .. Count(f)
    BY PacketFacts, OnePlan
  <2>2. Packet(p).units = << <<f, 1, p[2]>> >> /\ Packet(p).kind = "single" /\ Count(f) = 1
    BY <1>1, <2>1, OneKinds DEF Packet, IsFragment
  <2>3. [i \in DOMAIN Packet(p).units |-> <<Packet(p).units[i]>>] = << WholeNal(f, 1) >>
    <3>1. WholeNal(f, 1) = << <<f, 1, 1>> >>
      BY <2>2 DEF WholeNal, Count
    <3> QED
      BY <2>1, <2>2, <3>1
  <2>4. delivered' = [delivered EXCEPT ![f] = delivered[f] \o << WholeNal(f, 1) >>]
    BY <1>1, <2>3 DEF DeliverNow
  <2>5. delivered[f] \o << WholeNal(f, 1) >> = Append(delivered[f], WholeNal(f, 1))
    <3>1. delivered[f] \in Seq(Seq(Units \X (Nat \ {0}) \X (Nat \ {0})))
      BY <2>1 DEF IInv, TypeOK
    <3> QED
      BY <3>1
  <2>6. \A q \in AllPackets : q[1] = f => q = <<f, q[2]>> /\ q[2] \in 1 .. Count(f)
    BY <2>1, OnePlan DEF AllPackets
  <2>7. \A q \in AllPackets : q[1] = f => q = p
    BY <2>1, <2>2, <2>6
  <2> QED
    BY <1>1, <2>4, <2>5, <2>7 DEF Gives, DeliverNow
<1>2. ASSUME IsFragment(p), ~Rejected(p), KeepFragment(p), IsComplete(WithFragment(p))
      PROVE  /\ Gives(p[1]) /\ Closes(p[1])
             /\ \A q \in AllPackets : q[1] = p[1] => q \in Kept \cup {p}
  <2>1. Reconstruct(p[1], WithFragment(p), KeptSlots(p))
    BY <1>2 DEF KeepFragment, KeptSlots
  <2> QED
    BY <1>2, <2>1, ReconstructStep
<1>3. ASSUME KeepFragment(p), ~IsComplete(WithFragment(p))
      PROVE  Keeps(p)
  BY <1>3, CollectKeeps DEF KeepFragment, KeptSlots
<1>4. \/ Duplicate(p) /\ UNCHANGED <<seenVars, frameVars, delivered>>
      \/ /\ ~Duplicate(p) /\ Remember(p)
         /\ \/ Closed(p[1]) /\ UNCHANGED <<frameVars, delivered>>
            \/ ~IsFragment(p) /\ DeliverNow(p)
            \/ IsFragment(p) /\ Rejected(p) /\ UNCHANGED <<frameVars, delivered>>
            \/ IsFragment(p) /\ ~Rejected(p) /\ KeepFragment(p)
  BY DEF Handle, IsFragment
<1>5. CASE ~IsFragment(p) /\ DeliverNow(p)
  BY <1>1, <1>4, <1>5
<1>6. CASE IsFragment(p) /\ ~Rejected(p) /\ KeepFragment(p)
  <2>1. CASE IsComplete(WithFragment(p))
    BY <1>2, <1>4, <1>6, <2>1
  <2>2. CASE ~IsComplete(WithFragment(p))
    BY <1>3, <1>4, <1>6, <2>2
  <2> QED
    BY <2>1, <2>2
<1> QED
  BY <1>4, <1>5, <1>6

\* A packet handed over is not new, and the others stay what they are.
LEMMA ReceiveStep ==
  ASSUME OneNal, IInv, NEW p \in net, Receive(p)
  PROVE  /\ IInv'
         /\ frames_' # frames_ /\ delivered' = delivered => Recent(frames_')
<1>1. /\ Handle(p) /\ UNCHANGED <<pushed, seq_, base, next, restarts, now, clashed>>
      /\ net' \subseteq net /\ arrived' = arrived \cup {p}
      /\ copies' \in 0 .. Duplicates
  <2>1. copies \in 0 .. Duplicates /\ Duplicates \in Nat
    BY FragmentsAssumption DEF IInv, TypeOK
  <2> QED
    BY <2>1 DEF Receive, senderVars
<1>2. /\ ReceiverInv' /\ SeenType'
      /\ Kept' \subseteq Kept \cup {p}
      /\ frames_' # frames_ /\ delivered' = delivered => Recent(frames_')
  BY <1>1, HandleStep
<1>3. SenderType'
  BY <1>1 DEF SenderType, IInv, TypeOK
<1>4. SenderInv'
  BY <1>1 DEF SenderInv, IInv
<1>5. Live' \subseteq Live
  BY <1>1, <1>2 DEF Live, Unsent
<1>6. Distinct'
  BY <1>1, <1>5 DEF Distinct, Number, IInv
<1> QED
  BY <1>2, <1>3, <1>4, <1>6, Parts

\* The steps of the sender, the network and the clock that make no new packet.
LEMMA QuietStep ==
  ASSUME OneNal, IInv, UNCHANGED <<pushed, base, copies, arrived, clashed, seenVars, frameVars, delivered>>,
         seq_' \in SeqNums, restarts' \in 0 .. Restarts,
         net' \subseteq net \cup Unsent, next' \in Nat,
         next' = 0 \/ (next > 0 /\ next' >= next /\ next' <= Count(pushed)),
         now' \in Times, now <= now'
  PROVE  IInv'
<1>1. pushed' \in Nat /\ pushed <= pushed' /\ now' \in Nat
  <2>1. pushed \in 0 .. Len(AccessUnits) /\ Len(AccessUnits) \in Nat
    BY FragmentsAssumption DEF IInv, TypeOK
  <2>2. now' \in Nat
    BY FragmentsAssumption DEF Times
  <2> QED
    BY <2>1, <2>2
<1>2. ReceiverInv' /\ Kept' = Kept
  BY <1>1, ReceiverUntouched
<1>3. SenderType' /\ SeenType'
  <2>1. net' \subseteq AllPackets
    BY DEF Unsent, IInv, TypeOK
  <2> QED
    BY <2>1 DEF SenderType, SeenType, seenVars, IInv, TypeOK
<1>4. SenderInv'
  BY DEF SenderInv, IInv
<1>5. Live' \subseteq Live
  <2>1. \A q \in AllPackets : q[2] \in Nat
    BY OnePlan DEF AllPackets
  <2>2. next \in Nat
    BY DEF IInv, TypeOK
  <2>3. Unsent' \subseteq Unsent
    BY <2>1, <2>2 DEF Unsent
  <2> QED
    BY <1>2, <2>3 DEF Live
<1>6. Distinct'
  BY <1>5 DEF Distinct, Number, IInv
<1> QED
  BY <1>2, <1>3, <1>4, <1>6, Parts

\* A new access unit has numbers that no packet has which exists.
LEMMA PushStep ==
  ASSUME OneNal, ~clashed', IInv, PushFrame
  PROVE  IInv'
<1> DEFINE f == pushed + 1
           n == Count(f)
<1>1. /\ f \in Units /\ pushed \in Nat /\ pushed \in 0 .. Len(AccessUnits)
      /\ pushed' \in 0 .. Len(AccessUnits)
      /\ seq_ \in SeqNums /\ base \in [Units -> SeqNums] /\ next = 0
  <2>1. pushed \in 0 .. Len(AccessUnits) /\ Len(AccessUnits) \in Nat
    BY FragmentsAssumption DEF IInv, TypeOK
  <2>2. f \in 1 .. Len(AccessUnits) /\ pushed' = f /\ next = 0
    BY DEF PushFrame, Units
  <2> QED
    BY <2>1, <2>2 DEF Units, IInv, TypeOK
<1>2. n \in Nat /\ Len(Packets[f]) = n /\ DOMAIN Packets[f] = 1 .. n
  BY <1>1, OnePlan
<1>3. /\ 0 < n /\ n < SeqSpace /\ pushed' = f /\ next' = 1
      /\ net' = UnderWay(f) /\ net' \subseteq net /\ Fresh(f)
      /\ base' = [base EXCEPT ![f] = seq_] /\ seq_' = Wrap(seq_ + n)
      /\ UNCHANGED <<copies, restarts, seenVars, frameVars, now, delivered, arrived>>
  BY <1>2 DEF PushFrame, UnderWay
<1> HIDE DEF n
<1>4. \A t \in 1 .. pushed : base'[t] = base[t]
  BY <1>1, <1>3 DEF Units
<1>5. ReceiverInv' /\ Kept' = Kept
  <2>1. now' \in Nat /\ now <= now'
    <3>1. now \in Nat
      BY FragmentsAssumption DEF IInv, TypeOK, Times
    <3> QED BY <1>3, <3>1
  <2> QED
    BY <1>1, <1>3, <1>4, <2>1, ReceiverUntouched
<1>6. SenderType' /\ SeenType'
  <2>1. n \in 0 .. SeqSpace
    BY <1>2, <1>3, FragmentsAssumption
  <2>2. seq_' \in SeqNums /\ base' \in [Units -> SeqNums]
    BY <1>1, <1>3, <2>1, WrapType
  <2>3. clashed' \in BOOLEAN
    BY DEF PushFrame
  <2> QED
    BY <1>1, <1>3, <2>2, <2>3 DEF SenderType, SeenType, seenVars, IInv, TypeOK
<1>7. SenderInv'
  <2>1. \A t \in 1 .. pushed' : t = f \/ t \in 1 .. pushed
    BY <1>1, <1>3
  <2>2. next' = 1 /\ pushed' = f
    BY <1>3
  <2> QED
    BY <1>1, <1>2, <1>3, <2>1, <2>2 DEF SenderInv, IInv, n
<1>8. \A q \in net' \cup Kept : q[1] \in 1 .. pushed /\ Number(q)' = Number(q)
  BY <1>3, <1>4 DEF Number, IInv, Distinct, Live
<1>9. ASSUME NEW q \in Unsent'
      PROVE  /\ q[1] = f
             /\ \A r \in net' \cup Kept : Number(q)' # Number(r)
  <2>1. q[1] = f /\ q[2] \in 1 .. n /\ q[2] \in DOMAIN Packets[f]
    BY <1>1, <1>2, <1>3 DEF Unsent, AllPackets
  <2>2. Number(q)' = Wrap(seq_ + q[2] - 1)
    BY <1>1, <1>3, <2>1 DEF Number
  <2>3. fragments_[Number(q)'] = NoFragment /\ \A r \in net' : Number(r) # Number(q)'
    BY <1>3, <2>1, <2>2 DEF Fresh
  <2>4. \A r \in Kept : fragments_[Number(r)] = r /\ r # NoFragment
    BY DEF Kept, Good, GoodSlot, IInv, ReceiverInv
  <2> QED
    BY <2>1, <2>3, <2>4
<1>10. Live' \subseteq net' \cup Kept \cup Unsent'
  BY <1>3, <1>5 DEF Live
<1>11. Distinct'
  <2>1. ASSUME NEW q \in Live'
        PROVE  q[1] \in 1 .. pushed'
    BY <1>1, <1>3, <1>8, <1>9, <1>10
  <2>2. ASSUME NEW q \in Live', NEW r \in Live', Number(q)' = Number(r)'
        PROVE  q[1] = r[1]
    <3>1. CASE q \in Unsent' /\ r \in Unsent'
      BY <1>9, <3>1
    <3>2. CASE q \in net' \cup Kept /\ r \in net' \cup Kept
      BY <1>3, <1>8, <2>2, <3>2 DEF IInv, Distinct, Live
    <3>3. CASE q \in Unsent' /\ r \in net' \cup Kept
      BY <1>8, <1>9, <2>2, <3>3
    <3>4. CASE q \in net' \cup Kept /\ r \in Unsent'
      BY <1>8, <1>9, <2>2, <3>4
    <3> QED
      BY <1>10, <3>1, <3>2, <3>3, <3>4
  <2> QED
    BY <2>1, <2>2 DEF Distinct
<1> QED
  BY <1>5, <1>6, <1>7, <1>11, Parts

LEMMA SendStep ==
  ASSUME OneNal, IInv, SendPacket
  PROVE  IInv'
<1> DEFINE f == pushed
<1>1. /\ next \in Nat /\ next > 0 /\ net' = net \cup {<<f, next>>} /\ next' = Following
      /\ UNCHANGED <<f, seq_, base, copies, restarts, seenVars, frameVars, now, delivered, arrived, clashed>>
  BY DEF SendPacket, IInv, TypeOK
<1>2. f \in Units /\ f > 0 /\ next <= Count(f)
  <2>1. pushed \in 0 .. Len(AccessUnits) /\ Len(AccessUnits) \in Nat
    BY FragmentsAssumption DEF IInv, TypeOK
  <2> QED
    BY <1>1, <2>1 DEF Units, IInv, SenderInv
<1>3. /\ Count(f) \in Nat /\ Len(Packets[f]) = Count(f) /\ DOMAIN Packets[f] = 1 .. Count(f)
  BY <1>2, OnePlan
<1>4. <<f, next>> \in Unsent
  BY <1>1, <1>2, <1>3 DEF Unsent, AllPackets
<1>5. next' = 0 \/ (next > 0 /\ next' >= next /\ next' <= Count(pushed))
  BY <1>1, <1>2, <1>3 DEF Following
<1>6. next' \in Nat
  BY <1>1 DEF Following
<1>7. seq_' \in SeqNums /\ restarts' \in 0 .. Restarts /\ now' \in Times /\ now <= now'
  <2>1. seq_ \in SeqNums /\ restarts \in 0 .. Restarts /\ now \in Times
    BY DEF IInv, TypeOK
  <2>2. now <= now
    BY <2>1, FragmentsAssumption DEF Times
  <2> QED BY <1>1, <2>1, <2>2
<1> QED
  BY <1>1, <1>4, <1>5, <1>6, <1>7, QuietStep

\* The empty tables are good.
LEMMA Start ==
  ASSUME Init
  PROVE  IInv
<1>1. Len(AccessUnits) \in Nat /\ MaxTime \in Nat /\ Duplicates \in Nat /\ Restarts \in Nat
      /\ SeqSpace \in Nat /\ SeqSpace > 1 /\ FirstNumbers \subseteq SeqNums /\ MaxDelay \in Nat
  BY FragmentsAssumption DEF SeqNums
<1>2. TypeOK
  <2>1. base \in [Units -> SeqNums]
    BY <1>1 DEF Init, SeqNums
  <2>2. \A f \in Units : delivered[f] = <<>>
    BY DEF Init
  <2>3. delivered \in [Units -> Seq(Seq(Units \X (Nat \ {0}) \X (Nat \ {0})))]
    BY DEF Init
  <2>4. received_frames_ \in Seq(Units) /\ received_info_ \in [Units -> SUBSET SeqNums]
    BY DEF Init
  <2>5. /\ frames_ = Empty /\ completed_ts_ = Empty /\ dropped_ts_ = Empty
        /\ DOMAIN Empty = {} /\ Empty \in [{} -> Frame] /\ Empty \in [{} -> Times]
    BY DEF Init, Empty
  <2>6. /\ net \subseteq AllPackets /\ arrived \subseteq AllPackets /\ collected \subseteq Units
        /\ fragments_ \in [SeqNums -> AllPackets \cup {NoFragment}]
    BY DEF Init
  <2>7. /\ pushed \in 0 .. Len(AccessUnits) /\ seq_ \in SeqNums /\ next \in Nat
        /\ copies \in 0 .. Duplicates /\ restarts \in 0 .. Restarts
        /\ last_garbage_collection_ \in Times /\ now \in Times /\ crashed \in BOOLEAN
    <3>1. /\ pushed = 0 /\ seq_ \in FirstNumbers /\ next = 0 /\ copies = 0 /\ restarts = 0
          /\ last_garbage_collection_ = 0 /\ now = 0 /\ crashed = FALSE
      BY DEF Init
    <3>2. \A n \in Nat : 0 \in 0 .. n
      OBVIOUS
    <3>3. 0 \in 0 .. Len(AccessUnits) /\ 0 \in 0 .. Duplicates /\ 0 \in 0 .. Restarts
          /\ 0 \in Times
      BY <1>1, <3>2 DEF Times
    <3>4. seq_ \in SeqNums
      BY <1>1, <3>1
    <3> QED
      BY <3>1, <3>3, <3>4
  <2>8. /\ DOMAIN frames_ \subseteq Units /\ frames_ \in [DOMAIN frames_ -> Frame]
        /\ DOMAIN completed_ts_ \subseteq Units
        /\ completed_ts_ \in [DOMAIN completed_ts_ -> Times]
        /\ DOMAIN dropped_ts_ \subseteq Units /\ dropped_ts_ \in [DOMAIN dropped_ts_ -> Times]
    BY <2>5
  <2>9. clashed \in BOOLEAN
    BY DEF Init
  <2> QED
    BY <2>1, <2>3, <2>4, <2>6, <2>7, <2>8, <2>9 DEF TypeOK
<1>3. fragments_ = [s \in SeqNums |-> NoFragment] /\ net = {} /\ next = 0 /\ pushed = 0
  BY DEF Init
<1>4. Live = {}
  BY <1>3 DEF Live, Kept, Unsent
<1>5. SenderInv /\ Distinct
  BY <1>3, <1>4 DEF SenderInv, Distinct
<1>6. DOMAIN frames_ = {} /\ frames_ = [t \in DOMAIN frames_ |-> frames_[t]]
  BY DEF Init, Empty
<1>7. Good(frames_, fragments_)
  BY <1>3, <1>6 DEF Good
<1>8. Whole
  BY DEF Whole, Init, ToSet
<1>9. ReceiverInv
  <2>1. FrameType
    BY <1>2 DEF TypeOK, FrameType
  <2>2. crashed = FALSE /\ last_garbage_collection_ = 0 /\ now = 0
    BY DEF Init
  <2> QED
    BY <1>6, <1>7, <1>8, <2>1, <2>2 DEF ReceiverInv, Young
<1> QED
  BY <1>2, <1>5, <1>9 DEF IInv

\* Every step keeps the invariant; a fragment kept for an incomplete frame leaves
\* only recent frames.
LEMMA Step ==
  ASSUME OneNal, ~clashed', IInv, [Next]_vars
  PROVE  /\ IInv'
         /\ frames_' # frames_ /\ delivered' = delivered => Recent(frames_')
<1>1. /\ seq_ \in SeqNums /\ restarts \in 0 .. Restarts /\ now \in Times /\ now <= now
      /\ next \in Nat /\ FirstNumbers \subseteq SeqNums /\ Restarts \in Nat /\ MaxTime \in Nat
  <2>1. seq_ \in SeqNums /\ restarts \in 0 .. Restarts /\ now \in Times /\ next \in Nat
    BY DEF IInv, TypeOK
  <2>2. FirstNumbers \subseteq SeqNums /\ Restarts \in Nat /\ MaxTime \in Nat
    BY FragmentsAssumption DEF SeqNums
  <2>3. now <= now
    BY <2>1, <2>2 DEF Times
  <2> QED
    BY <2>1, <2>2, <2>3
<1>2. next = 0 \/ (next > 0 /\ next >= next /\ next <= Count(pushed))
  BY <1>1 DEF IInv, SenderInv
<1>3. CASE PushFrame
  BY <1>3, PushStep DEF PushFrame, frameVars
<1>4. CASE SendPacket
  BY <1>4, SendStep DEF SendPacket, frameVars
<1>5. CASE SendFails
  <2>1. IInv'
    BY <1>1, <1>5, QuietStep DEF SendFails
  <2> QED
    BY <1>5, <2>1 DEF SendFails, frameVars
<1>6. CASE Restart
  <2>1. restarts' \in 0 .. Restarts /\ seq_' \in SeqNums
    BY <1>1, <1>6 DEF Restart
  <2>2. IInv'
    BY <1>1, <1>2, <1>6, <2>1, QuietStep DEF Restart
  <2> QED
    BY <1>6, <2>2 DEF Restart, frameVars
<1>7. CASE Tick
  <2>1. now' \in Times /\ now <= now'
    BY <1>1, <1>7 DEF Tick, Times
  <2>2. IInv'
    BY <1>1, <1>2, <1>7, <2>1, QuietStep DEF Tick, senderVars
  <2> QED
    BY <1>7, <2>2 DEF Tick, frameVars
<1>8. ASSUME NEW p \in net, Lose(p)
      PROVE  IInv' /\ frames_' = frames_
  <2>1. IInv'
    BY <1>1, <1>2, <1>8, QuietStep DEF Lose, senderVars
  <2> QED
    BY <1>8, <2>1 DEF Lose, frameVars
<1>9. ASSUME NEW p \in net, Receive(p)
      PROVE  /\ IInv'
             /\ frames_' # frames_ /\ delivered' = delivered => Recent(frames_')
  BY <1>9, ReceiveStep
<1>10. CASE UNCHANGED vars
  <2>1. IInv'
    BY <1>1, <1>2, <1>10, QuietStep DEF vars, senderVars
  <2> QED
    BY <1>10, <2>1 DEF vars, frameVars
<1> QED
  BY <1>3, <1>4, <1>5, <1>6, <1>7, <1>8, <1>9, <1>10 DEF Next

(***************************************************************************)
(* Whatever numbers the packets have.  Sound is the part of Good that a    *)
(* clash of numbers leaves alone: a fragment kept under the number of      *)
(* another frame's takes its slot, and the other frame's record of the     *)
(* number stays, but every fragment is on record with its own frame.       *)
(***************************************************************************)
Sound(fs, slots) ==
  /\ DOMAIN fs \subseteq 1 .. pushed
  /\ fs = [t \in DOMAIN fs |-> fs[t]]
  /\ \A t \in DOMAIN fs : GoodFrame(t, fs[t])
  /\ slots \in [SeqNums -> AllPackets \cup {NoFragment}]
  /\ \A s \in SeqNums : slots[s] # NoFragment => GoodSlot(s, fs, slots[s])

Receiver == FrameType /\ crashed \in BOOLEAN /\ Sound(frames_, fragments_)

Tables ==
  /\ TypeOK /\ SenderInv
  /\ \A q \in net : q[1] \in 1 .. pushed
  /\ Receiver

\* Dropping frames and freeing at least the numbers they have leaves sound tables.
LEMMA DropSound ==
  ASSUME NEW fs, NEW slots, Sound(fs, slots),
         NEW old \in SUBSET DOMAIN fs,
         NEW freed, \A t \in old : fs[t].seqs \subseteq freed,
         NEW fs2, fs2 = [t \in DOMAIN fs \ old |-> fs[t]]
  PROVE  Sound(fs2, Freed(slots, freed))
<1> DEFINE slots2 == Freed(slots, freed)
<1>1. slots2 \in [SeqNums -> AllPackets \cup {NoFragment}]
  BY DEF Sound, Freed
<1>2. \A s \in SeqNums : slots2[s] # NoFragment => s \notin freed /\ slots2[s] = slots[s]
  BY DEF Freed
<1>3. ASSUME NEW s \in SeqNums, slots2[s] # NoFragment
      PROVE  GoodSlot(s, fs2, slots2[s])
  <2>1. GoodSlot(s, fs, slots[s]) /\ s \notin freed /\ slots2[s] = slots[s]
    BY <1>2, <1>3 DEF Sound
  <2>2. slots[s][1] \notin old
    BY <2>1 DEF GoodSlot
  <2> QED
    BY <2>1, <2>2 DEF GoodSlot
<1>4. /\ DOMAIN fs2 \subseteq 1 .. pushed
      /\ fs2 = [t \in DOMAIN fs2 |-> fs2[t]]
      /\ \A t \in DOMAIN fs2 : GoodFrame(t, fs2[t])
  BY DEF Sound
<1> HIDE DEF slots2
<1>5. Sound(fs2, slots2)
  BY <1>1, <1>3, <1>4 DEF Sound
<1> QED
  BY <1>5 DEF slots2

LEMMA SoundNext ==
  ASSUME pushed' = pushed, base' = base, Sound(frames_', fragments_')
  PROVE  Sound(frames_, fragments_)'
BY DEF Sound, GoodFrame, GoodSlot, Numbers, Number

\* Keeping a fragment leaves sound tables, whatever its slot held.
LEMMA KeepSound ==
  ASSUME OneNal, Tables, NEW p \in net
  PROVE  Sound(KnownFrames(p), KeptSlots(p))
<1> DEFINE f == p[1]
           fs == KnownFrames(p)
           slots == KeptSlots(p)
           frame == WithFragment(p)
<1>1. /\ p \in AllPackets /\ p # NoFragment /\ f \in Units /\ f \in 1 .. pushed
      /\ Number(p) \in SeqNums /\ Number(p) \in Numbers(f)
      /\ Packet(p).kind = "start" => Number(p) = base[f]
      /\ Packet(p).kind = "end" => Number(p) = Wrap(base[f] + Count(f) - 1)
  BY NetFacts DEF Tables
<1>2. Sound(frames_, fragments_) /\ now \in Times
  BY DEF Tables, Receiver, TypeOK
<1>3. GoodFrame(f, frame)
  <2>1. frame.seqs \subseteq Numbers(f) /\ frame.seqs \subseteq SeqNums
    BY <1>1, <1>2 DEF WithFragment, Sound, GoodFrame, Frame
  <2>2. frame.s_seq \in {-1, base[f]} /\ frame.s_seq \in {-1} \cup SeqNums
    BY <1>1, <1>2 DEF WithFragment, Sound, GoodFrame, Frame
  <2>3. /\ frame.e_seq \in {-1, Wrap(base[f] + Count(f) - 1)}
        /\ frame.e_seq \in {-1} \cup SeqNums
    BY <1>1, <1>2 DEF WithFragment, Sound, GoodFrame, Frame
  <2>4. Packet(p).type \in STRING
    BY <1>1, OneKinds DEF Packet, AllPackets
  <2> DEFINE before == IF f \in DOMAIN frames_ THEN frames_[f]
                       ELSE [sframe_time |-> now, nal_type |-> Packet(p).type,
                             s_seq |-> -1, e_seq |-> -1, seqs |-> {}]
  <2>5. before \in Frame
    BY <1>2, <2>4 DEF Sound, GoodFrame, Frame
  <2>6. frame = [before EXCEPT
                   !.seqs = @ \cup {Number(p)},
                   !.s_seq = IF Packet(p).kind = "start" THEN Number(p) ELSE @,
                   !.e_seq = IF Packet(p).kind = "end" THEN Number(p) ELSE @]
    BY DEF WithFragment
  <2> HIDE DEF before, frame
  <2>7. frame \in Frame
    BY <1>1, <2>5, <2>6 DEF Frame
  <2> QED
    BY <2>1, <2>2, <2>3, <2>7 DEF GoodFrame
<1>4. /\ f \in DOMAIN frames_ => frame.seqs = frames_[f].seqs \cup {Number(p)}
      /\ f \notin DOMAIN frames_ => frame.seqs = {Number(p)}
  BY <1>2 DEF WithFragment, Sound, GoodFrame, Frame
<1>5. /\ DOMAIN fs = DOMAIN frames_ \cup {f} /\ fs[f] = frame
      /\ \A t \in DOMAIN frames_ : t # f => fs[t] = frames_[t]
  BY DEF KnownFrames
<1>6. /\ slots[Number(p)] = p
      /\ \A s \in SeqNums : s # Number(p) => slots[s] = fragments_[s]
      /\ slots \in [SeqNums -> AllPackets \cup {NoFragment}]
  BY <1>1, <1>2 DEF KeptSlots, Sound
<1>7. DOMAIN fs \subseteq 1 .. pushed /\ fs = [t \in DOMAIN fs |-> fs[t]]
  BY <1>1, <1>2 DEF Sound, KnownFrames
<1> HIDE DEF frame, fs, slots
<1>8. ASSUME NEW s \in SeqNums, slots[s] # NoFragment
      PROVE  GoodSlot(s, fs, slots[s])
  <2>1. CASE s = Number(p)
    BY <1>1, <1>4, <1>5, <1>6, <2>1 DEF GoodSlot
  <2>2. CASE s # Number(p)
    <3>1. GoodSlot(s, frames_, fragments_[s]) /\ slots[s] = fragments_[s]
      BY <1>2, <1>6, <1>8, <2>2 DEF Sound
    <3> QED
      BY <1>4, <1>5, <3>1 DEF GoodSlot
  <2> QED
    BY <2>1, <2>2
<1>9. \A t \in DOMAIN fs : GoodFrame(t, fs[t])
  BY <1>2, <1>3, <1>5 DEF Sound
<1> QED
  BY <1>6, <1>7, <1>8, <1>9 DEF Sound, fs, slots

\* reconstruction(): if no slot is empty the frame goes with all its numbers; if one
\* is, the fragments before it go and the frame stays.
LEMMA ReconstructSound ==
  ASSUME OneNal, Tables, NEW p \in net, IsComplete(WithFragment(p)),
         Reconstruct(p[1], WithFragment(p), KeptSlots(p)), UNCHANGED <<pushed, base, now>>
  PROVE  Receiver'
<1> DEFINE f == p[1]
           n == Count(f)
           frame == WithFragment(p)
           slots == KeptSlots(p)
           visited == Visited(frame)
           gaps == {k \in DOMAIN visited : slots[visited[k]] = NoFragment}
           freed == {visited[k] : k \in {j \in DOMAIN visited : \A g \in gaps : j < g}}
           fs == KnownFrames(p)
           nal == [k \in DOMAIN visited |-> Packet(slots[visited[k]]).units[1]]
           NalUnit == Seq(Units \X (Nat \ {0}) \X (Nat \ {0}))
<1>1. /\ f \in Units /\ n \in Nat \ {0} /\ n < SeqSpace /\ base[f] \in SeqNums
  BY NetFacts DEF Tables
<1>2. Sound(fs, slots) /\ f \in DOMAIN fs /\ fs[f] = frame
      /\ fs = [t \in DOMAIN frames_ \cup {f} |-> IF t = f THEN frame ELSE frames_[t]]
  BY KeepSound DEF KnownFrames
<1>3. GoodFrame(f, frame) /\ slots \in [SeqNums -> AllPackets \cup {NoFragment}]
  BY <1>2 DEF Sound
<1>4. frame.s_seq = base[f] /\ frame.e_seq = Wrap(base[f] + n - 1)
  BY <1>3 DEF GoodFrame, IsComplete
<1> HIDE DEF frame, slots, fs
<1>5. visited = [k \in 1 .. n |-> Wrap(base[f] + k - 1)]
  BY <1>1, <1>4, ExpectedIsCount
<1>6. \A k \in 1 .. n : visited[k] \in SeqNums
  <2>1. ASSUME NEW k \in 1 .. n
        PROVE  Wrap(base[f] + k - 1) \in SeqNums
    BY <1>1, FragmentsAssumption DEF Wrap, SeqNums
  <2> QED
    BY <1>5, <2>1
<1>7. FrameType /\ crashed \in BOOLEAN
  BY DEF Tables, Receiver
<1>8. /\ fragments_' = Freed(slots, freed)
      /\ UNCHANGED <<dropped_ts_, last_garbage_collection_, crashed, collected>>
  BY DEF Reconstruct, frame, slots
<1>9. CASE gaps = {}
  <2>1. /\ delivered' = [delivered EXCEPT ![f] = Append(@, nal)]
        /\ completed_ts_' = [t \in DOMAIN completed_ts_ \cup {f} |->
             IF t = f THEN frame.sframe_time ELSE completed_ts_[t]]
        /\ frames_' = [t \in DOMAIN frames_ \ {f} |-> frames_[t]]
    BY <1>9 DEF Reconstruct, frame, slots
  <2>2. frames_' = [t \in DOMAIN fs \ {f} |-> fs[t]]
    BY <1>2, <2>1
  <2>3. frame.seqs \subseteq freed
    <3>1. {j \in DOMAIN visited : \A g \in gaps : j < g} = 1 .. n
      BY <1>5, <1>9
    <3>2. freed = {visited[k] : k \in 1 .. n}
      BY <3>1
    <3>3. \A k \in 1 .. n : visited[k] = Wrap(base[f] + k - 1)
      BY <1>5
    <3> HIDE DEF visited, freed, gaps
    <3> QED
      BY <1>3, <3>2, <3>3 DEF GoodFrame, Numbers
  <2>4. nal \in NalUnit
    <3>1. ASSUME NEW q \in AllPackets
          PROVE  Packet(q).units[1] \in Units \X (Nat \ {0}) \X (Nat \ {0})
      <4>1. q[1] \in Units /\ q[2] \in DOMAIN Packets[q[1]]
        BY DEF AllPackets
      <4>2. q[2] \in 1 .. Count(q[1]) /\ Count(q[1]) \in Nat
        BY <4>1, OnePlan
      <4>3. Packets[q[1]][q[2]].units = << <<q[1], 1, q[2]>> >>
        BY <4>1, OneKinds
      <4> QED
        BY <4>1, <4>2, <4>3 DEF Packet
    <3>2. DOMAIN visited = 1 .. n
      BY <1>5
    <3>3. \A k \in 1 .. n : slots[visited[k]] # NoFragment
      BY <1>9, <3>2
    <3> HIDE DEF visited, gaps
    <3>4. \A k \in 1 .. n : slots[visited[k]] \in AllPackets
      BY <1>3, <1>6, <3>3
    <3>5. nal \in [1 .. n -> Units \X (Nat \ {0}) \X (Nat \ {0})]
      BY <3>1, <3>2, <3>4
    <3> QED
      BY <1>1, <3>5
  <2> HIDE DEF f, n, visited, gaps, freed, nal, NalUnit
  <2>5. delivered' \in [Units -> Seq(NalUnit)]
    <3>1. delivered \in [Units -> Seq(NalUnit)]
      BY <1>7 DEF FrameType, NalUnit
    <3> QED
      BY <1>1, <2>1, <2>4, <3>1
  <2>6. FrameType'
    <3>1. frame.sframe_time \in Times
      BY <1>3 DEF GoodFrame, Frame
    <3>2. /\ DOMAIN completed_ts_' \subseteq Units
          /\ completed_ts_' \in [DOMAIN completed_ts_' -> Times]
      BY <1>1, <1>7, <2>1, <3>1 DEF FrameType
    <3> QED
      BY <1>7, <1>8, <2>5, <3>2 DEF FrameType, NalUnit
  <2>7. Sound(frames_', fragments_')
    <3>1. {f} \in SUBSET DOMAIN fs /\ \A t \in {f} : fs[t].seqs \subseteq freed
      BY <1>2, <2>3
    <3>2. Sound(frames_', Freed(slots, freed))
      BY <1>2, <2>2, <3>1, DropSound
    <3> QED
      BY <1>8, <3>2
  <2> QED
    BY <1>7, <1>8, <2>6, <2>7, SoundNext DEF Receiver
<1>10. CASE gaps # {}
  <2>1. /\ frames_' = [t \in DOMAIN frames_ \cup {f} |->
                         IF t = f THEN frame ELSE frames_[t]]
        /\ UNCHANGED <<completed_ts_, delivered>>
    BY <1>10 DEF Reconstruct, frame, slots
  <2> HIDE DEF f, n, visited, gaps, freed, nal, NalUnit
  <2>2. frames_' = [t \in DOMAIN fs \ {} |-> fs[t]]
    BY <1>2, <2>1
  <2>3. Sound(frames_', Freed(slots, freed))
    <3>1. {} \in SUBSET DOMAIN fs /\ \A t \in {} : fs[t].seqs \subseteq freed
      OBVIOUS
    <3> QED
      BY <1>2, <2>2, <3>1, DropSound
  <2>4. FrameType'
    BY <1>7, <1>8, <2>1 DEF FrameType
  <2> QED
    BY <1>7, <1>8, <2>3, <2>4, SoundNext DEF Receiver
<1> QED
  BY <1>9, <1>10

\* Collecting the frames that are too old, null fragments or not.
LEMMA CollectSound ==
  ASSUME OneNal, Tables, NEW p \in net,
         Collect(p[1], WithFragment(p), KeptSlots(p)), UNCHANGED <<pushed, base, now>>
  PROVE  Receiver'
<1> DEFINE f == p[1]
           slots == KeptSlots(p)
           known == KnownFrames(p)
           old == {t \in DOMAIN known : now - known[t].sframe_time > MaxDelay}
           freed == UNION {known[t].seqs : t \in old}
           dropped == [t \in DOMAIN dropped_ts_ \cup old |->
                         IF t \in old THEN known[t].sframe_time ELSE dropped_ts_[t]]
<1>1. Sound(known, slots) /\ known = [t \in DOMAIN known |-> known[t]]
  BY KeepSound DEF KnownFrames
<1>2. FrameType /\ crashed \in BOOLEAN /\ now \in Times
  BY DEF Tables, Receiver, TypeOK
<1>3. \A t \in DOMAIN known : t \in Units /\ known[t].sframe_time \in Times
  <2>1. DOMAIN known \subseteq 1 .. pushed /\ pushed \in 0 .. Len(AccessUnits)
    BY <1>1 DEF Sound, Tables, TypeOK
  <2>2. Len(AccessUnits) \in Nat
    BY FragmentsAssumption
  <2>3. \A t \in DOMAIN known : known[t].sframe_time \in Times
    BY <1>1 DEF Sound, GoodFrame, Frame
  <2> QED
    BY <2>1, <2>2, <2>3 DEF Units
<1>4. delivered' = delivered
  BY DEF Collect
<1>5. CASE CollectionDue
  <2>1. /\ crashed' \in BOOLEAN
        /\ frames_' = [t \in DOMAIN known \ old |-> known[t]]
        /\ fragments_' = Freed(slots, freed)
        /\ completed_ts_' = [t \in Remembered(completed_ts_) |-> completed_ts_[t]]
        /\ dropped_ts_' = [t \in Remembered(dropped) |-> dropped[t]]
        /\ last_garbage_collection_' = now
        /\ collected' = collected \cup old
    BY <1>5 DEF Collect, KnownFrames
  <2>2. old \subseteq DOMAIN known /\ old \subseteq Units
    BY <1>3
  <2>3. DOMAIN dropped = DOMAIN dropped_ts_ \cup old
    OBVIOUS
  <2>4. \A t \in DOMAIN dropped : dropped[t] \in Times
    BY <1>2, <1>3, <2>2 DEF FrameType
  <2>5. \A t \in old : known[t].seqs \subseteq freed
    OBVIOUS
  <2> HIDE DEF known, slots, old, freed, dropped
  <2>6. Sound(frames_', fragments_')
    <3>1. old \in SUBSET DOMAIN known
      BY <2>2
    <3>2. Sound(frames_', Freed(slots, freed))
      BY <1>1, <2>1, <2>5, <3>1, DropSound
    <3> QED
      BY <2>1, <3>2
  <2>7. FrameType'
    <3>1. /\ DOMAIN completed_ts_' \subseteq Units
          /\ completed_ts_' \in [DOMAIN completed_ts_' -> Times]
      BY <1>2, <2>1 DEF FrameType, Remembered
    <3>2. /\ DOMAIN dropped_ts_' \subseteq Units
          /\ dropped_ts_' \in [DOMAIN dropped_ts_' -> Times]
      BY <1>2, <2>1, <2>2, <2>3, <2>4 DEF FrameType, Remembered
    <3> QED
      BY <1>2, <1>4, <2>1, <2>2, <3>1, <3>2 DEF FrameType
  <2> QED
    BY <2>1, <2>6, <2>7, SoundNext DEF Receiver
<1>6. CASE ~CollectionDue
  <2>1. /\ frames_' = known /\ fragments_' = slots
        /\ UNCHANGED <<completed_ts_, dropped_ts_, last_garbage_collection_, crashed, collected>>
    BY <1>6 DEF Collect, KnownFrames
  <2> HIDE DEF known, slots
  <2>2. Sound(frames_, fragments_)'
    BY <1>1, <2>1, SoundNext
  <2>3. FrameType'
    BY <1>2, <1>4, <2>1 DEF FrameType
  <2> QED
    BY <1>2, <2>1, <2>2, <2>3 DEF Receiver
<1> QED
  BY <1>5, <1>6

LEMMA DeliverSound ==
  ASSUME OneNal, Tables, NEW p \in net, DeliverNow(p), UNCHANGED <<pushed, base, now>>
  PROVE  Receiver'
<1> DEFINE f == p[1]
           unit == << <<f, 1, p[2]>> >>
           NalUnit == Seq(Units \X (Nat \ {0}) \X (Nat \ {0}))
<1>1. f \in Units /\ p[2] \in DOMAIN Packets[f] /\ p[2] \in 1 .. Count(f) /\ Count(f) \in Nat
  BY NetFacts, OnePlan DEF Tables
<1>2. Packet(p).units = << <<f, 1, p[2]>> >>
  BY <1>1, OneKinds DEF Packet
<1>3. [i \in DOMAIN Packet(p).units |-> <<Packet(p).units[i]>>] = <<unit>>
  BY <1>1, <1>2
<1>4. delivered' = [delivered EXCEPT ![f] = delivered[f] \o <<unit>>]
  BY <1>3 DEF DeliverNow
<1>5. unit \in NalUnit
  BY <1>1
<1>6. delivered \in [Units -> Seq(NalUnit)] /\ Receiver
  BY DEF Tables, Receiver, FrameType
<1> HIDE DEF f, unit, NalUnit
<1>7. delivered' \in [Units -> Seq(NalUnit)]
  BY <1>1, <1>4, <1>5, <1>6
<1>8. UNCHANGED frameVars
  BY DEF DeliverNow
<1>9. FrameType' /\ crashed' \in BOOLEAN
  BY <1>6, <1>7, <1>8 DEF Receiver, FrameType, frameVars, NalUnit
<1>10. Sound(frames_', fragments_')
  BY <1>6, <1>8 DEF frameVars, Receiver
<1> QED
  BY <1>9, <1>10, SoundNext DEF Receiver

\* Steps that leave the receiver alone.
LEMMA SoundUntouched ==
  ASSUME Tables, UNCHANGED <<frameVars, delivered>>,
         pushed' \in Nat, pushed <= pushed',
         \A t \in 1 .. pushed : base'[t] = base[t]
  PROVE  Receiver'
<1>1. /\ frames_' = frames_ /\ fragments_' = fragments_ /\ delivered' = delivered
      /\ UNCHANGED <<completed_ts_, dropped_ts_, last_garbage_collection_, crashed, collected>>
  BY DEF frameVars
<1>2. pushed \in Nat
  BY FragmentsAssumption DEF Tables, TypeOK
<1>3. Sound(frames_, fragments_)
  BY DEF Tables, Receiver
<1>4. DOMAIN frames_ \subseteq 1 .. pushed /\ 1 .. pushed \subseteq 1 .. pushed'
  BY <1>2, <1>3 DEF Sound
<1>5. ASSUME NEW t \in DOMAIN frames_
      PROVE  /\ frames_[t] \in Frame
             /\ frames_[t].seqs \subseteq Numbers(t)'
             /\ frames_[t].s_seq \in {-1, base'[t]}
             /\ frames_[t].e_seq \in {-1, Wrap(base'[t] + Count(t) - 1)}
  <2>1. GoodFrame(t, frames_[t]) /\ base'[t] = base[t]
    BY <1>3, <1>4 DEF Sound
  <2>2. Numbers(t)' = Numbers(t)
    BY <2>1 DEF Numbers
  <2> QED
    BY <2>1, <2>2 DEF GoodFrame
<1>6. ASSUME NEW s \in SeqNums, fragments_[s] # NoFragment
      PROVE  /\ fragments_[s] \in AllPackets
             /\ Wrap(base'[fragments_[s][1]] + fragments_[s][2] - 1) = s
             /\ fragments_[s][1] \in DOMAIN frames_ /\ s \in frames_[fragments_[s][1]].seqs
  <2>1. GoodSlot(s, frames_, fragments_[s])
    BY <1>3, <1>6 DEF Sound
  <2> QED
    BY <1>4, <2>1 DEF GoodSlot, Number
<1>7. Sound(frames_, fragments_)'
  BY <1>1, <1>3, <1>4, <1>5, <1>6 DEF Sound, GoodFrame, GoodSlot, Number
<1> QED
  BY <1>1, <1>7 DEF Tables, Receiver, FrameType

LEMMA TablesParts ==
  ASSUME SenderType', SeenType', SenderInv', \A q \in net' : q[1] \in 1 .. pushed', Receiver'
  PROVE  Tables'
<1>1. /\ DOMAIN frames_' \subseteq 1 .. pushed' /\ pushed' \in 0 .. Len(AccessUnits)
      /\ frames_' = [t \in DOMAIN frames_' |-> frames_'[t]]
      /\ \A t \in DOMAIN frames_' : frames_'[t] \in Frame
      /\ fragments_' \in [SeqNums -> AllPackets \cup {NoFragment}]
  BY DEF Receiver, Sound, GoodFrame, SenderType
<1>2. Len(AccessUnits) \in Nat
  BY FragmentsAssumption
<1>3. DOMAIN frames_' \subseteq Units
  BY <1>1, <1>2 DEF Units
<1>4. frames_' \in [DOMAIN frames_' -> Frame]
  BY <1>1
<1>5. TypeOK'
  BY <1>1, <1>3, <1>4 DEF TypeOK, SenderType, SeenType, Receiver, FrameType
<1> QED
  BY <1>5 DEF Tables

LEMMA ReceiveSound ==
  ASSUME OneNal, Tables, NEW p \in net, Receive(p)
  PROVE  Tables'
<1>1. /\ Handle(p) /\ UNCHANGED <<pushed, seq_, base, next, restarts, now, clashed>>
      /\ net' \subseteq net /\ arrived' = arrived \cup {p}
      /\ copies' \in 0 .. Duplicates
  <2>1. copies \in 0 .. Duplicates /\ Duplicates \in Nat
    BY FragmentsAssumption DEF Tables, TypeOK
  <2> QED
    BY <2>1 DEF Receive, senderVars
<1>2. p[1] \in Units /\ Number(p) \in SeqNums /\ SeenType
  BY NetFacts DEF Tables, SeenType, TypeOK
<1>3. SeenType'
  <2>1. CASE Duplicate(p)
    BY <1>1, <1>2, <2>1 DEF Handle, seenVars, SeenType
  <2>2. CASE ~Duplicate(p)
    BY <1>1, <1>2, <2>2, RememberType DEF Handle
  <2> QED
    BY <2>1, <2>2
<1>4. Receiver'
  <2>1. CASE UNCHANGED <<frameVars, delivered>>
    <3>1. pushed' \in Nat /\ pushed <= pushed' /\ \A t \in 1 .. pushed : base'[t] = base[t]
      <4>1. pushed \in 0 .. Len(AccessUnits) /\ Len(AccessUnits) \in Nat
        BY FragmentsAssumption DEF Tables, TypeOK
      <4> QED
        BY <1>1, <4>1
    <3> QED
      BY <2>1, <3>1, SoundUntouched
  <2>2. CASE DeliverNow(p)
    BY <1>1, <2>2, DeliverSound
  <2>3. CASE KeepFragment(p)
    <3>1. CASE IsComplete(WithFragment(p))
      <4>1. Reconstruct(p[1], WithFragment(p), KeptSlots(p))
        BY <2>3, <3>1 DEF KeepFragment, KeptSlots
      <4> QED
        BY <1>1, <3>1, <4>1, ReconstructSound
    <3>2. CASE ~IsComplete(WithFragment(p))
      <4>1. Collect(p[1], WithFragment(p), KeptSlots(p))
        BY <2>3, <3>2 DEF KeepFragment, KeptSlots
      <4> QED
        BY <1>1, <4>1, CollectSound
    <3> QED
      BY <3>1, <3>2
  <2> QED
    BY <1>1, <2>1, <2>2, <2>3 DEF Handle
<1>5. SenderType'
  BY <1>1 DEF SenderType, Tables, TypeOK
<1>6. SenderInv'
  BY <1>1 DEF SenderInv, Tables
<1>7. \A q \in net' : q[1] \in 1 .. pushed'
  BY <1>1 DEF Tables
<1> QED
  BY <1>3, <1>4, <1>5, <1>6, <1>7, TablesParts

LEMMA TablesStep ==
  ASSUME OneNal, Tables, [Next]_vars
  PROVE  Tables'
<1>1. /\ pushed \in Nat /\ pushed \in 0 .. Len(AccessUnits) /\ Len(AccessUnits) \in Nat
      /\ seq_ \in SeqNums /\ base \in [Units -> SeqNums] /\ next \in Nat
      /\ net \subseteq AllPackets /\ now \in Times /\ restarts \in 0 .. Restarts
      /\ FirstNumbers \subseteq SeqNums /\ Restarts \in Nat /\ MaxTime \in Nat
      /\ clashed \in BOOLEAN
  <2>1. FirstNumbers \subseteq SeqNums /\ Restarts \in Nat /\ MaxTime \in Nat
        /\ Len(AccessUnits) \in Nat
    BY FragmentsAssumption DEF SeqNums
  <2>2. /\ pushed \in 0 .. Len(AccessUnits) /\ seq_ \in SeqNums
        /\ base \in [Units -> SeqNums] /\ next \in Nat
        /\ net \subseteq AllPackets /\ now \in Times /\ restarts \in 0 .. Restarts
        /\ clashed \in BOOLEAN
    BY DEF Tables, TypeOK
  <2>3. pushed \in Nat
    BY <2>1, <2>2
  <2> QED
    BY <2>1, <2>2, <2>3
<1>2. ASSUME NEW p \in net, Receive(p)
      PROVE  Tables'
  BY <1>2, ReceiveSound
<1>3. ASSUME UNCHANGED <<frameVars, delivered, seenVars, pushed, base, copies, arrived, clashed>>,
             seq_' \in SeqNums, restarts' \in 0 .. Restarts, now' \in Times,
             next' \in Nat, next' > 0 => pushed > 0 /\ next' <= Count(pushed),
             net' \subseteq AllPackets, \A q \in net' : q[1] \in 1 .. pushed
      PROVE  Tables'
  <2>1. Receiver'
    BY <1>1, <1>3, SoundUntouched
  <2>2. SenderType' /\ SeenType'
    BY <1>3 DEF SenderType, SeenType, seenVars, Tables, TypeOK
  <2>3. SenderInv'
    BY <1>3 DEF SenderInv, Tables
  <2> QED
    BY <1>3, <2>1, <2>2, <2>3, TablesParts
<1>4. CASE PushFrame
  <2> DEFINE f == pushed + 1
             n == Count(f)
  <2>1. f \in Units /\ pushed' = f /\ next' = 1 /\ net' \subseteq net
        /\ base' = [base EXCEPT ![f] = seq_] /\ seq_' = Wrap(seq_ + Len(Packets[f]))
        /\ 0 < Len(Packets[f]) /\ Len(Packets[f]) < SeqSpace
        /\ clashed' \in BOOLEAN
        /\ UNCHANGED <<copies, restarts, seenVars, frameVars, now, delivered, arrived>>
    BY <1>4 DEF PushFrame, UnderWay
  <2>2. n \in Nat /\ Len(Packets[f]) = n
    BY <2>1, OnePlan
  <2> HIDE DEF n
  <2>3. \A t \in 1 .. pushed : base'[t] = base[t]
    BY <1>1, <2>1 DEF Units
  <2>4. Receiver'
    BY <1>1, <2>1, <2>3, SoundUntouched
  <2>5. SenderType' /\ SeenType'
    <3>1. n \in 0 .. SeqSpace /\ pushed' \in 0 .. Len(AccessUnits)
      BY <1>1, <2>1, <2>2, FragmentsAssumption DEF Units
    <3>2. seq_' \in SeqNums /\ base' \in [Units -> SeqNums]
      BY <1>1, <2>1, <2>2, <3>1, WrapType
    <3> QED
      BY <2>1, <3>1, <3>2 DEF SenderType, SeenType, seenVars, Tables, TypeOK
  <2>6. SenderInv'
    <3>1. \A t \in 1 .. pushed' : t = f \/ t \in 1 .. pushed
      BY <1>1, <2>1
    <3>2. n > 0 /\ n < SeqSpace /\ 1 <= n /\ f > 0
      BY <1>1, <2>1, <2>2
    <3>3. \A t \in 1 .. pushed : Count(t) > 0 /\ Count(t) < SeqSpace
      BY DEF Tables, SenderInv
    <3> QED
      BY <2>1, <3>1, <3>2, <3>3 DEF SenderInv, n
  <2>7. \A q \in net' : q[1] \in 1 .. pushed'
    BY <1>1, <2>1 DEF Tables
  <2> QED
    BY <2>4, <2>5, <2>6, <2>7, TablesParts
<1>5. CASE SendPacket
  <2>1. /\ next > 0 /\ net' = net \cup {<<pushed, next>>} /\ next' = Following
        /\ UNCHANGED <<pushed, seq_, base, copies, restarts, seenVars, frameVars, now,
                       delivered, arrived, clashed>>
    BY <1>5 DEF SendPacket
  <2>2. pushed > 0 /\ next <= Count(pushed) /\ pushed \in Units /\ pushed \in 1 .. pushed
    BY <1>1, <2>1 DEF Tables, SenderInv, Units
  <2>3. Count(pushed) \in Nat /\ Len(Packets[pushed]) = Count(pushed)
        /\ DOMAIN Packets[pushed] = 1 .. Count(pushed)
    BY <2>2, OnePlan
  <2>4. <<pushed, next>> \in AllPackets
    BY <1>1, <2>1, <2>2, <2>3 DEF AllPackets
  <2>5. next' \in Nat /\ (next' > 0 => pushed > 0 /\ next' <= Count(pushed))
    BY <1>1, <2>1, <2>2, <2>3 DEF Following
  <2>6. net' \subseteq AllPackets /\ \A q \in net' : q[1] \in 1 .. pushed
    BY <1>1, <2>1, <2>2, <2>4 DEF Tables
  <2> QED
    BY <1>1, <1>3, <2>1, <2>5, <2>6
<1>6. CASE /\ UNCHANGED <<frameVars, delivered, seenVars, pushed, base, copies, arrived, clashed>>
           /\ seq_' \in SeqNums /\ restarts' \in 0 .. Restarts /\ now' \in Times
           /\ next' \in {0, next} /\ net' \subseteq net
  <2>1. next' \in Nat /\ (next' > 0 => pushed > 0 /\ next' <= Count(pushed))
    BY <1>1, <1>6 DEF Tables, SenderInv
  <2>2. net' \subseteq AllPackets /\ \A q \in net' : q[1] \in 1 .. pushed
    BY <1>1, <1>6 DEF Tables
  <2> QED
    BY <1>3, <1>6, <2>1, <2>2
<1>7. CASE SendFails
  BY <1>1, <1>6, <1>7 DEF SendFails
<1>8. CASE Restart
  <2>1. seq_' \in SeqNums /\ restarts' \in 0 .. Restarts
    BY <1>1, <1>8 DEF Restart
  <2> QED
    BY <1>1, <1>6, <1>8, <2>1 DEF Restart
<1>9. CASE Tick
  <2>1. now' \in Times
    BY <1>1, <1>9 DEF Tick, Times
  <2> QED
    BY <1>1, <1>6, <1>9, <2>1 DEF Tick, senderVars
<1>10. ASSUME NEW p \in net, Lose(p)
       PROVE  Tables'
  BY <1>1, <1>6, <1>10 DEF Lose, senderVars
<1>11. CASE UNCHANGED vars
  BY <1>1, <1>6, <1>11 DEF vars, senderVars
<1> QED
  BY <1>2, <1>4, <1>5, <1>7, <1>8, <1>9, <1>10, <1>11 DEF Next

(***************************************************************************)
(* Theorems.                                                               *)
(***************************************************************************)
\* The tables are sound in every state, whatever numbers the sender draws.
THEOREM TablesInductive ==
  ASSUME OneNal
  PROVE  Spec => []Tables
<1>1. Init => Tables
  <2>1. ASSUME IInv
        PROVE  Tables
    <3>1. \A q \in net : q[1] \in 1 .. pushed
      BY <2>1 DEF IInv, Distinct, Live
    <3>2. Sound(frames_, fragments_)
      BY <2>1 DEF IInv, ReceiverInv, Good, Sound
    <3> QED
      BY <2>1, <3>1, <3>2 DEF IInv, ReceiverInv, Tables, Receiver
  <2> QED
    BY <2>1, Start
<1>2. Tables /\ [Next]_vars => Tables'
  BY TablesStep
<1> QED
  BY <1>1, <1>2, PTL DEF Spec

\* What has clashed has clashed.
LEMMA ClashStays ==
  ASSUME clashed, [Next]_vars
  PROVE  clashed'
<1>1. CASE PushFrame
  BY <1>1 DEF PushFrame
<1>2. CASE UNCHANGED clashed
  BY <1>2
<1> QED
  BY <1>1, <1>2
     DEF Next, vars, SendPacket, SendFails, Restart, Tick, Lose, Receive

\* The invariant holds as long as no number is used again while a packet that had it
\* is about, for access units of one NAL unit.
THEOREM Inductive ==
  ASSUME OneNal
  PROVE  Spec => [](~clashed => IInv)
<1>1. Init => (~clashed => IInv)
  BY Start
<1>2. (~clashed => IInv) /\ [Next]_vars => (~clashed => IInv)'
  BY Step, ClashStays
<1> QED
  BY <1>1, <1>2, PTL DEF Spec

\* Every variable keeps its type, whatever numbers clash: in particular the table of
\* fragments holds packets and the frames hold sequence numbers.
THEOREM TypeCorrect ==
  ASSUME OneNal
  PROVE  Spec => []TypeOK
<1>1. Tables => TypeOK
  BY DEF Tables
<1> QED
  BY <1>1, TablesInductive, PTL

\* packet_handler gives the flow only NAL units that were pushed, whole and in order,
\* whatever is lost, repeated, late or reordered, for every size and every first number.
THEOREM OnlyWholeFrames ==
  ASSUME OneNal
  PROVE  Spec => []WholeFrames
<1>1. (~clashed => IInv) => WholeFrames
  BY DEF IInv, ReceiverInv, Whole, WholeFrames
<1> QED
  BY <1>1, Inductive, PTL

\* No fragment is left behind that no frame would free, whatever numbers a sender that
\* starts again draws; and no null fragment is dereferenced before numbers clash.
THEOREM EveryFragmentBelongs ==
  ASSUME OneNal
  PROVE  Spec => []FragmentsBelong
<1>1. Tables => FragmentsRecorded
  BY DEF Tables, Receiver, Sound, GoodSlot, FragmentsRecorded
<1>2. IInv => ~crashed /\ RecordsBelong
  BY DEF IInv, ReceiverInv, Good, RecordsBelong
<1>3. Tables /\ (~clashed => IInv) => FragmentsBelong
  BY <1>1, <1>2 DEF FragmentsBelong
<1> QED
  BY <1>3, TablesInductive, Inductive, PTL

\* A fragment that completes nothing leaves no frame behind that is older than the
\* allowed delay and the interval of the collection together.
THEOREM StaleCollected ==
  ASSUME OneNal
  PROVE  Spec => StaleFramesAreCollected
<1> DEFINE A == frames_' # frames_ /\ delivered' = delivered /\ ~clashed'
                  => \A f \in DOMAIN frames_' :
                       now - frames_'[f].sframe_time < MaxDelay + GcInterval
<1>1. (~clashed => IInv) /\ [Next]_vars => [A]_vars
  BY Step, ClashStays DEF Recent
<1> QED
  BY <1>1, Inductive, PTL DEF Spec, StaleFramesAreCollected

(***************************************************************************)
(* What arrives is given to the flow.                                      *)
(***************************************************************************)
Given(f) == WholeNal(f, 1) \in ToSet(delivered[f])

\* The fragment is known to the frame it is of.
Recorded(p) ==
  /\ IsFragment(p) /\ p[1] \in DOMAIN frames_
  /\ Number(p) \in frames_[p[1]].seqs
  /\ Packet(p).kind = "start" => frames_[p[1]].s_seq # -1
  /\ Packet(p).kind = "end" => frames_[p[1]].e_seq # -1

\* What the receiver remembers of packets it has from packets that arrived.
Arrivals ==
  /\ \A p \in arrived : p[1] \in 1 .. pushed
  /\ Kept \subseteq arrived
  /\ \A f \in Units : \A s \in received_info_[f] :
       \E p \in arrived : p[1] = f /\ Number(p) = s

\* No packet that arrived is forgotten while its access unit is neither given to the
\* flow nor dropped; and no frame waits that has all its fragments.
Settled ==
  /\ \A p \in arrived : p[1] \in collected \/ Given(p[1]) \/ Recorded(p)
  /\ \A f \in DOMAIN frames_ :
       frames_[f].nal_type = AccessUnits[f][1].type /\ ~IsComplete(frames_[f])
  /\ \A f \in DOMAIN completed_ts_ : Given(f)
  /\ DOMAIN dropped_ts_ \subseteq collected

\* Access units are pushed in the order they have.
LEMMA PushedType ==
  ASSUME IInv
  PROVE  pushed \in Nat /\ \A f \in 1 .. pushed : f \in Units
<1>1. Len(AccessUnits) \in Nat
  BY FragmentsAssumption
<1>2. pushed \in 0 .. Len(AccessUnits)
  BY DEF IInv, TypeOK
<1> QED
  BY <1>1, <1>2 DEF Units

\* An access unit has no two packets of one number.
LEMMA SameNumber ==
  ASSUME OneNal, IInv, NEW p \in AllPackets, NEW q \in AllPackets,
         p[1] \in 1 .. pushed, q[1] = p[1], Number(p) = Number(q)
  PROVE  p = q
<1> DEFINE f == p[1]
<1>1. f \in Units /\ p = <<f, p[2]>> /\ q = <<f, q[2]>>
      /\ p[2] \in 1 .. Count(f) /\ q[2] \in 1 .. Count(f)
  BY OnePlan DEF AllPackets
<1>2. Count(f) \in Nat /\ Count(f) < SeqSpace /\ base[f] \in SeqNums
  BY <1>1, OnePlan DEF IInv, SenderInv, TypeOK
<1>3. Wrap(base[f] + p[2] - 1) = Wrap(base[f] + q[2] - 1)
  BY DEF Number
<1>4. p[2] = q[2]
  BY <1>1, <1>2, <1>3, WrapInjective
<1> QED
  BY <1>1, <1>4

\* is_duplicate_frame() adds the packet's number and no other.
LEMMA RememberAdds ==
  ASSUME SeenType, NEW p, p[1] \in Units, Remember(p), NEW f \in Units
  PROVE  \A s \in received_info_'[f] :
           s \in received_info_[f] \/ (f = p[1] /\ s = Number(p))
<1> DEFINE seen == [received_info_ EXCEPT ![p[1]] = @ \cup {Number(p)}]
           full == Append(received_frames_, p[1])
<1>1. \/ received_info_' = [seen EXCEPT ![Head(full)] = {}]
      \/ received_info_' = seen
  BY DEF Remember
<1>2. received_info_'[f] \subseteq seen[f]
  BY <1>1 DEF SeenType
<1>3. \A s \in seen[f] : s \in received_info_[f] \/ (f = p[1] /\ s = Number(p))
  BY DEF SeenType
<1> QED
  BY <1>2, <1>3

\* A fragment adds to what is known of its frame.
LEMMA FragmentAdds ==
  ASSUME OneNal, IInv, NEW p \in net
  PROVE  LET f == p[1]
             frame == WithFragment(p)
         IN /\ Number(p) \in frame.seqs
            /\ Packet(p).kind = "start" => frame.s_seq # -1
            /\ Packet(p).kind = "end" => frame.e_seq # -1
            /\ f \in DOMAIN frames_ =>
                 /\ frames_[f].seqs \subseteq frame.seqs
                 /\ frames_[f].s_seq # -1 => frame.s_seq # -1
                 /\ frames_[f].e_seq # -1 => frame.e_seq # -1
                 /\ frame.nal_type = frames_[f].nal_type
            /\ f \notin DOMAIN frames_ => frame.nal_type = Packet(p).type
<1> DEFINE f == p[1]
           frame == WithFragment(p)
           before == IF f \in DOMAIN frames_ THEN frames_[f]
                     ELSE [sframe_time |-> now, nal_type |-> Packet(p).type,
                           s_seq |-> -1, e_seq |-> -1, seqs |-> {}]
<1>1. Number(p) # -1
  BY PacketFacts, FragmentsAssumption DEF SeqNums
<1>2. before \in Frame
  <2>1. Packet(p).type \in STRING
    BY PacketFacts, OnePlan, OneKinds DEF Packet
  <2>2. now \in Times /\ \A t \in DOMAIN frames_ : frames_[t] \in Frame
    BY DEF IInv, TypeOK, ReceiverInv, Good, GoodFrame
  <2> QED
    BY <2>1, <2>2 DEF Frame
<1>3. frame = [before EXCEPT
                 !.seqs = @ \cup {Number(p)},
                 !.s_seq = IF Packet(p).kind = "start" THEN Number(p) ELSE @,
                 !.e_seq = IF Packet(p).kind = "end" THEN Number(p) ELSE @]
  BY DEF WithFragment
<1>4. /\ f \in DOMAIN frames_ => before = frames_[f]
      /\ f \notin DOMAIN frames_ => before.nal_type = Packet(p).type
  OBVIOUS
<1> HIDE DEF before, frame
<1>5. /\ frame.seqs = before.seqs \cup {Number(p)}
      /\ frame.s_seq = IF Packet(p).kind = "start" THEN Number(p) ELSE before.s_seq
      /\ frame.e_seq = IF Packet(p).kind = "end" THEN Number(p) ELSE before.e_seq
      /\ frame.nal_type = before.nal_type
  BY <1>2, <1>3 DEF Frame
<1> QED
  BY <1>1, <1>4, <1>5 DEF frame

\* A NAL unit once given stays given, and giving it is giving it.
LEMMA GivenStays ==
  ASSUME IInv, NEW f \in Units, Gives(f)
  PROVE  /\ Given(f)'
         /\ \A t \in Units : Given(t) => Given(t)'
<1>1. /\ delivered \in [Units -> Seq(Seq(Units \X (Nat \ {0}) \X (Nat \ {0})))]
      /\ delivered' = [delivered EXCEPT ![f] = Append(delivered[f], WholeNal(f, 1))]
  BY DEF IInv, TypeOK, Gives
<1>2. ASSUME NEW S, NEW q \in Seq(S), NEW x
      PROVE  ToSet(Append(q, x)) = ToSet(q) \cup {x}
  <2>1. /\ DOMAIN Append(q, x) = DOMAIN q \cup {Len(q) + 1}
        /\ Append(q, x)[Len(q) + 1] = x
        /\ \A i \in DOMAIN q : Append(q, x)[i] = q[i]
    OBVIOUS
  <2> QED
    BY <2>1 DEF ToSet
<1>3. ToSet(Append(delivered[f], WholeNal(f, 1))) = ToSet(delivered[f]) \cup {WholeNal(f, 1)}
  BY <1>1, <1>2
<1>4. /\ delivered'[f] = Append(delivered[f], WholeNal(f, 1))
      /\ \A t \in Units : t # f => delivered'[t] = delivered[t]
  BY <1>1
<1> QED
  BY <1>3, <1>4 DEF Given

LEMMA ArrivalsReceive ==
  ASSUME OneNal, IInv, Arrivals, NEW p \in net, Receive(p)
  PROVE  Arrivals'
<1>1. /\ Handle(p) /\ UNCHANGED <<pushed, base, now>> /\ arrived' = arrived \cup {p}
      /\ SeenType
  BY DEF Receive, senderVars, IInv, TypeOK, SeenType
<1>2. p[1] \in Units /\ p[1] \in 1 .. pushed
  BY PacketFacts
<1>3. Kept' \subseteq arrived'
  BY <1>1, HandleStep DEF Arrivals
<1>4. \A q : Number(q)' = Number(q)
  BY <1>1 DEF Number
<1>5. ASSUME NEW f \in Units, NEW s \in received_info_'[f]
      PROVE  \E q \in arrived' : q[1] = f /\ Number(q)' = s
  <2>1. s \in received_info_[f] \/ (f = p[1] /\ s = Number(p))
    <3>1. CASE UNCHANGED seenVars
      BY <1>5, <3>1 DEF seenVars
    <3>2. CASE Remember(p)
      BY <1>1, <1>2, <1>5, <3>2, RememberAdds
    <3> QED
      BY <1>1, <3>1, <3>2 DEF Handle
  <2> QED
    BY <1>1, <1>4, <2>1 DEF Arrivals
<1> QED
  BY <1>1, <1>2, <1>3, <1>5 DEF Arrivals

LEMMA SettledReceive ==
  ASSUME OneNal, IInv, Arrivals, Settled, NEW p \in net, Receive(p)
  PROVE  Settled'
<1> DEFINE f == p[1]
<1>1. /\ Handle(p) /\ UNCHANGED <<pushed, base, now>> /\ arrived' = arrived \cup {p}
  BY DEF Receive, senderVars
<1>2. /\ p \in AllPackets /\ f \in Units /\ f \in 1 .. pushed /\ p[2] \in DOMAIN Packets[f]
      /\ Number(p) \in SeqNums
  BY PacketFacts, OnePlan
<1>3. \A q : Number(q)' = Number(q)
  BY <1>1 DEF Number
<1>4. \A q \in arrived : q \in AllPackets /\ q[1] \in Units
  BY DEF IInv, TypeOK, AllPackets
\* Nothing changes but that p arrives.
<1>5. ASSUME UNCHANGED <<frameVars, delivered>>,
             p \in arrived \/ f \in collected \/ Given(f)
      PROVE  Settled'
  <2>1. /\ UNCHANGED <<frames_, completed_ts_, dropped_ts_, collected, delivered>>
    BY <1>5 DEF frameVars
  <2>2. \A q \in arrived' : q[1] \in collected \/ Given(q[1]) \/ Recorded(q)
    BY <1>1, <1>5 DEF Settled
  <2>3. \A q : /\ Recorded(q) => Recorded(q)'
               /\ Given(q[1])' = Given(q[1])
    BY <1>3, <2>1 DEF Recorded, Given
  <2> QED
    BY <2>1, <2>2, <2>3 DEF Settled, Given, IsComplete, Expected
<1>6. CASE Duplicate(p) /\ UNCHANGED <<seenVars, frameVars, delivered>>
  <2>1. PICK q \in arrived : q[1] = f /\ Number(q) = Number(p)
    BY <1>2, <1>6 DEF Duplicate, Arrivals
  <2>2. q = p
    BY <1>2, <1>4, <2>1, SameNumber
  <2> QED
    BY <1>5, <1>6, <2>1, <2>2
<1>7. CASE Closed(f) /\ UNCHANGED <<frameVars, delivered>>
  BY <1>5, <1>7 DEF Closed, Settled
<1>8. CASE IsFragment(p) /\ Rejected(p) /\ UNCHANGED <<frameVars, delivered>>
  <2>1. f \in DOMAIN frames_ /\ Number(p) \in frames_[f].seqs
    BY <1>2, <1>8, OneKinds DEF Rejected, Settled, Packet
  <2> DEFINE q == fragments_[Number(p)]
  <2>2. /\ q # NoFragment /\ q[1] = f
        /\ GoodSlot(Number(p), frames_, q)
    BY <1>2, <2>1 DEF IInv, ReceiverInv, Good
  <2>3. q \in arrived /\ q \in AllPackets /\ Number(q) = Number(p)
    BY <1>2, <2>2 DEF Arrivals, Kept, GoodSlot
  <2> HIDE DEF q
  <2>4. q = p
    BY <1>2, <2>2, <2>3, SameNumber
  <2> QED
    BY <1>5, <1>8, <2>3, <2>4
<1>9. CASE Gives(f) /\ UNCHANGED frameVars
  <2>1. /\ UNCHANGED <<frames_, completed_ts_, dropped_ts_, collected>>
    BY <1>9 DEF frameVars
  <2>2. Given(f)' /\ \A t \in Units : Given(t) => Given(t)'
    BY <1>2, <1>9, GivenStays
  <2>3. \A q : Recorded(q) => Recorded(q)'
    BY <1>3, <2>1 DEF Recorded
  <2>4. \A q \in arrived' : q[1] \in collected' \/ Given(q[1])' \/ Recorded(q)'
    BY <1>1, <1>4, <2>1, <2>2, <2>3 DEF Settled
  <2>5. \A t \in DOMAIN completed_ts_' : Given(t)'
    BY <2>1, <2>2 DEF Settled, IInv, TypeOK
  <2> QED
    BY <2>1, <2>4, <2>5 DEF Settled, IsComplete, Expected
<1>10. CASE Gives(f) /\ Closes(f)
  <2>1. /\ DOMAIN frames_' = DOMAIN frames_ \ {f}
        /\ \A t \in DOMAIN frames_' : frames_'[t] = frames_[t]
        /\ DOMAIN completed_ts_' = DOMAIN completed_ts_ \cup {f}
        /\ UNCHANGED <<dropped_ts_, collected>>
    BY <1>10 DEF Closes
  <2>2. Given(f)' /\ \A t \in Units : Given(t) => Given(t)'
    BY <1>2, <1>10, GivenStays
  <2>3. \A q : q[1] # f /\ Recorded(q) => Recorded(q)'
    BY <1>3, <2>1 DEF Recorded
  <2>4. \A q \in arrived' : q[1] \in collected' \/ Given(q[1])' \/ Recorded(q)'
    BY <1>1, <1>4, <2>1, <2>2, <2>3 DEF Settled
  <2>5. \A t \in DOMAIN completed_ts_' : Given(t)'
    BY <2>1, <2>2 DEF Settled, IInv, TypeOK
  <2>6. \A t \in DOMAIN frames_' :
          frames_'[t].nal_type = AccessUnits[t][1].type /\ ~IsComplete(frames_'[t])
    BY <2>1 DEF Settled
  <2> QED
    BY <2>1, <2>4, <2>5, <2>6 DEF Settled, IsComplete, Expected
<1>11. CASE IsFragment(p) /\ ~IsComplete(WithFragment(p)) /\ Keeps(p)
  <2> DEFINE known == KnownFrames(p)
             frame == WithFragment(p)
  <2>1. PICK old \in SUBSET DOMAIN known :
          /\ frames_' = [t \in DOMAIN known \ old |-> known[t]]
          /\ DOMAIN completed_ts_' \subseteq DOMAIN completed_ts_
          /\ DOMAIN dropped_ts_' \subseteq DOMAIN dropped_ts_ \cup old
          /\ collected' = collected \cup old
          /\ delivered' = delivered
    BY <1>11 DEF Keeps
  <2>2. /\ DOMAIN known = DOMAIN frames_ \cup {f} /\ known[f] = frame
        /\ \A t \in DOMAIN frames_ : t # f => known[t] = frames_[t]
    BY DEF KnownFrames
  <2>3. /\ Number(p) \in frame.seqs
        /\ Packet(p).kind = "start" => frame.s_seq # -1
        /\ Packet(p).kind = "end" => frame.e_seq # -1
        /\ f \in DOMAIN frames_ =>
             /\ frames_[f].seqs \subseteq frame.seqs
             /\ frames_[f].s_seq # -1 => frame.s_seq # -1
             /\ frames_[f].e_seq # -1 => frame.e_seq # -1
             /\ frame.nal_type = frames_[f].nal_type
        /\ f \notin DOMAIN frames_ => frame.nal_type = Packet(p).type
    BY FragmentAdds
  <2>4. Packet(p).type = AccessUnits[f][1].type /\ ~IsComplete(frame)
    BY <1>2, <1>11, OneKinds DEF Packet
  <2> HIDE DEF known, frame
  <2>5. /\ DOMAIN frames_' = DOMAIN known \ old
        /\ \A t \in DOMAIN frames_' : frames_'[t] = known[t]
    BY <2>1
  <2>6. ASSUME NEW q, q[1] \notin old, Recorded(q) \/ q = p
        PROVE  Recorded(q)'
    <3>1. q[1] \in DOMAIN frames_' /\ frames_'[q[1]] = known[q[1]] /\ IsFragment(q)
      BY <1>11, <2>2, <2>5, <2>6 DEF Recorded
    <3>2. CASE q[1] # f
      <4>1. Recorded(q) /\ known[q[1]] = frames_[q[1]]
        BY <2>2, <2>6, <3>2 DEF Recorded
      <4> QED
        BY <1>3, <3>1, <4>1 DEF Recorded
    <3>3. CASE q[1] = f
      <4>1. /\ Number(q) \in frame.seqs
            /\ Packet(q).kind = "start" => frame.s_seq # -1
            /\ Packet(q).kind = "end" => frame.e_seq # -1
        BY <2>3, <2>6, <3>3 DEF Recorded
      <4> QED
        BY <1>3, <2>2, <3>1, <3>3, <4>1 DEF Recorded
    <3> QED
      BY <3>2, <3>3
  <2>7. \A q \in arrived' : q[1] \in collected' \/ Given(q[1])' \/ Recorded(q)'
    <3>1. \A q \in arrived : q[1] \in collected \/ Given(q[1]) \/ Recorded(q)
      BY DEF Settled
    <3>2. \A q : Given(q[1])' = Given(q[1])
      BY <2>1 DEF Given
    <3> QED
      BY <1>1, <2>1, <2>6, <3>1, <3>2
  <2>8. \A t \in DOMAIN frames_' :
          frames_'[t].nal_type = AccessUnits[t][1].type /\ ~IsComplete(frames_'[t])
    <3>1. ASSUME NEW t \in DOMAIN frames_'
          PROVE  frames_'[t].nal_type = AccessUnits[t][1].type /\ ~IsComplete(frames_'[t])
      <4>1. CASE t = f
        BY <2>2, <2>3, <2>4, <2>5, <4>1 DEF Settled
      <4>2. CASE t # f
        BY <2>2, <2>5, <4>2 DEF Settled
      <4> QED
        BY <4>1, <4>2
    <3> QED
      BY <3>1
  <2>9. /\ \A t \in DOMAIN completed_ts_' : Given(t)'
        /\ DOMAIN dropped_ts_' \subseteq collected'
    BY <2>1 DEF Settled, Given
  <2> QED
    BY <2>7, <2>8, <2>9 DEF Settled, IsComplete, Expected
<1> QED
  BY <1>1, <1>6, <1>7, <1>8, <1>9, <1>10, <1>11, Outcome

\* The other steps leave the receiver and what arrived alone, and put no packet in the
\* network but the next one to be sent.
LEMMA OtherSteps ==
  ASSUME OneNal, IInv, [Next]_vars, \A p \in net : ~Receive(p)
  PROVE  /\ UNCHANGED <<seenVars, frameVars, delivered, arrived, copies>>
         /\ pushed \in Nat /\ pushed' \in Nat /\ pushed <= pushed'
         /\ \A t \in 1 .. pushed : base'[t] = base[t]
         /\ \/ PushFrame
            \/ /\ UNCHANGED <<pushed, base>> /\ Unsent' \subseteq Unsent
               /\ net' \subseteq net \cup (Unsent \ Unsent')
<1>1. /\ pushed \in Nat /\ next \in Nat
      /\ base \in [Units -> SeqNums] /\ net \subseteq AllPackets
  BY PushedType DEF IInv, TypeOK
<1>2. CASE PushFrame
  <2>1. base' = [base EXCEPT ![pushed + 1] = seq_] /\ pushed' = pushed + 1
    BY <1>2 DEF PushFrame
  <2>2. \A t \in 1 .. pushed : base'[t] = base[t]
    BY <1>1, <2>1 DEF Units
  <2> QED
    BY <1>1, <1>2, <2>1, <2>2 DEF PushFrame
<1>3. ASSUME UNCHANGED <<pushed, base>>, next' \in Nat, next' = 0 \/ (next > 0 /\ next' >= next)
      PROVE  Unsent' \subseteq Unsent
  <2>1. \A q \in AllPackets : q[2] \in Nat
    BY OnePlan DEF AllPackets
  <2> QED
    BY <1>1, <1>3, <2>1 DEF Unsent
<1>4. CASE SendPacket
  <2>1. /\ next > 0 /\ net' = net \cup {<<pushed, next>>}
        /\ UNCHANGED <<pushed, base, seenVars, frameVars, delivered, arrived, copies>>
        /\ next' \in Nat /\ (next' = 0 \/ next' = next + 1)
    BY <1>1, <1>4 DEF SendPacket, Following
  <2>2. Unsent' \subseteq Unsent
    BY <1>1, <1>3, <2>1
  <2>3. <<pushed, next>> \in Unsent \ Unsent'
    <3>1. next \in 1 .. Count(pushed) /\ pushed \in Units
      <4>1. next > 0 /\ pushed > 0 /\ next <= Count(pushed)
        BY <2>1 DEF IInv, SenderInv
      <4>2. pushed \in 1 .. pushed
        BY <1>1, <4>1
      <4>3. pushed \in Units
        BY <4>2, PushedType
      <4> QED
        BY <1>1, <4>1, <4>3, OnePlan
    <3>2. <<pushed, next>> \in AllPackets
      BY <3>1, OnePlan DEF AllPackets
    <3> QED
      BY <1>1, <2>1, <3>2 DEF Unsent
  <2> QED
    BY <1>1, <2>1, <2>2, <2>3
<1>5. CASE UNCHANGED <<pushed, base>> /\ (next' = next \/ next' = 0) /\ net' \subseteq net
           /\ UNCHANGED <<seenVars, frameVars, delivered, arrived, copies>>
  <2>1. next' = 0 \/ (next > 0 /\ next' >= next)
    BY <1>1, <1>5
  <2>2. Unsent' \subseteq Unsent
    BY <1>1, <1>3, <1>5, <2>1
  <2> QED
    BY <1>1, <1>5, <2>2
<1> QED
  BY <1>2, <1>4, <1>5 DEF Next, vars, senderVars, SendFails, Restart, Tick, Lose

LEMMA SettledStep ==
  ASSUME OneNal, IInv, Arrivals, Settled, [Next]_vars
  PROVE  Arrivals' /\ Settled'
<1>1. ASSUME NEW p \in net, Receive(p)
      PROVE  Arrivals' /\ Settled'
  BY <1>1, ArrivalsReceive, SettledReceive
<1>2. CASE \A p \in net : ~Receive(p)
  <2>1. /\ UNCHANGED <<received_info_, frames_, fragments_, completed_ts_, dropped_ts_,
                       collected, delivered, arrived>>
        /\ pushed \in Nat /\ pushed' \in Nat /\ pushed <= pushed'
        /\ \A t \in 1 .. pushed : base'[t] = base[t]
    BY <1>2, OtherSteps DEF seenVars, frameVars
  <2>2. \A p \in arrived : Number(p)' = Number(p)
    BY <2>1 DEF Number, Arrivals
  <2>3. \A p \in arrived : p[1] \in 1 .. pushed'
    BY <2>1 DEF Arrivals
  <2>4. Arrivals'
    BY <2>1, <2>2, <2>3 DEF Arrivals, Kept
  <2>5. \A p \in arrived : /\ Given(p[1])' = Given(p[1])
                           /\ Recorded(p)' = Recorded(p)
    BY <2>1, <2>2 DEF Given, Recorded
  <2> QED
    BY <2>1, <2>4, <2>5 DEF Settled, Given, IsComplete, Expected
<1> QED
  BY <1>1, <1>2

LEMMA SettledStart ==
  ASSUME Init
  PROVE  Arrivals /\ Settled
<1>1. /\ arrived = {} /\ fragments_ = [s \in SeqNums |-> NoFragment]
      /\ received_info_ = [f \in Units |-> {}]
      /\ DOMAIN frames_ = {} /\ DOMAIN completed_ts_ = {} /\ DOMAIN dropped_ts_ = {}
  BY DEF Init, Empty
<1> QED
  BY <1>1 DEF Arrivals, Settled, Kept

\* A settled receiver has given all that arrived: a frame with all its fragments on
\* record would be complete.
LEMMA SettledGives ==
  ASSUME OneNal, IInv, Settled
  PROVE  EveryNalArrives
<1> SUFFICES ASSUME NEW f \in 1 .. pushed, NEW nal \in DOMAIN AccessUnits[f],
                    \A p \in {f} \X DOMAIN Packets[f] :
                      (\E u \in ToSet(Packet(p).units) : u[2] = nal) => p \in arrived,
                    f \notin collected, ~Given(f)
             PROVE  FALSE
  <2>1. ASSUME NEW f \in 1 .. pushed, NEW nal \in DOMAIN AccessUnits[f]
        PROVE  nal = 1
    BY <2>1, PushedType, OnePlan
  <2> QED
    BY <2>1 DEF EveryNalArrives, Given
<1> DEFINE n == Count(f)
           frame == frames_[f]
<1>1. f \in Units /\ nal = 1 /\ n \in Nat /\ 0 < n /\ n < SeqSpace /\ base[f] \in SeqNums
      /\ DOMAIN Packets[f] = 1 .. n
  <2>1. f \in Units
    BY PushedType
  <2> QED
    BY <2>1, OnePlan DEF IInv, TypeOK, SenderInv
<1>2. ASSUME NEW k \in 1 .. n
      PROVE  /\ Recorded(<<f, k>>)
             /\ Packet(<<f, k>>).kind = "single" => FALSE
             /\ Number(<<f, k>>) = Wrap(base[f] + k - 1)
  <2>1. Packet(<<f, k>>) = Packets[f][k] /\ Packets[f][k].units = << <<f, 1, k>> >>
    BY <1>1, OneKinds DEF Packet
  <2>2. <<f, 1, k>> \in ToSet(Packet(<<f, k>>).units)
    BY <2>1 DEF ToSet
  <2>3. <<f, k>> \in arrived
    BY <1>1, <2>2
  <2>4. Recorded(<<f, k>>)
    BY <2>3 DEF Settled
  <2> QED
    BY <2>4 DEF Recorded, IsFragment, Number
<1>3. 1 \in 1 .. n /\ n \in 1 .. n /\ n > 1
  <2>1. 1 \in 1 .. n /\ n \in 1 .. n
    BY <1>1
  <2>2. n = 1 => Packet(<<f, 1>>).kind = "single"
    BY <1>1, <2>1, OneKinds DEF Packet
  <2> QED
    BY <1>1, <1>2, <2>1, <2>2
<1>4. f \in DOMAIN frames_ /\ GoodFrame(f, frame)
  <2>1. Recorded(<<f, 1>>)
    BY <1>2, <1>3
  <2> QED
    BY <2>1 DEF Recorded, IInv, ReceiverInv, Good
<1>5. frame.s_seq = base[f]
  <2>1. Packet(<<f, 1>>).kind = "start"
    BY <1>1, <1>3, OneKinds DEF Packet
  <2> QED
    BY <1>1, <1>2, <1>4, <2>1 DEF Recorded, GoodFrame
<1>6. frame.e_seq = Wrap(base[f] + n - 1)
  <2>1. Packet(<<f, n>>).kind = "end"
    BY <1>1, <1>3, OneKinds DEF Packet
  <2> QED
    BY <1>1, <1>2, <1>4, <2>1 DEF Recorded, GoodFrame
<1>7. frame.seqs = {Wrap(base[f] + k - 1) : k \in 1 .. n}
  <2>1. \A k \in 1 .. n : Wrap(base[f] + k - 1) \in frame.seqs
    BY <1>2 DEF Recorded
  <2> QED
    BY <1>4, <2>1 DEF GoodFrame, Numbers
<1> HIDE DEF n, frame
<1>8. Expected(frame) = n /\ Cardinality(frame.seqs) = n
  <2>1. n \in Nat \ {0}
    BY <1>1
  <2>2. Expected(frame) = n
    BY <1>1, <1>5, <1>6, <2>1, ExpectedIsCount
  <2> QED
    BY <1>1, <1>7, <2>2, NumbersCount
<1>9. frame.s_seq # -1 /\ frame.e_seq # -1
  <2>1. Wrap(base[f] + n - 1) \in frame.seqs
    BY <1>3, <1>7
  <2>2. frame.e_seq \in SeqNums
    BY <1>4, <1>6, <2>1 DEF GoodFrame, Frame
  <2>3. \A s \in SeqNums : s # -1
    BY FragmentsAssumption DEF SeqNums
  <2> QED
    BY <1>1, <1>5, <2>2, <2>3
<1> QED
  BY <1>4, <1>8, <1>9 DEF Settled, IsComplete, frame

\* A NAL unit all of whose packets have arrived has been given to the flow unless its
\* frame was dropped as too old, whatever was lost, repeated or late around it.
THEOREM NalsArrive ==
  ASSUME OneNal
  PROVE  Spec => []EveryNalArrives
<1> DEFINE Inv == ~clashed => IInv /\ Arrivals /\ Settled
<1>1. Init => Inv
  BY Start, SettledStart
<1>2. Inv /\ [Next]_vars => Inv'
  BY Step, SettledStep, ClashStays
<1>3. Inv => EveryNalArrives
  BY SettledGives DEF EveryNalArrives
<1> QED
  BY <1>1, <1>2, <1>3, PTL DEF Spec

(***************************************************************************)
(* What is given is given once.  The memory for repeated packets holds all *)
(* that the network can still repeat: every entry newer than that of a     *)
(* packet under way is of a packet pushed at most Lag access units from    *)
(* it, which has left the network, or of a repetition.                     *)
(***************************************************************************)
Window(f) == {p \in AllPackets : f - Lag <= p[1] /\ p[1] <= f + Lag}

MemoryLasts == \A f \in Units : Cardinality(Window(f)) + Duplicates <= RECEIVED_FRAMES

\* The packets of f - Lag or later that have left the network, and the repetitions.
Gone(f) == {q \in arrived \ net : f <= q[1] + Lag}
Since(f) == Cardinality(Gone(f)) + copies

\* An entry for f and those after it are of packets gone since f, and repetitions.
Covered(entries) ==
  \A f \in Units : \A i \in 1 .. Len(entries) :
    entries[i] = f => f <= pushed /\ Len(entries) - i + 1 <= Since(f)

\* Packets are new until they are sent, are under way for a time, and are remembered
\* from the first arrival for as long as they are under way.
Remembrance ==
  /\ \A q \in Unsent : q \notin net \cup arrived
  /\ \A q \in net : pushed <= q[1] + Lag
  /\ Covered(received_frames_)
  /\ \A q \in arrived \cap net : Number(q) \in received_info_[q[1]]

\* A NAL unit has been given at most once, and only when all its packets had arrived.
Once ==
  \A f \in Units :
    /\ Len(delivered[f]) <= 1
    /\ delivered[f] # <<>> => \A p \in AllPackets : p[1] = f => p \in arrived

LEMMA PacketsFinite ==
  ASSUME OneNal
  PROVE  IsFiniteSet(AllPackets)
<1>1. Len(AccessUnits) \in Nat
  BY FragmentsAssumption
<1>2. IsFiniteSet(Units)
  BY <1>1, FS_Interval DEF Units
<1> DEFINE S == {{f} \X DOMAIN Packets[f] : f \in Units}
           of == [f \in Units |-> {f} \X DOMAIN Packets[f]]
<1>3. IsFiniteSet(S)
  <2>1. of \in Surjection(Units, S)
    BY DEF Surjection
  <2> QED
    BY <1>2, <2>1, FS_Surjection
<1>4. ASSUME NEW T \in S
      PROVE  IsFiniteSet(T)
  <2>1. PICK f \in Units : T = {f} \X DOMAIN Packets[f]
    OBVIOUS
  <2>2. DOMAIN Packets[f] = 1 .. Count(f) /\ Count(f) \in Nat
    BY OnePlan
  <2>3. IsFiniteSet({f}) /\ IsFiniteSet(1 .. Count(f))
    <3>1. ASSUME NEW n \in Nat
          PROVE  IsFiniteSet(1 .. n)
      BY FS_Interval
    <3> QED
      BY <2>2, <3>1, FS_Singleton
  <2> QED
    BY <2>1, <2>2, <2>3, FS_Product
<1>5. IsFiniteSet(UNION S)
  <2> HIDE DEF S
  <2> QED
    BY <1>3, <1>4, FS_UNION
<1> QED
  BY <1>5 DEF AllPackets

\* More packets have left the network, and more were repeated.
LEMMA SinceGrows ==
  ASSUME OneNal, IInv, arrived' \subseteq AllPackets, NEW f,
         Gone(f) \subseteq Gone(f)'
  PROVE  /\ Cardinality(Gone(f)) \in Nat /\ Cardinality(Gone(f)') \in Nat
         /\ Cardinality(Gone(f)) <= Cardinality(Gone(f)')
         /\ \A q \in Gone(f)' : q \notin Gone(f) => Cardinality(Gone(f)) < Cardinality(Gone(f)')
<1>1. Gone(f)' \subseteq AllPackets
  BY DEF Gone
<1>2. IsFiniteSet(Gone(f)')
  BY <1>1, PacketsFinite, FS_Subset
<1>3. IsFiniteSet(Gone(f)) /\ Cardinality(Gone(f)) <= Cardinality(Gone(f)')
      /\ (Cardinality(Gone(f)) = Cardinality(Gone(f)') => Gone(f) = Gone(f)')
  BY <1>2, FS_Subset
<1>4. Cardinality(Gone(f)) \in Nat /\ Cardinality(Gone(f)') \in Nat
  BY <1>2, <1>3, FS_CardinalityType
<1> QED
  BY <1>3, <1>4

\* What has been remembered since a packet that is under way fits the memory.
LEMMA WindowHolds ==
  ASSUME OneNal, MemoryLasts, NEW f \in Units, NEW S \in SUBSET Window(f)
  PROVE  Cardinality(S) \in Nat /\ Cardinality(S) + Duplicates <= RECEIVED_FRAMES
<1>1. Window(f) \subseteq AllPackets
  BY DEF Window
<1>2. IsFiniteSet(Window(f))
  BY <1>1, PacketsFinite, FS_Subset
<1>3. IsFiniteSet(S) /\ Cardinality(S) <= Cardinality(Window(f))
  BY <1>2, FS_Subset
<1>4. Cardinality(S) \in Nat /\ Cardinality(Window(f)) \in Nat
  BY <1>2, <1>3, FS_CardinalityType
<1>5. Cardinality(Window(f)) + Duplicates <= RECEIVED_FRAMES
  BY DEF MemoryLasts
<1> QED
  BY <1>3, <1>4, <1>5, FragmentsAssumption

LEMMA RemembranceOthers ==
  ASSUME OneNal, IInv, Arrivals, Remembrance, [Next]_vars, \A p \in net : ~Receive(p)
  PROVE  Remembrance'
<1>1. /\ UNCHANGED <<received_info_, received_frames_, arrived, copies>>
      /\ pushed \in Nat /\ pushed' \in Nat /\ pushed <= pushed'
      /\ \A t \in 1 .. pushed : base'[t] = base[t]
      /\ Lag \in Nat
  BY OtherSteps, FragmentsAssumption DEF seenVars
<1>2. /\ \A q \in net : q \in AllPackets /\ q[1] \in 1 .. pushed
      /\ \A q \in arrived : q \in AllPackets /\ q[1] \in 1 .. pushed
  BY DEF IInv, TypeOK, Distinct, Live, Arrivals
<1>3. /\ \A q \in Unsent' : q \notin net' \cup arrived
      /\ \A q \in net' : pushed' <= q[1] + Lag
      /\ arrived \cap net' \subseteq net
  <2>1. CASE PushFrame
    <3>1. pushed' = pushed + 1 /\ net' = {p \in net : p[1] + Lag >= pushed + 1}
      BY <2>1 DEF PushFrame, UnderWay
    <3>2. \A q \in Unsent' : q[1] = pushed + 1
      BY <3>1 DEF Unsent
    <3> QED
      BY <1>1, <1>2, <3>1, <3>2
  <2>2. CASE /\ UNCHANGED <<pushed, base>> /\ Unsent' \subseteq Unsent
             /\ net' \subseteq net \cup (Unsent \ Unsent')
    <3>1. \A q \in Unsent : q[1] = pushed /\ q \notin net \cup arrived
      BY DEF Unsent, Remembrance
    <3>2. \A q \in net : pushed <= q[1] + Lag
      BY DEF Remembrance
    <3>3. pushed <= pushed + Lag
      BY <1>1
    <3> QED
      BY <2>2, <3>1, <3>2, <3>3
  <2> QED
    BY <2>1, <2>2, OtherSteps
<1>4. Covered(received_frames_)'
  <2>1. SUFFICES ASSUME NEW f \in Units, NEW i \in 1 .. Len(received_frames_),
                        received_frames_[i] = f
                 PROVE  f <= pushed' /\ Len(received_frames_) - i + 1 <= Since(f)'
    BY <1>1 DEF Covered
  <2>2. /\ f \in Nat /\ f <= pushed /\ Len(received_frames_) - i + 1 <= Since(f)
        /\ Len(received_frames_) \in Nat
    <3>1. f \in Nat
      BY DEF Units
    <3>2. Len(received_frames_) \in Nat
      BY DEF IInv, TypeOK
    <3> QED
      BY <2>1, <3>1, <3>2 DEF Remembrance, Covered
  <2>3. Gone(f) \subseteq Gone(f)'
    BY <1>1, <1>3 DEF Gone
  <2>4. arrived' \subseteq AllPackets /\ copies \in Nat
    BY <1>1, FragmentsAssumption DEF IInv, TypeOK
  <2>5. /\ Cardinality(Gone(f)) <= Cardinality(Gone(f)')
        /\ Cardinality(Gone(f)) \in Nat /\ Cardinality(Gone(f)') \in Nat
    BY <2>3, <2>4, SinceGrows
  <2>6. Since(f)' = Cardinality(Gone(f)') + copies
    BY <1>1 DEF Since
  <2> QED
    BY <1>1, <2>2, <2>4, <2>5, <2>6 DEF Since
<1>5. ASSUME NEW q \in arrived \cap net'
      PROVE  Number(q)' \in received_info_[q[1]]
  <2>1. Number(q)' = Number(q)
    BY <1>1, <1>2 DEF Number
  <2> QED
    BY <1>3, <2>1 DEF Remembrance
<1> QED
  BY <1>1, <1>3, <1>4, <1>5 DEF Remembrance

\* A packet that is remembered is new, and counts from then on.
LEMMA RemembranceReceive ==
  ASSUME OneNal, IInv, Arrivals, Remembrance, MemoryLasts, NEW p \in net, Receive(p)
  PROVE  Remembrance'
<1> DEFINE full == Append(received_frames_, p[1])
           seen == [received_info_ EXCEPT ![p[1]] = @ \cup {Number(p)}]
<1>1. /\ Handle(p) /\ UNCHANGED <<pushed, base, next>> /\ arrived' = arrived \cup {p}
      /\ \/ net' = net \ {p} /\ copies' = copies
         \/ net' = net /\ copies' = copies + 1
  BY DEF Receive, senderVars
<1>2. /\ p[1] \in Units /\ p[1] \in 1 .. pushed /\ p \in AllPackets /\ pushed \in Nat
      /\ Lag \in Nat /\ copies \in Nat /\ copies' \in Nat /\ copies' <= Duplicates
  <2>1. pushed \in Nat /\ copies \in 0 .. Duplicates /\ Duplicates \in Nat /\ Lag \in Nat
    BY FragmentsAssumption DEF IInv, TypeOK
  <2>2. copies' = copies \/ (copies < Duplicates /\ copies' = copies + 1)
    BY DEF Receive
  <2>3. copies \in Nat /\ copies' \in Nat /\ copies' <= Duplicates
    BY <2>1, <2>2
  <2> QED
    BY <2>1, <2>3, PacketFacts
<1>3. Unsent' = Unsent /\ \A q : Number(q)' = Number(q)
  BY <1>1 DEF Unsent, Number
<1>4. /\ \A q \in Unsent' : q \notin net' \cup arrived'
      /\ \A q \in net' : pushed' <= q[1] + Lag
  BY <1>1, <1>3 DEF Remembrance
<1>5. arrived' \subseteq AllPackets
  BY <1>1, <1>2 DEF IInv, TypeOK
<1>6. ASSUME NEW f \in Nat, f <= pushed
      PROVE  /\ Since(f) \in Nat /\ Since(f)' \in Nat
             /\ Since(f) + 1 <= Since(f)'
  <2>1. Gone(f) \subseteq Gone(f)'
    BY <1>1 DEF Gone
  <2>2. /\ Cardinality(Gone(f)) \in Nat /\ Cardinality(Gone(f)') \in Nat
        /\ Cardinality(Gone(f)) <= Cardinality(Gone(f)')
        /\ \A q \in Gone(f)' : q \notin Gone(f) => Cardinality(Gone(f)) < Cardinality(Gone(f)')
    BY <1>5, <2>1, SinceGrows
  <2>3. Since(f)' = Cardinality(Gone(f)') + copies'
    BY DEF Since
  <2>4. CASE net' = net \ {p} /\ copies' = copies
    <3>1. f <= p[1] + Lag
      BY <1>2, <1>6 DEF Remembrance
    <3>2. p \in Gone(f)' /\ p \notin Gone(f)
      BY <1>1, <2>4, <3>1 DEF Gone
    <3> QED
      BY <1>2, <2>2, <2>3, <2>4, <3>2 DEF Since
  <2>5. CASE net' = net /\ copies' = copies + 1
    BY <1>2, <2>2, <2>3, <2>5 DEF Since
  <2> QED
    BY <1>1, <2>4, <2>5
<1>7. \A f \in Units : f \in Nat
  BY DEF Units
<1>8. received_frames_ \in Seq(Units) /\ Len(received_frames_) \in Nat
  BY DEF IInv, TypeOK
\* The packet is a repeated one.
<1>9. CASE Duplicate(p) /\ UNCHANGED seenVars
  <2>1. UNCHANGED <<received_info_, received_frames_>>
    BY <1>9 DEF seenVars
  <2>2. \A q \in arrived' \cap net' : Number(q) \in received_info_[q[1]]
    BY <1>1, <1>9 DEF Remembrance, Duplicate
  <2>3. ASSUME NEW f \in Units, NEW i \in 1 .. Len(received_frames_), received_frames_[i] = f
        PROVE  f <= pushed /\ Len(received_frames_) - i + 1 <= Since(f)'
    <3>1. f \in Nat /\ f <= pushed /\ Len(received_frames_) - i + 1 <= Since(f)
      BY <1>7, <2>3 DEF Remembrance, Covered
    <3>2. Since(f) \in Nat /\ Since(f)' \in Nat /\ Since(f) + 1 <= Since(f)'
      BY <1>6, <3>1
    <3> QED
      BY <1>8, <3>1, <3>2
  <2> QED
    BY <1>1, <1>3, <1>4, <2>1, <2>2, <2>3 DEF Remembrance, Covered
\* The packet is a new one.
<1>10. CASE Remember(p)
  <2>1. /\ Len(full) = Len(received_frames_) + 1 /\ full[Len(full)] = p[1]
        /\ \A i \in 1 .. Len(received_frames_) : full[i] = received_frames_[i]
        /\ full \in Seq(Units)
    BY <1>2, <1>8
  <2>2. ASSUME NEW f \in Units, NEW i \in 1 .. Len(full), full[i] = f
        PROVE  f <= pushed /\ Len(full) - i + 1 <= Since(f)'
    <3>1. CASE i = Len(full)
      <4>1. f = p[1] /\ f \in Nat /\ f <= pushed
        BY <1>2, <1>7, <2>1, <2>2, <3>1
      <4>2. Since(f) \in Nat /\ Since(f)' \in Nat /\ Since(f) + 1 <= Since(f)'
        BY <1>6, <4>1
      <4> QED
        BY <1>8, <2>1, <3>1, <4>1, <4>2
    <3>2. CASE i # Len(full)
      <4>1. i \in 1 .. Len(received_frames_) /\ received_frames_[i] = f
        BY <1>8, <2>1, <2>2, <3>2
      <4>2. f \in Nat /\ f <= pushed /\ Len(received_frames_) - i + 1 <= Since(f)
        BY <1>7, <4>1 DEF Remembrance, Covered
      <4>3. Since(f) \in Nat /\ Since(f)' \in Nat /\ Since(f) + 1 <= Since(f)'
        BY <1>6, <4>2
      <4> QED
        BY <1>8, <2>1, <4>1, <4>2, <4>3
    <3> QED
      BY <3>1, <3>2
  <2>3. \A q \in arrived' \cap net' : Number(q) \in seen[q[1]]
    <3>1. received_info_ \in [Units -> SUBSET SeqNums]
      BY DEF IInv, TypeOK
    <3>2. \A q \in arrived \cap net : q[1] \in Units /\ Number(q) \in received_info_[q[1]]
      BY DEF Remembrance, IInv, TypeOK, AllPackets
    <3> QED
      BY <1>1, <1>2, <3>1, <3>2
  <2>4. CASE ~TooMany(Len(full))
    <3>1. received_info_' = seen /\ received_frames_' = full
      BY <1>10, <2>4 DEF Remember
    <3> HIDE DEF full, seen
    <3> QED
      BY <1>1, <1>3, <1>4, <2>2, <2>3, <3>1 DEF Remembrance, Covered
  <2>5. CASE TooMany(Len(full))
    <3> DEFINE t == Head(full)
    <3>1. received_info_' = [seen EXCEPT ![t] = {}] /\ received_frames_' = Tail(full)
      BY <1>10, <2>5 DEF Remember
    <3>2. /\ t = full[1] /\ t \in Units /\ 1 \in 1 .. Len(full)
          /\ Len(Tail(full)) = Len(full) - 1
          /\ \A i \in 1 .. Len(Tail(full)) : Tail(full)[i] = full[i + 1] /\ i + 1 \in 1 .. Len(full)
      BY <1>8, <2>1
    \* What is forgotten is not under way.
    <3>3. ASSUME NEW q \in arrived' \cap net', q[1] = t
          PROVE  FALSE
      <4>1. q[1] \in Units /\ pushed <= q[1] + Lag
        BY <1>1, <1>4, <3>2, <3>3
      <4>2. Gone(q[1])' \subseteq Window(q[1])
        <5>1. \A r \in arrived' : r \in AllPackets /\ r[1] \in 1 .. pushed
          BY <1>1, <1>2, <1>5 DEF Arrivals
        <5> QED
          BY <1>2, <1>7, <4>1, <5>1 DEF Gone, Window
      <4>3. /\ Cardinality(Gone(q[1])') \in Nat
            /\ Cardinality(Gone(q[1])') + Duplicates <= RECEIVED_FRAMES
        BY <4>1, <4>2, WindowHolds
      <4>4. Len(full) <= Since(q[1])'
        BY <1>8, <2>1, <2>2, <3>2, <3>3, <4>1
      <4>5. Since(q[1])' = Cardinality(Gone(q[1])') + copies'
        BY DEF Since
      <4> QED
        BY <1>2, <1>8, <2>1, <2>5, <4>3, <4>4, <4>5, FragmentsAssumption DEF TooMany
    <3>4. \A q \in arrived' \cap net' : Number(q) \in received_info_'[q[1]]
      <4>1. seen \in [Units -> SUBSET SeqNums]
        BY <1>2, PacketFacts DEF IInv, TypeOK
      <4> HIDE DEF seen, t
      <4> QED
        BY <2>3, <3>1, <3>3, <4>1
    <3>5. ASSUME NEW f \in Units, NEW i \in 1 .. Len(Tail(full)), Tail(full)[i] = f
          PROVE  f <= pushed /\ Len(Tail(full)) - i + 1 <= Since(f)'
      <4>1. i + 1 \in 1 .. Len(full) /\ full[i + 1] = f /\ i \in Nat
        BY <3>2, <3>5
      <4>2. f <= pushed /\ Len(full) - (i + 1) + 1 <= Since(f)'
        BY <2>2, <4>1
      <4>3. Len(Tail(full)) - i + 1 = Len(full) - (i + 1) + 1
        BY <1>8, <2>1, <3>2, <4>1
      <4> QED
        BY <4>2, <4>3
    <3> HIDE DEF full, seen, t
    <3> QED
      BY <1>1, <1>3, <1>4, <3>1, <3>4, <3>5 DEF Remembrance, Covered
  <2> QED
    BY <2>4, <2>5
<1> QED
  BY <1>1, <1>9, <1>10 DEF Handle

\* A packet handled as new has not been in before, so its NAL unit was not given.
LEMMA OnceReceive ==
  ASSUME OneNal, IInv, Arrivals, Remembrance, Once, NEW p \in net, Receive(p)
  PROVE  Once'
<1> DEFINE f == p[1]
<1>1. /\ Handle(p) /\ UNCHANGED <<pushed, base, now>> /\ arrived' = arrived \cup {p}
  BY DEF Receive, senderVars
<1>2. p \in AllPackets /\ f \in Units
  BY PacketFacts
<1>3. CASE delivered' = delivered
  BY <1>1, <1>3 DEF Once
<1>4. ASSUME ~Duplicate(p), Gives(f), \A q \in AllPackets : q[1] = f => q \in arrived'
      PROVE  Once'
  <2>1. p \notin arrived
    BY <1>4 DEF Duplicate, Remembrance
  <2>2. delivered[f] = <<>>
    BY <1>2, <2>1 DEF Once
  <2>3. /\ delivered' = [delivered EXCEPT ![f] = Append(delivered[f], WholeNal(f, 1))]
        /\ DOMAIN delivered = Units
    BY <1>4 DEF Gives, IInv, TypeOK
  <2>4. Len(Append(<<>>, WholeNal(f, 1))) = 1
    OBVIOUS
  <2>5. Len(delivered'[f]) <= 1
    BY <1>2, <2>2, <2>3, <2>4
  <2>6. \A t \in Units : t # f => delivered'[t] = delivered[t]
    BY <2>3
  <2> QED
    BY <1>1, <1>4, <2>5, <2>6 DEF Once
<1>5. ASSUME \A q \in AllPackets : q[1] = f => q \in Kept \cup {p}
      PROVE  \A q \in AllPackets : q[1] = f => q \in arrived'
  BY <1>1, <1>5 DEF Arrivals
<1>6. ASSUME \A q \in AllPackets : q[1] = f => q = p
      PROVE  \A q \in AllPackets : q[1] = f => q \in arrived'
  BY <1>1, <1>6
<1> QED
  BY <1>1, <1>3, <1>4, <1>5, <1>6, Outcome DEF Keeps

LEMMA OnceStep ==
  ASSUME OneNal, MemoryLasts, IInv, Arrivals, Remembrance, Once, [Next]_vars
  PROVE  Remembrance' /\ Once'
<1>1. ASSUME NEW p \in net, Receive(p)
      PROVE  Remembrance' /\ Once'
  BY <1>1, RemembranceReceive, OnceReceive
<1>2. CASE \A p \in net : ~Receive(p)
  <2>1. UNCHANGED <<delivered, arrived>>
    BY <1>2, OtherSteps
  <2> QED
    BY <1>2, <2>1, RemembranceOthers DEF Once
<1> QED
  BY <1>1, <1>2

LEMMA OnceStart ==
  ASSUME Init
  PROVE  Remembrance /\ Once
<1>1. /\ arrived = {} /\ net = {} /\ next = 0 /\ received_frames_ = <<>>
      /\ \A f \in Units : delivered[f] = <<>>
  BY DEF Init
<1> QED
  BY <1>1 DEF Remembrance, Once, Unsent, Covered

\* A NAL unit is given to the flow at most once, when the memory for repeated packets
\* holds what can be under way together with it.
THEOREM DeliveredOnce ==
  ASSUME OneNal, MemoryLasts
  PROVE  Spec => []AtMostOnce
<1> DEFINE Known == IInv /\ Arrivals /\ Settled /\ Remembrance /\ Once
           Inv == ~clashed => Known
<1>1. Init => Inv
  BY Start, SettledStart, OnceStart
<1>2. Inv /\ [Next]_vars => Inv'
  <2>1. ASSUME Known, ~clashed', [Next]_vars
        PROVE  Known'
    <3>1. IInv'
      BY <2>1, Step
    <3>2. Arrivals' /\ Settled'
      BY <2>1, SettledStep
    <3>3. Remembrance' /\ Once'
      BY <2>1, OnceStep
    <3> QED
      BY <3>1, <3>2, <3>3
  <2> QED
    BY <2>1, ClashStays
<1>3. Inv => AtMostOnce
  <2>1. ASSUME NEW S, NEW q \in Seq(S), Len(q) <= 1
        PROVE  IsInjective(q)
    BY <2>1 DEF IsInjective
  <2>2. ASSUME IInv, Once, NEW f \in Units
        PROVE  IsInjective(delivered[f])
    BY <2>1, <2>2 DEF Once, IInv, TypeOK
  <2> QED
    BY <2>2 DEF AtMostOnce
<1> QED
  BY <1>1, <1>2, <1>3, PTL DEF Spec

(***************************************************************************)
(* A closed frame stays closed, whatever is pushed and whatever numbers    *)
(* the packets have: this one needs no assumption on the access units.     *)
(***************************************************************************)
LEMMA ClosedStep ==
  ASSUME ClosedFramesStayClosed, [Next]_vars
  PROVE  ClosedFramesStayClosed'
<1>1. ASSUME UNCHANGED frameVars
      PROVE  ClosedFramesStayClosed'
  BY <1>1 DEF frameVars, ClosedFramesStayClosed
<1>2. ASSUME NEW p \in net, Receive(p)
      PROVE  ClosedFramesStayClosed'
  <2> DEFINE f == p[1]
             frame == WithFragment(p)
             slots == [fragments_ EXCEPT ![Number(p)] = p]
  <2>1. CASE UNCHANGED frameVars
    BY <1>1, <2>1
  <2>2. CASE ~Closed(f) /\ Reconstruct(f, frame, slots)
    <3>1. \/ /\ DOMAIN completed_ts_' = DOMAIN completed_ts_ \cup {f}
             /\ DOMAIN frames_' = DOMAIN frames_ \ {f}
          \/ completed_ts_' = completed_ts_ /\ DOMAIN frames_' = DOMAIN frames_ \cup {f}
      BY <2>2 DEF Reconstruct
    <3>2. dropped_ts_' = dropped_ts_
      BY <2>2 DEF Reconstruct
    <3> HIDE DEF f
    <3> QED
      BY <2>2, <3>1, <3>2 DEF Closed, ClosedFramesStayClosed
  <2>3. CASE ~Closed(f) /\ Collect(f, frame, slots)
    <3> DEFINE known == [t \in DOMAIN frames_ \cup {f} |-> IF t = f THEN frame ELSE frames_[t]]
               old == {t \in DOMAIN known : now - known[t].sframe_time > MaxDelay}
    <3>1. \/ /\ DOMAIN frames_' = (DOMAIN frames_ \cup {f}) \ old
             /\ DOMAIN completed_ts_' \subseteq DOMAIN completed_ts_
             /\ DOMAIN dropped_ts_' \subseteq DOMAIN dropped_ts_ \cup old
          \/ /\ DOMAIN frames_' = DOMAIN frames_ \cup {f}
             /\ UNCHANGED <<completed_ts_, dropped_ts_>>
      <4> DEFINE dropped == [t \in DOMAIN dropped_ts_ \cup old |->
                               IF t \in old THEN known[t].sframe_time ELSE dropped_ts_[t]]
      <4>1. Remembered(completed_ts_) \subseteq DOMAIN completed_ts_
        BY DEF Remembered
      <4>2. Remembered(dropped) \subseteq DOMAIN dropped_ts_ \cup old
        BY DEF Remembered
      <4>3. CASE CollectionDue
        <5>1. /\ frames_' = [t \in DOMAIN known \ old |-> known[t]]
              /\ completed_ts_' = [t \in Remembered(completed_ts_) |-> completed_ts_[t]]
              /\ dropped_ts_' = [t \in Remembered(dropped) |-> dropped[t]]
          BY <2>3, <4>3 DEF Collect
        <5>2. DOMAIN known = DOMAIN frames_ \cup {f}
          OBVIOUS
        <5> HIDE DEF f, known, old, dropped
        <5> QED
          BY <4>1, <4>2, <5>1, <5>2
      <4>4. CASE ~CollectionDue
        <5>1. frames_' = known /\ UNCHANGED <<completed_ts_, dropped_ts_>>
          BY <2>3, <4>4 DEF Collect
        <5> QED
          BY <5>1
      <4> QED
        BY <4>3, <4>4
    <3> HIDE DEF f, known, old
    <3> QED
      BY <2>3, <3>1 DEF Closed, ClosedFramesStayClosed
  <2>4. \/ UNCHANGED frameVars
        \/ ~Closed(f) /\ Reconstruct(f, frame, slots)
        \/ ~Closed(f) /\ Collect(f, frame, slots)
    BY <1>2 DEF Receive, Handle, DeliverNow, KeepFragment
  <2> QED
    BY <2>1, <2>2, <2>3, <2>4
<1>3. \/ UNCHANGED frameVars
      \/ \E p \in net : Receive(p)
  BY DEF Next, vars, PushFrame, SendPacket, SendFails, Restart, Tick, Lose
<1> QED
  BY <1>1, <1>2, <1>3

\* A frame on the lists of completed and dropped frames is not opened again.
THEOREM ClosedStayClosed == Spec => []ClosedFramesStayClosed
<1>1. Init => ClosedFramesStayClosed
  BY DEF Init, Empty, ClosedFramesStayClosed
<1>2. ClosedFramesStayClosed /\ [Next]_vars => ClosedFramesStayClosed'
  BY ClosedStep
<1> QED
  BY <1>1, <1>2, PTL DEF Spec
=============================================================================
