------------------------ MODULE MediaLibrary_proofs ------------------------
(***************************************************************************)
(* What holds of MediaLibrary however often the application starts over,   *)
(* with one library path: whatever calls fail and in whatever order the    *)
(* functions are called, no library is unloaded under a codec; and while   *)
(* no call has failed or come out of order, no pointer is used that is not *)
(* live, and taking both sides down unloads what they loaded.              *)
(*                                                                         *)
(* None of it is inductive: dlclose() goes through a handle the other side *)
(* may have overwritten, so what keeps a codec's library is a count of the *)
(* sides that still need a load.  In general refs is only not below that   *)
(* count (LoadInv); while the calls are in order and none has failed it is *)
(* equal to the loads held, and each side's pointers are as live as its    *)
(* place in the code needs (Good).                                         *)
(***************************************************************************)
EXTENDS MediaLibrary, TLAPS

(* A side counts on one load of the library while it has a codec, between  *)
(* dlopen() and the codec's creation, and between its destruction and      *)
(* dlclose().                                                              *)
Counts(side) == Live(Video(side)) \/ pc[side] \in {"create", "test", "unload"}
Loads(side) == IF Counts(side) THEN 1 ELSE 0

(* The types the argument needs. *)
Shape ==
    /\ libraryPath \in Paths \cup {NoLib} /\ handle \in Paths \cup {NoLib}
    /\ refs \in [Paths -> Nat]
    /\ ptr \in [Pointers -> {"null", "live", "freed"}]
    /\ lib \in [Sides -> Paths \cup {NoLib}]
    /\ pc \in [Sides -> {"idle", "create", "initialize", "destroy", "unload", "test"}]

(* With one path p, the library is loaded at least as often as the sides   *)
(* count on it, a live codec's code is in p, and the codec is gone before  *)
(* its library is closed.                                                  *)
LoadInv(p) ==
    /\ Shape
    /\ refs[p] >= Loads("encoder") + Loads("decoder")
    /\ \A side \in Sides : Live(Video(side)) => lib[side] = p
    /\ \A side \in Sides : pc[side] = "unload" => ~Live(Video(side))

-----------------------------------------------------------------------------

(* The two video codecs are different pointers, and different from every   *)
(* other one.                                                              *)
LEMMA VideoPointers ==
    /\ Sides = {"encoder", "decoder"}
    /\ Video("encoder") = "videoEncoder" /\ Video("decoder") = "videoDecoder"
    /\ \A side \in Sides : Video(side) \in Pointers
    /\ \A side \in Sides : VideoStrm(side) \in Pointers \ {"videoEncoder", "videoDecoder"}
    /\ \A side \in Sides : Audio(side) \in Pointers \ {"videoEncoder", "videoDecoder"}
    /\ \A side \in Sides : AudioStrm(side) \in Pointers \ {"videoEncoder", "videoDecoder"}
    /\ {"videoDecoder", "audioDecoder"} \subseteq Pointers
  BY DEF Sides, Video, VideoStrm, Audio, AudioStrm, Own, Pointers

(* A step that loads nothing keeps the invariant if no side comes to count *)
(* on a load, no codec changes its library, and none is left alive at its  *)
(* library's closing.                                                      *)
LEMMA NoLoadStep ==
    ASSUME NEW p \in Paths, LoadInv(p), Shape',
           UNCHANGED <<refs, lib>>,
           \A side \in Sides : Live(Video(side))' => Live(Video(side)),
           \A side \in Sides : pc'[side] = "create" => pc[side] = "create",
           \A side \in Sides : pc'[side] = "test" => pc[side] = "test",
           \A side \in Sides : pc'[side] = "unload" =>
              pc[side] = "unload" \/ (Live(Video(side)) /\ ~Live(Video(side))')
    PROVE  LoadInv(p)'
<1>1. \A side \in Sides : Counts(side)' => Counts(side)
  BY DEF Counts
<1>2. Loads("encoder")' <= Loads("encoder") /\ Loads("decoder")' <= Loads("decoder")
  BY <1>1, VideoPointers DEF Loads
<1>3. refs'[p] >= Loads("encoder")' + Loads("decoder")'
  BY <1>2 DEF LoadInv, Shape, Loads
<1>4. QED
  BY <1>3 DEF LoadInv

(* A step that loads p once more keeps the invariant if only one side      *)
(* comes to count on a load.                                               *)
LEMMA LoadStep ==
    ASSUME NEW p \in Paths, LoadInv(p), Shape',
           NEW side \in Sides,
           refs'[p] = refs[p] + 1,
           \A s \in Sides : s # side => Counts(s)' = Counts(s),
           \A s \in Sides : Live(Video(s))' => lib'[s] = p,
           \A s \in Sides : pc'[s] = "unload" => ~Live(Video(s))'
    PROVE  LoadInv(p)'
<1>1. Loads(side)' <= 1 /\ Loads(side) >= 0
  BY DEF Loads
<1>2. \A s \in Sides : s # side => Loads(s)' = Loads(s)
  BY DEF Loads
<1>3. Loads("encoder")' + Loads("decoder")' <= Loads("encoder") + Loads("decoder") + 1
  BY <1>1, <1>2, VideoPointers DEF Loads
<1>4. refs'[p] >= Loads("encoder")' + Loads("decoder")'
  BY <1>3 DEF LoadInv, Shape, Loads
<1>5. QED
  BY <1>4 DEF LoadInv

-----------------------------------------------------------------------------
(* The types. *)

LEMMA TypeStep == TypeOK /\ [Next]_vars => TypeOK'
<1> SUFFICES ASSUME TypeOK, [Next]_vars PROVE TypeOK'
  OBVIOUS
<1> DEFINE Pcs == [Sides -> {"idle", "create", "initialize", "destroy", "unload", "test"}]
           Ups == [Sides -> SUBSET Parts]
           Ptrs == [Pointers -> {"null", "live", "freed"}]
           Libs == [Sides -> Paths \cup {NoLib}]
           Refs == [Paths -> 0 .. MaxLoads]
<1> USE VideoPointers, MediaAssumption DEF TypeOK
<1>0. /\ \A side \in Sides, part \in Parts : Once(side, part) \subseteq Causes
      /\ \A side \in Sides, parts \in SUBSET Parts : After(side, parts) \subseteq Causes
      /\ {"video"} \subseteq Parts /\ {"audio"} \subseteq Parts /\ Parts \subseteq Parts
      /\ {"failure", "yuv", "order"} \subseteq Causes
  BY DEF Once, After, Causes, Parts
<1>1. ASSUME NEW q \in Paths, SetLibraryPath(q) PROVE TypeOK'
  BY <1>1 DEF SetLibraryPath
<1>2. ASSUME NEW side \in Sides, LoadLibrary(side) PROVE TypeOK'
  <2>1. refs' \in Refs
    <3>1. CASE UNCHANGED refs
      BY <3>1
    <3>2. CASE refs[libraryPath] < MaxLoads /\ refs' = [refs EXCEPT ![libraryPath] = @ + 1]
      BY <1>2, <3>2 DEF LoadLibrary
    <3>3. QED
      BY <1>2, <3>1, <3>2 DEF LoadLibrary
  <2>2. causes' \subseteq Causes
    BY <1>0, <1>2 DEF LoadLibrary, Fails, Succeeds
  <2>3. pc' \in Pcs
    BY <1>2 DEF LoadLibrary, Goto, InitFailed
  <2>4. up' \in Ups
    BY <1>0, <1>2 DEF LoadLibrary, InitFailed, Asked
  <2>5. /\ handle' \in Paths \cup {NoLib}
        /\ UNCHANGED <<libraryPath, ptr, lib, inputVideoFormat, frames, tests, fault>>
    BY <1>2 DEF LoadLibrary
  <2>6. QED
    BY <2>1, <2>2, <2>3, <2>4, <2>5
<1>3. ASSUME NEW side \in Sides, CreateCodec(side) PROVE TypeOK'
  <2>1. causes' \subseteq Causes /\ fault' \in BOOLEAN
    BY <1>0, <1>3 DEF CreateCodec, Crash, Fails, Succeeds
  <2>2. ptr' \in Ptrs
    BY <1>3 DEF CreateCodec, Crash
  <2>3. pc' \in Pcs
    BY <1>3 DEF CreateCodec, Crash, Goto, InitFailed
  <2>4. up' \in Ups
    BY <1>0, <1>3 DEF CreateCodec, Crash, InitFailed, Asked
  <2>5. lib' \in Libs
    BY <1>3 DEF CreateCodec, Crash
  <2>6. inputVideoFormat' \in Formats
    BY <1>3 DEF CreateCodec, Crash
  <2>7. UNCHANGED <<libraryPath, handle, refs, frames, tests>>
    BY <1>3 DEF CreateCodec, Crash
  <2>8. QED
    BY <2>1, <2>2, <2>3, <2>4, <2>5, <2>6, <2>7
<1>4. ASSUME NEW side \in Sides, InitializeCodec(side) PROVE TypeOK'
  <2>1. causes' \subseteq Causes /\ fault' \in BOOLEAN
    BY <1>0, <1>4 DEF InitializeCodec, Fails, Succeeds
  <2>2. ptr' \in Ptrs
    BY <1>4 DEF InitializeCodec
  <2>3. pc' \in Pcs
    BY <1>4 DEF InitializeCodec, Goto, InitFailed
  <2>4. up' \in Ups
    BY <1>0, <1>4 DEF InitializeCodec, InitFailed, Asked
  <2>5. UNCHANGED <<libraryPath, handle, refs, lib, inputVideoFormat, frames, tests>>
    BY <1>4 DEF InitializeCodec
  <2>6. QED
    BY <2>1, <2>2, <2>3, <2>4, <2>5
<1>5. ASSUME NEW side \in Sides, InitAudio(side) PROVE TypeOK'
  <2>1. causes' \subseteq Causes /\ fault' \in BOOLEAN
    BY <1>0, <1>5 DEF InitAudio, Fails, Succeeds
  <2>2. ptr' \in Ptrs
    BY <1>5 DEF InitAudio
  <2>3. up' \in Ups
    BY <1>0, <1>5 DEF InitAudio, Asked
  <2>4. UNCHANGED <<libraryPath, handle, refs, lib, inputVideoFormat, frames, pc, tests>>
    BY <1>5 DEF InitAudio
  <2>5. QED
    BY <2>1, <2>2, <2>3, <2>4
<1>6. CASE EncodeVideo \/ EncodeAudio
  <2>1. causes' \subseteq Causes /\ fault' \in BOOLEAN
    BY <1>0, <1>6 DEF EncodeVideo, EncodeAudio, Succeeds, Crash, Sides
  <2>2. UNCHANGED <<libraryPath, handle, refs, ptr, lib, inputVideoFormat, frames, pc, up, tests>>
    BY <1>6 DEF EncodeVideo, EncodeAudio, Crash
  <2>3. QED
    BY <2>1, <2>2
<1>7. CASE ReceiveVideo \/ ReceiveAudio
  <2>1. frames' \in 0 .. MaxFrames
    BY <1>7 DEF ReceiveVideo, ReceiveAudio, Crash
  <2>2. causes' \subseteq Causes /\ fault' \in BOOLEAN
    BY <1>0, <1>7 DEF ReceiveVideo, ReceiveAudio, Succeeds, Crash, Sides
  <2>3. UNCHANGED <<libraryPath, handle, refs, ptr, lib, inputVideoFormat, pc, up, tests>>
    BY <1>7 DEF ReceiveVideo, ReceiveAudio, Crash
  <2>4. QED
    BY <2>1, <2>2, <2>3
<1>8. CASE DestroyStreams
  <2>1. causes' \subseteq Causes /\ fault' \in BOOLEAN
    BY <1>0, <1>8 DEF DestroyStreams, Succeeds, Crash, Sides
  <2>2. ptr' \in Ptrs
    BY <1>8 DEF DestroyStreams, Crash
  <2>3. pc' \in Pcs
    BY <1>8 DEF DestroyStreams, Crash, Goto
  <2>4. UNCHANGED <<libraryPath, handle, refs, lib, inputVideoFormat, frames, up, tests>>
    BY <1>8 DEF DestroyStreams, Crash
  <2>5. QED
    BY <2>1, <2>2, <2>3, <2>4
<1>9. ASSUME NEW side \in Sides, DestroyCodec(side) PROVE TypeOK'
  <2>0. causes' = causes \cup After(side, Parts) \/ causes' = causes
    BY <1>9 DEF DestroyCodec, Destroys, Succeeds
  <2>1. causes' \subseteq Causes /\ fault' \in BOOLEAN
    BY <1>0, <1>9, <2>0 DEF DestroyCodec, Crash
  <2>2. ptr' \in Ptrs
    BY <1>9 DEF DestroyCodec, Crash
  <2>3. pc' \in Pcs
    BY <1>9 DEF DestroyCodec, Crash, Goto
  <2>4. UNCHANGED <<libraryPath, handle, refs, lib, inputVideoFormat, frames, up, tests>>
    BY <1>9 DEF DestroyCodec, Crash
  <2>5. QED
    BY <2>1, <2>2, <2>3, <2>4
<1>10. ASSUME NEW side \in Sides, Unload(side) PROVE TypeOK'
  <2>1. CASE Succeeds({}) /\ Crash
    BY <2>1 DEF Crash, Succeeds
  <2>2. CASE /\ refs' = [q \in Paths |-> IF q = handle /\ refs[q] > 0 THEN refs[q] - 1 ELSE refs[q]]
             /\ FreeRest(side)
    <3>1. refs' \in Refs
      BY <2>2
    <3>2. ptr' \in Ptrs
      BY <2>2 DEF FreeRest
    <3>3. pc' \in Pcs /\ up' \in Ups
      BY <2>2 DEF FreeRest, Goto
    <3>4. UNCHANGED <<libraryPath, handle, lib, inputVideoFormat, frames, tests, causes, fault>>
      BY <2>2 DEF FreeRest
    <3>5. QED
      BY <3>1, <3>2, <3>3, <3>4
  <2>3. QED
    BY <1>10, <2>1, <2>2 DEF Unload
<1>11. CASE TestLoad
  <2>1. refs' \in Refs /\ tests' \in 0 .. MaxTests
    <3>1. CASE UNCHANGED <<refs, tests>>
      BY <3>1
    <3>2. CASE /\ refs[libraryPath] < MaxLoads /\ refs' = [refs EXCEPT ![libraryPath] = @ + 1]
               /\ tests' = tests + 1
      BY <1>11, <3>2 DEF TestLoad
    <3>3. QED
      BY <1>11, <3>1, <3>2 DEF TestLoad
  <2>2. causes' \subseteq Causes
    BY <1>0, <1>11 DEF TestLoad, Fails, Succeeds
  <2>3. pc' \in Pcs
    BY <1>11 DEF TestLoad, Goto
  <2>4. /\ handle' \in Paths \cup {NoLib}
        /\ UNCHANGED <<libraryPath, ptr, lib, inputVideoFormat, frames, up, fault>>
    BY <1>11 DEF TestLoad
  <2>5. QED
    BY <2>1, <2>2, <2>3, <2>4
<1>12. CASE TestCreate
  <2>1. causes' \subseteq Causes /\ fault' \in BOOLEAN
    BY <1>0, <1>12 DEF TestCreate, Fails, Succeeds, Crash
  <2>2. ptr' \in Ptrs
    BY <1>12 DEF TestCreate, Crash
  <2>3. lib' \in Libs
    BY <1>12 DEF TestCreate, Crash
  <2>4. pc' \in Pcs
    BY <1>12 DEF TestCreate, Crash, Goto
  <2>5. UNCHANGED <<libraryPath, handle, refs, inputVideoFormat, frames, up, tests>>
    BY <1>12 DEF TestCreate, Crash
  <2>6. QED
    BY <2>1, <2>2, <2>3, <2>4, <2>5
<1>13. CASE UNCHANGED vars
  BY <1>13 DEF vars
<1>14. QED
  BY <1>1, <1>2, <1>3, <1>4, <1>5, <1>6, <1>7, <1>8, <1>9, <1>10, <1>11, <1>12, <1>13 DEF Next, Side

(* Every variable keeps to its values: the loads, the tests and the frames *)
(* to their bounds, and each side to the places of its functions.          *)
THEOREM TypeCorrect == Spec => []TypeOK
<1>1. ASSUME Init PROVE TypeOK
  <2>1. /\ 0 \in 0 .. MaxLoads /\ 0 \in 0 .. MaxFrames /\ 0 \in 0 .. MaxTests
    BY MediaAssumption
  <2>2. refs \in [Paths -> 0 .. MaxLoads] /\ frames \in 0 .. MaxFrames /\ tests \in 0 .. MaxTests
    BY <1>1, <2>1 DEF Init
  <2>3. up \in [Sides -> SUBSET Parts] /\ inputVideoFormat \in Formats /\ causes \subseteq Causes
    BY <1>1 DEF Init, Formats
  <2>4. QED
    BY <1>1, <2>2, <2>3 DEF Init, TypeOK
<1>2. QED
  BY <1>1, TypeStep, PTL DEF Spec

-----------------------------------------------------------------------------
(* The loads: one lemma for each action that loads, unloads, creates or    *)
(* destroys.                                                               *)

LEMMA LoadLibraryKeeps ==
    ASSUME NEW p \in Paths, Paths = {p}, LoadInv(p), Shape',
           NEW side \in Sides, LoadLibrary(side)
    PROVE  LoadInv(p)'
<1> USE VideoPointers
<1>1. ptr' = ptr /\ lib' = lib /\ pc[side] = "idle"
  BY DEF LoadLibrary, At
<1>2. CASE UNCHANGED refs /\ InitFailed(side)
  <2>1. pc' = [pc EXCEPT ![side] = "idle"]
    BY <1>2 DEF InitFailed, Goto
  <2>2. QED
    BY <1>1, <1>2, <2>1, NoLoadStep DEF LoadInv, Shape, Live
<1>3. CASE refs' = [refs EXCEPT ![libraryPath] = @ + 1] /\ Goto(side, "create")
  <2>1. libraryPath = p
    BY DEF LoadLibrary, LoadInv, Shape
  <2>2. refs'[p] = refs[p] + 1
    BY <1>3, <2>1 DEF LoadInv, Shape
  <2>3. pc' = [pc EXCEPT ![side] = "create"]
    BY <1>3 DEF Goto
  <2>4. \A s \in Sides : s # side => Counts(s)' = Counts(s)
    BY <1>1, <2>3 DEF Counts, Live, LoadInv, Shape
  <2>5. \A s \in Sides : pc'[s] = "unload" => ~Live(Video(s))'
    BY <1>1, <2>3 DEF Live, LoadInv, Shape
  <2>6. \A s \in Sides : Live(Video(s))' => lib'[s] = p
    BY <1>1 DEF Live, LoadInv
  <2>7. QED
    BY <2>2, <2>4, <2>5, <2>6, LoadStep
<1>4. QED
  BY <1>2, <1>3 DEF LoadLibrary

LEMMA CreateCodecKeeps ==
    ASSUME NEW p \in Paths, Paths = {p}, LoadInv(p), Shape',
           NEW side \in Sides, CreateCodec(side)
    PROVE  LoadInv(p)'
<1> USE VideoPointers
<1>1. pc[side] = "create" /\ refs' = refs
  BY DEF CreateCodec, At, Crash
<1>2. CASE Crash
  BY <1>2, NoLoadStep DEF Crash, Live
<1>3. CASE /\ Loaded /\ ptr' = [ptr EXCEPT ![Video(side)] = "live"]
           /\ lib' = [lib EXCEPT ![side] = handle] /\ Goto(side, "initialize")
  <2>1. handle = p
    BY <1>3 DEF Loaded, LoadInv, Shape
  <2>2. pc' = [pc EXCEPT ![side] = "initialize"]
    BY <1>3 DEF Goto
  <2>3. \A s \in Sides : Counts(s)' = Counts(s)
    BY <1>1, <1>3, <2>2 DEF Counts, Live, LoadInv, Shape
  <2>4. Loads("encoder")' = Loads("encoder") /\ Loads("decoder")' = Loads("decoder")
    BY <2>3 DEF Loads
  <2>5. \A s \in Sides : Live(Video(s))' => lib'[s] = p
    BY <1>3, <2>1 DEF Live, LoadInv, Shape
  <2>6. \A s \in Sides : pc'[s] = "unload" => ~Live(Video(s))'
    BY <1>3, <2>2 DEF Live, LoadInv, Shape
  <2>7. QED
    BY <1>1, <2>4, <2>5, <2>6 DEF LoadInv
<1>4. CASE ptr' = [ptr EXCEPT ![Video(side)] = "null"] /\ InitFailed(side) /\ UNCHANGED lib
  <2>1. pc' = [pc EXCEPT ![side] = "idle"]
    BY <1>4 DEF InitFailed, Goto
  <2>2. QED
    BY <1>1, <1>4, <2>1, NoLoadStep DEF LoadInv, Shape, Live
<1>5. QED
  BY <1>2, <1>3, <1>4 DEF CreateCodec

LEMMA InitKeeps ==
    ASSUME NEW p \in Paths, LoadInv(p), Shape',
           NEW side \in Sides, InitializeCodec(side) \/ InitAudio(side)
    PROVE  LoadInv(p)'
<1> USE VideoPointers
<1>1. UNCHANGED <<refs, lib>>
  BY DEF InitializeCodec, InitAudio
<1>2. \A s \in Sides : ptr'[Video(s)] = ptr[Video(s)]
  BY DEF InitializeCodec, InitAudio, LoadInv, Shape
<1>3. pc' = pc \/ pc' = [pc EXCEPT ![side] = "idle"]
  BY DEF InitializeCodec, InitAudio, InitFailed, Goto
<1>4. QED
  BY <1>1, <1>2, <1>3, NoLoadStep DEF LoadInv, Shape, Live

LEMMA DestroyCodecKeeps ==
    ASSUME NEW p \in Paths, LoadInv(p), Shape',
           NEW side \in Sides, DestroyCodec(side)
    PROVE  LoadInv(p)'
<1> USE VideoPointers
<1>1. CASE Crash
  BY <1>1, NoLoadStep DEF Crash, Live
<1>2. CASE /\ Live(Video(side)) /\ ptr' = [ptr EXCEPT ![Video(side)] = "freed"]
           /\ Goto(side, "unload") /\ UNCHANGED <<refs, lib>>
  <2>1. pc' = [pc EXCEPT ![side] = "unload"]
    BY <1>2 DEF Goto
  <2>2. QED
    BY <1>2, <2>1, NoLoadStep DEF LoadInv, Shape, Live
<1>3. QED
  BY <1>1, <1>2 DEF DestroyCodec

LEMMA UnloadKeeps ==
    ASSUME NEW p \in Paths, Paths = {p}, LoadInv(p), Shape',
           NEW side \in Sides, Unload(side)
    PROVE  LoadInv(p)'
<1> USE VideoPointers
<1>1. CASE Crash
  BY <1>1, NoLoadStep DEF Crash, Live
<1>2. CASE /\ refs' = [q \in Paths |-> IF q = handle /\ refs[q] > 0 THEN refs[q] - 1 ELSE refs[q]]
           /\ FreeRest(side)
  <2>1. pc[side] = "unload" /\ pc' = [pc EXCEPT ![side] = "idle"] /\ lib' = lib
    BY <1>2 DEF Unload, At, Goto, FreeRest
  <2>2. ptr' = [x \in Pointers |-> IF x \in Rest(side) /\ Live(x) THEN "freed" ELSE ptr[x]]
    BY <1>2 DEF FreeRest
  <2>3. \A s \in Sides : Live(Video(s))' => Live(Video(s))
    BY <2>2 DEF Live, LoadInv, Shape
  <2>4. \A s \in Sides : Counts(s)' => Counts(s)
    BY <2>1, <2>3 DEF Counts, LoadInv, Shape
  <2>5. Counts(side) /\ ~Counts(side)'
    BY <2>1, <2>3 DEF Counts, LoadInv, Shape
  <2>6. Loads("encoder")' + Loads("decoder")' <= Loads("encoder") + Loads("decoder") - 1
    BY <2>4, <2>5 DEF Loads
  <2>7. refs'[p] >= refs[p] - 1
    BY <1>2 DEF LoadInv, Shape
  <2>8. refs'[p] >= Loads("encoder")' + Loads("decoder")'
    BY <2>6, <2>7 DEF LoadInv, Shape, Loads
  <2>9. QED
    BY <2>1, <2>3, <2>8 DEF LoadInv, Shape
<1>3. QED
  BY <1>1, <1>2 DEF Unload

LEMMA TestLoadKeeps ==
    ASSUME NEW p \in Paths, Paths = {p}, LoadInv(p), Shape', TestLoad
    PROVE  LoadInv(p)'
<1> USE VideoPointers
<1>1. ptr' = ptr /\ lib' = lib /\ pc["decoder"] = "idle" /\ libraryPath = p
  BY DEF TestLoad, At, LoadInv, Shape
<1>2. CASE UNCHANGED <<refs, pc>>
  BY <1>1, <1>2, NoLoadStep DEF Live
<1>3. CASE refs' = [refs EXCEPT ![libraryPath] = @ + 1] /\ Goto("decoder", "test")
  <2>1. refs'[p] = refs[p] + 1
    BY <1>1, <1>3 DEF LoadInv, Shape
  <2>2. pc' = [pc EXCEPT !["decoder"] = "test"]
    BY <1>3 DEF Goto
  <2>3. \A s \in Sides : s # "decoder" => Counts(s)' = Counts(s)
    BY <1>1, <2>2 DEF Counts, Live, LoadInv, Shape
  <2>4. \A s \in Sides : Live(Video(s))' => lib'[s] = p
    BY <1>1 DEF Live, LoadInv
  <2>5. \A s \in Sides : pc'[s] = "unload" => ~Live(Video(s))'
    BY <1>1, <2>2 DEF Live, LoadInv, Shape
  <2>6. QED
    BY <2>1, <2>3, <2>4, <2>5, LoadStep
<1>4. QED
  BY <1>2, <1>3 DEF TestLoad

LEMMA TestCreateKeeps ==
    ASSUME NEW p \in Paths, Paths = {p}, LoadInv(p), Shape', TestCreate
    PROVE  LoadInv(p)'
<1> USE VideoPointers
<1>1. pc["decoder"] = "test" /\ refs' = refs
  BY DEF TestCreate, At, Crash
<1>2. CASE Crash
  BY <1>2, NoLoadStep DEF Crash, Live
<1>3. CASE Loaded /\ Goto("decoder", "idle")
  <2>1. handle = p
    BY <1>3 DEF Loaded, LoadInv, Shape
  <2>2. pc' = [pc EXCEPT !["decoder"] = "idle"]
    BY <1>3 DEF Goto
  <2>3. ptr'["videoEncoder"] = ptr["videoEncoder"]
    BY DEF TestCreate, Crash, LoadInv, Shape
  <2>4. lib'["encoder"] = lib["encoder"]
    BY DEF TestCreate, Crash, LoadInv, Shape
  <2>5. ptr'["videoDecoder"] = "live" => lib'["decoder"] = p
    <3>1. CASE UNCHANGED lib /\ ptr' = [ptr EXCEPT !["videoDecoder"] = "null"]
      BY <3>1 DEF LoadInv, Shape
    <3>2. CASE lib' = [lib EXCEPT !["decoder"] = handle]
      BY <2>1, <3>2 DEF LoadInv, Shape
    <3>3. CASE Crash
      BY <3>3 DEF Crash, LoadInv, Live
    <3>4. QED
      BY <3>1, <3>2, <3>3 DEF TestCreate
  <2>6. \A s \in Sides : Counts(s)' => Counts(s)
    BY <1>1, <2>2, <2>3 DEF Counts, Live, LoadInv, Shape
  <2>7. Loads("encoder")' <= Loads("encoder") /\ Loads("decoder")' <= Loads("decoder")
    BY <2>6 DEF Loads
  <2>8. refs'[p] >= Loads("encoder")' + Loads("decoder")'
    BY <1>1, <2>7 DEF LoadInv, Shape, Loads
  <2>9. \A s \in Sides : Live(Video(s))' => lib'[s] = p
    BY <2>3, <2>4, <2>5 DEF Live, LoadInv
  <2>10. \A s \in Sides : pc'[s] = "unload" => ~Live(Video(s))'
    BY <2>2, <2>3 DEF Live, LoadInv, Shape
  <2>11. QED
    BY <2>8, <2>9, <2>10 DEF LoadInv
<1>4. QED
  BY <1>2, <1>3 DEF TestCreate

LEMMA DestroyStreamsKeeps ==
    ASSUME NEW p \in Paths, LoadInv(p), Shape', DestroyStreams
    PROVE  LoadInv(p)'
<1> USE VideoPointers
<1>1. UNCHANGED <<refs, lib>>
  BY DEF DestroyStreams, Crash
<1>2. \A s \in Sides : ptr'[Video(s)] = ptr[Video(s)]
  BY DEF DestroyStreams, Crash, LoadInv, Shape
<1>3. pc' = pc \/ pc' = [pc EXCEPT !["decoder"] = "destroy"]
  BY DEF DestroyStreams, Crash, Goto
<1>4. QED
  BY <1>1, <1>2, <1>3, NoLoadStep DEF LoadInv, Shape, Live

-----------------------------------------------------------------------------

LEMMA LoadInvStep ==
    ASSUME NEW p \in Paths, Paths = {p}
    PROVE  TypeOK /\ LoadInv(p) /\ [Next]_vars => LoadInv(p)'
<1> SUFFICES ASSUME TypeOK, LoadInv(p), [Next]_vars PROVE LoadInv(p)'
  OBVIOUS
<1>0. Shape'
  <2>1. TypeOK'
    BY TypeStep
  <2>2. QED
    BY <2>1, MediaAssumption DEF TypeOK, Shape
<1>1. CASE UNCHANGED <<refs, ptr, lib, pc>>
  BY <1>0, <1>1, NoLoadStep DEF Live
<1>2. ASSUME NEW side \in Sides, Side(side) PROVE LoadInv(p)'
  BY <1>0, <1>2, LoadLibraryKeeps, CreateCodecKeeps, InitKeeps, DestroyCodecKeeps, UnloadKeeps DEF Side
<1>3. CASE DestroyStreams
  BY <1>0, <1>3, DestroyStreamsKeeps
<1>4. CASE TestLoad \/ TestCreate
  BY <1>0, <1>4, TestLoadKeeps, TestCreateKeeps
<1>5. CASE \E q \in Paths : SetLibraryPath(q)
  BY <1>1, <1>5 DEF SetLibraryPath
<1>6. CASE EncodeVideo \/ EncodeAudio
  BY <1>1, <1>6 DEF EncodeVideo, EncodeAudio, Crash
<1>7. CASE ReceiveVideo \/ ReceiveAudio
  BY <1>1, <1>7 DEF ReceiveVideo, ReceiveAudio, Crash
<1>8. CASE UNCHANGED vars
  BY <1>1, <1>8 DEF vars
<1>9. QED
  BY <1>2, <1>3, <1>4, <1>5, <1>6, <1>7, <1>8 DEF Next

(* The code of a live codec is loaded, for any number of rounds, tests and *)
(* failures, in whatever order each side's functions are called and        *)
(* however the two sides interleave, if the application gives *)
(* setLibraryPath one path.  With two it is not so: the handle the encoder *)
(* closes may be the decoder's.                                            *)
THEOREM CodecKeepsItsLibrary ==
    ASSUME NEW p \in Paths, Paths = {p}
    PROVE  Spec => []LiveCodecHasItsLibrary
<1>1. Init => LoadInv(p)
  BY VideoPointers, MediaAssumption DEF Init, LoadInv, Shape, Loads, Counts, Live, NoLib
<1>2. LoadInv(p) => LiveCodecHasItsLibrary
  <2> SUFFICES ASSUME LoadInv(p), NEW side \in Sides, Live(Video(side))
               PROVE  refs[lib[side]] > 0
    BY DEF LiveCodecHasItsLibrary
  <2>1. Loads(side) = 1
    BY DEF Loads, Counts
  <2>2. refs[p] > 0
    BY <2>1, VideoPointers DEF LoadInv, Shape, Loads
  <2>3. QED
    BY <2>2 DEF LoadInv
<1>3. QED
  BY <1>1, <1>2, LoadInvStep, TypeCorrect, PTL DEF Spec

-----------------------------------------------------------------------------
(* What holds while no call has failed or come out of order.               *)

(* A side holds one load from its dlopen() to its dlclose(). *)
Holds(side) == pc[side] \in {"create", "initialize", "unload"} \/ "video" \in up[side]
Held(side) == IF Holds(side) THEN 1 ELSE 0

(* The loads are those the sides and test() hold, and the handle names the *)
(* library as long as there is one.                                        *)
Balance(p) ==
    /\ refs[p] = Held("encoder") + Held("decoder") + tests
    /\ refs[p] > 0 => handle = p

(* How far each side has come, and what it will use is live. *)
Ready(side) ==
    /\ pc[side] \in {"create", "initialize"} => "video" \notin up[side]
    /\ pc[side] \in {"destroy", "unload"} => Parts \subseteq up[side]
    /\ pc[side] = "test" => up[side] = {} /\ tests > 0
    /\ side = "encoder" => pc[side] \notin {"destroy", "test"}
    /\ pc[side] \in {"initialize", "destroy"} => Live(Video(side))
    /\ "video" \in up[side] /\ pc[side] # "unload" => Live(Video(side))
    /\ "audio" \in up[side] => Live(Audio(side))
    /\ "video" \in up[side] /\ (pc[side] \notin {"destroy", "unload"} \/ side = "encoder")
         => Live(VideoStrm(side))
    /\ "audio" \in up[side] /\ (pc[side] \notin {"destroy", "unload"} \/ side = "encoder")
         => Live(AudioStrm(side))

(* What is true before the first failure and the first call out of order,  *)
(* and so whenever none has come.                                          *)
Good(p) == ~fault /\ Balance(p) /\ \A side \in Sides : Ready(side)
Sound(p) == causes = {} => Good(p)

(* No pointer is shared. *)
LEMMA AllPointers ==
    /\ VideoStrm("encoder") = "sendVideoStrm" /\ VideoStrm("decoder") = "receiveVideoStrm"
    /\ Audio("encoder") = "audioEncoder" /\ Audio("decoder") = "audioDecoder"
    /\ AudioStrm("encoder") = "sendAudioStrm" /\ AudioStrm("decoder") = "receiveAudioStrm"
    /\ Pointers = {"videoEncoder", "sendVideoStrm", "audioEncoder", "sendAudioStrm",
                   "videoDecoder", "receiveVideoStrm", "audioDecoder", "receiveAudioStrm"}
    /\ Own("encoder") = {"videoEncoder", "sendVideoStrm", "audioEncoder", "sendAudioStrm"}
    /\ Own("decoder") = {"videoDecoder", "receiveVideoStrm", "audioDecoder", "receiveAudioStrm"}
  BY DEF Video, VideoStrm, Audio, AudioStrm, Own, Pointers

(* The steps of the two sides, one lemma for each action.  A step that     *)
(* changes what one side has ready leaves the other side alone:            *)
(* what it has ready depends on its own place and pointers only.           *)
LEMMA OtherSide ==
    ASSUME NEW side \in Sides, Ready(side), tests \in Nat, tests' \in Nat,
           pc'[side] = pc[side], up'[side] = up[side], tests' >= tests,
           \A x \in Own(side) : ptr'[x] = ptr[x]
    PROVE  Ready(side)'
  BY VideoPointers DEF Ready, Live, Own

(* A call that succeeds without a cause was in order. *)
LEMMA InOrder ==
    /\ \A call, order : Fails(call, order) => causes' # {}
    /\ \A order : Succeeds(order) /\ causes' = {} => order = {}
    /\ \A side, part : Once(side, part) = {} => part \notin up[side]
    /\ \A side, parts : After(side, parts) = {} => parts \subseteq up[side]
  BY DEF Fails, Succeeds, Once, After

LEMMA LoadLibraryIsGood ==
    ASSUME NEW p \in Paths, Paths = {p}, TypeOK, TypeOK', Good(p), causes' = {},
           NEW side \in Sides, LoadLibrary(side)
    PROVE  Good(p)'
<1> USE VideoPointers
<1>1. /\ pc[side] = "idle" /\ libraryPath = p /\ Succeeds(Once(side, "video"))
      /\ refs' = [refs EXCEPT ![libraryPath] = @ + 1] /\ handle' = libraryPath
      /\ pc' = [pc EXCEPT ![side] = "create"]
      /\ UNCHANGED <<ptr, up, tests, fault>>
  BY InOrder DEF LoadLibrary, At, Goto, TypeOK
<1>2. refs'[p] = refs[p] + 1 /\ handle' = p
  BY <1>1 DEF TypeOK
<1>3. "video" \notin up[side]
  BY <1>1, InOrder
<1>4. Held(side)' = Held(side) + 1
  BY <1>1, <1>3 DEF Held, Holds, TypeOK
<1>5. \A s \in Sides \ {side} : Held(s)' = Held(s)
  BY <1>1 DEF Held, Holds, TypeOK
<1>6. Balance(p)'
  BY <1>1, <1>2, <1>4, <1>5, MediaAssumption DEF Balance, Good, TypeOK, Held
<1>7. Ready(side)'
  BY <1>1, <1>3 DEF Ready, Good, Live, TypeOK
<1>8. \A s \in Sides \ {side} : Ready(s)'
  BY <1>1, OtherSide, MediaAssumption DEF Good, TypeOK
<1>9. QED
  BY <1>1, <1>6, <1>7, <1>8 DEF Good

(* A step that changes neither the loads nor who holds one. *)
LEMMA SameLoads ==
    ASSUME NEW p \in Paths, Balance(p), UNCHANGED <<refs, handle, tests>>,
           \A s \in Sides : Holds(s)' <=> Holds(s)
    PROVE  Balance(p)'
  BY VideoPointers DEF Balance, Held

LEMMA CreateCodecIsGood ==
    ASSUME NEW p \in Paths, Paths = {p}, TypeOK, TypeOK', Good(p), causes' = {},
           NEW side \in Sides, CreateCodec(side)
    PROVE  Good(p)'
<1> USE VideoPointers, AllPointers
<1>1. pc[side] = "create" /\ Loaded
  <2>1. pc[side] = "create"
    BY DEF CreateCodec, At
  <2>2. Held(side) = 1
    BY <2>1 DEF Held, Holds
  <2>3. refs[p] > 0
    BY <2>2, MediaAssumption DEF Good, Balance, Held, TypeOK
  <2>4. handle = p
    BY <2>3 DEF Good, Balance
  <2>5. QED
    BY <2>1, <2>3, <2>4, MediaAssumption DEF Loaded
<1>2. /\ ptr' = [ptr EXCEPT ![Video(side)] = "live"]
      /\ pc' = [pc EXCEPT ![side] = "initialize"]
      /\ UNCHANGED <<handle, refs, up, tests, fault>>
  BY <1>1, InOrder DEF CreateCodec, Goto
<1>3. \A s \in Sides : Holds(s)' <=> Holds(s)
  BY <1>1, <1>2 DEF Holds, TypeOK
<1>4. Balance(p)'
  BY <1>2, <1>3, SameLoads DEF Good
<1>5. Ready(side)'
  BY <1>1, <1>2 DEF Good, Ready, Live, TypeOK
<1>6. \A s \in Sides \ {side} : Ready(s)'
  BY <1>2, OtherSide, MediaAssumption DEF Good, TypeOK
<1>7. QED
  BY <1>2, <1>4, <1>5, <1>6 DEF Good

LEMMA InitializeCodecIsGood ==
    ASSUME NEW p \in Paths, TypeOK, TypeOK', Good(p), causes' = {},
           NEW side \in Sides, InitializeCodec(side)
    PROVE  Good(p)'
<1> USE VideoPointers, AllPointers
<1>1. /\ pc[side] = "initialize"
      /\ ptr' = [ptr EXCEPT ![VideoStrm(side)] = "live"]
      /\ pc' = [pc EXCEPT ![side] = "idle"]
      /\ up' = [up EXCEPT ![side] = @ \cup {"video"}]
      /\ UNCHANGED <<handle, refs, tests, fault>>
  BY InOrder DEF InitializeCodec, At, Goto, Asked
<1>2. \A s \in Sides : Holds(s)' <=> Holds(s)
  BY <1>1 DEF Holds, TypeOK
<1>3. Balance(p)'
  BY <1>1, <1>2, SameLoads DEF Good
<1>4. Ready(side)'
  BY <1>1 DEF Good, Ready, Live, TypeOK
<1>5. \A s \in Sides \ {side} : Ready(s)'
  BY <1>1, OtherSide, MediaAssumption DEF Good, TypeOK
<1>6. QED
  BY <1>1, <1>3, <1>4, <1>5 DEF Good

LEMMA InitAudioIsGood ==
    ASSUME NEW p \in Paths, TypeOK, TypeOK', Good(p), causes' = {},
           NEW side \in Sides, InitAudio(side)
    PROVE  Good(p)'
<1> USE VideoPointers, AllPointers
<1>1. /\ pc[side] = "idle"
      /\ ptr' = [ptr EXCEPT ![Audio(side)] = "live", ![AudioStrm(side)] = "live"]
      /\ up' = [up EXCEPT ![side] = @ \cup {"audio"}]
      /\ UNCHANGED <<handle, refs, pc, tests, fault>>
  BY InOrder DEF InitAudio, At, Asked
<1>2. \A s \in Sides : Holds(s)' <=> Holds(s)
  BY <1>1 DEF Holds, TypeOK
<1>3. Balance(p)'
  BY <1>1, <1>2, SameLoads DEF Good
<1>4. Ready(side)'
  BY <1>1 DEF Good, Ready, Live, TypeOK
<1>5. \A s \in Sides \ {side} : Ready(s)'
  BY <1>1, OtherSide, MediaAssumption DEF Good, TypeOK
<1>6. QED
  BY <1>1, <1>3, <1>4, <1>5 DEF Good

(* Neither encoding nor receiving meets a pointer that is not live. *)
LEMMA UseIsGood ==
    ASSUME NEW p \in Paths, TypeOK, TypeOK', Good(p), causes' = {},
           EncodeVideo \/ EncodeAudio \/ ReceiveVideo \/ ReceiveAudio
    PROVE  Good(p)'
<1> USE VideoPointers, AllPointers
<1>1. CASE EncodeVideo
  <2>1. /\ pc["encoder"] = "idle" /\ "video" \in up["encoder"]
        /\ inputVideoFormat = "rgb"
    BY <1>1 DEF EncodeVideo, At, Succeeds, After
  <2>2. QED
    BY <1>1, <2>1 DEF EncodeVideo, Good, Ready, Balance, Held, Holds, Live
<1>2. CASE EncodeAudio
  <2>1. pc["encoder"] = "idle" /\ "audio" \in up["encoder"]
    BY <1>2 DEF EncodeAudio, At, Succeeds, After
  <2>2. QED
    BY <1>2, <2>1 DEF EncodeAudio, Good, Ready, Balance, Held, Holds, Live
<1>3. CASE ReceiveVideo
  <2>1. pc["decoder"] = "idle" /\ "video" \in up["decoder"]
    BY <1>3 DEF ReceiveVideo, At, Succeeds, After
  <2>2. QED
    BY <1>3, <2>1 DEF ReceiveVideo, Good, Ready, Balance, Held, Holds, Live
<1>4. CASE ReceiveAudio
  <2>1. pc["decoder"] = "idle" /\ "audio" \in up["decoder"]
    BY <1>4 DEF ReceiveAudio, At, Succeeds, After
  <2>2. QED
    BY <1>4, <2>1 DEF ReceiveAudio, Good, Ready, Balance, Held, Holds, Live
<1>5. QED
  BY <1>1, <1>2, <1>3, <1>4

LEMMA DestroyStreamsIsGood ==
    ASSUME NEW p \in Paths, TypeOK, TypeOK', Good(p), causes' = {}, DestroyStreams
    PROVE  Good(p)'
<1> USE VideoPointers, AllPointers
<1>1. pc["decoder"] = "idle" /\ Parts \subseteq up["decoder"]
  BY InOrder DEF DestroyStreams, At
<1>2. Live("receiveVideoStrm") /\ Live("receiveAudioStrm") /\ Live("videoDecoder")
  BY <1>1 DEF Good, Ready, Parts
<1>3. /\ pc' = [pc EXCEPT !["decoder"] = "destroy"]
      /\ \A x \in Pointers \ {"receiveVideoStrm", "receiveAudioStrm"} : ptr'[x] = ptr[x]
      /\ UNCHANGED <<handle, refs, up, tests, fault>>
  BY <1>2 DEF DestroyStreams, Goto, Live
<1>4. \A s \in Sides : Holds(s)' <=> Holds(s)
  BY <1>1, <1>3 DEF Holds, TypeOK
<1>5. Balance(p)'
  BY <1>3, <1>4, SameLoads DEF Good
<1>6. Ready("decoder")'
  BY <1>1, <1>2, <1>3 DEF Good, Ready, Live, TypeOK
<1>7. Ready("encoder")'
  BY <1>3, OtherSide, MediaAssumption DEF Good, TypeOK
<1>8. QED
  BY <1>3, <1>5, <1>6, <1>7 DEF Good

LEMMA DestroyCodecIsGood ==
    ASSUME NEW p \in Paths, Paths = {p}, TypeOK, TypeOK', Good(p), causes' = {},
           NEW side \in Sides, DestroyCodec(side)
    PROVE  Good(p)'
<1> USE VideoPointers, AllPointers
<1>1. Parts \subseteq up[side] /\ pc[side] \in {"idle", "destroy"}
  BY InOrder DEF DestroyCodec, Destroys, At, Good, Ready
<1>2. Live(Video(side)) /\ Loaded
  <2>1. Held(side) = 1
    BY <1>1 DEF Held, Holds, Parts
  <2>2. refs[p] > 0
    BY <2>1, MediaAssumption DEF Good, Balance, Held, TypeOK
  <2>3. handle = p
    BY <2>2 DEF Good, Balance
  <2>4. QED
    BY <1>1, <2>2, <2>3, MediaAssumption DEF Good, Ready, Loaded, Parts
<1>3. /\ ptr' = [ptr EXCEPT ![Video(side)] = "freed"]
      /\ pc' = [pc EXCEPT ![side] = "unload"]
      /\ UNCHANGED <<handle, refs, up, tests, fault>>
  BY <1>2 DEF DestroyCodec, Goto
<1>4. \A s \in Sides : Holds(s)' <=> Holds(s)
  BY <1>1, <1>3 DEF Holds, TypeOK, Parts
<1>5. Balance(p)'
  BY <1>3, <1>4, SameLoads DEF Good
<1>6. Ready(side)'
  BY <1>1, <1>3 DEF Good, Ready, Live, TypeOK
<1>7. \A s \in Sides \ {side} : Ready(s)'
  BY <1>3, OtherSide, MediaAssumption DEF Good, TypeOK
<1>8. QED
  BY <1>3, <1>5, <1>6, <1>7 DEF Good

LEMMA UnloadIsGood ==
    ASSUME NEW p \in Paths, Paths = {p}, TypeOK, TypeOK', Good(p), causes' = {},
           NEW side \in Sides, Unload(side)
    PROVE  Good(p)'
<1> USE VideoPointers, AllPointers
<1>1. pc[side] = "unload" /\ Parts \subseteq up[side]
  BY DEF Unload, At, Good, Ready
<1>2. /\ Live(Audio(side))
      /\ side = "encoder" => Live(VideoStrm(side)) /\ Live(AudioStrm(side))
  BY <1>1 DEF Good, Ready, Parts
<1>3. Held(side) = 1
  BY <1>1 DEF Held, Holds
<1>4. refs[p] > 0 /\ handle = p
  BY <1>3, MediaAssumption DEF Good, Balance, Held, TypeOK
<1>5. Loaded
  BY <1>4, MediaAssumption DEF Loaded
<1>6. /\ ptr[Audio(side)] # "freed"
      /\ side = "encoder" => \A x \in Rest(side) \ {Audio(side)} : Live(x)
  BY <1>2 DEF Live, Rest
<1>7. /\ refs' = [q \in Paths |-> IF q = handle /\ refs[q] > 0 THEN refs[q] - 1 ELSE refs[q]]
      /\ FreeRest(side)
  BY <1>5, <1>6 DEF Unload
<1>8. /\ ptr' = [x \in Pointers |-> IF x \in Own(side) \ {Video(side)} /\ Live(x) THEN "freed" ELSE ptr[x]]
      /\ pc' = [pc EXCEPT ![side] = "idle"] /\ up' = [up EXCEPT ![side] = {}]
      /\ UNCHANGED <<handle, tests, fault>>
  BY <1>7 DEF FreeRest, Goto, Rest
<1>9. Held(side)' = 0
  BY <1>8 DEF Held, Holds, TypeOK
<1>10. refs'[p] = refs[p] - 1
  BY <1>4, <1>7
<1>11. \A s \in Sides \ {side} : Held(s)' = Held(s)
  BY <1>8 DEF Held, Holds, TypeOK
<1>12. Balance(p)'
  BY <1>3, <1>4, <1>8, <1>9, <1>10, <1>11, MediaAssumption DEF Good, Balance, Held, TypeOK
<1>13. Ready(side)'
  BY <1>8 DEF Ready, TypeOK
<1>14. \A s \in Sides \ {side} : Ready(s)'
  <2> SUFFICES ASSUME NEW s \in Sides \ {side} PROVE Ready(s)'
    OBVIOUS
  <2>1. \A x \in Own(s) : ptr'[x] = ptr[x]
    BY <1>8 DEF TypeOK
  <2>2. QED
    BY <1>8, <2>1, OtherSide, MediaAssumption DEF Good, TypeOK
<1>15. QED
  BY <1>8, <1>12, <1>13, <1>14 DEF Good

LEMMA TestLoadIsGood ==
    ASSUME NEW p \in Paths, Paths = {p}, TypeOK, TypeOK', Good(p), causes' = {}, TestLoad
    PROVE  Good(p)'
<1> USE VideoPointers, AllPointers
<1>1. /\ pc["decoder"] = "idle" /\ up["decoder"] = {} /\ libraryPath = p
      /\ refs' = [refs EXCEPT ![libraryPath] = @ + 1] /\ handle' = libraryPath
      /\ tests' = tests + 1
      /\ pc' = [pc EXCEPT !["decoder"] = "test"]
      /\ UNCHANGED <<ptr, up, fault>>
  BY DEF TestLoad, At, Goto, Fails, Succeeds, TypeOK
<1>2. refs'[p] = refs[p] + 1 /\ handle' = p
  BY <1>1 DEF TypeOK
<1>3. \A s \in Sides : Held(s)' = Held(s)
  BY <1>1 DEF Held, Holds, TypeOK
<1>4. Balance(p)'
  <2>1. Held("encoder") \in Nat /\ Held("decoder") \in Nat /\ tests \in Nat
    BY MediaAssumption DEF Held, TypeOK
  <2>2. refs[p] = Held("encoder") + Held("decoder") + tests
    BY DEF Good, Balance
  <2>3. refs'[p] = Held("encoder") + Held("decoder") + tests'
    BY <1>1, <1>2, <2>1, <2>2
  <2>4. Held("encoder")' = Held("encoder") /\ Held("decoder")' = Held("decoder")
    BY <1>3
  <2>5. QED
    BY <1>2, <2>3, <2>4 DEF Balance
<1>5. tests \in Nat /\ tests' \in Nat /\ tests' > 0
  BY <1>1, MediaAssumption DEF TypeOK
<1>6. Ready("decoder")'
  BY <1>1, <1>5 DEF Ready, TypeOK
<1>7. Ready("encoder")'
  BY <1>1, <1>5, OtherSide DEF Good, TypeOK
<1>8. QED
  BY <1>1, <1>4, <1>6, <1>7 DEF Good

LEMMA TestCreateIsGood ==
    ASSUME NEW p \in Paths, Paths = {p}, TypeOK, TypeOK', Good(p), causes' = {}, TestCreate
    PROVE  Good(p)'
<1> USE VideoPointers, AllPointers
<1>1. pc["decoder"] = "test" /\ up["decoder"] = {} /\ tests > 0
  BY DEF TestCreate, At, Good, Ready
<1>2. refs[p] > 0 /\ handle = p
  BY <1>1, MediaAssumption DEF Good, Balance, Held, TypeOK
<1>3. Loaded
  BY <1>2, MediaAssumption DEF Loaded
<1>4. /\ ptr' = [ptr EXCEPT !["videoDecoder"] = "live", !["audioDecoder"] = "live"]
      /\ pc' = [pc EXCEPT !["decoder"] = "idle"]
      /\ UNCHANGED <<handle, refs, up, tests, fault>>
  BY <1>3, InOrder DEF TestCreate, Goto
<1>5. \A s \in Sides : Holds(s)' <=> Holds(s)
  BY <1>1, <1>4 DEF Holds, TypeOK
<1>6. Balance(p)'
  BY <1>4, <1>5, SameLoads DEF Good
<1>7. Ready("decoder")'
  BY <1>1, <1>4 DEF Ready, TypeOK
<1>8. Ready("encoder")'
  BY <1>4, OtherSide, MediaAssumption DEF Good, TypeOK
<1>9. QED
  BY <1>4, <1>6, <1>7, <1>8 DEF Good

-----------------------------------------------------------------------------

(* No step but a failure or a call out of order ends it, and both are      *)
(* remembered.                                                             *)
LEMMA SoundStep ==
    ASSUME NEW p \in Paths, Paths = {p}
    PROVE  TypeOK /\ Sound(p) /\ [Next]_vars => Sound(p)'
<1> SUFFICES ASSUME TypeOK, Sound(p), [Next]_vars, causes' = {} PROVE Good(p)'
  BY DEF Sound
<1>1. TypeOK'
  BY TypeStep
<1>2. causes \subseteq causes'
  <2>1. ASSUME NEW side \in Sides, Side(side) PROVE causes \subseteq causes'
    BY <2>1 DEF Side, LoadLibrary, CreateCodec, InitializeCodec, InitAudio, DestroyCodec, Destroys,
       Unload, FreeRest, Fails, Succeeds
  <2>2. CASE TestLoad \/ TestCreate
    BY <2>2 DEF TestLoad, TestCreate, Fails, Succeeds
  <2>3. CASE EncodeVideo \/ EncodeAudio \/ ReceiveVideo \/ ReceiveAudio \/ DestroyStreams
    BY <2>3 DEF EncodeVideo, EncodeAudio, ReceiveVideo, ReceiveAudio, DestroyStreams, Succeeds
  <2>4. QED
    BY <2>1, <2>2, <2>3 DEF Next, SetLibraryPath, vars
<1>3. Good(p)
  BY <1>2 DEF Sound
<1>4. CASE UNCHANGED <<handle, refs, ptr, pc, up, tests, fault>>
  BY <1>3, <1>4 DEF Good, Balance, Held, Holds, Ready, Live
<1>5. CASE \E q \in Paths : SetLibraryPath(q)
  BY <1>4, <1>5 DEF SetLibraryPath
<1>6. ASSUME NEW side \in Sides, Side(side) PROVE Good(p)'
  BY <1>1, <1>3, <1>6, LoadLibraryIsGood, CreateCodecIsGood, InitializeCodecIsGood,
     InitAudioIsGood, DestroyCodecIsGood, UnloadIsGood DEF Side
<1>7. CASE EncodeVideo \/ EncodeAudio \/ ReceiveVideo \/ ReceiveAudio
  BY <1>1, <1>3, <1>7, UseIsGood
<1>8. CASE DestroyStreams
  BY <1>1, <1>3, <1>8, DestroyStreamsIsGood
<1>9. CASE TestLoad \/ TestCreate
  BY <1>1, <1>3, <1>9, TestLoadIsGood, TestCreateIsGood
<1>10. CASE UNCHANGED vars
  BY <1>4, <1>10 DEF vars
<1>11. QED
  BY <1>5, <1>6, <1>7, <1>8, <1>9, <1>10 DEF Next

LEMMA AlwaysSound ==
    ASSUME NEW p \in Paths, Paths = {p}
    PROVE  Spec => []Sound(p)
<1>1. Init => Sound(p)
  BY VideoPointers DEF Init, Sound, Good, Balance, Held, Holds, Ready
<1>2. QED
  BY <1>1, SoundStep, TypeCorrect, PTL DEF Spec

(* With one library path, no order and interleaving of bringing the two    *)
(* sides up, using them, taking them down and starting over uses a pointer *)
(* that is null or freed, or a library that is not loaded, while no call   *)
(* fails, pictures are RGB, and each side is brought up once and           *)
(* completely before it is used or taken down.                             *)
THEOREM OrderlyUseIsSafe ==
    ASSUME NEW p \in Paths, Paths = {p}
    PROVE  Spec => []NoFault
<1>1. Sound(p) => NoFault
  BY DEF Sound, Good, NoFault
<1>2. QED
  BY <1>1, AlwaysSound, PTL

(* With one library path, while no call fails or comes out of order, what  *)
(* is loaded while both sides are down is what test() has loaded.          *)
THEOREM LoadsAreUndone ==
    ASSUME NEW p \in Paths, Paths = {p}
    PROVE  Spec => []QuiescentIsUnloaded
<1>1. TypeOK /\ Sound(p) => QuiescentIsUnloaded
  BY VideoPointers, MediaAssumption
  DEF TypeOK, Sound, Good, Balance, Held, Holds, QuiescentIsUnloaded
<1>2. QED
  BY <1>1, AlwaysSound, TypeCorrect, PTL
=============================================================================
