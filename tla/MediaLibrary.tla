---------------------------- MODULE MediaLibrary ----------------------------
(***************************************************************************)
(* The life of what src/library/mediaLibrary.cpp allocates.  The library   *)
(* has two sides, used by different threads of the application: the        *)
(* encoder sends, the decoder receives.  Each keeps a video codec, whose   *)
(* code is loaded with dlopen(), an Opus codec, and an RTP session with    *)
(* one stream for video and one for audio.  All are globals, and the two   *)
(* sides share one of them: the handle of the codec library.               *)
(*                                                                         *)
(* A pointer is null, live or freed; a session and its stream live and die *)
(* together and count as one.  Using a null or freed pointer, or looking   *)
(* up a function of a library that is not loaded, ends the program.        *)
(*                                                                         *)
(* Each side's functions are called by one thread, in any order: what the  *)
(* code takes for granted of that order, and of the calls it makes, is     *)
(* remembered in causes when it did not hold.                              *)
(***************************************************************************)
EXTENDS Integers

CONSTANTS
    Paths,        \* the paths setLibraryPath is given
    Failures,     \* the calls that may fail
    MaxTests,     \* bound: calls of test() that load the library
    MaxLoads,     \* bound: dlopen() calls that are not undone, per path
    MaxFrames     \* bound: frames that are not deallocated

NoLib == "none"
Calls == {"dlopen", "create", "initialize", "session", "stream", "opus"}

ASSUME MediaAssumption ==
    /\ Paths # {} /\ NoLib \notin Paths
    /\ Failures \subseteq Calls
    /\ MaxTests \in Nat /\ MaxLoads \in Nat /\ MaxFrames \in Nat

Sides == {"encoder", "decoder"}
Parts == {"video", "audio"}

(* The globals of each side. *)
Video(side) == IF side = "encoder" THEN "videoEncoder" ELSE "videoDecoder"
VideoStrm(side) == IF side = "encoder" THEN "sendVideoStrm" ELSE "receiveVideoStrm"
Audio(side) == IF side = "encoder" THEN "audioEncoder" ELSE "audioDecoder"
AudioStrm(side) == IF side = "encoder" THEN "sendAudioStrm" ELSE "receiveAudioStrm"
Own(side) == {Video(side), VideoStrm(side), Audio(side), AudioStrm(side)}
Pointers == Own("encoder") \cup Own("decoder")

(* inputVideoFormat: 0 and 1. *)
Formats == {"yuv", "rgb"}

(* What the code takes for granted: that no call it makes fails, that a    *)
(* side is brought up once, and completely, before it is used or taken     *)
(* down, and that pictures are RGB.                                        *)
Causes == {"failure", "order", "yuv"}

VARIABLES
    libraryPath,
    handle,       \* what the last dlopen() returned
    refs,         \* how often each library is loaded
    ptr,          \* what each pointer points to
    lib,          \* the library whose code each side's video codec runs
    inputVideoFormat,
    frames,       \* frames pulled and not deallocated
    pc,           \* where each side is in its functions
    up,           \* the parts each side has been asked to bring up
    tests,        \* how often test() has loaded the library
    causes,       \* what the code takes for granted and was not so
    fault         \* a pointer that was not live has been used

vars == <<libraryPath, handle, refs, ptr, lib, inputVideoFormat, frames, pc, up, tests, causes, fault>>

Init ==
    /\ libraryPath = NoLib /\ handle = NoLib
    /\ refs = [p \in Paths |-> 0]
    /\ ptr = [x \in Pointers |-> "null"]
    /\ lib = [s \in Sides |-> NoLib]
    /\ inputVideoFormat = "yuv"
    /\ frames = 0
    /\ pc = [s \in Sides |-> "idle"]
    /\ up = [s \in Sides |-> {}]
    /\ tests = 0 /\ causes = {} /\ fault = FALSE

At(side, l) == ~fault /\ pc[side] = l
Goto(side, l) == pc' = [pc EXCEPT ![side] = l]
Asked(side, part) == up' = [up EXCEPT ![side] = @ \cup {part}]
Live(x) == ptr[x] = "live"
Loaded == handle # NoLib /\ refs[handle] > 0

(* Whether a call is in order: a part is brought up once, and what a       *)
(* function needs has been brought up.                                     *)
Once(side, part) == IF part \in up[side] THEN {"order"} ELSE {}
After(side, parts) == IF parts \subseteq up[side] THEN {} ELSE {"order"}

Succeeds(order) == causes' = causes \cup order
Fails(call, order) == call \in Failures /\ causes' = causes \cup order \cup {"failure"}
Crash == fault' = TRUE /\ UNCHANGED <<libraryPath, handle, refs, ptr, lib, inputVideoFormat, frames, pc, up, tests>>

(* initEncodeVideoData returns -1 when it fails, and the application knows *)
(* that it is not up; initDecodeVideoData returns nothing.                 *)
InitFailed(side) ==
    /\ Goto(side, "idle")
    /\ IF side = "encoder" THEN UNCHANGED up ELSE Asked(side, "video")

SetLibraryPath(p) ==
    /\ ~fault
    /\ libraryPath' = p
    /\ UNCHANGED <<handle, refs, ptr, lib, inputVideoFormat, frames, pc, up, tests, causes, fault>>

-----------------------------------------------------------------------------
(* initEncodeVideoData() and initDecodeVideoData().                        *)

(* dlopen() overwrites handle, with null when it fails.  The application   *)
(* has set a path before.                                                  *)
LoadLibrary(side) ==
    /\ At(side, "idle")
    /\ libraryPath # NoLib
    /\ \/ /\ refs[libraryPath] < MaxLoads /\ Succeeds(Once(side, "video"))
          /\ handle' = libraryPath
          /\ refs' = [refs EXCEPT ![libraryPath] = @ + 1]
          /\ Goto(side, "create")
          /\ UNCHANGED up
       \/ /\ Fails("dlopen", Once(side, "video"))
          /\ handle' = NoLib
          /\ InitFailed(side)
          /\ UNCHANGED refs
    /\ UNCHANGED <<libraryPath, ptr, lib, inputVideoFormat, frames, tests, fault>>

(* The constructor comes from whatever handle names by now; once there is  *)
(* an encoder, the function stores its argument in inputVideoFormat.       *)
CreateCodec(side) ==
    /\ At(side, "create")
    /\ \/ ~Loaded /\ Succeeds({}) /\ Crash
       \/ /\ Loaded /\ Succeeds({})
          /\ ptr' = [ptr EXCEPT ![Video(side)] = "live"]
          /\ lib' = [lib EXCEPT ![side] = handle]
          /\ inputVideoFormat' \in IF side = "encoder" THEN Formats ELSE {inputVideoFormat}
          /\ Goto(side, "initialize")
          /\ UNCHANGED <<libraryPath, handle, refs, frames, up, tests, fault>>
       \/ /\ Loaded /\ Fails("create", {})
          /\ ptr' = [ptr EXCEPT ![Video(side)] = "null"]
          /\ InitFailed(side)
          /\ UNCHANGED <<libraryPath, handle, refs, lib, inputVideoFormat, frames, tests, fault>>

(* Initialize() and the RTP session with its stream.  A session that could *)
(* not be created is null and used at once; so is the stream of the        *)
(* encoder's side, which configures it before it looks.                    *)
InitializeCodec(side) ==
    /\ At(side, "initialize")
    /\ \/ /\ Succeeds({})
          /\ ptr' = [ptr EXCEPT ![VideoStrm(side)] = "live"]
          /\ Goto(side, "idle") /\ Asked(side, "video")
          /\ UNCHANGED fault
       \/ /\ Fails("initialize", {})
          /\ InitFailed(side)
          /\ UNCHANGED <<ptr, fault>>
       \/ /\ Fails("session", {}) \/ (side = "encoder" /\ Fails("stream", {}))
          /\ fault' = TRUE
          /\ UNCHANGED <<ptr, pc, up>>
       \/ /\ Fails("stream", {}) /\ side = "decoder"
          /\ ptr' = [ptr EXCEPT ![VideoStrm(side)] = "null"]
          /\ Goto(side, "idle") /\ Asked(side, "video")
          /\ UNCHANGED fault
    /\ UNCHANGED <<libraryPath, handle, refs, lib, inputVideoFormat, frames, tests>>

(* Mutant: keeps the codec of an earlier round, which destroy has freed. *)
InitAudioMutant(side) ==
    /\ At(side, "idle") /\ Succeeds(Once(side, "audio"))
    /\ ptr' = [ptr EXCEPT ![Audio(side)] = IF @ = "null" THEN "live" ELSE @,
                          ![AudioStrm(side)] = "live"]
    /\ Asked(side, "audio")
    /\ UNCHANGED <<libraryPath, handle, refs, lib, inputVideoFormat, frames, pc, tests, fault>>

(* initEncodeAudioData() and initDecodeAudioData(). *)
InitAudio(side) ==
    LET once == Once(side, "audio")
    IN  /\ At(side, "idle")
        /\ \/ /\ Succeeds(once)
              /\ ptr' = [ptr EXCEPT ![Audio(side)] = "live", ![AudioStrm(side)] = "live"]
              /\ Asked(side, "audio")
              /\ UNCHANGED fault
           \/ /\ Fails("opus", once)
              /\ ptr' = [ptr EXCEPT ![Audio(side)] = "null"]
              /\ Asked(side, "audio")
              /\ UNCHANGED fault
           \/ /\ Fails("session", once) \/ (side = "encoder" /\ Fails("stream", once))
              /\ fault' = TRUE
              /\ UNCHANGED <<ptr, up>>
           \/ /\ Fails("stream", once) /\ side = "decoder"
              /\ ptr' = [ptr EXCEPT ![Audio(side)] = "live", ![AudioStrm(side)] = "null"]
              /\ Asked(side, "audio")
              /\ UNCHANGED fault
        /\ UNCHANGED <<libraryPath, handle, refs, lib, inputVideoFormat, frames, pc, tests>>

-----------------------------------------------------------------------------
(* Using the codecs.                                                       *)

(* encodeVideoData() hands the codec the picture it has converted, which   *)
(* is null unless inputVideoFormat is 1.                                   *)
EncodeVideo ==
    /\ At("encoder", "idle")
    /\ \/ /\ inputVideoFormat = "yuv"
          /\ Succeeds(After("encoder", {"video"}) \cup {"yuv"})
          /\ Crash
       \/ /\ inputVideoFormat = "rgb"
          /\ Succeeds(After("encoder", {"video"}))
          /\ \/ ~(Live("videoEncoder") /\ Live("sendVideoStrm")) /\ Crash
             \/ /\ Live("videoEncoder") /\ Live("sendVideoStrm")
                /\ UNCHANGED <<libraryPath, handle, refs, ptr, lib, inputVideoFormat, frames, pc, up, tests, fault>>

EncodeAudio ==
    /\ At("encoder", "idle")
    /\ Succeeds(After("encoder", {"audio"}))
    /\ \/ ~(Live("audioEncoder") /\ Live("sendAudioStrm")) /\ Crash
       \/ /\ Live("audioEncoder") /\ Live("sendAudioStrm")
          /\ UNCHANGED <<libraryPath, handle, refs, ptr, lib, inputVideoFormat, frames, pc, up, tests, fault>>

(* receiveAndDecodeVideoData(): the frame is deallocated only if it was    *)
(* decoded.  pull_frame() may also time out, which changes nothing.        *)
ReceiveVideo ==
    /\ At("decoder", "idle")
    /\ Succeeds(After("decoder", {"video"}))
    /\ \/ /\ ~(Live("receiveVideoStrm") /\ Live("videoDecoder"))
          /\ Crash
       \/ /\ Live("receiveVideoStrm") /\ Live("videoDecoder")
          /\ frames < MaxFrames
          /\ frames' \in {frames, frames + 1}
          /\ UNCHANGED <<libraryPath, handle, refs, ptr, lib, inputVideoFormat, pc, up, tests, fault>>

(* receiveAndDecodeAudioData() never deallocates the frame. *)
ReceiveAudio ==
    /\ At("decoder", "idle")
    /\ Succeeds(After("decoder", {"audio"}))
    /\ \/ /\ ~(Live("receiveAudioStrm") /\ Live("audioDecoder"))
          /\ Crash
       \/ /\ Live("receiveAudioStrm") /\ Live("audioDecoder")
          /\ frames < MaxFrames
          /\ frames' = frames + 1
          /\ UNCHANGED <<libraryPath, handle, refs, ptr, lib, inputVideoFormat, pc, up, tests, fault>>

-----------------------------------------------------------------------------
(* destroyEncoder() and destroyDecoder().                                  *)

(* destroyDecoder() destroys its streams first; it skips those that are    *)
(* null and does not reset the pointers.                                   *)
DestroyStreams ==
    LET strms == {VideoStrm("decoder"), AudioStrm("decoder")}
    IN  /\ At("decoder", "idle")
        /\ Succeeds(After("decoder", Parts))
        /\ \/ /\ \E x \in strms : ptr[x] = "freed"
              /\ Crash
           \/ /\ \A x \in strms : ptr[x] # "freed"
              /\ ptr' = [x \in Pointers |-> IF x \in strms /\ Live(x) THEN "freed" ELSE ptr[x]]
              /\ Goto("decoder", "destroy")
              /\ UNCHANGED <<libraryPath, handle, refs, lib, inputVideoFormat, frames, up, tests, fault>>

(* destroyEncoder() begins with the codec. *)
Destroys(side) ==
    IF side = "encoder" THEN At(side, "idle") /\ Succeeds(After(side, Parts))
                        ELSE At(side, "destroy") /\ Succeeds({})

(* Mutant: the library is closed before the codec is destroyed. *)
DestroyCodecMutant(side) ==
    /\ Destroys(side)
    /\ Live(Video(side)) /\ handle # NoLib
    /\ refs' = [refs EXCEPT ![handle] = IF @ = 0 THEN 0 ELSE @ - 1]
    /\ Goto(side, "unload")
    /\ UNCHANGED <<libraryPath, handle, ptr, lib, inputVideoFormat, frames, up, tests, fault>>

(* Uninitialize(), and the destructor found through handle. *)
DestroyCodec(side) ==
    /\ Destroys(side)
    /\ \/ /\ ~Live(Video(side)) \/ ~Loaded
          /\ Crash
       \/ /\ Live(Video(side)) /\ Loaded
          /\ ptr' = [ptr EXCEPT ![Video(side)] = "freed"]
          /\ Goto(side, "unload")
          /\ UNCHANGED <<libraryPath, handle, refs, lib, inputVideoFormat, frames, up, tests, fault>>

Rest(side) == Own(side) \ {Video(side)}

(* The end of the function: what is live is freed, and the side is down. *)
FreeRest(side) ==
    /\ ptr' = [x \in Pointers |-> IF x \in Rest(side) /\ Live(x) THEN "freed" ELSE ptr[x]]
    /\ Goto(side, "idle") /\ up' = [up EXCEPT ![side] = {}]
    /\ UNCHANGED <<libraryPath, handle, lib, inputVideoFormat, frames, tests, causes, fault>>

(* Mutant: the rest of the cleanup does not close the library. *)
UnloadMutant(side) ==
    /\ At(side, "unload")
    /\ FreeRest(side)
    /\ UNCHANGED refs

(* Mutant: the library is closed by the destructor too. *)
UnloadTwice(side) ==
    /\ At(side, "unload")
    /\ handle # NoLib /\ refs' = [refs EXCEPT ![handle] = @ - 2]
    /\ FreeRest(side)

(* dlclose(handle), then what is left: the encoder's streams, which are    *)
(* not tested for null, and the Opus codec, which may be null.  dlclose()  *)
(* of what is not loaded ends the program or does nothing.                 *)
Unload(side) ==
    /\ At(side, "unload")
    /\ \/ /\ \/ ~Loaded
             \/ ptr[Audio(side)] = "freed"
             \/ side = "encoder" /\ \E x \in Rest(side) \ {Audio(side)} : ~Live(x)
          /\ Succeeds({}) /\ Crash
       \/ /\ ptr[Audio(side)] # "freed"
          /\ side = "encoder" => \A x \in Rest(side) \ {Audio(side)} : Live(x)
          /\ refs' = [p \in Paths |-> IF p = handle /\ refs[p] > 0 THEN refs[p] - 1 ELSE refs[p]]
          /\ FreeRest(side)

-----------------------------------------------------------------------------
(* test() loads the library once more and creates both decoders, and keeps *)
(* all of it.  The decoder's thread calls it, in order while it is down.   *)

TestLoad ==
    LET order == IF up["decoder"] = {} THEN {} ELSE {"order"}
    IN  /\ At("decoder", "idle")
        /\ libraryPath # NoLib /\ tests < MaxTests
        /\ \/ /\ Fails("dlopen", order)
              /\ handle' = NoLib
              /\ UNCHANGED <<refs, tests, pc>>
           \/ /\ refs[libraryPath] < MaxLoads /\ Succeeds(order)
              /\ handle' = libraryPath
              /\ refs' = [refs EXCEPT ![libraryPath] = @ + 1]
              /\ tests' = tests + 1
              /\ Goto("decoder", "test")
        /\ UNCHANGED <<libraryPath, ptr, lib, inputVideoFormat, frames, up, fault>>

(* Like the init functions, it takes the constructor from what handle      *)
(* names by now.                                                           *)
TestCreate ==
    /\ At("decoder", "test")
    /\ \/ ~Loaded /\ Succeeds({}) /\ Crash
       \/ /\ Loaded
          /\ \/ /\ Fails("create", {})
                /\ ptr' = [ptr EXCEPT !["videoDecoder"] = "null"]
                /\ UNCHANGED lib
             \/ /\ \/ Succeeds({}) /\ ptr' = [ptr EXCEPT !["videoDecoder"] = "live", !["audioDecoder"] = "live"]
                   \/ Fails("initialize", {}) /\ ptr' = [ptr EXCEPT !["videoDecoder"] = "live"]
                   \/ Fails("opus", {}) /\ ptr' = [ptr EXCEPT !["videoDecoder"] = "live", !["audioDecoder"] = "null"]
                /\ lib' = [lib EXCEPT !["decoder"] = handle]
          /\ Goto("decoder", "idle")
          /\ UNCHANGED <<libraryPath, handle, refs, inputVideoFormat, frames, up, tests, fault>>

-----------------------------------------------------------------------------

Side(side) ==
    \/ LoadLibrary(side) \/ CreateCodec(side) \/ InitializeCodec(side)
    \/ InitAudio(side)
    \/ DestroyCodec(side) \/ Unload(side)

Next ==
    \/ \E p \in Paths : SetLibraryPath(p)
    \/ \E side \in Sides : Side(side)
    \/ EncodeVideo \/ EncodeAudio
    \/ ReceiveVideo \/ ReceiveAudio
    \/ DestroyStreams
    \/ TestLoad \/ TestCreate

Spec == Init /\ [][Next]_vars

-----------------------------------------------------------------------------
(* Type correctness. *)
TypeOK ==
    /\ libraryPath \in Paths \cup {NoLib} /\ handle \in Paths \cup {NoLib}
    /\ refs \in [Paths -> 0 .. MaxLoads]
    /\ ptr \in [Pointers -> {"null", "live", "freed"}]
    /\ lib \in [Sides -> Paths \cup {NoLib}]
    /\ inputVideoFormat \in Formats
    /\ frames \in 0 .. MaxFrames
    /\ pc \in [Sides -> {"idle", "create", "initialize", "destroy", "unload", "test"}]
    /\ up \in [Sides -> SUBSET Parts]
    /\ tests \in 0 .. MaxTests /\ causes \subseteq Causes /\ fault \in BOOLEAN

(* The code of a live video codec is loaded: with one library path, no     *)
(* interleaving of the two sides' init and destroy functions, which share  *)
(* handle, in whatever order they are called, and no failing call unloads  *)
(* the library under a codec that is still in use.  With one path the      *)
(* handle can only name that library or none.                              *)
LiveCodecHasItsLibrary ==
    \A side \in Sides : Live(Video(side)) => refs[lib[side]] > 0

(* With one path, when both sides are down, what test() loaded is loaded   *)
(* and nothing else, while no call failed or was out of order: the         *)
(* dlclose() calls of destroyEncoder and destroyDecoder balance the        *)
(* dlopen() calls of the init functions, although all go through the       *)
(* shared handle.  A failed init does leave a load behind.                 *)
QuiescentIsUnloaded ==
    (causes = {} /\ \A side \in Sides : pc[side] = "idle" /\ up[side] = {})
        => \A p \in Paths : refs[p] = tests

(* While no call fails, pictures are RGB, and each side is brought up once *)
(* and completely, video and audio, before it is used or taken down, no    *)
(* pointer is used that is not live, in whatever order and interleaving    *)
(* the two sides are brought up, used, taken down and brought up again,    *)
(* although the destroy functions reset none.  Each exception is needed:   *)
(* destroyEncoder() of a side that sends video only uses the audio's null  *)
(* session; encodeVideoData() hands the codec a null picture for format 0; *)
(* and functions that return nothing, or configure a stream before they    *)
(* look at it, do not survive a failing call.                              *)
NoFault == fault => causes # {}
=============================================================================
