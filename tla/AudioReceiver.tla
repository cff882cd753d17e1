---------------------------- MODULE AudioReceiver ----------------------------
(***************************************************************************)
(* The playing programs, testReceiver.cpp and testDecoder.cpp (audio       *)
(* only): a thread pulls frames from the stream, without a timeout,        *)
(* decodes them and queues them under a mutex; the audio device calls      *)
(* playbackCallback(), which plays one, or silence.  The main thread of    *)
(* testReceiver shows the video and looks for a key after each video       *)
(* frame, that of testDecoder waits for Enter; both set stopSignal and     *)
(* join the audio thread.                                                  *)
(***************************************************************************)
EXTENDS Naturals, Sequences

CONSTANTS
    MaxFrames        \* bound: audio frames the network delivers before it is silent

ASSUME ReceiverAssumption == MaxFrames \in Nat

VARIABLES
    program,         \* testReceiver or testDecoder
    arrived,         \* audio frames that have come, which are numbered 1, 2, ...
    pulled,          \* the last one that was pulled
    queued,          \* the frames that could be decoded
    playbackQueue,
    played,          \* what playbackCallback() has copied to the device
    playing,         \* the device calls playbackCallback()
    stopSignal,
    apc,             \* where the audio thread is
    mpc,             \* where main() is
    key,             \* the user has asked to stop
    atStop           \* frames queued before stopSignal was set

vars == <<program, arrived, pulled, queued, playbackQueue, played, playing, stopSignal, apc, mpc, key, atStop>>
audioVars == <<pulled, queued, apc>>
mainVars == <<program, stopSignal, mpc, key, atStop>>

Init ==
    /\ program \in {"testReceiver", "testDecoder"}
    /\ arrived = 0 /\ pulled = 0 /\ queued = <<>>
    /\ playbackQueue = <<>> /\ played = <<>> /\ playing = TRUE
    /\ stopSignal = FALSE /\ apc = "test" /\ mpc = "loop" /\ key = FALSE /\ atStop = 0

(* The reception flow hands a frame to the stream. *)
Arrive ==
    /\ arrived < MaxFrames
    /\ arrived' = arrived + 1
    /\ UNCHANGED <<audioVars, playbackQueue, played, playing, mainVars>>

(* Mutant: the front stays in the queue. *)
PlayKeeps ==
    /\ playing
    /\ playbackQueue # <<>>
    /\ played' = Append(played, Head(playbackQueue))
    /\ UNCHANGED <<arrived, audioVars, playbackQueue, playing, mainVars>>

(* playbackCallback(); with an empty queue it plays silence. *)
Play ==
    /\ playing
    /\ playbackQueue # <<>>
    /\ played' = Append(played, Head(playbackQueue))
    /\ playbackQueue' = Tail(playbackQueue)
    /\ UNCHANGED <<arrived, audioVars, playing, mainVars>>

-----------------------------------------------------------------------------
(* receiveAndPlayAudio().                                                  *)

(* Mutant: the loop does not look at stopSignal. *)
TestIgnoresStop ==
    /\ apc = "test"
    /\ apc' = "pull"
    /\ UNCHANGED <<arrived, pulled, queued, playbackQueue, played, playing, mainVars>>

Test ==
    /\ apc = "test"
    /\ apc' = IF stopSignal THEN "cleanup" ELSE "pull"
    /\ UNCHANGED <<arrived, pulled, queued, playbackQueue, played, playing, mainVars>>

(* pull_frame() returns the oldest frame, and waits until there is one. *)
Pull ==
    /\ apc = "pull" /\ pulled < arrived
    /\ pulled' = pulled + 1
    /\ apc' = "decode"
    /\ UNCHANGED <<arrived, queued, playbackQueue, played, playing, mainVars>>

(* Mutant: takes all frames there are before it looks at stopSignal. *)
DecodeDrains ==
    /\ apc = "decode"
    /\ queued' = Append(queued, pulled)
    /\ playbackQueue' = Append(playbackQueue, pulled)
    /\ apc' = IF pulled < arrived THEN "pull" ELSE "test"
    /\ UNCHANGED <<arrived, pulled, played, playing, mainVars>>

(* A frame that is empty or cannot be decoded is dropped; one that can is  *)
(* queued under the mutex.  `delete frame` ends the round.                 *)
Decode ==
    /\ apc = "decode"
    /\ \/ /\ queued' = Append(queued, pulled)
          /\ playbackQueue' = Append(playbackQueue, pulled)
       \/ UNCHANGED <<queued, playbackQueue>>
    /\ apc' = "test"
    /\ UNCHANGED <<arrived, pulled, played, playing, mainVars>>

(* The decoder, the stream and the session are destroyed.  destroy_stream() *)
(* stops the reception flow and joins its threads, which may never return, *)
(* as ReceptionFlow shows: there is no fairness for this step.             *)
Cleanup ==
    /\ apc = "cleanup"
    /\ apc' = "done"
    /\ UNCHANGED <<arrived, pulled, queued, playbackQueue, played, playing, mainVars>>

Audio == Test \/ Pull \/ Decode

-----------------------------------------------------------------------------
(* main().                                                                 *)

(* The user presses the key that stops the program. *)
PressKey ==
    /\ ~key
    /\ key' = TRUE
    /\ UNCHANGED <<program, arrived, audioVars, playbackQueue, played, playing, stopSignal, mpc, atStop>>

SetStop ==
    /\ key
    /\ stopSignal' = TRUE
    /\ atStop' = Len(queued)

(* testReceiver: the video loop.  Without a frame for a second it tests    *)
(* stopSignal again, and does not look for a key.                          *)
VideoFrame ==
    /\ program = "testReceiver" /\ mpc = "loop" /\ ~stopSignal
    /\ SetStop
    /\ UNCHANGED <<program, arrived, audioVars, playbackQueue, played, playing, mpc, key>>

LeaveVideo ==
    /\ program = "testReceiver" /\ mpc = "loop" /\ stopSignal
    /\ mpc' = "join"
    /\ UNCHANGED <<program, arrived, audioVars, playbackQueue, played, playing, stopSignal, key, atStop>>

(* testDecoder: cin.get(). *)
Enter ==
    /\ program = "testDecoder" /\ mpc = "loop"
    /\ SetStop
    /\ mpc' = "join"
    /\ UNCHANGED <<program, arrived, audioVars, playbackQueue, played, playing, key>>

(* join(), then Pa_StopStream() and the rest of the cleanup. *)
Join ==
    /\ mpc = "join" /\ apc = "done"
    /\ playing' = FALSE
    /\ mpc' = "finished"
    /\ UNCHANGED <<program, arrived, audioVars, playbackQueue, played, stopSignal, key, atStop>>

Main == LeaveVideo \/ Enter \/ Join

Next == Arrive \/ Play \/ Audio \/ Cleanup \/ PressKey \/ VideoFrame \/ Main

Spec == Init /\ [][Next]_vars

(* The threads are scheduled, the network delivers MaxFrames audio frames, *)
(* and video frames come: the key is seen.  The device need not call back, *)
(* nor the cleanup return, nor the program end.                            *)
FairSpec ==
    /\ Spec
    /\ WF_vars(Audio) /\ WF_vars(Main) /\ WF_vars(Arrive) /\ WF_vars(VideoFrame)

-----------------------------------------------------------------------------
(* Type correctness; what was played and what is queued to be played are   *)
(* the decoded frames, in their order.                                     *)
TypeOK ==
    /\ program \in {"testReceiver", "testDecoder"}
    /\ arrived \in 0 .. MaxFrames /\ pulled \in 0 .. arrived
    /\ played \o playbackQueue = queued
    /\ \A i, j \in 1 .. Len(queued) : i < j => queued[i] < queued[j]
    /\ playing \in BOOLEAN /\ stopSignal \in BOOLEAN /\ key \in BOOLEAN
    /\ apc \in {"test", "pull", "decode", "cleanup", "done"}
    /\ mpc \in {"loop", "join", "finished"}
    /\ atStop \in 0 .. Len(queued)

(* At most the frame the thread was waiting for is queued after stopSignal *)
(* was set, however many have arrived.                                     *)
OneFrameAfterStop == stopSignal => Len(queued) <= atStop + 1

(* A thread that waits in pull_frame() when stopSignal is set leaves its   *)
(* loop with the next frame.  That the thread and the program end is not   *)
(* said: destroying the stream may hang.                                   *)
StopWithNextFrame == (stopSignal /\ arrived < MaxFrames) ~> apc \in {"cleanup", "done"}
=============================================================================
