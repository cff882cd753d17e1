----------------------------- MODULE AudioSender -----------------------------
(***************************************************************************)
(* The recording programs, testSender.cpp and testEncoder.cpp, which has   *)
(* no video: the audio device calls recordCallback(), which queues samples *)
(* under a mutex and notifies a condition variable; a thread takes them,   *)
(* encodes and sends them; main() waits for Enter, sets stopSignal, which  *)
(* no mutex protects, notifies, and joins.  testSender has a video thread, *)
(* which never looks at stopSignal, and joins the audio thread twice.      *)
(***************************************************************************)
EXTENDS Naturals, Sequences

CONSTANTS
    MaxSamples       \* bound: buffers the device delivers before it stalls

ASSUME SenderAssumption == MaxSamples \in Nat

VARIABLES
    program,         \* which of the two it is
    recording,       \* the device calls recordCallback()
    recorded,        \* buffers delivered so far, which are numbered 1, 2, ...
    sampleQueue,
    sent,            \* the buffers that were encoded and pushed to the stream
    stopSignal,
    notified,        \* the notification the waiting thread has not seen yet
    apc,             \* where the audio thread is
    vpc,             \* where the video thread is
    mpc,             \* where main() is
    atStop           \* buffers delivered before stopSignal was set

vars == <<program, recording, recorded, sampleQueue, sent, stopSignal, notified, apc, vpc, mpc, atStop>>

Init ==
    /\ program \in {"testSender", "testEncoder"}
    /\ recording = TRUE /\ recorded = 0 /\ sampleQueue = <<>> /\ sent = <<>>
    /\ stopSignal = FALSE /\ notified = FALSE
    /\ apc = "lock" /\ vpc = (IF program = "testSender" THEN "run" ELSE "done") /\ mpc = "enter"
    /\ atStop = 0

(* The audio thread holds queueMutex from before it tests the predicate    *)
(* until it has taken a buffer, waits, or ends.                            *)
Locked == apc \in {"test", "block"}

(* A notification reaches the thread only if it waits. *)
Notify == notified' = (notified \/ apc = "wait")

(* Mutant: the buffer is queued without the mutex. *)
RecordUnlocked ==
    /\ recording /\ recorded < MaxSamples
    /\ recorded' = recorded + 1
    /\ sampleQueue' = Append(sampleQueue, recorded')
    /\ Notify
    /\ UNCHANGED <<program, recording, sent, stopSignal, apc, vpc, mpc, atStop>>

(* recordCallback(); it ignores the calls without an input buffer. *)
Record ==
    /\ recording /\ recorded < MaxSamples
    /\ ~Locked
    /\ recorded' = recorded + 1
    /\ sampleQueue' = Append(sampleQueue, recorded')
    /\ Notify
    /\ UNCHANGED <<program, recording, sent, stopSignal, apc, vpc, mpc, atStop>>

-----------------------------------------------------------------------------
(* sendAudio().                                                            *)

Lock ==
    /\ apc = "lock"
    /\ apc' = "test"
    /\ UNCHANGED <<program, recording, recorded, sampleQueue, sent, stopSignal, notified, vpc, mpc, atStop>>

(* Mutant: stopSignal ends the loop whatever is queued. *)
TestStopsAtOnce ==
    /\ apc = "test"
    /\ apc' = IF stopSignal THEN "cleanup" ELSE IF sampleQueue # <<>> THEN "encode" ELSE "block"
    /\ UNCHANGED <<program, recording, recorded, sampleQueue, sent, stopSignal, notified, vpc, mpc, atStop>>

(* Mutant: the thread stops to wait only when it has something to send. *)
TestNeedsBoth ==
    /\ apc = "test"
    /\ apc' = IF sampleQueue # <<>> THEN "encode" ELSE "block"
    /\ UNCHANGED <<program, recording, recorded, sampleQueue, sent, stopSignal, notified, vpc, mpc, atStop>>

(* The predicate of wait() and, when it holds, the test after it: the      *)
(* queue cannot change under the mutex, and stopSignal is never reset.     *)
Test ==
    /\ apc = "test"
    /\ apc' = IF sampleQueue # <<>> THEN "encode" ELSE IF stopSignal THEN "cleanup" ELSE "block"
    /\ UNCHANGED <<program, recording, recorded, sampleQueue, sent, stopSignal, notified, vpc, mpc, atStop>>

(* wait() releases the mutex and starts to wait in one step. *)
Block ==
    /\ apc = "block"
    /\ apc' = "wait"
    /\ notified' = FALSE
    /\ UNCHANGED <<program, recording, recorded, sampleQueue, sent, stopSignal, vpc, mpc, atStop>>

Wake ==
    /\ apc = "wait" /\ notified
    /\ apc' = "test"
    /\ notified' = FALSE
    /\ UNCHANGED <<program, recording, recorded, sampleQueue, sent, stopSignal, vpc, mpc, atStop>>

(* A condition variable may wake a thread that was not notified. *)
SpuriousWake ==
    /\ apc = "wait"
    /\ apc' = "test"
    /\ UNCHANGED <<program, recording, recorded, sampleQueue, sent, stopSignal, notified, vpc, mpc, atStop>>

(* Mutant: the front of the queue is sent and not removed. *)
EncodeKeeps ==
    /\ apc = "encode"
    /\ sent' = Append(sent, Head(sampleQueue))
    /\ apc' = "lock"
    /\ UNCHANGED <<program, recording, recorded, sampleQueue, stopSignal, notified, vpc, mpc, atStop>>

(* Pop the front, unlock, opus_encode() and push_frame(), whose results    *)
(* are not looked at.  Nothing else takes from the queue, so the pop and   *)
(* the send are one step.                                                  *)
Encode ==
    /\ apc = "encode"
    /\ sent' = Append(sent, Head(sampleQueue))
    /\ sampleQueue' = Tail(sampleQueue)
    /\ apc' = "lock"
    /\ UNCHANGED <<program, recording, recorded, stopSignal, notified, vpc, mpc, atStop>>

(* The encoder, the stream and the session are destroyed.  destroy_stream() *)
(* stops the reception flow of a stream that only sends too, and joins its *)
(* threads, which may never return, as ReceptionFlow shows: there is no    *)
(* fairness for this step.                                                 *)
Cleanup ==
    /\ apc = "cleanup"
    /\ apc' = "done"
    /\ UNCHANGED <<program, recording, recorded, sampleQueue, sent, stopSignal, notified, vpc, mpc, atStop>>

Audio == Lock \/ Test \/ Block \/ Wake \/ Encode

(* sendVideo() ends when the camera or the encoder cannot be set up or the *)
(* camera delivers an empty frame, and for no other reason.                *)
VideoEnds ==
    /\ vpc = "run"
    /\ vpc' = "done"
    /\ UNCHANGED <<program, recording, recorded, sampleQueue, sent, stopSignal, notified, apc, mpc, atStop>>

-----------------------------------------------------------------------------
(* main().                                                                 *)

Enter ==
    /\ mpc = "enter"
    /\ stopSignal' = TRUE
    /\ atStop' = recorded
    /\ mpc' = "notify"
    /\ UNCHANGED <<program, recording, recorded, sampleQueue, sent, notified, apc, vpc>>

NotifyStop ==
    /\ mpc = "notify"
    /\ Notify
    /\ mpc' = "join"
    /\ UNCHANGED <<program, recording, recorded, sampleQueue, sent, stopSignal, apc, vpc, atStop>>

JoinAudio ==
    /\ mpc = "join" /\ apc = "done"
    /\ mpc' = "stop"
    /\ UNCHANGED <<program, recording, recorded, sampleQueue, sent, stopSignal, notified, apc, vpc, atStop>>

(* Pa_StopStream() returns when no callback runs any more. *)
StopStream ==
    /\ mpc = "stop"
    /\ recording' = FALSE
    /\ mpc' = IF program = "testSender" THEN "joinVideo" ELSE "finished"
    /\ UNCHANGED <<program, recorded, sampleQueue, sent, stopSignal, notified, apc, vpc, atStop>>

JoinVideo ==
    /\ mpc = "joinVideo" /\ vpc = "done"
    /\ mpc' = "joinAgain"
    /\ UNCHANGED <<program, recording, recorded, sampleQueue, sent, stopSignal, notified, apc, vpc, atStop>>

(* The second audioThread.join(): the thread is not joinable any more, and *)
(* std::system_error, which nothing catches, terminates the program.       *)
JoinAgain ==
    /\ mpc = "joinAgain"
    /\ mpc' = "terminated"
    /\ UNCHANGED <<program, recording, recorded, sampleQueue, sent, stopSignal, notified, apc, vpc, atStop>>

Main == NotifyStop \/ JoinAudio \/ StopStream \/ JoinVideo \/ JoinAgain

Next == Record \/ Audio \/ Cleanup \/ SpuriousWake \/ VideoEnds \/ Enter \/ Main

Spec == Init /\ [][Next]_vars

(* The threads are scheduled, and the device delivers its buffers.  Nobody *)
(* needs to press Enter, the camera need not fail, no thread is woken      *)
(* without a reason, and the cleanup need not return.                      *)
FairSpec == Spec /\ WF_vars(Audio) /\ WF_vars(Main) /\ WF_vars(Record)

-----------------------------------------------------------------------------
(* Type correctness; what was sent and what is queued is what was recorded,*)
(* in its order.                                                           *)
TypeOK ==
    /\ program \in {"testSender", "testEncoder"}
    /\ recording \in BOOLEAN /\ recorded \in 0 .. MaxSamples
    /\ sent \o sampleQueue = [i \in 1 .. recorded |-> i]
    /\ stopSignal \in BOOLEAN /\ notified \in BOOLEAN
    /\ apc \in {"lock", "test", "block", "wait", "encode", "cleanup", "done"}
    /\ vpc \in {"run", "done"}
    /\ mpc \in {"enter", "notify", "join", "stop", "joinVideo", "joinAgain", "terminated", "finished"}
    /\ atStop \in 0 .. recorded

(* The audio thread does not end before it has sent all that was recorded  *)
(* when Enter was pressed.                                                 *)
DrainedBeforeExit == apc \in {"cleanup", "done"} => Len(sent) >= atStop

(* No wakeup for a buffer is lost: whatever is recorded is sent, unless    *)
(* the thread has left its loop.                                           *)
EveryBufferIsSent ==
    \A n \in 1 .. MaxSamples : recorded >= n ~> (Len(sent) >= n \/ apc \in {"cleanup", "done"})

(* The lost wakeup of stopSignal is repaired by the next buffer: if the    *)
(* device still delivers one, Enter ends the audio thread's loop.  That    *)
(* the thread ends is not said: destroying the stream may hang.            *)
StopWithNextBuffer == (stopSignal /\ recorded < MaxSamples) ~> apc \in {"cleanup", "done"}

=============================================================================
