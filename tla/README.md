# Specifications of connect-udp-library

TLA+ models of the code under `src/`, the TLC configurations that check them on
small instances, and TLAPS proofs of what holds for every value of their
constants.  `PROJECT.json` lists the components, the runs, a mutant of the code
for each property, the source lines each definition models, the hazards and the
theorems.

    tlc -config ReceptionFlow_pipe.cfg MCReceptionFlow     # one run
    tlapm ReceptionFlow_proofs.tla                         # one module's proofs

## 1. The system

connect-udp-library is a plugin that a game engine loads to exchange messages,
video and audio between two devices.  Its own code is small; it stands on
uvgRTP, vendored in `src/library/uvgRTP` (`src/uvgRTP` is the same copy), and on
openh264, Opus and PortAudio, which are used as binaries.

| part | source | state it keeps | operations |
|---|---|---|---|
| UDP plugin | `lib.cpp` | global `sockfd`, `servaddr`, `buffer`, callbacks | `setCallback`, `sendUDPMessage`, `preReceiveUDPMessage`, `receiveUDPMessage`, `socketClose` |
| Media library, resources | `library/mediaLibrary.cpp` | library path and `handle`, two codecs, two Opus codecs, two sessions and four streams, all globals | init, use and destroy functions of the encoder and the decoder side, `test` |
| Media library, handshake | `library/mediaLibrary.cpp:113-233` | globals `server_fd`, `new_socket` | `initializeTcpSender`, `initializeTcpReceiver`, `closeTcpSocket` |
| Recording programs | `testSender.cpp`, `testEncoder.cpp` | `sampleQueue`, `queueMutex`, `conditionVariable`, `stopSignal` | device callback, audio thread, video thread, `main` |
| Playing programs | `testReceiver.cpp`, `testDecoder.cpp` | `playbackQueue`, `queueMutex`, `stopSignal` | device callback, audio thread, `main` |
| uvgRTP reception flow | `reception_flow.cc` | ring buffer and its two indices, frame list, flags | `start`, `stop`, receiver thread, processor thread, `pull_frame` |
| uvgRTP H.264 | `formats/h26x.cc`, `formats/h264.cc`, `frame_queue.cc`, sequence numbers of `rtp.cc` | the sender's sequence number; the receiver's incomplete frames per timestamp, fragments per sequence number, completed and dropped timestamps | fragmentation, sending, reassembly, garbage collection |
| uvgRTP sessions, streams, sockets | `session.cc`, `media_stream.cc`, `socketfactory.cc`, handler tables of `reception_flow.cc` | tables of ports, sockets and flows; handlers and hooks per SSRC | create, configure, destroy, dispatch, `pull_frame` by SSRC |
| uvgRTP RTCP, SRTP, ZRTP | `rtcp.cc`, `srtp/`, `zrtp/` | not enabled by this program | |
| jrtplib programs | `testSenderJrtp.cpp`, `testReceiverJrtp.cpp` | as the recording and playing programs | |

How they interact.  The engine's threads call the UDP plugin and, with no lock
anywhere, each side of the media library; the plugin calls back into the engine.
Before media is sent the two applications meet over TCP.  Sending, the
recording thread hands buffers from the audio device's callback to a
`media_stream`.  Receiving, a datagram goes from the socket through the
reception flow's ring to a frame on its list; an application thread pulls the
frame, decodes it and hands it to the audio device's callback.

What is hard about it, component by component, and what makes it correct:

* **Reception flow.**  Two threads share a ring without a lock, a third stops
  and restarts them, others pull.  Right: each deliverable datagram becomes one
  frame, in order, taken by one puller; `stop()` leaves no thread and no frame,
  and releases who is blocked; a wakeup is not lost.
* **H.264.**  The network loses, repeats and reorders fragments, their numbers
  wrap and come round again, a sender fails in the middle or starts afresh with
  a random number that may still be in use, and the receiver decides by
  counting.  Right: only whole NAL units come out, each once, every one whose
  fragments arrive does, and what stays incomplete is collected, its fragments
  with it.
* **Sessions, streams and sockets.**  Streams with one port share a socket and a
  flow that is made for the first and stopped with the last; its tables are used
  without a lock by the processor while streams come and go.  Right: a live
  stream keeps its handlers in a running flow whatever the others do, the ones
  that are gone leave nothing behind, the table of ports says what the kernel
  says, a packet meets handlers that exist.
* **UDP plugin.**  Three kinds of threads share three globals and the process's
  descriptor numbers, which the kernel reuses.  Right: nobody closes another's
  descriptor, none is lost on a failing path, a started receiver stays usable,
  the callback is given what was received.
* **Media library.**  Two threads share the handle of the codec library; the
  functions of a side may be called in any order; any call may fail half way;
  nothing resets a pointer.  Right: code is not unloaded
  under a live codec, loads and unloads balance, no dead pointer is used.
* **Handshake.**  Either side is first, calls fail and are repeated, the kernel
  queues connections nobody has accepted, and the globals that `closeTcpSocket()`
  closes start as 0, a descriptor of somebody else.  Right: both sides finish every
  round, a sender goes ahead only after the receiver, a failure does not shut the
  receiver out.
* **Recording and playing programs.**  A real-time callback, a thread and
  `main` share a queue and a flag.  Right: every buffer goes through once and in
  order, what was recorded before the stop is sent, at most one frame is queued
  after it, the stop is seen.

## 2. Modules

| module | models | extends |
|---|---|---|
| `FramePipe` | abstract: what a reception flow promises | |
| `ReceptionFlow` | the reception flow; refines `FramePipe` | |
| `H26xFragments` | an H.264 stream from `push_media_frame` over the network to `packet_handler` | |
| `StreamMux` | the streams of a context, their shared sockets and flows, dispatch and pulls by SSRC | |
| `UdpLib` | `lib.cpp` with the process's descriptor table | |
| `MediaLibrary` | the life of the media library's resources | |
| `TcpHandshake` | the handshake's two ends and the kernel's backlog | |
| `AudioSender`, `AudioReceiver` | the recording and the playing programs | |
| `MC...` | the model values of each module's runs | the module |
| `..._proofs` | the theorems about a module | the module |

### How state and actions correspond to the code

A variable has the name of the C++ variable it stands for where there is one
(`ring_read_index_`, `should_stop_`, `sockfd`, `server_fd`, `stopSignal`).
`pc`-like variables say where a thread is.  One action is one piece of code that
other threads cannot see the middle of: a critical section, or the code between
two accesses to shared state.  The rest of this section says what each model
keeps and what it abstracts.

**ReceptionFlow.**  Datagrams are numbers in order of arrival, so that a frame can
record from which datagram its header and its payload were read: the RTP handler
parses the header in place and copies the payload later, and the slot can change in
between.  `recvfrom()` into a slot and the store of its length are two steps
(`ReceiverCopy`, `ReceiverPublish`).  `process_cond_.wait()` has no predicate and
the notifiers do not hold `wait_mtx_`, so testing, starting to wait and being woken
are steps of their own, and `NotifyProcessor` reaches only a thread that waits;
`SpuriousWakeup` is the one the C++ standard allows.  `start()` and `stop()` run
under `active_mutex_` and are serialised by `cpc`.  `poll()` and `recvfrom()` may
fail.  The handler and hook tables and the pulls by SSRC are in `StreamMux`.  Kept
out: `increase_buffer_size()`, whose only call is commented out
(`reception_flow.cc:458`).  The handlers are represented by `Ignored`, the datagrams
they make no frame of.

**H26xFragments.**  An access unit is its number, which stands for its
timestamp, and a packet is `<<f, i>>`, the `i`-th of access unit `f`; its kind,
type and contents follow from the definition of the packets.  The bytes of a
NAL unit are the sequence of its pieces, so that a merged frame can be compared
with what was cut.  `PushFrame` opens the transaction, `SendPacket` sends its
packets one by one, `SendFails` is a `sendto()` that fails between two of them.
The receiver's maps are its maps; `KeepFragment` is one call of
`packet_handler()` with the reconstruction and the garbage collection it may
end in.  The environment is told by constants: `Lag` says how long a packet may
still be under way, `FirstNumbers` what a starting sender may draw, `Restarts`
how often it starts again.  Nothing keeps the numbers of a sender that starts
again, or that wraps, from being those of packets still under way or fragments
still kept: `rtp.cc:24` draws at random.  `PushFrame` has no guard against it;
`clashed` remembers that it has happened (`Fresh`, `UnderWay`).  Most properties
are claimed until then, because afterwards the code does what they forbid; that
no fragment is left without a frame (`FragmentsRecorded`) and that closed frames
stay closed is claimed always.  A time unit of the model stands
for the garbage collection's interval.  Kept out: `find_h26x_start_code`, the
search for NAL units in the encoder's bytes; pacing; H.265 and H.266, which
this program does not use; `RCE_H26X_DEPENDENCY_ENFORCEMENT`, which is off.

**StreamMux.**  A socket of the factory and its flow are named by the stream they
were made for.  An SSRC is `<<s, "random">>`, what a new stream expects (`ssrc_ +
1`, which no sender has), or `<<s, "peer">>`, its sender's and what
`RCC_REMOTE_SSRC` sets.  `stage` says how far the creation, renaming or destruction
of a stream has come: one step per critical section, between which the processors
and the callers of `pull_frame()` run.  `bound` is the kernel's view of the ports,
`used_ports_` the factory's, and `refused` remembers whether a `bind()` has failed.
A packet is there when it is looked up: how it came through the ring is
`ReceptionFlow`'s subject.  The processor looks its handlers up without the mutex,
so each access to the table is a step: `size()` and `find()` (`LookUp`), then
`begin()` (`TakeFirst`) or `operator[]` (`TakeEntry`), which makes an empty entry
where the matching one has been erased.  Those entries are `strays`; one stays until
a call for that same SSRC uses or removes it, which after its stream has gone never
comes.  The processor holds the SSRC of the entry its pointer leads to, and `valid`
says whether that entry still is the same.  A hook is found and called in two steps
likewise.  `Serial` restricts the application to one call at a time apart from
`pull_frame()`, as this repository's programs call.  Use of freed or null memory
ends the model (`Crash`).  Kept out: multicast addresses; RTCP, SRTP and ZRTP; the
table of streams in `session`; the tearing of a map's nodes that one thread reads
while another changes them: each of `size()`, `find()`, `begin()` and `operator[]`
is one step, and so are the three tests of the table before the pointer is taken and
the hand-over of the frames one packet completes; the default branch of
`create_media`, which no format reaches.

**UdpLib.**  `fds` is the process's descriptor table with the kernel's rule of
the lowest free number; a socket outlives its descriptor while a thread blocks
in `recvfrom()` on it, as on Linux and Android.  Files of the rest of the
process come and go.  Every exported function is split at its system calls; the
global `sockfd` is read again at each, as the code does.  `len`, the last
argument of `recvfrom()`, is read uninitialised at `lib.cpp:118`: `RecvReturn`
chooses among storing the sender's address, not storing it, and failing after
the copy.  `callbacks` are the pointers that are not null: `debug_callback` and
`start_callback` are called unchecked, which ends the model where they are null
(`NullCall`), and the receive callback is tested (`RecvTest`) and called
(`RecvCallback`) in two steps, between which `setCallback` may change it.
`Polite` restricts the application to register the debug and start callbacks
before anything else, and keep some registered, and to pair
`preReceiveUDPMessage` with `socketClose`, which is how the repository's own use
reads.

**MediaLibrary.**  A pointer is null, live or freed, and a session counts with
its stream.  `refs` counts `dlopen()` per library.  The init functions are split
where the other side can change `handle`.  Every call that the code tests, or
does not test, can fail (`Failures`).  `test()` opens the library and
looks its functions up in two steps, since both sides share `handle`.  Each
side's functions are called by one thread, in any order: nothing in the code
asks whether a side has been brought up, brought up once, or only half.  What
the code takes for granted and was not so is in `causes`: a call has failed, a
function was called out of order (a side with video only counts), or the
picture format was left at 0, for which `encodeVideoData` hands the codec a null
picture.  A use of a null or freed pointer is `Crash`, after which the program
takes no step: that is why deadlock is not checked.

**TcpHandshake.**  `connect()` succeeds once the connection is in the backlog;
closing the listener resets what was never accepted; `read()` returns when there
is data or the connection is gone.  `server_fd` distinguishes a socket that
listens from one that `bind()` refused.  `server_fd` and `new_socket` start as 0
and `zero` is what that descriptor names.  As long as no connection has been
accepted, `closeTcpSocket()` closes it; then `socket()` returns 0, which the
function takes for a failure (`SocketIsZero`), until the application happens to
open a file there (`OpenFile`).  Left out: an application that closes its
descriptor 0 itself, and other numbers that were closed, are reused by the rest
of the process and are closed again.  The application calls
`closeTcpSocket()` and retries after a failure (`Retry`), and, if `Paced`, a
sender starts a round only when its receiver has ended the last one.

**AudioSender, AudioReceiver.**  Buffers and frames are numbers in order.
`Locked` says that the audio thread holds the mutex; the callback's critical
section is one step.  The store to `stopSignal` is outside the mutex in the
code and a separate step here.  The initial state chooses between the two
programs of each pair, which share the code of the audio thread; only the one
with video has a video thread and the second `join()`.  What the audio thread
does after its loop is one step, `Cleanup`, that need not come: `destroy_stream`
stops the reception flow, also of a stream that only sends
(`media_stream.cc:521`), and `stop()` may never return (`StopReturns`).

## 3. The runs

Nine runs pass; each checks several properties, and for each property
`PROJECT.json` names a mutant of the model, a plausible slip in the mapped code,
that violates it.

| run | asks | bounds, and why they are enough |
|---|---|---|
| `receptionflow_pipe` | does the flow implement `FramePipe`, is it quiescent when inactive, do its threads live as long as they must, is the slot in hand never written? | ring of 4, 6 datagrams: the indices wrap once and a slot is reused while the flow restarts; a burst of 2, the largest the proof allows; one empty and one ignored datagram; a blocking and a timed puller, 2 starts; no failing socket, and no burst that overflows the ring |
| `receptionflow_live` | does the next notification make up for a lost one, does `stop()` release pullers, does the receiver obey it? | ring of 4, 5 datagrams and a burst of 3, one more than is safe, so that the slot in hand can be cleared; the first question is asked of the behaviours whose bursts stay at 2, in which a wakeup can be lost, and the next datagram repair it, while the ring wraps; 2 starts, 1 fault |
| `h26xfragments_frames` | until numbers clash: whole NAL units, once, all that arrive; collection; always: tables that agree? | 4 access units: cut in two (one byte too many for a packet), cut in three, aggregated, just fitting; 5 sequence numbers that wrap, are reused and can clash, a late packet, a repetition, a restart and a failing send; a memory for 5 packets that overflows |
| `streammux_shared` | do live streams keep their handlers and their flow, is more than a stray entry left, do the ports agree? | 2 streams that share a port, or have none; 1 packet and 1 pull, which can meet every stage of either stream; bursts of 2 frames |
| `udplib_polite` | descriptors: closed only by owners, none lost, a started receiver is bound? | one thread of each kind, 3 descriptors of which one is standard input at first, 3 sockets or files: every descriptor can be reused by each of the others; 1 message; any callback but the two needed may be missing |
| `media_twosides` | loaded code under live codecs; balance of loads and no dead pointer while nothing the code takes for granted has failed? | one path, all failures, any order of calls, 3 loads: both sides and `test()`, or one of them leaked, at once; 1 frame; rounds are unbounded |
| `tcp_rounds` | do rounds complete, does the sender stay behind, does a connected sender return, does the receiver recover, all unless descriptor 0 is closed? | one peer, 3 rounds, 2 failures before `listen()` and 2 of `accept()`: a failure in a retry after a failure, in the first round and in a later one |
| `audiosender_drain` | is every buffer sent once, in order, and before the end, does the thread leave its loop? | 5 buffers, which is more than the thread can hold in any of its steps; both programs |
| `audioreceiver_play` | are frames played once and in order, does the thread leave its loop? | 4 frames, likewise; both programs |

`CHECK_DEADLOCK FALSE` stands where the system really ends or waits for ever:
a stopped flow with no datagrams left, a program that has ended, a handshake
whose rounds are over, a cleanup that hangs, a crash.

Three runs are violated; each shows a disagreement between a comment or a header
and what the code does, and is a finding in `PROJECT.json`:

| run | what the source says | what happens |
|---|---|---|
| `receptionflow_stop_hangs` | `stop()` waits until the loop is exited | its notification falls between the processor's test of `should_stop_` and its wait; `join()` does not return |
| `udplib_buffer` | the callback is given the data and its size | a concurrent send clears the shared buffer first |
| `streammux_erased` | the packet is sent to the handler of its media stream | the processor looks the handlers up without the mutex, and `destroy_stream()` erases the entry it points to |

The models contain more that a reader of the code may want to know, and no run
makes a claim of.

* Reception flow.  A datagram published after the processor's last look stays in
  the ring until the next one arrives, for the same reason as `stop_hangs`:
  `NextNotificationRepairs` says that the next one brings it, and nothing of the
  last; of
  two callers of the blocking `pull_frame()` that see one frame, one returns
  null; with the ring full, a datagram is handled once before it is published
  and once after, though its length is cleared "to make sure we don't process
  this packet again" (`reception_flow.cc:654`).
* H.264.  Of two NAL units of one access unit that are both cut, the fragments of
  the second are dropped as "belonging to a completed frame" (`h26x.cc:661`);
  single and aggregated packets that come after a completed NAL unit of their
  timestamp are dropped too; when fragments of such units are lost,
  `reconstruction()` can meet an empty slot after it has freed others, and
  `drop_frame()` can dereference one (`h26x.cc:557`).  A sender that starts
  again with a number of a fragment still kept or under way (`clashed`) makes the
  receiver merge fragments of two frames, or free another frame's fragment and
  dereference the empty slot at the same line.  The timestamp is computed
  from the microseconds since the epoch times 90000, which overflows
  (`rtp.cc:169`).
* Streams.  If one of two streams goes away, or is renamed, between `find()` and
  `operator[]` (`reception_flow.cc:554-561`), an empty entry is left for its SSRC;
  the tables are then never empty, and destroying the last stream neither stops the
  flow nor frees its port.  An empty table between `size()` and `begin()`, and a
  hook erased between its `find()` and its call (`reception_flow.cc:378-380`), end
  the program.  A creation that fails uses the null `reception_flow_` in the
  destructor and crashes where `session.hh` promises `nullptr`.  Destroying one of
  two streams on a flow does not release the thread in its `pull_frame()`, and
  destroying the last frees the flow under it.  A frame at the head of the list
  whose stream is another's, is gone or was never known makes `pull_frame()` by SSRC
  return null at once, until somebody pulls it.  A single hook takes the frames of
  all streams of its flow; a packet whose timestamp equals an installed SSRC is
  taken for RTCP.  With `Serial = FALSE`, two calls at once, `BindsFreePorts` is
  violated: between `clear_port()` and the release of the old socket the port is
  free in the factory's table only, and the failing `bind()` is ignored
  (`socketfactory.cc:91`); so is `LiveStreamsAreServed`: a stream created between
  `clear_stream_from_flow()` and `stop()` of the last one gets a flow that is being
  stopped.
* UDP plugin.  With `Polite = FALSE`: a function called before `setCallback` calls a
  null `debug_callback`, and `socketClose()` called twice closes a number that may
  be another's by then, a file of the application among them.  With either: the
  receive callback can be replaced by null between its test and its call
  (`lib.cpp:122-126`); the receive callback's kind is always 0, where `lib.hpp`
  defines 1 to 3; a receive still blocked on the old socket can overwrite `servaddr`
  before `bind()`.
* Media library.  `destroyEncoder()` of a side that sends video only uses the
  audio's null session (`mediaLibrary.cpp:412`); format 0 hands the encoder a null
  picture; a decoder's failed `create_session` is used (`mediaLibrary.cpp:448`); a
  stream that could not be created is dereferenced before it is tested; frames of
  audio are never deallocated.  The run and the theorems have one library path:
  with two, either side's `dlclose()` can go through the other's handle.
* Handshake.  After a failure in the first call `closeTcpSocket()` closes
  descriptor 0, and from then on `socket()` returns 0, which
  `initializeTcpReceiver` takes for a failure (`mediaLibrary.cpp:186`): no later
  call succeeds, unless the application opens a file in between.  A sender whose
  connection was queued and never accepted is reset, and reports success.
* Programs.  Enter does not stop `testSender`'s video thread, and when the camera
  ends by itself the audio thread is joined twice; the end of every program
  waits for `stop()`, which may hang; in `testReceiver` and
  `testDecoder` the thread does not look at `stopSignal` while `pull_frame()`,
  which has no timeout, has no frame for it, and in `testReceiver` the key is
  looked at only after a video frame; `playbackQueue` has no limit.

### Fairness

Liveness is checked under weak fairness of the program's own threads: a thread
that can take a step eventually takes one, which any preemptive scheduler gives.
In `ReceptionFlow` there is one assumption per thread (`Receiver`, `Processor`,
the caller of `stop()`, each puller); in `TcpHandshake` one for the receiver and
one per sender, since both applications call again until they succeed; in the
audio models so are the recording device (`Record`: PortAudio calls back
periodically) and, in `AudioReceiver`, the network's bounded number of frames
and the video loop.  Nothing is assumed of the user, of datagrams in
`ReceptionFlow`, of calls to `start`, `stop` or `pull_frame`, of failures, of
spurious wakeups, or of the audio programs' `Cleanup`, which waits for a `stop()`
that may hang: none of them has to happen.  No strong fairness is used.

## 4. What is proved

TLAPS checks the following for every value of the constants that satisfies the
modules' assumptions (`FlowAssumption`, `UdpAssumption`, `MediaAssumption`,
`HandshakeAssumption`, `SenderAssumption`, `ReceiverAssumption`,
`FragmentsAssumption`, `MuxAssumption`: naturals, a ring of at least two slots, a
payload of more than two bytes, port 0 and "no socket" apart from ports and
sockets).  Every safety invariant and every action property that a passing run
checks is the subject of one of these theorems.

| theorem | says | further assumption |
|---|---|---|
| `ReceptionFlow_proofs!TypeCorrect` | `TypeOK` | |
| `ReceptionFlow_proofs!StopIsQuiescent` | an inactive flow has no thread and no frame | |
| `ReceptionFlow_proofs!ThreadsStay` | an active flow has both its threads, until a stop or a failing socket | |
| `ReceptionFlow_proofs!SlotExclusion` | the receiver never writes the slot in the processor's hands | `MaxBacklog + 2 <= RingSize` |
| `ReceptionFlow_proofs!ImplementsPipe` | the flow implements `FramePipe` (`PipeSpec`): every deliverable datagram is handed over once, in order and intact, to one puller, unless a stop discards it | `MaxBacklog + 2 <= RingSize` |
| `H26xFragments_proofs!TypeCorrect` | `TypeOK`, whatever numbers clash | access units of one NAL unit (`OneNal`) |
| `H26xFragments_proofs!EveryFragmentBelongs` | `FragmentsBelong`: whatever numbers clash, a kept fragment is on record with a frame of its own; until they clash, every number on record is that of such a fragment and no null one is met | `OneNal` |
| `H26xFragments_proofs!OnlyWholeFrames`, `StaleCollected` | until numbers clash, only whole NAL units come out, and stale frames are collected | `OneNal` |
| `H26xFragments_proofs!NalsArrive` | until numbers clash, a NAL unit whose packets have all arrived was given to the flow, unless its frame was dropped as too old (`EveryNalArrives`) | `OneNal` |
| `H26xFragments_proofs!DeliveredOnce` | until numbers clash, a NAL unit is given at most once (`AtMostOnce`) | `OneNal`, `MemoryLasts` |
| `H26xFragments_proofs!ClosedStayClosed` | a completed or dropped frame is not opened again | |
| `StreamMux_proofs!TypeCorrect`, `StreamsServed`, `NothingLeft`, `PortsAlive`, `FreePorts` | the five properties of `streammux_shared` | `Serial` |
| `UdpLib_proofs!TypeCorrect`, `NoSocketIsLost`, `StartedStaysBound`, `OnlyOwnersClose` | the four properties of `udplib_polite` | `Polite` |
| `MediaLibrary_proofs!TypeCorrect` | `TypeOK` | |
| `MediaLibrary_proofs!CodecKeepsItsLibrary` | loaded code under live codecs, whatever fails and in whatever order the functions are called | one path |
| `MediaLibrary_proofs!OrderlyUseIsSafe`, `LoadsAreUndone` | no use of a dead pointer (`NoFault`), and balanced loads, in the histories in which no call has failed, none came out of order and pictures are RGB (`causes = {}`) | one path |
| `TcpHandshake_proofs!TypeCorrect` | `TypeOK`: no sender is queued twice, and a receiver that reads, answers or closes has an accepted connection in `new_socket` | |
| `TcpHandshake_proofs!SenderStaysBehind` | a sender that was told of success has met its receiver (`SenderMetReceiver`), in the histories in which `accept()` has not failed | one sender, `Paced` |
| `AudioSender_proofs!BuffersInOrder`, `DrainsBeforeExit` | order, and the drain before the end | |
| `AudioReceiver_proofs!FramesInOrder`, `OneMoreFrame` | order, and the one frame after the stop | |

The arguments.

* **StopIsQuiescent.**  `stop()` is inactive only after the two joins, so the
  invariant relates `cpc` to the two threads: past each join that thread is at
  its exit and only `start()` moves it from there; frames are cleared when no
  processor can append.  `TypeOK` alone is not inductive because a packet can
  only be in hand when the read index is a slot and not -1.
* **SlotExclusion.**  No lock protects the slot in hand.  The invariant relates
  the two indices: the write index is ahead of the read index by the number of
  unread slots, which the bound on the burst keeps below the ring's size minus
  one, so that the next slot to write is not the one in hand.  The modular
  arithmetic is in lemmas of its own.  The bound is the network's, not the
  code's: beyond it TLC finds both properties that need it violated.
* **ImplementsPipe.**  `FramePipe`'s queue is a set: packets are numbered as they
  arrive, so that "the oldest" needs no sequence, and the mapping (`InFlight`) is
  the set of what the slots between the two indices hold.  The invariant
  (`RingInv`) says what that is: each of those slots holds a datagram and its
  length, later slots later datagrams, the slot being written the latest, and
  the slot being copied still the datagram whose header was parsed.  `RingRoom`
  turns the bound on the burst into distinct slots; then each step of the
  receiver, the processor, `stop()` and the pullers is one step of `FramePipe`
  or none (`PipeStep`), with one lemma per kind of step that moves a packet.
* **H26xFragments.**  What the receiver merges is what its slots hold, so the
  invariant must say that the numbers on a frame's record lead to fragments of
  that frame (`Good`), that two packets that can still meet have two numbers
  (`Distinct`), and what a frame's record says of its first and last number
  (`AllNumbers`).  That is inductive as long as a number is given out again only
  when nothing can carry the old one (`Unsent`, `Kept`, `Live`), so what is
  proved of every state is `~clashed => IInv`.  After a clash a frame's record
  can hold another frame's numbers, or those of freed fragments, but a fragment is
  still kept only while its own frame has its number: that part (`Sound`,
  `Tables`) is inductive by itself.  A frame that counts
  complete then has exactly its own pieces, in order.  `OneNal` is needed: the
  tables know timestamps only, and two NAL units of one timestamp are where the
  code's own rule fails (section 3).
* **NalsArrive.**  The receiver's memory is related to the history.  A number in
  `received_info_` is that of a packet that arrived (`Arrivals`), so a first
  arrival is never taken for a repetition.  A packet that arrived is on its
  frame's record unless its NAL unit was given or its frame dropped, a frame that
  is kept is not complete, and only given or dropped frames are closed
  (`Settled`).  Were all packets of a frame on its record, their numbers would be
  as many as `calculate_expected_fus()` expects (`NumbersCount`,
  `ExpectedIsCount`), and the frame complete.
* **DeliveredOnce.**  `received_frames_` forgets the oldest of its entries, and with
  it all numbers of that entry's timestamp.  While a packet of `f` is under way,
  every entry since its first arrival is of a packet that has left the network,
  at most `Lag` access units from `f`, or of a repetition (`Covered`, `Since`).
  `MemoryLasts` says that these fit the memory; then nothing is forgotten that
  can still come (`Remembrance`), and as a NAL unit is given only when its last
  packet is new (`Once`), it is given once.  The code's 450000 entries satisfy
  `MemoryLasts` unless hundreds of thousands of packets are under way together.
  The bound is sufficient, not sharp: the run checks a memory that is smaller,
  and one entry less is the mutant that violates `AtMostOnce`.
* **StreamMux.**  Four parts, each exact where the properties only bound, but for
  stray entries.  The
  tables name just the streams that have handlers, each under its SSRC, also
  between the two steps of a renaming (`TablesExact`); a flow is registered just
  while a stream uses it or its table has a stray entry, and a stream that found
  the tables empty is alone on it (`FlowsExact`); it runs just while a stream is
  live or about to stop it, or a stray entry has kept it, and at rest it is empty
  (`RunsExact`); a socket has the port of the streams that
  share it or none, and as long as no `bind()` has failed the table has every
  bound socket (`PortsExact`).  That the tables are exact is what makes
  `clear_stream_from_flow()`'s answer right, and with it the rest.  Stray entries
  are bounded by an invariant of their own (`StraysExact`): the processor looks
  an SSRC up only in a table of more than one entry, and with the first of those
  two streams have had the socket (`FoundAmongTwo`); neither loses its number, so
  that stays so when `operator[]` comes later.
* **UdpLib.**  The invariant is ownership.  An open descriptor belongs to the
  application (its files included, which no step of the library may close), to
  exactly one thread that is about to close it in `sendUDPMessage`, or to `sockfd`
  while the application owes a `socketClose`; two descriptors never name one socket,
  and a blocked thread keeps its socket alive.  Each property follows;
  `OnlyOwnersClose` is an action property proved from the same invariant.
* **CodecKeepsItsLibrary.**  `dlclose()` goes through a handle that the other
  side may have overwritten, so the property is not inductive.  What is: `refs`
  is at least the number of sides that count on a load, where a side counts from
  its `dlopen()` to its codec's creation, while the codec lives, and between its
  destruction and `dlclose()`.  Two lemmas (`LoadStep`, `NoLoadStep`) carry all
  actions but `CreateCodec` and `Unload`.
* **OrderlyUseIsSafe, LoadsAreUndone.**  A failed init returns with its load kept,
  so does one that is called twice, so after either the count is a bound only.
  Before the first it is exact:
  `refs` is what the two sides hold from `dlopen()` to `dlclose()` and what
  `test()` has kept, and as it is positive while a side holds one, `handle`, which
  the sides share, cannot be null when a side looks up a destructor.  With it go
  the pointers: each side's are as live as its place in the code and in its life
  requires (`Ready`), although the destroy functions reset none.
* **Handshake.**  The queue holds a sender at most once, because a sender connects
  again only after its connection was answered or reset (`QueueInv`).  A paced sender and
  its receiver are in one of four phases, away, queued, accepted or answered
  (`InStep`), each of which fixes how the counts of the two sides compare; only
  `accept()` failing after a connection was queued leaves them, which the
  property excepts.  With two senders, or one that runs ahead, a reset connection
  reports success, and TLC finds the property violated.
* **Audio.**  The concatenation of what is through and what is queued is
  constant under moving the front of the queue (`MoveFront`) and grows at its
  end (`AppendBoth`, `CountOn`); the stop invariants add to it that `stopSignal`
  is set once and what the thread is already committed to.

Only model-checked: the liveness properties, which with fairness and `ENABLED`
are outside what the prover does here.  `OneNal` is assumed of most of
`H26xFragments`; access units of several NAL units, with their aggregation
packets, are checked by its run.

## 5. What is not modelled

* Of uvgRTP: H.265, H.266 and the generic media format's own fragments, hole
  punching, multicast, pacing and the search for start codes; the growing of the
  ring, which is commented out.
* RTCP, SRTP and ZRTP: the media library never enables them.
* The jrtplib programs repeat the modelled queue, stop and join line for line.
* `mediaSender.cpp` is compiled by no build file.
* jrtplib, codec headers and binaries, build trees: not this program's source.
* Pictures, samples, packet formats, timing and pacing: no property here tells
  them apart.

## 6. Order of the work, and what is left

Built in this order, the most central behaviour first: `FramePipe` and
`ReceptionFlow`; `UdpLib`; `MediaLibrary`; `TcpHandshake`; `AudioSender` and
`AudioReceiver`; `H26xFragments`; `StreamMux`; each with its proofs.

Left:

1. `StreamMux` over `FramePipe` and under the media library: its `pull_frame()` and
   its frames as that specification's, its streams as the library's.
2. The theorems on `H26xFragments` for access units of several NAL units of which
   at most one is cut, where the code's rule still works.
