----------------------------- MODULE StreamMux -----------------------------
(***************************************************************************)
(* The media streams of one uvgRTP context: session.cc, media_stream.cc,   *)
(* socketfactory.cc, and of reception_flow.cc the tables of handlers and   *)
(* hooks.  Streams with one local port share its socket and the socket's   *)
(* reception flow, which finds the stream of a packet by SSRC.             *)
(*                                                                         *)
(* A socket of the factory and the flow made with it are named by the      *)
(* stream they were made for.  <<s, "random">> is the SSRC a new stream s  *)
(* expects packets from, ssrc_ + 1, and <<s, "peer">> the SSRC of the      *)
(* sender that really sends to s.  How a flow's threads hand packets over  *)
(* is the module ReceptionFlow; here a packet is there when it is handled. *)
(***************************************************************************)
EXTENDS Integers, Sequences, FiniteSets

CONSTANTS
  Streams,      \* the media_stream objects, each created once
  Ports,        \* local ports, without 0, which asks for no port
  NoSocket,     \* what used_ports_ says of a port that is not in it
  Serial,       \* whether the application makes one call at a time, pull_frame() apart
  Burst,        \* bound: the frames one packet completes
  MaxPackets,   \* bound: the packets handled
  MaxPulls      \* bound: the calls of pull_frame()

ASSUME MuxAssumption ==
  /\ NoSocket \notin Streams /\ 0 \notin Ports
  /\ Serial \in BOOLEAN /\ Burst \in Nat \ {0}
  /\ MaxPackets \in Nat /\ MaxPulls \in Nat
  /\ IsFiniteSet(Streams)

Ssrcs == Streams \X {"random", "peer"}
NoSsrc == <<"none", "none">>

VARIABLES
  \* the socket factory, and the kernel's view of its sockets
  used_ports_,      \* port -> the socket registered for it
  reception_flows_, \* the sockets that are registered with their flow
  bound,            \* socket -> the port it is bound to, 0: none
  refused,          \* history: a bind() of the factory has failed
  \* each media stream
  stage,            \* how far its creation, configuration or destruction has come
  src_port_, socket_, remote_ssrc_,
  parts,            \* what is installed in its entry of packet_handlers_
  \* each reception flow
  active_, should_stop_,
  packet_handlers_, \* the SSRCs with an entry that a stream has installed
  strays,           \* those with an empty entry, which operator[] has made
  hooks_,           \* the SSRCs with a hook
  frames_,          \* the streams for which there are frames on the list, in order
  processor,        \* what the processor thread is doing
  \* the threads in pull_frame(), one for each stream at most
  puller,
  packets, pulls,   \* packets handled and calls of pull_frame() so far
  crashed           \* freed or null memory was used

factoryVars == <<used_ports_, reception_flows_, bound, refused>>
streamVars  == <<src_port_, socket_, remote_ssrc_>>
tableVars   == <<packet_handlers_, strays, hooks_, parts>>
threadVars  == <<active_, should_stop_>>
frameVars   == <<frames_, processor, packets>>
pullVars    == <<puller, pulls>>
vars == <<factoryVars, stage, streamVars, tableVars, threadVars, frameVars, pullVars, crashed>>

Idle == [at |-> "idle", source |-> NoSocket, entry |-> NoSsrc, valid |-> TRUE]
NoPull == [flow |-> NoSocket, own |-> FALSE, timed |-> FALSE]

Init ==
  /\ used_ports_ = [p \in Ports |-> NoSocket] /\ reception_flows_ = {}
  /\ bound = [k \in Streams |-> 0] /\ refused = FALSE
  /\ stage = [s \in Streams |-> "none"] /\ src_port_ = [s \in Streams |-> 0]
  /\ socket_ = [s \in Streams |-> NoSocket]
  /\ remote_ssrc_ = [s \in Streams |-> <<s, "random">>]
  /\ parts = [s \in Streams |-> {}]
  /\ active_ = [k \in Streams |-> FALSE] /\ should_stop_ = [k \in Streams |-> TRUE]
  /\ packet_handlers_ = [k \in Streams |-> {}] /\ strays = [k \in Streams |-> {}]
  /\ hooks_ = [k \in Streams |-> {}]
  /\ frames_ = [k \in Streams |-> <<>>] /\ processor = [k \in Streams |-> Idle]
  /\ puller = [s \in Streams |-> NoPull]
  /\ packets = 0 /\ pulls = 0 /\ crashed = FALSE

(***************************************************************************)
(* Stages of a stream.  A call is under way unless it is in one of these.  *)
(***************************************************************************)
AtRest == {"none", "live", "gone"}
MayCall == Serial => \A t \in Streams : stage[t] \in AtRest

\* From create_new_socket() to the release of the last pointer to the socket.
WithoutFlow == {"none", "socket", "options", "gone"}
Open(k) == \/ k \in reception_flows_
           \/ \E p \in Ports : used_ports_[p] = k
           \/ \E s \in Streams : socket_[s] = k /\ stage[s] \notin {"none", "gone"}
FlowFreed(k) == /\ k \notin reception_flows_
                /\ \A s \in Streams : socket_[s] = k => stage[s] \in WithoutFlow

\* active_mutex_ of flow k is held by a stream that joins its threads.
Held(k) == \E t \in Streams : stage[t] = "stopping" /\ socket_[t] = k

Goes(s, next) == stage' = [stage EXCEPT ![s] = next]
Crash == crashed' = TRUE /\ UNCHANGED <<factoryVars, stage, streamVars, tableVars,
                                        threadVars, frameVars, pullVars>>

(***************************************************************************)
(* create_stream().                                                        *)
(***************************************************************************)
\* bind() of a socket: another socket must not have the port.
Bindable(p) == \A k \in Streams : bound[k] = p => ~Open(k)
BindTo(k, p) ==
  /\ Bindable(p)
  /\ bound' = [bound EXCEPT ![k] = p]
  /\ used_ports_' = [used_ports_ EXCEPT ![p] = k]
  /\ UNCHANGED refused

\* get_socket_ptr() and create_new_socket(), which does not look at the result of
\* bind_socket().  A new socket is registered with a flow of its own.
RegisteredMutant(p) == FALSE
Registered(p) == p \in Ports /\ used_ports_[p] # NoSocket

GetSocket(s, p) ==
  /\ stage[s] = "none" /\ MayCall
  /\ src_port_' = [src_port_ EXCEPT ![s] = p]
  /\ IF Registered(p)
     THEN /\ socket_' = [socket_ EXCEPT ![s] = used_ports_[p]]
          /\ UNCHANGED factoryVars
     ELSE /\ socket_' = [socket_ EXCEPT ![s] = s]
          /\ reception_flows_' = reception_flows_ \cup {s}
          /\ \/ p # 0 /\ BindTo(s, p)
             \/ p # 0 /\ refused' = TRUE /\ UNCHANGED <<used_ports_, bound>>
             \/ p = 0 /\ UNCHANGED <<used_ports_, bound, refused>>
  /\ Goes(s, "socket")
  /\ UNCHANGED <<remote_ssrc_, tableVars, threadVars, frameVars, pullVars, crashed>>

\* The rest of init_connection(): without a local address the port is bound now, if
\* it is not registered; then the buffer sizes are set.
SetOptions(s) ==
  /\ stage[s] = "socket"
  /\ \/ UNCHANGED factoryVars
     \/ /\ src_port_[s] # 0 /\ ~Registered(src_port_[s])
        /\ BindTo(socket_[s], src_port_[s])
        /\ UNCHANGED reception_flows_
  /\ Goes(s, "options")
  /\ UNCHANGED <<streamVars, tableVars, threadVars, frameVars, pullVars, crashed>>

\* The socket cannot be made, bound or set up.  create_stream() deletes the stream,
\* whose destructor uses reception_flow_, which is null.
InitFails(s) ==
  /\ \/ stage[s] = "none" /\ MayCall
     \/ stage[s] = "socket"
  /\ Crash

\* get_reception_flow_ptr(): without a flow the end is the same.
GetFlow(s) ==
  /\ stage[s] = "options"
  /\ IF socket_[s] \in reception_flows_
     THEN /\ Goes(s, "flow")
          /\ UNCHANGED <<factoryVars, streamVars, tableVars, threadVars, frameVars, pullVars, crashed>>
     ELSE Crash

\* install_handler(), for one kind of handler of stream s.
Install(s, part) ==
  /\ packet_handlers_' = [packet_handlers_ EXCEPT ![socket_[s]] = @ \cup {remote_ssrc_[s]}]
  /\ strays' = [strays EXCEPT ![socket_[s]] = @ \ {remote_ssrc_[s]}]
  /\ parts' = [parts EXCEPT ![s] = @ \cup {part}]
  /\ UNCHANGED <<factoryVars, streamVars, hooks_, threadVars, frameVars, pullVars, crashed>>

InstallRtp(s) == stage[s] = "flow" /\ Install(s, "rtp") /\ Goes(s, "rtp")

\* create_media(): the formats of H.26x also install a getter.
InstallMedia(s) ==
  /\ stage[s] = "rtp" /\ Install(s, "media")
  /\ \E next \in {"media", "start"} : Goes(s, next)
InstallGetter(s) == stage[s] = "media" /\ Install(s, "getter") /\ Goes(s, "start")

\* reception_flow::start(), and create_stream() returns.
StartFlow(s) ==
  /\ stage[s] = "start" /\ ~Held(socket_[s])
  /\ active_' = [active_ EXCEPT ![socket_[s]] = TRUE]
  /\ should_stop_' = [should_stop_ EXCEPT ![socket_[s]] = @ /\ active_[socket_[s]]]
  /\ Goes(s, "live")
  /\ UNCHANGED <<factoryVars, streamVars, tableVars, frameVars, pullVars, crashed>>

(***************************************************************************)
(* configure_ctx(RCC_REMOTE_SSRC) and install_receive_hook().              *)
(***************************************************************************)
\* A pointer into packet_handlers_ that the processor holds dies with the entry.
Holds(k) == processor[k].at \in {"found", "parsed"}
Invalidate(k, ssrc) ==
  processor' = [processor EXCEPT ![k].valid = @ /\ ~(Holds(k) /\ processor[k].entry = ssrc)]

RenamedMutant(table, old, new) == IF old \in table THEN table \cup {new} ELSE table
\* A table in which the entry of one SSRC, if there is one, is filed under another.
Renamed(table, old, new) == IF old \in table THEN (table \ {old}) \cup {new} ELSE table

\* update_remote_ssrc() ...
UpdateTables(s) ==
  LET k == socket_[s]
  IN /\ stage[s] = "live" /\ MayCall /\ remote_ssrc_[s] = <<s, "random">>
     /\ packet_handlers_' =
          [packet_handlers_ EXCEPT ![k] = Renamed(@, remote_ssrc_[s], <<s, "peer">>)]
     /\ strays' = [strays EXCEPT ![k] = Renamed(@, remote_ssrc_[s], <<s, "peer">>)]
     /\ hooks_' = [hooks_ EXCEPT ![k] = Renamed(@, remote_ssrc_[s], <<s, "peer">>)]
     /\ Invalidate(k, remote_ssrc_[s])
     /\ Goes(s, "update")
     /\ UNCHANGED <<factoryVars, streamVars, parts, threadVars, frames_, packets, pullVars, crashed>>

\* ... and then remote_ssrc_ itself.
SetRemote(s) ==
  /\ stage[s] = "update"
  /\ remote_ssrc_' = [remote_ssrc_ EXCEPT ![s] = <<s, "peer">>]
  /\ Goes(s, "live")
  /\ UNCHANGED <<factoryVars, src_port_, socket_, tableVars, threadVars, frameVars, pullVars, crashed>>

InstallHook(s) ==
  /\ stage[s] = "live" /\ MayCall
  /\ hooks_' = [hooks_ EXCEPT ![socket_[s]] = @ \cup {remote_ssrc_[s]}]
  /\ UNCHANGED <<factoryVars, stage, streamVars, packet_handlers_, strays, parts, threadVars,
                 frameVars, pullVars, crashed>>

(***************************************************************************)
(* destroy_stream(), or the end of the session: ~media_stream().           *)
(***************************************************************************)
RemoveHandlers(s) ==
  LET k == socket_[s]
  IN /\ stage[s] = "live" /\ MayCall
     /\ packet_handlers_' = [packet_handlers_ EXCEPT ![k] = @ \ {remote_ssrc_[s]}]
     /\ strays' = [strays EXCEPT ![k] = @ \ {remote_ssrc_[s]}]
     /\ parts' = [parts EXCEPT ![s] = {}]
     /\ Invalidate(k, remote_ssrc_[s])
     /\ Goes(s, "removed")
     /\ UNCHANGED <<factoryVars, streamVars, hooks_, threadVars, frames_, packets, pullVars, crashed>>

\* clear_stream_from_flow() returns 1 when nothing is left in the flow's tables.
EmptiedMutant(handlers, hooks) == handlers = {} \/ hooks = {}
Emptied(handlers, hooks) == handlers = {} /\ hooks = {}

ClearStream(s) ==
  LET k == socket_[s]
      handlers == packet_handlers_[k] \ {remote_ssrc_[s]}
      empty == strays[k] \ {remote_ssrc_[s]}
      hooks == hooks_[k] \ {remote_ssrc_[s]}
  IN /\ stage[s] = "removed"
     /\ packet_handlers_' = [packet_handlers_ EXCEPT ![k] = handlers]
     /\ strays' = [strays EXCEPT ![k] = empty]
     /\ hooks_' = [hooks_ EXCEPT ![k] = hooks]
     /\ Invalidate(k, remote_ssrc_[s])
     /\ Goes(s, IF Emptied(handlers \cup empty, hooks) THEN "last" ELSE "cleared")
     /\ UNCHANGED <<factoryVars, streamVars, parts, threadVars, frames_, packets, pullVars, crashed>>

\* reception_flow::stop() ...
StopFlow(s) ==
  /\ stage[s] = "last" /\ ~Held(socket_[s])
  /\ should_stop_' = [should_stop_ EXCEPT ![socket_[s]] = @ \/ active_[socket_[s]]]
  /\ Goes(s, IF active_[socket_[s]] THEN "stopping" ELSE "stopped")
  /\ UNCHANGED <<factoryVars, streamVars, tableVars, active_, frameVars, pullVars, crashed>>

\* ... which returns when both threads have, and then clears the frames.
FlowStopped(s) ==
  /\ stage[s] = "stopping" /\ processor[socket_[s]].at = "idle"
  /\ frames_' = [frames_ EXCEPT ![socket_[s]] = <<>>]
  /\ active_' = [active_ EXCEPT ![socket_[s]] = FALSE]
  /\ Goes(s, "stopped")
  /\ UNCHANGED <<factoryVars, streamVars, tableVars, should_stop_, processor, packets, pullVars, crashed>>

UnregisteredMutant(p) == used_ports_
UnregisteredAtMutant(p) == [q \in Ports \ {p} |-> used_ports_[q]]
Unregistered(p) == [q \in Ports |-> IF q = p THEN NoSocket ELSE used_ports_[q]]

\* clear_port()
ClearPort(s) ==
  /\ stage[s] = "stopped"
  /\ used_ports_' = Unregistered(src_port_[s])
  /\ reception_flows_' = reception_flows_ \ {socket_[s]}
  /\ Goes(s, "cleared")
  /\ UNCHANGED <<bound, refused, streamVars, tableVars, threadVars, frameVars, pullVars, crashed>>

\* free_resources(), and the stream is gone with its pointers to socket and flow.
FreeResources(s) ==
  /\ stage[s] = "cleared"
  /\ Goes(s, "gone")
  /\ UNCHANGED <<factoryVars, streamVars, tableVars, threadVars, frameVars, pullVars, crashed>>

(***************************************************************************)
(* The processor thread of flow k: reception_flow::process_packet().  It   *)
(* holds neither handlers_mutex_ nor hooks_mutex_.                         *)
(***************************************************************************)
Entries(k) == packet_handlers_[k] \cup strays[k]

\* Whose entry takes a packet: the first one's (NoSsrc) if there is only one, whatever
\* the packet's SSRC; the one of the SSRC at the place where RTCP has it and RTP its
\* timestamp; the one of the packet's SSRC.
Takers(k, x, timestamp) ==
  IF Cardinality(Entries(k)) = 1 THEN {NoSsrc}
  ELSE IF timestamp \in Entries(k) THEN {timestamp}
  ELSE Entries(k) \cap {<<x, "peer">>}

\* A packet from the peer of x: size() and find() ...
LookUp(k, x, timestamp) ==
  /\ active_[k] /\ processor[k] = Idle /\ packets < MaxPackets
  /\ packets' = packets + 1
  /\ IF Takers(k, x, timestamp) = {}
     THEN UNCHANGED processor
     ELSE \E ssrc \in Takers(k, x, timestamp) :
            processor' = [processor EXCEPT
              ![k] = [at |-> "matched", source |-> x, entry |-> ssrc, valid |-> TRUE]]
  /\ UNCHANGED <<factoryVars, stage, streamVars, tableVars, threadVars, frames_, pullVars, crashed>>

\* ... and only then begin(), which is end() if the only entry is gone by now, ...
TakeFirst(k) ==
  /\ processor[k].at = "matched" /\ processor[k].entry = NoSsrc
  /\ \/ \E ssrc \in Entries(k) :
          /\ processor' = [processor EXCEPT ![k] = [@ EXCEPT !.at = "found", !.entry = ssrc]]
          /\ UNCHANGED <<factoryVars, stage, streamVars, tableVars, threadVars, frames_, packets,
                         pullVars, crashed>>
     \/ Entries(k) = {} /\ Crash

\* ... or operator[], which makes an empty entry if the one that was found is gone.
TakeEntry(k) ==
  LET ssrc == processor[k].entry
  IN /\ processor[k].at = "matched" /\ ssrc # NoSsrc
     /\ processor' = [processor EXCEPT ![k] = [@ EXCEPT !.at = "found"]]
     /\ strays' = [strays EXCEPT ![k] = @ \cup ({ssrc} \ packet_handlers_[k])]
     /\ UNCHANGED <<factoryVars, stage, streamVars, packet_handlers_, hooks_, parts, threadVars,
                    frames_, packets, pullVars, crashed>>

HasPart(k, part) == /\ processor[k].entry \notin strays[k]
                    /\ part \in parts[processor[k].entry[1]]

\* The RTP handler makes a frame of the packet, or refuses it.
HandleRtp(k) ==
  /\ processor[k].at = "found" /\ processor[k].valid
  /\ \/ HasPart(k, "rtp") /\ processor' = [processor EXCEPT ![k].at = "parsed"]
     \/ processor' = [processor EXCEPT ![k] = Idle]
  /\ UNCHANGED <<factoryVars, stage, streamVars, tableVars, threadVars, frames_, packets, pullVars, crashed>>

\* Whose hook return_frame() gives a frame to: the first one's (NoSsrc) if there is only
\* one, or the one of the frame's SSRC.
Hooks(k, x) == IF Cardinality(hooks_[k]) = 1 THEN {NoSsrc} ELSE hooks_[k] \cap {<<x, "peer">>}

\* The media handler completes no frame or one, and the getter has more of them.
\* return_frame() puts them on the list, or is about to call a hook ...
HandleMedia(k) ==
  LET x == processor[k].source
  IN /\ processor[k].at = "parsed" /\ processor[k].valid
     /\ \E n \in 0 .. Burst :
          /\ n > 0 => HasPart(k, "media")
          /\ n > 1 => HasPart(k, "getter")
          /\ IF n = 0 \/ Hooks(k, x) = {}
             THEN /\ frames_' = [frames_ EXCEPT ![k] = @ \o [i \in 1 .. n |-> x]]
                  /\ processor' = [processor EXCEPT ![k] = Idle]
             ELSE /\ UNCHANGED frames_
                  /\ \E ssrc \in Hooks(k, x) : processor' = [processor EXCEPT
                       ![k] = [@ EXCEPT !.at = "hooked", !.entry = ssrc]]
     /\ UNCHANGED <<factoryVars, stage, streamVars, tableVars, threadVars, packets, pullVars, crashed>>

\* ... which is null, or is at end(), if it has been erased since.
CallHook(k) ==
  LET ssrc == processor[k].entry
  IN /\ processor[k].at = "hooked"
     /\ IF IF ssrc = NoSsrc THEN hooks_[k] # {} ELSE ssrc \in hooks_[k]
        THEN /\ processor' = [processor EXCEPT ![k] = Idle]
             /\ UNCHANGED <<factoryVars, stage, streamVars, tableVars, threadVars, frames_, packets,
                            pullVars, crashed>>
        ELSE Crash

UseErasedEntry(k) == Holds(k) /\ ~processor[k].valid /\ Crash

(***************************************************************************)
(* media_stream::pull_frame(): by SSRC if one was configured.              *)
(***************************************************************************)
Pulling(s) == puller[s].flow # NoSocket
PullReturns(s) ==
  /\ puller' = [puller EXCEPT ![s] = NoPull]
  /\ UNCHANGED <<factoryVars, stage, streamVars, tableVars, threadVars, processor, packets, pulls, crashed>>

Pull(s, timed) ==
  /\ stage[s] \in {"live", "update"} /\ ~Pulling(s) /\ pulls < MaxPulls
  /\ pulls' = pulls + 1
  /\ puller' = [puller EXCEPT ![s] =
       [flow |-> socket_[s], own |-> remote_ssrc_[s] # <<s, "random">>, timed |-> timed]]
  /\ UNCHANGED <<factoryVars, stage, streamVars, tableVars, threadVars, frameVars, crashed>>

\* stop() has been called, or the time is over: no frame.
PullGivesUp(s) ==
  /\ Pulling(s) /\ ~FlowFreed(puller[s].flow)
  /\ \/ should_stop_[puller[s].flow]
     \/ puller[s].timed /\ frames_[puller[s].flow] = <<>>
  /\ PullReturns(s) /\ UNCHANGED frames_

\* There is a frame: it is taken, unless its SSRC is another's, which returns null.
PullFrame(s) ==
  LET k == puller[s].flow
  IN /\ Pulling(s) /\ ~FlowFreed(k)
     /\ ~should_stop_[k] /\ frames_[k] # <<>>
     /\ frames_' = IF puller[s].own /\ Head(frames_[k]) # s
                   THEN frames_
                   ELSE [frames_ EXCEPT ![k] = Tail(@)]
     /\ PullReturns(s)

PullInFreedFlow(s) == Pulling(s) /\ FlowFreed(puller[s].flow) /\ Crash

Create(s) ==
  \/ \E p \in Ports \cup {0} : GetSocket(s, p)
  \/ SetOptions(s) \/ InitFails(s) \/ GetFlow(s)
  \/ InstallRtp(s) \/ InstallMedia(s) \/ InstallGetter(s) \/ StartFlow(s)

Change(s) == UpdateTables(s) \/ SetRemote(s) \/ InstallHook(s)

Destroy(s) ==
  \/ RemoveHandlers(s) \/ ClearStream(s) \/ StopFlow(s) \/ FlowStopped(s)
  \/ ClearPort(s) \/ FreeResources(s)

Process(k) ==
  \/ \E x \in Streams, timestamp \in Ssrcs \cup {NoSsrc} : LookUp(k, x, timestamp)
  \/ TakeFirst(k) \/ TakeEntry(k) \/ UseErasedEntry(k)
  \/ HandleRtp(k) \/ HandleMedia(k) \/ CallHook(k)

PullSteps(s) ==
  \/ \E timed \in BOOLEAN : Pull(s, timed)
  \/ PullGivesUp(s) \/ PullFrame(s) \/ PullInFreedFlow(s)

Next ==
  /\ ~crashed
  /\ \E s \in Streams : Create(s) \/ Change(s) \/ Destroy(s) \/ Process(s) \/ PullSteps(s)

Spec == Init /\ [][Next]_vars

(***************************************************************************)
(* Properties.                                                             *)
(***************************************************************************)
Stages == {"none", "socket", "options", "flow", "rtp", "media", "start", "live", "update",
           "removed", "last", "stopping", "stopped", "cleared", "gone"}

\* Every variable has its type.
TypeOK ==
  /\ used_ports_ \in [Ports -> Streams \cup {NoSocket}] /\ reception_flows_ \subseteq Streams
  /\ bound \in [Streams -> Ports \cup {0}] /\ refused \in BOOLEAN
  /\ stage \in [Streams -> Stages] /\ src_port_ \in [Streams -> Ports \cup {0}]
  /\ socket_ \in [Streams -> Streams \cup {NoSocket}]
  /\ \A s \in Streams : stage[s] # "none" => socket_[s] \in Streams
  /\ remote_ssrc_ \in [Streams -> Ssrcs]
  /\ \A s \in Streams : remote_ssrc_[s][1] = s
  /\ parts \in [Streams -> SUBSET {"rtp", "media", "getter"}]
  /\ active_ \in [Streams -> BOOLEAN] /\ should_stop_ \in [Streams -> BOOLEAN]
  /\ packet_handlers_ \in [Streams -> SUBSET Ssrcs] /\ strays \in [Streams -> SUBSET Ssrcs]
  /\ hooks_ \in [Streams -> SUBSET Ssrcs]
  /\ frames_ \in [Streams -> Seq(Streams)]
  /\ processor \in [Streams -> [at : {"idle", "matched", "found", "parsed", "hooked"},
                                source : Streams \cup {NoSocket},
                                entry : Ssrcs \cup {NoSsrc}, valid : BOOLEAN]]
  /\ \A k \in Streams : processor[k].at # "idle" => processor[k].source \in Streams
  /\ puller \in [Streams -> [flow : Streams \cup {NoSocket}, own : BOOLEAN, timed : BOOLEAN]]
  /\ packets \in 0 .. MaxPackets /\ pulls \in 0 .. MaxPulls /\ crashed \in BOOLEAN

\* A stream that create_stream() has returned has what serving it takes until it is
\* destroyed, whatever happens to the streams that share its socket: its flow is
\* registered and runs, and has the stream's handlers under the SSRC the stream was last
\* given.  A stream that was given none is filed under one that no sender uses, and is
\* served only as long as its entry is the only one.
LiveStreamsAreServed ==
  \A s \in Streams : stage[s] = "live" =>
    /\ socket_[s] \in reception_flows_
    /\ active_[socket_[s]] /\ ~should_stop_[socket_[s]]
    /\ remote_ssrc_[s] \in packet_handlers_[socket_[s]]
    /\ {"rtp", "media"} \subseteq parts[s]

\* What streams leave behind: handlers and hooks are there of such streams only as are
\* not yet gone, and a flow at rest holds no frames.  A flow that is registered or runs
\* has such a stream, or a stray entry: operator[] has made it for a packet whose
\* stream went away, or was renamed, between find() and operator[].  The flow then runs
\* on after its last stream, and keeps its port.  It takes two streams on one socket:
\* a stream with a socket of its own leaves nothing.
Users(k) == {s \in Streams : socket_[s] = k /\ stage[s] \notin {"none", "cleared", "gone"}}
Shared(k) == \E s, t \in Streams : s # t /\ socket_[s] = k /\ socket_[t] = k
NothingIsLeft ==
  \A k \in Streams :
    /\ k \in reception_flows_ \/ active_[k] => Users(k) # {} \/ strays[k] # {}
    /\ strays[k] # {} => Shared(k)
    /\ \A ssrc \in packet_handlers_[k] \cup hooks_[k] : ssrc[1] \in Users(k)
    /\ ~active_[k] => frames_[k] = <<>>

\* A port's entry names an open socket that is bound to it and has its flow: the next
\* stream with that port does not get a dead socket.  (A socket whose bind() failed has
\* no entry, so that a stream on it, and what its clear_port() does to the entry of
\* another socket with that port, are not judged here.)
PortEntriesAreAlive ==
  \A p \in Ports : LET k == used_ports_[p]
                   IN k # NoSocket => bound[k] = p /\ k \in reception_flows_

\* The factory does not compete with itself: until somebody else has had one of its
\* ports, it binds a new socket only to a port that none of its open sockets has.  (Only
\* the first refusal is judged, and with one call at a time no stream is made between
\* the closing of a socket and the end of its entry.)
BindsFreePorts ==
  [][~refused /\ refused' =>
       \A s \in Streams : stage[s] = "none" /\ stage'[s] = "socket" => Bindable(src_port_'[s])]_vars

\* A packet in the processor's hands is handled by handlers that are installed, as
\* reception_flow.hh says: those of the stream that wants it.
HandlersAreInstalled == \A k \in Streams : Holds(k) => processor[k].valid
=============================================================================
