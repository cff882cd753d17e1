-------------------------- MODULE StreamMux_proofs --------------------------
(***************************************************************************)
(* What holds of StreamMux for any number of streams, ports and packets,   *)
(* if the application makes one call at a time (Serial): live streams are  *)
(* served, destroyed ones leave nothing but stray entries, ports name live *)
(* sockets.                                                                *)
(*                                                                         *)
(* Whether a stream is the last one on its socket is decided by looking    *)
(* whether the flow's tables are empty, so the invariant says exactly what *)
(* they hold between any two steps (TablesExact), which flows are          *)
(* registered (FlowsExact), which of those run (RunsExact), and how the    *)
(* factory's ports relate to what the kernel has bound (PortsExact).  A    *)
(* second invariant says where stray entries can come from (StraysExact).  *)
(***************************************************************************)
EXTENDS StreamMux, FiniteSetTheorems, TLAPS

(* The stages in which a stream has handlers, may have a hook, and keeps   *)
(* its flow running.                                                       *)
HandlerStages == {"rtp", "media", "start", "live", "update"}
HookStages == {"live", "update", "removed"}
RunStages == {"live", "update", "removed", "last", "stopping"}
UnusedStages == {"none", "cleared", "gone"}
RestStages == UnusedStages \cup {"stopped"}
Processor == [at : {"idle", "matched", "found", "parsed", "hooked"}, source : Streams \cup {NoSocket},
              entry : Ssrcs \cup {NoSsrc}, valid : BOOLEAN]

(* The SSRC under which the tables have a stream: update_remote_ssrc()     *)
(* changes them before remote_ssrc_ is set.                                *)
FiledUnder(s) == IF stage[s] = "update" THEN <<s, "peer">> ELSE remote_ssrc_[s]

(* One call is under way at most.                                          *)
OneCall == \A s, t \in Streams : stage[s] \in AtRest \/ stage[t] \in AtRest \/ s = t

(* A flow's tables name exactly the streams that have handlers, and only   *)
(* streams that may have hooks, each under its SSRC.                       *)
FiledHaveHandlers ==
  \A k \in Streams : \A ssrc \in packet_handlers_[k] :
    /\ socket_[ssrc[1]] = k /\ stage[ssrc[1]] \in HandlerStages
    /\ ssrc = FiledUnder(ssrc[1])
HandlersAreFiled ==
  \A s \in Streams : stage[s] \in HandlerStages =>
    /\ FiledUnder(s) \in packet_handlers_[socket_[s]]
    /\ "rtp" \in parts[s]
    /\ stage[s] # "rtp" => "media" \in parts[s]
HooksAreOwned ==
  \A k \in Streams : \A ssrc \in hooks_[k] :
    /\ socket_[ssrc[1]] = k /\ stage[ssrc[1]] \in HookStages
    /\ ssrc = FiledUnder(ssrc[1])
UpdatesOnce == \A s \in Streams : stage[s] = "update" => remote_ssrc_[s] = <<s, "random">>
TablesExact == FiledHaveHandlers /\ HandlersAreFiled /\ HooksAreOwned /\ UpdatesOnce

(* A flow is registered while a stream uses it, or while its table has a   *)
(* stray entry, and a stream that found its tables empty is the only one   *)
(* that uses it.                                                           *)
UsedAreRegistered == \A s \in Streams : stage[s] \notin UnusedStages => socket_[s] \in reception_flows_
RegisteredAreUsed ==
  \A k \in reception_flows_ :
    \/ \E s \in Streams : socket_[s] = k /\ stage[s] \notin UnusedStages
    \/ strays[k] # {}
LastIsAlone ==
  \A s, t \in Streams :
    /\ stage[s] \in {"last", "stopping", "stopped"} /\ stage[t] \notin UnusedStages
    /\ socket_[s] = socket_[t]
    => s = t
FlowsExact == UsedAreRegistered /\ RegisteredAreUsed /\ LastIsAlone

(* A flow runs while a stream is live or on its way to stop it, and does   *)
(* not run without a stream unless there is a stray entry.                 *)
UsedRun == \A s \in Streams : stage[s] \in RunStages => active_[socket_[s]] = TRUE
RunningAreUsed ==
  \A k \in Streams : active_[k] = TRUE =>
    \/ \E s \in Streams : socket_[s] = k /\ stage[s] \notin RestStages
    \/ strays[k] # {}
StoppingIsCalled ==
  \A k \in Streams : active_[k] = TRUE /\ should_stop_[k] = TRUE
    => \E s \in Streams : socket_[s] = k /\ stage[s] = "stopping"
RestingIsEmpty ==
  \A k \in Streams : active_[k] = FALSE => frames_[k] = <<>> /\ processor[k].at = "idle"
RunsExact == UsedRun /\ RunningAreUsed /\ StoppingIsCalled /\ RestingIsEmpty

(* The factory's ports and the kernel's: a socket is bound to the port of  *)
(* the streams that share it, or not at all.                               *)
UnbornHaveNoSocket ==
  \A s \in Streams : stage[s] = "none" =>
    /\ bound[s] = 0 /\ s \notin reception_flows_
    /\ \A t \in Streams : socket_[t] # s
BoundAsAsked ==
  \A s \in Streams : stage[s] # "none" =>
    /\ bound[socket_[s]] \in {0, src_port_[s]}
    /\ bound[socket_[s]] = 0 => socket_[s] = s
    /\ refused = FALSE => bound[socket_[s]] = src_port_[s]
    /\ stage[s] = "socket" => Registered(src_port_[s]) \/ bound[socket_[s]] = 0
BoundAreRegistered ==
  refused = FALSE => \A k \in reception_flows_ : bound[k] # 0 => used_ports_[bound[k]] = k
PortsExact == PortEntriesAreAlive /\ UnbornHaveNoSocket /\ BoundAsAsked /\ BoundAreRegistered

Parts == OneCall /\ TablesExact /\ FlowsExact /\ RunsExact /\ PortsExact
IInv == TypeOK /\ Parts

-----------------------------------------------------------------------------

(* Invalidate() leaves a processor that is a processor.                    *)
LEMMA InvalidateType ==
    ASSUME TypeOK, NEW k \in Streams, NEW ssrc, Invalidate(k, ssrc)
    PROVE  /\ processor' \in [Streams -> Processor]
           /\ \A j \in Streams : processor'[j].at # "idle" => processor'[j].source \in Streams
  <1>1. processor \in [Streams -> Processor]
    BY DEF TypeOK, Processor
  <1> DEFINE v == processor[k].valid /\ ~(Holds(k) /\ processor[k].entry = ssrc)
  <1>2. v \in BOOLEAN
    OBVIOUS
  <1>3. processor' = [processor EXCEPT ![k] = [processor[k] EXCEPT !.valid = v]]
    BY DEF Invalidate
  <1> HIDE DEF v
  <1>4. [processor[k] EXCEPT !.valid = v] \in Processor
    BY <1>1, <1>2 DEF Processor
  <1>5. /\ [processor[k] EXCEPT !.valid = v].at = processor[k].at
        /\ [processor[k] EXCEPT !.valid = v].source = processor[k].source
    BY <1>1 DEF Processor
  <1>6. processor' \in [Streams -> Processor]
    BY <1>1, <1>3, <1>4
  <1>7. \A j \in Streams : processor'[j].at = processor[j].at /\ processor'[j].source = processor[j].source
    BY <1>1, <1>3, <1>5
  <1> QED BY <1>6, <1>7 DEF TypeOK

(* A step that starts and stops no flow, and neither moves a stream into   *)
(* the stages that keep its flow running nor out of them.                  *)
LEMMA RunsStay ==
    ASSUME TypeOK, RunsExact, UNCHANGED <<active_, should_stop_, frames_, processor>>,
           \A t \in Streams : stage[t] \in RunStages <=> stage'[t] \in RunStages,
           \A t \in Streams : stage[t] \notin RestStages
             => stage'[t] \notin RestStages /\ socket_'[t] = socket_[t],
           \A k \in Streams : strays[k] = {} \/ strays'[k] # {} \/
             \E t \in Streams : socket_'[t] = k /\ stage'[t] \notin RestStages,
           \A t \in Streams : stage[t] = "stopping" => stage'[t] = "stopping"
    PROVE  RunsExact'
  <1>1. UsedRun'
    BY DEF RunsExact, UsedRun, RunStages, RestStages, UnusedStages
  <1>2. RunningAreUsed'
    BY DEF RunsExact, RunningAreUsed
  <1>3. StoppingIsCalled'
    BY DEF RunsExact, StoppingIsCalled, RestStages, UnusedStages
  <1>4. RestingIsEmpty'
    BY DEF RunsExact, RestingIsEmpty
  <1> QED BY <1>1, <1>2, <1>3, <1>4 DEF RunsExact

(* The socket of the streams of its port, or one of its own that is new to *)
(* the tables: in the second case no stream has it yet.                    *)
LEMMA GetSocketStep ==
    ASSUME IInv, Serial, NEW s \in Streams, NEW p \in Ports \cup {0}, GetSocket(s, p)
    PROVE  IInv'
  <1>0. TypeOK /\ OneCall /\ TablesExact /\ FlowsExact /\ RunsExact /\ PortsExact
    BY DEF IInv, Parts
  <1>a. PICK k \in Streams :
          /\ socket_' = [socket_ EXCEPT ![s] = k]
          /\ \/ Registered(p) /\ k = used_ports_[p] /\ UNCHANGED factoryVars
             \/ /\ ~Registered(p) /\ k = s /\ reception_flows_' = reception_flows_ \cup {k}
                /\ \/ p # 0 /\ BindTo(k, p)
                   \/ p # 0 /\ refused' = TRUE /\ UNCHANGED <<used_ports_, bound>>
                   \/ p = 0 /\ UNCHANGED <<used_ports_, bound, refused>>
    BY <1>0 DEF GetSocket, Registered, TypeOK
  <1>b. reception_flows_' = reception_flows_ \cup {k}
    BY <1>0, <1>a DEF PortsExact, PortEntriesAreAlive, Registered, factoryVars
  <1>c. /\ stage[s] = "none" /\ stage' = [stage EXCEPT ![s] = "socket"]
        /\ src_port_' = [src_port_ EXCEPT ![s] = p]
        /\ \A t \in Streams : stage[t] \in AtRest
        /\ UNCHANGED <<remote_ssrc_, tableVars, threadVars, frameVars, pullVars, crashed>>
    BY DEF GetSocket, Goes, MayCall
  <1>d. \/ Registered(p) /\ k = used_ports_[p] /\ UNCHANGED <<used_ports_, bound, refused>>
        \/ ~Registered(p) /\ k = s /\ p \in Ports /\ UNCHANGED refused
             /\ bound' = [bound EXCEPT ![s] = p] /\ used_ports_' = [used_ports_ EXCEPT ![p] = s]
        \/ ~Registered(p) /\ k = s /\ refused' = TRUE /\ UNCHANGED <<used_ports_, bound>>
        \/ ~Registered(p) /\ k = s /\ p = 0 /\ UNCHANGED <<used_ports_, bound, refused>>
    BY <1>a DEF BindTo, factoryVars
  <1>1. TypeOK'
    <2>1. used_ports_' \in [Ports -> Streams \cup {NoSocket}] /\ bound' \in [Streams -> Ports \cup {0}]
      <3>1. used_ports_ \in [Ports -> Streams \cup {NoSocket}] /\ bound \in [Streams -> Ports \cup {0}]
        BY <1>0 DEF TypeOK
      <3>2. CASE UNCHANGED <<used_ports_, bound>>
        BY <3>1, <3>2
      <3>3. CASE /\ p \in Ports /\ bound' = [bound EXCEPT ![s] = p]
                 /\ used_ports_' = [used_ports_ EXCEPT ![p] = s]
        BY <3>1, <3>3
      <3> QED BY <1>d, <3>2, <3>3
    <2>2. refused' \in BOOLEAN /\ reception_flows_' \subseteq Streams
      BY <1>0, <1>b, <1>d DEF TypeOK
    <2> QED BY <1>0, <1>a, <1>c, <2>1, <2>2 DEF TypeOK, Stages, tableVars, threadVars,
                                                frameVars, pullVars
  <1>2. OneCall'
    BY <1>0 DEF GetSocket, MayCall, Goes, OneCall
  <1>3. TablesExact'
    BY <1>0 DEF GetSocket, Goes, TypeOK, FiledHaveHandlers, UpdatesOnce, FiledUnder,
                HandlerStages, HandlersAreFiled, HooksAreOwned, HookStages, TablesExact,
                tableVars, Ssrcs
  <1>4. FlowsExact'
    <2>1. UsedAreRegistered'
      BY <1>0, <1>a, <1>b, <1>c DEF FlowsExact, UsedAreRegistered, UnusedStages, TypeOK
    <2>2. RegisteredAreUsed'
      <3>1. UNCHANGED strays /\ socket_'[s] = k /\ stage'[s] \notin UnusedStages
        BY <1>0, <1>a, <1>c DEF TypeOK, UnusedStages, tableVars
      <3>2. \A t \in Streams : t # s => stage'[t] = stage[t] /\ socket_'[t] = socket_[t]
        BY <1>0, <1>a, <1>c DEF TypeOK
      <3>3. stage[s] \in UnusedStages
        BY <1>c DEF UnusedStages
      <3> QED BY <1>0, <1>b, <3>1, <3>2, <3>3 DEF FlowsExact, RegisteredAreUsed
    <2>3. LastIsAlone'
      BY <1>0, <1>a, <1>b, <1>c DEF FlowsExact, LastIsAlone, UnusedStages, TypeOK, AtRest
    <2> QED BY <2>1, <2>2, <2>3 DEF FlowsExact
  <1>5. RunsExact'
    BY <1>0, RunsStay DEF GetSocket, BindTo, MayCall, AtRest, Goes, TypeOK, Stages,
                          RunStages, RestStages, UnusedStages, tableVars, streamVars, threadVars, frameVars
  <1>6. PortsExact'
    <2>1. PortEntriesAreAlive'
      BY <1>0, <1>a, <1>b, <1>c, <1>d, MuxAssumption
         DEF PortsExact, PortEntriesAreAlive, UnbornHaveNoSocket, Registered, TypeOK
    <2>2. UnbornHaveNoSocket'
      <3>1. k = s \/ k \in reception_flows_
        BY <1>0, <1>d DEF PortsExact, PortEntriesAreAlive, Registered
      <3>2. SUFFICES ASSUME NEW t \in Streams, t # s, stage[t] = "none"
                     PROVE  /\ bound'[t] = 0 /\ t \notin reception_flows_'
                            /\ \A r \in Streams : socket_'[r] # t
        BY <1>0, <1>c DEF UnbornHaveNoSocket, TypeOK
      <3>3. /\ bound[t] = 0 /\ t \notin reception_flows_
            /\ \A r \in Streams : socket_[r] # t
        BY <1>0, <3>2 DEF PortsExact, UnbornHaveNoSocket
      <3>4. t # k
        BY <3>1, <3>2, <3>3
      <3>5. bound'[t] = bound[t]
        BY <1>0, <1>d, <3>2 DEF TypeOK
      <3> QED BY <1>0, <1>a, <1>b, <3>3, <3>4, <3>5 DEF TypeOK
    <2>3. BoundAsAsked'
      BY <1>0, <1>a, <1>c, <1>d, MuxAssumption
         DEF PortsExact, BoundAsAsked, UnbornHaveNoSocket, PortEntriesAreAlive, Registered,
             TypeOK, AtRest
    <2>4. BoundAreRegistered'
      BY <1>0, <1>a, <1>b, <1>c, <1>d, MuxAssumption
         DEF PortsExact, BoundAreRegistered, UnbornHaveNoSocket, PortEntriesAreAlive,
             Registered, TypeOK
    <2> QED BY <2>1, <2>2, <2>3, <2>4 DEF PortsExact
  <1> QED BY <1>1, <1>2, <1>3, <1>4, <1>5, <1>6 DEF IInv, Parts

(* The port is bound here only for a socket that no other stream has, and  *)
(* only if the table does not have it.                                     *)
LEMMA SetOptionsStep ==
    ASSUME IInv, Serial, NEW s \in Streams, SetOptions(s)
    PROVE  IInv'
  <1>0. TypeOK /\ OneCall /\ TablesExact /\ FlowsExact /\ RunsExact /\ PortsExact
    BY DEF IInv, Parts
  <1>a. \/ UNCHANGED factoryVars
        \/ /\ src_port_[s] \in Ports /\ ~Registered(src_port_[s])
           /\ bound' = [bound EXCEPT ![socket_[s]] = src_port_[s]]
           /\ used_ports_' = [used_ports_ EXCEPT ![src_port_[s]] = socket_[s]]
           /\ UNCHANGED <<reception_flows_, refused>>
    BY <1>0 DEF SetOptions, BindTo, TypeOK
  <1>b. /\ stage[s] = "socket" /\ stage' = [stage EXCEPT ![s] = "options"]
        /\ UNCHANGED <<streamVars, tableVars, threadVars, frameVars, pullVars, crashed>>
    BY DEF SetOptions, Goes
  <1>1. TypeOK'
    <2>1. used_ports_' \in [Ports -> Streams \cup {NoSocket}] /\ bound' \in [Streams -> Ports \cup {0}]
      BY <1>0, <1>a, <1>b DEF TypeOK, factoryVars
    <2>2. stage' \in [Streams -> Stages] /\ refused' \in BOOLEAN /\ reception_flows_' \subseteq Streams
      BY <1>0, <1>a, <1>b DEF TypeOK, Stages, factoryVars
    <2>3. \A t \in Streams : stage'[t] # "none" => socket_'[t] \in Streams
      BY <1>0, <1>b DEF TypeOK, streamVars
    <2> QED BY <1>0, <1>b, <2>1, <2>2, <2>3 DEF TypeOK, streamVars, tableVars, threadVars,
                                                frameVars, pullVars
  <1>2. OneCall'
    BY <1>0 DEF SetOptions, Goes, OneCall, AtRest
  <1>3. TablesExact'
    BY <1>0 DEF SetOptions, Goes, FiledHaveHandlers, UpdatesOnce, FiledUnder, HandlerStages,
                HandlersAreFiled, HooksAreOwned, HookStages, TablesExact, streamVars,
                tableVars
  <1>4. FlowsExact'
    BY <1>0 DEF tableVars, SetOptions, Goes, UsedAreRegistered, LastIsAlone, UnusedStages,
                RegisteredAreUsed, FlowsExact, factoryVars, streamVars
  <1>5. RunsExact'
    BY <1>0, RunsStay DEF SetOptions, Goes, TypeOK, Stages, RunStages, RestStages, UnusedStages, tableVars, streamVars,
                          threadVars, frameVars
  <1>6. PortsExact'
    <2>0. \/ UNCHANGED <<used_ports_, reception_flows_, bound, refused>>
          \/ /\ socket_[s] = s /\ bound[s] = 0 /\ src_port_[s] \in Ports /\ ~Registered(src_port_[s])
             /\ bound' = [bound EXCEPT ![s] = src_port_[s]]
             /\ used_ports_' = [used_ports_ EXCEPT ![src_port_[s]] = s]
             /\ UNCHANGED <<reception_flows_, refused>>
      BY <1>0, <1>a, <1>b, MuxAssumption DEF PortsExact, BoundAsAsked, TypeOK, factoryVars
    <2>1. PortEntriesAreAlive'
      <3>1. CASE UNCHANGED <<used_ports_, reception_flows_, bound, refused>>
        BY <1>0, <3>1 DEF PortsExact, PortEntriesAreAlive
      <3>2. CASE /\ socket_[s] = s /\ bound[s] = 0 /\ src_port_[s] \in Ports
                 /\ bound' = [bound EXCEPT ![s] = src_port_[s]]
                 /\ used_ports_' = [used_ports_ EXCEPT ![src_port_[s]] = s]
                 /\ UNCHANGED <<reception_flows_, refused>>
        <4>1. SUFFICES ASSUME NEW q \in Ports, used_ports_'[q] # NoSocket
                       PROVE  bound'[used_ports_'[q]] = q /\ used_ports_'[q] \in reception_flows_
          BY <3>2 DEF PortEntriesAreAlive
        <4>2. s \in reception_flows_
          BY <1>0, <1>b, <3>2 DEF FlowsExact, UsedAreRegistered, UnusedStages
        <4>3. CASE q = src_port_[s]
          BY <1>0, <3>2, <4>2, <4>3 DEF TypeOK
        <4>4. CASE q # src_port_[s]
          <5>1. used_ports_'[q] = used_ports_[q]
            BY <1>0, <3>2, <4>4 DEF TypeOK
          <5>2. bound[used_ports_[q]] = q /\ used_ports_[q] \in reception_flows_
            BY <1>0, <4>1, <5>1 DEF PortsExact, PortEntriesAreAlive
          <5>3. used_ports_[q] # s
            BY <3>2, <5>2, MuxAssumption
          <5> QED BY <1>0, <3>2, <5>1, <5>2, <5>3 DEF TypeOK
        <4> QED BY <4>3, <4>4
      <3> QED BY <2>0, <3>1, <3>2
    <2>2. UnbornHaveNoSocket'
      BY <1>0, <1>b, <2>0, MuxAssumption DEF PortsExact, UnbornHaveNoSocket, TypeOK, streamVars
    <2>3. BoundAsAsked'
      BY <1>0, <1>b, <2>0, MuxAssumption DEF PortsExact, BoundAsAsked, Registered, TypeOK,
                                             streamVars, OneCall, AtRest
    <2>4. BoundAreRegistered'
      <3>1. SUFFICES ASSUME refused = FALSE, NEW k \in reception_flows_, bound'[k] # 0
                     PROVE  used_ports_'[bound'[k]] = k
        BY <2>0 DEF BoundAreRegistered
      <3>2. bound[k] # 0 => used_ports_[bound[k]] = k /\ bound[k] \in Ports
        BY <1>0, <3>1 DEF PortsExact, BoundAreRegistered, TypeOK
      <3>3. k \in Streams /\ k # NoSocket
        BY <1>0, MuxAssumption DEF TypeOK
      <3>4. CASE UNCHANGED <<used_ports_, bound>>
        BY <3>1, <3>2, <3>4
      <3>5. CASE ~UNCHANGED <<used_ports_, bound>>
        <4>1. /\ src_port_[s] \in Ports /\ ~Registered(src_port_[s])
              /\ bound' = [bound EXCEPT ![s] = src_port_[s]]
              /\ used_ports_' = [used_ports_ EXCEPT ![src_port_[s]] = s]
          BY <2>0, <3>5
        <4>2. CASE k = s
          BY <1>0, <4>1, <4>2 DEF TypeOK
        <4>3. CASE k # s
          <5>1. bound'[k] = bound[k]
            BY <1>0, <4>1, <4>3 DEF TypeOK
          <5>2. bound[k] # src_port_[s]
            BY <3>1, <3>2, <3>3, <4>1, <5>1 DEF Registered
          <5> QED BY <1>0, <3>1, <3>2, <4>1, <5>1, <5>2 DEF TypeOK
        <4> QED BY <4>2, <4>3
      <3> QED BY <3>4, <3>5
    <2> QED BY <2>1, <2>2, <2>3, <2>4 DEF PortsExact
  <1> QED BY <1>1, <1>2, <1>3, <1>4, <1>5, <1>6 DEF IInv, Parts

(* The flow of a stream's socket is registered: nothing crashes here.      *)
LEMMA GetFlowStep ==
    ASSUME IInv, Serial, NEW s \in Streams, GetFlow(s)
    PROVE  IInv'
  <1>0. TypeOK /\ OneCall /\ TablesExact /\ FlowsExact /\ RunsExact /\ PortsExact
    BY DEF IInv, Parts
  <1>a. /\ stage[s] = "options" /\ Goes(s, "flow")
        /\ UNCHANGED <<factoryVars, streamVars, tableVars, threadVars, frameVars, pullVars, crashed>>
    BY <1>0 DEF GetFlow, FlowsExact, UsedAreRegistered, UnusedStages
  <1>1. TypeOK'
    BY <1>0, <1>a DEF TypeOK, factoryVars, streamVars, tableVars, threadVars, frameVars,
                      pullVars, Stages, Goes
  <1>2. OneCall'
    BY <1>0, <1>a DEF OneCall, AtRest, Goes
  <1>3. TablesExact'
    BY <1>0, <1>a DEF FiledHaveHandlers, UpdatesOnce, FiledUnder, HandlerStages,
                      HandlersAreFiled, HooksAreOwned, HookStages, TablesExact, streamVars,
                      tableVars, Goes
  <1>4. FlowsExact'
    BY <1>0, <1>a DEF tableVars, UsedAreRegistered, LastIsAlone, UnusedStages, RegisteredAreUsed,
                      FlowsExact, factoryVars, streamVars, Goes
  <1>5. RunsExact'
    BY <1>0, <1>a, RunsStay DEF Goes, TypeOK, Stages, RunStages, RestStages, UnusedStages, tableVars, threadVars, frameVars,
                                streamVars
  <1>6. PortsExact'
    BY <1>0, <1>a DEF PortEntriesAreAlive, BoundAsAsked, UnbornHaveNoSocket, OneCall,
                      AtRest, BoundAreRegistered, PortsExact, factoryVars, streamVars, Goes
  <1> QED BY <1>1, <1>2, <1>3, <1>4, <1>5, <1>6 DEF IInv, Parts

(* The first handler files the stream under its SSRC.                      *)
LEMMA InstallRtpStep ==
    ASSUME IInv, Serial, NEW s \in Streams, InstallRtp(s)
    PROVE  IInv'
  <1>0. TypeOK /\ OneCall /\ TablesExact /\ FlowsExact /\ RunsExact /\ PortsExact
    BY DEF IInv, Parts
  <1>1. TypeOK'
    BY <1>0 DEF InstallRtp, Install, Goes, TypeOK, factoryVars, streamVars, threadVars,
                frameVars, pullVars, Stages
  <1>2. OneCall'
    BY <1>0 DEF InstallRtp, Goes, OneCall, AtRest
  <1>3. TablesExact'
    BY <1>0 DEF InstallRtp, Install, Goes, TypeOK, FiledHaveHandlers, UpdatesOnce,
                FiledUnder, HandlerStages, HandlersAreFiled, HooksAreOwned, HookStages,
                TablesExact, streamVars
  <1>4. FlowsExact'
    BY <1>0 DEF InstallRtp, Install, Goes, UsedAreRegistered, LastIsAlone, UnusedStages,
                RegisteredAreUsed, FlowsExact, factoryVars, streamVars
  <1>5. RunsExact'
    BY <1>0, RunsStay DEF InstallRtp, Install, Goes, TypeOK, Stages, RunStages, RestStages, UnusedStages, tableVars, streamVars,
                          threadVars, frameVars
  <1>6. PortsExact'
    BY <1>0 DEF InstallRtp, Install, Goes, PortEntriesAreAlive, BoundAsAsked,
                UnbornHaveNoSocket, Registered, BoundAreRegistered, PortsExact, factoryVars,
                streamVars
  <1> QED BY <1>1, <1>2, <1>3, <1>4, <1>5, <1>6 DEF IInv, Parts

(* The second handler is filed where the first one is.                     *)
LEMMA InstallMediaStep ==
    ASSUME IInv, Serial, NEW s \in Streams, InstallMedia(s)
    PROVE  IInv'
  <1>0. TypeOK /\ OneCall /\ TablesExact /\ FlowsExact /\ RunsExact /\ PortsExact
    BY DEF IInv, Parts
  <1>1. TypeOK'
    <2>1. stage' \in [Streams -> Stages]
      BY <1>0 DEF InstallMedia, Goes, TypeOK, Stages
    <2>2. /\ packet_handlers_' \in [Streams -> SUBSET Ssrcs]
          /\ strays' \in [Streams -> SUBSET Ssrcs]
          /\ parts' \in [Streams -> SUBSET {"rtp", "media", "getter"}]
      BY <1>0 DEF InstallMedia, Install, TypeOK
    <2>3. \A t \in Streams : stage'[t] # "none" => socket_'[t] \in Streams
      BY <1>0 DEF InstallMedia, Install, Goes, TypeOK, streamVars
    <2>4. UNCHANGED <<factoryVars, streamVars, hooks_, threadVars, frameVars, pullVars, crashed>>
      BY DEF InstallMedia, Install
    <2> QED BY <1>0, <2>1, <2>2, <2>3, <2>4 DEF TypeOK, factoryVars, streamVars, threadVars,
                                                frameVars, pullVars
  <1>2. OneCall'
    BY <1>0 DEF InstallMedia, Goes, OneCall, AtRest
  <1>3. TablesExact'
    BY <1>0 DEF InstallMedia, Install, Goes, TypeOK, FiledHaveHandlers, UpdatesOnce,
                FiledUnder, HandlerStages, HandlersAreFiled, HooksAreOwned, HookStages,
                TablesExact, streamVars
  <1>4. FlowsExact'
    BY <1>0 DEF InstallMedia, Install, Goes, UsedAreRegistered, LastIsAlone, UnusedStages,
                RegisteredAreUsed, FlowsExact, factoryVars, streamVars
  <1>5. RunsExact'
    BY <1>0, RunsStay DEF InstallMedia, Install, Goes, TypeOK, Stages, RunStages, RestStages, UnusedStages, tableVars,
                          streamVars, threadVars, frameVars
  <1>6. PortsExact'
    BY <1>0 DEF InstallMedia, Install, Goes, PortEntriesAreAlive, BoundAsAsked,
                UnbornHaveNoSocket, Registered, BoundAreRegistered, PortsExact, factoryVars,
                streamVars
  <1> QED BY <1>1, <1>2, <1>3, <1>4, <1>5, <1>6 DEF IInv, Parts

(* The third handler is filed where the first two are.                     *)
LEMMA InstallGetterStep ==
    ASSUME IInv, Serial, NEW s \in Streams, InstallGetter(s)
    PROVE  IInv'
  <1>0. TypeOK /\ OneCall /\ TablesExact /\ FlowsExact /\ RunsExact /\ PortsExact
    BY DEF IInv, Parts
  <1>1. TypeOK'
    BY <1>0 DEF InstallGetter, Install, Goes, TypeOK, factoryVars, streamVars, threadVars,
                frameVars, pullVars, Stages
  <1>2. OneCall'
    BY <1>0 DEF InstallGetter, Goes, OneCall, AtRest
  <1>3. TablesExact'
    BY <1>0 DEF InstallGetter, Install, Goes, TypeOK, FiledHaveHandlers, UpdatesOnce,
                FiledUnder, HandlerStages, HandlersAreFiled, HooksAreOwned, HookStages,
                TablesExact, streamVars
  <1>4. FlowsExact'
    BY <1>0 DEF InstallGetter, Install, Goes, UsedAreRegistered, LastIsAlone, UnusedStages,
                RegisteredAreUsed, FlowsExact, factoryVars, streamVars
  <1>5. RunsExact'
    BY <1>0, RunsStay DEF InstallGetter, Install, Goes, TypeOK, Stages, RunStages, RestStages, UnusedStages, tableVars,
                          streamVars, threadVars, frameVars
  <1>6. PortsExact'
    BY <1>0 DEF InstallGetter, Install, Goes, PortEntriesAreAlive, BoundAsAsked,
                UnbornHaveNoSocket, Registered, BoundAreRegistered, PortsExact, factoryVars,
                streamVars
  <1> QED BY <1>1, <1>2, <1>3, <1>4, <1>5, <1>6 DEF IInv, Parts

(* A flow that starts is empty, and the stream that starts it uses it.     *)
LEMMA StartFlowStep ==
    ASSUME IInv, Serial, NEW s \in Streams, StartFlow(s)
    PROVE  IInv'
  <1>0. TypeOK /\ OneCall /\ TablesExact /\ FlowsExact /\ RunsExact /\ PortsExact
    BY DEF IInv, Parts
  <1>1. TypeOK'
    BY <1>0 DEF StartFlow, Goes, TypeOK, factoryVars, streamVars, tableVars, frameVars,
                pullVars, Stages
  <1>2. OneCall'
    BY <1>0 DEF StartFlow, Goes, OneCall, AtRest
  <1>3. TablesExact'
    BY <1>0 DEF StartFlow, Goes, FiledHaveHandlers, UpdatesOnce, FiledUnder, HandlerStages,
                HandlersAreFiled, HooksAreOwned, HookStages, TablesExact, streamVars,
                tableVars
  <1>4. FlowsExact'
    BY <1>0 DEF tableVars, StartFlow, Goes, UsedAreRegistered, LastIsAlone, UnusedStages,
                RegisteredAreUsed, FlowsExact, factoryVars, streamVars
  <1>5. RunsExact'
    <2>0. /\ stage[s] = "start" /\ stage' = [stage EXCEPT ![s] = "live"]
          /\ active_' = [active_ EXCEPT ![socket_[s]] = TRUE]
          /\ should_stop_' = [should_stop_ EXCEPT ![socket_[s]] = @ /\ active_[socket_[s]]]
          /\ UNCHANGED <<socket_, strays, frames_, processor>>
      BY DEF StartFlow, Goes, streamVars, tableVars, frameVars
    <2>1. UsedRun'
      BY <1>0, <2>0 DEF RunsExact, UsedRun, RunStages, TypeOK
    <2>2. RunningAreUsed'
      <3>1. SUFFICES ASSUME NEW k \in Streams, active_'[k] = TRUE
                     PROVE  \/ \E t \in Streams : socket_[t] = k /\ stage'[t] \notin RestStages
                            \/ strays[k] # {}
        BY <2>0 DEF RunningAreUsed
      <3>2. stage'[s] \notin RestStages /\ stage[s] \notin RestStages
        BY <1>0, <2>0 DEF RestStages, UnusedStages, TypeOK
      <3>3. \A t \in Streams : t # s => stage'[t] = stage[t]
        BY <1>0, <2>0 DEF TypeOK
      <3>4. CASE k = socket_[s]
        BY <3>2, <3>4
      <3>5. CASE k # socket_[s]
        <4>1. active_[k] = TRUE
          BY <1>0, <2>0, <3>1, <3>5 DEF TypeOK
        <4> QED BY <1>0, <3>2, <3>3, <4>1 DEF RunsExact, RunningAreUsed
      <3> QED BY <3>4, <3>5
    <2>3. StoppingIsCalled'
      BY <1>0, <2>0, MuxAssumption DEF RunsExact, StoppingIsCalled, TypeOK
    <2>4. RestingIsEmpty'
      BY <1>0, <2>0 DEF RunsExact, RestingIsEmpty, TypeOK
    <2> QED BY <2>1, <2>2, <2>3, <2>4 DEF RunsExact
  <1>6. PortsExact'
    BY <1>0 DEF StartFlow, Goes, PortEntriesAreAlive, BoundAsAsked, UnbornHaveNoSocket,
                OneCall, AtRest, BoundAreRegistered, PortsExact, factoryVars, streamVars
  <1> QED BY <1>1, <1>2, <1>3, <1>4, <1>5, <1>6 DEF IInv, Parts

(* Handlers and hook move to the new SSRC together; no other stream has    *)
(* it.                                                                     *)
LEMMA UpdateTablesStep ==
    ASSUME IInv, Serial, NEW s \in Streams, UpdateTables(s)
    PROVE  IInv'
  <1>0. TypeOK /\ OneCall /\ TablesExact /\ FlowsExact /\ RunsExact /\ PortsExact
    BY DEF IInv, Parts
  <1>1. TypeOK'
    <2>1. /\ packet_handlers_' \in [Streams -> SUBSET Ssrcs] /\ hooks_' \in [Streams -> SUBSET Ssrcs]
          /\ strays' \in [Streams -> SUBSET Ssrcs]
      BY <1>0 DEF TypeOK, UpdateTables, Renamed, Ssrcs
    <2>2. /\ processor' \in [Streams -> Processor]
          /\ \A j \in Streams : processor'[j].at # "idle" => processor'[j].source \in Streams
      <3>1. socket_[s] \in Streams /\ Invalidate(socket_[s], remote_ssrc_[s])
        BY <1>0 DEF TypeOK, UpdateTables
      <3> QED BY <1>0, <3>1, InvalidateType
    <2>3. /\ stage' \in [Streams -> Stages]
          /\ \A t \in Streams : stage'[t] # "none" => socket_[t] \in Streams
      BY <1>0 DEF TypeOK, UpdateTables, Goes, Stages
    <2>4. UNCHANGED <<factoryVars, streamVars, parts, threadVars, frames_, packets, pullVars, crashed>>
      BY DEF UpdateTables
    <2> QED BY <1>0, <2>1, <2>2, <2>3, <2>4
            DEF TypeOK, Processor, factoryVars, streamVars, threadVars, pullVars
  <1>2. OneCall'
    BY <1>0 DEF UpdateTables, MayCall, Goes, OneCall
  <1>3. TablesExact'
    <2>0. /\ stage[s] = "live" /\ stage' = [stage EXCEPT ![s] = "update"]
          /\ remote_ssrc_[s] = <<s, "random">>
          /\ UNCHANGED <<socket_, remote_ssrc_, parts>>
          /\ packet_handlers_' = [packet_handlers_ EXCEPT ![socket_[s]] =
                (@ \ {<<s, "random">>}) \cup {<<s, "peer">>}]
          /\ hooks_' = [hooks_ EXCEPT ![socket_[s]] =
                IF <<s, "random">> \in @ THEN (@ \ {<<s, "random">>}) \cup {<<s, "peer">>} ELSE @]
      BY <1>0 DEF UpdateTables, Renamed, Goes, streamVars, TablesExact, HandlersAreFiled,
                  FiledUnder, HandlerStages, TypeOK
    <2>1. FiledHaveHandlers'
      BY <1>0, <2>0 DEF TablesExact, FiledHaveHandlers, FiledUnder, HandlerStages, TypeOK, Ssrcs
    <2>2. HandlersAreFiled'
      BY <1>0, <2>0 DEF TablesExact, HandlersAreFiled, FiledUnder, HandlerStages, TypeOK, Ssrcs
    <2>3. HooksAreOwned'
      <3>1. SUFFICES ASSUME NEW k \in Streams, NEW ssrc \in hooks_'[k]
                     PROVE  /\ socket_[ssrc[1]] = k /\ stage'[ssrc[1]] \in HookStages
                            /\ ssrc = FiledUnder(ssrc[1])'
        BY <2>0 DEF HooksAreOwned
      <3>2. \A t \in Streams : t # s => stage'[t] = stage[t] /\ FiledUnder(t)' = FiledUnder(t)
        BY <1>0, <2>0 DEF FiledUnder, TypeOK
      <3>3. stage'[s] = "update" /\ FiledUnder(s)' = <<s, "peer">> /\ FiledUnder(s) = <<s, "random">>
        BY <1>0, <2>0 DEF FiledUnder, TypeOK
      <3>4. CASE ssrc \in hooks_[k] /\ ssrc # <<s, "random">>
        <4>1. /\ socket_[ssrc[1]] = k /\ stage[ssrc[1]] \in HookStages
              /\ ssrc = FiledUnder(ssrc[1]) /\ ssrc[1] \in Streams
          BY <1>0, <3>4 DEF TablesExact, HooksAreOwned, TypeOK, Ssrcs
        <4>2. ssrc[1] # s
          BY <3>3, <3>4, <4>1
        <4> QED BY <3>2, <4>1, <4>2
      <3>5. CASE ssrc = <<s, "peer">> /\ k = socket_[s]
        BY <3>3, <3>5 DEF HookStages
      <3>6. CASE ssrc = <<s, "random">> /\ ssrc \in hooks_[k]
        <4>1. socket_[s] = k
          BY <1>0, <3>6 DEF TablesExact, HooksAreOwned
        <4> QED BY <1>0, <2>0, <3>6, <4>1 DEF TypeOK
      <3>7. \/ hooks_'[k] = hooks_[k]
            \/ /\ k = socket_[s]
               /\ hooks_'[k] = (hooks_[k] \ {<<s, "random">>}) \cup {<<s, "peer">>}
        <4>1. hooks_ \in [Streams -> SUBSET Ssrcs]
          BY <1>0 DEF TypeOK
        <4>2. CASE k = socket_[s]
          BY <2>0, <4>1, <4>2
        <4>3. CASE k # socket_[s]
          BY <2>0, <4>1, <4>3
        <4> QED BY <4>2, <4>3
      <3> QED BY <3>4, <3>5, <3>6, <3>7
    <2>4. UpdatesOnce'
      BY <1>0, <2>0 DEF TablesExact, UpdatesOnce, TypeOK
    <2> QED BY <2>1, <2>2, <2>3, <2>4 DEF TablesExact
  <1>4. FlowsExact'
    BY <1>0 DEF UpdateTables, Goes, UsedAreRegistered, LastIsAlone, UnusedStages,
                RegisteredAreUsed, FlowsExact, factoryVars, streamVars
  <1>5. RunsExact'
    <2>0. /\ stage[s] = "live" /\ stage' = [stage EXCEPT ![s] = "update"]
          /\ Invalidate(socket_[s], remote_ssrc_[s])
          /\ UNCHANGED <<socket_, active_, should_stop_, frames_>>
          /\ \A k \in Streams : k # socket_[s] => strays'[k] = strays[k]
      BY <1>0 DEF UpdateTables, Goes, streamVars, threadVars, TypeOK
    <2>1. UsedRun'
      BY <1>0, <2>0 DEF RunsExact, UsedRun, RunStages, TypeOK
    <2>2. RunningAreUsed'
      <3>1. SUFFICES ASSUME NEW k \in Streams, active_[k] = TRUE
                     PROVE  \/ \E t \in Streams : socket_[t] = k /\ stage'[t] \notin RestStages
                            \/ strays'[k] # {}
        BY <2>0 DEF RunningAreUsed
      <3>2. stage'[s] \notin RestStages
        BY <1>0, <2>0 DEF RestStages, UnusedStages, TypeOK
      <3>3. \A t \in Streams : t # s => stage'[t] = stage[t]
        BY <1>0, <2>0 DEF TypeOK
      <3> QED BY <1>0, <2>0, <3>1, <3>2, <3>3 DEF RunsExact, RunningAreUsed
    <2>3. StoppingIsCalled'
      BY <1>0, <2>0 DEF RunsExact, StoppingIsCalled, TypeOK
    <2>4. RestingIsEmpty'
      BY <1>0, <2>0 DEF RunsExact, RestingIsEmpty, Invalidate, TypeOK
    <2> QED BY <2>1, <2>2, <2>3, <2>4 DEF RunsExact
  <1>6. PortsExact'
    BY <1>0 DEF UpdateTables, MayCall, Goes, PortEntriesAreAlive, BoundAsAsked,
                UnbornHaveNoSocket, AtRest, BoundAreRegistered, PortsExact, factoryVars,
                streamVars
  <1> QED BY <1>1, <1>2, <1>3, <1>4, <1>5, <1>6 DEF IInv, Parts

(* The stream's own record of its SSRC follows the tables.                 *)
LEMMA SetRemoteStep ==
    ASSUME IInv, Serial, NEW s \in Streams, SetRemote(s)
    PROVE  IInv'
  <1>0. TypeOK /\ OneCall /\ TablesExact /\ FlowsExact /\ RunsExact /\ PortsExact
    BY DEF IInv, Parts
  <1>1. TypeOK'
    BY <1>0 DEF SetRemote, Goes, TypeOK, factoryVars, tableVars, threadVars, frameVars,
                pullVars, Ssrcs, Stages
  <1>2. OneCall'
    BY <1>0 DEF SetRemote, Goes, OneCall, AtRest
  <1>3. TablesExact'
    <2>1. /\ stage[s] = "update" /\ stage' = [stage EXCEPT ![s] = "live"]
          /\ remote_ssrc_' = [remote_ssrc_ EXCEPT ![s] = <<s, "peer">>]
          /\ UNCHANGED <<socket_, packet_handlers_, hooks_, parts>>
      BY DEF SetRemote, Goes, tableVars
    <2>2. \A t \in Streams : /\ FiledUnder(t)' = FiledUnder(t)
                             /\ t # s => stage'[t] = stage[t]
      BY <1>0, <2>1 DEF FiledUnder, TypeOK
    <2>3. stage'[s] = "live"
      BY <1>0, <2>1 DEF TypeOK
    <2>4. FiledHaveHandlers'
      BY <1>0, <2>1, <2>2, <2>3 DEF TablesExact, FiledHaveHandlers, HandlerStages, TypeOK, Ssrcs
    <2>5. HandlersAreFiled'
      BY <1>0, <2>1, <2>2, <2>3 DEF TablesExact, HandlersAreFiled, HandlerStages
    <2>6. HooksAreOwned'
      BY <1>0, <2>1, <2>2, <2>3 DEF TablesExact, HooksAreOwned, HookStages, TypeOK, Ssrcs
    <2>7. UpdatesOnce'
      BY <1>0, <2>1, <2>3 DEF TablesExact, UpdatesOnce, TypeOK
    <2> QED BY <2>4, <2>5, <2>6, <2>7 DEF TablesExact
  <1>4. FlowsExact'
    BY <1>0 DEF tableVars, SetRemote, Goes, UsedAreRegistered, LastIsAlone, UnusedStages,
                RegisteredAreUsed, FlowsExact, factoryVars
  <1>5. RunsExact'
    BY <1>0, RunsStay DEF SetRemote, Goes, TypeOK, Stages, RunStages, RestStages, UnusedStages, tableVars, streamVars,
                          threadVars, frameVars
  <1>6. PortsExact'
    BY <1>0 DEF SetRemote, Goes, PortEntriesAreAlive, BoundAsAsked, UnbornHaveNoSocket,
                OneCall, AtRest, BoundAreRegistered, PortsExact, factoryVars
  <1> QED BY <1>1, <1>2, <1>3, <1>4, <1>5, <1>6 DEF IInv, Parts

(* A hook is filed under the SSRC its stream has by then.                  *)
LEMMA InstallHookStep ==
    ASSUME IInv, Serial, NEW s \in Streams, InstallHook(s)
    PROVE  IInv'
  <1>0. TypeOK /\ OneCall /\ TablesExact /\ FlowsExact /\ RunsExact /\ PortsExact
    BY DEF IInv, Parts
  <1>1. TypeOK'
    BY <1>0 DEF InstallHook, TypeOK, factoryVars, streamVars, threadVars, frameVars,
                pullVars
  <1>2. OneCall'
    BY <1>0 DEF InstallHook, OneCall
  <1>3. TablesExact'
    BY <1>0 DEF InstallHook, TypeOK, FiledHaveHandlers, UpdatesOnce, FiledUnder,
                HandlersAreFiled, HooksAreOwned, HookStages, TablesExact, streamVars
  <1>4. FlowsExact'
    BY <1>0 DEF InstallHook, UsedAreRegistered, LastIsAlone, RegisteredAreUsed, FlowsExact,
                factoryVars, streamVars
  <1>5. RunsExact'
    BY <1>0 DEF InstallHook, UsedRun, RunningAreUsed, StoppingIsCalled, RestingIsEmpty,
                RunsExact, streamVars, threadVars, frameVars
  <1>6. PortsExact'
    BY <1>0 DEF InstallHook, MayCall, PortEntriesAreAlive, BoundAsAsked, UnbornHaveNoSocket,
                AtRest, BoundAreRegistered, PortsExact, factoryVars, streamVars
  <1> QED BY <1>1, <1>2, <1>3, <1>4, <1>5, <1>6 DEF IInv, Parts

(* The stream's handlers leave the table; its flow runs on for now, and    *)
(* its hook stays.                                                         *)
LEMMA RemoveHandlersStep ==
    ASSUME IInv, Serial, NEW s \in Streams, RemoveHandlers(s)
    PROVE  IInv'
  <1>0. TypeOK /\ OneCall /\ TablesExact /\ FlowsExact /\ RunsExact /\ PortsExact
    BY DEF IInv, Parts
  <1>1. TypeOK'
    <2>1. /\ processor' \in [Streams -> Processor]
          /\ \A j \in Streams : processor'[j].at # "idle" => processor'[j].source \in Streams
      <3>1. socket_[s] \in Streams /\ Invalidate(socket_[s], remote_ssrc_[s])
        BY <1>0 DEF TypeOK, RemoveHandlers
      <3> QED BY <1>0, <3>1, InvalidateType
    <2> QED BY <1>0, <2>1
            DEF TypeOK, Processor, RemoveHandlers, Goes, Stages, Ssrcs, factoryVars,
                streamVars,
            threadVars, pullVars
  <1>2. OneCall'
    BY <1>0 DEF RemoveHandlers, MayCall, Goes, OneCall
  <1>3. TablesExact'
    BY <1>0 DEF RemoveHandlers, Goes, TypeOK, FiledHaveHandlers, UpdatesOnce, FiledUnder,
                HandlerStages, HandlersAreFiled, HooksAreOwned, HookStages, TablesExact,
                streamVars
  <1>4. FlowsExact'
    BY <1>0 DEF RemoveHandlers, Goes, UsedAreRegistered, LastIsAlone, UnusedStages,
                RegisteredAreUsed, FlowsExact, factoryVars, streamVars
  <1>5. RunsExact'
    <2>0. /\ stage[s] = "live" /\ stage' = [stage EXCEPT ![s] = "removed"]
          /\ Invalidate(socket_[s], remote_ssrc_[s])
          /\ UNCHANGED <<socket_, active_, should_stop_, frames_>>
          /\ \A k \in Streams : k # socket_[s] => strays'[k] = strays[k]
      BY <1>0 DEF RemoveHandlers, Goes, streamVars, threadVars, TypeOK
    <2>1. UsedRun'
      BY <1>0, <2>0 DEF RunsExact, UsedRun, RunStages, TypeOK
    <2>2. RunningAreUsed'
      <3>1. SUFFICES ASSUME NEW k \in Streams, active_[k] = TRUE
                     PROVE  \/ \E t \in Streams : socket_[t] = k /\ stage'[t] \notin RestStages
                            \/ strays'[k] # {}
        BY <2>0 DEF RunningAreUsed
      <3>2. stage'[s] \notin RestStages
        BY <1>0, <2>0 DEF RestStages, UnusedStages, TypeOK
      <3>3. \A t \in Streams : t # s => stage'[t] = stage[t]
        BY <1>0, <2>0 DEF TypeOK
      <3> QED BY <1>0, <2>0, <3>1, <3>2, <3>3 DEF RunsExact, RunningAreUsed
    <2>3. StoppingIsCalled'
      BY <1>0, <2>0 DEF RunsExact, StoppingIsCalled, TypeOK
    <2>4. RestingIsEmpty'
      BY <1>0, <2>0 DEF RunsExact, RestingIsEmpty, Invalidate, TypeOK
    <2> QED BY <2>1, <2>2, <2>3, <2>4 DEF RunsExact
  <1>6. PortsExact'
    BY <1>0 DEF RemoveHandlers, MayCall, Goes, PortEntriesAreAlive, BoundAsAsked,
                UnbornHaveNoSocket, AtRest, BoundAreRegistered, PortsExact, factoryVars,
                streamVars
  <1> QED BY <1>1, <1>2, <1>3, <1>4, <1>5, <1>6 DEF IInv, Parts

(* The tables are exact, so that finding them empty means that no other    *)
(* stream uses the flow.                                                   *)
LEMMA ClearStreamStep ==
    ASSUME IInv, Serial, NEW s \in Streams, ClearStream(s)
    PROVE  IInv'
  <1>0. TypeOK /\ OneCall /\ TablesExact /\ FlowsExact /\ RunsExact /\ PortsExact
    BY DEF IInv, Parts
  <1>a. /\ stage[s] = "removed"
        /\ stage' = [stage EXCEPT ![s] = IF Emptied(Entries(socket_[s])', hooks_'[socket_[s]])
                                         THEN "last" ELSE "cleared"]
        /\ packet_handlers_' = [packet_handlers_ EXCEPT ![socket_[s]] = @ \ {remote_ssrc_[s]}]
        /\ strays' = [strays EXCEPT ![socket_[s]] = @ \ {remote_ssrc_[s]}]
        /\ hooks_' = [hooks_ EXCEPT ![socket_[s]] = @ \ {remote_ssrc_[s]}]
        /\ Invalidate(socket_[s], remote_ssrc_[s])
        /\ UNCHANGED <<factoryVars, streamVars, parts, threadVars, frames_, packets, pullVars, crashed>>
        /\ UNCHANGED <<socket_, reception_flows_, active_, should_stop_, frames_, remote_ssrc_>>
    BY <1>0 DEF ClearStream, Entries, Goes, TypeOK, factoryVars, streamVars, threadVars
  <1>b. /\ stage'[s] = "last" => \A t \in Streams : t # s /\ stage[t] \notin UnusedStages
                                                   => socket_[t] # socket_[s]
        /\ stage'[s] # "last" =>
             /\ stage'[s] = "cleared"
             /\ \/ strays'[socket_[s]] # {}
                \/ \E t \in Streams : /\ t # s /\ socket_[t] = socket_[s]
                                      /\ stage[t] = "live" /\ stage'[t] = "live"
    <2>1. ASSUME stage'[s] = "last", NEW t \in Streams, t # s, stage[t] \notin UnusedStages,
                 socket_[t] = socket_[s]
          PROVE  FALSE
      <3>1. stage[t] = "live"
        BY <1>0, <1>a, <2>1 DEF OneCall, AtRest, UnusedStages
      <3>2. FiledUnder(t) \in packet_handlers_[socket_[s]] /\ FiledUnder(t) = remote_ssrc_[t]
        BY <1>0, <2>1, <3>1 DEF TablesExact, HandlersAreFiled, HandlerStages, FiledUnder
      <3>3. remote_ssrc_[t] # remote_ssrc_[s]
        BY <1>0, <2>1 DEF TypeOK, Ssrcs
      <3>4. packet_handlers_'[socket_[s]] = {}
        BY <1>0, <1>a, <2>1 DEF Emptied, Entries, TypeOK
      <3> QED BY <1>0, <1>a, <3>2, <3>3, <3>4 DEF TypeOK
    <2>2. ASSUME stage'[s] # "last", strays'[socket_[s]] = {}
          PROVE  \E t \in Streams :
                   t # s /\ socket_[t] = socket_[s] /\ stage[t] = "live" /\ stage'[t] = "live"
      <3>1. PICK ssrc : ssrc \in packet_handlers_'[socket_[s]] \cup hooks_'[socket_[s]]
        BY <1>0, <1>a, <2>2 DEF Emptied, Entries, TypeOK
      <3>2. /\ ssrc \in packet_handlers_[socket_[s]] \cup hooks_[socket_[s]] /\ ssrc # remote_ssrc_[s]
            /\ socket_[s] \in Streams
        BY <1>0, <1>a, <3>1 DEF TypeOK
      <3>3. ssrc[1] \in Streams
        BY <1>0, <3>2 DEF TypeOK, Ssrcs
      <3>4. /\ socket_[ssrc[1]] = socket_[s] /\ ssrc = FiledUnder(ssrc[1])
            /\ stage[ssrc[1]] \in HandlerStages \cup HookStages
        BY <1>0, <3>2 DEF TablesExact, FiledHaveHandlers, HooksAreOwned
      <3>5. ssrc[1] # s
        BY <1>a, <3>2, <3>4 DEF FiledUnder
      <3>6. stage[ssrc[1]] = "live"
        BY <1>0, <1>a, <3>3, <3>4, <3>5 DEF OneCall, AtRest, HandlerStages, HookStages
      <3> QED BY <1>0, <1>a, <3>3, <3>4, <3>5, <3>6 DEF TypeOK
    <2>3. stage'[s] \in {"last", "cleared"}
      BY <1>0, <1>a DEF TypeOK
    <2> QED BY <2>1, <2>2, <2>3
  <1>1. TypeOK'
    <2>1. /\ processor' \in [Streams -> Processor]
          /\ \A j \in Streams : processor'[j].at # "idle" => processor'[j].source \in Streams
      <3>1. socket_[s] \in Streams
        BY <1>0, <1>a DEF TypeOK
      <3> QED BY <1>0, <1>a, <3>1, InvalidateType
    <2>2. /\ packet_handlers_' \in [Streams -> SUBSET Ssrcs] /\ hooks_' \in [Streams -> SUBSET Ssrcs]
          /\ strays' \in [Streams -> SUBSET Ssrcs] /\ stage' \in [Streams -> Stages]
      BY <1>0, <1>a DEF TypeOK, Stages
    <2>3. \A t \in Streams : stage'[t] # "none" => socket_'[t] \in Streams
      BY <1>0, <1>a DEF TypeOK
    <2> QED BY <1>0, <1>a, <2>1, <2>2, <2>3
            DEF TypeOK, Processor, factoryVars, streamVars, threadVars, pullVars
  <1>2. OneCall'
    BY <1>0 DEF ClearStream, Goes, OneCall, AtRest
  <1>3. TablesExact'
    BY <1>0 DEF ClearStream, Goes, TypeOK, FiledHaveHandlers, UpdatesOnce, FiledUnder,
                HandlerStages, HandlersAreFiled, HooksAreOwned, TablesExact, streamVars
  <1>4. FlowsExact'
    <2>1. UsedAreRegistered'
      BY <1>0, <1>a DEF FlowsExact, UsedAreRegistered, UnusedStages, TypeOK
    <2>2. RegisteredAreUsed'
      <3>1. SUFFICES ASSUME NEW k \in reception_flows_
                     PROVE  \/ \E t \in Streams : socket_[t] = k /\ stage'[t] \notin UnusedStages
                            \/ strays'[k] # {}
        BY <1>a DEF RegisteredAreUsed
      <3>2. CASE k = socket_[s]
        BY <1>0, <1>b, <3>2 DEF UnusedStages
      <3>3. CASE k # socket_[s]
        <4>1. strays'[k] = strays[k] /\ \A t \in Streams : socket_[t] = k => stage'[t] = stage[t]
          BY <1>0, <1>a, <3>3 DEF TypeOK
        <4> QED BY <1>0, <4>1 DEF FlowsExact, RegisteredAreUsed
      <3> QED BY <3>2, <3>3
    <2>3. LastIsAlone'
      <3>1. SUFFICES ASSUME NEW r \in Streams, NEW t \in Streams,
                            stage'[r] \in {"last", "stopping", "stopped"},
                            stage'[t] \notin UnusedStages, socket_[r] = socket_[t]
                     PROVE  r = t
        BY <1>a DEF LastIsAlone
      <3>2. r = s /\ stage'[s] = "last"
        BY <1>0, <1>a, <3>1 DEF OneCall, AtRest, TypeOK
      <3> QED BY <1>0, <1>a, <1>b, <3>1, <3>2 DEF UnusedStages, TypeOK
    <2> QED BY <2>1, <2>2, <2>3 DEF FlowsExact
  <1>5. RunsExact'
    <2>1. UsedRun'
      BY <1>0, <1>a DEF RunsExact, UsedRun, RunStages, TypeOK
    <2>2. RunningAreUsed'
      <3>1. SUFFICES ASSUME NEW k \in Streams, active_[k] = TRUE
                     PROVE  \/ \E t \in Streams : socket_[t] = k /\ stage'[t] \notin RestStages
                            \/ strays'[k] # {}
        BY <1>a DEF RunningAreUsed
      <3>2. CASE k = socket_[s]
        BY <1>0, <1>b, <3>2 DEF RestStages, UnusedStages
      <3>3. CASE k # socket_[s]
        <4>1. strays'[k] = strays[k] /\ \A t \in Streams : socket_[t] = k => stage'[t] = stage[t]
          BY <1>0, <1>a, <3>3 DEF TypeOK
        <4> QED BY <1>0, <3>1, <4>1 DEF RunsExact, RunningAreUsed
      <3> QED BY <3>2, <3>3
    <2>3. StoppingIsCalled'
      BY <1>0, <1>a DEF RunsExact, StoppingIsCalled, TypeOK
    <2>4. RestingIsEmpty'
      BY <1>0, <1>a DEF RunsExact, RestingIsEmpty, Invalidate, TypeOK
    <2> QED BY <2>1, <2>2, <2>3, <2>4 DEF RunsExact
  <1>6. PortsExact'
    BY <1>0 DEF ClearStream, Goes, PortEntriesAreAlive, BoundAsAsked, UnbornHaveNoSocket,
                Registered, BoundAreRegistered, PortsExact, factoryVars, streamVars
  <1> QED BY <1>1, <1>2, <1>3, <1>4, <1>5, <1>6 DEF IInv, Parts

(* Only a stream that is alone on its flow stops it.                       *)
LEMMA StopFlowStep ==
    ASSUME IInv, Serial, NEW s \in Streams, StopFlow(s)
    PROVE  IInv'
  <1>0. TypeOK /\ OneCall /\ TablesExact /\ FlowsExact /\ RunsExact /\ PortsExact
    BY DEF IInv, Parts
  <1>1. TypeOK'
    BY <1>0 DEF StopFlow, Goes, TypeOK, factoryVars, streamVars, tableVars, frameVars,
                pullVars, Stages
  <1>2. OneCall'
    BY <1>0 DEF StopFlow, Goes, OneCall, AtRest
  <1>3. TablesExact'
    BY <1>0 DEF StopFlow, Goes, FiledHaveHandlers, UpdatesOnce, FiledUnder, HandlerStages,
                HandlersAreFiled, HooksAreOwned, HookStages, TablesExact, streamVars,
                tableVars
  <1>4. FlowsExact'
    BY <1>0 DEF tableVars, StopFlow, Goes, UsedAreRegistered, LastIsAlone, UnusedStages,
                RegisteredAreUsed, FlowsExact, factoryVars, streamVars
  <1>5. RunsExact'
    <2>0. /\ stage[s] = "last"
          /\ stage' = [stage EXCEPT ![s] = IF active_[socket_[s]] THEN "stopping" ELSE "stopped"]
          /\ should_stop_' = [should_stop_ EXCEPT ![socket_[s]] = @ \/ active_[socket_[s]]]
          /\ UNCHANGED <<socket_, strays, active_, frames_, processor>>
      BY DEF StopFlow, Goes, streamVars, tableVars, frameVars
    <2>a. active_[socket_[s]] = TRUE /\ stage'[s] = "stopping"
      BY <1>0, <2>0 DEF RunsExact, UsedRun, RunStages, TypeOK
    <2>1. UsedRun'
      BY <1>0, <2>0 DEF RunsExact, UsedRun, RunStages, TypeOK
    <2>2. RunningAreUsed'
      <3>1. \A t \in Streams : stage[t] \notin RestStages => stage'[t] \notin RestStages
        BY <1>0, <2>0, <2>a DEF RestStages, UnusedStages, TypeOK
      <3> QED BY <1>0, <2>0, <3>1 DEF RunsExact, RunningAreUsed
    <2>3. StoppingIsCalled'
      BY <1>0, <2>0, <2>a DEF RunsExact, StoppingIsCalled, TypeOK
    <2>4. RestingIsEmpty'
      BY <1>0, <2>0 DEF RunsExact, RestingIsEmpty
    <2> QED BY <2>1, <2>2, <2>3, <2>4 DEF RunsExact
  <1>6. PortsExact'
    BY <1>0 DEF StopFlow, Goes, PortEntriesAreAlive, BoundAsAsked, UnbornHaveNoSocket,
                OneCall, AtRest, BoundAreRegistered, PortsExact, factoryVars, streamVars
  <1> QED BY <1>1, <1>2, <1>3, <1>4, <1>5, <1>6 DEF IInv, Parts

(* A flow at rest has no frames and no packet in its processor's hands.    *)
LEMMA FlowStoppedStep ==
    ASSUME IInv, Serial, NEW s \in Streams, FlowStopped(s)
    PROVE  IInv'
  <1>0. TypeOK /\ OneCall /\ TablesExact /\ FlowsExact /\ RunsExact /\ PortsExact
    BY DEF IInv, Parts
  <1>1. TypeOK'
    BY <1>0 DEF FlowStopped, Goes, TypeOK, factoryVars, streamVars, tableVars, pullVars,
                Stages
  <1>2. OneCall'
    BY <1>0 DEF FlowStopped, Goes, OneCall, AtRest
  <1>3. TablesExact'
    BY <1>0 DEF FlowStopped, Goes, FiledHaveHandlers, UpdatesOnce, FiledUnder,
                HandlerStages, HandlersAreFiled, HooksAreOwned, HookStages, TablesExact,
                streamVars, tableVars
  <1>4. FlowsExact'
    BY <1>0 DEF tableVars, FlowStopped, Goes, UsedAreRegistered, LastIsAlone, UnusedStages,
                RegisteredAreUsed, FlowsExact, factoryVars, streamVars
  <1>5. RunsExact'
    <2>0. /\ stage[s] = "stopping" /\ stage' = [stage EXCEPT ![s] = "stopped"]
          /\ active_' = [active_ EXCEPT ![socket_[s]] = FALSE]
          /\ frames_' = [frames_ EXCEPT ![socket_[s]] = <<>>]
          /\ processor[socket_[s]].at = "idle" /\ UNCHANGED <<socket_, strays, should_stop_, processor>>
      BY DEF FlowStopped, Goes, streamVars, tableVars
    <2>1. UsedRun'
      <3>1. SUFFICES ASSUME NEW t \in Streams, stage'[t] \in RunStages PROVE active_'[socket_[t]] = TRUE
        BY <2>0 DEF UsedRun
      <3>2. t # s /\ stage[t] \in RunStages
        BY <1>0, <2>0, <3>1 DEF RunStages, TypeOK
      <3>3. socket_[t] # socket_[s]
        BY <1>0, <2>0, <3>2 DEF FlowsExact, LastIsAlone, RunStages, UnusedStages
      <3> QED BY <1>0, <2>0, <3>2, <3>3 DEF RunsExact, UsedRun, TypeOK, RunStages
    <2>2. RunningAreUsed'
      <3>1. SUFFICES ASSUME NEW k \in Streams, active_'[k] = TRUE
                     PROVE  \/ \E t \in Streams : socket_[t] = k /\ stage'[t] \notin RestStages
                            \/ strays[k] # {}
        BY <2>0 DEF RunningAreUsed
      <3>2. k # socket_[s] /\ active_[k] = TRUE
        BY <1>0, <2>0, <3>1 DEF TypeOK
      <3>3. \A t \in Streams : socket_[t] = k => stage'[t] = stage[t]
        BY <1>0, <2>0, <3>2 DEF TypeOK
      <3> QED BY <1>0, <3>2, <3>3 DEF RunsExact, RunningAreUsed
    <2>3. StoppingIsCalled'
      BY <1>0, <2>0 DEF RunsExact, StoppingIsCalled, TypeOK
    <2>4. RestingIsEmpty'
      BY <1>0, <2>0 DEF RunsExact, RestingIsEmpty, TypeOK
    <2> QED BY <2>1, <2>2, <2>3, <2>4 DEF RunsExact
  <1>6. PortsExact'
    BY <1>0 DEF FlowStopped, Goes, PortEntriesAreAlive, BoundAsAsked, UnbornHaveNoSocket,
                OneCall, AtRest, BoundAreRegistered, PortsExact, factoryVars, streamVars
  <1> QED BY <1>1, <1>2, <1>3, <1>4, <1>5, <1>6 DEF IInv, Parts

(* The last stream takes its flow and its port out of the tables.          *)
LEMMA ClearPortStep ==
    ASSUME IInv, Serial, NEW s \in Streams, ClearPort(s)
    PROVE  IInv'
  <1>0. TypeOK /\ OneCall /\ TablesExact /\ FlowsExact /\ RunsExact /\ PortsExact
    BY DEF IInv, Parts
  <1>1. TypeOK'
    BY <1>0 DEF ClearPort, Unregistered, Goes, TypeOK, streamVars, tableVars, threadVars,
                frameVars, pullVars, Stages
  <1>2. OneCall'
    BY <1>0 DEF ClearPort, Goes, OneCall, AtRest
  <1>3. TablesExact'
    BY <1>0 DEF ClearPort, Goes, FiledHaveHandlers, UpdatesOnce, FiledUnder, HandlerStages,
                HandlersAreFiled, HooksAreOwned, HookStages, TablesExact, streamVars,
                tableVars
  <1>4. FlowsExact'
    <2>0. /\ stage[s] = "stopped" /\ stage' = [stage EXCEPT ![s] = "cleared"]
          /\ reception_flows_' = reception_flows_ \ {socket_[s]} /\ UNCHANGED <<socket_, strays>>
      BY DEF ClearPort, Goes, streamVars, tableVars
    <2>a. \A t \in Streams : /\ t # s => stage'[t] = stage[t]
                             /\ stage'[t] \notin UnusedStages => t # s
      BY <1>0, <2>0 DEF TypeOK, UnusedStages
    <2>1. UsedAreRegistered'
      BY <1>0, <2>0, <2>a DEF FlowsExact, UsedAreRegistered, LastIsAlone, UnusedStages
    <2>2. RegisteredAreUsed'
      BY <1>0, <2>0, <2>a DEF FlowsExact, RegisteredAreUsed
    <2>3. LastIsAlone'
      BY <1>0, <2>0, <2>a DEF FlowsExact, LastIsAlone, UnusedStages
    <2> QED BY <2>1, <2>2, <2>3 DEF FlowsExact
  <1>5. RunsExact'
    BY <1>0, RunsStay DEF ClearPort, Goes, TypeOK, Stages, RunStages, RestStages, UnusedStages, tableVars, streamVars,
                          threadVars, frameVars
  <1>6. PortsExact'
    <2>0. /\ stage[s] = "stopped" /\ stage' = [stage EXCEPT ![s] = "cleared"]
          /\ used_ports_' = [q \in Ports |-> IF q = src_port_[s] THEN NoSocket ELSE used_ports_[q]]
          /\ reception_flows_' = reception_flows_ \ {socket_[s]}
          /\ UNCHANGED <<bound, refused, src_port_, socket_>>
      BY DEF ClearPort, Unregistered, Goes, streamVars
    <2>1. PortEntriesAreAlive'
      <3>1. SUFFICES ASSUME NEW q \in Ports, q # src_port_[s], used_ports_[q] # NoSocket
                     PROVE  bound[used_ports_[q]] = q /\ used_ports_[q] \in reception_flows_'
        BY <2>0 DEF PortEntriesAreAlive
      <3>2. bound[used_ports_[q]] = q /\ used_ports_[q] \in reception_flows_
        BY <1>0, <3>1 DEF PortsExact, PortEntriesAreAlive
      <3>3. bound[socket_[s]] \in {0, src_port_[s]}
        BY <1>0, <2>0 DEF PortsExact, BoundAsAsked
      <3>4. used_ports_[q] # socket_[s]
        BY <3>1, <3>2, <3>3, MuxAssumption
      <3> QED BY <2>0, <3>2, <3>4
    <2>2. UnbornHaveNoSocket'
      BY <1>0, <2>0 DEF PortsExact, UnbornHaveNoSocket, TypeOK
    <2>3. BoundAsAsked'
      BY <1>0, <2>0, MuxAssumption DEF PortsExact, BoundAsAsked, TypeOK, OneCall, AtRest
    <2>4. BoundAreRegistered'
      <3>1. SUFFICES ASSUME refused = FALSE, NEW k \in reception_flows_, k # socket_[s], bound[k] # 0
                     PROVE  used_ports_'[bound[k]] = k
        BY <2>0 DEF BoundAreRegistered
      <3>2. used_ports_[bound[k]] = k /\ bound[k] \in Ports
        BY <1>0, <3>1 DEF PortsExact, BoundAreRegistered, TypeOK
      <3>3. bound[k] # src_port_[s]
        <4>1. SUFFICES ASSUME bound[k] = src_port_[s] PROVE FALSE
          OBVIOUS
        <4>2. bound[socket_[s]] = src_port_[s] /\ socket_[s] \in reception_flows_
          BY <1>0, <2>0, <3>1 DEF PortsExact, BoundAsAsked, FlowsExact, UsedAreRegistered,
                                  UnusedStages
        <4>3. used_ports_[bound[socket_[s]]] = socket_[s]
          BY <1>0, <3>1, <4>1, <4>2 DEF PortsExact, BoundAreRegistered
        <4> QED BY <3>1, <3>2, <4>1, <4>2, <4>3
      <3> QED BY <2>0, <3>2, <3>3
    <2> QED BY <2>1, <2>2, <2>3, <2>4 DEF PortsExact
  <1> QED BY <1>1, <1>2, <1>3, <1>4, <1>5, <1>6 DEF IInv, Parts

(* A stream that is gone leaves nothing in the tables.                     *)
LEMMA FreeResourcesStep ==
    ASSUME IInv, Serial, NEW s \in Streams, FreeResources(s)
    PROVE  IInv'
  <1>0. TypeOK /\ OneCall /\ TablesExact /\ FlowsExact /\ RunsExact /\ PortsExact
    BY DEF IInv, Parts
  <1>1. TypeOK'
    BY <1>0 DEF FreeResources, Goes, TypeOK, factoryVars, streamVars, tableVars,
                threadVars, frameVars, pullVars, Stages
  <1>2. OneCall'
    BY <1>0 DEF FreeResources, Goes, OneCall, AtRest
  <1>3. TablesExact'
    BY <1>0 DEF FreeResources, Goes, FiledHaveHandlers, UpdatesOnce, FiledUnder,
                HandlerStages, HandlersAreFiled, HooksAreOwned, HookStages, TablesExact,
                streamVars, tableVars
  <1>4. FlowsExact'
    BY <1>0 DEF tableVars, FreeResources, Goes, UsedAreRegistered, LastIsAlone, UnusedStages,
                RegisteredAreUsed, FlowsExact, factoryVars, streamVars
  <1>5. RunsExact'
    BY <1>0, RunsStay DEF FreeResources, Goes, TypeOK, Stages, RunStages, RestStages, UnusedStages, tableVars, streamVars,
                          threadVars, frameVars
  <1>6. PortsExact'
    BY <1>0 DEF FreeResources, Goes, PortEntriesAreAlive, BoundAsAsked, UnbornHaveNoSocket,
                OneCall, AtRest, BoundAreRegistered, PortsExact, factoryVars, streamVars
  <1> QED BY <1>1, <1>2, <1>3, <1>4, <1>5, <1>6 DEF IInv, Parts

(* The threads of the flows and of pull_frame() touch neither the stages   *)
(* nor, but for a new stray entry, the tables: they keep the invariant if  *)
(* a flow at rest stays empty.                                             *)
LEMMA ThreadsKeepIt ==
    ASSUME IInv, TypeOK', RestingIsEmpty',
           UNCHANGED <<factoryVars, stage, streamVars, packet_handlers_, hooks_, parts, threadVars>>,
           \A k \in Streams : strays[k] # {} => strays'[k] # {}
    PROVE  IInv'
  <1>1. UNCHANGED <<used_ports_, reception_flows_, bound, refused, stage, src_port_, socket_,
                    remote_ssrc_, packet_handlers_, hooks_, parts, active_, should_stop_>>
    BY DEF factoryVars, streamVars, threadVars
  <1>2. OneCall'
    BY <1>1 DEF IInv, Parts, OneCall
  <1>3. TablesExact'
    BY <1>1 DEF IInv, Parts, TablesExact, FiledHaveHandlers, HandlersAreFiled,
                HooksAreOwned, UpdatesOnce, FiledUnder
  <1>4. FlowsExact'
    BY <1>1 DEF IInv, Parts, TypeOK, FlowsExact, UsedAreRegistered, RegisteredAreUsed, LastIsAlone
  <1>5. RunsExact'
    BY <1>1 DEF IInv, Parts, RunsExact, UsedRun, RunningAreUsed, StoppingIsCalled
  <1>6. PortsExact'
    BY <1>1 DEF IInv, Parts, PortsExact, PortEntriesAreAlive, UnbornHaveNoSocket,
                BoundAsAsked, BoundAreRegistered, Registered
  <1> QED BY <1>2, <1>3, <1>4, <1>5, <1>6 DEF IInv, Parts

(* A crash changes nothing else, for the model ends there.                 *)
LEMMA CrashStep ==
    ASSUME IInv, Crash
    PROVE  IInv'
  <1>1. UNCHANGED <<factoryVars, stage, streamVars, tableVars, threadVars, frameVars, pullVars>>
        /\ crashed' \in BOOLEAN
    BY DEF Crash
  <1>2. TypeOK'
    BY <1>1
       DEF IInv, TypeOK, factoryVars, streamVars, tableVars, threadVars, frameVars, pullVars
  <1>3. RestingIsEmpty'
    BY <1>1 DEF IInv, Parts, RunsExact, RestingIsEmpty, threadVars, frameVars
  <1> QED BY <1>1, <1>2, <1>3, ThreadsKeepIt DEF tableVars

(* The processor takes a packet of a running flow in hand.                 *)
LEMMA LookUpStep ==
    ASSUME IInv, NEW k \in Streams, NEW x \in Streams, NEW timestamp, LookUp(k, x, timestamp)
    PROVE  IInv'
  <1>1. /\ UNCHANGED <<factoryVars, stage, streamVars, tableVars, threadVars, frames_, pullVars, crashed>>
        /\ packets' \in 0 .. MaxPackets /\ active_[k] = TRUE
    BY MuxAssumption DEF LookUp, IInv, TypeOK
  <1>2. \/ processor' = processor
        \/ \E ssrc \in Ssrcs \cup {NoSsrc} : processor' = [processor EXCEPT
              ![k] = [at |-> "matched", source |-> x, entry |-> ssrc, valid |-> TRUE]]
    <2>1. Takers(k, x, timestamp) \subseteq Ssrcs \cup {NoSsrc}
      BY DEF Takers, Entries, IInv, TypeOK
    <2> QED BY <2>1 DEF LookUp
  <1>3. /\ processor \in [Streams -> Processor]
        /\ \A j \in Streams : processor[j].at # "idle" => processor[j].source \in Streams
    BY DEF IInv, TypeOK, Processor
  <1>4. TypeOK'
    <2>1. CASE processor' = processor
      BY <1>1, <2>1 DEF IInv, TypeOK, factoryVars, streamVars, tableVars, threadVars, pullVars
    <2>2. ASSUME NEW ssrc \in Ssrcs \cup {NoSsrc},
                 processor' = [processor EXCEPT
                   ![k] = [at |-> "matched", source |-> x, entry |-> ssrc, valid |-> TRUE]]
          PROVE  TypeOK'
      <3>1. [at |-> "matched", source |-> x, entry |-> ssrc, valid |-> TRUE] \in Processor
        BY DEF Processor
      <3>2. /\ processor' \in [Streams -> Processor]
            /\ \A j \in Streams : processor'[j].at # "idle" => processor'[j].source \in Streams
        BY <1>3, <2>2, <3>1
      <3> QED BY <1>1, <3>2
              DEF IInv, TypeOK, Processor, factoryVars, streamVars, tableVars, threadVars,
                  pullVars
    <2> QED BY <1>2, <2>1, <2>2
  <1>5. RestingIsEmpty'
    BY <1>1, <1>2, <1>3 DEF IInv, Parts, RunsExact, RestingIsEmpty, threadVars
  <1> QED BY <1>1, <1>4, <1>5, ThreadsKeepIt DEF tableVars

(* A processor that has a packet belongs to a flow that runs.              *)
LEMMA BusyRuns ==
    ASSUME IInv, NEW k \in Streams, processor[k].at # "idle"
    PROVE  active_[k] = TRUE
  BY DEF IInv, Parts, RunsExact, RestingIsEmpty, TypeOK

(* A step of a processor that has a packet, whose frames, if it changes    *)
(* any, are those of its flow.                                             *)
LEMMA ProcessorMoves ==
    ASSUME IInv, NEW k \in Streams, processor[k].at # "idle",
           NEW next \in Processor, next.at # "idle" => next.source = processor[k].source,
           processor' = [processor EXCEPT ![k] = next],
           NEW list \in Seq(Streams), frames_' = [frames_ EXCEPT ![k] = list],
           NEW table \in SUBSET Ssrcs, strays[k] \subseteq table,
           strays' = [strays EXCEPT ![k] = table],
           UNCHANGED <<factoryVars, stage, streamVars, packet_handlers_, hooks_, parts, threadVars,
                       packets, pullVars, crashed>>
    PROVE  IInv'
  <1>1. active_[k] = TRUE
    BY BusyRuns
  <1>2. /\ processor \in [Streams -> Processor]
        /\ \A j \in Streams : processor[j].at # "idle" => processor[j].source \in Streams
    BY DEF IInv, TypeOK, Processor
  <1>3. /\ processor' \in [Streams -> Processor]
        /\ \A j \in Streams : processor'[j].at # "idle" => processor'[j].source \in Streams
    BY <1>2
  <1>4. frames_' \in [Streams -> Seq(Streams)] /\ strays' \in [Streams -> SUBSET Ssrcs]
    BY DEF IInv, TypeOK
  <1>5. TypeOK'
    BY <1>3, <1>4 DEF IInv, TypeOK, Processor, factoryVars, streamVars, threadVars, pullVars
  <1>6. RestingIsEmpty'
    <2>1. frames_ \in [Streams -> Seq(Streams)]
      BY DEF IInv, TypeOK
    <2> QED BY <1>1, <1>2, <2>1 DEF IInv, Parts, RunsExact, RestingIsEmpty, threadVars
  <1>7. \A j \in Streams : strays[j] # {} => strays'[j] # {}
    BY DEF IInv, TypeOK
  <1> QED BY <1>5, <1>6, <1>7, ThreadsKeepIt

(* The same for a step that touches neither frames nor tables.             *)
LEMMA ProcessorGoesOn ==
    ASSUME IInv, NEW k \in Streams, processor[k].at # "idle",
           NEW next \in Processor, next.at # "idle" => next.source = processor[k].source,
           processor' = [processor EXCEPT ![k] = next],
           UNCHANGED <<factoryVars, stage, streamVars, tableVars, threadVars, frames_, packets,
                       pullVars, crashed>>
    PROVE  IInv'
  <1>1. frames_' = [frames_ EXCEPT ![k] = frames_[k]] /\ frames_[k] \in Seq(Streams)
    BY DEF IInv, TypeOK
  <1>2. strays' = [strays EXCEPT ![k] = strays[k]] /\ strays[k] \in SUBSET Ssrcs
    BY DEF IInv, TypeOK, tableVars
  <1> QED BY <1>1, <1>2, ProcessorMoves DEF tableVars

(* What the processor has in hand is a packet with the state of its way.   *)
LEMMA ProcessorType ==
    ASSUME IInv, NEW k \in Streams
    PROVE  /\ processor[k] \in Processor /\ Idle \in Processor /\ Idle.at = "idle"
           /\ \A at \in {"found", "parsed", "hooked"}, ssrc \in Ssrcs \cup {NoSsrc} :
                /\ [processor[k] EXCEPT !.at = at] \in Processor
                /\ [processor[k] EXCEPT !.at = at].source = processor[k].source
                /\ [processor[k] EXCEPT !.at = at, !.entry = ssrc] \in Processor
                /\ [processor[k] EXCEPT !.at = at, !.entry = ssrc].source = processor[k].source
  <1>1. processor[k] \in Processor
    BY DEF IInv, TypeOK, Processor
  <1> QED BY <1>1 DEF Processor, Idle

(* The first entry is in the table, or the processor crashes.              *)
LEMMA TakeFirstStep ==
    ASSUME IInv, NEW k \in Streams, TakeFirst(k)
    PROVE  IInv'
  <1>1. CASE Crash
    BY <1>1, CrashStep
  <1>2. CASE ~Crash
    <2>1. PICK ssrc \in Ssrcs \cup {NoSsrc} :
            processor' = [processor EXCEPT ![k] = [processor[k] EXCEPT !.at = "found", !.entry = ssrc]]
      BY <1>2 DEF TakeFirst, Entries, IInv, TypeOK
    <2> DEFINE next == [processor[k] EXCEPT !.at = "found", !.entry = ssrc]
    <2>2. next \in Processor /\ next.source = processor[k].source
      BY ProcessorType
    <2>3. processor' = [processor EXCEPT ![k] = next]
      BY <2>1
    <2>4. /\ processor[k].at # "idle"
          /\ UNCHANGED <<factoryVars, stage, streamVars, tableVars, threadVars, frames_, packets,
                         pullVars, crashed>>
      BY <1>2 DEF TakeFirst
    <2> HIDE DEF next
    <2> QED BY <2>2, <2>3, <2>4, ProcessorGoesOn
  <1> QED BY <1>1, <1>2

(* operator[] adds an entry at most, and takes none away.                  *)
LEMMA TakeEntryStep ==
    ASSUME IInv, NEW k \in Streams, TakeEntry(k)
    PROVE  IInv'
  <1> DEFINE next == [processor[k] EXCEPT !.at = "found"]
             table == strays[k] \cup ({processor[k].entry} \ packet_handlers_[k])
  <1>1. next \in Processor /\ next.source = processor[k].source
    BY ProcessorType
  <1>2. processor' = [processor EXCEPT ![k] = next] /\ strays' = [strays EXCEPT ![k] = table]
    BY DEF TakeEntry
  <1>3. processor[k].entry \in Ssrcs
    BY ProcessorType DEF TakeEntry, Processor
  <1>4. table \in SUBSET Ssrcs /\ strays[k] \subseteq table
    BY <1>3 DEF IInv, TypeOK
  <1>5. frames_' = [frames_ EXCEPT ![k] = frames_[k]] /\ frames_[k] \in Seq(Streams)
    BY DEF TakeEntry, IInv, TypeOK
  <1>6. /\ processor[k].at # "idle"
        /\ UNCHANGED <<factoryVars, stage, streamVars, packet_handlers_, hooks_, parts, threadVars,
                       packets, pullVars, crashed>>
    BY DEF TakeEntry
  <1> HIDE DEF next, table
  <1> QED BY <1>1, <1>2, <1>4, <1>5, <1>6, ProcessorMoves

(* The packet stays in the processor's hands, or leaves them.              *)
LEMMA HandleRtpStep ==
    ASSUME IInv, NEW k \in Streams, HandleRtp(k)
    PROVE  IInv'
  <1>1. PICK next \in Processor : /\ processor' = [processor EXCEPT ![k] = next]
                                  /\ next.at # "idle" => next.source = processor[k].source
    BY ProcessorType DEF HandleRtp
  <1>2. /\ processor[k].at # "idle"
        /\ UNCHANGED <<factoryVars, stage, streamVars, tableVars, threadVars, frames_, packets,
                       pullVars, crashed>>
    BY DEF HandleRtp
  <1> QED BY <1>1, <1>2, ProcessorGoesOn

(* The frames of a packet come to the list of a flow that runs.            *)
LEMMA HandleMediaStep ==
    ASSUME IInv, NEW k \in Streams, HandleMedia(k)
    PROVE  IInv'
  <1> DEFINE x == processor[k].source
  <1>1. PICK n \in 0 .. Burst :
          IF n = 0 \/ Hooks(k, x) = {}
          THEN /\ frames_' = [frames_ EXCEPT ![k] = frames_[k] \o [i \in 1 .. n |-> x]]
               /\ processor' = [processor EXCEPT ![k] = Idle]
          ELSE /\ UNCHANGED frames_
               /\ \E ssrc \in Hooks(k, x) : processor' = [processor EXCEPT
                    ![k] = [processor[k] EXCEPT !.at = "hooked", !.entry = ssrc]]
    BY DEF HandleMedia
  <1>2. /\ processor[k].at # "idle"
        /\ UNCHANGED <<factoryVars, stage, streamVars, tableVars, threadVars, packets, pullVars, crashed>>
    BY DEF HandleMedia
  <1>3. Hooks(k, x) \subseteq Ssrcs \cup {NoSsrc}
    BY DEF Hooks, IInv, TypeOK
  <1>4. frames_[k] \in Seq(Streams) /\ frames_ \in [Streams -> Seq(Streams)] /\ x \in Streams
    BY <1>2 DEF IInv, TypeOK
  <1>5. strays' = [strays EXCEPT ![k] = strays[k]] /\ strays[k] \in SUBSET Ssrcs
    BY <1>2 DEF IInv, TypeOK, tableVars
  <1> HIDE DEF x
  <1>6. CASE n = 0 \/ Hooks(k, x) = {}
    <2> DEFINE list == frames_[k] \o [i \in 1 .. n |-> x]
    <2>1. [i \in 1 .. n |-> x] \in Seq(Streams)
      BY <1>4, MuxAssumption
    <2>2. list \in Seq(Streams)
      BY <1>4, <2>1
    <2>3. frames_' = [frames_ EXCEPT ![k] = list] /\ processor' = [processor EXCEPT ![k] = Idle]
      BY <1>1, <1>6
    <2>4. Idle \in Processor /\ Idle.at = "idle"
      BY ProcessorType
    <2> HIDE DEF list
    <2> QED BY <1>2, <1>5, <2>2, <2>3, <2>4, ProcessorMoves DEF tableVars
  <1>7. CASE ~(n = 0 \/ Hooks(k, x) = {})
    <2>1. PICK ssrc \in Ssrcs \cup {NoSsrc} :
            processor' = [processor EXCEPT ![k] = [processor[k] EXCEPT !.at = "hooked", !.entry = ssrc]]
      BY <1>1, <1>3, <1>7
    <2> DEFINE next == [processor[k] EXCEPT !.at = "hooked", !.entry = ssrc]
    <2>2. next \in Processor /\ next.source = processor[k].source
      BY ProcessorType
    <2>3. processor' = [processor EXCEPT ![k] = next] /\ UNCHANGED frames_
      BY <1>1, <1>7, <2>1
    <2> HIDE DEF next
    <2> QED BY <1>2, <2>2, <2>3, ProcessorGoesOn
  <1> QED BY <1>6, <1>7

(* The hook is called and the packet done with, or the processor crashes.  *)
LEMMA CallHookStep ==
    ASSUME IInv, NEW k \in Streams, CallHook(k)
    PROVE  IInv'
  <1>1. CASE Crash
    BY <1>1, CrashStep
  <1>2. CASE ~Crash
    BY <1>2, ProcessorType, ProcessorGoesOn DEF CallHook
  <1> QED BY <1>1, <1>2

(* The states and steps of a thread in pull_frame().                       *)
LEMMA PullStep ==
    ASSUME IInv, NEW s \in Streams, NEW timed \in BOOLEAN, Pull(s, timed)
    PROVE  IInv'
  <1>1. /\ UNCHANGED <<factoryVars, stage, streamVars, tableVars, threadVars, frameVars, crashed>>
        /\ pulls' \in 0 .. MaxPulls
    BY MuxAssumption DEF Pull, IInv, TypeOK
  <1>2. socket_[s] \in Streams
    BY DEF Pull, IInv, TypeOK
  <1>3. puller' \in [Streams -> [flow : Streams \cup {NoSocket}, own : BOOLEAN, timed : BOOLEAN]]
    BY <1>2 DEF Pull, IInv, TypeOK
  <1>4. TypeOK'
    BY <1>1, <1>3 DEF IInv, TypeOK, factoryVars, streamVars, tableVars, threadVars, frameVars
  <1>5. RestingIsEmpty'
    BY <1>1 DEF IInv, Parts, RunsExact, RestingIsEmpty, threadVars, frameVars
  <1> QED BY <1>1, <1>4, <1>5, ThreadsKeepIt DEF tableVars

(* A thread that gives up leaves the frames alone.                         *)
LEMMA PullGivesUpStep ==
    ASSUME IInv, NEW s \in Streams, PullGivesUp(s)
    PROVE  IInv'
  <1>1. UNCHANGED <<factoryVars, stage, streamVars, tableVars, threadVars, frames_, processor,
                    packets, pulls, crashed>>
    BY DEF PullGivesUp, PullReturns
  <1>2. puller' \in [Streams -> [flow : Streams \cup {NoSocket}, own : BOOLEAN, timed : BOOLEAN]]
    BY DEF PullGivesUp, PullReturns, NoPull, IInv, TypeOK
  <1>3. TypeOK'
    BY <1>1, <1>2 DEF IInv, TypeOK, factoryVars, streamVars, tableVars, threadVars
  <1>4. RestingIsEmpty'
    BY <1>1 DEF IInv, Parts, RunsExact, RestingIsEmpty, threadVars
  <1> QED BY <1>1, <1>3, <1>4, ThreadsKeepIt DEF tableVars

(* A frame leaves the list of a flow that runs.                            *)
LEMMA PullFrameStep ==
    ASSUME IInv, NEW s \in Streams, PullFrame(s)
    PROVE  IInv'
  <1>1. UNCHANGED <<factoryVars, stage, streamVars, tableVars, threadVars, processor, packets, pulls,
                    crashed>>
    BY DEF PullFrame, PullReturns
  <1>2. puller' \in [Streams -> [flow : Streams \cup {NoSocket}, own : BOOLEAN, timed : BOOLEAN]]
    BY DEF PullFrame, PullReturns, NoPull, IInv, TypeOK
  <1>3. PICK k \in Streams : /\ frames_[k] # <<>>
                             /\ \/ frames_' = frames_
                                \/ frames_' = [frames_ EXCEPT ![k] = Tail(frames_[k])]
    BY DEF PullFrame, Pulling, IInv, TypeOK
  <1>4. frames_' \in [Streams -> Seq(Streams)]
    <2>1. frames_ \in [Streams -> Seq(Streams)]
      BY DEF IInv, TypeOK
    <2>2. Tail(frames_[k]) \in Seq(Streams)
      BY <1>3, <2>1
    <2> QED BY <1>3, <2>1, <2>2
  <1>5. TypeOK'
    BY <1>1, <1>2, <1>4 DEF IInv, TypeOK, factoryVars, streamVars, tableVars, threadVars
  <1>6. RestingIsEmpty'
    <2>1. active_[k] = TRUE
      BY <1>3 DEF IInv, Parts, RunsExact, RestingIsEmpty, TypeOK
    <2> QED BY <1>1, <1>3, <2>1 DEF IInv, Parts, RunsExact, RestingIsEmpty, TypeOK, threadVars
  <1> QED BY <1>1, <1>5, <1>6, ThreadsKeepIt DEF tableVars

-----------------------------------------------------------------------------

(* In the initial state there are no sockets and no flows.                 *)
LEMMA InitHolds ==
    ASSUME Init
    PROVE  IInv
  <1>1. TypeOK
    <2>1. frames_ \in [Streams -> Seq(Streams)]
      BY DEF Init
    <2>2. /\ processor \in [Streams -> Processor]
          /\ \A k \in Streams : processor[k].at = "idle"
      BY DEF Init, Processor, Idle
    <2>3. puller \in [Streams -> [flow : Streams \cup {NoSocket}, own : BOOLEAN, timed : BOOLEAN]]
      BY DEF Init, NoPull
    <2>4. packets \in 0 .. MaxPackets /\ pulls \in 0 .. MaxPulls
      BY MuxAssumption DEF Init
    <2>5. /\ remote_ssrc_ \in [Streams -> Ssrcs] /\ \A s \in Streams : remote_ssrc_[s][1] = s
          /\ stage \in [Streams -> Stages]
      BY DEF Init, Ssrcs, Stages
    <2> QED BY <2>1, <2>2, <2>3, <2>4, <2>5 DEF Init, TypeOK, Processor
  <1>2. OneCall
    BY DEF Init, OneCall, AtRest
  <1>3. TablesExact
    BY DEF Init, TablesExact, FiledHaveHandlers, HandlersAreFiled, HooksAreOwned, UpdatesOnce, HandlerStages
  <1>4. FlowsExact
    BY DEF Init, FlowsExact, UsedAreRegistered, RegisteredAreUsed, LastIsAlone, UnusedStages
  <1>5. RunsExact
    BY DEF Init, RunsExact, UsedRun, RunningAreUsed, StoppingIsCalled, RestingIsEmpty, RunStages, Idle
  <1>6. PortsExact
    BY MuxAssumption DEF Init, PortsExact, PortEntriesAreAlive, UnbornHaveNoSocket,
                         BoundAsAsked, BoundAreRegistered
  <1> QED BY <1>1, <1>2, <1>3, <1>4, <1>5, <1>6 DEF IInv, Parts

(* Every step keeps the invariant.                                         *)
LEMMA NextHolds ==
    ASSUME IInv, Serial, [Next]_vars
    PROVE  IInv'
  <1>1. CASE UNCHANGED vars
    <2>1. UNCHANGED <<factoryVars, stage, streamVars, tableVars, threadVars, frameVars, pullVars, crashed>>
      BY <1>1 DEF vars
    <2>2. TypeOK'
      BY <2>1 DEF IInv, TypeOK, factoryVars, streamVars, tableVars, threadVars, frameVars,
                  pullVars
    <2>3. RestingIsEmpty'
      BY <2>1 DEF IInv, Parts, RunsExact, RestingIsEmpty, threadVars, frameVars
    <2> QED BY <2>1, <2>2, <2>3, ThreadsKeepIt DEF tableVars
  <1>2. ASSUME NEW s \in Streams, Create(s)
        PROVE  IInv'
    <2>1. ASSUME NEW p \in Ports \cup {0}, GetSocket(s, p)
          PROVE  IInv'
      BY <2>1, GetSocketStep
    <2>2. CASE InitFails(s)
      BY <2>2, CrashStep DEF InitFails
    <2> QED BY <1>2, <2>1, <2>2, SetOptionsStep, GetFlowStep, InstallRtpStep,
               InstallMediaStep, InstallGetterStep, StartFlowStep
               DEF Create
  <1>3. ASSUME NEW s \in Streams, Change(s)
        PROVE  IInv'
    BY <1>3, UpdateTablesStep, SetRemoteStep, InstallHookStep DEF Change
  <1>4. ASSUME NEW s \in Streams, Destroy(s)
        PROVE  IInv'
    BY <1>4, RemoveHandlersStep, ClearStreamStep, StopFlowStep, FlowStoppedStep,
       ClearPortStep, FreeResourcesStep
       DEF Destroy
  <1>5. ASSUME NEW k \in Streams, Process(k)
        PROVE  IInv'
    <2>1. ASSUME NEW x \in Streams, NEW timestamp \in Ssrcs \cup {NoSsrc}, LookUp(k, x, timestamp)
          PROVE  IInv'
      BY <2>1, LookUpStep
    <2>2. CASE UseErasedEntry(k)
      BY <2>2, CrashStep DEF UseErasedEntry
    <2> QED BY <1>5, <2>1, <2>2, TakeFirstStep, TakeEntryStep, HandleRtpStep, HandleMediaStep,
               CallHookStep DEF Process
  <1>6. ASSUME NEW s \in Streams, PullSteps(s)
        PROVE  IInv'
    <2>1. ASSUME NEW timed \in BOOLEAN, Pull(s, timed)
          PROVE  IInv'
      BY <2>1, PullStep
    <2>2. CASE PullInFreedFlow(s)
      BY <2>2, CrashStep DEF PullInFreedFlow
    <2> QED BY <1>6, <2>1, <2>2, PullGivesUpStep, PullFrameStep DEF PullSteps
  <1> QED BY <1>1, <1>2, <1>3, <1>4, <1>5, <1>6 DEF Next

(* If the application makes one call at a time, apart from pull_frame(),   *)
(* then in every state of every behaviour the tables of each flow name the *)
(* streams that are set up on it, a flow is registered and running just    *)
(* while a stream uses it or a stray entry is left in it, and the ports    *)
(* agree with the kernel's.                                                *)
THEOREM Inductive ==
    ASSUME Serial
    PROVE  Spec => []IInv
  BY InitHolds, NextHolds, PTL DEF Spec

(* Every variable keeps its type.                                          *)
THEOREM TypeCorrect ==
    ASSUME Serial
    PROVE  Spec => []TypeOK
  <1>1. IInv => TypeOK
    BY DEF IInv
  <1> QED BY <1>1, Inductive, PTL

(* A stream that create_stream() has returned has a registered, running    *)
(* flow with its handlers in it until it is destroyed, whatever happens to *)
(* the streams that share its socket.                                      *)
THEOREM StreamsServed ==
    ASSUME Serial
    PROVE  Spec => []LiveStreamsAreServed
  <1>1. ASSUME IInv, NEW s \in Streams, stage[s] = "live"
        PROVE  /\ socket_[s] \in reception_flows_
               /\ active_[socket_[s]] /\ ~should_stop_[socket_[s]]
               /\ remote_ssrc_[s] \in packet_handlers_[socket_[s]]
               /\ {"rtp", "media"} \subseteq parts[s]
    <2>1. socket_[s] \in reception_flows_
      BY <1>1 DEF IInv, Parts, FlowsExact, UsedAreRegistered, UnusedStages
    <2>2. active_[socket_[s]] = TRUE
      BY <1>1 DEF IInv, Parts, RunsExact, UsedRun, RunStages
    <2>3. should_stop_[socket_[s]] # TRUE
      <3>1. SUFFICES ASSUME should_stop_[socket_[s]] = TRUE PROVE FALSE
        OBVIOUS
      <3>2. PICK t \in Streams : socket_[t] = socket_[s] /\ stage[t] = "stopping"
        BY <1>1, <2>2, <3>1 DEF IInv, Parts, RunsExact, StoppingIsCalled, TypeOK
      <3> QED BY <1>1, <3>2 DEF IInv, Parts, FlowsExact, LastIsAlone, UnusedStages
    <2>4. remote_ssrc_[s] \in packet_handlers_[socket_[s]] /\ "rtp" \in parts[s] /\ "media" \in parts[s]
      BY <1>1 DEF IInv, Parts, TablesExact, HandlersAreFiled, FiledUnder, HandlerStages
    <2> QED BY <2>1, <2>2, <2>3, <2>4
  <1>2. IInv => LiveStreamsAreServed
    BY <1>1 DEF LiveStreamsAreServed
  <1> QED BY <1>2, Inductive, PTL

(* Only a flow whose socket two streams have, or have had, gets a stray    *)
(* entry: a packet is looked for by SSRC if the flow has more entries than *)
(* one.                                                                    *)
StraysAreShared == \A k \in Streams : strays[k] # {} => Shared(k)
MatchedAreShared ==
  \A k \in Streams : processor[k].at = "matched" /\ processor[k].entry # NoSsrc => Shared(k)
UnbornAreNowhere == \A s \in Streams : stage[s] = "none" => socket_[s] = NoSocket
StraysExact == StraysAreShared /\ MatchedAreShared /\ UnbornAreNowhere

(* An SSRC that is not the only one in the table is found on a socket that *)
(* two streams have.                                                       *)
LEMMA FoundAmongTwo ==
    ASSUME IInv, StraysExact, NEW k \in Streams, NEW ssrc \in Entries(k), Cardinality(Entries(k)) # 1
    PROVE  Shared(k)
  <1>1. CASE strays[k] # {}
    BY <1>1 DEF StraysExact, StraysAreShared
  <1>2. CASE strays[k] = {}
    <2>1. Entries(k) = packet_handlers_[k]
      BY <1>2 DEF Entries
    <2>2. PICK other \in packet_handlers_[k] : other # ssrc
      <3>1. SUFFICES ASSUME packet_handlers_[k] = {ssrc} PROVE FALSE
        BY <2>1
      <3> QED BY <2>1, <3>1, FS_Singleton
    <2>3. ssrc[1] \in Streams /\ other[1] \in Streams
      BY <2>1 DEF IInv, TypeOK, Ssrcs
    <2>4. /\ socket_[ssrc[1]] = k /\ ssrc = FiledUnder(ssrc[1])
          /\ socket_[other[1]] = k /\ other = FiledUnder(other[1])
      BY <2>1 DEF IInv, Parts, TablesExact, FiledHaveHandlers
    <2>5. ssrc[1] # other[1]
      BY <2>2, <2>4
    <2> QED BY <2>3, <2>4, <2>5 DEF Shared
  <1> QED BY <1>1, <1>2

(* A stream gets its socket when it is created, and then has it for good.  *)
LEMMA SocketsStay ==
    ASSUME IInv, StraysExact, [Next]_vars
    PROVE  /\ UnbornAreNowhere'
           /\ \A t \in Streams : stage[t] # "none" => socket_'[t] = socket_[t]
  <1>1. ASSUME NEW s \in Streams, NEW p \in Ports \cup {0}, GetSocket(s, p)
        PROVE  \A t \in Streams : /\ stage[t] # "none" => socket_'[t] = socket_[t]
                                  /\ stage'[t] = "none" => stage[t] = "none" /\ socket_'[t] = socket_[t]
    BY <1>1 DEF GetSocket, Goes, IInv, TypeOK
  <1>2. CASE UNCHANGED <<stage, socket_>>
    BY <1>2 DEF StraysExact, UnbornAreNowhere
  <1>3. ASSUME NEW s \in Streams, NEW next \in Stages \ {"none"}, Goes(s, next), UNCHANGED socket_
        PROVE  UnbornAreNowhere'
    BY <1>3 DEF Goes, StraysExact, UnbornAreNowhere, IInv, TypeOK
  <1>4. \/ \E s \in Streams, p \in Ports \cup {0} : GetSocket(s, p)
        \/ UNCHANGED <<stage, socket_>>
        \/ UNCHANGED socket_ /\ \E s \in Streams, next \in Stages \ {"none"} : Goes(s, next)
    <2>1. ASSUME NEW s \in Streams, Create(s), ~\E p \in Ports \cup {0} : GetSocket(s, p)
          PROVE  \/ UNCHANGED <<stage, socket_>>
                 \/ UNCHANGED socket_ /\ \E next \in Stages \ {"none"} : Goes(s, next)
      BY <2>1 DEF Create, SetOptions, InitFails, GetFlow, InstallRtp, InstallMedia,
                  InstallGetter, Install, StartFlow, Crash, streamVars, Stages
    <2>2. ASSUME NEW s \in Streams, Change(s)
          PROVE  \/ UNCHANGED <<stage, socket_>>
                 \/ UNCHANGED socket_ /\ \E next \in Stages \ {"none"} : Goes(s, next)
      BY <2>2 DEF Change, UpdateTables, SetRemote, InstallHook, streamVars, Stages
    <2>3. ASSUME NEW s \in Streams, Destroy(s)
          PROVE  \/ UNCHANGED <<stage, socket_>>
                 \/ UNCHANGED socket_ /\ \E next \in Stages \ {"none"} : Goes(s, next)
      <3>1. ASSUME NEW next, Goes(s, next), next \in {"removed", "last", "stopping", "stopped", "cleared", "gone"}
            PROVE  \E stg \in Stages \ {"none"} : Goes(s, stg)
        BY <3>1 DEF Stages
      <3>2. CASE RemoveHandlers(s)
        BY <3>1, <3>2 DEF RemoveHandlers, streamVars
      <3>3. CASE ClearStream(s)
        BY <3>1, <3>3 DEF ClearStream, streamVars
      <3>4. CASE StopFlow(s)
        BY <3>1, <3>4 DEF StopFlow, streamVars
      <3>5. CASE FlowStopped(s) \/ ClearPort(s) \/ FreeResources(s)
        BY <3>1, <3>5 DEF FlowStopped, ClearPort, FreeResources, streamVars
      <3> QED BY <2>3, <3>2, <3>3, <3>4, <3>5 DEF Destroy
    <2>4. ASSUME NEW k \in Streams, Process(k)
          PROVE  UNCHANGED <<stage, socket_>>
      BY <2>4 DEF Process, LookUp, TakeFirst, TakeEntry, HandleRtp, HandleMedia, CallHook,
                  UseErasedEntry, Crash, streamVars
    <2>5. ASSUME NEW s \in Streams, PullSteps(s)
          PROVE  UNCHANGED <<stage, socket_>>
      BY <2>5 DEF PullSteps, Pull, PullGivesUp, PullFrame, PullInFreedFlow, PullReturns,
                  Crash, streamVars
    <2>6. UNCHANGED vars => UNCHANGED <<stage, socket_>>
      BY DEF vars, streamVars
    <2> QED BY <2>1, <2>2, <2>3, <2>4, <2>5, <2>6 DEF Next
  <1>5. CASE \E s \in Streams, p \in Ports \cup {0} : GetSocket(s, p)
    <2>0. PICK s \in Streams, p \in Ports \cup {0} : GetSocket(s, p)
      BY <1>5
    <2>1. \A t \in Streams : /\ stage[t] # "none" => socket_'[t] = socket_[t]
                             /\ stage'[t] = "none" => stage[t] = "none" /\ socket_'[t] = socket_[t]
      BY <1>1, <2>0
    <2> QED BY <2>1 DEF StraysExact, UnbornAreNowhere
  <1> QED BY <1>2, <1>3, <1>4, <1>5

(* So two streams that have had a socket have it.                          *)
LEMMA SharedStays ==
    ASSUME IInv, StraysExact, [Next]_vars, NEW k \in Streams, Shared(k)
    PROVE  Shared(k)'
  <1>1. PICK s \in Streams, t \in Streams : s # t /\ socket_[s] = k /\ socket_[t] = k
    BY DEF Shared
  <1>2. stage[s] # "none" /\ stage[t] # "none"
    BY <1>1, MuxAssumption DEF StraysExact, UnbornAreNowhere
  <1>3. socket_'[s] = k /\ socket_'[t] = k
    BY <1>1, <1>2, SocketsStay
  <1> QED BY <1>1, <1>3 DEF Shared

(* Only TakeEntry() makes a first stray entry in a table.                  *)
LEMMA StraysAppear ==
    ASSUME IInv, [Next]_vars, NEW k \in Streams, strays'[k] # {}
    PROVE  strays[k] # {} \/ TakeEntry(k)
  <1>0. strays \in [Streams -> SUBSET Ssrcs]
    BY DEF IInv, TypeOK
  <1>1. CASE UNCHANGED strays
    BY <1>1
  <1>2. ASSUME NEW s \in Streams, Create(s)
        PROVE  strays[k] # {}
    <2>1. UNCHANGED strays \/ strays' = [strays EXCEPT ![socket_[s]] = @ \ {remote_ssrc_[s]}]
      BY <1>2 DEF Create, GetSocket, SetOptions, InitFails, GetFlow, InstallRtp, InstallMedia,
                  InstallGetter, Install, StartFlow, Crash, tableVars
    <2> QED BY <1>0, <2>1
  <1>3. ASSUME NEW s \in Streams, Change(s)
        PROVE  strays[k] # {}
    <2>1. \/ UNCHANGED strays
          \/ strays' = [strays EXCEPT ![socket_[s]] = Renamed(@, remote_ssrc_[s], <<s, "peer">>)]
      BY <1>3 DEF Change, UpdateTables, SetRemote, InstallHook, tableVars
    <2>2. Renamed({}, remote_ssrc_[s], <<s, "peer">>) = {}
      BY DEF Renamed
    <2> QED BY <1>0, <2>1, <2>2
  <1>4. ASSUME NEW s \in Streams, Destroy(s)
        PROVE  strays[k] # {}
    <2>1. UNCHANGED strays \/ strays' = [strays EXCEPT ![socket_[s]] = strays[socket_[s]] \ {remote_ssrc_[s]}]
      BY <1>4 DEF Destroy, RemoveHandlers, ClearStream, StopFlow, FlowStopped, ClearPort,
                  FreeResources, tableVars
    <2> QED BY <1>0, <2>1
  <1>5. ASSUME NEW j \in Streams, Process(j), ~UNCHANGED strays
        PROVE  strays[k] # {} \/ TakeEntry(k)
    <2>1. TakeEntry(j)
      BY <1>5 DEF Process, LookUp, TakeFirst, HandleRtp, HandleMedia, CallHook,
                  UseErasedEntry, Crash, tableVars
    <2>2. CASE j # k
      BY <1>0, <2>1, <2>2 DEF TakeEntry
    <2> QED BY <2>1, <2>2
  <1>6. ASSUME NEW s \in Streams, PullSteps(s)
        PROVE  UNCHANGED strays
    BY <1>6 DEF PullSteps, Pull, PullGivesUp, PullFrame, PullInFreedFlow, PullReturns,
                Crash, tableVars
  <1>7. UNCHANGED vars => UNCHANGED strays
    BY DEF vars, tableVars
  <1> QED BY <1>1, <1>2, <1>3, <1>4, <1>5, <1>6, <1>7 DEF Next

(* A processor has matched an SSRC before the step, or does so by it, and  *)
(* then the SSRC is not the only one in the table.                         *)
LEMMA MatchesAppear ==
    ASSUME IInv, [Next]_vars, NEW k \in Streams,
           processor'[k].at = "matched", processor'[k].entry # NoSsrc
    PROVE  \/ processor[k].at = "matched" /\ processor[k].entry # NoSsrc
           \/ \E ssrc \in Entries(k) : Cardinality(Entries(k)) # 1
  <1>0. processor \in [Streams -> Processor]
    BY DEF IInv, TypeOK, Processor
  <1>1. CASE UNCHANGED processor
    BY <1>1
  <1>2. ASSUME NEW j \in Streams, NEW ssrc, Invalidate(j, ssrc)
        PROVE  processor[k].at = "matched" /\ processor[k].entry # NoSsrc
    <2>1. PICK v \in BOOLEAN : processor' = [processor EXCEPT ![j] = [processor[j] EXCEPT !.valid = v]]
      BY <1>0, <1>2 DEF Invalidate, Processor
    <2> QED BY <1>0, <2>1 DEF Processor
  <1>3. ASSUME NEW j \in Streams, NEW x \in Streams, NEW timestamp, LookUp(j, x, timestamp)
        PROVE  \/ processor[k].at = "matched" /\ processor[k].entry # NoSsrc
               \/ \E ssrc \in Entries(k) : Cardinality(Entries(k)) # 1
    <2>1. CASE j # k
      BY <1>0, <1>3, <2>1 DEF LookUp
    <2>2. CASE j = k /\ UNCHANGED processor
      BY <2>2
    <2>3. CASE j = k /\ ~UNCHANGED processor
      <3>1. processor'[k].entry \in Takers(k, x, timestamp)
        BY <1>0, <1>3, <2>3 DEF LookUp
      <3> QED BY <3>1 DEF Takers
    <2> QED BY <2>1, <2>2, <2>3
  <1>4. ASSUME NEW j \in Streams, NEW next, next.at # "matched",
               processor' = [processor EXCEPT ![j] = next]
        PROVE  processor[k].at = "matched" /\ processor[k].entry # NoSsrc
    BY <1>0, <1>4
  <1>5. ASSUME NEW s \in Streams, Create(s)
        PROVE  UNCHANGED processor
    BY <1>5 DEF Create, GetSocket, SetOptions, InitFails, GetFlow, InstallRtp, InstallMedia,
                InstallGetter, Install, StartFlow, Crash, frameVars
  <1>6. ASSUME NEW s \in Streams, Change(s)
        PROVE  UNCHANGED processor \/ \E j \in Streams, ssrc \in Ssrcs : Invalidate(j, ssrc)
    BY <1>6 DEF Change, UpdateTables, SetRemote, InstallHook, frameVars, IInv, TypeOK
  <1>7. ASSUME NEW s \in Streams, Destroy(s)
        PROVE  UNCHANGED processor \/ \E j \in Streams, ssrc \in Ssrcs : Invalidate(j, ssrc)
    BY <1>7 DEF Destroy, RemoveHandlers, ClearStream, StopFlow, FlowStopped, ClearPort,
                FreeResources, frameVars, IInv, TypeOK
  <1>8. ASSUME NEW j \in Streams, Process(j)
        PROVE  \/ UNCHANGED processor
               \/ \E x \in Streams, timestamp \in Ssrcs \cup {NoSsrc} : LookUp(j, x, timestamp)
               \/ \E next : next.at # "matched" /\ processor' = [processor EXCEPT ![j] = next]
    <2>0. processor[j] \in Processor
      BY <1>0
    <2>1. \A at \in {"found", "parsed", "hooked"} : [processor[j] EXCEPT !.at = at].at # "matched"
      BY <2>0 DEF Processor
    <2>2. \A at \in {"found", "parsed", "hooked"}, ssrc \in Ssrcs \cup {NoSsrc} :
            [processor[j] EXCEPT !.at = at, !.entry = ssrc].at # "matched"
      BY <2>0 DEF Processor
    <2>3. Idle.at # "matched"
      BY DEF Idle
    <2>4. CASE TakeFirst(j)
      <3>1. Entries(j) \subseteq Ssrcs
        BY DEF Entries, IInv, TypeOK
      <3> QED BY <2>2, <2>4, <3>1 DEF TakeFirst, Crash, frameVars
    <2>5. CASE TakeEntry(j)
      BY <2>1, <2>5 DEF TakeEntry
    <2>6. CASE HandleRtp(j)
      BY <2>1, <2>3, <2>6 DEF HandleRtp
    <2>7. CASE HandleMedia(j)
      <3>1. Hooks(j, processor[j].source) \subseteq Ssrcs \cup {NoSsrc}
        BY DEF Hooks, IInv, TypeOK
      <3> QED BY <2>2, <2>3, <2>7, <3>1 DEF HandleMedia
    <2>8. CASE CallHook(j) \/ UseErasedEntry(j)
      BY <2>3, <2>8 DEF CallHook, UseErasedEntry, Crash, frameVars
    <2> QED BY <1>8, <2>4, <2>5, <2>6, <2>7, <2>8 DEF Process
  <1>9. ASSUME NEW s \in Streams, PullSteps(s)
        PROVE  UNCHANGED processor
    BY <1>9 DEF PullSteps, Pull, PullGivesUp, PullFrame, PullInFreedFlow, PullReturns,
                Crash, frameVars
  <1>10. UNCHANGED vars => UNCHANGED processor
    BY DEF vars, frameVars
  <1> QED BY <1>1, <1>2, <1>3, <1>4, <1>5, <1>6, <1>7, <1>8, <1>9, <1>10 DEF Next

(* A stray entry is made on a socket that two streams have, or have had.   *)
THEOREM StraysNeedTwo ==
    ASSUME Serial
    PROVE  Spec => []StraysExact
  <1>1. ASSUME Init
        PROVE  StraysExact
    BY <1>1 DEF Init, StraysExact, StraysAreShared, MatchedAreShared, UnbornAreNowhere, Idle
  <1>2. ASSUME IInv, StraysExact, [Next]_vars
        PROVE  StraysExact'
    <2>1. ASSUME NEW k \in Streams, strays'[k] # {}
          PROVE  Shared(k)'
      <3>1. strays[k] # {} \/ TakeEntry(k)
        BY <1>2, <2>1, StraysAppear
      <3>2. Shared(k)
        BY <1>2, <3>1 DEF StraysExact, StraysAreShared, MatchedAreShared, TakeEntry
      <3> QED BY <1>2, <3>2, SharedStays
    <2>2. ASSUME NEW k \in Streams, processor'[k].at = "matched", processor'[k].entry # NoSsrc
          PROVE  Shared(k)'
      <3>1. \/ processor[k].at = "matched" /\ processor[k].entry # NoSsrc
            \/ \E ssrc \in Entries(k) : Cardinality(Entries(k)) # 1
        BY <1>2, <2>2, MatchesAppear
      <3>2. Shared(k)
        BY <1>2, <3>1, FoundAmongTwo DEF StraysExact, MatchedAreShared
      <3> QED BY <1>2, <3>2, SharedStays
    <2>3. UnbornAreNowhere'
      BY <1>2, SocketsStay
    <2> QED BY <2>1, <2>2, <2>3 DEF StraysExact, StraysAreShared, MatchedAreShared
  <1> QED BY <1>1, <1>2, Inductive, PTL DEF Spec

(* What streams leave behind is a stray entry and the flow that has it, on *)
(* a socket that two streams have had, and nothing else.                   *)
THEOREM NothingLeft ==
    ASSUME Serial
    PROVE  Spec => []NothingIsLeft
  <1>1. ASSUME IInv, NEW k \in Streams
        PROVE  /\ k \in reception_flows_ \/ active_[k] => Users(k) # {} \/ strays[k] # {}
               /\ \A ssrc \in packet_handlers_[k] \cup hooks_[k] : ssrc[1] \in Users(k)
               /\ ~active_[k] => frames_[k] = <<>>
    <2>1. k \in reception_flows_ => Users(k) # {} \/ strays[k] # {}
      BY <1>1 DEF IInv, Parts, FlowsExact, RegisteredAreUsed, UnusedStages, Users
    <2>2. active_[k] = TRUE => Users(k) # {} \/ strays[k] # {}
      BY <1>1 DEF IInv, Parts, RunsExact, RunningAreUsed, RestStages, UnusedStages, Users
    <2>3. ASSUME NEW ssrc \in packet_handlers_[k] \cup hooks_[k]
          PROVE  ssrc[1] \in Users(k)
      <3>1. ssrc[1] \in Streams
        BY <1>1 DEF IInv, TypeOK, Ssrcs
      <3> QED BY <1>1, <3>1 DEF IInv, Parts, TablesExact, FiledHaveHandlers, HooksAreOwned,
                                HandlerStages, HookStages, Users
    <2>4. active_[k] \in BOOLEAN
      BY <1>1 DEF IInv, TypeOK
    <2>5. active_[k] = FALSE => frames_[k] = <<>>
      BY <1>1 DEF IInv, Parts, RunsExact, RestingIsEmpty
    <2> QED BY <2>1, <2>2, <2>3, <2>4, <2>5
  <1>2. IInv /\ StraysExact => NothingIsLeft
    BY <1>1 DEF NothingIsLeft, StraysExact, StraysAreShared
  <1> QED BY <1>2, Inductive, StraysNeedTwo, PTL

(* A port's entry names an open socket that is bound to it and has a flow. *)
THEOREM PortsAlive ==
    ASSUME Serial
    PROVE  Spec => []PortEntriesAreAlive
  <1>1. IInv => PortEntriesAreAlive
    BY DEF IInv, Parts, PortsExact
  <1> QED BY <1>1, Inductive, PTL

(* While none of its bind() calls has failed, a port that the factory does *)
(* not have in its table is bound by none of its open sockets.             *)
LEMMA UnregisteredAreFree ==
    ASSUME IInv, refused = FALSE, \A t \in Streams : stage[t] \in AtRest,
           NEW p \in Ports, ~Registered(p)
    PROVE  Bindable(p)
  <1>1. SUFFICES ASSUME NEW k \in Streams, bound[k] = p, Open(k)
                 PROVE  FALSE
    BY DEF Bindable
  <1>2. k # NoSocket /\ p # 0
    BY MuxAssumption
  <1>3. k \notin reception_flows_
    BY <1>1, <1>2 DEF IInv, Parts, PortsExact, BoundAreRegistered, Registered
  <1>4. ASSUME NEW q \in Ports, used_ports_[q] = k
        PROVE  FALSE
    BY <1>1, <1>2, <1>4 DEF IInv, Parts, PortsExact, PortEntriesAreAlive, Registered
  <1>5. ASSUME NEW t \in Streams, socket_[t] = k, stage[t] \notin {"none", "gone"}
        PROVE  FALSE
    <2>1. stage[t] = "live"
      BY <1>5 DEF AtRest
    <2> QED BY <1>3, <1>5, <2>1 DEF IInv, Parts, FlowsExact, UsedAreRegistered, UnusedStages
  <1> QED BY <1>1, <1>3, <1>4, <1>5 DEF Open

(* The factory does not compete with itself for a port: as long as no      *)
(* bind() has failed, a new socket's port is had by no other open socket,  *)
(* so that the first failure is somebody else's doing.                     *)
THEOREM FreePorts ==
    ASSUME Serial
    PROVE  Spec => BindsFreePorts
  <1>1. ASSUME IInv, [Next]_vars, refused = FALSE, refused' = TRUE,
               NEW r \in Streams, stage[r] = "none", stage'[r] = "socket"
        PROVE  Bindable(src_port_'[r])
    <2>1. PICK s \in Streams, p \in Ports \cup {0} : GetSocket(s, p) /\ p # 0 /\ ~Registered(p)
      <3>1. ~UNCHANGED refused
        BY <1>1
      <3>2. ASSUME NEW s \in Streams, Create(s) PROVE \E p \in Ports \cup {0} : GetSocket(s, p)
        BY <3>1, <3>2 DEF Create, factoryVars, SetOptions, BindTo, InitFails, Crash, GetFlow,
                          InstallRtp, InstallMedia, InstallGetter, Install, StartFlow
      <3>3. ASSUME NEW s \in Streams, Change(s) PROVE FALSE
        BY <3>1, <3>3 DEF Change, factoryVars, UpdateTables, SetRemote, InstallHook
      <3>4. ASSUME NEW s \in Streams, Destroy(s) PROVE FALSE
        BY <3>1, <3>4 DEF Destroy, factoryVars, RemoveHandlers, ClearStream, StopFlow,
                          FlowStopped, ClearPort, FreeResources
      <3>5. ASSUME NEW k \in Streams, Process(k) PROVE FALSE
        BY <3>1, <3>5 DEF Process, factoryVars, LookUp, TakeFirst, TakeEntry, HandleRtp,
                          HandleMedia, CallHook, UseErasedEntry, Crash
      <3>6. ASSUME NEW s \in Streams, PullSteps(s) PROVE FALSE
        BY <3>1, <3>6 DEF PullSteps, factoryVars, Pull, PullGivesUp, PullFrame,
                          PullInFreedFlow, PullReturns, Crash
      <3>7. PICK s \in Streams : \E p \in Ports \cup {0} : GetSocket(s, p)
        BY <1>1, <3>1, <3>2, <3>3, <3>4, <3>5, <3>6 DEF Next, vars, factoryVars
      <3> QED BY <1>1, <3>7 DEF GetSocket, BindTo, factoryVars
    <2>2. r = s /\ src_port_'[r] = p
      BY <1>1, <2>1 DEF GetSocket, Goes, IInv, TypeOK
    <2>3. \A t \in Streams : stage[t] \in AtRest
      BY <2>1 DEF GetSocket, MayCall
    <2> QED BY <1>1, <2>1, <2>2, <2>3, UnregisteredAreFree
  <1>2. ASSUME IInv, [Next]_vars
        PROVE  [~refused /\ refused' =>
                  \A s \in Streams : stage[s] = "none" /\ stage'[s] = "socket"
                                    => Bindable(src_port_'[s])]_vars
    <2>1. refused \in BOOLEAN /\ refused' \in BOOLEAN
      BY <1>2, NextHolds DEF IInv, TypeOK
    <2> QED BY <1>1, <1>2, <2>1
  <1> QED BY <1>2, Inductive, PTL DEF Spec, BindsFreePorts
=============================================================================
