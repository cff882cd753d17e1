------------------------------- MODULE UdpLib -------------------------------
(***************************************************************************)
(* src/lib.cpp, the plugin a game engine loads to exchange UDP messages.   *)
(* The exported functions are called by threads of the application; they   *)
(* share the global sockfd, the global address servaddr and one global     *)
(* receive buffer, without a lock.  The process's descriptor table is part *)
(* of the state, because the functions pass descriptor numbers around and  *)
(* the rest of the process opens and closes descriptors meanwhile.         *)
(*                                                                         *)
(* A socket outlives its descriptor while a thread is blocked in recvfrom  *)
(* on it, so descriptors name sockets and threads hold sockets.            *)
(***************************************************************************)
EXTENDS Integers, Sequences

CONSTANTS
    MaxFd,        \* bound: descriptors 0 .. MaxFd can be open
    Sockets,      \* the open files and sockets of the process (a set of numbers)
    Messages,     \* what a datagram carries
    MaxQueue,     \* bound: datagrams queued on a socket
    Preparers,    \* threads that call preReceiveUDPMessage and socketClose
    Receivers,    \* threads that call receiveUDPMessage
    Senders,      \* threads that call sendUDPMessage
    Polite        \* the application registers its debug and start callbacks first
                  \* and pairs preReceiveUDPMessage with socketClose

Fds == 0 .. MaxFd
Free == 0         \* a descriptor that is not open; a thread that holds no socket
NoFd == -1        \* what socket() returns when it fails
Zero == "zero"    \* the content of the buffer after memset
Threads == Preparers \cup Receivers \cup Senders

ASSUME UdpAssumption ==
    /\ MaxFd \in Nat
    /\ Sockets \subseteq Nat \ {0} /\ 1 \in Sockets
    /\ Zero \notin Messages
    /\ MaxQueue \in Nat
    /\ Polite \in BOOLEAN

VARIABLES
    fds,               \* the descriptor table: the socket each descriptor names
    role,              \* who created the socket: "none" is no socket
    bound,             \* the address it is bound to: none, the one asked for, a peer's
    queue,             \* the datagrams queued on it
    sockfd,            \* the global descriptor of the receiving side
    servaddr,          \* the global address: what it holds
    buffer,            \* the global receive buffer
    callbacks,         \* which of the three callback pointers are not null
    delivered,         \* the last call of the receive callback: data, size, kind
    pc,                \* where each thread is
    fd,                \* the local sockfd of a thread in sendUDPMessage
    held,              \* the socket a thread is blocked on in recvfrom
    datagram,          \* the datagram recvfrom returned to a thread; Zero: it returned -1
    owed,              \* the application has a socket to close
    started,           \* start_callback has reported the start of reception
    crashed            \* a null callback was called: the process is gone

tableVars == <<fds, role, bound, queue>>
globalVars == <<sockfd, servaddr, buffer, callbacks, delivered>>
localVars == <<fd, held, datagram>>
appVars == <<owed, started>>
vars == <<tableVars, globalVars, localVars, appVars, pc, crashed>>

Open(f) == f \in Fds /\ fds[f] # Free
IsSocket(f) == Open(f) /\ role[fds[f]] # "other"
Unused == {s \in Sockets : role[s] = "none"}
Goto(t, l) == pc' = [pc EXCEPT ![t] = l]

Init ==
    /\ fds = [f \in Fds |-> IF f = 0 THEN 1 ELSE Free]     \* standard input
    /\ role = [s \in Sockets |-> IF s = 1 THEN "other" ELSE "none"]
    /\ bound = [s \in Sockets |-> "no"]
    /\ queue = [s \in Sockets |-> <<>>]
    /\ sockfd = 0 /\ servaddr = "none" /\ buffer = Zero
    /\ callbacks = {}
    /\ delivered = <<>>
    /\ pc = [t \in Threads |-> "idle"]
    /\ fd = [t \in Threads |-> NoFd]
    /\ held = [t \in Threads |-> Free]
    /\ datagram = [t \in Threads |-> Zero]
    /\ owed = FALSE /\ started = FALSE /\ crashed = FALSE

-----------------------------------------------------------------------------
(* The descriptor table, as the kernel keeps it.                           *)

(* A new file or socket takes the lowest free descriptor. *)
OpenFd(f, r) ==
    /\ fds[f] = Free
    /\ \A g \in Fds : fds[g] = Free => f <= g
    /\ Unused # {}
    /\ LET new == CHOOSE s \in Sockets : s \in Unused
       IN  /\ fds' = [fds EXCEPT ![f] = new]
           /\ role' = [role EXCEPT ![new] = r]
    /\ UNCHANGED <<bound, queue>>

(* socket() fails: out of descriptors or of memory. *)
OpenFails == UNCHANGED tableVars

(* The socket is gone once neither a descriptor nor a blocked thread       *)
(* refers to it.                                                           *)
Discard(s) ==
    /\ role' = [role EXCEPT ![s] = "none"]
    /\ bound' = [bound EXCEPT ![s] = "no"]
    /\ queue' = [queue EXCEPT ![s] = <<>>]

Close(f) ==
    \/ /\ ~Open(f)
       /\ UNCHANGED tableVars
    \/ /\ Open(f)
       /\ fds' = [fds EXCEPT ![f] = Free]
       /\ IF \E t \in Threads : held[t] = fds[f]
          THEN UNCHANGED <<role, bound, queue>>
          ELSE Discard(fds[f])

(* A datagram arrives on a bound socket. *)
Arrive(s, m) ==
    /\ role[s] # "none" /\ bound[s] # "no"
    /\ Len(queue[s]) < MaxQueue
    /\ queue' = [queue EXCEPT ![s] = Append(@, m)]
    /\ UNCHANGED <<fds, role, bound, globalVars, localVars, appVars, pc>>

(* The rest of the process opens a file, or closes one of its own. *)
AppOpen ==
    /\ \E f \in Fds : OpenFd(f, "other")
    /\ UNCHANGED <<globalVars, localVars, appVars, pc>>

AppClose(f) ==
    /\ Open(f) /\ role[fds[f]] = "other"
    /\ Close(f)
    /\ UNCHANGED <<globalVars, localVars, appVars, pc>>

Callbacks == {"debug", "receive", "start"}
Needed == {"debug", "start"}     \* the pointers that are called without a test

(* setCallback() replaces all three pointers, and calls the new            *)
(* debug_callback if there is one.                                         *)
SetCallback(registered) ==
    /\ Polite => Needed \subseteq registered
    /\ callbacks' = registered
    /\ UNCHANGED <<tableVars, sockfd, servaddr, buffer, delivered, localVars, appVars, pc>>

(* When a polite application calls the other functions. *)
Registered == Polite => Needed \subseteq callbacks

(* debug_callback is called by sendUDPMessage and receiveUDPMessage on     *)
(* their way and by preReceiveUDPMessage where it fails; start_callback    *)
(* where it succeeds; receive_callback some time after its test.           *)
NullCall(t) ==
    /\ \/ /\ "debug" \notin callbacks
          /\ \/ pc[t] \in {"sendSocket", "sendClose", "prepAddress", "prepBind", "recv", "callback", "call"}
             \/ pc[t] = "idle" /\ t \in Senders \cup Preparers /\ Registered
       \/ "start" \notin callbacks /\ pc[t] = "prepBind"
       \/ "receive" \notin callbacks /\ pc[t] = "call"
    /\ crashed' = TRUE
    /\ UNCHANGED <<tableVars, globalVars, localVars, appVars, pc>>

-----------------------------------------------------------------------------
(* sendUDPMessage(): its sockfd and servaddr are locals that hide the      *)
(* globals; the buffer it clears is the global one.                        *)

SendClear(t) ==
    /\ pc[t] = "idle" /\ Registered /\ "debug" \in callbacks
    /\ buffer' = Zero
    /\ Goto(t, "sendSocket")
    /\ UNCHANGED <<tableVars, sockfd, servaddr, callbacks, delivered, localVars, appVars>>

(* Mutant: the function uses the global descriptor, as its name suggests. *)
SendSocketMutant(t) ==
    /\ pc[t] = "sendSocket"
    /\ fd' = [fd EXCEPT ![t] = sockfd]
    /\ UNCHANGED tableVars
    /\ Goto(t, "sendClose")
    /\ UNCHANGED <<globalVars, held, datagram, appVars>>

(* The function goes on with descriptor -1 when socket() fails. *)
SendSocket(t) ==
    /\ pc[t] = "sendSocket" /\ "debug" \in callbacks
    /\ \/ \E f \in Fds : OpenFd(f, "send") /\ fd' = [fd EXCEPT ![t] = f]
       \/ OpenFails /\ fd' = [fd EXCEPT ![t] = NoFd]
    /\ Goto(t, "sendClose")
    /\ UNCHANGED <<globalVars, held, datagram, appVars>>

(* Mutant: sendto() fails and the function returns without closing. *)
SendCloseMutant(t) ==
    /\ pc[t] = "sendClose"
    /\ Close(fd[t]) \/ UNCHANGED tableVars
    /\ fd' = [fd EXCEPT ![t] = NoFd]
    /\ Goto(t, "idle")
    /\ UNCHANGED <<globalVars, held, datagram, appVars>>

(* sendto() leaves the process's state alone, whether it fails or not. *)
SendClose(t) ==
    /\ pc[t] = "sendClose"
    /\ Close(fd[t])
    /\ fd' = [fd EXCEPT ![t] = NoFd]
    /\ Goto(t, "idle")
    /\ UNCHANGED <<globalVars, held, datagram, appVars>>

-----------------------------------------------------------------------------
(* preReceiveUDPMessage() and socketClose(): they work on the global       *)
(* descriptor, and read it again at every call.                            *)

Preparing == \E t \in Threads : pc[t] \in {"prepAddress", "prepBind", "closing"}

(* socket() overwrites sockfd; the function returns when it fails. *)
PreSocket(t) ==
    /\ pc[t] = "idle" /\ Registered
    /\ Polite => ~owed /\ ~Preparing
    /\ started' = FALSE
    /\ \/ /\ \E f \in Fds : OpenFd(f, "receive") /\ sockfd' = f
          /\ owed' = TRUE
          /\ Goto(t, "prepAddress")
       \/ /\ OpenFails /\ "debug" \in callbacks
          /\ sockfd' = NoFd
          /\ UNCHANGED <<owed, pc>>
    /\ UNCHANGED <<servaddr, buffer, callbacks, delivered, localVars>>

(* setsockopt() fails on what is no socket and the function returns with   *)
(* the descriptor open; else servaddr is set to the port asked for.        *)
PreAddress(t) ==
    /\ pc[t] = "prepAddress"
    /\ \/ IsSocket(sockfd) /\ servaddr' = "asked" /\ Goto(t, "prepBind")
       \/ "debug" \in callbacks /\ UNCHANGED servaddr /\ Goto(t, "idle")
    /\ UNCHANGED <<tableVars, sockfd, buffer, callbacks, delivered, localVars, appVars>>

Bindable == IsSocket(sockfd) /\ bound[fds[sockfd]] = "no"

(* Mutant: the failure of bind() does not end the function. *)
PreBindMutant(t) ==
    /\ pc[t] = "prepBind"
    /\ \/ Bindable /\ bound' = [bound EXCEPT ![fds[sockfd]] = servaddr]
       \/ "debug" \in callbacks /\ UNCHANGED bound
    /\ "start" \in callbacks /\ started' = TRUE
    /\ Goto(t, "idle")
    /\ UNCHANGED <<fds, role, queue, globalVars, localVars, owed>>

(* bind() to whatever servaddr holds by now, then start_callback().  bind() *)
(* may also fail because the port is taken: the descriptor stays open.     *)
PreBind(t) ==
    /\ pc[t] = "prepBind"
    /\ \/ /\ Bindable
          /\ bound' = [bound EXCEPT ![fds[sockfd]] = servaddr]
          /\ "start" \in callbacks /\ started' = TRUE
       \/ "debug" \in callbacks /\ UNCHANGED <<bound, started>>
    /\ Goto(t, "idle")
    /\ UNCHANGED <<fds, role, queue, globalVars, localVars, owed>>

(* The application calls socketClose(). *)
CallClose(t) ==
    /\ pc[t] = "idle"
    /\ Polite => owed /\ ~Preparing
    /\ started' = FALSE
    /\ Goto(t, "closing")
    /\ UNCHANGED <<tableVars, globalVars, localVars, owed>>

(* close(sockfd); sockfd keeps its value. *)
SocketClose(t) ==
    /\ pc[t] = "closing"
    /\ Close(sockfd)
    /\ owed' = FALSE
    /\ Goto(t, "idle")
    /\ UNCHANGED <<globalVars, localVars, started>>

-----------------------------------------------------------------------------
(* receiveUDPMessage().                                                    *)

RecvClear(t) ==
    /\ pc[t] = "idle" /\ Registered
    /\ buffer' = Zero
    /\ Goto(t, "recv")
    /\ UNCHANGED <<tableVars, sockfd, servaddr, callbacks, delivered, localVars, appVars>>

(* recvfrom() looks sockfd up.  On what is no socket it returns -1, and    *)
(* the terminator goes to buffer[-1], outside the buffer.                  *)
RecvEnter(t) ==
    /\ pc[t] = "recv" /\ "debug" \in callbacks
    /\ \/ /\ IsSocket(sockfd)
          /\ held' = [held EXCEPT ![t] = fds[sockfd]]
          /\ Goto(t, "blocked")
          /\ UNCHANGED datagram
       \/ /\ ~IsSocket(sockfd)
          /\ Goto(t, "callback")
          /\ UNCHANGED <<held, datagram>>
    /\ UNCHANGED <<tableVars, globalVars, fd, appVars>>

(* recvfrom() takes a datagram from the socket it blocked on.  Its last    *)
(* argument, len, is not initialised: the sender's address is stored in    *)
(* servaddr, or not at all, or the call fails after the data is copied.    *)
RecvReturn(t) ==
    /\ pc[t] = "blocked"
    /\ queue[held[t]] # <<>>
    /\ buffer' = Head(queue[held[t]])
    /\ \/ datagram' = [datagram EXCEPT ![t] = Head(queue[held[t]])]
          /\ servaddr' \in {servaddr, "peer"}
       \/ UNCHANGED <<datagram, servaddr>>
    /\ held' = [held EXCEPT ![t] = Free]
    /\ IF \/ \E f \in Fds : fds[f] = held[t]
          \/ \E u \in Threads \ {t} : held[u] = held[t]
       THEN queue' = [queue EXCEPT ![held[t]] = Tail(@)] /\ UNCHANGED <<role, bound>>
       ELSE Discard(held[t])
    /\ Goto(t, "callback")
    /\ UNCHANGED <<fds, sockfd, callbacks, delivered, fd, appVars>>

(* The test of receive_callback: without one the function ends. *)
RecvTest(t) ==
    /\ pc[t] = "callback" /\ "debug" \in callbacks
    /\ \/ "receive" \in callbacks /\ Goto(t, "call") /\ UNCHANGED datagram
       \/ /\ "receive" \notin callbacks
          /\ datagram' = [datagram EXCEPT ![t] = Zero]
          /\ Goto(t, "idle")
    /\ UNCHANGED <<tableVars, globalVars, fd, held, appVars>>

(* Mutant: passes the kind 4, which the media library uses for audio. *)
RecvCallbackMutant(t) ==
    /\ pc[t] = "call" /\ {"debug", "receive"} \subseteq callbacks
    /\ delivered' = <<buffer, IF datagram[t] = Zero THEN "-1" ELSE "length", 4>>
    /\ datagram' = [datagram EXCEPT ![t] = Zero]
    /\ Goto(t, "idle")
    /\ UNCHANGED <<tableVars, sockfd, servaddr, buffer, callbacks, fd, held, appVars>>

(* receive_callback(buffer, n, 0), after debug_callback has been given the *)
(* text: the pointer is read again.                                        *)
RecvCallback(t) ==
    /\ pc[t] = "call" /\ {"debug", "receive"} \subseteq callbacks
    /\ delivered' = <<buffer, IF datagram[t] = Zero THEN "-1" ELSE "length", 0>>
    /\ datagram' = [datagram EXCEPT ![t] = Zero]
    /\ Goto(t, "idle")
    /\ UNCHANGED <<tableVars, sockfd, servaddr, buffer, callbacks, fd, held, appVars>>

-----------------------------------------------------------------------------

Step ==
    \/ \E s \in Sockets, m \in Messages : Arrive(s, m)
    \/ AppOpen
    \/ \E f \in Fds : AppClose(f)
    \/ \E registered \in SUBSET Callbacks : SetCallback(registered)
    \/ \E t \in Senders : SendClear(t) \/ SendSocket(t) \/ SendClose(t)
    \/ \E t \in Preparers :
          PreSocket(t) \/ PreAddress(t) \/ PreBind(t) \/ CallClose(t) \/ SocketClose(t)
    \/ \E t \in Receivers :
          RecvClear(t) \/ RecvEnter(t) \/ RecvReturn(t) \/ RecvTest(t) \/ RecvCallback(t)

Next ==
    /\ ~crashed
    /\ \/ Step /\ UNCHANGED crashed
       \/ \E t \in Threads : NullCall(t)

Spec == Init /\ [][Next]_vars

-----------------------------------------------------------------------------
(* Type correctness: the descriptor table and its sockets, the globals of  *)
(* lib.cpp, the threads' locals, the flags.  The kind of data that the     *)
(* receive callback is told is always 0, the literal at lib.cpp:126: it is *)
(* none of the kinds 1 to 3 that lib.hpp:11-23 defines.                    *)
TableTypes ==
    /\ fds \in [Fds -> Sockets \cup {Free}]
    /\ role \in [Sockets -> {"none", "other", "receive", "send"}]
    /\ bound \in [Sockets -> {"no", "asked", "peer"}]
    /\ queue \in [Sockets -> Seq(Messages)]

GlobalTypes ==
    /\ sockfd \in Fds \cup {NoFd}
    /\ servaddr \in {"none", "asked", "peer"}
    /\ buffer \in Messages \cup {Zero}
    /\ callbacks \subseteq Callbacks
    /\ delivered \in {<<>>} \cup ((Messages \cup {Zero}) \X {"-1", "length"} \X {0})

LocalTypes ==
    /\ pc \in [Threads -> {"idle", "sendSocket", "sendClose", "prepAddress", "prepBind",
                           "closing", "recv", "blocked", "callback", "call"}]
    /\ fd \in [Threads -> Fds \cup {NoFd}]
    /\ held \in [Threads -> Sockets \cup {Free}]
    /\ datagram \in [Threads -> Messages \cup {Zero}]

FlagTypes == owed \in BOOLEAN /\ started \in BOOLEAN /\ crashed \in BOOLEAN

TypeOK == TableTypes /\ GlobalTypes /\ LocalTypes /\ FlagTypes

(* A descriptor is closed only by whom it belongs to, however the threads  *)
(* interleave: sendUDPMessage closes the socket it created, socketClose    *)
(* the one preReceiveUDPMessage created, and a file of the application is  *)
(* closed by the application, although the library works with bare         *)
(* descriptor numbers that the kernel reuses.                              *)
ClosesOnlyItsSocket ==
    [][\A f \in Fds :
          Open(f) /\ fds'[f] = Free =>
              \/ role[fds[f]] = "send" /\ \E t \in Senders : fd[t] = f /\ pc'[t] # pc[t]
              \/ role[fds[f]] = "receive" /\ f = sockfd /\ owed /\ ~owed'
              \/ role[fds[f]] = "other" /\ UNCHANGED pc]_vars

(* Every socket the library has open can still be closed through it: the   *)
(* failure paths of sendUDPMessage and preReceiveUDPMessage lose none.     *)
NoSocketLost ==
    \A f \in Fds : Open(f) =>
        \/ role[fds[f]] = "other"
        \/ role[fds[f]] = "send" /\ \E t \in Senders : pc[t] = "sendClose" /\ fd[t] = f
        \/ role[fds[f]] = "receive" /\ sockfd = f /\ owed

(* From the report of start_callback until socketClose the global          *)
(* descriptor names a receiving socket that is bound: sends, failures and  *)
(* the rest of the process never leave the receiver on a dead descriptor.  *)
StartedIsBound ==
    started => IsSocket(sockfd) /\ role[fds[sockfd]] = "receive" /\ bound[fds[sockfd]] # "no"

-----------------------------------------------------------------------------
(* What the comments of the source claim and the code does not do.         *)

(* lib.hpp:18, ReceiveCallbackType: "(データ, データサイズ, データの種類)",    *)
(* the data and its size.  The buffer is shared: a send or another receive *)
(* that starts between recvfrom() and the callback clears it.              *)
CallbackGetsDatagram ==
    [][\A t \in Receivers :
          pc[t] = "call" /\ pc'[t] = "idle" /\ datagram[t] # Zero => delivered'[1] = datagram[t]]_vars
=============================================================================
