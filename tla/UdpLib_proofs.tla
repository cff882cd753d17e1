---------------------------- MODULE UdpLib_proofs ----------------------------
(***************************************************************************)
(* What holds of UdpLib for any number of threads, descriptors, sockets    *)
(* and messages, when the application pairs preReceiveUDPMessage with      *)
(* socketClose.  The argument is ownership of descriptors: an open         *)
(* descriptor belongs to the application, to the one thread that is about  *)
(* to close it in sendUDPMessage, or to the global sockfd.                 *)
(***************************************************************************)
EXTENDS UdpLib, TLAPS

(* The descriptor table: an open descriptor names a live socket of its own,*)
(* and a thread blocks only on a live socket.                              *)
TableInv ==
    /\ \A f \in Fds : fds[f] # Free => role[fds[f]] # "none"
    /\ \A f, g \in Fds : fds[f] # Free /\ fds[f] = fds[g] => f = g
    /\ \A t \in Threads : held[t] # Free => role[held[t]] # "none"
    /\ \A t \in Threads : pc[t] = "blocked" => held[t] # Free

(* A sender's descriptor names the socket it created, and no one else's. *)
SenderInv ==
    /\ \A t \in Threads : fd[t] # NoFd =>
          pc[t] = "sendClose" /\ t \in Senders /\ fds[fd[t]] # Free /\ role[fds[fd[t]]] = "send"
    /\ \A t, u \in Threads : fd[t] # NoFd /\ fd[t] = fd[u] => t = u
    /\ \A f \in Fds : fds[f] # Free /\ role[fds[f]] = "send" => \E t \in Senders : fd[t] = f

(* The one receiving socket is the one sockfd names. *)
ReceiverInv ==
    /\ \A f \in Fds : fds[f] # Free /\ role[fds[f]] = "receive" => sockfd = f /\ owed
    /\ owed => sockfd # NoFd /\ fds[sockfd] # Free /\ role[fds[sockfd]] = "receive"
    /\ \A t \in Threads : pc[t] \in {"prepAddress", "prepBind", "closing"} => owed
    /\ \A t, u \in Threads :
          {pc[t], pc[u]} \subseteq {"prepAddress", "prepBind", "closing"} => t = u
    /\ \A t \in Threads : pc[t] = "prepBind" => servaddr # "none"
    /\ started => owed /\ bound[fds[sockfd]] # "no" /\ \A t \in Threads : pc[t] # "closing"

Ownership == TableInv /\ SenderInv /\ ReceiverInv

stateVars == <<tableVars, globalVars, localVars, appVars, pc>>

(* A call of a null pointer changes nothing but that the process ends. *)
LEMMA NextSteps == [Next]_vars => [Step]_stateVars
BY DEF Next, vars, stateVars, NullCall

-----------------------------------------------------------------------------
(* The two operations on the descriptor table.                             *)

(* open() and socket() give a fresh socket to a free descriptor: no        *)
(* descriptor names it yet and no thread is blocked on it.                 *)
LEMMA OpenFdStep ==
    ASSUME TableTypes, held \in [Threads -> Sockets \cup {Free}], TableInv,
           NEW f \in Fds, NEW r, OpenFd(f, r)
    PROVE  \E s \in Sockets :
              /\ s # Free /\ role[s] = "none" /\ fds[f] = Free
              /\ fds' = [fds EXCEPT ![f] = s]
              /\ role' = [role EXCEPT ![s] = r]
              /\ bound' = bound /\ queue' = queue
              /\ \A g \in Fds : fds[g] # s
              /\ \A t \in Threads : held[t] # s
<1> DEFINE new == CHOOSE s \in Sockets : s \in Unused
<1>1. new \in Sockets /\ new \in Unused
    BY DEF OpenFd, Unused
<1>2. new # Free
    BY <1>1, UdpAssumption DEF Free
<1>3. role[new] = "none"
    BY <1>1 DEF Unused
<1>4. QED
    BY <1>1, <1>2, <1>3 DEF OpenFd, TableInv, TableTypes

(* close() frees one descriptor and leaves every other descriptor, the     *)
(* socket it names and the sockets threads are blocked on as they were.    *)
LEMMA CloseStep ==
    ASSUME TableTypes, held \in [Threads -> Sockets \cup {Free}], TableInv,
           NEW f \in Fds \cup {NoFd}, Close(f)
    PROVE  /\ fds' = [g \in Fds |-> IF g = f THEN Free ELSE fds[g]]
           /\ \A g \in Fds : g # f /\ fds[g] # Free =>
                 role'[fds[g]] = role[fds[g]] /\ bound'[fds[g]] = bound[fds[g]]
           /\ \A t \in Threads : held[t] # Free => role'[held[t]] = role[held[t]]
           /\ TableTypes'
<1>1. CASE ~Open(f)
    <2>1. f \notin Fds \/ fds[f] = Free
        BY <1>1 DEF Open
    <2>2. UNCHANGED tableVars
        BY <1>1 DEF Close, Open
    <2>3. fds' = [g \in Fds |-> IF g = f THEN Free ELSE fds[g]]
        BY <2>1, <2>2 DEF TableTypes, tableVars
    <2>4. QED
        BY <2>2, <2>3 DEF tableVars, TableTypes
<1>2. CASE Open(f)
    <2>1. f \in Fds /\ fds[f] \in Sockets /\ fds[f] # Free
        BY <1>2 DEF Open, TableTypes
    <2>2. fds' = [fds EXCEPT ![f] = Free]
        BY <1>2 DEF Close
    <2>3. CASE \E t \in Threads : held[t] = fds[f]
        <3>1. UNCHANGED <<role, bound, queue>>
            BY <1>2, <2>3 DEF Close
        <3>2. QED
            BY <2>1, <2>2, <3>1 DEF TableTypes
    <2>4. CASE ~ \E t \in Threads : held[t] = fds[f]
        <3>1. Discard(fds[f])
            BY <1>2, <2>4 DEF Close
        <3>2. \A g \in Fds : g # f /\ fds[g] # Free => fds[g] # fds[f]
            BY <2>1 DEF TableInv
        <3>3. <<>> \in Seq(Messages)
            OBVIOUS
        <3>4. TableTypes'
            BY <2>1, <2>2, <3>1, <3>3 DEF TableTypes, Discard
        <3>5. QED
            BY <2>1, <2>2, <2>4, <3>1, <3>2, <3>4 DEF Discard, TableTypes
    <2>5. QED
        BY <2>3, <2>4
<1>3. QED
    BY <1>1, <1>2
-----------------------------------------------------------------------------
(* Every action preserves the types.                                       *)

(* The initial state is typed. *)
LEMMA InitTyped == Init => TypeOK
<1> SUFFICES ASSUME Init PROVE TypeOK
    OBVIOUS
<1>1. TableTypes
    <2>1. 1 \in Sockets
        BY UdpAssumption
    <2>2. <<>> \in Seq(Messages)
        OBVIOUS
    <2>3. QED
        BY <2>1, <2>2 DEF Init, TableTypes
<1>2. GlobalTypes
    BY UdpAssumption DEF Init, GlobalTypes, Fds, Zero
<1>3. LocalTypes
    BY DEF Init, LocalTypes
<1>4. FlagTypes
    BY DEF Init, FlagTypes
<1>5. QED
    BY <1>1, <1>2, <1>3, <1>4 DEF TypeOK

(* The descriptor table stays typed: a socket is bound only to an address  *)
(* that was set, and queues carry messages.                                *)
LEMMA TableTypesStep ==
    ASSUME TypeOK, TableInv, ReceiverInv, [Step]_stateVars
    PROVE  TableTypes'
<1> USE DEF TypeOK
<1>1. ASSUME NEW s \in Sockets, NEW m \in Messages, Arrive(s, m) PROVE TableTypes'
    <2>1. Append(queue[s], m) \in Seq(Messages)
        BY DEF TableTypes
    <2>2. QED
        BY <1>1, <2>1 DEF Arrive, TableTypes
<1>2. ASSUME NEW f \in Fds, NEW r \in {"other", "receive", "send"}, OpenFd(f, r) PROVE TableTypes'
    <2>1. PICK s \in Sockets :
              /\ fds' = [fds EXCEPT ![f] = s]
              /\ role' = [role EXCEPT ![s] = r]
              /\ bound' = bound /\ queue' = queue
        BY <1>2, OpenFdStep DEF LocalTypes
    <2>2. QED
        BY <2>1 DEF TableTypes
<1>3. ASSUME NEW f \in Fds \cup {NoFd}, Close(f) PROVE TableTypes'
    BY <1>3, CloseStep DEF LocalTypes
<1>4. ASSUME UNCHANGED tableVars PROVE TableTypes'
    BY <1>4 DEF TableTypes, tableVars
<1>5. CASE AppOpen
    BY <1>2, <1>5 DEF AppOpen
<1>6. ASSUME NEW f \in Fds, AppClose(f) PROVE TableTypes'
    BY <1>3, <1>6 DEF AppClose
<1>7. ASSUME NEW t \in Senders, SendSocket(t) PROVE TableTypes'
    BY <1>2, <1>4, <1>7 DEF SendSocket, OpenFails
<1>8. ASSUME NEW t \in Senders, SendClose(t) PROVE TableTypes'
    <2>1. fd[t] \in Fds \cup {NoFd}
        BY DEF LocalTypes, Threads
    <2>2. QED
        BY <1>3, <1>8, <2>1 DEF SendClose
<1>9. ASSUME NEW t \in Preparers, PreSocket(t) PROVE TableTypes'
    BY <1>2, <1>4, <1>9 DEF PreSocket, OpenFails
<1>10. ASSUME NEW t \in Preparers, PreBind(t) PROVE TableTypes'
    <2>1. t \in Threads /\ pc[t] = "prepBind"
        BY <1>10 DEF PreBind, Threads
    <2>2. servaddr \in {"asked", "peer"}
        BY <2>1 DEF ReceiverInv, GlobalTypes
    <2>3. QED
        BY <1>10, <2>2 DEF PreBind, Bindable, TableTypes
<1>11. ASSUME NEW t \in Preparers, SocketClose(t) PROVE TableTypes'
    BY <1>3, <1>11 DEF SocketClose, GlobalTypes
<1>12. ASSUME NEW t \in Receivers, RecvReturn(t) PROVE TableTypes'
    <2>1. t \in Threads /\ held[t] \in Sockets
        BY <1>12 DEF RecvReturn, LocalTypes, Threads, TableInv
    <2>2. queue[held[t]] \in Seq(Messages) /\ queue[held[t]] # <<>>
        BY <1>12, <2>1 DEF RecvReturn, TableTypes
    <2>3. Tail(queue[held[t]]) \in Seq(Messages) /\ <<>> \in Seq(Messages)
        BY <2>2
    <2>4. QED
        BY <1>12, <2>1, <2>3 DEF RecvReturn, Discard, TableTypes
<1>13. QED
    BY <1>1, <1>4, <1>5, <1>6, <1>7, <1>8, <1>9, <1>10, <1>11, <1>12
       DEF Step, stateVars, SetCallback, SendClear, PreAddress, CallClose, RecvClear, RecvEnter, RecvTest,
           RecvCallback

(* The globals of lib.cpp stay typed. *)
LEMMA GlobalTypesStep ==
    ASSUME TypeOK, TableInv, [Step]_stateVars
    PROVE  GlobalTypes'
<1> USE DEF TypeOK
<1>1. ASSUME NEW t \in Receivers, RecvReturn(t) PROVE GlobalTypes'
    <2>1. t \in Threads /\ held[t] \in Sockets
        BY <1>1 DEF RecvReturn, LocalTypes, Threads, TableInv
    <2>2. queue[held[t]] \in Seq(Messages) /\ queue[held[t]] # <<>>
        BY <1>1, <2>1 DEF RecvReturn, TableTypes
    <2>3. Head(queue[held[t]]) \in Messages
        BY <2>2
    <2>4. QED
        BY <1>1, <2>3 DEF RecvReturn, GlobalTypes
<1>2. ASSUME NEW t \in Receivers, RecvCallback(t) PROVE GlobalTypes'
    BY <1>2 DEF RecvCallback, GlobalTypes
<1>3. ASSUME NEW t \in Preparers, PreSocket(t) PROVE GlobalTypes'
    BY <1>3 DEF PreSocket, GlobalTypes
<1>4. ASSUME NEW t \in Preparers, PreAddress(t) PROVE GlobalTypes'
    BY <1>4 DEF PreAddress, GlobalTypes
<1>5. ASSUME NEW t \in Senders \cup Receivers, buffer' = Zero, UNCHANGED <<sockfd, servaddr, callbacks, delivered>>
      PROVE GlobalTypes'
    BY <1>5 DEF GlobalTypes
<1>6. ASSUME UNCHANGED <<sockfd, servaddr, buffer, callbacks, delivered>> PROVE GlobalTypes'
    BY <1>6 DEF GlobalTypes
<1>7. ASSUME NEW registered \in SUBSET Callbacks, SetCallback(registered) PROVE GlobalTypes'
    BY <1>7 DEF SetCallback, GlobalTypes
<1>8. QED
    BY <1>1, <1>2, <1>3, <1>4, <1>5, <1>6, <1>7
       DEF Step, stateVars, globalVars, Arrive, AppOpen, AppClose, SendClear, SendSocket,
           SendClose, PreBind, CallClose, SocketClose, RecvClear, RecvEnter, RecvTest

(* The threads' locals stay typed. *)
LEMMA LocalTypesStep ==
    ASSUME TypeOK, TableInv, [Step]_stateVars
    PROVE  LocalTypes'
<1> USE DEF TypeOK
<1>1. ASSUME NEW t \in Senders, SendClear(t) \/ SendSocket(t) \/ SendClose(t) PROVE LocalTypes'
    <2>1. t \in Threads /\ NoFd \in Fds \cup {NoFd}
        BY DEF Threads
    <2>2. QED
        BY <1>1, <2>1 DEF SendClear, SendSocket, SendClose, Goto, localVars, LocalTypes
<1>2. ASSUME NEW t \in Preparers, PreSocket(t) \/ PreAddress(t) \/ PreBind(t) \/ CallClose(t) \/ SocketClose(t)
      PROVE LocalTypes'
    BY <1>2 DEF PreSocket, PreAddress, PreBind, CallClose, SocketClose, Goto, localVars, LocalTypes
<1>3. ASSUME NEW t \in Receivers, RecvClear(t) \/ RecvEnter(t) PROVE LocalTypes'
    <2>1. IsSocket(sockfd) => fds[sockfd] \in Sockets
        BY DEF IsSocket, Open, TableTypes
    <2>2. QED
        BY <1>3, <2>1 DEF RecvClear, RecvEnter, Goto, localVars, LocalTypes
<1>4. ASSUME NEW t \in Receivers, RecvReturn(t) \/ RecvTest(t) \/ RecvCallback(t) PROVE LocalTypes'
    <2>1. t \in Threads
        BY DEF Threads
    <2>2. ASSUME RecvReturn(t) PROVE Head(queue[held[t]]) \in Messages
        <3>1. held[t] \in Sockets
            BY <2>1, <2>2 DEF RecvReturn, LocalTypes, TableInv
        <3>2. queue[held[t]] \in Seq(Messages) /\ queue[held[t]] # <<>>
            BY <2>2, <3>1 DEF RecvReturn, TableTypes
        <3>3. QED
            BY <3>2
    <2>3. QED
        BY <1>4, <2>2 DEF RecvReturn, RecvTest, RecvCallback, Goto, LocalTypes
<1>5. ASSUME UNCHANGED <<localVars, pc>> PROVE LocalTypes'
    BY <1>5 DEF localVars, LocalTypes
<1>6. QED
    BY <1>1, <1>2, <1>3, <1>4, <1>5
       DEF Step, stateVars, Arrive, AppOpen, AppClose, SetCallback

(* The flags stay Boolean. *)
LEMMA FlagTypesStep ==
    ASSUME FlagTypes, [Next]_vars
    PROVE  FlagTypes'
<1>1. CASE Step /\ UNCHANGED crashed
    BY <1>1 DEF Step, globalVars, appVars, Arrive, AppOpen, AppClose, SetCallback, SendClear, SendSocket,
       SendClose, PreSocket, PreAddress, PreBind, CallClose, SocketClose, RecvClear, RecvEnter, RecvReturn,
       RecvTest, RecvCallback, FlagTypes
<1>2. CASE (\E t \in Threads : NullCall(t)) \/ UNCHANGED vars
    BY <1>2 DEF NullCall, vars, appVars, FlagTypes
<1>3. QED
    BY <1>1, <1>2 DEF Next

-----------------------------------------------------------------------------
(* Every action preserves the ownership of descriptors.                    *)

(* The table: a fresh socket for an open, one descriptor less for a close, *)
(* and a socket discarded only when no one refers to it.                   *)
LEMMA TableInvStep ==
    ASSUME TypeOK, TableInv, [Step]_stateVars
    PROVE  TableInv'
<1> USE DEF TypeOK
<1>1. ASSUME NEW f \in Fds, NEW r \in {"other", "receive", "send"}, OpenFd(f, r), UNCHANGED held,
             \A t \in Threads : pc'[t] = "blocked" => pc[t] = "blocked"
      PROVE TableInv'
    <2>1. PICK s \in Sockets :
              /\ s # Free /\ role[s] = "none" /\ fds[f] = Free
              /\ fds' = [fds EXCEPT ![f] = s]
              /\ role' = [role EXCEPT ![s] = r]
              /\ \A g \in Fds : fds[g] # s
              /\ \A t \in Threads : held[t] # s
        BY <1>1, OpenFdStep DEF LocalTypes
    <2>2. QED
        BY <1>1, <2>1 DEF TableInv, TableTypes, LocalTypes
<1>2. ASSUME NEW f \in Fds \cup {NoFd}, Close(f), UNCHANGED held,
             \A t \in Threads : pc'[t] = "blocked" => pc[t] = "blocked"
      PROVE TableInv'
    <2>1. /\ fds' = [g \in Fds |-> IF g = f THEN Free ELSE fds[g]]
          /\ \A g \in Fds : g # f /\ fds[g] # Free => role'[fds[g]] = role[fds[g]]
          /\ \A t \in Threads : held[t] # Free => role'[held[t]] = role[held[t]]
        BY <1>2, CloseStep DEF LocalTypes
    <2>2. QED
        BY <1>2, <2>1 DEF TableInv
<1>3. ASSUME UNCHANGED <<fds, role, held>>,
             \A t \in Threads : pc'[t] = "blocked" => pc[t] = "blocked"
      PROVE TableInv'
    BY <1>3 DEF TableInv
<1>4. CASE AppOpen
    BY <1>1, <1>4 DEF AppOpen, localVars
<1>5. ASSUME NEW f \in Fds, AppClose(f) PROVE TableInv'
    BY <1>2, <1>5 DEF AppClose, localVars
<1>6. ASSUME NEW t \in Senders, SendSocket(t) PROVE TableInv'
    <2>1. UNCHANGED held /\ \A u \in Threads : pc'[u] = "blocked" => pc[u] = "blocked"
        BY <1>6 DEF SendSocket, Goto, LocalTypes
    <2>2. QED
        BY <1>1, <1>3, <1>6, <2>1 DEF SendSocket, OpenFails, tableVars
<1>7. ASSUME NEW t \in Senders, SendClose(t) PROVE TableInv'
    <2>1. UNCHANGED held /\ \A u \in Threads : pc'[u] = "blocked" => pc[u] = "blocked"
        BY <1>7 DEF SendClose, Goto, LocalTypes
    <2>2. fd[t] \in Fds \cup {NoFd}
        BY DEF LocalTypes, Threads
    <2>3. QED
        BY <1>2, <1>7, <2>1, <2>2 DEF SendClose
<1>8. ASSUME NEW t \in Preparers, PreSocket(t) PROVE TableInv'
    <2>1. UNCHANGED held /\ \A u \in Threads : pc'[u] = "blocked" => pc[u] = "blocked"
        BY <1>8 DEF PreSocket, Goto, LocalTypes, localVars
    <2>2. QED
        BY <1>1, <1>3, <1>8, <2>1 DEF PreSocket, OpenFails, tableVars
<1>9. ASSUME NEW t \in Preparers, SocketClose(t) PROVE TableInv'
    <2>1. UNCHANGED held /\ \A u \in Threads : pc'[u] = "blocked" => pc[u] = "blocked"
        BY <1>9 DEF SocketClose, Goto, LocalTypes, localVars
    <2>2. QED
        BY <1>2, <1>9, <2>1 DEF SocketClose, GlobalTypes
<1>10. ASSUME NEW t \in Receivers, RecvEnter(t) PROVE TableInv'
    <2>1. t \in Threads
        BY DEF Threads
    <2>2. CASE ~IsSocket(sockfd)
        BY <1>10, <2>2 DEF RecvEnter, Goto, TableInv, LocalTypes, tableVars
    <2>3. CASE IsSocket(sockfd)
        <3>1. fds[sockfd] # Free /\ role[fds[sockfd]] # "none"
            BY <2>3 DEF IsSocket, Open, TableInv
        <3>2. QED
            BY <1>10, <2>1, <2>3, <3>1 DEF RecvEnter, Goto, TableInv, LocalTypes, tableVars
    <2>4. QED
        BY <2>2, <2>3
<1>11. ASSUME NEW t \in Receivers, RecvReturn(t) PROVE TableInv'
    <2>1. t \in Threads /\ held[t] \in Sockets
        BY <1>11 DEF RecvReturn, LocalTypes, Threads, TableInv
    <2>2. /\ UNCHANGED fds
          /\ held' = [held EXCEPT ![t] = Free]
          /\ pc' = [pc EXCEPT ![t] = "callback"]
        BY <1>11 DEF RecvReturn, Goto
    <2>3. \/ UNCHANGED role
          \/ /\ role' = [role EXCEPT ![held[t]] = "none"]
             /\ \A f \in Fds : fds[f] # held[t]
             /\ \A u \in Threads \ {t} : held[u] # held[t]
        BY <1>11 DEF RecvReturn, Discard
    <2>4. QED
        BY <2>1, <2>2, <2>3 DEF TableInv, LocalTypes, TableTypes
<1>12. ASSUME NEW t \in Threads,
              SendClear(t) \/ PreAddress(t) \/ PreBind(t) \/ CallClose(t) \/ RecvClear(t) \/ RecvTest(t) \/ RecvCallback(t)
       PROVE TableInv'
    <2>1. UNCHANGED <<fds, role, held>>
        BY <1>12 DEF SendClear, PreAddress, PreBind, CallClose, RecvClear, RecvTest, RecvCallback, tableVars, localVars
    <2>2. \A u \in Threads : pc'[u] = "blocked" => pc[u] = "blocked"
        BY <1>12 DEF SendClear, PreAddress, PreBind, CallClose, RecvClear, RecvTest, RecvCallback, Goto, LocalTypes
    <2>3. QED
        BY <1>3, <2>1, <2>2
<1>13. CASE \/ \E s \in Sockets, m \in Messages : Arrive(s, m)
            \/ \E registered \in SUBSET Callbacks : SetCallback(registered)
            \/ UNCHANGED stateVars
    BY <1>3, <1>13 DEF Arrive, SetCallback, stateVars, localVars, tableVars
<1>14. QED
    BY <1>4, <1>5, <1>6, <1>7, <1>8, <1>9, <1>10, <1>11, <1>12, <1>13 DEF Step, Threads

(* Whether the descriptor f is open on a socket created as r. *)
Names(f, r) == fds[f] # Free /\ role[fds[f]] = r

(* An open of the application and the library adds one name and keeps all  *)
(* others with the addresses their sockets are bound to.                   *)
LEMMA OpenNames ==
    ASSUME TypeOK, TableInv, NEW f \in Fds, NEW r \in {"other", "receive", "send"}, OpenFd(f, r)
    PROVE  /\ fds[f] = Free /\ Names(f, r)' /\ bound' = bound
           /\ \A q \in {"other", "receive", "send"} : Names(f, q)' => q = r
           /\ \A g \in Fds : g # f => fds'[g] = fds[g]
           /\ \A g \in Fds, q \in {"other", "receive", "send"} : g # f => (Names(g, q)' <=> Names(g, q))
<1>1. PICK s \in Sockets :
              /\ s # Free /\ role[s] = "none" /\ fds[f] = Free
              /\ fds' = [fds EXCEPT ![f] = s]
              /\ role' = [role EXCEPT ![s] = r]
              /\ bound' = bound
              /\ \A g \in Fds : fds[g] # s
    BY OpenFdStep DEF TypeOK, LocalTypes
<1>2. QED
    BY <1>1 DEF TypeOK, TableTypes, Names

(* A close removes one name and keeps all others. *)
LEMMA CloseNames ==
    ASSUME TypeOK, TableInv, NEW f \in Fds \cup {NoFd}, Close(f)
    PROVE  /\ f \in Fds => fds'[f] = Free
           /\ \A g \in Fds : g # f =>
                 /\ fds'[g] = fds[g]
                 /\ \A q \in {"other", "receive", "send"} : Names(g, q)' <=> Names(g, q)
                 /\ fds[g] # Free => bound'[fds[g]] = bound[fds[g]]
<1>1. /\ fds' = [g \in Fds |-> IF g = f THEN Free ELSE fds[g]]
      /\ \A g \in Fds : g # f /\ fds[g] # Free =>
             role'[fds[g]] = role[fds[g]] /\ bound'[fds[g]] = bound[fds[g]]
    BY CloseStep DEF TypeOK, LocalTypes
<1>2. QED
    BY <1>1 DEF Names

(* The end of a receive discards a socket only when no descriptor names it.*)
LEMMA ReturnNames ==
    ASSUME TypeOK, TableInv, NEW t \in Receivers, RecvReturn(t)
    PROVE  /\ fds' = fds
           /\ \A g \in Fds, q \in {"other", "receive", "send"} : Names(g, q)' <=> Names(g, q)
           /\ \A g \in Fds : fds[g] # Free => bound'[fds[g]] = bound[fds[g]]
<1>1. held[t] \in Sockets
    BY DEF RecvReturn, TypeOK, LocalTypes, Threads, TableInv
<1>2. CASE UNCHANGED <<fds, role, bound>>
    BY <1>2 DEF Names
<1>3. CASE /\ UNCHANGED fds
           /\ role' = [role EXCEPT ![held[t]] = "none"]
           /\ bound' = [bound EXCEPT ![held[t]] = "no"]
           /\ \A g \in Fds : fds[g] # held[t]
    BY <1>1, <1>3 DEF Names, TypeOK, TableTypes
<1>4. QED
    BY <1>2, <1>3 DEF RecvReturn, Discard

(* SenderInv and ReceiverInv, in terms of names. *)
LEMMA SenderNames ==
    SenderInv <=>
        /\ \A t \in Threads : fd[t] # NoFd => pc[t] = "sendClose" /\ t \in Senders /\ Names(fd[t], "send")
        /\ \A t, u \in Threads : fd[t] # NoFd /\ fd[t] = fd[u] => t = u
        /\ \A f \in Fds : Names(f, "send") => \E t \in Senders : fd[t] = f
BY DEF SenderInv, Names

(* A step that keeps the senders' descriptors and their names keeps the    *)
(* senders' part of the invariant.                                         *)
LEMMA SendersKept ==
    ASSUME LocalTypes, SenderInv, UNCHANGED fd,
           \A t \in Threads : pc[t] = "sendClose" => pc'[t] = "sendClose",
           \A f \in Fds : Names(f, "send")' <=> Names(f, "send")
    PROVE  SenderInv'
<1>1. \A t \in Threads : fd[t] # NoFd => fd[t] \in Fds
    BY DEF LocalTypes
<1>2. QED
    BY <1>1 DEF SenderInv, Names

(* The senders' descriptors stay theirs. *)
LEMMA SenderInvStep ==
    ASSUME Polite, TypeOK, Ownership, [Step]_stateVars
    PROVE  SenderInv'
<1> USE DEF TypeOK, Ownership
<1>1. CASE AppOpen
    <2>1. PICK f \in Fds : OpenFd(f, "other")
        BY <1>1 DEF AppOpen
    <2>2. \A g \in Fds : Names(g, "send")' <=> Names(g, "send")
        BY <2>1, OpenNames DEF Names
    <2>3. QED
        BY <1>1, <2>2, SendersKept DEF AppOpen, localVars
<1>2. ASSUME NEW f \in Fds, AppClose(f) PROVE SenderInv'
    <2>1. Close(f) /\ ~Names(f, "send")
        BY <1>2 DEF AppClose, Names
    <2>2. \A g \in Fds : Names(g, "send")' <=> Names(g, "send")
        BY <2>1, CloseNames DEF Names
    <2>3. QED
        BY <1>2, <2>2, SendersKept DEF AppClose, localVars
<1>3. ASSUME NEW t \in Senders, SendSocket(t) PROVE SenderInv'
    <2>1. t \in Threads /\ fd[t] = NoFd
        BY <1>3 DEF SendSocket, Threads, SenderInv
    <2>2. pc' = [pc EXCEPT ![t] = "sendClose"]
        BY <1>3 DEF SendSocket, Goto
    <2>3. CASE UNCHANGED tableVars /\ fd' = [fd EXCEPT ![t] = NoFd]
        BY <2>1, <2>2, <2>3 DEF SenderInv, LocalTypes, tableVars
    <2>4. ASSUME NEW f \in Fds, OpenFd(f, "send"), fd' = [fd EXCEPT ![t] = f] PROVE SenderInv'
        <3>1. /\ fds[f] = Free /\ Names(f, "send")'
              /\ \A g \in Fds : g # f => (Names(g, "send")' <=> Names(g, "send"))
            BY <2>4, OpenNames
        <3>2. \A u \in Threads : fd[u] # f
            BY <3>1 DEF SenderInv, Fds, NoFd
        <3>3. ASSUME NEW u \in Threads, u # t, fd'[u] # NoFd
              PROVE  /\ fd'[u] = fd[u] /\ fd[u] \in Fds
                     /\ pc'[u] = "sendClose" /\ u \in Senders /\ Names(fd[u], "send")'
            <4>1. fd[u] # NoFd /\ fd'[u] = fd[u] /\ fd[u] \in Fds /\ pc'[u] = pc[u]
                BY <2>2, <2>4, <3>3 DEF LocalTypes
            <4>2. pc[u] = "sendClose" /\ u \in Senders /\ Names(fd[u], "send") /\ fd[u] # f
                BY <3>2, <4>1 DEF SenderInv, Names
            <4>3. QED
                BY <3>1, <4>1, <4>2 DEF Names
        <3>4. fd'[t] = f /\ pc'[t] = "sendClose"
            BY <2>1, <2>2, <2>4 DEF LocalTypes
        <3>5. \A u \in Threads : fd'[u] # NoFd =>
                  pc'[u] = "sendClose" /\ u \in Senders /\ Names(fd[u], "send")'
            BY <3>1, <3>3, <3>4
        <3>6. \A u, v \in Threads : fd'[u] # NoFd /\ fd'[u] = fd'[v] => u = v
            BY <3>2, <3>3, <3>4 DEF SenderInv
        <3>7. ASSUME NEW g \in Fds, Names(g, "send")' PROVE \E u \in Senders : fd'[u] = g
            <4>1. CASE g = f
                BY <3>4, <4>1
            <4>2. CASE g # f
                <5>1. PICK u \in Senders : fd[u] = g
                    BY <3>1, <3>7, <4>2 DEF SenderInv, Names
                <5>2. u # t /\ u \in Threads
                    BY <2>1, <5>1 DEF Threads, Fds, NoFd
                <5>3. fd'[u] = g
                    BY <2>4, <5>1, <5>2 DEF LocalTypes
                <5>4. QED
                    BY <5>3
            <4>3. QED
                BY <4>1, <4>2
        <3>8. QED
            BY <3>5, <3>6, <3>7 DEF SenderInv, Names
    <2>5. QED
        BY <1>3, <2>3, <2>4 DEF SendSocket, OpenFails
<1>4. ASSUME NEW t \in Senders, SendClose(t) PROVE SenderInv'
    <2>1. t \in Threads /\ fd[t] \in Fds \cup {NoFd}
        BY DEF Threads, LocalTypes
    <2>2. /\ pc' = [pc EXCEPT ![t] = "idle"]
          /\ fd' = [fd EXCEPT ![t] = NoFd]
          /\ Close(fd[t])
        BY <1>4 DEF SendClose, Goto
    <2>3. /\ fd[t] \in Fds => fds'[fd[t]] = Free
          /\ \A g \in Fds : g # fd[t] => (Names(g, "send")' <=> Names(g, "send"))
        BY <2>1, <2>2, CloseNames
    <2>4. \A u \in Threads : fd'[u] # NoFd =>
              pc'[u] = "sendClose" /\ u \in Senders /\ Names(fd[u], "send")' /\ fd'[u] = fd[u]
        <3> SUFFICES ASSUME NEW u \in Threads, fd'[u] # NoFd
                     PROVE  pc'[u] = "sendClose" /\ u \in Senders /\ Names(fd[u], "send")' /\ fd'[u] = fd[u]
            OBVIOUS
        <3>1. u # t /\ fd'[u] = fd[u] /\ fd[u] \in Fds /\ pc'[u] = pc[u]
            BY <2>1, <2>2 DEF LocalTypes
        <3>2. pc[u] = "sendClose" /\ u \in Senders /\ Names(fd[u], "send") /\ fd[u] # fd[t]
            BY <2>1, <3>1 DEF SenderInv, Names
        <3>3. QED
            BY <2>3, <3>1, <3>2
    <2>5. \A f \in Fds : Names(f, "send")' => \E u \in Senders : fd'[u] = f
        <3> SUFFICES ASSUME NEW f \in Fds, Names(f, "send")' PROVE \E u \in Senders : fd'[u] = f
            OBVIOUS
        <3>1. f # fd[t] /\ Names(f, "send")
            BY <2>3 DEF Names
        <3>2. PICK u \in Senders : fd[u] = f
            BY <3>1 DEF SenderInv, Names
        <3>3. u # t /\ u \in Threads
            BY <3>1, <3>2 DEF Threads
        <3>4. QED
            BY <2>2, <3>2, <3>3 DEF LocalTypes
    <2>6. QED
        BY <2>4, <2>5 DEF SenderInv, Names
<1>5. ASSUME NEW t \in Preparers, PreSocket(t) PROVE SenderInv'
    <2>1. \A g \in Fds : Names(g, "send")' <=> Names(g, "send")
        <3>1. CASE OpenFails
            BY <3>1 DEF OpenFails, tableVars, Names
        <3>2. ASSUME NEW f \in Fds, OpenFd(f, "receive") PROVE \A g \in Fds : Names(g, "send")' <=> Names(g, "send")
            BY <3>2, OpenNames DEF Names
        <3>3. QED
            BY <1>5, <3>1, <3>2 DEF PreSocket
    <2>2. QED
        BY <1>5, <2>1, SendersKept DEF PreSocket, localVars, Goto, LocalTypes
<1>6. ASSUME NEW t \in Preparers, SocketClose(t) PROVE SenderInv'
    <2>1. /\ Close(sockfd) /\ sockfd \in Fds \cup {NoFd}
          /\ sockfd \in Fds => ~Names(sockfd, "send")
        BY <1>6 DEF SocketClose, ReceiverInv, GlobalTypes, Names, Threads
    <2>2. \A g \in Fds : Names(g, "send")' <=> Names(g, "send")
        BY <2>1, CloseNames DEF Names
    <2>3. QED
        BY <1>6, <2>2, SendersKept DEF SocketClose, Goto, LocalTypes, localVars
<1>7. ASSUME NEW t \in Receivers, RecvReturn(t) PROVE SenderInv'
    BY <1>7, ReturnNames, SendersKept DEF RecvReturn, Goto, LocalTypes
<1>8. ASSUME NEW t \in Threads,
             \/ SendClear(t) \/ PreAddress(t) \/ PreBind(t) \/ CallClose(t)
             \/ RecvClear(t) \/ RecvEnter(t) \/ RecvTest(t) \/ RecvCallback(t)
      PROVE  SenderInv'
    <2>1. UNCHANGED <<fds, role, fd>>
        BY <1>8 DEF SendClear, PreAddress, PreBind, CallClose, RecvClear, RecvEnter, RecvTest, RecvCallback,
               tableVars, localVars
    <2>2. \A u \in Threads : pc[u] = "sendClose" => pc'[u] = "sendClose"
        BY <1>8 DEF SendClear, PreAddress, PreBind, CallClose, RecvClear, RecvEnter, RecvTest, RecvCallback,
               Goto, LocalTypes
    <2>3. QED
        BY <2>1, <2>2, SendersKept DEF Names
<1>9. CASE \/ \E s \in Sockets, m \in Messages : Arrive(s, m)
           \/ \E registered \in SUBSET Callbacks : SetCallback(registered)
           \/ UNCHANGED stateVars
    BY <1>9, SendersKept DEF Arrive, SetCallback, stateVars, localVars, tableVars, Names
<1>10. QED
    BY <1>1, <1>2, <1>3, <1>4, <1>5, <1>6, <1>7, <1>8, <1>9 DEF Step, Threads

(* A step that keeps sockfd, its name and its address keeps the receiving  *)
(* side's part of the invariant.                                           *)
LEMMA ReceiverKept ==
    ASSUME GlobalTypes, ReceiverInv, UNCHANGED <<sockfd, owed, started, fds>>,
           \A t \in Threads : pc'[t] \in {"prepAddress", "prepBind", "closing"} => pc[t] = pc'[t],
           servaddr' \in {servaddr, "peer"},
           \A f \in Fds : Names(f, "receive")' <=> Names(f, "receive"),
           \A f \in Fds : fds[f] # Free => bound'[fds[f]] = bound[fds[f]]
    PROVE  ReceiverInv'
BY DEF ReceiverInv, GlobalTypes, Names

(* The same for a step that only opens or closes another descriptor. *)
LEMMA ReceiverElsewhere ==
    ASSUME GlobalTypes, ReceiverInv, UNCHANGED <<sockfd, owed, started, servaddr>>,
           \A t \in Threads : pc'[t] \in {"prepAddress", "prepBind", "closing"} => pc[t] = pc'[t],
           NEW f \in Fds \cup {NoFd},
           f \in Fds => ~Names(f, "receive") /\ ~Names(f, "receive")',
           \A g \in Fds : g # f => fds'[g] = fds[g] /\ (Names(g, "receive")' <=> Names(g, "receive")),
           \A g \in Fds : g # f /\ fds[g] # Free => bound'[fds[g]] = bound[fds[g]]
    PROVE  ReceiverInv'
<1>1. owed => sockfd \in Fds /\ sockfd # f /\ Names(sockfd, "receive")
    BY DEF ReceiverInv, GlobalTypes, Names
<1>2. \A g \in Fds : Names(g, "receive")' => Names(g, "receive")
    OBVIOUS
<1>3. QED
    BY <1>1, <1>2 DEF ReceiverInv, Names

(* The receiving socket stays the one sockfd names. *)
LEMMA ReceiverInvStep ==
    ASSUME Polite, TypeOK, Ownership, [Step]_stateVars
    PROVE  ReceiverInv'
<1> USE DEF TypeOK, Ownership
<1>1. CASE AppOpen
    <2>1. PICK f \in Fds : OpenFd(f, "other")
        BY <1>1 DEF AppOpen
    <2>2. /\ ~Names(f, "receive") /\ ~Names(f, "receive")' /\ bound' = bound
          /\ \A g \in Fds : g # f => fds'[g] = fds[g] /\ (Names(g, "receive")' <=> Names(g, "receive"))
        BY <2>1, OpenNames DEF Names
    <2>3. QED
        BY <1>1, <2>2, ReceiverElsewhere DEF AppOpen, globalVars, appVars
<1>2. ASSUME NEW f \in Fds, AppClose(f) PROVE ReceiverInv'
    <2>1. Close(f) /\ ~Names(f, "receive")
        BY <1>2 DEF AppClose, Names
    <2>2. /\ ~Names(f, "receive")'
          /\ \A g \in Fds : g # f => fds'[g] = fds[g] /\ (Names(g, "receive")' <=> Names(g, "receive"))
          /\ \A g \in Fds : g # f /\ fds[g] # Free => bound'[fds[g]] = bound[fds[g]]
        BY <2>1, CloseNames DEF Names
    <2>3. QED
        BY <1>2, <2>1, <2>2, ReceiverElsewhere DEF AppClose, globalVars, appVars
<1>3. ASSUME NEW t \in Senders, SendSocket(t) PROVE ReceiverInv'
    <2>1. /\ UNCHANGED <<sockfd, owed, started, servaddr>>
          /\ \A u \in Threads : pc'[u] \in {"prepAddress", "prepBind", "closing"} => pc[u] = pc'[u]
        BY <1>3 DEF SendSocket, Goto, globalVars, appVars, LocalTypes
    <2>2. CASE OpenFails
        BY <2>1, <2>2, ReceiverKept DEF OpenFails, tableVars, Names
    <2>3. ASSUME NEW f \in Fds, OpenFd(f, "send") PROVE ReceiverInv'
        <3>1. /\ ~Names(f, "receive") /\ ~Names(f, "receive")' /\ bound' = bound
              /\ \A g \in Fds : g # f => fds'[g] = fds[g] /\ (Names(g, "receive")' <=> Names(g, "receive"))
            BY <2>3, OpenNames DEF Names
        <3>2. QED
            BY <2>1, <3>1, ReceiverElsewhere
    <2>4. QED
        BY <1>3, <2>2, <2>3 DEF SendSocket
<1>4. ASSUME NEW t \in Senders, SendClose(t) PROVE ReceiverInv'
    <2>1. t \in Threads /\ fd[t] \in Fds \cup {NoFd} /\ Close(fd[t])
        BY <1>4 DEF SendClose, Threads, LocalTypes
    <2>2. fd[t] \in Fds => ~Names(fd[t], "receive")
        BY <2>1 DEF SenderInv, Names, Fds, NoFd
    <2>3. /\ UNCHANGED <<sockfd, owed, started, servaddr>>
          /\ \A u \in Threads : pc'[u] \in {"prepAddress", "prepBind", "closing"} => pc[u] = pc'[u]
        BY <1>4 DEF SendClose, Goto, globalVars, appVars, LocalTypes
    <2>4. ASSUME NEW f \in Fds \cup {NoFd}, f = fd[t] PROVE ReceiverInv'
        <3>1. /\ f \in Fds => ~Names(f, "receive") /\ ~Names(f, "receive")'
              /\ \A g \in Fds : g # f => fds'[g] = fds[g] /\ (Names(g, "receive")' <=> Names(g, "receive"))
              /\ \A g \in Fds : g # f /\ fds[g] # Free => bound'[fds[g]] = bound[fds[g]]
            BY <2>1, <2>2, <2>4, CloseNames DEF Names
        <3>2. QED
            BY <2>3, <3>1, ReceiverElsewhere
    <2>5. QED
        BY <2>1, <2>4
<1>5. ASSUME NEW t \in Preparers, PreSocket(t) PROVE ReceiverInv'
    <2>1. /\ t \in Threads /\ ~owed /\ started' = FALSE
          /\ \A u \in Threads : pc[u] \notin {"prepAddress", "prepBind", "closing"}
        BY <1>5 DEF PreSocket, Preparing, Threads
    <2>2. CASE OpenFails /\ UNCHANGED <<owed, pc>> /\ sockfd' = NoFd
        BY <2>1, <2>2 DEF OpenFails, tableVars, ReceiverInv
    <2>3. ASSUME NEW f \in Fds, OpenFd(f, "receive"), sockfd' = f, owed' = TRUE, Goto(t, "prepAddress")
          PROVE  ReceiverInv'
        <3>1. /\ Names(f, "receive")'
              /\ \A g \in Fds : g # f => (Names(g, "receive")' <=> Names(g, "receive"))
            BY <2>3, OpenNames
        <3>2. \A g \in Fds : ~Names(g, "receive")
            BY <2>1 DEF ReceiverInv, Names
        <3>3. /\ \A u \in Threads : pc'[u] # "prepBind"
              /\ \A u \in Threads : u # t => pc'[u] \notin {"prepAddress", "prepBind", "closing"}
            BY <2>1, <2>3 DEF Goto, LocalTypes
        <3>4. f # NoFd
            BY DEF Fds, NoFd
        <3>5. QED
            BY <2>1, <2>3, <3>1, <3>2, <3>3, <3>4 DEF ReceiverInv, Names
    <2>4. QED
        BY <1>5, <2>2, <2>3 DEF PreSocket
<1>6. ASSUME NEW t \in Preparers, PreAddress(t) PROVE ReceiverInv'
    <2>1. t \in Threads /\ owed /\ pc[t] = "prepAddress"
        BY <1>6 DEF PreAddress, Threads, ReceiverInv
    <2>2. UNCHANGED <<fds, role, bound, sockfd, owed, started>>
        BY <1>6 DEF PreAddress, tableVars, appVars
    <2>3. \A u \in Threads : pc'[u] = "prepBind" => servaddr' # "none"
        BY <1>6, <2>1 DEF PreAddress, Goto, LocalTypes, ReceiverInv
    <2>4. \A u \in Threads : pc'[u] \in {"prepAddress", "prepBind", "closing"} =>
              pc[u] \in {"prepAddress", "prepBind", "closing"} /\ (pc'[u] = "closing" => pc[u] = "closing")
        BY <1>6, <2>1 DEF PreAddress, Goto, LocalTypes
    <2>5. QED
        BY <2>1, <2>2, <2>3, <2>4 DEF ReceiverInv
<1>7. ASSUME NEW t \in Preparers, PreBind(t) PROVE ReceiverInv'
    <2>1. t \in Threads /\ owed /\ pc[t] = "prepBind" /\ servaddr \in {"asked", "peer"}
        BY <1>7 DEF PreBind, Threads, ReceiverInv, GlobalTypes
    <2>2. UNCHANGED <<fds, role, sockfd, owed, servaddr>> /\ pc' = [pc EXCEPT ![t] = "idle"]
        BY <1>7 DEF PreBind, Goto, globalVars
    <2>3. fds[sockfd] \in Sockets
        BY <2>1 DEF ReceiverInv, GlobalTypes, TableTypes
    <2>4. started' => bound'[fds[sockfd]] # "no"
        BY <1>7, <2>1, <2>3 DEF PreBind, ReceiverInv, TableTypes
    <2>5. QED
        BY <2>1, <2>2, <2>4 DEF ReceiverInv, LocalTypes
<1>8. ASSUME NEW t \in Preparers, SocketClose(t) PROVE ReceiverInv'
    <2>1. /\ t \in Threads /\ Close(sockfd) /\ sockfd \in Fds /\ ~owed' /\ ~started'
          /\ \A u \in Threads : pc'[u] \notin {"prepAddress", "prepBind", "closing"}
        <3>1. t \in Threads /\ pc[t] = "closing" /\ owed /\ ~started
            BY <1>8 DEF SocketClose, Threads, ReceiverInv
        <3>2. \A u \in Threads : u # t => pc[u] \notin {"prepAddress", "prepBind", "closing"}
            BY <3>1 DEF ReceiverInv
        <3>3. QED
            BY <1>8, <3>1, <3>2 DEF SocketClose, Goto, ReceiverInv, GlobalTypes, LocalTypes
    <2>2. /\ fds'[sockfd] = Free
          /\ \A g \in Fds : g # sockfd => (Names(g, "receive")' <=> Names(g, "receive"))
        BY <2>1, CloseNames
    <2>3. \A g \in Fds : ~Names(g, "receive")'
        BY <2>2 DEF ReceiverInv, Names
    <2>4. QED
        BY <2>1, <2>3 DEF ReceiverInv, Names
<1>9. ASSUME NEW t \in Receivers, RecvReturn(t) PROVE ReceiverInv'
    <2>1. /\ UNCHANGED <<sockfd, owed, started>> /\ servaddr' \in {servaddr, "peer"}
          /\ \A u \in Threads : pc'[u] \in {"prepAddress", "prepBind", "closing"} => pc[u] = pc'[u]
        BY <1>9 DEF RecvReturn, Goto, LocalTypes, appVars
    <2>2. QED
        BY <1>9, <2>1, ReturnNames, ReceiverKept
<1>10. ASSUME NEW t \in Threads,
              SendClear(t) \/ RecvClear(t) \/ RecvEnter(t) \/ RecvTest(t) \/ RecvCallback(t)
       PROVE  ReceiverInv'
    <2>1. UNCHANGED <<fds, role, bound, sockfd, owed, started, servaddr>>
        BY <1>10 DEF SendClear, RecvClear, RecvEnter, RecvTest, RecvCallback, tableVars, globalVars, appVars
    <2>2. \A u \in Threads : pc'[u] \in {"prepAddress", "prepBind", "closing"} => pc[u] = pc'[u]
        BY <1>10 DEF SendClear, RecvClear, RecvEnter, RecvTest, RecvCallback, Goto, LocalTypes
    <2>3. QED
        BY <2>1, <2>2, ReceiverKept DEF Names
<1>11. CASE \/ \E s \in Sockets, m \in Messages : Arrive(s, m)
            \/ \E registered \in SUBSET Callbacks : SetCallback(registered)
            \/ UNCHANGED stateVars
    BY <1>11, ReceiverKept DEF Arrive, SetCallback, stateVars, globalVars, appVars, tableVars, Names
<1>12. ASSUME NEW t \in Preparers, CallClose(t) PROVE ReceiverInv'
    <2>1. /\ t \in Threads /\ owed /\ ~started' /\ pc' = [pc EXCEPT ![t] = "closing"]
          /\ \A u \in Threads : pc[u] \notin {"prepAddress", "prepBind", "closing"}
        BY <1>12 DEF CallClose, Goto, Preparing, Threads
    <2>2. UNCHANGED <<fds, role, bound, sockfd, owed, servaddr>>
        BY <1>12 DEF CallClose, tableVars, globalVars
    <2>3. \A u \in Threads : u # t => pc'[u] \notin {"prepAddress", "prepBind", "closing"}
        BY <2>1 DEF LocalTypes
    <2>4. pc'[t] = "closing"
        BY <2>1 DEF LocalTypes
    <2>5. QED
        BY <2>1, <2>2, <2>3, <2>4 DEF ReceiverInv
<1>13. QED
    BY <1>1, <1>2, <1>3, <1>4, <1>5, <1>6, <1>7, <1>8, <1>9, <1>10, <1>11, <1>12 DEF Step, Threads

-----------------------------------------------------------------------------
(* The theorems.                                                           *)

IInv == TypeOK /\ Ownership

(* The ownership of descriptors and the types hold at the start. *)
LEMMA InitIInv == Init => IInv
<1> SUFFICES ASSUME Init PROVE IInv
    OBVIOUS
<1>1. TypeOK
    BY InitTyped
<1>2. TableInv /\ SenderInv
    BY UdpAssumption DEF Init, TableInv, SenderInv, Fds, Free
<1>3. ReceiverInv
    BY UdpAssumption DEF Init, ReceiverInv, Fds, Free
<1>4. QED
    BY <1>1, <1>2, <1>3 DEF IInv, Ownership

(* Every step preserves them, when the application is polite. *)
LEMMA IInvStep ==
    ASSUME Polite, IInv, [Next]_vars
    PROVE  IInv'
BY NextSteps, TableTypesStep, GlobalTypesStep, LocalTypesStep, FlagTypesStep, TableInvStep, SenderInvStep, ReceiverInvStep
   DEF IInv, TypeOK, Ownership

(* Types and ownership are an invariant of the library under a polite      *)
(* application.                                                            *)
THEOREM OwnershipCorrect == ASSUME Polite PROVE Spec => []IInv
<1>1. IInv /\ [Next]_vars => IInv'
    BY IInvStep
<1>2. QED
    BY InitIInv, <1>1, PTL DEF Spec

(* lib.cpp never reaches an ill-typed state: a descriptor it uses is one   *)
(* the process can have, and a socket is bound to an address that was set. *)
THEOREM TypeCorrect == ASSUME Polite PROVE Spec => []TypeOK
<1>1. IInv => TypeOK
    BY DEF IInv
<1>2. QED
    BY OwnershipCorrect, <1>1, PTL

(* No path through sendUDPMessage and preReceiveUDPMessage loses an open   *)
(* socket, for any number of threads that send and receive.                *)
THEOREM NoSocketIsLost == ASSUME Polite PROVE Spec => []NoSocketLost
<1>1. IInv => NoSocketLost
    <2> SUFFICES ASSUME IInv, NEW f \in Fds, Open(f), role[fds[f]] # "other"
                 PROVE  \/ role[fds[f]] = "send" /\ \E t \in Senders : pc[t] = "sendClose" /\ fd[t] = f
                        \/ role[fds[f]] = "receive" /\ sockfd = f /\ owed
        BY DEF NoSocketLost
    <2>1. fds[f] # Free /\ fds[f] \in Sockets
        BY DEF Open, IInv, TypeOK, TableTypes
    <2>2. role[fds[f]] \in {"receive", "send"}
        BY <2>1 DEF IInv, TypeOK, TableTypes, Ownership, TableInv
    <2>3. CASE role[fds[f]] = "send"
        <3>1. PICK t \in Senders : fd[t] = f
            BY <2>1, <2>3 DEF IInv, Ownership, SenderInv
        <3>2. t \in Threads /\ fd[t] # NoFd
            BY <3>1 DEF Threads, Fds, NoFd
        <3>3. QED
            BY <2>3, <3>1, <3>2 DEF IInv, Ownership, SenderInv
    <2>4. CASE role[fds[f]] = "receive"
        BY <2>1, <2>4 DEF IInv, Ownership, ReceiverInv
    <2>5. QED
        BY <2>2, <2>3, <2>4
<1>2. QED
    BY OwnershipCorrect, <1>1, PTL

(* What start_callback reported stays true until socketClose. *)
THEOREM StartedStaysBound == ASSUME Polite PROVE Spec => []StartedIsBound
<1>1. IInv => StartedIsBound
    BY DEF IInv, TypeOK, GlobalTypes, Ownership, ReceiverInv, StartedIsBound, IsSocket, Open
<1>2. QED
    BY OwnershipCorrect, <1>1, PTL

(* Descriptors are bare numbers that the kernel reuses, yet no step closes *)
(* a socket of another thread or of the other side of the library, and     *)
(* none of the library's steps closes a file of the application.           *)
THEOREM OnlyOwnersClose == ASSUME Polite PROVE Spec => ClosesOnlyItsSocket
<1> DEFINE Owned(f) ==
        \/ role[fds[f]] = "send" /\ \E t \in Senders : fd[t] = f /\ pc'[t] # pc[t]
        \/ role[fds[f]] = "receive" /\ f = sockfd /\ owed /\ ~owed'
        \/ role[fds[f]] = "other" /\ UNCHANGED pc
<1> DEFINE Owners == \A f \in Fds : Open(f) /\ fds'[f] = Free => Owned(f)
<1>1. IInv /\ [Next]_vars => [Owners]_vars
    <2> SUFFICES ASSUME IInv, [Step]_stateVars, NEW f \in Fds, Open(f), fds'[f] = Free
                 PROVE  Owned(f)
        BY NextSteps DEF Owners
    <2> USE DEF IInv, TypeOK, Ownership
    <2>1. fds[f] # Free /\ fds[f] \in Sockets
        BY DEF Open, TableTypes
    <2>2. ASSUME NEW g \in Fds, NEW r \in {"other", "receive", "send"}, OpenFd(g, r) PROVE FALSE
        BY <2>1, <2>2, OpenNames DEF Names
    <2>3. ASSUME NEW g \in Fds \cup {NoFd}, Close(g) PROVE g = f
        BY <2>1, <2>3, CloseNames
    <2>4. ASSUME NEW t \in Senders, SendClose(t) PROVE Owned(f)
        <3>1. t \in Threads /\ fd[t] \in Fds \cup {NoFd} /\ Close(fd[t])
            BY <2>4 DEF SendClose, Threads, LocalTypes
        <3>2. fd[t] = f
            BY <2>3, <3>1
        <3>3. pc[t] = "sendClose" /\ role[fds[f]] = "send"
            BY <3>1, <3>2 DEF SenderInv, Fds, NoFd
        <3>4. pc'[t] # pc[t]
            BY <2>4, <3>1, <3>3 DEF SendClose, Goto, LocalTypes
        <3>5. QED
            BY <3>2, <3>3, <3>4
    <2>5. ASSUME NEW t \in Preparers, SocketClose(t) PROVE Owned(f)
        <3>1. sockfd = f /\ owed /\ ~owed'
            BY <2>3, <2>5 DEF SocketClose, GlobalTypes, ReceiverInv, Threads
        <3>2. QED
            BY <3>1 DEF ReceiverInv
    <2>6. ASSUME NEW g \in Fds, AppClose(g) PROVE Owned(f)
        BY <2>3, <2>6 DEF AppClose
    <2>7. ~AppOpen
        BY <2>2 DEF AppOpen
    <2>8. ASSUME NEW t \in Senders, SendSocket(t) PROVE FALSE
        BY <2>1, <2>2, <2>8 DEF SendSocket, OpenFails, tableVars
    <2>9. ASSUME NEW t \in Preparers, PreSocket(t) PROVE FALSE
        BY <2>1, <2>2, <2>9 DEF PreSocket, OpenFails, tableVars
    <2>10. ASSUME UNCHANGED fds PROVE FALSE
        BY <2>1, <2>10
    <2>11. QED
        BY <2>4, <2>5, <2>6, <2>7, <2>8, <2>9, <2>10
           DEF Step, stateVars, Arrive, SetCallback, SendClear, PreAddress, PreBind, CallClose, RecvClear,
               RecvEnter, RecvReturn, RecvTest, RecvCallback, tableVars
<1>2. QED
    BY OwnershipCorrect, <1>1, PTL DEF Spec, ClosesOnlyItsSocket, Owners
=============================================================================
