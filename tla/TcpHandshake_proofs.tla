------------------------ MODULE TcpHandshake_proofs ------------------------
(***************************************************************************)
(* Theorems about TcpHandshake, for any number of rounds and of failures:  *)
(* its state is well typed, no sender waits twice in the queue of          *)
(* connections, and a paced sender never finishes a round ahead of its     *)
(* receiver as long as accept() does not fail.                             *)
(***************************************************************************)
EXTENDS TcpHandshake, SequenceTheorems, TLAPS

-----------------------------------------------------------------------------
(* A queue without repetitions: what joining and leaving it do.            *)

LEMMA Join ==
    ASSUME NEW S, NEW q \in Seq(S), NEW e \in S, IsInjective(q), e \notin ToSet(q)
    PROVE  /\ Append(q, e) \in Seq(S) /\ IsInjective(Append(q, e))
           /\ ToSet(Append(q, e)) = ToSet(q) \cup {e}
<1> DEFINE a == Append(q, e)
<1>1. /\ a \in Seq(S) /\ Len(a) = Len(q) + 1 /\ Len(q) \in Nat
      /\ \A i \in 1 .. Len(q) : a[i] = q[i]
      /\ a[Len(q) + 1] = e
  BY AppendProperties, LenProperties
<1>2. DOMAIN a = 1 .. Len(q) + 1 /\ DOMAIN q = 1 .. Len(q)
  BY <1>1, LenProperties
<1> HIDE DEF a
<1>3. \A i \in DOMAIN a : i \in DOMAIN q \/ i = Len(q) + 1
  BY <1>1, <1>2
<1>4. IsInjective(a)
  BY <1>1, <1>2, <1>3 DEF IsInjective, ToSet
<1>5. ToSet(a) = ToSet(q) \cup {e}
  <2>1. ToSet(a) \subseteq ToSet(q) \cup {e}
    BY <1>1, <1>2, <1>3 DEF ToSet
  <2>2. ToSet(q) \subseteq ToSet(a) /\ e \in ToSet(a)
    BY <1>1, <1>2 DEF ToSet
  <2>3. QED
    BY <2>1, <2>2
<1>6. QED
  BY <1>1, <1>4, <1>5 DEF a

LEMMA Leave ==
    ASSUME NEW S, NEW q \in Seq(S), IsInjective(q), q # <<>>
    PROVE  /\ Tail(q) \in Seq(S) /\ IsInjective(Tail(q))
           /\ Head(q) \in ToSet(q) /\ Head(q) \in S
           /\ ToSet(Tail(q)) = ToSet(q) \ {Head(q)}
<1> DEFINE r == Tail(q)
<1>1. /\ r \in Seq(S) /\ Len(r) = Len(q) - 1 /\ Len(q) \in Nat /\ Len(q) # 0
      /\ \A i \in 1 .. Len(r) : r[i] = q[i + 1]
      /\ Head(q) \in S /\ Head(q) = q[1]
  BY HeadTailProperties, LenProperties, EmptySeq
<1>2. DOMAIN q = 1 .. Len(q) /\ DOMAIN r = 1 .. Len(q) - 1
  BY <1>1, LenProperties
<1> HIDE DEF r
<1>3. \A i \in DOMAIN r : i + 1 \in DOMAIN q /\ r[i] = q[i + 1] /\ i + 1 # 1
  BY <1>1, <1>2
<1>4. IsInjective(r)
  <2> SUFFICES ASSUME NEW i \in DOMAIN r, NEW j \in DOMAIN r, r[i] = r[j] PROVE i = j
    BY DEF IsInjective
  <2>1. i + 1 = j + 1
    BY <1>3 DEF IsInjective
  <2>2. QED
    BY <1>1, <1>2, <2>1
<1>5. 1 \in DOMAIN q
  BY <1>1, <1>2
<1>6. ToSet(r) = ToSet(q) \ {q[1]}
  <2>1. ToSet(r) \subseteq ToSet(q) \ {q[1]}
    BY <1>3, <1>5 DEF ToSet, IsInjective
  <2>2. \A i \in DOMAIN q : i # 1 => i - 1 \in DOMAIN r /\ q[i] = r[i - 1]
    BY <1>1, <1>2
  <2>3. ToSet(q) \ {q[1]} \subseteq ToSet(r)
    BY <2>2 DEF ToSet
  <2>4. QED
    BY <2>1, <2>3
<1>7. QED
  BY <1>1, <1>4, <1>5, <1>6 DEF r, ToSet

LEMMA EmptyQueue ==
    ASSUME NEW S
    PROVE  <<>> \in Seq(S) /\ IsInjective(<<>>) /\ ToSet(<<>>) = {}
  BY EmptySeq DEF IsInjective, ToSet

-----------------------------------------------------------------------------
(* Type correctness.                                                       *)

(* The flags and the counts. *)
Types ==
    /\ listening \in BOOLEAN /\ server_fd \in {Zero, "closed", "unbound", "listener"}
    /\ new_socket \in Senders \cup {Zero, Failed}
    /\ zero \in {"file", "free", "socket"}
    /\ conn \in [Senders -> {"open", "closed"}]
    /\ greeted \in [Senders -> BOOLEAN] /\ answered \in [Senders -> BOOLEAN]
    /\ spc \in [Senders -> {"connect", "send", "read"}]
    /\ rpc \in {"bind", "listen", "accept", "read", "answer", "close", "failed"}
    /\ done \in [Senders -> 0 .. Rounds] /\ met \in [Senders -> Nat] /\ served \in 0 .. Rounds
    /\ setupFaults \in 0 .. SetupFaults /\ acceptFaults \in 0 .. AcceptFaults

(* A call is under way only in a round that is not over, and a receiver    *)
(* that reads or answers has accepted somebody.                            *)
UnderWay ==
    /\ \A s \in Senders : spc[s] # "connect" => done[s] < Rounds
    /\ rpc # "bind" => served < Rounds
    /\ rpc \in {"read", "answer", "close"} => new_socket \in Senders

(* A sender's connection that has neither been answered nor reset: it does *)
(* not call connect() again.                                               *)
Waiting(s) == spc[s] # "connect" /\ conn[s] = "open" /\ ~answered[s]

(* The queue holds each sender once, while it waits; so does the one that  *)
(* was accepted, which has left the queue.                                 *)
QueueInv ==
    /\ backlog \in Seq(Senders) /\ IsInjective(backlog)
    /\ \A s \in ToSet(backlog) : Waiting(s)
    /\ rpc \in {"read", "answer"} => Waiting(new_socket) /\ new_socket \notin ToSet(backlog)

TypeInv == Types /\ UnderWay /\ QueueInv

LEMMA InitTyped == Init => TypeInv
<1> SUFFICES ASSUME Init PROVE TypeInv
  OBVIOUS
<1>1. Types
  <2>1. 0 \in 0 .. Rounds /\ 0 \in 0 .. SetupFaults /\ 0 \in 0 .. AcceptFaults
    BY HandshakeAssumption
  <2>2. /\ conn \in [Senders -> {"open", "closed"}]
        /\ greeted \in [Senders -> BOOLEAN] /\ answered \in [Senders -> BOOLEAN]
        /\ spc \in [Senders -> {"connect", "send", "read"}]
    BY DEF Init
  <2>3. done \in [Senders -> 0 .. Rounds] /\ met \in [Senders -> Nat]
    BY <2>1 DEF Init
  <2>4. QED
    BY <2>1, <2>2, <2>3 DEF Init, Types
<1>2. UnderWay
  BY DEF Init, UnderWay
<1>3. QueueInv
  BY EmptyQueue DEF Init, QueueInv
<1>4. QED
  BY <1>1, <1>2, <1>3 DEF TypeInv

LEMMA TypesStep ==
    ASSUME TypeInv, [Next]_vars
    PROVE  Types'
<1> USE HandshakeAssumption DEF Types, socketVars, senderVars, countVars, Zero, Failed
<1>1. Types /\ UnderWay
  BY DEF TypeInv
<1>2. CASE SocketIsZero \/ Bind \/ Listen \/ SetupFails \/ AcceptFails \/ OpenFile
  <2>1. /\ rpc' \in {rpc, "listen", "failed", "accept"} /\ new_socket' \in {new_socket, Failed}
        /\ server_fd' \in {server_fd, Zero, "unbound", "listener"} /\ listening' \in {listening, TRUE}
        /\ zero' \in {zero, "file", "socket"}
    BY <1>2 DEF SocketIsZero, Bind, Listen, SetupFails, AcceptFails, OpenFile
  <2>2. UNCHANGED <<senderVars, met, served>>
    BY <1>2 DEF SocketIsZero, Bind, Listen, SetupFails, AcceptFails, OpenFile
  <2>3. setupFaults' \in 0 .. SetupFaults /\ acceptFaults' \in 0 .. AcceptFaults
    BY <1>1, <1>2 DEF SocketIsZero, Bind, Listen, SetupFails, AcceptFails, OpenFile
  <2>4. /\ listening' \in BOOLEAN /\ server_fd' \in {Zero, "closed", "unbound", "listener"}
        /\ new_socket' \in Senders \cup {Zero, Failed} /\ zero' \in {"file", "free", "socket"}
        /\ rpc' \in {"bind", "listen", "accept", "read", "answer", "close", "failed"}
    BY <1>1, <2>1
  <2>5. /\ conn' = conn /\ greeted' = greeted /\ answered' = answered /\ spc' = spc /\ done' = done
        /\ met' = met /\ served' = served
    BY <2>2
  <2>6. QED
    BY <1>1, <2>3, <2>4, <2>5
<1>9. CASE Answer
  <2>1. answered' \in [Senders -> BOOLEAN]
    BY <1>1, <1>9 DEF Answer
  <2>2. QED
    BY <1>1, <1>9, <2>1 DEF Answer
<1>3. CASE Accept
  <2>1. Head(backlog) \in Senders
    BY <1>3, Leave DEF Accept, TypeInv, QueueInv
  <2>2. QED
    BY <1>1, <1>3, <2>1 DEF Accept
<1>4. CASE ReadGreeting
  BY <1>1, <1>4 DEF ReadGreeting, UnderWay
<1>5. CASE CloseBoth \/ Retry
  <2>1. conn' \in [Senders -> {"open", "closed"}] /\ listening' \in BOOLEAN
    <3>1. CASE CloseListener
      BY <1>1, <3>1 DEF CloseListener
    <3>2. CASE UNCHANGED <<listening, conn>>
      BY <1>1, <3>2
    <3>3. QED
      BY <1>5, <3>1, <3>2 DEF CloseBoth, Retry
  <2>2. served' \in 0 .. Rounds
    BY <1>1, <1>5 DEF CloseBoth, Retry, UnderWay
  <2>3. QED
    BY <1>1, <1>5, <2>1, <2>2 DEF CloseBoth, Retry
<1>6. CASE \E s \in Senders : Sender(s)
  <2> PICK s \in Senders : Sender(s)
    BY <1>6
  <2>1. CASE Connect(s) \/ SendGreeting(s)
    BY <1>1, <2>1 DEF Connect, SendGreeting
  <2>2. CASE ReadAnswer(s)
    BY <1>1, <2>2 DEF ReadAnswer, UnderWay
  <2>3. QED
    BY <2>1, <2>2 DEF Sender
<1>7. CASE UNCHANGED vars
  BY <1>1, <1>7 DEF vars
<1>8. QED
  BY <1>2, <1>3, <1>4, <1>5, <1>6, <1>7, <1>9 DEF Next, Receiver

LEMMA UnderWayStep ==
    ASSUME TypeInv, [Next]_vars
    PROVE  UnderWay'
<1> USE HandshakeAssumption DEF UnderWay, socketVars, senderVars, countVars
<1>1. Types /\ UnderWay
  BY DEF TypeInv
<1>2. CASE Bind \/ Listen \/ SetupFails \/ AcceptFails \/ Answer \/ ReadGreeting
  BY <1>1, <1>2 DEF Bind, Listen, SetupFails, AcceptFails, Answer, ReadGreeting, Types
<1>0. CASE SocketIsZero \/ OpenFile
  BY <1>1, <1>0 DEF SocketIsZero, OpenFile
<1>3. CASE Accept
  <2>1. Head(backlog) \in Senders
    BY <1>3, Leave DEF Accept, TypeInv, QueueInv
  <2>2. QED
    BY <1>1, <1>3, <2>1 DEF Accept
<1>4. CASE CloseBoth \/ Retry
  BY <1>1, <1>4 DEF CloseBoth, Retry
<1>5. CASE \E s \in Senders : Sender(s)
  <2> PICK s \in Senders : Sender(s)
    BY <1>5
  <2>1. \A t \in Senders : spc'[t] # "connect" => done'[t] < Rounds
    BY <1>1 DEF Sender, Connect, SendGreeting, ReadAnswer, Types
  <2>2. UNCHANGED <<rpc, served, new_socket>>
    BY DEF Sender, Connect, SendGreeting, ReadAnswer
  <2>3. QED
    BY <1>1, <2>1, <2>2
<1>6. CASE UNCHANGED vars
  BY <1>1, <1>6 DEF vars
<1>7. QED
  BY <1>0, <1>2, <1>3, <1>4, <1>5, <1>6 DEF Next, Receiver

LEMMA QueueStep ==
    ASSUME TypeInv, [Next]_vars
    PROVE  QueueInv'
<1> USE DEF QueueInv, Waiting, socketVars, senderVars, countVars
<1>1. Types /\ UnderWay /\ QueueInv
  BY DEF TypeInv
<1>2. CASE SocketIsZero \/ Bind \/ Listen \/ SetupFails \/ AcceptFails \/ OpenFile
  BY <1>1, <1>2 DEF SocketIsZero, Bind, Listen, SetupFails, AcceptFails, OpenFile
<1>3. CASE Accept
  <2>1. /\ backlog' \in Seq(Senders) /\ IsInjective(backlog')
        /\ new_socket' \in ToSet(backlog) /\ ToSet(backlog') = ToSet(backlog) \ {new_socket'}
    BY <1>1, <1>3, Leave DEF Accept
  <2>2. QED
    BY <1>1, <1>3, <2>1 DEF Accept
<1>4. CASE ReadGreeting
  BY <1>1, <1>4 DEF ReadGreeting
<1>5. CASE Answer
  <2>0. ToSet(backlog) \subseteq Senders
    BY <1>1, ElementOfSeq, LenProperties DEF ToSet
  <2>1. \A s \in ToSet(backlog) : s # new_socket /\ answered'[s] = answered[s]
    BY <1>1, <1>5, <2>0 DEF Answer, Types
  <2>2. QED
    BY <1>1, <1>5, <2>1 DEF Answer
<1>6. CASE CloseBoth \/ Retry
  <2>1. CASE CloseListener
    BY <1>6, <2>1, EmptyQueue DEF CloseBoth, Retry, CloseListener
  <2>2. CASE UNCHANGED <<backlog, conn>>
    BY <1>1, <1>6, <2>2 DEF CloseBoth, Retry
  <2>3. QED
    BY <1>6, <2>1, <2>2 DEF CloseBoth, Retry
<1>7. CASE \E s \in Senders : Sender(s)
  <2> PICK s \in Senders : Sender(s)
    BY <1>7
  <2>1. CASE Connect(s)
    <3>1. s \notin ToSet(backlog) /\ (rpc \in {"read", "answer"} => s # new_socket)
      BY <1>1, <2>1 DEF Connect
    <3>2. /\ backlog' \in Seq(Senders) /\ IsInjective(backlog')
          /\ ToSet(backlog') = ToSet(backlog) \cup {s}
      BY <1>1, <2>1, <3>1, Join DEF Connect
    <3>3. Waiting(s)'
      BY <1>1, <2>1 DEF Connect, Types
    <3>4. \A t \in Senders \ {s} : Waiting(t)' <=> Waiting(t)
      BY <1>1, <2>1 DEF Connect, Types
    <3>5. ToSet(backlog) \subseteq Senders
      BY <1>1, ElementOfSeq, LenProperties DEF ToSet
    <3>6. \A t \in ToSet(backlog') : Waiting(t)'
      BY <1>1, <3>1, <3>2, <3>3, <3>4, <3>5
    <3>7. rpc' \in {"read", "answer"} => Waiting(new_socket)' /\ new_socket' \notin ToSet(backlog')
      BY <1>1, <2>1, <3>1, <3>2, <3>4 DEF Connect, UnderWay
    <3>8. QED
      BY <3>2, <3>6, <3>7
  <2>2. CASE SendGreeting(s)
    BY <1>1, <2>2 DEF SendGreeting, Types
  <2>3. CASE ReadAnswer(s)
    <3>1. s \notin ToSet(backlog) /\ (rpc \in {"read", "answer"} => s # new_socket)
      BY <1>1, <2>3 DEF ReadAnswer
    <3>2. QED
      BY <1>1, <2>3, <3>1 DEF ReadAnswer, Types
  <2>4. QED
    BY <2>1, <2>2, <2>3 DEF Sender
<1>8. CASE UNCHANGED vars
  BY <1>1, <1>8 DEF vars
<1>9. QED
  BY <1>2, <1>3, <1>4, <1>5, <1>6, <1>7, <1>8 DEF Next, Receiver

LEMMA TypeInvStep ==
    ASSUME TypeInv, [Next]_vars
    PROVE  TypeInv'
  BY TypesStep, UnderWayStep, QueueStep DEF TypeInv

(* Type correctness, with what it says of the queue and of the accepted    *)
(* connection: no sender waits twice, however often connect() and close()  *)
(* of the two sides overlap, and a receiver that reads, answers or closes  *)
(* does so on a sender's connection, never on the 0 its globals start with *)
(* or the -1 of a failing accept().                                        *)
THEOREM TypeCorrect == Spec => []TypeOK
<1>1. TypeInv => TypeOK
  BY DEF TypeInv, Types, UnderWay, QueueInv, TypeOK
<1>2. QED
  BY <1>1, InitTyped, TypeInvStep, PTL DEF Spec

-----------------------------------------------------------------------------
(* One paced sender and its receiver.                                      *)

(* The receiver's own state while accept() has not failed: it has a        *)
(* listener from listen() to the close, and no failure leaves one behind.  *)
ReceiverInv(s) ==
    /\ listening <=> rpc \in {"accept", "read", "answer", "close"}
    /\ rpc = "failed" => server_fd # "listener"
    /\ rpc \in {"read", "answer", "close"} => new_socket = s
    /\ met[s] = IF rpc \in {"answer", "close"} THEN served + 1 ELSE served

(* Where the sender is, seen from the receiver: in none of its calls,      *)
Away(s) ==
    /\ spc[s] = "connect" /\ backlog = <<>> /\ rpc \notin {"read", "answer"}
    /\ done[s] = met[s]

(* queued,                                                                 *)
Queued(s) ==
    /\ rpc = "accept" /\ backlog = <<s>>
    /\ spc[s] # "connect" /\ conn[s] = "open" /\ ~answered[s]
    /\ greeted[s] <=> spc[s] = "read"
    /\ done[s] = served

(* accepted,                                                               *)
Accepted(s) ==
    /\ rpc \in {"read", "answer"} /\ backlog = <<>>
    /\ spc[s] # "connect" /\ conn[s] = "open" /\ ~answered[s]
    /\ greeted[s] <=> spc[s] = "read"
    /\ rpc = "answer" => greeted[s]
    /\ done[s] = served

(* or answered and about to read the answer, perhaps long after the        *)
(* receiver's call has returned.                                           *)
Answered(s) ==
    /\ rpc \notin {"read", "answer"} /\ backlog = <<>>
    /\ spc[s] = "read" /\ conn[s] = "open" /\ answered[s]
    /\ done[s] + 1 = met[s]

InStep(s) == ReceiverInv(s) /\ (Away(s) \/ Queued(s) \/ Accepted(s) \/ Answered(s))

(* A step of the receiver keeps the two in step. *)
LEMMA ReceiverKeepsStep ==
    ASSUME NEW s, Senders = {s}, TypeInv, InStep(s), Receiver \/ SetupFails \/ OpenFile
    PROVE  InStep(s)'
<1> USE DEF InStep, ReceiverInv, Away, Queued, Accepted, Answered, socketVars, senderVars, countVars
<1>1. Types /\ s \in Senders
  BY DEF TypeInv
<1>2. CASE SocketIsZero \/ Bind \/ Listen \/ SetupFails \/ OpenFile
  BY <1>2 DEF SocketIsZero, Bind, Listen, SetupFails, OpenFile, Zero
<1>3. CASE Accept
  <2>1. Head(<<s>>) = s /\ Tail(<<s>>) = <<>>
    OBVIOUS
  <2>2. QED
    BY <1>3, <2>1 DEF Accept
<1>4. CASE ReadGreeting
  BY <1>1, <1>4 DEF ReadGreeting, Types
<1>5. CASE Answer
  BY <1>1, <1>5 DEF Answer, Types
<1>6. CASE CloseBoth
  <2>1. conn'[s] = conn[s] /\ backlog' = <<>> /\ ~listening'
    BY <1>1, <1>6, EmptyQueue DEF CloseBoth, CloseListener
  <2>2. QED
    BY <1>1, <1>6, <2>1 DEF CloseBoth, Types
<1>7. CASE Retry
  BY <1>7 DEF Retry
<1>8. QED
  BY <1>2, <1>3, <1>4, <1>5, <1>6, <1>7 DEF Receiver

(* So does a step of the sender, because it is paced. *)
LEMMA SenderKeepsStep ==
    ASSUME NEW s, Senders = {s}, Paced, TypeInv, InStep(s), Sender(s)
    PROVE  InStep(s)'
<1> USE DEF InStep, ReceiverInv, Away, Queued, Accepted, Answered, socketVars, senderVars, countVars
<1>1. Types /\ s \in Senders
  BY DEF TypeInv
<1>2. CASE Connect(s)
  <2>1. rpc = "accept" /\ Away(s) /\ done[s] = served
    BY <1>1, <1>2 DEF Connect, Types
  <2>2. Append(<<>>, s) = <<s>>
    OBVIOUS
  <2>3. Queued(s)'
    BY <1>1, <1>2, <2>1, <2>2 DEF Connect, Types
  <2>4. QED
    BY <1>2, <2>3 DEF Connect
<1>3. CASE SendGreeting(s)
  BY <1>1, <1>3 DEF SendGreeting, Types
<1>4. CASE ReadAnswer(s)
  <2>1. Answered(s)
    BY <1>4 DEF ReadAnswer
  <2>2. Away(s)'
    BY <1>1, <1>4, <2>1 DEF ReadAnswer, Types
  <2>3. QED
    BY <1>4, <2>2 DEF ReadAnswer
<1>5. QED
  BY <1>2, <1>3, <1>4 DEF Sender

(* A paced sender's call does not return true before its receiver has read *)
(* its greeting, for any number of rounds and of failures of the calls     *)
(* before accept(), closing descriptor 0 included.  A failure of accept()  *)
(* is excepted: after one the connection it left in the queue is reset and *)
(* the sender's call returns true all the same.                            *)
THEOREM SenderStaysBehind ==
    ASSUME NEW s, Senders = {s}, Paced
    PROVE  Spec => []SenderMetReceiver
<1> DEFINE Inv == TypeInv /\ (acceptFaults = 0 => InStep(s))
<1>1. Init => Inv
  <2>1. Init => InStep(s)
    BY DEF Init, InStep, ReceiverInv, Away
  <2>2. QED
    BY <2>1, InitTyped
<1>2. Inv /\ [Next]_vars => Inv'
  <2> SUFFICES ASSUME TypeInv, acceptFaults = 0 => InStep(s), [Next]_vars, acceptFaults' = 0
               PROVE  InStep(s)'
    BY TypeInvStep
  <2>1. ~AcceptFails
    BY DEF AcceptFails, TypeInv, Types
  <2>2. acceptFaults = 0
    BY <2>1 DEF Next, Receiver, SocketIsZero, Bind, Listen, OpenFile, Accept, ReadGreeting, Answer, CloseBoth, Retry,
                SetupFails, Sender, Connect, SendGreeting, ReadAnswer, vars, countVars
  <2>3. CASE UNCHANGED vars
    BY <2>2, <2>3 DEF vars, socketVars, senderVars, countVars, InStep, ReceiverInv, Away, Queued, Accepted, Answered
  <2>4. QED
    BY <2>1, <2>2, <2>3, ReceiverKeepsStep, SenderKeepsStep DEF Next
<1>3. Inv => SenderMetReceiver
  BY DEF InStep, ReceiverInv, Away, Queued, Accepted, Answered, SenderMetReceiver, TypeInv, Types
<1>4. QED
  BY <1>1, <1>2, <1>3, PTL DEF Spec
=============================================================================
