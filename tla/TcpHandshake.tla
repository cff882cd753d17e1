---------------------------- MODULE TcpHandshake ----------------------------
(***************************************************************************)
(* The TCP handshake of src/library/mediaLibrary.cpp: before any media is  *)
(* sent, initializeTcpSender() connects to the peer, sends a greeting and  *)
(* waits for one; initializeTcpReceiver() listens, accepts one connection, *)
(* reads and answers.  The application calls each again until it returns   *)
(* true, and may start over for another round.  The receiver's sockets are *)
(* globals that start as 0, which is a descriptor of the process: as long  *)
(* as no connection has been accepted, closeTcpSocket() closes it.         *)
(***************************************************************************)
EXTENDS Naturals, Sequences, SequencesExt

CONSTANTS
    Senders,         \* the peers that call initializeTcpSender
    Rounds,          \* bound: successful calls on each side
    Paced,           \* a sender starts over when its peer's last round is over
    SetupFaults,     \* bound: failures before the socket listens
    AcceptFaults     \* bound: failures of accept()

ASSUME HandshakeAssumption ==
    /\ Paced \in BOOLEAN
    /\ Rounds \in Nat /\ SetupFaults \in Nat /\ AcceptFaults \in Nat

VARIABLES
    listening,       \* a socket of the receiver listens on the port
    server_fd,       \* what the global descriptor names, or was closed last
    backlog,         \* the connections that wait to be accepted
    new_socket,      \* the sender whose connection was accepted last, or a number
    zero,            \* what descriptor 0 names: a file of the application, a socket, none
    conn,            \* the state of each sender's connection
    greeted,         \* the sender's greeting has been sent on it
    answered,        \* the receiver's greeting has been sent on it
    spc,             \* where each sender is
    rpc,             \* where the receiver is
    done,            \* how often each sender's call has returned true
    met,             \* how often the receiver has read each sender's greeting
    served,          \* how often the receiver's call has returned true
    setupFaults, acceptFaults

senderVars == <<conn, greeted, answered, spc, done>>
countVars == <<met, served, setupFaults, acceptFaults>>
socketVars == <<listening, server_fd, backlog, new_socket, zero>>
vars == <<socketVars, senderVars, rpc, countVars>>

Zero == "0"
Failed == "-1"

Init ==
    /\ listening = FALSE /\ backlog = <<>>
    /\ server_fd = Zero /\ new_socket = Zero /\ zero = "file"
    /\ conn = [s \in Senders |-> "closed"]
    /\ greeted = [s \in Senders |-> FALSE] /\ answered = [s \in Senders |-> FALSE]
    /\ spc = [s \in Senders |-> "connect"]
    /\ rpc = "bind"
    /\ done = [s \in Senders |-> 0] /\ met = [s \in Senders |-> 0]
    /\ served = 0 /\ setupFaults = 0 /\ acceptFaults = 0

-----------------------------------------------------------------------------
(* initializeTcpSender().                                                  *)

(* connect() succeeds as soon as the connection is queued; without a       *)
(* listener the function closes its socket, returns false, and is called   *)
(* again.  A paced application starts a round after the receiver has ended *)
(* the last one, which takes as long as the media session in between.      *)
Connect(s) ==
    /\ spc[s] = "connect" /\ done[s] < Rounds
    /\ Paced => done[s] <= served
    /\ listening
    /\ conn' = [conn EXCEPT ![s] = "open"]
    /\ greeted' = [greeted EXCEPT ![s] = FALSE]
    /\ answered' = [answered EXCEPT ![s] = FALSE]
    /\ backlog' = Append(backlog, s)
    /\ spc' = [spc EXCEPT ![s] = "send"]
    /\ UNCHANGED <<listening, server_fd, new_socket, zero, rpc, done, countVars>>

(* Mutant: waits for the receiver's greeting before it sends its own. *)
SendGreetingMutant(s) ==
    /\ spc[s] = "send"
    /\ answered[s] \/ conn[s] = "closed"
    /\ greeted' = [greeted EXCEPT ![s] = conn[s] = "open"]
    /\ spc' = [spc EXCEPT ![s] = "read"]
    /\ UNCHANGED <<socketVars, conn, answered, rpc, done, countVars>>

SendGreeting(s) ==
    /\ spc[s] = "send"
    /\ greeted' = [greeted EXCEPT ![s] = conn[s] = "open"]
    /\ spc' = [spc EXCEPT ![s] = "read"]
    /\ UNCHANGED <<socketVars, conn, answered, rpc, done, countVars>>

(* Mutant: returns without waiting for the answer. *)
ReadAnswerMutant(s) ==
    /\ spc[s] = "read"
    /\ conn' = [conn EXCEPT ![s] = "closed"]
    /\ spc' = [spc EXCEPT ![s] = "connect"]
    /\ done' = [done EXCEPT ![s] = @ + 1]
    /\ UNCHANGED <<socketVars, greeted, answered, rpc, countVars>>

(* read() returns when the answer is there or the connection is gone; its  *)
(* result is not looked at, and the function returns true.                 *)
ReadAnswer(s) ==
    /\ spc[s] = "read"
    /\ answered[s] \/ conn[s] = "closed"
    /\ conn' = [conn EXCEPT ![s] = "closed"]
    /\ spc' = [spc EXCEPT ![s] = "connect"]
    /\ done' = [done EXCEPT ![s] = @ + 1]
    /\ UNCHANGED <<socketVars, greeted, answered, rpc, countVars>>

-----------------------------------------------------------------------------
(* initializeTcpReceiver() and closeTcpSocket().                           *)

(* socket() returns the lowest free descriptor, and the function takes 0   *)
(* for a failure.                                                          *)
SocketIsZero ==
    /\ rpc = "bind" /\ served < Rounds
    /\ zero = "free"
    /\ zero' = "socket" /\ server_fd' = Zero
    /\ rpc' = "failed"
    /\ UNCHANGED <<listening, backlog, new_socket, senderVars, countVars>>

(* socket(), setsockopt() and bind(): bind() fails while an earlier call's *)
(* socket still listens, and server_fd then names the new, useless socket. *)
Bind ==
    /\ rpc = "bind" /\ served < Rounds
    /\ zero # "free"
    /\ server_fd' = "unbound"
    /\ rpc' = IF listening THEN "failed" ELSE "listen"
    /\ UNCHANGED <<listening, backlog, new_socket, zero, senderVars, countVars>>

(* A call that fails before the socket listens returns false. *)
SetupFails ==
    /\ rpc \in {"bind", "listen"} /\ served < Rounds
    /\ setupFaults < SetupFaults
    /\ setupFaults' = setupFaults + 1
    /\ server_fd' = "unbound"
    /\ rpc' = "failed"
    /\ UNCHANGED <<listening, backlog, new_socket, zero, senderVars, met, served, acceptFaults>>

Listen ==
    /\ rpc = "listen"
    /\ listening' = TRUE
    /\ server_fd' = "listener"
    /\ rpc' = "accept"
    /\ UNCHANGED <<backlog, new_socket, zero, senderVars, countVars>>

(* Mutant: the listener does not block, and the -1 is not looked at. *)
AcceptMutant ==
    /\ rpc = "accept"
    /\ new_socket' = IF backlog = <<>> THEN Failed ELSE Head(backlog)
    /\ backlog' = IF backlog = <<>> THEN backlog ELSE Tail(backlog)
    /\ rpc' = "read"
    /\ UNCHANGED <<listening, server_fd, zero, senderVars, countVars>>

Accept ==
    /\ rpc = "accept" /\ backlog # <<>>
    /\ new_socket' = Head(backlog)
    /\ backlog' = Tail(backlog)
    /\ rpc' = "read"
    /\ UNCHANGED <<listening, server_fd, zero, senderVars, countVars>>

(* accept() fails: the function returns false and its socket still listens.*)
AcceptFails ==
    /\ rpc = "accept"
    /\ acceptFaults < AcceptFaults
    /\ acceptFaults' = acceptFaults + 1
    /\ new_socket' = Failed
    /\ rpc' = "failed"
    /\ UNCHANGED <<listening, server_fd, backlog, zero, senderVars, met, served, setupFaults>>

ReadGreeting ==
    /\ rpc = "read"
    /\ greeted[new_socket]
    /\ met' = [met EXCEPT ![new_socket] = @ + 1]
    /\ rpc' = "answer"
    /\ UNCHANGED <<socketVars, senderVars, served, setupFaults, acceptFaults>>

Answer ==
    /\ rpc = "answer"
    /\ answered' = [answered EXCEPT ![new_socket] = TRUE]
    /\ rpc' = "close"
    /\ UNCHANGED <<socketVars, conn, greeted, spc, done, countVars>>

(* A closed listener resets the connections that were never accepted. *)
CloseListener ==
    /\ listening' = FALSE
    /\ backlog' = <<>>
    /\ conn' = [s \in Senders |-> IF s \in ToSet(backlog) THEN "closed" ELSE conn[s]]

(* Mutant: the function leaves its listener open when it succeeds. *)
CloseBothMutant ==
    /\ rpc = "close"
    /\ rpc' = "bind"
    /\ served' = served + 1
    /\ UNCHANGED <<socketVars, senderVars, met, setupFaults, acceptFaults>>

(* close(new_socket) and close(server_fd); the function returns true.  The *)
(* globals keep the numbers.                                               *)
CloseBoth ==
    /\ rpc = "close"
    /\ CloseListener
    /\ server_fd' = "closed"
    /\ rpc' = "bind"
    /\ served' = served + 1
    /\ UNCHANGED <<new_socket, zero, greeted, answered, spc, done, met, setupFaults, acceptFaults>>

(* Mutant: closeTcpSocket() closes the accepted connection only. *)
RetryMutant ==
    /\ rpc = "failed"
    /\ zero' = IF new_socket = Zero THEN "free" ELSE zero
    /\ rpc' = "bind"
    /\ UNCHANGED <<listening, server_fd, backlog, new_socket, senderVars, countVars>>

(* After a failure the application calls closeTcpSocket(), which closes    *)
(* what new_socket and server_fd name, 0 among them, and then the function *)
(* again.  A connection that new_socket names is closed by then.           *)
Retry ==
    /\ rpc = "failed"
    /\ \/ server_fd = "listener" /\ CloseListener
       \/ server_fd # "listener" /\ UNCHANGED <<listening, backlog, conn>>
    /\ server_fd' = IF server_fd = Zero THEN Zero ELSE "closed"
    /\ zero' = IF Zero \in {new_socket, server_fd} THEN "free" ELSE zero
    /\ rpc' = "bind"
    /\ UNCHANGED <<new_socket, greeted, answered, spc, done, countVars>>

(* The application opens a file, which gets descriptor 0 if that is free. *)
OpenFile ==
    /\ zero = "free"
    /\ zero' = "file"
    /\ UNCHANGED <<listening, server_fd, backlog, new_socket, senderVars, rpc, countVars>>

-----------------------------------------------------------------------------

Sender(s) == Connect(s) \/ SendGreeting(s) \/ ReadAnswer(s)
Receiver == SocketIsZero \/ Bind \/ Listen \/ Accept \/ ReadGreeting \/ Answer \/ CloseBoth \/ Retry

Next == Receiver \/ SetupFails \/ AcceptFails \/ OpenFile \/ \E s \in Senders : Sender(s)

Spec == Init /\ [][Next]_vars

(* Both applications go on with the handshake and their calls return when  *)
(* they can; a sender whose connect() could succeed tries at that time.    *)
Fairness ==
    /\ WF_vars(Receiver)
    /\ \A s \in Senders : WF_vars(Sender(s))

FairSpec == Spec /\ Fairness

-----------------------------------------------------------------------------
(* Type correctness.  No sender waits in the queue twice, and a receiver   *)
(* that reads, answers or closes has a connection.                         *)
TypeOK ==
    /\ listening \in BOOLEAN
    /\ server_fd \in {Zero, "closed", "unbound", "listener"}
    /\ backlog \in Seq(Senders) /\ IsInjective(backlog)
    /\ new_socket \in Senders \cup {Zero, Failed}
    /\ rpc \in {"read", "answer", "close"} => new_socket \in Senders
    /\ zero \in {"file", "free", "socket"}
    /\ conn \in [Senders -> {"open", "closed"}]
    /\ greeted \in [Senders -> BOOLEAN] /\ answered \in [Senders -> BOOLEAN]
    /\ spc \in [Senders -> {"connect", "send", "read"}]
    /\ rpc \in {"bind", "listen", "accept", "read", "answer", "close", "failed"}
    /\ done \in [Senders -> 0 .. Rounds] /\ met \in [Senders -> Nat] /\ served \in 0 .. Rounds
    /\ setupFaults \in 0 .. SetupFaults /\ acceptFaults \in 0 .. AcceptFaults

(* A sender's call does not return true before the receiver has read its   *)
(* greeting in the same round, as long as accept() does not fail: a call   *)
(* that runs ahead of the receiver, and one that finds the socket of a     *)
(* round that is over, both wait.  After a failing accept() it is false:   *)
(* the connection that was queued is reset, and read() returns.            *)
SenderMetReceiver == acceptFaults = 0 => \A s \in Senders : done[s] <= met[s]

(* A call of initializeTcpSender() that has connected returns, whatever    *)
(* fails on the receiver's side: the two never wait for each other's       *)
(* greeting, and a connection that is not accepted is reset.               *)
ConnectedSenderReturns == \A s \in Senders : spc[s] = "send" ~> spc[s] = "connect"

(* Every round of the handshake completes on both sides, whichever is      *)
(* first in a round and whatever fails before the socket listens, as long  *)
(* as accept() does not fail and closeTcpSocket() has not closed           *)
(* descriptor 0: it does when a call fails before any has accepted.        *)
HandshakeCompletes ==
    [](acceptFaults = 0 /\ zero = "file") => <>(served = Rounds /\ \A s \in Senders : done[s] = Rounds)

(* A receiver whose call failed comes to wait for a connection again, also *)
(* when accept() failed and the socket was left listening, if descriptor 0 *)
(* is in use and some earlier call has come as far as accept().  After a   *)
(* failure in the first call it is false: closeTcpSocket() closes 0, and   *)
(* from then on socket() returns 0, which the function takes for a failure.*)
FailedReceiverWaitsAgain ==
    rpc = "failed" /\ zero = "file" /\ new_socket # Zero ~> rpc = "accept"
=============================================================================
