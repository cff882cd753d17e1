----------------------------- MODULE FramePipe -----------------------------
(***************************************************************************)
(* What a reception flow promises its user: every deliverable packet that  *)
(* reaches the socket becomes one frame, in order of arrival, and each     *)
(* frame is given to one caller of pull_frame, in order.  Only stopping    *)
(* the flow discards frames, and only those nobody has pulled.             *)
(***************************************************************************)
EXTENDS Naturals, Sequences

CONSTANTS
    Deliverable,   \* the packets, numbered by arrival, that are worth a frame
    Pullers        \* the callers of pull_frame

VARIABLES
    arrived,       \* how many packets have reached the socket
    queue,         \* the packets that have arrived and not become frames
    frames,        \* the frames nobody has pulled
    got            \* the frames each caller has pulled

pipeVars == <<arrived, queue, frames, got>>

Init ==
    /\ arrived = 0
    /\ queue = {}
    /\ frames = <<>>
    /\ got = [u \in Pullers |-> <<>>]

Arrive ==
    /\ arrived' = arrived + 1
    /\ queue' = queue \cup ({arrived + 1} \cap Deliverable)
    /\ UNCHANGED <<frames, got>>

(* The oldest packet becomes a frame. *)
HandOver ==
    \E p \in queue :
        /\ \A q \in queue : p <= q
        /\ frames' = Append(frames, p)
        /\ queue' = queue \ {p}
        /\ UNCHANGED <<arrived, got>>

Pull(u) ==
    /\ frames # <<>>
    /\ got' = [got EXCEPT ![u] = Append(@, Head(frames))]
    /\ frames' = Tail(frames)
    /\ UNCHANGED <<arrived, queue>>

Discard ==
    /\ frames' = <<>>
    /\ UNCHANGED <<arrived, queue, got>>

Next == Arrive \/ HandOver \/ Discard \/ \E u \in Pullers : Pull(u)

Spec == Init /\ [][Next]_pipeVars
=============================================================================
