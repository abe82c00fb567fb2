--------------------------- MODULE MessageStream ---------------------------
(***************************************************************************)
(* What the framing of a BGP connection promises to fsm_loop: the messages *)
(* of the peer one by one, in order, none lost or made up, until one is    *)
(* malformed or the connection is lost.  Nothing here knows of bytes.      *)
(***************************************************************************)
EXTENDS Naturals, Sequences

CONSTANTS Frames, Good    \* the messages a peer may send, the good ones of them

VARIABLES
    sent,       \* the messages of the peer
    delivered,  \* how many of them fsm_loop was given
    net,        \* "up", or how the connection ended
    status      \* "open" until read_message reports an error or panics

vars == <<sent, delivered, net, status>>

Init == sent = <<>> /\ delivered = 0 /\ net = "up" /\ status = "open"

Write ==
    /\ net = "up"
    /\ \E f \in Frames : sent' = Append(sent, f)
    /\ UNCHANGED <<delivered, net, status>>

Lose ==
    /\ net = "up" /\ net' \in {"fin", "reset"}
    /\ UNCHANGED <<sent, delivered, status>>

Deliver ==
    /\ status = "open" /\ delivered < Len(sent) /\ sent[delivered + 1] \in Good
    /\ delivered' = delivered + 1
    /\ UNCHANGED <<sent, net, status>>

\* An error has a reason: a malformed message is next, or the connection was
\* lost, and a close between two messages is no error.
Fail ==
    /\ status = "open" /\ status' = "failed"
    /\ \/ net = "reset"
       \/ delivered < Len(sent) /\ (net = "fin" \/ sent[delivered + 1] \notin Good)
    /\ UNCHANGED <<sent, delivered, net>>

Next == Write \/ Lose \/ Deliver \/ Fail

Spec == Init /\ [][Next]_vars
=============================================================================
