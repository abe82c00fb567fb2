------------------------------- MODULE BGPFsm -------------------------------
(***************************************************************************)
(* What a neighbour promises an observer of its state (ubgpc prints it):   *)
(* a connection begins when no other one has the neighbour, its state      *)
(* advances by the transitions the handlers log, and only while it has a   *)
(* connection; it returns to Idle from anywhere.  neighbor/types.rs        *)
(* declares the states, neighbor/fsm.rs and neighbor/message_handler.rs    *)
(* the transitions.                                                        *)
(***************************************************************************)
VARIABLES state,
          owned     \* a connection has the neighbour

vars == <<state, owned>>

BGPState == {"Idle", "Connect", "Active", "OpenSent", "OpenConfirm", "Established"}

Edges ==
    {<<"Connect", "OpenSent">>, <<"Active", "OpenSent">>,
     <<"OpenSent", "OpenConfirm">>, <<"OpenConfirm", "Established">>}

Init == state = "Idle" /\ owned = FALSE

\* From any state: a task that fails may leave its own behind.
Begin == ~owned /\ owned' /\ state' \in {"Connect", "Active"}

Advance == owned /\ owned' \in BOOLEAN /\ <<state, state'>> \in Edges

Fall == state' = "Idle" /\ (owned' => owned)

Leave == owned /\ ~owned' /\ UNCHANGED state

Next == Begin \/ Advance \/ Fall \/ Leave

Spec == Init /\ [][Next]_vars
=============================================================================
