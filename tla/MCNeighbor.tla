----------------------------- MODULE MCNeighbor -----------------------------
(* Values for the constants of Neighbor.                                   *)
EXTENDS Neighbor

CONSTANTS v4, v6, m4, p1, p2

Open(rid, asn, mp) == [rid |-> rid, asn |-> asn, mp |-> mp]
Plain(withdrawn, nlri) == [mp |-> <<>>, withdrawn |-> withdrawn, nlri |-> nlri]
Mp(kind, af, nlris) ==
    [mp |-> <<[kind |-> kind, af |-> af, nlris |-> nlris]>>, withdrawn |-> {}, nlri |-> {}]

\* Peers with the configured AS number 100: one negotiates what the speaker has RIBs
\* for, one nothing, and one, with another router id, a family more.  RaceOpens has a
\* peer with another AS number.
SessionOpens ==
    {Open(1, 100, {v4, v6}), Open(3, 100, {v6, m4}), Open(1, 100, {})}
SessionUpdates ==
    {Plain({p1}, {p1, p2}), Mp("reach", v6, {p1}), Mp("unreach", v6, {p1})}

LiveOpens == {Open(1, 100, {v4})}
LiveUpdates == {Plain({}, {p1})}

RaceOpens == {Open(1, 100, {v4}), Open(2, 200, {v4})}
RaceUpdates == {Plain({p1}, {p1, p2})}

\* The sessions of a record one after the other: the behaviours of Spec with
\* []OneAtATime.  Its fairness is implied by that of FairSpec: one connection is at
\* work, and the listener and the connect task may be as late as they like.
OneByOne ==
    /\ Init /\ [][Next /\ OneAtATime']_vars
    /\ WF_vars(\E c \in Conns : FsmTask(c)) /\ SF_vars(\E c \in Conns : HoldTimer(c))
    /\ SF_vars(\E c \in Conns : HandleEvent(c)) /\ SF_vars(\E c \in Conns : ReadMessage(c))

\* The last move of the peer is for behaviours in which no two connections met.
Race == Init /\ [][Next /\ (OneAtATime' \/ sent' < MaxMoves)]_vars
=============================================================================
