------------------------------ MODULE SendPath ------------------------------
(* What the writer promises to the rest of a peer: every lane is a queue   *)
(* whose frames leave whole and in order, a discarded lane keeps the open  *)
(* the remote still has to see, opens leave in the order of their ids, and *)
(* a lane the codec fails reports a `reset` only to a remote that knows    *)
(* the stream.  The fairness between lanes and the write loop's waiting    *)
(* are not part of this promise; Writer states them.                       *)
EXTENDS Lane

CONSTANTS
    Lanes,  \* lane names: stream ids, and 0 for the connection
    Local   \* ids of the streams this peer opens

VARIABLES
    lanes,  \* the queue of each lane
    wire    \* history: the fragments handed to the socket, per lane

svars == <<lanes, wire>>

Init ==
    /\ lanes = [l \in Lanes |-> << >>]
    /\ wire = [l \in Lanes |-> << >>]

(* `after` is `before` and one more frame of which nothing has been sent.  *)
Gains(before, after) ==
    /\ Len(after) = Len(before) + 1
    /\ SubSeq(after, 1, Len(before)) = before
    /\ after[Len(after)].next = 1

(* Nothing but an open begins a lane of this peer's own streams.           *)
Enqueue(l) ==
    /\ Gains(lanes[l], lanes'[l])
    /\ l \in Local /\ wire[l] = << >> => HoldsUnsentOpen(lanes'[l])

Discard(l) == lanes'[l] = Keep(lanes[l])

Replace(l) ==
    /\ Gains(Keep(lanes[l]), lanes'[l])
    /\ lanes'[l][Len(lanes'[l])].frame.type = "reset"
    /\ l \in Local /\ wire[l] = << >> => HoldsUnsentOpen(lanes[l])

(* The codec refuses the lane's next slice.                                *)
Abandon(l) ==
    IF l \in Local /\ wire[l] = << >> THEN lanes'[l] = << >>
    ELSE Gains(<< >>, lanes'[l]) /\ lanes'[l][1].frame.type = "reset"

OnLane(l) ==
    /\ Enqueue(l) \/ Discard(l) \/ Replace(l) \/ Abandon(l)
    /\ lanes' = [lanes EXCEPT ![l] = lanes'[l]]
    /\ UNCHANGED wire

MaySend(l) ==
    /\ lanes[l] # << >>
    /\ HoldsUnsentOpen(lanes[l]) => \A m \in Local : m < l => ~HoldsUnsentOpen(lanes[m])

Emit(l) ==
    /\ MaySend(l)
    /\ wire' = [wire EXCEPT ![l] = Append(@, First(lanes[l]))]
    /\ lanes' = [lanes EXCEPT ![l] = Rest(@)]

(* The peer dies.                                                          *)
Clear == lanes' = [l \in Lanes |-> << >>] /\ UNCHANGED wire

Next == Clear \/ \E l \in Lanes : OnLane(l) \/ Emit(l)

Spec == Init /\ [][Next]_svars
=============================================================================
