------------------------------ MODULE MCWriter ------------------------------
(* Instances of Writer for TLC; the values are in the .cfg files.  The     *)
(* mapping below shows a queue of the writer as a lane of SendPath.        *)
EXTENDS Writer

Pending(frame, next) == [frame |-> frame, next |-> next]

InProgress(q) ==
    IF q.prepared # None THEN <<Pending(q.prepared.frame, q.prepared.idx)>>
    ELSE IF q.fragments # None /\ ~Last(q.fragments)
    THEN <<Pending(q.fragments.frame, q.fragments.idx + 1)>>
    ELSE << >>

LaneOf(q) == InProgress(q) \o [i \in DOMAIN q.waiting |-> Pending(q.waiting[i], 1)]

Promise == INSTANCE SendPath WITH lanes <- [l \in Lanes |-> LaneOf(queues[l])]

(* The writer, its rotation and its one prepared fragment per lane         *)
(* implement the plain queues the rest of the peer relies on: no step of   *)
(* `enqueue`, `discard`, `nextFrame`, `advance` or of a failing lane       *)
(* loses, reorders, splits or invents a frame on the way to the socket.    *)
ImplementsSendPath == Promise!Spec
=============================================================================
