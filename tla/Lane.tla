-------------------------------- MODULE Lane --------------------------------
(* One lane of a peer's send path as its users see it: a queue of frames,  *)
(* each with the number of the fragment of it that is sent next.  This is  *)
(* ts/writer.ts with `prepared`, the fragment iterator and the rotation    *)
(* abstracted away.                                                        *)
EXTENDS Naturals, Sequences

Item(frame) == [frame |-> frame, next |-> 1]

Put(lane, frame) == Append(lane, Item(frame))

(* An `open` of which nothing has been sent.                               *)
HoldsUnsentOpen(lane) ==
    lane # << >> /\ Head(lane).next = 1 /\ Head(lane).frame.type = "open"

(* Writer.discard: only an unsent open stays.                              *)
Keep(lane) == IF HoldsUnsentOpen(lane) THEN <<Head(lane)>> ELSE << >>

(* The fragment that leaves next, and the lane without it.                 *)
First(lane) == [frame |-> Head(lane).frame, idx |-> Head(lane).next]
Rest(lane) ==
    IF Head(lane).next = Head(lane).frame.frags THEN Tail(lane)
    ELSE [lane EXCEPT ![1].next = @ + 1]
=============================================================================
