------------------------------ MODULE Writer ------------------------------
(***************************************************************************)
(* The send path of one peer: ts/writer.ts (`StreamQueue`, `Writer`)       *)
(* and the write loop of ts/peer.ts that drains it.                        *)
(*                                                                         *)
(* Every frame of a stream waits on the lane of that stream; frames of the *)
(* connection (`ping`, `pong`, `goaway`) wait on lane 0.  One loop, the    *)
(* write loop, turns a rotation over the lanes, slices one fragment of the *)
(* lane whose turn it is, and awaits the socket.  Everything else runs     *)
(* between two awaits of that loop: `open()`, `send()`, `reset()`, the     *)
(* read loop, socket death.  Each action below is the code between two     *)
(* awaits.                                                                 *)
(*                                                                         *)
(* Payload bytes are abstracted: a frame is the number of fragments its    *)
(* payload is cut into under the frame cap, and which slice, if any, the   *)
(* codec refuses to encode (`bad`).                                        *)
(***************************************************************************)
EXTENDS Naturals, Sequences, FiniteSets
LOCAL INSTANCE Functions

CONSTANTS
    IsDialer,   \* TRUE: this peer dialled, and its stream ids are odd
    MaxStreamId,\* MAX_STREAM_ID, the last id of the connection
    Remote,     \* ids of the streams the remote opens
    MaxFrags,   \* most fragments one payload is cut into
    MaxFrames,  \* bound on the frames enqueued in one behaviour
    Refusing,   \* TRUE: the codec may refuse to encode a frame
    None        \* no frame in a slot

FirstId == IF IsDialer THEN 1 ELSE 2
Local == {id \in 1 .. MaxStreamId : id % 2 = FirstId % 2}
Streams == Local \cup Remote
CONNECTION_LANE == 0
Lanes == Streams \cup {CONNECTION_LANE}

FrameType == {"open", "data", "reset", "control"}

(* `seq` numbers the frames of one lane in the order they are enqueued.    *)
Frame == [type : FrameType, frags : 1 .. MaxFrags, bad : 0 .. MaxFrags, seq : Nat]
Fragment == {f \in [frame : Frame, idx : 1 .. MaxFrags] : f.idx <= f.frame.frags}

ASSUME WriterAssumption ==
    /\ IsDialer \in BOOLEAN
    /\ MaxStreamId \in Nat \ {0}
    /\ \A id \in Remote : id \in 1 .. MaxStreamId /\ id % 2 # FirstId % 2
    /\ MaxFrags \in Nat \ {0}
    /\ MaxFrames \in Nat
    /\ Refusing \in BOOLEAN
    /\ None \notin Fragment /\ None \notin [lane : Lanes, fragment : Fragment]

Last(fragment) == fragment.idx = fragment.frame.frags

-----------------------------------------------------------------------------
(* StreamQueue: one lane's outbound work.  `fragments` is the iterator of  *)
(* the payload being cut, as the last fragment it yielded.                 *)

Queue == [waiting : Seq(Frame), prepared : Fragment \cup {None}, fragments : Fragment \cup {None}]

EmptyQueue == [waiting |-> << >>, prepared |-> None, fragments |-> None]

HasWork(q) == q.prepared # None \/ q.waiting # << >> \/ q.fragments # None

Put(q, frame) == [q EXCEPT !.waiting = Append(@, frame)]

(* The fragment `prepare` slices next, or None: the iterator's next one,   *)
(* or the first of the next waiting frame.                                 *)
NextSlice(q) ==
    IF q.fragments # None /\ ~Last(q.fragments)
    THEN [q.fragments EXCEPT !.idx = @ + 1]
    ELSE IF q.waiting # << >> THEN [frame |-> Head(q.waiting), idx |-> 1] ELSE None

(* The codec refuses that slice, and `prepare` raises.                     *)
PrepareRaises(q) ==
    /\ q.prepared = None
    /\ NextSlice(q) # None
    /\ NextSlice(q).frame.bad = NextSlice(q).idx

(* Fault: any slice of an `open` counts as unsent.                         *)
UnsentOpenAnySlice(q) == NextSlice(q).frame.type = "open"

(* `failedUnsentOpen`: it was the first slice of an `open`.                *)
UnsentOpen(q) == NextSlice(q).idx = 1 /\ NextSlice(q).frame.type = "open"

Prepare(q) ==
    IF q.prepared # None THEN q
    ELSE [ waiting   |-> IF NextSlice(q) # None /\ NextSlice(q).idx = 1
                         THEN Tail(q.waiting) ELSE q.waiting,
           prepared  |-> NextSlice(q),
           fragments |-> NextSlice(q) ]

Take(q) == [q EXCEPT !.prepared = None]

(* What the rotation finds when it asks this lane.                         *)
Sliceable(q) == q.prepared # None \/ NextSlice(q) # None

(* Fault: no open counts as unsent.                                        *)
KeepsNoOpen(q) == FALSE

(* `discardExceptUnsentOpen`.                                              *)
KeepsOpen(q) ==
    /\ q.prepared = None /\ q.fragments = None
    /\ q.waiting # << >> /\ Head(q.waiting).type = "open"

DiscardExceptUnsentOpen(q) ==
    IF KeepsOpen(q) THEN [EmptyQueue EXCEPT !.waiting = <<Head(q.waiting)>>] ELSE EmptyQueue

-----------------------------------------------------------------------------
VARIABLES
    queues,    \* Writer.queues; a lane without a queue maps to EmptyQueue
    order,     \* Writer.order: the rotation, front first
    wake,      \* Writer.wake
    idle,      \* Writer.idle
    stopped,   \* Writer.stopped
    loop,      \* the write loop: "ready", "asleep" in wake.wait(), "sending", "done"
    inhand,    \* the fragment awaited on the socket
    death,     \* Peer.death: the close code, 0 while the peer is open
    live,      \* keys of Peer.liveStreams
    ended,     \* live streams this peer has ended (no further send)
    nextId,    \* Peer.nextId
    highRemote,\* Peer.highestRemoteOpen
    wire,      \* history: fragments handed to the socket, per lane
    opens,     \* history: ids of the local streams in the order their open was handed over
    enqueued,  \* history: frames enqueued on each lane
    behind     \* history: behind[l][m], turns m took since l began to wait

writerVars == <<queues, order, wake, idle, stopped>>
loopVars == <<loop, inhand>>
peerVars == <<death, live, ended, nextId, highRemote>>
history == <<wire, opens, enqueued, behind>>
vars == <<writerVars, loopVars, peerVars, history>>

(* Peer.open_.                                                             *)
isOpen == death = 0

InOrder == {order[i] : i \in DOMAIN order}

WriterType ==
    /\ queues \in [Lanes -> Queue]
    /\ order \in Seq(Lanes)
    /\ wake \in BOOLEAN /\ idle \in BOOLEAN /\ stopped \in BOOLEAN

LoopType ==
    /\ loop \in {"ready", "asleep", "sending", "done"}
    /\ inhand \in [lane : Lanes, fragment : Fragment] \cup {None}
    /\ (loop = "sending") <=> (inhand # None)

PeerType ==
    /\ death \in {0, 1006, 1011}
    /\ live \subseteq Streams /\ ended \subseteq live
    /\ nextId \in Nat \ {0} /\ nextId % 2 = FirstId % 2
    /\ highRemote \in Remote \cup {0}

HistoryType ==
    /\ wire \in [Lanes -> Seq(Fragment)]
    /\ opens \in Seq(Lanes)
    /\ enqueued \in [Lanes -> Nat]
    /\ behind \in [Lanes -> [Lanes -> Nat]]

TypeOK == WriterType /\ LoopType /\ PeerType /\ HistoryType

Init ==
    /\ queues = [l \in Lanes |-> EmptyQueue]
    /\ order = << >>
    /\ wake = FALSE /\ idle = TRUE /\ stopped = FALSE
    /\ loop = "ready" /\ inhand = None
    /\ death = 0 /\ live = {} /\ ended = {} /\ nextId = FirstId /\ highRemote = 0
    /\ wire = [l \in Lanes |-> << >>]
    /\ opens = << >>
    /\ enqueued = [l \in Lanes |-> 0]
    /\ behind = [l \in Lanes |-> [m \in Lanes |-> 0]]

-----------------------------------------------------------------------------
(* A frame as the application or the read loop hands it over.              *)
NewFrame(lane, type) ==
    {f \in [type : {type}, frags : 1 .. MaxFrags, bad : 0 .. MaxFrags, seq : {enqueued[lane] + 1}] :
        f.bad <= f.frags /\ (~Refusing => f.bad = 0)}

(* Frames built by the peer itself carry no payload the codec could refuse. *)
Plain(lane, type) == [type |-> type, frags |-> 1, bad |-> 0, seq |-> enqueued[lane] + 1]

(* The bound on a behaviour: the applications' frames, over all lanes.     *)
MayEnqueue == FoldFunction(+, 0, enqueued) < MaxFrames

Registered(lane, seq) == \E i \in DOMAIN seq : seq[i] = lane

(* Writer.retire: `order.splice`, or nothing when the lane is not there.   *)
Drop(lane) ==
    IF ~Registered(lane, order) THEN order
    ELSE LET i == CHOOSE i \in DOMAIN order : order[i] = lane
         IN SubSeq(order, 1, i - 1) \o SubSeq(order, i + 1, Len(order))

(* Faults: enqueue registers a lane twice, puts a new lane first, forgets  *)
(* the wake event or the idle event.                                       *)
EnqueueRegistersTwice(q, o, lane, frame) ==
    /\ queues' = [q EXCEPT ![lane] = Put(@, frame)]
    /\ order' = Append(o, lane)
    /\ idle' = FALSE /\ wake' = TRUE
    /\ enqueued' = [enqueued EXCEPT ![lane] = @ + 1]

EnqueueAtFront(q, o, lane, frame) ==
    /\ queues' = [q EXCEPT ![lane] = Put(@, frame)]
    /\ order' = IF Registered(lane, o) THEN o ELSE <<lane>> \o o
    /\ idle' = FALSE /\ wake' = TRUE
    /\ enqueued' = [enqueued EXCEPT ![lane] = @ + 1]

EnqueueNoWake(q, o, lane, frame) ==
    /\ queues' = [q EXCEPT ![lane] = Put(@, frame)]
    /\ order' = IF Registered(lane, o) THEN o ELSE Append(o, lane)
    /\ idle' = FALSE /\ wake' = wake
    /\ enqueued' = [enqueued EXCEPT ![lane] = @ + 1]

EnqueueStaysIdle(q, o, lane, frame) ==
    /\ queues' = [q EXCEPT ![lane] = Put(@, frame)]
    /\ order' = IF Registered(lane, o) THEN o ELSE Append(o, lane)
    /\ idle' = idle /\ wake' = TRUE
    /\ enqueued' = [enqueued EXCEPT ![lane] = @ + 1]

(* Writer.enqueue applied after `q` and `o` replaced the queues and the    *)
(* rotation.                                                               *)
EnqueueOn(q, o, lane, frame) ==
    /\ queues' = [q EXCEPT ![lane] = Put(@, frame)]
    /\ order' = IF Registered(lane, o) THEN o ELSE Append(o, lane)
    /\ idle' = FALSE
    /\ wake' = TRUE
    /\ enqueued' = [enqueued EXCEPT ![lane] = @ + 1]

Enqueue(lane, frame) == EnqueueOn(queues, order, lane, frame)

(* Writer.discard: the lane's queue and the rotation after it.             *)
DiscardedQueues(lane) == [queues EXCEPT ![lane] = DiscardExceptUnsentOpen(@)]
DiscardedOrder(lane) ==
    IF HasWork(DiscardExceptUnsentOpen(queues[lane])) THEN order ELSE Drop(lane)

(* Peer.die, with Writer.discardAll in it; a second death is a no-op.      *)
DieWith(code, q, o) ==
    IF isOpen
    THEN /\ queues' = [l \in Lanes |-> EmptyQueue]
         /\ order' = << >>
         /\ idle' = TRUE /\ wake' = TRUE
         /\ death' = code /\ live' = {} /\ ended' = {}
    ELSE /\ queues' = q /\ order' = o
         /\ UNCHANGED <<idle, wake, death, live, ended>>

(* Lanes that gained or replaced their work start waiting anew.            *)
Restart(lane) == behind' = [behind EXCEPT ![lane] = [m \in Lanes |-> 0]]
Waits(lane) == IF Sliceable(queues[lane]) THEN UNCHANGED behind ELSE Restart(lane)

-----------------------------------------------------------------------------
(* Calls made by streams and by the peer.                                  *)

(* Peer.allocateAndEnqueue; no id is left above MAX_STREAM_ID.             *)
Open ==
    /\ isOpen /\ nextId <= MaxStreamId /\ MayEnqueue
    /\ \E f \in NewFrame(nextId, "open") : Enqueue(nextId, f)
    /\ \E end \in BOOLEAN : ended' = IF end THEN ended \cup {nextId} ELSE ended
    /\ live' = live \cup {nextId}
    /\ nextId' = nextId + 2
    /\ Restart(nextId)
    /\ UNCHANGED <<stopped, loopVars, death, highRemote, wire, opens>>

(* Peer.onOpenFrame: the remote opens a stream, and nothing is enqueued for *)
(* it.  A dead peer's read loop runs until the close event, but its socket  *)
(* is closing and takes nothing: what it does then is left out here, and    *)
(* Reconnect has the streams it takes.                                      *)
Accept(s) ==
    /\ isOpen /\ s \in Remote /\ s > highRemote
    /\ live' = live \cup {s}
    /\ highRemote' = s
    /\ UNCHANGED <<writerVars, loopVars, death, ended, nextId, history>>

(* Stream.send and Stream.end.  Ending a stream the remote has ended       *)
(* closes it and removes it from the live map at once (`closes`).          *)
Send(s) ==
    /\ s \in live \ ended /\ MayEnqueue
    /\ \E f \in NewFrame(s, "data") : Enqueue(s, f)
    /\ \E end, closes \in BOOLEAN :
          /\ closes => end
          /\ live' = IF closes THEN live \ {s} ELSE live
          /\ ended' = IF end /\ ~closes THEN ended \cup {s} ELSE ended
    /\ Waits(s)
    /\ UNCHANGED <<stopped, loopVars, death, nextId, highRemote, wire, opens>>

(* Stream.remoteEnd on a stream this peer has ended.                       *)
RemoteEnd(s) ==
    /\ s \in ended
    /\ s \in Local => wire[s] # << >>
    /\ live' = live \ {s} /\ ended' = ended \ {s}
    /\ UNCHANGED <<writerVars, loopVars, death, nextId, highRemote, history>>

(* Fault: a reset stream stays in the live map.                            *)
ResetStaysLive(s) ==
    /\ s \in live /\ MayEnqueue
    /\ EnqueueOn(DiscardedQueues(s), DiscardedOrder(s), s, Plain(s, "reset"))
    /\ Restart(s)
    /\ UNCHANGED <<stopped, loopVars, peerVars, wire, opens>>

(* Stream.reset and Peer.resetStream, through Peer.enqueueReset.           *)
Reset(s) ==
    /\ s \in live /\ MayEnqueue
    /\ EnqueueOn(DiscardedQueues(s), DiscardedOrder(s), s, Plain(s, "reset"))
    /\ live' = live \ {s} /\ ended' = ended \ {s}
    /\ Restart(s)
    /\ UNCHANGED <<stopped, loopVars, death, nextId, highRemote, wire, opens>>

(* Peer.resetForHandlerError: the reset carries the serialized error       *)
(* and queues behind what the handler sent.                                *)
HandlerError(s) ==
    /\ s \in live \cap Remote /\ MayEnqueue
    /\ \E f \in NewFrame(s, "reset") : Enqueue(s, f)
    /\ live' = live \ {s} /\ ended' = ended \ {s}
    /\ Waits(s)
    /\ UNCHANGED <<stopped, loopVars, death, nextId, highRemote, wire, opens>>

(* Peer.onStreamFrame: a reset from the remote, which has seen the id.     *)
RemoteReset(s) ==
    /\ s \in live
    /\ s \in Local => wire[s] # << >>
    /\ queues' = DiscardedQueues(s)
    /\ order' = DiscardedOrder(s)
    /\ live' = live \ {s} /\ ended' = ended \ {s}
    /\ Restart(s)
    /\ UNCHANGED <<wake, idle, stopped, loopVars, death, nextId, highRemote, wire, opens, enqueued>>

(* Peer.onGoaway: a stream the remote never processed fails locally; its   *)
(* queued frames still go out.                                             *)
GoawayFails(s) ==
    /\ s \in live \cap Local
    /\ live' = live \ {s} /\ ended' = ended \ {s}
    /\ UNCHANGED <<writerVars, loopVars, death, nextId, highRemote, history>>

(* A connection-level frame: pong, ping or goaway.                         *)
Control ==
    /\ isOpen /\ MayEnqueue
    /\ Enqueue(CONNECTION_LANE, Plain(CONNECTION_LANE, "control"))
    /\ Waits(CONNECTION_LANE)
    /\ UNCHANGED <<stopped, loopVars, peerVars, wire, opens>>

(* The socket dies, and the read loop calls Peer.die.                      *)
Die ==
    /\ isOpen
    /\ DieWith(1006, queues, order)
    /\ UNCHANGED <<stopped, loopVars, nextId, highRemote, wire, opens, enqueued, behind>>

(* Peer.stopWriter, when the read loop has returned from a dead peer.      *)
Stop ==
    /\ ~stopped /\ ~isOpen
    /\ stopped' = TRUE /\ idle' = TRUE /\ wake' = TRUE
    /\ UNCHANGED <<queues, order, loopVars, peerVars, history>>

-----------------------------------------------------------------------------
(* The write loop.                                                         *)

(* Fault: the remote is told of a stream it never saw.                     *)
FailLaneAlwaysResets(lane, q, o, unsentOpen) ==
    IF lane \notin live
    THEN DieWith(1011, q, o) /\ UNCHANGED enqueued
    ELSE /\ EnqueueOn(q, o, lane, Plain(lane, "reset"))
         /\ live' = live \ {lane} /\ ended' = ended \ {lane}
         /\ UNCHANGED death

(* Peer.failLane, after Writer.prepareLane discarded and retired the lane: *)
(* fail the live stream, telling the remote unless it never saw the id; a  *)
(* lane without a live stream ends the connection.                         *)
FailLane(lane, q, o, unsentOpen) ==
    IF lane \notin live
    THEN DieWith(1011, q, o) /\ UNCHANGED enqueued
    ELSE /\ IF unsentOpen
            THEN queues' = q /\ order' = o /\ UNCHANGED <<wake, idle, enqueued>>
            ELSE EnqueueOn(q, o, lane, Plain(lane, "reset"))
         /\ live' = live \ {lane} /\ ended' = ended \ {lane}
         /\ UNCHANGED death

(* The rotation stops at position `i`, the first lane with something to    *)
(* slice; the lanes asked before it are retired, except lane 0.            *)
FirstSliceable(i) ==
    /\ i \in DOMAIN order
    /\ Sliceable(queues[order[i]])
    /\ \A j \in 1 .. i - 1 : ~Sliceable(queues[order[j]])

Kept(n) == IF \E j \in 1 .. n : order[j] = CONNECTION_LANE THEN <<CONNECTION_LANE>> ELSE << >>
Asked(n) == {order[j] : j \in 1 .. n}
Rotated(i) == SubSeq(order, i + 1, Len(order)) \o Kept(i - 1)
Retired(n) == [l \in Lanes |-> IF l \in Asked(n) THEN EmptyQueue ELSE queues[l]]

(* Writer.nextFrame returns a fragment; the loop encodes it and awaits     *)
(* the socket.                                                             *)
NextFrame ==
    /\ loop = "ready" /\ ~stopped
    /\ \E i \in DOMAIN order :
          LET lane == order[i]
              q == Prepare(queues[lane])
          IN /\ FirstSliceable(i)
             /\ ~PrepareRaises(queues[lane])
             /\ queues' = [Retired(i - 1) EXCEPT ![lane] = Take(q)]
             /\ order' = Append(Rotated(i), lane)
             /\ inhand' = [lane |-> lane, fragment |-> q.prepared]
             /\ wire' = [wire EXCEPT ![lane] = Append(@, q.prepared)]
             /\ opens' = IF q.prepared.frame.type = "open" /\ q.prepared.idx = 1
                         THEN Append(opens, lane) ELSE opens
             /\ behind' = [l \in Lanes |-> [m \in Lanes |->
                              IF l = lane \/ ~Sliceable(queues[l]) THEN 0
                              ELSE IF m = lane THEN behind[l][m] + 1 ELSE behind[l][m]]]
    /\ loop' = "sending"
    /\ UNCHANGED <<wake, idle, stopped, peerVars, enqueued>>

(* Writer.nextFrame raises LaneEncodingError.                              *)
NextFrameRaises ==
    /\ loop = "ready" /\ ~stopped
    /\ \E i \in DOMAIN order :
          LET lane == order[i]
          IN /\ FirstSliceable(i)
             /\ PrepareRaises(queues[lane])
             /\ FailLane(lane, [Retired(i - 1) EXCEPT ![lane] = EmptyQueue],
                         Rotated(i) \o (IF lane = CONNECTION_LANE THEN <<lane>> ELSE << >>),
                         UnsentOpen(queues[lane]))
             /\ Restart(lane)
    /\ UNCHANGED <<stopped, loopVars, nextId, highRemote, wire, opens>>

(* Writer.nextFrame finds nothing: it clears the wake event, reports idle  *)
(* when no lane has work, and waits.                                       *)
NothingToSend ==
    /\ loop = "ready" /\ ~stopped
    /\ \A l \in InOrder : ~Sliceable(queues[l])
    /\ LET after == Retired(Len(order))
       IN /\ queues' = after
          /\ order' = Kept(Len(order))
          /\ IF \E l \in Lanes : HasWork(after[l])
             THEN UNCHANGED <<idle, loop>>
             ELSE idle' = TRUE /\ loop' = "asleep"
    /\ wake' = FALSE
    /\ UNCHANGED <<stopped, inhand, peerVars, history>>

Wake ==
    /\ loop = "asleep" /\ wake
    /\ loop' = "ready"
    /\ UNCHANGED <<writerVars, inhand, peerVars, history>>

(* Writer.nextFrame returns None.                                          *)
LoopEnds ==
    /\ loop = "ready" /\ stopped
    /\ loop' = "done"
    /\ UNCHANGED <<writerVars, inhand, peerVars, history>>

(* The socket took the fragment: Writer.advance slices the lane's next one *)
(* and the loop yields one turn of the event loop.                         *)
Sent ==
    /\ loop = "sending"
    /\ LET lane == inhand.lane
           q == queues[lane]
       IN IF PrepareRaises(q)
          THEN /\ FailLane(lane, [queues EXCEPT ![lane] = EmptyQueue],
                           IF lane = CONNECTION_LANE THEN order ELSE Drop(lane), UnsentOpen(q))
               /\ Restart(lane)
          ELSE /\ queues' = [queues EXCEPT ![lane] = Prepare(q)]
               /\ wake' = (wake \/ HasWork(Prepare(q)))
               /\ UNCHANGED <<order, idle, enqueued, death, live, ended, behind>>
    /\ loop' = "ready" /\ inhand' = None
    /\ UNCHANGED <<stopped, nextId, highRemote, wire, opens>>

(* The socket raised ConnectionClosed: the write loop returns.             *)
SendFindsClosed ==
    /\ loop = "sending"
    /\ loop' = "done" /\ inhand' = None
    /\ UNCHANGED <<writerVars, peerVars, history>>

(* Peer.failUnsendable: the adapter raised something else.                 *)
SendRaises ==
    /\ loop = "sending"
    /\ LET lane == inhand.lane
       IN IF lane \notin live
          THEN DieWith(1011, queues, order) /\ UNCHANGED <<enqueued, behind>>
          ELSE /\ Enqueue(lane, Plain(lane, "reset"))
               /\ live' = live \ {lane} /\ ended' = ended \ {lane}
               /\ Waits(lane)
               /\ UNCHANGED death
    /\ loop' = "ready" /\ inhand' = None
    /\ UNCHANGED <<stopped, nextId, highRemote, wire, opens>>

WriteLoop ==
    \/ NextFrame \/ NextFrameRaises \/ NothingToSend \/ Wake \/ LoopEnds
    \/ Sent \/ SendFindsClosed \/ SendRaises

Next ==
    \/ Open \/ Control \/ Die \/ Stop
    \/ \E s \in Streams :
          Accept(s) \/ Send(s) \/ RemoteEnd(s) \/ Reset(s) \/ HandlerError(s)
             \/ RemoteReset(s) \/ GoawayFails(s)
    \/ WriteLoop

Spec == Init /\ [][Next]_vars

(* The event loop runs what can run, and the socket's send returns         *)
(* or raises.                                                              *)
FairSpec == Spec /\ WF_vars(WriteLoop)

-----------------------------------------------------------------------------
(* Nothing of a stream this peer opened reaches the socket ahead of the    *)
(* first fragment of its `open`: no early `reset` from `enqueueReset` or   *)
(* `failLane` names an id the remote has never seen (WSM-STM-003).         *)
OpenFirst ==
    \A s \in Local : wire[s] # << >> =>
        wire[s][1].frame.type = "open" /\ wire[s][1].idx = 1

(* On each lane frames leave in the order they were enqueued, whole and    *)
(* with their fragments contiguous; only a `reset` may cut a payload short *)
(* or follow frames that were dropped (WSM-FRG-017, WSM-FRM-014).          *)
Follows(a, b) ==
    \/ ~Last(a) /\ b.frame = a.frame /\ b.idx = a.idx + 1
    \/ Last(a) /\ b.idx = 1 /\ b.frame.seq = a.frame.seq + 1
    \/ b.idx = 1 /\ b.frame.type = "reset" /\ b.frame.seq > a.frame.seq

LanesInOrder ==
    \A l \in Lanes : \A i \in 1 .. Len(wire[l]) - 1 : Follows(wire[l][i], wire[l][i + 1])

(* A `reset` is the last frame this peer sends on a stream: what was       *)
(* queued before it was dropped and nothing is enqueued after it.          *)
ResetIsLast ==
    \A l \in Lanes : \A i \in 1 .. Len(wire[l]) - 1 :
        wire[l][i].frame.type = "reset" => wire[l][i + 1].frame = wire[l][i].frame

(* The remote sees the ids of this peer's streams in increasing order,     *)
(* whatever the rotation does and whichever streams were reset before      *)
(* their open left (WSM-SID-006, WSM-INV-005).                             *)
OpensInIdOrder == \A i \in 1 .. Len(opens) - 1 : opens[i] < opens[i + 1]

(* While a lane waits, every other lane takes at most one turn             *)
(* (WSM-FRG-019, WSM-INV-004).                                             *)
RoundRobin == \A l, m \in Lanes : behind[l][m] <= 1

(* While a fragment is on its way to the socket, the next one of its lane  *)
(* has not been sliced, so a reset can still replace it (WSM-FRG-018).     *)
NoSliceAhead == inhand # None => queues[inhand.lane].prepared = None

(* What the remote reads of each lane is in its order, and the opens of    *)
(* all lanes together in that of their ids.                                *)
WireInOrder == LanesInOrder /\ OpensInIdOrder

(* No stream gets ahead of its share: neither a turn nor a slice more than *)
(* the rotation gives it.                                                  *)
RotationIsFair == RoundRobin /\ NoSliceAhead

(* `waitIdle` tells `close()` that everything enqueued has been sent: on   *)
(* a working peer no lane has work and no fragment is on its way.          *)
IdleMeansSent ==
    idle /\ isOpen => inhand = None /\ \A l \in Lanes : ~HasWork(queues[l])

(* The write loop never sleeps on work: a lane with work is in the         *)
(* rotation once, and when the loop waits with the event clear there is no *)
(* work at all (`nextFrame` clears the event before it looks).             *)
NoLostWakeup ==
    /\ \A l \in Lanes : HasWork(queues[l]) => \E i \in DOMAIN order : order[i] = l
    /\ \A i, j \in DOMAIN order : order[i] = order[j] => i = j
    /\ loop = "asleep" /\ ~wake => \A l \in Lanes : ~HasWork(queues[l])

(* No work is forgotten, by the loop that sends it or by the close() that  *)
(* waits for it.                                                           *)
NoWorkForgotten == IdleMeansSent /\ NoLostWakeup

(* When the write loop fails a stream and the connection goes on, the      *)
(* remote is told with a `reset` exactly when it may have seen the id      *)
(* (`LaneEncodingError.unsentOpen`).                                       *)
QueuesReset(s) ==
    LET w == queues'[s].waiting IN w # << >> /\ w[Len(w)].type = "reset"

FailureIsReported ==
    [][ NextFrameRaises \/ Sent \/ SendRaises =>
          \A s \in live \ live' : isOpen' =>
              (QueuesReset(s) <=> (s \in Remote \/ wire[s] # << >>)) ]_vars

(* `drainOutbound` waits for the idle event or for the end of the write    *)
(* loop; one of them comes.                                                *)
DrainReturns == ~idle ~> (idle \/ loop = "done")
=============================================================================
