---------------------------- MODULE WriterProofs ----------------------------
(***************************************************************************)
(* Theorems about the send path, for every number of streams, of fragments *)
(* and of frames.                                                          *)
(*                                                                         *)
(* First what the queues and the variables are, and when a peer is idle;   *)
(* then the order in which the writer sends: what leaves each lane, whose  *)
(* turn it is, what the loop may overlook, and that all of it implements   *)
(* SendPath.                                                               *)
(*                                                                         *)
(* For the order, every step does one of eight things to a lane (LaneMove) *)
(* and keeps the rotation but for lanes that come in or turn to its end    *)
(* (OrderMove).  The invariants are proved from these and not from the     *)
(* actions.                                                                *)
(***************************************************************************)
EXTENDS MCWriter, SequenceTheorems, TLAPS

-----------------------------------------------------------------------------
(* The operations of StreamQueue return queues.                            *)

LEMMA EmptyQueueType == EmptyQueue \in Queue
  BY DEF EmptyQueue, Queue

LEMMA PutType ==
  ASSUME NEW q \in Queue, NEW f \in Frame
  PROVE  /\ Put(q, f) \in Queue
         /\ Put(q, f).waiting = Append(q.waiting, f)
         /\ Put(q, f).prepared = q.prepared
         /\ Put(q, f).fragments = q.fragments
  BY DEF Put, Queue

LEMMA NextSliceType ==
  ASSUME NEW q \in Queue
  PROVE  NextSlice(q) \in Fragment \cup {None}
  <1> USE WriterAssumption
  <1>1. CASE q.fragments # None /\ ~Last(q.fragments)
    <2>1. q.fragments \in Fragment
      BY <1>1 DEF Queue
    <2>2. q.fragments.idx + 1 <= q.fragments.frame.frags
      BY <1>1, <2>1 DEF Fragment, Frame, Last
    <2>3. [q.fragments EXCEPT !.idx = @ + 1] \in Fragment
      BY <2>1, <2>2 DEF Fragment, Frame
    <2> QED BY <1>1, <2>3 DEF NextSlice
  <1>2. CASE ~(q.fragments # None /\ ~Last(q.fragments)) /\ q.waiting # << >>
    <2>1. Head(q.waiting) \in Frame
      BY <1>2 DEF Queue
    <2>2. [frame |-> Head(q.waiting), idx |-> 1] \in Fragment
      BY <2>1 DEF Fragment, Frame
    <2> QED BY <1>2, <2>2 DEF NextSlice
  <1>3. CASE ~(q.fragments # None /\ ~Last(q.fragments)) /\ q.waiting = << >>
    BY <1>3 DEF NextSlice
  <1> QED BY <1>1, <1>2, <1>3

LEMMA PrepareType ==
  ASSUME NEW q \in Queue
  PROVE  Prepare(q) \in Queue
  <1>1. NextSlice(q) \in Fragment \cup {None}
    BY NextSliceType
  <1>2. NextSlice(q) # None /\ NextSlice(q).idx = 1 => q.waiting # << >>
    <2> SUFFICES ASSUME NextSlice(q) # None, NextSlice(q).idx = 1, q.waiting = << >>
                 PROVE  FALSE
      OBVIOUS
    <2>1. q.fragments # None /\ ~Last(q.fragments)
      BY DEF NextSlice
    <2>2. q.fragments \in Fragment
      BY <2>1 DEF Queue
    <2>3. NextSlice(q).idx = q.fragments.idx + 1
      BY <2>1, <2>2 DEF NextSlice, Fragment
    <2> QED BY <2>2, <2>3 DEF Fragment
  <1> QED BY <1>1, <1>2 DEF Prepare, Queue

LEMMA TakeType ==
  ASSUME NEW q \in Queue
  PROVE  Take(q) \in Queue
  BY DEF Take, Queue

LEMMA DiscardType ==
  ASSUME NEW q \in Queue
  PROVE  DiscardExceptUnsentOpen(q) \in Queue
  <1>1. CASE KeepsOpen(q)
    <2>1. <<Head(q.waiting)>> \in Seq(Frame)
      BY <1>1 DEF KeepsOpen, Queue
    <2> QED BY <1>1, <2>1 DEF DiscardExceptUnsentOpen, EmptyQueue, Queue
  <1>2. CASE ~KeepsOpen(q)
    BY <1>2, EmptyQueueType DEF DiscardExceptUnsentOpen
  <1> QED BY <1>1, <1>2

LEMMA RotationType ==
  ASSUME TypeOK, NEW i \in DOMAIN order, NEW j \in Nat, j <= Len(order)
  PROVE  /\ Rotated(i) \in Seq(Lanes)
         /\ Retired(j) \in [Lanes -> Queue]
  <1>1. Rotated(i) \in Seq(Lanes)
    <2>1. SubSeq(order, i + 1, Len(order)) \in Seq(Lanes)
      <3>1. i \in 1 .. Len(order) /\ Len(order) \in Nat
        BY DEF TypeOK, WriterType
      <3>2. \A k \in i + 1 .. Len(order) : order[k] \in Lanes
        BY <3>1 DEF TypeOK, WriterType
      <3> QED BY <3>1, <3>2, SubSeqProperties
    <2>2. Kept(i - 1) \in Seq(Lanes)
      <3>1. CONNECTION_LANE \in Lanes
        BY DEF Lanes
      <3>2. <<CONNECTION_LANE>> \in Seq(Lanes) /\ << >> \in Seq(Lanes)
        BY <3>1
      <3> QED BY <3>2 DEF Kept
    <2> QED BY <2>1, <2>2, ConcatProperties DEF Rotated
  <1>2. Retired(j) \in [Lanes -> Queue]
    BY EmptyQueueType DEF Retired, TypeOK, WriterType
  <1> QED BY <1>1, <1>2

LEMMA DropType ==
  ASSUME TypeOK, NEW l \in Lanes
  PROVE  Drop(l) \in Seq(Lanes)
  <1>1. CASE ~Registered(l, order)
    BY <1>1 DEF Drop, TypeOK, WriterType
  <1>2. CASE Registered(l, order)
    <2> DEFINE i == CHOOSE i \in DOMAIN order : order[i] = l
    <2>1. i \in 1 .. Len(order)
      BY <1>2 DEF Registered, TypeOK, WriterType
    <2> HIDE DEF i
    <2>2. SubSeq(order, 1, i - 1) \in Seq(Lanes)
      BY <2>1, SubSeqProperties DEF TypeOK, WriterType
    <2>3. SubSeq(order, i + 1, Len(order)) \in Seq(Lanes)
      BY <2>1, SubSeqProperties DEF TypeOK, WriterType
    <2>4. SubSeq(order, 1, i - 1) \o SubSeq(order, i + 1, Len(order)) \in Seq(Lanes)
      BY <2>2, <2>3, ConcatProperties
    <2> QED BY <1>2, <2>4 DEF Drop, i
  <1> QED BY <1>1, <1>2

-----------------------------------------------------------------------------
(* Type correctness.                                                       *)

LEMMA FrameType_New ==
  ASSUME TypeOK, NEW l \in Lanes, NEW t \in FrameType
  PROVE  /\ NewFrame(l, t) \subseteq Frame
         /\ Plain(l, t) \in Frame
  BY WriterAssumption DEF TypeOK, HistoryType, NewFrame, Plain, Frame

LEMMA EnqueueType ==
  ASSUME TypeOK, NEW q \in [Lanes -> Queue], NEW o \in Seq(Lanes), NEW l \in Lanes, NEW f \in Frame,
         EnqueueOn(q, o, l, f)
  PROVE  /\ queues' \in [Lanes -> Queue]
         /\ order' \in Seq(Lanes)
         /\ wake' \in BOOLEAN /\ idle' \in BOOLEAN
         /\ enqueued' \in [Lanes -> Nat]
  <1>1. Put(q[l], f) \in Queue
    BY PutType
  <1>2. queues' \in [Lanes -> Queue]
    BY <1>1 DEF EnqueueOn
  <1>3. order' \in Seq(Lanes)
    BY AppendProperties DEF EnqueueOn
  <1>4. idle' = FALSE /\ wake' = TRUE
    BY DEF EnqueueOn
  <1>5. enqueued' \in [Lanes -> Nat]
    BY DEF EnqueueOn, TypeOK, HistoryType
  <1> QED BY <1>2, <1>3, <1>4, <1>5

LEMMA DieType ==
  ASSUME TypeOK, NEW q \in [Lanes -> Queue], NEW o \in Seq(Lanes), NEW c \in {1006, 1011}, DieWith(c, q, o)
  PROVE  /\ queues' \in [Lanes -> Queue]
         /\ order' \in Seq(Lanes)
         /\ wake' \in BOOLEAN /\ idle' \in BOOLEAN
         /\ death' \in {0, 1006, 1011}
         /\ live' \subseteq Streams /\ ended' \subseteq live'
  <1>1. CASE isOpen
    <2>1. /\ queues' = [m \in Lanes |-> EmptyQueue]
          /\ order' = << >>
          /\ idle' = TRUE /\ wake' = TRUE
          /\ death' = c /\ live' = {} /\ ended' = {}
      BY <1>1 DEF DieWith
    <2> QED BY <2>1, EmptyQueueType
  <1>2. CASE ~isOpen
    <2>1. /\ queues' = q /\ order' = o
          /\ idle' = idle /\ wake' = wake /\ death' = death /\ live' = live /\ ended' = ended
      BY <1>2 DEF DieWith
    <2> QED BY <2>1 DEF TypeOK, WriterType, PeerType
  <1> QED BY <1>1, <1>2

LEMMA FailLaneType ==
  ASSUME TypeOK, NEW q \in [Lanes -> Queue], NEW o \in Seq(Lanes), NEW l \in Lanes, NEW u \in BOOLEAN,
         FailLane(l, q, o, u)
  PROVE  /\ queues' \in [Lanes -> Queue]
         /\ order' \in Seq(Lanes)
         /\ wake' \in BOOLEAN /\ idle' \in BOOLEAN
         /\ enqueued' \in [Lanes -> Nat]
         /\ death' \in {0, 1006, 1011}
         /\ live' \subseteq Streams /\ ended' \subseteq live'
  <1>1. CASE l \notin live
    <2>1. DieWith(1011, q, o) /\ enqueued' = enqueued
      BY <1>1 DEF FailLane
    <2>2. /\ queues' \in [Lanes -> Queue] /\ order' \in Seq(Lanes)
          /\ wake' \in BOOLEAN /\ idle' \in BOOLEAN
          /\ death' \in {0, 1006, 1011} /\ live' \subseteq Streams /\ ended' \subseteq live'
      BY <2>1, DieType
    <2> QED BY <2>1, <2>2 DEF TypeOK, HistoryType
  <1>2. CASE l \in live /\ u
    <2>1. /\ queues' = q /\ order' = o /\ wake' = wake /\ idle' = idle /\ enqueued' = enqueued
          /\ live' = live \ {l} /\ ended' = ended \ {l} /\ death' = death
      BY <1>2 DEF FailLane
    <2> QED BY <2>1 DEF TypeOK, WriterType, PeerType, HistoryType
  <1>3. CASE l \in live /\ ~u
    <2>1. Plain(l, "reset") \in Frame
      BY FrameType_New DEF FrameType
    <2>2. /\ EnqueueOn(q, o, l, Plain(l, "reset"))
          /\ live' = live \ {l} /\ ended' = ended \ {l} /\ death' = death
      BY <1>3 DEF FailLane
    <2>3. /\ queues' \in [Lanes -> Queue] /\ order' \in Seq(Lanes)
          /\ wake' \in BOOLEAN /\ idle' \in BOOLEAN /\ enqueued' \in [Lanes -> Nat]
      BY <2>1, <2>2, EnqueueType
    <2> QED BY <2>2, <2>3 DEF TypeOK, WriterType, PeerType, HistoryType
  <1> QED BY <1>1, <1>2, <1>3

LEMMA RestartType ==
  ASSUME TypeOK, NEW l \in Lanes, Restart(l) \/ Waits(l)
  PROVE  behind' \in [Lanes -> [Lanes -> Nat]]
  <1>1. behind \in [Lanes -> [Lanes -> Nat]]
    BY DEF TypeOK, HistoryType
  <1>2. [m \in Lanes |-> 0] \in [Lanes -> Nat]
    OBVIOUS
  <1>3. behind' = behind \/ behind' = [behind EXCEPT ![l] = [m \in Lanes |-> 0]]
    BY Zenon DEF Restart, Waits
  <1> QED BY <1>1, <1>2, <1>3

LEMMA InitType == Init => TypeOK
  <1> SUFFICES ASSUME Init PROVE TypeOK
    OBVIOUS
  <1>1. queues \in [Lanes -> Queue]
    BY EmptyQueueType DEF Init
  <1>2. /\ order \in Seq(Lanes) /\ wire \in [Lanes -> Seq(Fragment)] /\ opens \in Seq(Lanes)
        /\ enqueued \in [Lanes -> Nat] /\ behind \in [Lanes -> [Lanes -> Nat]]
    BY DEF Init
  <1>3. /\ wake \in BOOLEAN /\ idle \in BOOLEAN /\ stopped \in BOOLEAN
        /\ loop \in {"ready", "asleep", "sending", "done"} /\ inhand = None
        /\ death \in {0, 1006, 1011} /\ live \subseteq Streams
        /\ ended \subseteq live /\ nextId = FirstId /\ highRemote \in Remote \cup {0}
    BY DEF Init
  <1>4. FirstId \in Nat \ {0}
    BY DEF FirstId
  <1>5. WriterType /\ HistoryType
    BY <1>1, <1>2, <1>3 DEF WriterType, HistoryType
  <1>6. LoopType
    BY <1>3 DEF LoopType, Init
  <1>7. PeerType
    BY <1>3, <1>4 DEF PeerType
  <1> QED BY <1>5, <1>6, <1>7 DEF TypeOK

LEMMA DiscardedType ==
  ASSUME TypeOK, NEW l \in Lanes
  PROVE  DiscardedQueues(l) \in [Lanes -> Queue] /\ DiscardedOrder(l) \in Seq(Lanes)
  <1>1. queues \in [Lanes -> Queue] /\ order \in Seq(Lanes)
    BY DEF TypeOK, WriterType
  <1>2. DiscardExceptUnsentOpen(queues[l]) \in Queue
    BY <1>1, DiscardType
  <1>3. DiscardedQueues(l) \in [Lanes -> Queue]
    BY <1>1, <1>2 DEF DiscardedQueues
  <1>4. DiscardedOrder(l) \in Seq(Lanes)
    BY <1>1, DropType DEF DiscardedOrder
  <1> QED BY <1>3, <1>4

LEMMA SliceType ==
  ASSUME NEW q \in Queue, Sliceable(q)
  PROVE  Prepare(q).prepared \in Fragment
  <1>1. CASE q.prepared # None
    BY <1>1 DEF Prepare, Queue
  <1>2. CASE q.prepared = None
    <2>1. NextSlice(q) \in Fragment
      BY <1>2, NextSliceType DEF Sliceable
    <2> QED BY <1>2, <2>1 DEF Prepare
  <1> QED BY <1>1, <1>2

LEMMA NextType == TypeOK /\ [Next]_vars => TypeOK'
  <1> SUFFICES ASSUME TypeOK, [Next]_vars PROVE TypeOK'
    OBVIOUS
  <1> USE WriterAssumption
  <1>a. /\ Streams \subseteq Lanes /\ CONNECTION_LANE \in Lanes
        /\ {"open", "data", "reset", "control"} = FrameType
    BY DEF Streams, Lanes, FrameType
  <1>b. queues \in [Lanes -> Queue] /\ order \in Seq(Lanes)
    BY DEF TypeOK, WriterType
  <1>c. /\ UNCHANGED writerVars => WriterType'
        /\ UNCHANGED loopVars => LoopType'
        /\ UNCHANGED peerVars => PeerType'
        /\ UNCHANGED history => HistoryType'
    BY DEF TypeOK, WriterType, LoopType, PeerType, HistoryType, writerVars, loopVars, peerVars, history
  <1>1. CASE Open
    <2>1. nextId \in Lanes
      BY <1>1 DEF Open, TypeOK, PeerType, Lanes, Streams, Local
    <2>2. PICK f \in NewFrame(nextId, "open") : EnqueueOn(queues, order, nextId, f)
      BY <1>1 DEF Open, Enqueue
    <2>3. f \in Frame
      BY <1>a, <2>1, FrameType_New
    <2>4. WriterType' /\ enqueued' \in [Lanes -> Nat]
      <3>1. stopped' = stopped
        BY <1>1 DEF Open
      <3> QED BY <1>b, <2>1, <2>2, <2>3, <3>1, EnqueueType DEF TypeOK, WriterType
    <2>5. LoopType'
      BY <1>1, <1>c DEF Open
    <2>6. PeerType'
      BY <1>1 DEF Open, TypeOK, PeerType, Local, Streams
    <2>7. HistoryType'
      BY <1>1, <2>1, <2>4, RestartType DEF Open, TypeOK, HistoryType
    <2> QED BY <2>4, <2>5, <2>6, <2>7 DEF TypeOK
  <1>2. CASE Control
    <2>1. EnqueueOn(queues, order, CONNECTION_LANE, Plain(CONNECTION_LANE, "control"))
      BY <1>2 DEF Control, Enqueue
    <2>2. Plain(CONNECTION_LANE, "control") \in Frame
      BY <1>a, FrameType_New
    <2>3. stopped' = stopped /\ Waits(CONNECTION_LANE) /\ wire' = wire /\ opens' = opens
      BY <1>2 DEF Control
    <2>4. WriterType' /\ enqueued' \in [Lanes -> Nat]
      BY <1>a, <1>b, <2>1, <2>2, <2>3, EnqueueType DEF TypeOK, WriterType
    <2>5. LoopType' /\ PeerType'
      BY <1>2, <1>c DEF Control
    <2>6. HistoryType'
      BY <1>a, <2>3, <2>4, RestartType DEF TypeOK, HistoryType
    <2> QED BY <2>4, <2>5, <2>6 DEF TypeOK
  <1>3. CASE Die
    <2>1. DieWith(1006, queues, order)
      BY <1>3 DEF Die
    <2>2. /\ stopped' = stopped /\ UNCHANGED loopVars /\ UNCHANGED history
          /\ nextId' = nextId /\ highRemote' = highRemote
      BY <1>3 DEF Die, history
    <2> QED BY <1>b, <1>c, <2>1, <2>2, DieType DEF TypeOK, WriterType, PeerType
  <1>4. CASE Stop
    <2>1. WriterType'
      BY <1>4 DEF Stop, TypeOK, WriterType
    <2> QED BY <1>4, <1>c, <2>1 DEF Stop, TypeOK
  <1>5. ASSUME NEW s \in Streams, Accept(s) PROVE TypeOK'
    <2>1. PeerType'
      BY <1>5 DEF Accept, TypeOK, PeerType
    <2> QED BY <1>5, <1>c, <2>1 DEF Accept, TypeOK
  <1>6. ASSUME NEW s \in Streams, Send(s) PROVE TypeOK'
    <2>1. PICK f \in NewFrame(s, "data") : EnqueueOn(queues, order, s, f)
      BY <1>6 DEF Send, Enqueue
    <2>2. f \in Frame /\ s \in Lanes
      BY <1>a, FrameType_New
    <2>3. stopped' = stopped /\ Waits(s) /\ wire' = wire /\ opens' = opens
      BY <1>6 DEF Send
    <2>4. WriterType' /\ enqueued' \in [Lanes -> Nat]
      BY <1>b, <2>1, <2>2, <2>3, EnqueueType DEF TypeOK, WriterType
    <2>5. LoopType'
      BY <1>6, <1>c DEF Send
    <2>6. PeerType'
      BY <1>6 DEF Send, TypeOK, PeerType
    <2>7. HistoryType'
      BY <2>2, <2>3, <2>4, RestartType DEF TypeOK, HistoryType
    <2> QED BY <2>4, <2>5, <2>6, <2>7 DEF TypeOK
  <1>7. ASSUME NEW s \in Streams, RemoteEnd(s) \/ GoawayFails(s) PROVE TypeOK'
    <2>1. PeerType' /\ UNCHANGED <<writerVars, loopVars, history>>
      BY <1>7 DEF RemoteEnd, GoawayFails, TypeOK, PeerType
    <2> QED BY <1>c, <2>1 DEF TypeOK
  <1>8. ASSUME NEW s \in Streams, Reset(s) PROVE TypeOK'
    <2>1. EnqueueOn(DiscardedQueues(s), DiscardedOrder(s), s, Plain(s, "reset"))
      BY <1>8 DEF Reset
    <2>2. DiscardedQueues(s) \in [Lanes -> Queue] /\ DiscardedOrder(s) \in Seq(Lanes) /\ s \in Lanes
      BY <1>a, DiscardedType
    <2>3. Plain(s, "reset") \in Frame
      BY <1>a, FrameType_New
    <2>4. stopped' = stopped /\ Restart(s) /\ wire' = wire /\ opens' = opens
      BY <1>8 DEF Reset
    <2>5. WriterType' /\ enqueued' \in [Lanes -> Nat]
      BY <2>1, <2>2, <2>3, <2>4, EnqueueType DEF TypeOK, WriterType
    <2>6. LoopType'
      BY <1>8, <1>c DEF Reset
    <2>7. PeerType'
      BY <1>8 DEF Reset, TypeOK, PeerType
    <2>8. HistoryType'
      BY <2>2, <2>4, <2>5, RestartType DEF TypeOK, HistoryType
    <2> QED BY <2>5, <2>6, <2>7, <2>8 DEF TypeOK
  <1>9. ASSUME NEW s \in Streams, HandlerError(s) PROVE TypeOK'
    <2>1. PICK f \in NewFrame(s, "reset") : EnqueueOn(queues, order, s, f)
      BY <1>9 DEF HandlerError, Enqueue
    <2>2. f \in Frame /\ s \in Lanes
      BY <1>a, FrameType_New
    <2>3. stopped' = stopped /\ Waits(s) /\ wire' = wire /\ opens' = opens
      BY <1>9 DEF HandlerError
    <2>4. WriterType' /\ enqueued' \in [Lanes -> Nat]
      BY <1>b, <2>1, <2>2, <2>3, EnqueueType DEF TypeOK, WriterType
    <2>5. LoopType'
      BY <1>9, <1>c DEF HandlerError
    <2>6. PeerType'
      BY <1>9 DEF HandlerError, TypeOK, PeerType
    <2>7. HistoryType'
      BY <2>2, <2>3, <2>4, RestartType DEF TypeOK, HistoryType
    <2> QED BY <2>4, <2>5, <2>6, <2>7 DEF TypeOK
  <1>10. ASSUME NEW s \in Streams, RemoteReset(s) PROVE TypeOK'
    <2>1. WriterType'
      <3>1. DiscardedQueues(s) \in [Lanes -> Queue] /\ DiscardedOrder(s) \in Seq(Lanes)
        BY <1>a, DiscardedType
      <3> QED BY <1>10, <3>1 DEF RemoteReset, TypeOK, WriterType
    <2>2. LoopType'
      BY <1>10, <1>c DEF RemoteReset
    <2>3. PeerType'
      BY <1>10 DEF RemoteReset, TypeOK, PeerType
    <2>4. HistoryType'
      BY <1>a, <1>10, RestartType DEF RemoteReset, TypeOK, HistoryType
    <2> QED BY <2>1, <2>2, <2>3, <2>4 DEF TypeOK
  <1>12. CASE NextFrame
    <2>1. PICK i \in DOMAIN order :
             /\ FirstSliceable(i)
             /\ queues' = [Retired(i - 1) EXCEPT ![order[i]] = Take(Prepare(queues[order[i]]))]
             /\ order' = Append(Rotated(i), order[i])
             /\ inhand' = [lane |-> order[i], fragment |-> Prepare(queues[order[i]]).prepared]
             /\ wire' = [wire EXCEPT ![order[i]] = Append(@, Prepare(queues[order[i]]).prepared)]
             /\ opens' \in {opens, Append(opens, order[i])}
             /\ behind' = [l \in Lanes |-> [m \in Lanes |->
                              IF l = order[i] \/ ~Sliceable(queues[l]) THEN 0
                              ELSE IF m = order[i] THEN behind[l][m] + 1 ELSE behind[l][m]]]
      BY <1>12 DEF NextFrame
    <2>2. order[i] \in Lanes /\ i - 1 \in Nat /\ i - 1 <= Len(order)
      BY <1>b
    <2>3. queues[order[i]] \in Queue /\ Prepare(queues[order[i]]) \in Queue
      BY <1>b, <2>2, PrepareType
    <2>4. WriterType'
      <3>1. queues' \in [Lanes -> Queue]
        BY <2>1, <2>2, <2>3, TakeType, RotationType
      <3>2. order' \in Seq(Lanes)
        BY <2>1, <2>2, RotationType, AppendProperties
      <3> QED BY <1>12, <3>1, <3>2 DEF NextFrame, TypeOK, WriterType
    <2>a. Prepare(queues[order[i]]).prepared \in Fragment
      BY <2>1, <2>3, SliceType DEF FirstSliceable
    <2>5. LoopType'
      <3>1. inhand' \in [lane : Lanes, fragment : Fragment]
        BY <2>1, <2>2, <2>a
      <3>2. loop' = "sending"
        BY <1>12 DEF NextFrame
      <3> QED BY <3>1, <3>2 DEF TypeOK, LoopType
    <2>6. PeerType'
      BY <1>12, <1>c DEF NextFrame
    <2>7. HistoryType'
      <3>1. wire \in [Lanes -> Seq(Fragment)] /\ opens \in Seq(Lanes) /\ behind \in [Lanes -> [Lanes -> Nat]]
        BY DEF TypeOK, HistoryType
      <3>2. Append(wire[order[i]], Prepare(queues[order[i]]).prepared) \in Seq(Fragment)
        BY <2>2, <2>a, <3>1, AppendProperties
      <3>3. wire' \in [Lanes -> Seq(Fragment)]
        BY <2>1, <3>1, <3>2
      <3>4. opens' \in Seq(Lanes)
        <4>1. opens' \in {opens, Append(opens, order[i])}
          BY <2>1
        <4>2. Append(opens, order[i]) \in Seq(Lanes)
          BY <2>2, <3>1, AppendProperties
        <4> QED BY <3>1, <4>1, <4>2
      <3>5. behind' \in [Lanes -> [Lanes -> Nat]]
        <4> DEFINE turn == [l \in Lanes |-> [m \in Lanes |->
                              IF l = order[i] \/ ~Sliceable(queues[l]) THEN 0
                              ELSE IF m = order[i] THEN behind[l][m] + 1 ELSE behind[l][m]]]
        <4>1. \A l, m \in Lanes : behind[l][m] \in Nat
          BY <3>1
        <4>2. turn \in [Lanes -> [Lanes -> Nat]]
          BY <4>1
        <4>3. behind' = turn
          BY <2>1
        <4> QED BY <4>2, <4>3
      <3> QED BY <1>12, <3>3, <3>4, <3>5 DEF NextFrame, TypeOK, HistoryType
    <2> QED BY <2>4, <2>5, <2>6, <2>7 DEF TypeOK
  <1>13. CASE NextFrameRaises
    <2>1. PICK i \in DOMAIN order :
             /\ FailLane(order[i], [Retired(i - 1) EXCEPT ![order[i]] = EmptyQueue],
                         Rotated(i) \o (IF order[i] = CONNECTION_LANE THEN <<order[i]>> ELSE << >>),
                         UnsentOpen(queues[order[i]]))
             /\ Restart(order[i])
      BY <1>13 DEF NextFrameRaises
    <2> DEFINE q == [Retired(i - 1) EXCEPT ![order[i]] = EmptyQueue]
               o == Rotated(i) \o (IF order[i] = CONNECTION_LANE THEN <<order[i]>> ELSE << >>)
               u == UnsentOpen(queues[order[i]])
    <2>2. order[i] \in Lanes /\ i - 1 \in Nat /\ i - 1 <= Len(order)
      BY <1>b
    <2>3. q \in [Lanes -> Queue]
      BY <2>2, RotationType, EmptyQueueType
    <2>4. o \in Seq(Lanes)
      <3>1. (IF order[i] = CONNECTION_LANE THEN <<order[i]>> ELSE << >>) \in Seq(Lanes)
        BY <2>2
      <3>2. Rotated(i) \in Seq(Lanes)
        BY <2>2, RotationType
      <3> QED BY <3>1, <3>2, ConcatProperties
    <2>5. u \in BOOLEAN
      BY DEF UnsentOpen
    <2>6. stopped' = stopped /\ UNCHANGED loopVars /\ nextId' = nextId /\ highRemote' = highRemote
          /\ wire' = wire /\ opens' = opens
      BY <1>13 DEF NextFrameRaises
    <2>7. behind' \in [Lanes -> [Lanes -> Nat]]
      BY <2>1, <2>2, RestartType
    <2>8. /\ queues' \in [Lanes -> Queue] /\ order' \in Seq(Lanes)
          /\ wake' \in BOOLEAN /\ idle' \in BOOLEAN /\ enqueued' \in [Lanes -> Nat]
          /\ death' \in {0, 1006, 1011} /\ live' \subseteq Streams /\ ended' \subseteq live'
      <3>1. FailLane(order[i], q, o, u)
        BY <2>1
      <3> HIDE DEF q, o, u
      <3> QED BY <2>2, <2>3, <2>4, <2>5, <3>1, FailLaneType
    <2>9. LoopType' /\ PeerType'
      BY <1>c, <2>6, <2>8 DEF TypeOK, PeerType
    <2>10. WriterType'
      BY <1>c, <2>6, <2>8 DEF TypeOK, WriterType
    <2>11. HistoryType'
      BY <1>c, <2>6, <2>7, <2>8 DEF TypeOK, HistoryType
    <2> QED BY <2>9, <2>10, <2>11 DEF TypeOK
  <1>14. CASE NothingToSend
    <2>1. queues' = Retired(Len(order)) /\ order' = Kept(Len(order)) /\ wake' = FALSE
      BY <1>14 DEF NothingToSend
    <2>2. Len(order) \in Nat
      BY <1>b
    <2>3. queues' \in [Lanes -> Queue]
      BY <2>1, <1>b, EmptyQueueType DEF Retired
    <2>4. order' \in Seq(Lanes)
      BY <2>1, <1>a DEF Kept
    <2>5. /\ idle' \in BOOLEAN /\ stopped' = stopped /\ loop' \in {"ready", "asleep"}
          /\ inhand' = inhand /\ UNCHANGED peerVars /\ UNCHANGED history
      BY <1>14 DEF NothingToSend, TypeOK, WriterType
    <2>6. loop = "ready"
      BY <1>14 DEF NothingToSend
    <2>7. LoopType'
      BY <2>5, <2>6 DEF TypeOK, LoopType
    <2> QED BY <1>c, <2>1, <2>3, <2>4, <2>5, <2>7 DEF TypeOK, WriterType
  <1>15. CASE Wake \/ LoopEnds \/ SendFindsClosed
    <2>1. UNCHANGED <<writerVars, peerVars, history>>
      BY <1>15 DEF Wake, LoopEnds, SendFindsClosed
    <2>2. LoopType'
      BY <1>15 DEF Wake, LoopEnds, SendFindsClosed, TypeOK, LoopType
    <2> QED BY <1>c, <2>1, <2>2 DEF TypeOK
  <1>16. CASE Sent
    <2> DEFINE l == inhand.lane
               q == queues[l]
               r == [queues EXCEPT ![l] = EmptyQueue]
               o == IF l = CONNECTION_LANE THEN order ELSE Drop(l)
               u == UnsentOpen(q)
    <2>1. l \in Lanes /\ q \in Queue
      BY <1>16, <1>b DEF Sent, TypeOK, LoopType
    <2>2. LoopType'
      BY <1>16 DEF Sent, TypeOK, LoopType
    <2>3. wire' = wire /\ opens' = opens
      BY <1>16 DEF Sent
    <2>4. stopped' = stopped /\ nextId' = nextId /\ highRemote' = highRemote
      BY <1>16 DEF Sent
    <2>5. CASE PrepareRaises(q)
      <3>1. FailLane(l, r, o, u) /\ Restart(l)
        BY <1>16, <2>5 DEF Sent
      <3>2. r \in [Lanes -> Queue] /\ o \in Seq(Lanes) /\ u \in BOOLEAN
        BY <1>b, <2>1, EmptyQueueType, DropType DEF UnsentOpen
      <3>3. /\ queues' \in [Lanes -> Queue] /\ order' \in Seq(Lanes)
            /\ wake' \in BOOLEAN /\ idle' \in BOOLEAN /\ enqueued' \in [Lanes -> Nat]
            /\ death' \in {0, 1006, 1011} /\ live' \subseteq Streams /\ ended' \subseteq live'
        <4> HIDE DEF l, r, o, u
        <4> QED BY <2>1, <3>1, <3>2, FailLaneType
      <3>4. behind' \in [Lanes -> [Lanes -> Nat]]
        BY <2>1, <3>1, RestartType
      <3> QED BY <2>2, <2>3, <2>4, <3>3, <3>4 DEF TypeOK, WriterType, PeerType, HistoryType
    <2>6. CASE ~PrepareRaises(q)
      <3>1. /\ queues' = [queues EXCEPT ![l] = Prepare(q)]
            /\ wake' = (wake \/ HasWork(Prepare(q)))
            /\ UNCHANGED <<order, idle, enqueued, death, live, ended, behind>>
        BY <1>16, <2>6 DEF Sent
      <3>2. Prepare(q) \in Queue
        BY <2>1, PrepareType
      <3>3. wake' \in BOOLEAN
        BY <3>1 DEF HasWork, TypeOK, WriterType
      <3>4. queues' \in [Lanes -> Queue]
        BY <1>b, <3>1, <3>2
      <3>5. WriterType'
        BY <2>4, <3>1, <3>3, <3>4 DEF TypeOK, WriterType
      <3>6. PeerType' /\ HistoryType'
        BY <2>3, <2>4, <3>1 DEF TypeOK, PeerType, HistoryType
      <3> QED BY <2>2, <3>5, <3>6 DEF TypeOK
    <2> QED BY <2>5, <2>6
  <1>17. CASE SendRaises
    <2> DEFINE l == inhand.lane
    <2>1. l \in Lanes
      BY <1>17 DEF SendRaises, TypeOK, LoopType
    <2>2. LoopType'
      BY <1>17 DEF SendRaises, TypeOK, LoopType
    <2>3. stopped' = stopped /\ nextId' = nextId /\ highRemote' = highRemote
          /\ wire' = wire /\ opens' = opens
      BY <1>17 DEF SendRaises
    <2>4. CASE l \notin live
      <3>1. DieWith(1011, queues, order) /\ enqueued' = enqueued /\ behind' = behind
        BY <1>17, <2>4 DEF SendRaises
      <3>2. /\ queues' \in [Lanes -> Queue] /\ order' \in Seq(Lanes)
            /\ wake' \in BOOLEAN /\ idle' \in BOOLEAN
            /\ death' \in {0, 1006, 1011} /\ live' \subseteq Streams /\ ended' \subseteq live'
        BY <1>b, <3>1, DieType
      <3> QED BY <2>2, <2>3, <3>1, <3>2 DEF TypeOK, WriterType, PeerType, HistoryType
    <2>5. CASE l \in live
      <3>1. /\ EnqueueOn(queues, order, l, Plain(l, "reset"))
            /\ live' = live \ {l} /\ ended' = ended \ {l} /\ Waits(l) /\ death' = death
        BY <1>17, <2>5 DEF SendRaises, Enqueue
      <3>2. Plain(l, "reset") \in Frame
        BY <1>a, <2>1, FrameType_New
      <3>3. /\ queues' \in [Lanes -> Queue] /\ order' \in Seq(Lanes)
            /\ wake' \in BOOLEAN /\ idle' \in BOOLEAN /\ enqueued' \in [Lanes -> Nat]
        BY <1>b, <2>1, <3>1, <3>2, EnqueueType
      <3>4. behind' \in [Lanes -> [Lanes -> Nat]]
        BY <2>1, <3>1, RestartType
      <3> QED BY <2>2, <2>3, <3>1, <3>3, <3>4 DEF TypeOK, WriterType, PeerType, HistoryType
    <2> QED BY <2>4, <2>5
  <1>18. CASE UNCHANGED vars
    BY <1>18, <1>c DEF vars, TypeOK
  <1> QED
    BY <1>1, <1>2, <1>3, <1>4, <1>5, <1>6, <1>7, <1>8, <1>9, <1>10, <1>12, <1>13,
       <1>14, <1>15, <1>16, <1>17, <1>18 DEF Next, WriteLoop

(* Every variable of the send path keeps its type, for every number of     *)
(* streams, fragments and frames.                                          *)
THEOREM WriterTypeCorrect == Spec => []TypeOK
  BY InitType, NextType, PTL DEF Spec

-----------------------------------------------------------------------------
(* The open is the first thing sent on a stream this peer opens.           *)

(* Nothing of stream s has been handed to the socket.                      *)
Untouched(s) == wire[s] = << >>

(* An id not yet allocated has no work, no stream and no history.          *)
Fresh(s) == s >= nextId => queues[s] = EmptyQueue /\ s \notin live /\ Untouched(s)

(* Until its first fragment leaves, the open is the head of the lane, and  *)
(* a live stream's lane has not lost it.                                   *)
OpenWaits(s) == Untouched(s) =>
    /\ queues[s].prepared = None /\ queues[s].fragments = None
    /\ queues[s].waiting # << >> => Head(queues[s].waiting).type = "open"
    /\ s \in live => queues[s].waiting # << >>

LaneInv(s) == Fresh(s) /\ OpenWaits(s)

(* The fragment the loop is sending counts as handed over.                 *)
HandedOver == inhand # None => wire[inhand.lane] # << >>

OpenInv == TypeOK /\ OpenFirst /\ HandedOver /\ \A s \in Local : LaneInv(s)

(* A step that gives nothing of s to the socket and neither fills its      *)
(* queue nor revives the stream keeps the invariant of its lane.           *)
LEMMA LaneKept ==
  ASSUME TypeOK, TypeOK', NEW s \in Local, LaneInv(s),
         nextId' >= nextId, wire'[s] = wire[s], s \in live' => s \in live,
         Untouched(s) => queues'[s] = queues[s] \/ (queues'[s] = EmptyQueue /\ s \notin live')
  PROVE  LaneInv(s)'
  <1>1. s \in Nat /\ nextId \in Nat /\ nextId' \in Nat
    BY DEF TypeOK, PeerType, Local
  <1>2. EmptyQueue.prepared = None /\ EmptyQueue.fragments = None /\ EmptyQueue.waiting = << >>
    BY DEF EmptyQueue
  <1>3. Fresh(s)'
    BY <1>1 DEF LaneInv, Fresh, Untouched
  <1>4. OpenWaits(s)'
    BY <1>2 DEF LaneInv, OpenWaits, Untouched
  <1> QED BY <1>3, <1>4 DEF LaneInv

LEMMA EnqueueLane ==
  ASSUME NEW q \in [Lanes -> Queue], NEW o, NEW l \in Lanes, NEW f \in Frame, EnqueueOn(q, o, l, f),
         NEW s \in Lanes
  PROVE  queues'[s] = IF s = l THEN Put(q[s], f) ELSE q[s]
  BY DEF EnqueueOn

(* What the death of the peer leaves of a lane.                            *)
LEMMA DieLane ==
  ASSUME NEW q, NEW o, NEW c, DieWith(c, q, o), NEW s \in Lanes
  PROVE  /\ live' \subseteq live
         /\ queues'[s] = q[s] \/ (queues'[s] = EmptyQueue /\ s \notin live')
  BY DEF DieWith

(* What the failure of lane l leaves of lane s.                            *)
LEMMA FailLaneLane ==
  ASSUME NEW q \in [Lanes -> Queue], NEW o \in Seq(Lanes), NEW l \in Lanes, NEW u \in BOOLEAN, FailLane(l, q, o, u),
         NEW s \in Lanes
  PROVE  /\ live' \subseteq live \ {l}
         /\ s # l \/ u => queues'[s] = q[s] \/ (queues'[s] = EmptyQueue /\ s \notin live')
  <1>1. CASE l \notin live
    BY <1>1, DieLane DEF FailLane
  <1>2. CASE l \in live /\ u
    BY <1>2 DEF FailLane
  <1>3. CASE l \in live /\ ~u
    <2>1. EnqueueOn(q, o, l, Plain(l, "reset")) /\ live' = live \ {l}
      BY <1>3 DEF FailLane
    <2> QED BY <1>3, <2>1 DEF EnqueueOn
  <1> QED BY <1>1, <1>2, <1>3

(* A lane whose open still waits has something to slice: the open.         *)
LEMMA OpenIsNext ==
  ASSUME NEW q \in Queue, q.prepared = None, q.fragments = None, q.waiting # << >>
  PROVE  /\ NextSlice(q) = [frame |-> Head(q.waiting), idx |-> 1]
         /\ NextSlice(q) \in Fragment
         /\ Sliceable(q)
  <1> USE WriterAssumption
  <1>1. NextSlice(q) = [frame |-> Head(q.waiting), idx |-> 1]
    BY DEF NextSlice
  <1>2. Head(q.waiting) \in Frame
    BY DEF Queue
  <1>3. [frame |-> Head(q.waiting), idx |-> 1] \in Fragment
    BY <1>2 DEF Fragment, Frame
  <1> QED BY <1>1, <1>3 DEF Sliceable

LEMMA EmptyIsIdle == ~Sliceable(EmptyQueue)
  BY DEF Sliceable, NextSlice, EmptyQueue

(* The lanes a turn of the rotation retires have no open to lose.          *)
LEMMA RetiredLane ==
  ASSUME TypeOK, NEW s \in Local, LaneInv(s), Untouched(s),
         NEW n \in Nat, \A j \in 1 .. n : ~Sliceable(queues[order[j]])
  PROVE  Retired(n)[s] = queues[s] \/ (Retired(n)[s] = EmptyQueue /\ s \notin live)
  <1>1. s \in Lanes /\ queues[s] \in Queue
    BY DEF Local, Lanes, Streams, TypeOK, WriterType
  <1>2. CASE s \notin Asked(n)
    BY <1>1, <1>2 DEF Retired
  <1>3. CASE s \in Asked(n)
    <2>1. Retired(n)[s] = EmptyQueue
      BY <1>1, <1>3 DEF Retired
    <2>2. ~Sliceable(queues[s])
      BY <1>3 DEF Asked
    <2>3. s \notin live
      BY <1>1, <2>2, OpenIsNext DEF LaneInv, OpenWaits
    <2> QED BY <2>1, <2>3
  <1> QED BY <1>2, <1>3

LEMMA OpenInit == Init => OpenInv
  <1> SUFFICES ASSUME Init PROVE OpenInv
    OBVIOUS
  <1>1. TypeOK
    BY InitType
  <1>2. OpenFirst /\ HandedOver
    BY DEF Init, OpenFirst, HandedOver, Local, Streams, Lanes
  <1>3. ASSUME NEW s \in Local PROVE LaneInv(s)
    <2>1. s \in Lanes
      BY DEF Local, Streams, Lanes
    <2>2. queues[s] = EmptyQueue /\ wire[s] = << >> /\ live = {}
      BY <2>1 DEF Init
    <2> QED BY <2>2 DEF LaneInv, Fresh, OpenWaits, Untouched, EmptyQueue
  <1> QED BY <1>1, <1>2, <1>3 DEF OpenInv

(* One step keeps the invariant of every lane of this peer's streams.      *)
LEMMA LaneStep ==
  ASSUME OpenInv, [Next]_vars, NEW s \in Local
  PROVE  LaneInv(s)'
  <1> USE WriterAssumption
  <1>a. TypeOK /\ TypeOK' /\ LaneInv(s)
    BY NextType DEF OpenInv
  <1>b. /\ s \in Nat /\ s \in Streams /\ s \in Lanes /\ s \notin Remote
        /\ nextId \in Nat /\ nextId' \in Nat
        /\ Streams \subseteq Lanes /\ CONNECTION_LANE \in Lanes /\ s # CONNECTION_LANE
    BY <1>a DEF Local, Streams, Lanes, CONNECTION_LANE, TypeOK, PeerType
  <1>c. queues \in [Lanes -> Queue] /\ order \in Seq(Lanes) /\ queues[s] \in Queue
    BY <1>a, <1>b DEF TypeOK, WriterType
  <1>d. s \in live => s < nextId
    BY <1>a, <1>b DEF LaneInv, Fresh
  <1>f. s >= nextId => queues[s] = EmptyQueue
    BY <1>a DEF LaneInv, Fresh
  <1>1. CASE Open
    <2>1. PICK f \in NewFrame(nextId, "open") : EnqueueOn(queues, order, nextId, f)
      BY <1>1 DEF Open, Enqueue
    <2>2. nextId \in Lanes
      BY <1>1, <1>a DEF Open, TypeOK, PeerType, Lanes, Streams, Local
    <2>3. f \in Frame /\ f.type = "open"
      BY <1>a, <2>2, FrameType_New DEF FrameType, NewFrame
    <2>4. /\ nextId' = nextId + 2 /\ live' = live \cup {nextId}
          /\ UNCHANGED wire
      BY <1>1 DEF Open, loopVars
    <2>5. queues'[s] = IF s = nextId THEN Put(queues[s], f) ELSE queues[s]
      BY <1>b, <1>c, <2>1, <2>2, <2>3, EnqueueLane
    <2>6. CASE s = nextId
      <3>1. queues[s] = EmptyQueue /\ Untouched(s)
        BY <1>a, <1>b, <2>6 DEF LaneInv, Fresh
      <3>2. queues'[s].waiting = Append(<< >>, f) /\ queues'[s].prepared = None /\ queues'[s].fragments = None
        BY <1>c, <2>3, <2>5, <2>6, <3>1, PutType DEF EmptyQueue
      <3>3. queues'[s].waiting # << >> /\ Head(queues'[s].waiting) = f
        BY <3>2
      <3>4. OpenWaits(s)'
        BY <2>3, <3>2, <3>3 DEF OpenWaits
      <3>5. Fresh(s)'
        BY <1>b, <2>4, <2>6 DEF Fresh
      <3> QED BY <3>4, <3>5 DEF LaneInv
    <2>7. CASE s # nextId
      BY <1>a, <1>b, <2>4, <2>5, <2>7, LaneKept
    <2> QED BY <2>6, <2>7
  <1>2. CASE Control
    <2>1. EnqueueOn(queues, order, CONNECTION_LANE, Plain(CONNECTION_LANE, "control"))
      BY <1>2 DEF Control, Enqueue
    <2>2. Plain(CONNECTION_LANE, "control") \in Frame
      BY <1>a, <1>b, FrameType_New DEF FrameType
    <2>3. queues'[s] = queues[s]
      BY <1>b, <1>c, <2>1, <2>2, EnqueueLane
    <2>4. UNCHANGED <<wire, live, nextId>>
      BY <1>2 DEF Control, loopVars, peerVars
    <2> QED BY <1>a, <1>b, <2>3, <2>4, LaneKept
  <1>3. CASE Die
    <2>1. DieWith(1006, queues, order) /\ UNCHANGED <<wire, nextId>>
      BY <1>3 DEF Die, loopVars
    <2>2. live' \subseteq live /\ (queues'[s] = queues[s] \/ (queues'[s] = EmptyQueue /\ s \notin live'))
      BY <1>b, <2>1, DieLane
    <2> QED BY <1>a, <1>b, <2>1, <2>2, LaneKept
  <1>4. CASE Stop \/ (\E t \in Streams : Accept(t) \/ RemoteEnd(t) \/ GoawayFails(t)) \/ Wake
    <2>1. UNCHANGED <<queues, wire, nextId>>
      BY <1>4 DEF Stop, Accept, RemoteEnd, GoawayFails, Wake, writerVars, loopVars, peerVars, history
    <2>2. s \in live' => s \in live
      BY <1>4, <1>b DEF Stop, Accept, RemoteEnd, GoawayFails, Wake, writerVars, loopVars, peerVars, history
    <2> QED BY <1>a, <1>b, <2>1, <2>2, LaneKept
  <1>5. CASE LoopEnds \/ SendFindsClosed
    <2>1. UNCHANGED <<queues, wire, nextId, live>>
      BY <1>5 DEF LoopEnds, SendFindsClosed, writerVars, peerVars, history
    <2> QED BY <1>a, <1>b, <2>1, LaneKept
  <1>6. ASSUME NEW t \in Streams, Send(t) PROVE LaneInv(s)'
    <2>1. PICK f \in NewFrame(t, "data") : EnqueueOn(queues, order, t, f)
      BY <1>6 DEF Send, Enqueue
    <2>2. f \in Frame
      BY <1>a, <1>b, FrameType_New DEF FrameType
    <2>3. queues'[s] = IF s = t THEN Put(queues[s], f) ELSE queues[s]
      BY <1>b, <1>c, <2>1, <2>2, EnqueueLane
    <2>4. UNCHANGED <<wire, nextId>> /\ live' \subseteq live /\ t \in live
      BY <1>6 DEF Send, loopVars
    <2>5. CASE s # t
      BY <1>a, <1>b, <2>3, <2>4, <2>5, LaneKept
    <2>6. CASE s = t
      <3>1. /\ queues'[s].waiting = Append(queues[s].waiting, f)
            /\ queues'[s].prepared = queues[s].prepared /\ queues'[s].fragments = queues[s].fragments
        <4>1. queues'[s] = Put(queues[s], f) /\ queues[s] \in Queue
          BY <1>c, <2>3, <2>6
        <4> QED BY <2>2, <4>1, PutType
      <3>2. queues[s].waiting \in Seq(Frame)
        BY <1>c DEF Queue
      <3>3. /\ queues'[s].waiting # << >>
            /\ queues[s].waiting # << >> => Head(queues'[s].waiting) = Head(queues[s].waiting)
        <4> DEFINE w == queues[s].waiting
        <4>1. Append(w, f) # << >> /\ (w # << >> => Head(Append(w, f)) = Head(w))
          <5>1. w \in Seq(Frame)
            BY <3>2
          <5> HIDE DEF w
          <5> QED BY <2>2, <5>1
        <4> QED BY <3>1, <4>1
      <3>4. OpenWaits(s)'
        BY <1>a, <2>4, <2>6, <3>1, <3>3 DEF LaneInv, OpenWaits, Untouched
      <3>5. Fresh(s)'
        BY <1>b, <1>d, <2>4, <2>6 DEF Fresh
      <3> QED BY <3>4, <3>5 DEF LaneInv
    <2> QED BY <2>5, <2>6
  <1>7. ASSUME NEW t \in Streams, Reset(t) PROVE LaneInv(s)'
    <2> DEFINE q == DiscardedQueues(t)
               f == Plain(t, "reset")
    <2>1. EnqueueOn(q, DiscardedOrder(t), t, f)
      BY <1>7 DEF Reset
    <2>2. f \in Frame
      BY <1>a, <1>b, FrameType_New DEF FrameType
    <2>3. q \in [Lanes -> Queue]
      BY <1>a, <1>b, DiscardedType
    <2>4. queues'[s] = IF s = t THEN Put(q[s], f) ELSE q[s]
      <3> HIDE DEF f, q
      <3> QED BY <1>b, <2>1, <2>2, <2>3, EnqueueLane
    <2>5. UNCHANGED <<wire, nextId>> /\ live' = live \ {t} /\ t \in live
      BY <1>7 DEF Reset, loopVars
    <2>6. q[s] = IF s = t THEN DiscardExceptUnsentOpen(queues[s]) ELSE queues[s]
      BY <1>b, <1>c DEF DiscardedQueues
    <2>7. CASE s # t
      <3>1. queues'[s] = queues[s]
        BY <2>4, <2>6, <2>7
      <3> QED BY <1>a, <1>b, <2>5, <3>1, LaneKept
    <2>8. CASE s = t
      <3>1. ASSUME Untouched(s)'
            PROVE  /\ queues'[s].prepared = None /\ queues'[s].fragments = None
                   /\ Head(queues'[s].waiting).type = "open" /\ queues'[s].waiting # << >>
        <4>1. KeepsOpen(queues[s])
          BY <1>a, <2>5, <2>8, <3>1 DEF LaneInv, OpenWaits, Untouched, KeepsOpen
        <4>2. q[s] = [EmptyQueue EXCEPT !.waiting = <<Head(queues[s].waiting)>>]
          BY <2>6, <2>8, <4>1 DEF DiscardExceptUnsentOpen
        <4>3. q[s] \in Queue
          BY <1>b, <2>3
        <4>4. /\ q[s].waiting = <<Head(queues[s].waiting)>>
              /\ q[s].prepared = None /\ q[s].fragments = None
          BY <4>2 DEF EmptyQueue
        <4>5. /\ queues'[s].waiting = Append(q[s].waiting, f)
              /\ queues'[s].prepared = None /\ queues'[s].fragments = None
          <5>1. queues'[s] = Put(q[s], f)
            BY <2>4, <2>8
          <5> HIDE DEF q, f
          <5> QED BY <2>2, <4>3, <4>4, <5>1 DEF Put, Queue
        <4>6. Head(queues'[s].waiting) = Head(queues[s].waiting) /\ queues'[s].waiting # << >>
          BY <4>4, <4>5
        <4> QED BY <4>1, <4>5, <4>6 DEF KeepsOpen
      <3>2. OpenWaits(s)'
        BY <3>1 DEF OpenWaits
      <3>3. Fresh(s)'
        BY <1>b, <1>d, <2>5, <2>8 DEF Fresh
      <3> QED BY <3>2, <3>3 DEF LaneInv
    <2> QED BY <2>7, <2>8
  <1>8. ASSUME NEW t \in Streams, HandlerError(t) PROVE LaneInv(s)'
    <2>1. PICK f \in NewFrame(t, "reset") : EnqueueOn(queues, order, t, f)
      BY <1>8 DEF HandlerError, Enqueue
    <2>2. f \in Frame
      BY <1>a, <1>b, FrameType_New DEF FrameType
    <2>3. UNCHANGED <<wire, nextId>> /\ live' \subseteq live /\ s # t
      BY <1>8, <1>b DEF HandlerError, loopVars
    <2>4. queues'[s] = queues[s]
      BY <1>b, <1>c, <2>1, <2>2, <2>3, EnqueueLane
    <2> QED BY <1>a, <1>b, <2>3, <2>4, LaneKept
  <1>9. ASSUME NEW t \in Streams, RemoteReset(t) PROVE LaneInv(s)'
    <2>1. /\ UNCHANGED <<wire, nextId>> /\ live' \subseteq live /\ t \in live
          /\ t \in Local => wire[t] # << >>
          /\ queues' = DiscardedQueues(t)
      BY <1>9 DEF RemoteReset, loopVars
    <2>2. s # t => queues'[s] = queues[s]
      BY <1>b, <1>c, <2>1 DEF DiscardedQueues
    <2>3. s = t => ~Untouched(s) /\ s < nextId
      BY <1>d, <2>1 DEF Untouched
    <2> QED BY <1>a, <1>b, <2>1, <2>2, <2>3, LaneKept
  <1>10. CASE NextFrame
    <2>1. PICK i \in DOMAIN order :
             /\ FirstSliceable(i)
             /\ queues' = [Retired(i - 1) EXCEPT ![order[i]] = Take(Prepare(queues[order[i]]))]
             /\ wire' = [wire EXCEPT ![order[i]] = Append(@, Prepare(queues[order[i]]).prepared)]
      BY <1>10 DEF NextFrame
    <2>2. order[i] \in Lanes /\ i - 1 \in Nat /\ i - 1 <= Len(order) /\ Sliceable(queues[order[i]])
      BY <1>c, <2>1 DEF FirstSliceable
    <2>3. UNCHANGED <<nextId, live>> /\ wire \in [Lanes -> Seq(Fragment)]
      BY <1>10, <1>a DEF NextFrame, peerVars, TypeOK, HistoryType
    <2>4. CASE s # order[i]
      <3>1. queues'[s] = Retired(i - 1)[s] /\ wire'[s] = wire[s]
        BY <1>a, <1>b, <2>1, <2>2, <2>3, <2>4, RotationType
      <3>2. \A j \in 1 .. i - 1 : ~Sliceable(queues[order[j]])
        BY <2>1 DEF FirstSliceable
      <3>3. Untouched(s) => queues'[s] = queues[s] \/ (queues'[s] = EmptyQueue /\ s \notin live')
        BY <1>a, <2>2, <2>3, <3>1, <3>2, RetiredLane
      <3> QED BY <1>a, <1>b, <2>3, <3>1, <3>3, LaneKept
    <2>5. CASE s = order[i]
      <3>1. wire'[s] = Append(wire[s], Prepare(queues[s]).prepared)
        BY <1>b, <2>1, <2>3, <2>5
      <3>2. Prepare(queues[s]).prepared \in Fragment
        BY <1>c, <2>2, <2>5, SliceType
      <3>3. wire'[s] # << >>
        BY <1>b, <2>3, <3>1, <3>2
      <3>4. s < nextId
        BY <1>b, <1>f, <2>2, <2>5, EmptyIsIdle
      <3> QED BY <1>b, <2>3, <3>3, <3>4 DEF LaneInv, Fresh, OpenWaits, Untouched
    <2> QED BY <2>4, <2>5
  <1>11. CASE NextFrameRaises
    <2>1. PICK i \in DOMAIN order :
             /\ FirstSliceable(i)
             /\ FailLane(order[i], [Retired(i - 1) EXCEPT ![order[i]] = EmptyQueue],
                         Rotated(i) \o (IF order[i] = CONNECTION_LANE THEN <<order[i]>> ELSE << >>),
                         UnsentOpen(queues[order[i]]))
      BY <1>11 DEF NextFrameRaises
    <2> DEFINE l == order[i]
               q == [Retired(i - 1) EXCEPT ![l] = EmptyQueue]
               o == Rotated(i) \o (IF l = CONNECTION_LANE THEN <<l>> ELSE << >>)
               u == UnsentOpen(queues[l])
    <2>2. l \in Lanes /\ i - 1 \in Nat /\ i - 1 <= Len(order) /\ Sliceable(queues[l])
      BY <1>c, <2>1 DEF FirstSliceable
    <2>3. UNCHANGED <<wire, nextId>>
      BY <1>11 DEF NextFrameRaises, loopVars
    <2>4. Retired(i - 1) \in [Lanes -> Queue]
      BY <1>a, <2>2, RotationType
    <2>5. q \in [Lanes -> Queue] /\ u \in BOOLEAN /\ o \in Seq(Lanes)
      <3>1. (IF l = CONNECTION_LANE THEN <<l>> ELSE << >>) \in Seq(Lanes)
        BY <2>2
      <3>2. Rotated(i) \in Seq(Lanes)
        BY <1>a, <2>2, RotationType
      <3>3. o \in Seq(Lanes)
        BY <3>1, <3>2, ConcatProperties
      <3> QED BY <2>2, <2>4, <3>3, EmptyQueueType DEF UnsentOpen
    <2>6. /\ live' \subseteq live \ {l}
          /\ s # l \/ u => queues'[s] = q[s] \/ (queues'[s] = EmptyQueue /\ s \notin live')
      <3>1. FailLane(l, q, o, u)
        BY <2>1
      <3> HIDE DEF l, q, o, u
      <3> QED BY <1>b, <2>2, <2>5, <3>1, FailLaneLane
    <2>7. CASE s # l
      <3>1. q[s] = Retired(i - 1)[s]
        BY <1>b, <2>2, <2>4, <2>7
      <3>2. \A j \in 1 .. i - 1 : ~Sliceable(queues[order[j]])
        BY <2>1 DEF FirstSliceable
      <3>3. Untouched(s) =>
               queues'[s] = queues[s] \/ (queues'[s] = EmptyQueue /\ s \notin live')
        BY <1>a, <2>2, <2>6, <2>7, <3>1, <3>2, RetiredLane
      <3> HIDE DEF l, q, o, u
      <3> QED BY <1>a, <1>b, <2>3, <2>6, <3>3, LaneKept
    <2>8. CASE s = l
      <3>1. s < nextId
        BY <1>b, <1>f, <2>2, <2>8, EmptyIsIdle
      <3>2. s \notin live' /\ q[s] = EmptyQueue
        BY <1>b, <2>4, <2>6, <2>8
      <3>3. ASSUME Untouched(s) PROVE queues'[s] = EmptyQueue
        <4>1. /\ queues[s].prepared = None /\ queues[s].fragments = None
              /\ queues[s].waiting # << >> => Head(queues[s].waiting).type = "open"
          BY <1>a, <3>3 DEF LaneInv, OpenWaits
        <4>2. queues[s].waiting # << >>
          BY <2>2, <2>8, <4>1 DEF Sliceable, NextSlice
        <4>3. NextSlice(queues[s]) = [frame |-> Head(queues[s].waiting), idx |-> 1]
          BY <1>c, <4>1, <4>2, OpenIsNext
        <4>4. u
          BY <2>8, <4>1, <4>2, <4>3 DEF UnsentOpen
        <4> QED BY <2>6, <3>2, <4>4
      <3> HIDE DEF l, q, o, u
      <3> QED BY <1>a, <1>b, <2>3, <2>6, <3>1, <3>2, <3>3, LaneKept
    <2> QED BY <2>7, <2>8
  <1>12. CASE NothingToSend
    <2>1. /\ queues' = Retired(Len(order)) 
          /\ UNCHANGED <<wire, nextId, live>>
          /\ \A l \in InOrder : ~Sliceable(queues[l])
      BY <1>12 DEF NothingToSend, peerVars, history
    <2>2. Len(order) \in Nat /\ \A j \in 1 .. Len(order) : ~Sliceable(queues[order[j]])
      BY <1>c, <2>1 DEF InOrder
    <2>3. Untouched(s) =>
             queues'[s] = queues[s] \/ (queues'[s] = EmptyQueue /\ s \notin live')
      BY <1>a, <2>1, <2>2, RetiredLane
    <2> QED BY <1>a, <1>b, <2>1, <2>3, LaneKept
  <1>13. CASE Sent
    <2> DEFINE l == inhand.lane
               q == [queues EXCEPT ![l] = EmptyQueue]
               o == IF l = CONNECTION_LANE THEN order ELSE Drop(l)
               u == UnsentOpen(queues[l])
    <2>1. inhand # None /\ UNCHANGED <<wire, nextId>>
      BY <1>13, <1>a DEF Sent, TypeOK, LoopType
    <2>2. l \in Lanes /\ (s = l => ~Untouched(s))
      BY <1>a, <2>1 DEF TypeOK, LoopType, OpenInv, HandedOver, Untouched
    <2>3. /\ live' \subseteq live
          /\ s # l => queues'[s] = queues[s] \/ (queues'[s] = EmptyQueue /\ s \notin live')
      <3>1. CASE PrepareRaises(queues[l])
        <4>1. FailLane(l, q, o, u)
          BY <1>13, <3>1 DEF Sent
        <4>2. q \in [Lanes -> Queue] /\ u \in BOOLEAN /\ o \in Seq(Lanes) /\ (s # l => q[s] = queues[s])
          BY <1>a, <1>b, <1>c, <2>2, EmptyQueueType, DropType DEF UnsentOpen
        <4>3. /\ live' \subseteq live \ {l}
              /\ s # l \/ u => queues'[s] = q[s] \/ (queues'[s] = EmptyQueue /\ s \notin live')
          <5>1. /\ l \in Lanes /\ s \in Lanes
                /\ q \in [Lanes -> Queue] /\ o \in Seq(Lanes) /\ u \in BOOLEAN
            BY <1>b, <2>2, <4>2
          <5> HIDE DEF l, q, o, u
          <5> QED BY <4>1, <5>1, FailLaneLane
        <4> QED BY <4>2, <4>3
      <3>2. CASE ~PrepareRaises(queues[l])
        BY <1>13, <1>b, <1>c, <3>2 DEF Sent
      <3> QED BY <3>1, <3>2
    <2> QED
      <3> HIDE DEF l
      <3> QED BY <1>a, <1>b, <2>1, <2>2, <2>3, LaneKept
  <1>14. CASE SendRaises
    <2> DEFINE l == inhand.lane
    <2>1. inhand # None /\ UNCHANGED <<wire, nextId>>
      BY <1>14, <1>a DEF SendRaises, TypeOK, LoopType
    <2>2. l \in Lanes /\ (s = l => ~Untouched(s))
      BY <1>a, <2>1 DEF TypeOK, LoopType, OpenInv, HandedOver, Untouched
    <2>3. /\ live' \subseteq live
          /\ s # l => queues'[s] = queues[s] \/ (queues'[s] = EmptyQueue /\ s \notin live')
      <3>1. CASE l \notin live
        BY <1>14, <1>b, <3>1, DieLane DEF SendRaises
      <3>2. CASE l \in live
        BY <1>14, <1>b, <1>c, <2>2, <3>2 DEF SendRaises, Enqueue, EnqueueOn
      <3> QED BY <3>1, <3>2
    <2> QED
      <3> HIDE DEF l
      <3> QED BY <1>a, <1>b, <2>1, <2>2, <2>3, LaneKept
  <1>15. CASE UNCHANGED vars
    BY <1>15, <1>a, <1>b, LaneKept DEF vars, writerVars, loopVars, peerVars, history
  <1> QED
    BY <1>1, <1>2, <1>3, <1>4, <1>5, <1>6, <1>7, <1>8, <1>9, <1>10, <1>11, <1>12, <1>13, <1>14, <1>15
       DEF Next, WriteLoop

LEMMA OpenStep == OpenInv /\ [Next]_vars => OpenInv'
  <1> SUFFICES ASSUME OpenInv, [Next]_vars PROVE OpenInv'
    OBVIOUS
  <1>1. TypeOK /\ TypeOK'
    BY NextType DEF OpenInv
  <1>2. \A s \in Local : LaneInv(s)'
    BY LaneStep
  <1>3. OpenFirst' /\ HandedOver'
    <2>1. CASE NextFrame
      <3>1. PICK i \in DOMAIN order :
               /\ FirstSliceable(i)
               /\ wire' = [wire EXCEPT ![order[i]] = Append(@, Prepare(queues[order[i]]).prepared)]
               /\ inhand' = [lane |-> order[i], fragment |-> Prepare(queues[order[i]]).prepared]
        BY <2>1 DEF NextFrame
      <3> DEFINE l == order[i]
                 f == Prepare(queues[l]).prepared
      <3>2. l \in Lanes /\ queues[l] \in Queue /\ Sliceable(queues[l]) /\ wire \in [Lanes -> Seq(Fragment)]
        BY <1>1, <3>1 DEF TypeOK, WriterType, HistoryType, FirstSliceable
      <3>3. f \in Fragment
        BY <3>2, SliceType
      <3>4. wire'[l] = Append(wire[l], f) /\ wire'[l] # << >>
        BY <3>1, <3>2, <3>3
      <3>5. HandedOver'
        BY <3>1, <3>4 DEF HandedOver
      <3>6. ASSUME NEW s \in Local, wire'[s] # << >>
            PROVE  wire'[s][1].frame.type = "open" /\ wire'[s][1].idx = 1
        <4>1. s \in Lanes /\ wire[s] \in Seq(Fragment)
          BY <3>2 DEF Local, Streams, Lanes
        <4>2. CASE s # l
          BY <3>1, <3>2, <3>6, <4>1, <4>2 DEF OpenInv, OpenFirst
        <4>3. CASE s = l /\ wire[s] # << >>
          <5>1. wire'[s][1] = wire[s][1]
            BY <3>3, <3>4, <4>1, <4>3
          <5> QED BY <4>3, <5>1 DEF OpenInv, OpenFirst
        <4>4. CASE s = l /\ wire[s] = << >>
          <5>1. wire'[s][1] = f
            BY <3>3, <3>4, <4>1, <4>4
          <5>2. /\ queues[s].prepared = None /\ queues[s].fragments = None
                /\ queues[s].waiting # << >> => Head(queues[s].waiting).type = "open"
            BY <4>4 DEF OpenInv, LaneInv, OpenWaits, Untouched
          <5>3. queues[s].waiting # << >>
            BY <3>2, <4>4, <5>2 DEF Sliceable, NextSlice
          <5>4. f = NextSlice(queues[s])
            BY <4>4, <5>2 DEF Prepare
          <5>5. NextSlice(queues[s]) = [frame |-> Head(queues[s].waiting), idx |-> 1]
            BY <3>2, <4>4, <5>2, <5>3, OpenIsNext
          <5> QED BY <5>1, <5>2, <5>3, <5>4, <5>5
        <4> QED BY <4>2, <4>3, <4>4
      <3> QED BY <3>5, <3>6 DEF OpenFirst
    <2>2. CASE ~NextFrame
      <3>1. UNCHANGED wire /\ inhand' \in {None, inhand}
        BY <2>2 DEF Next, WriteLoop, Open, Control, Die, Stop, Accept, Send, RemoteEnd, Reset, HandlerError,
           RemoteReset, GoawayFails, NextFrameRaises, NothingToSend, Wake, LoopEnds, Sent,
           SendFindsClosed, SendRaises, vars, loopVars, history
      <3> QED BY <3>1 DEF OpenInv, OpenFirst, HandedOver
    <2> QED BY <2>1, <2>2
  <1> QED BY <1>1, <1>2, <1>3 DEF OpenInv

(* Nothing of a stream this peer opens, a `reset` least of all, reaches    *)
(* the socket ahead of the first fragment of its `open`, for every number  *)
(* of streams and whatever the application, the codec and the socket do.   *)
THEOREM OpenIsFirst == Spec => []OpenFirst
  <1>1. OpenInv => OpenFirst
    BY DEF OpenInv
  <1> QED BY OpenInit, OpenStep, <1>1, PTL DEF Spec

-----------------------------------------------------------------------------
(* The order of the writer.                                                *)

(* Whether frames of the lane may still be enqueued.                       *)
Active(l) == l \in live \/ (l = CONNECTION_LANE /\ isOpen)

Unused(l) == queues[l] = EmptyQueue /\ Untouched(l)

(* A stream that may be opened now.                                        *)
Begins(l) == isOpen /\ l \in Streams /\ Unused(l)

(* Ids the remote has not used yet have no stream, and a dead peer has no  *)
(* work at all.                                                            *)
RemoteFresh == \A s \in Remote : s > highRemote => Unused(s) /\ s \notin live
DeadIsEmpty == ~isOpen => live = {} /\ \A l \in Lanes : queues[l] = EmptyQueue

BaseInv == OpenInv /\ RemoteFresh /\ DeadIsEmpty

-----------------------------------------------------------------------------
(* What a step may do to a lane.                                           *)

Idles(l) == wire'[l] = wire[l] /\ enqueued'[l] = enqueued[l]
Anew(l) == behind'[l] = [m \in Lanes |-> 0]
Counts(l) ==
    /\ wire'[l] = wire[l] /\ enqueued'[l] = enqueued[l] + 1
    /\ wake' /\ ~idle' /\ (~Sliceable(queues[l]) => Anew(l))

Stays(l) == queues'[l] = queues[l] /\ Idles(l)

Empties(l) ==
    /\ queues'[l] = EmptyQueue /\ Idles(l)
    /\ ~Sliceable(queues[l]) \/ ~Active(l)'

Discards(l) ==
    /\ queues'[l] = DiscardExceptUnsentOpen(queues[l]) /\ Idles(l)
    /\ l \in live /\ ~Active(l)'

Gains(l, f) ==
    /\ queues'[l] = Put(queues[l], f) /\ Counts(l)
    /\ f.seq = enqueued[l] + 1
    /\ f.type = "reset" => ~Active(l)'
    /\ IF f.type = "open" THEN l \in Local /\ l = nextId /\ Begins(l) ELSE Active(l)

Replaces(l) ==
    /\ queues'[l] = Put(DiscardExceptUnsentOpen(queues[l]), Plain(l, "reset")) /\ Counts(l) /\ Anew(l)
    /\ l \in live /\ ~Active(l)'

Fails(l) ==
    /\ queues'[l] = Put(EmptyQueue, Plain(l, "reset")) /\ Counts(l) /\ Anew(l)
    /\ l \in live /\ ~Active(l)'
    /\ NextSlice(queues[l]) # None /\ queues[l].prepared = None /\ ~UnsentOpen(queues[l])

Emits(l) ==
    /\ queues'[l] = Take(Prepare(queues[l])) /\ Sliceable(queues[l]) /\ Anew(l)
    /\ wire'[l] = Append(wire[l], Prepare(queues[l]).prepared) /\ enqueued'[l] = enqueued[l]

Slices(l) == queues'[l] = Prepare(queues[l]) /\ Idles(l) /\ ~Untouched(l) /\ inhand' = None

LaneMove(l) ==
    /\ Active(l)' => Active(l) \/ Begins(l)
    /\ \/ Stays(l) \/ Empties(l) \/ Discards(l) \/ Replaces(l) \/ Fails(l) \/ Emits(l) \/ Slices(l)
       \/ \E f \in Frame : Gains(l, f)

LEMMA LaneFacts ==
  ASSUME TypeOK
  PROVE  /\ CONNECTION_LANE \in Lanes /\ CONNECTION_LANE \notin Streams /\ CONNECTION_LANE \notin live
         /\ Local \subseteq Streams /\ Remote \subseteq Streams /\ Streams \subseteq Lanes /\ live \subseteq Streams
         /\ Local \cap Remote = {}
         /\ queues \in [Lanes -> Queue] /\ order \in Seq(Lanes) /\ wire \in [Lanes -> Seq(Fragment)]
         /\ enqueued \in [Lanes -> Nat] /\ behind \in [Lanes -> [Lanes -> Nat]] /\ opens \in Seq(Lanes)
         /\ nextId \in Nat /\ Lanes \subseteq Nat
<1>1. CONNECTION_LANE \in Lanes /\ CONNECTION_LANE \notin Streams
  BY WriterAssumption DEF Lanes, Streams, Local, CONNECTION_LANE
<1>2. /\ Local \subseteq Streams /\ Remote \subseteq Streams /\ Streams \subseteq Lanes /\ live \subseteq Streams
  BY DEF Lanes, Streams, TypeOK, PeerType
<1>3. Local \cap Remote = {} BY WriterAssumption DEF Local
<1>4. /\ queues \in [Lanes -> Queue] /\ order \in Seq(Lanes) /\ wire \in [Lanes -> Seq(Fragment)]
      /\ enqueued \in [Lanes -> Nat] /\ behind \in [Lanes -> [Lanes -> Nat]] /\ opens \in Seq(Lanes)
      /\ nextId \in Nat
  BY DEF TypeOK, WriterType, HistoryType, PeerType
<1>5. Lanes \subseteq Nat BY WriterAssumption DEF Lanes, Streams, Local, CONNECTION_LANE
<1> QED BY <1>1, <1>2, <1>3, <1>4, <1>5

LEMMA PlaceFacts ==
  ASSUME TypeOK
  PROVE  /\ Len(order) \in Nat /\ DOMAIN order = 1 .. Len(order)
         /\ \A i \in DOMAIN order : /\ i \in Nat /\ 1 <= i /\ i <= Len(order)
                                  /\ i - 1 \in Nat /\ i - 1 <= Len(order) /\ order[i] \in Lanes
<1>1. order \in Seq(Lanes) BY DEF TypeOK, WriterType
<1>2. Len(order) \in Nat /\ DOMAIN order = 1 .. Len(order) BY <1>1, LenProperties
<1>3. ASSUME NEW i \in DOMAIN order PROVE i \in Nat /\ 1 <= i /\ i <= Len(order)
  BY <1>2, <1>3
<1>4. ASSUME NEW i \in DOMAIN order PROVE i - 1 \in Nat /\ i - 1 <= Len(order)
  BY <1>2, <1>3
<1>5. ASSUME NEW i \in DOMAIN order PROVE order[i] \in Lanes BY <1>1
<1> QED BY <1>2, <1>3, <1>4, <1>5

(* The failure of lane k, whose queue q has emptied already.               *)
LEMMA FailLaneMove ==
  ASSUME TypeOK, NEW q \in [Lanes -> Queue], NEW o, NEW u \in BOOLEAN, NEW k \in Lanes, FailLane(k, q, o, u),
         q[k] = EmptyQueue, PrepareRaises(queues[k]), u = UnsentOpen(queues[k]), wire' = wire, Restart(k),
         NEW l \in Lanes, l # k => q[l] = queues[l] \/ (q[l] = EmptyQueue /\ ~Sliceable(queues[l]))
  PROVE  LaneMove(l)
<1>1. CASE k \notin live /\ isOpen
  <2>1. queues' = [m \in Lanes |-> EmptyQueue] /\ live' = {} /\ death' = 1011 /\ enqueued' = enqueued
    <3>1. DieWith(1011, q, o) /\ enqueued' = enqueued BY <1>1 DEF FailLane
    <3>2. isOpen BY <1>1
    <3> QED BY <3>1, <3>2, Zenon DEF DieWith
  <2>2. ~Active(l)' BY <2>1 DEF Active, isOpen
  <2> QED BY <2>1, <2>2, LaneFacts DEF LaneMove, Empties, Idles
<1> USE LaneFacts
<1>2. CASE k \notin live /\ ~isOpen
  <2>1. queues' = q /\ live' = live /\ death' = death /\ enqueued' = enqueued
    BY <1>2 DEF FailLane, DieWith
  <2>2. ~Active(k)' /\ (Active(l)' => Active(l)) BY <1>2, <2>1 DEF Active, isOpen
  <2> QED BY <2>1, <2>2 DEF LaneMove, Empties, Idles, Stays
<1>3. CASE k \in live
  <2>1. live' = live \ {k} /\ death' = death BY <1>3 DEF FailLane
  <2>2. ~Active(k)' /\ (Active(l)' => Active(l)) BY <1>3, <2>1 DEF Active, isOpen
  <2>3. CASE u
    <3>1. queues' = q /\ enqueued' = enqueued BY <1>3, <2>3 DEF FailLane
    <3> QED BY <2>2, <3>1 DEF LaneMove, Empties, Idles, Stays
  <2>4. CASE ~u
    <3>1. /\ queues' = [q EXCEPT ![k] = Put(@, Plain(k, "reset"))]
          /\ enqueued' = [enqueued EXCEPT ![k] = @ + 1]
          /\ wake' /\ ~idle'
      BY <1>3, <2>4 DEF FailLane, EnqueueOn
    <3>2. CASE l = k
      <4>1. queues'[l] = Put(EmptyQueue, Plain(l, "reset")) /\ enqueued'[l] = enqueued[l] + 1 BY <3>1, <3>2
      <4>2. NextSlice(queues[l]) # None /\ queues[l].prepared = None BY <3>2 DEF PrepareRaises
      <4>3. Anew(l) BY <3>2 DEF Restart, Anew
      <4> QED BY <1>3, <2>2, <2>4, <3>1, <3>2, <4>1, <4>2, <4>3 DEF LaneMove, Fails, Counts
    <3>3. CASE l # k
      <4>1. queues'[l] = q[l] /\ enqueued'[l] = enqueued[l] BY <3>1, <3>3
      <4> QED BY <2>2, <3>3, <4>1 DEF LaneMove, Empties, Idles, Stays
    <3> QED BY <3>2, <3>3
  <2> QED BY <2>3, <2>4
<1> QED BY <1>1, <1>2, <1>3

(* A frame enqueued on lane k.                                             *)
LEMMA EnqueueMove ==
  ASSUME TypeOK, NEW k \in Lanes, NEW f \in Frame, EnqueueOn(queues, order, k, f), f.seq = enqueued[k] + 1,
         f.type = "reset" => ~Active(k)', wire' = wire, Restart(k) \/ Waits(k),
         IF f.type = "open" THEN k \in Local /\ k = nextId /\ Begins(k) ELSE Active(k),
         NEW l \in Lanes, Active(l)' => Active(l) \/ Begins(l)
  PROVE  LaneMove(l)
<1> USE LaneFacts
<1>1. /\ queues' = [queues EXCEPT ![k] = Put(@, f)] /\ enqueued' = [enqueued EXCEPT ![k] = @ + 1]
      /\ wake' /\ ~idle'
  BY DEF EnqueueOn
<1>2. CASE l = k
  <2>1. queues'[l] = Put(queues[l], f) /\ enqueued'[l] = enqueued[l] + 1 BY <1>1, <1>2
  <2>2. ~Sliceable(queues[l]) => Anew(l) BY <1>2 DEF Restart, Waits, Anew
  <2> QED BY <1>1, <1>2, <2>1, <2>2 DEF LaneMove, Gains, Counts
<1>3. CASE l # k
  <2>1. queues'[l] = queues[l] /\ enqueued'[l] = enqueued[l] BY <1>1, <1>3
  <2> QED BY <2>1 DEF LaneMove, Stays, Idles
<1> QED BY <1>2, <1>3

LEMMA RetiredMove ==
  ASSUME TypeOK, NEW n \in Nat, \A j \in 1 .. n : ~Sliceable(queues[order[j]]), NEW l \in Lanes
  PROVE  Retired(n)[l] = queues[l] \/ (Retired(n)[l] = EmptyQueue /\ ~Sliceable(queues[l]))
BY DEF Retired, Asked

LEMMA LaneMoves ==
  ASSUME BaseInv, [Next]_vars, NEW l \in Lanes
  PROVE  LaneMove(l)
<1> USE LaneFacts
<1>1. TypeOK BY DEF BaseInv, OpenInv
<1>2. CASE Open
  <2>1. PICK f \in NewFrame(nextId, "open") : EnqueueOn(queues, order, nextId, f)
    BY <1>2 DEF Open, Enqueue
  <2>2. /\ wire' = wire /\ live' = live \cup {nextId} /\ death' = death /\ isOpen /\ nextId <= MaxStreamId
        /\ Restart(nextId)
    BY <1>2 DEF Open
  <2>3. nextId \in Local
    <3>1. nextId \in Nat \ {0} /\ nextId % 2 = FirstId % 2 BY <1>1 DEF TypeOK, PeerType
    <3>2. nextId \in 1 .. MaxStreamId BY <2>2, <3>1, WriterAssumption
    <3> QED BY <3>1, <3>2 DEF Local
  <2>4. f \in Frame
    <3>1. nextId \in Lanes /\ "open" \in FrameType BY <1>1, <2>3 DEF FrameType
    <3>2. NewFrame(nextId, "open") \subseteq Frame BY <1>1, <3>1, FrameType_New
    <3> QED BY <2>1, <3>2
  <2>5. f.seq = enqueued[nextId] + 1 /\ f.type = "open" BY <2>1 DEF NewFrame
  <2>6. Begins(nextId)
    <3>1. LaneInv(nextId) BY <2>3 DEF BaseInv, OpenInv
    <3>2. nextId >= nextId /\ nextId \in Streams BY <1>1, <2>3 DEF TypeOK, PeerType
    <3>3. queues[nextId] = EmptyQueue /\ Untouched(nextId) BY <3>1, <3>2, Zenon DEF LaneInv, Fresh
    <3> QED BY <2>2, <3>2, <3>3, Zenon DEF Unused, Begins
  <2>7. Active(l)' => Active(l) \/ Begins(l) BY <2>2, <2>6 DEF Active, isOpen
  <2> QED BY <1>1, <2>1, <2>2, <2>3, <2>4, <2>5, <2>6, <2>7, EnqueueMove
<1>3. CASE Control
  <2> DEFINE f == Plain(CONNECTION_LANE, "control")
  <2>1. /\ EnqueueOn(queues, order, CONNECTION_LANE, f) /\ wire' = wire /\ live' = live /\ death' = death /\ isOpen
        /\ Waits(CONNECTION_LANE)
    BY <1>3 DEF Control, Enqueue, peerVars
  <2>2. f \in Frame BY <1>1, FrameType_New DEF FrameType
  <2>3. f.seq = enqueued[CONNECTION_LANE] + 1 /\ f.type = "control" BY DEF Plain
  <2>4. Active(CONNECTION_LANE) /\ (Active(l)' => Active(l)) BY <2>1 DEF Active, isOpen
  <2> HIDE DEF f
  <2> QED BY <1>1, <2>1, <2>2, <2>3, <2>4, EnqueueMove
<1>4. CASE Die
  <2>1. /\ queues' = [m \in Lanes |-> EmptyQueue] /\ live' = {} /\ death' = 1006
        /\ wire' = wire /\ enqueued' = enqueued
    BY <1>4 DEF Die, DieWith
  <2>2. ~Active(l)' BY <2>1 DEF Active, isOpen
  <2> QED BY <2>1, <2>2 DEF LaneMove, Empties, Idles
<1>5. CASE Stop \/ Wake \/ LoopEnds \/ SendFindsClosed \/ UNCHANGED vars
  <2>1. queues' = queues /\ live' = live /\ death' = death /\ wire' = wire /\ enqueued' = enqueued
    BY <1>5 DEF Stop, Wake, LoopEnds, SendFindsClosed, vars, writerVars, peerVars, history
  <2> QED BY <2>1 DEF LaneMove, Stays, Idles, Active, isOpen
<1>6. ASSUME NEW s \in Streams, Accept(s) PROVE LaneMove(l)
  <2>1. /\ queues' = queues /\ live' = live \cup {s} /\ death' = death /\ wire' = wire /\ enqueued' = enqueued
        /\ s \in Remote /\ s > highRemote
    BY <1>6 DEF Accept, writerVars, history
  <2>2. Begins(s) BY <1>1, <1>6, <2>1 DEF Accept, Begins, BaseInv, RemoteFresh
  <2> QED BY <2>1, <2>2 DEF LaneMove, Stays, Idles, Active, isOpen
<1>7. ASSUME NEW s \in Streams, Send(s) PROVE LaneMove(l)
  <2>1. PICK f \in NewFrame(s, "data") : EnqueueOn(queues, order, s, f) BY <1>7 DEF Send, Enqueue
  <2>2. wire' = wire /\ live' \subseteq live /\ death' = death /\ s \in live /\ Waits(s) BY <1>7 DEF Send
  <2>3. f \in Frame BY <1>1, <2>1, FrameType_New DEF FrameType
  <2>4. f.seq = enqueued[s] + 1 /\ f.type = "data" BY <2>1 DEF NewFrame
  <2>5. Active(s) /\ (Active(l)' => Active(l)) BY <2>2 DEF Active, isOpen
  <2> QED BY <1>1, <2>1, <2>2, <2>3, <2>4, <2>5, EnqueueMove
<1>8. ASSUME NEW s \in Streams, HandlerError(s) PROVE LaneMove(l)
  <2>1. PICK f \in NewFrame(s, "reset") : EnqueueOn(queues, order, s, f) BY <1>8 DEF HandlerError, Enqueue
  <2>2. wire' = wire /\ live' = live \ {s} /\ death' = death /\ s \in live /\ Waits(s) BY <1>8 DEF HandlerError
  <2>3. f \in Frame BY <1>1, <2>1, FrameType_New DEF FrameType
  <2>4. f.seq = enqueued[s] + 1 /\ f.type = "reset" BY <2>1 DEF NewFrame
  <2>5. Active(s) /\ ~Active(s)' /\ (Active(l)' => Active(l)) BY <1>1, <2>2 DEF Active, isOpen
  <2> QED BY <1>1, <2>1, <2>2, <2>3, <2>4, <2>5, EnqueueMove
<1>9. ASSUME NEW s \in Streams, RemoteEnd(s) \/ GoawayFails(s) PROVE LaneMove(l)
  <2>1. queues' = queues /\ live' \subseteq live /\ death' = death /\ wire' = wire /\ enqueued' = enqueued
    BY <1>9 DEF RemoteEnd, GoawayFails, writerVars, history
  <2> QED BY <2>1 DEF LaneMove, Stays, Idles, Active, isOpen
<1>10. ASSUME NEW s \in Streams, Reset(s) PROVE LaneMove(l)
  <2>1. /\ queues' = [DiscardedQueues(s) EXCEPT ![s] = Put(@, Plain(s, "reset"))]
        /\ enqueued' = [enqueued EXCEPT ![s] = @ + 1]
        /\ wire' = wire /\ live' = live \ {s} /\ death' = death /\ s \in live
        /\ wake' /\ ~idle' /\ Restart(s)
    BY <1>10 DEF Reset, EnqueueOn
  <2>2. ~Active(s)' /\ (Active(l)' => Active(l)) BY <1>1, <2>1 DEF Active, isOpen
  <2>3. DiscardedQueues(s) = [queues EXCEPT ![s] = DiscardExceptUnsentOpen(queues[s])]
    BY <1>1 DEF DiscardedQueues
  <2>4. CASE l = s
    <3>1. queues'[l] = Put(DiscardExceptUnsentOpen(queues[l]), Plain(l, "reset")) /\ enqueued'[l] = enqueued[l] + 1
      BY <1>1, <2>1, <2>3, <2>4
    <3>2. Anew(l) BY <1>1, <2>1, <2>4 DEF Restart, Anew
    <3> QED BY <2>1, <2>2, <2>4, <3>1, <3>2 DEF LaneMove, Replaces, Counts
  <2>5. CASE l # s
    <3>1. queues'[l] = queues[l] /\ enqueued'[l] = enqueued[l] BY <1>1, <2>1, <2>3, <2>5
    <3> QED BY <2>1, <2>2, <3>1 DEF LaneMove, Stays, Idles
  <2> QED BY <2>4, <2>5
<1>11. ASSUME NEW s \in Streams, RemoteReset(s) PROVE LaneMove(l)
  <2>1. /\ queues' = DiscardedQueues(s) /\ enqueued' = enqueued
        /\ wire' = wire /\ live' = live \ {s} /\ death' = death /\ s \in live
    BY <1>11 DEF RemoteReset
  <2>2. ~Active(s)' /\ (Active(l)' => Active(l)) BY <1>1, <2>1 DEF Active, isOpen
  <2>3. queues'[l] = IF l = s THEN DiscardExceptUnsentOpen(queues[l]) ELSE queues[l]
    BY <1>1, <2>1 DEF DiscardedQueues
  <2> QED BY <2>1, <2>2, <2>3 DEF LaneMove, Stays, Discards, Idles
<1>12. CASE NextFrame
  <2>1. PICK i \in DOMAIN order :
           /\ FirstSliceable(i)
           /\ queues' = [Retired(i - 1) EXCEPT ![order[i]] = Take(Prepare(queues[order[i]]))]
           /\ wire' = [wire EXCEPT ![order[i]] = Append(@, Prepare(queues[order[i]]).prepared)]
           /\ behind' = [k \in Lanes |-> [m \in Lanes |->
                            IF k = order[i] \/ ~Sliceable(queues[k]) THEN 0
                            ELSE IF m = order[i] THEN behind[k][m] + 1 ELSE behind[k][m]]]
    BY <1>12 DEF NextFrame
  <2>2. live' = live /\ death' = death /\ enqueued' = enqueued BY <1>12 DEF NextFrame, peerVars
  <2>3. Active(l)' => Active(l) BY <2>2 DEF Active, isOpen
  <2>4. order[i] \in Lanes /\ i - 1 \in Nat /\ i - 1 <= Len(order) BY <1>1, PlaceFacts
  <2>5. Retired(i - 1) \in [Lanes -> Queue] BY <1>1, <2>4, RotationType
  <2>6. CASE l = order[i]
    <3>1. queues'[l] = Take(Prepare(queues[l])) /\ wire'[l] = Append(wire[l], Prepare(queues[l]).prepared)
      BY <1>1, <2>1, <2>5, <2>6
    <3>2. Anew(l) BY <2>1, <2>6 DEF Anew
    <3> QED BY <2>1, <2>2, <2>3, <2>6, <3>1, <3>2 DEF LaneMove, Emits, FirstSliceable
  <2>7. CASE l # order[i]
    <3>1. queues'[l] = Retired(i - 1)[l] /\ wire'[l] = wire[l] BY <1>1, <2>1, <2>5, <2>7
    <3>2. Retired(i - 1)[l] = queues[l] \/ (Retired(i - 1)[l] = EmptyQueue /\ ~Sliceable(queues[l]))
      BY <1>1, <2>1, <2>4, RetiredMove DEF FirstSliceable
    <3> QED BY <2>2, <2>3, <3>1, <3>2 DEF LaneMove, Stays, Empties, Idles
  <2> QED BY <2>6, <2>7
<1>13. CASE NextFrameRaises
  <2>1. PICK i \in DOMAIN order :
           /\ FirstSliceable(i) /\ PrepareRaises(queues[order[i]])
           /\ FailLane(order[i], [Retired(i - 1) EXCEPT ![order[i]] = EmptyQueue],
                       Rotated(i) \o (IF order[i] = CONNECTION_LANE THEN <<order[i]>> ELSE << >>),
                       UnsentOpen(queues[order[i]]))
           /\ Restart(order[i])
    BY <1>13 DEF NextFrameRaises
  <2> DEFINE k == order[i]
             q == [Retired(i - 1) EXCEPT ![k] = EmptyQueue]
             o == Rotated(i) \o (IF order[i] = CONNECTION_LANE THEN <<order[i]>> ELSE << >>)
             u == UnsentOpen(queues[k])
  <2>2. k \in Lanes /\ i - 1 \in Nat /\ i - 1 <= Len(order) /\ wire' = wire
    BY <1>1, <1>13, PlaceFacts DEF NextFrameRaises
  <2>3. Retired(i - 1) \in [Lanes -> Queue] BY <1>1, <2>2, RotationType
  <2>4. q \in [Lanes -> Queue] /\ q[k] = EmptyQueue /\ u \in BOOLEAN /\ (l # k => q[l] = Retired(i - 1)[l])
    BY <2>2, <2>3, EmptyQueueType DEF UnsentOpen
  <2>5. Retired(i - 1)[l] = queues[l] \/ (Retired(i - 1)[l] = EmptyQueue /\ ~Sliceable(queues[l]))
    BY <1>1, <2>1, <2>2, RetiredMove DEF FirstSliceable
  <2>6. FailLane(k, q, o, u) /\ PrepareRaises(queues[k]) /\ u = UnsentOpen(queues[k]) /\ Restart(k) BY <2>1
  <2> HIDE DEF k, q, o, u
  <2> QED BY <1>1, <2>2, <2>4, <2>5, <2>6, FailLaneMove
<1>14. CASE NothingToSend
  <2>1. /\ queues' = Retired(Len(order)) /\ \A m \in InOrder : ~Sliceable(queues[m])
        /\ live' = live /\ death' = death /\ wire' = wire /\ enqueued' = enqueued
    BY <1>14 DEF NothingToSend, peerVars, history
  <2>2. Len(order) \in Nat /\ \A j \in 1 .. Len(order) : ~Sliceable(queues[order[j]])
    BY <1>1, <2>1, PlaceFacts DEF InOrder
  <2>3. Retired(Len(order))[l] = queues[l] \/ (Retired(Len(order))[l] = EmptyQueue /\ ~Sliceable(queues[l]))
    BY <1>1, <2>2, RetiredMove
  <2> QED BY <2>1, <2>3 DEF LaneMove, Stays, Empties, Idles, Active, isOpen
<1>15. CASE Sent
  <2> DEFINE k == inhand.lane
             q == [queues EXCEPT ![k] = EmptyQueue]
             o == IF k = CONNECTION_LANE THEN order ELSE Drop(k)
             u == UnsentOpen(queues[k])
  <2>1. k \in Lanes /\ wire' = wire BY <1>1, <1>15 DEF Sent, TypeOK, LoopType
  <2>2. CASE PrepareRaises(queues[k])
    <3>1. FailLane(k, q, o, u) /\ Restart(k) BY <1>15, <2>2 DEF Sent
    <3>2. q \in [Lanes -> Queue] /\ q[k] = EmptyQueue /\ u \in BOOLEAN /\ (l # k => q[l] = queues[l])
      BY <1>1, <2>1, EmptyQueueType DEF UnsentOpen
    <3>3. PrepareRaises(queues[k]) /\ u = UnsentOpen(queues[k]) BY <2>2
    <3> HIDE DEF k, q, o, u
    <3> QED BY <1>1, <2>1, <3>1, <3>2, <3>3, FailLaneMove
  <2>3. CASE ~PrepareRaises(queues[k])
    <3>1. /\ queues' = [queues EXCEPT ![k] = Prepare(queues[k])]
          /\ enqueued' = enqueued /\ death' = death /\ live' = live /\ inhand' = None
      BY <1>15, <2>3 DEF Sent
    <3>2. queues'[l] = IF l = k THEN Prepare(queues[l]) ELSE queues[l] BY <1>1, <3>1
    <3>3. wire[k] # << >> BY <1>1, <1>15 DEF BaseInv, OpenInv, HandedOver, Sent, TypeOK, LoopType
    <3> QED BY <2>1, <3>1, <3>2, <3>3 DEF LaneMove, Stays, Slices, Idles, Untouched, Active, isOpen
  <2> QED BY <2>2, <2>3
<1>16. CASE SendRaises
  <2> PICK k : k = inhand.lane OBVIOUS
  <2>1. k \in Lanes /\ wire' = wire BY <1>1, <1>16 DEF SendRaises, TypeOK, LoopType
  <2>2. CASE k \notin live
    <3>1. DieWith(1011, queues, order) /\ enqueued' = enqueued BY <1>16, <2>2 DEF SendRaises
    <3>2. CASE isOpen
      <4>1. queues' = [m \in Lanes |-> EmptyQueue] /\ live' = {} /\ death' = 1011 BY <3>1, <3>2 DEF DieWith
      <4>2. ~Active(l)' BY <4>1 DEF Active, isOpen
      <4> QED BY <2>1, <3>1, <4>1, <4>2 DEF LaneMove, Empties, Idles
    <3>3. CASE ~isOpen
      <4>1. queues' = queues /\ live' = live /\ death' = death BY <3>1, <3>3 DEF DieWith
      <4> QED BY <2>1, <3>1, <4>1 DEF LaneMove, Stays, Idles, Active, isOpen
    <3> QED BY <3>2, <3>3
  <2>3. CASE k \in live
    <3> DEFINE f == Plain(k, "reset")
    <3>1. EnqueueOn(queues, order, k, f) /\ live' = live \ {k} /\ death' = death /\ Waits(k)
      BY <1>16, <2>3 DEF SendRaises, Enqueue
    <3>2. f \in Frame BY <1>1, <2>1, FrameType_New DEF FrameType
    <3>3. f.seq = enqueued[k] + 1 /\ f.type = "reset" BY DEF Plain
    <3>4. Active(k) /\ ~Active(k)' /\ (Active(l)' => Active(l)) BY <1>1, <2>3, <3>1 DEF Active, isOpen
    <3> HIDE DEF f
    <3> QED BY <1>1, <2>1, <3>1, <3>2, <3>3, <3>4, EnqueueMove
  <2> QED BY <2>2, <2>3
<1> QED BY <1>2, <1>3, <1>4, <1>5, <1>6, <1>7, <1>8, <1>9, <1>10, <1>11, <1>12, <1>13, <1>14, <1>15, <1>16
        DEF Next, WriteLoop

-----------------------------------------------------------------------------
(* What no lane has a part in.                                             *)

LEMMA PeerMoves ==
  ASSUME TypeOK, [Next]_vars
  PROVE  /\ \/ death' = death
            \/ death' # 0 /\ live' = {} /\ \A l \in Lanes : queues'[l] = EmptyQueue
         /\ \A s \in live' \ live : s \in Local \/ s = highRemote'
         /\ highRemote' = highRemote \/ highRemote' > highRemote
<1>1. ASSUME NEW q, NEW o, DieWith(1006, q, o) \/ DieWith(1011, q, o)
      PROVE  /\ \/ death' = death
                \/ death' # 0 /\ live' = {} /\ \A l \in Lanes : queues'[l] = EmptyQueue
             /\ live' \subseteq live
  BY <1>1 DEF DieWith
<1>2. ASSUME NEW q, NEW o, NEW u, NEW k, FailLane(k, q, o, u)
      PROVE  /\ \/ death' = death
                \/ death' # 0 /\ live' = {} /\ \A l \in Lanes : queues'[l] = EmptyQueue
             /\ live' \subseteq live
  BY <1>1, <1>2 DEF FailLane
<1>3. CASE Open
  <2>1. death' = death /\ live' = live \cup {nextId} /\ highRemote' = highRemote /\ nextId <= MaxStreamId
    BY <1>3 DEF Open
  <2>2. nextId \in Local BY <2>1, WriterAssumption DEF Local, TypeOK, PeerType
  <2> QED BY <2>1, <2>2
<1>4. CASE Die
  <2>1. DieWith(1006, queues, order) /\ highRemote' = highRemote BY <1>4 DEF Die
  <2> QED BY <1>1, <2>1
<1>5. CASE Control \/ Stop \/ NextFrame \/ NothingToSend \/ Wake \/ LoopEnds \/ SendFindsClosed \/ UNCHANGED vars
  BY <1>5 DEF Control, Stop, NextFrame, NothingToSend, Wake, LoopEnds, SendFindsClosed, vars, peerVars
<1>6. ASSUME NEW s \in Streams,
             Accept(s) \/ Send(s) \/ RemoteEnd(s) \/ Reset(s) \/ HandlerError(s) \/ RemoteReset(s) \/ GoawayFails(s)
      PROVE  /\ death' = death
             /\ \A t \in live' \ live : t = highRemote'
             /\ highRemote' = highRemote \/ highRemote' > highRemote
  BY <1>6 DEF Accept, Send, RemoteEnd, Reset, HandlerError, RemoteReset, GoawayFails
<1>7. CASE NextFrameRaises
  <2>1. highRemote' = highRemote /\ \E k, q, o, u : FailLane(k, q, o, u)
    BY <1>7, Zenon DEF NextFrameRaises
  <2> QED BY <1>2, <2>1
<1>8. CASE Sent
  <2>1. highRemote' = highRemote BY <1>8 DEF Sent
  <2>2. CASE PrepareRaises(queues[inhand.lane])
    <3>1. \E k, q, o, u : FailLane(k, q, o, u) BY <1>8, <2>2, Zenon DEF Sent
    <3> QED BY <1>2, <2>1, <3>1
  <2>3. CASE ~PrepareRaises(queues[inhand.lane])
    BY <1>8, <2>1, <2>3 DEF Sent
  <2> QED BY <2>2, <2>3
<1>9. CASE SendRaises
  <2>1. highRemote' = highRemote BY <1>9 DEF SendRaises
  <2>2. DieWith(1011, queues, order) \/ (death' = death /\ live' \subseteq live)
    BY <1>9 DEF SendRaises
  <2> QED BY <1>1, <2>1, <2>2
<1> QED BY <1>3, <1>4, <1>5, <1>6, <1>7, <1>8, <1>9 DEF Next, WriteLoop

LEMMA EmptyFacts ==
  /\ EmptyQueue \in Queue /\ ~Sliceable(EmptyQueue) /\ Prepare(EmptyQueue) = EmptyQueue
  /\ EmptyQueue.waiting = << >> /\ EmptyQueue.prepared = None /\ EmptyQueue.fragments = None
<1>1. EmptyQueue.waiting = << >> /\ EmptyQueue.prepared = None /\ EmptyQueue.fragments = None
  BY DEF EmptyQueue
<1>2. NextSlice(EmptyQueue) = None BY <1>1 DEF NextSlice
<1> QED BY <1>1, <1>2, EmptyQueueType DEF Sliceable, Prepare, EmptyQueue

(* Nothing comes to a lane without work that may get none.                 *)
LEMMA UnusedStays ==
  ASSUME TypeOK, NEW l \in Lanes, LaneMove(l), queues[l] = EmptyQueue, ~Active(l), ~(Begins(l) /\ l \in Local)
  PROVE  queues'[l] = EmptyQueue /\ wire'[l] = wire[l]
<1>1. l \notin live BY DEF Active
<1> QED BY <1>1, EmptyFacts DEF LaneMove, Stays, Empties, Discards, Gains, Replaces, Fails, Emits, Slices, Idles

LEMMA BaseInit == Init => BaseInv
<1> SUFFICES ASSUME Init PROVE BaseInv OBVIOUS
<1>1. OpenInv BY OpenInit
<1>2. Streams \subseteq Lanes /\ Remote \subseteq Streams BY DEF Lanes, Streams
<1>3. RemoteFresh /\ DeadIsEmpty BY <1>2 DEF Init, RemoteFresh, DeadIsEmpty, Unused, Untouched
<1> QED BY <1>1, <1>3 DEF BaseInv

LEMMA BaseStep == BaseInv /\ [Next]_vars => BaseInv'
<1> SUFFICES ASSUME BaseInv, [Next]_vars PROVE BaseInv' OBVIOUS
<1>1. OpenInv /\ TypeOK /\ OpenInv' /\ TypeOK' BY OpenStep DEF BaseInv, OpenInv
<1>2. \A l \in Lanes : LaneMove(l) BY LaneMoves
<1>3. RemoteFresh'
  <2> SUFFICES ASSUME NEW s \in Remote, s > highRemote' PROVE Unused(s)' /\ s \notin live'
    BY DEF RemoteFresh
  <2>1. s > highRemote
    <3>1. s \in Nat /\ highRemote \in Nat /\ highRemote' \in Nat
      BY <1>1, WriterAssumption DEF TypeOK, PeerType
    <3> QED BY <1>1, <3>1, PeerMoves
  <2>2. Unused(s) /\ s \notin live BY <2>1 DEF BaseInv, RemoteFresh
  <2>3. s \in Lanes /\ s # CONNECTION_LANE /\ s \notin Local BY <1>1, LaneFacts
  <2>4. ~Active(s) BY <2>2, <2>3 DEF Active
  <2>5. Unused(s)' BY <1>1, <1>2, <2>2, <2>3, <2>4, UnusedStays DEF Unused, Untouched
  <2>6. s # highRemote'
    <3>1. s \in Nat /\ highRemote' \in Nat BY <1>1, WriterAssumption DEF TypeOK, PeerType
    <3> QED BY <3>1
  <2> QED BY <1>1, <2>2, <2>3, <2>5, <2>6, PeerMoves
<1>4. DeadIsEmpty'
  <2> SUFFICES ASSUME ~isOpen', isOpen \/ ~isOpen PROVE live' = {} /\ \A l \in Lanes : queues'[l] = EmptyQueue
    BY DEF DeadIsEmpty
  <2>1. CASE isOpen
    <3>1. death' # death BY <2>1 DEF isOpen
    <3> QED BY <1>1, <3>1, PeerMoves
  <2>2. CASE ~isOpen
    <3>1. live = {} /\ \A l \in Lanes : queues[l] = EmptyQueue BY <2>2 DEF BaseInv, DeadIsEmpty
    <3>2. \A l \in Lanes : ~Active(l) /\ ~Begins(l) BY <2>2, <3>1 DEF Active, Begins
    <3>3. \A l \in Lanes : queues'[l] = EmptyQueue BY <1>1, <1>2, <3>1, <3>2, UnusedStays
    <3>4. \A l \in Lanes : ~Active(l)' BY <1>2, <3>2 DEF LaneMove
    <3>5. live' \subseteq Lanes BY <1>1 DEF TypeOK, PeerType, Lanes
    <3> QED BY <3>3, <3>4, <3>5 DEF Active
  <2> QED BY <2>1, <2>2
<1> QED BY <1>1, <1>3, <1>4 DEF BaseInv

-----------------------------------------------------------------------------
(* What leaves a lane.                                                     *)

(* What the waiting frames of queue q stand behind, when w has been sent.  *)
Front(q, w) == IF q.prepared # None THEN q.prepared ELSE IF w # << >> THEN w[Len(w)] ELSE None

NextTo(f, g) == g.seq = f.seq + 1 \/ (g.type = "reset" /\ g.seq > f.seq)
Goes(a, b) == Follows(a, b) /\ (a.frame.type = "reset" => b.frame = a.frame)

(* The waiting frames s are in order, and a reset is the last of them; e   *)
(* frames were enqueued.                                                   *)
WaitingFits(s, e) ==
    /\ \A i \in 1 .. Len(s) - 1 : NextTo(s[i], s[i + 1]) /\ s[i].type # "reset"
    /\ \A i \in 1 .. Len(s) : s[i].seq <= e

FrontFits(x, s, e) ==
    x # None => /\ x.frame.seq <= e
                /\ s # << >> => NextTo(x.frame, s[1]) /\ x.frame.type # "reset"

(* What is enqueued next goes on where the lane ends.                      *)
EndFits(x, s, e) ==
    /\ s # << >> => s[Len(s)].seq = e /\ s[Len(s)].type # "reset"
    /\ x # None => x.frame.type # "reset" /\ (s = << >> => x.frame.seq = e)

(* A payload begun is the one being cut; one that was cut short is         *)
(* followed by a reset or by nothing.                                      *)
WholeFits(q, w, x, active) ==
    /\ q.prepared # None => q.fragments = q.prepared /\ (w # << >> => Goes(w[Len(w)], q.prepared))
    /\ q.fragments # None => q.fragments = x
    /\ q.fragments = None /\ x # None => Last(x) \/ (~active /\ (q.waiting # << >> => q.waiting[1].type = "reset"))

LaneFits(q, w, e, active) ==
    /\ WaitingFits(q.waiting, e)
    /\ FrontFits(Front(q, w), q.waiting, e)
    /\ active => EndFits(Front(q, w), q.waiting, e)
    /\ WholeFits(q, w, Front(q, w), active)

WireFits(w) == \A i \in 1 .. Len(w) - 1 : Goes(w[i], w[i + 1])

(* An open stands at the head of a lane of which nothing was sent.         *)
OpensFit(q, untouched) ==
    /\ \A i \in 2 .. Len(q.waiting) : q.waiting[i].type # "open"
    /\ ~untouched /\ q.waiting # << >> => q.waiting[1].type # "open"
    /\ q.prepared # None => ~(q.prepared.idx = 1 /\ q.prepared.frame.type = "open")

Row(l) ==
    /\ LaneFits(queues[l], wire[l], enqueued[l], Active(l))
    /\ WireFits(wire[l])
    /\ OpensFit(queues[l], l \in Local /\ Untouched(l))

RowInv == \A l \in Lanes : Row(l)

LEMMA FragmentFacts ==
  /\ None \notin Fragment
  /\ \A x \in Fragment : /\ x.frame \in Frame /\ x.frame.seq \in Nat /\ x.frame.frags \in Nat
                         /\ x.idx \in Nat /\ 1 <= x.idx /\ x.idx <= x.frame.frags
                         /\ x = [frame |-> x.frame, idx |-> x.idx]
  /\ \A f \in Frame : f.seq \in Nat /\ f.frags \in Nat /\ 1 <= f.frags /\ [frame |-> f, idx |-> 1] \in Fragment
BY WriterAssumption DEF Fragment, Frame

LEMMA QueueFacts ==
  ASSUME NEW q \in Queue
  PROVE  /\ q.waiting \in Seq(Frame) /\ Len(q.waiting) \in Nat
         /\ q.waiting = << >> <=> Len(q.waiting) = 0
         /\ \A i \in 1 .. Len(q.waiting) : q.waiting[i] \in Frame
         /\ q.waiting # << >> => Head(q.waiting) = q.waiting[1] /\ q.waiting[1] \in Frame
         /\ q.prepared \in Fragment \cup {None} /\ q.fragments \in Fragment \cup {None}
<1>1. q.waiting \in Seq(Frame) /\ q.prepared \in Fragment \cup {None} /\ q.fragments \in Fragment \cup {None}
  BY DEF Queue
<1> DEFINE s == q.waiting
<1>2. s \in Seq(Frame) BY <1>1
<1> HIDE DEF s
<1>3. /\ Len(s) \in Nat /\ (s = << >> <=> Len(s) = 0)
      /\ \A i \in 1 .. Len(s) : s[i] \in Frame
      /\ s # << >> => Head(s) = s[1]
  BY <1>2, LenProperties, EmptySeq, HeadTailProperties
<1>4. s # << >> => s[1] \in Frame
  <2>1. s # << >> => 1 \in 1 .. Len(s) BY <1>3
  <2> QED BY <1>3, <2>1
<1> QED BY <1>1, <1>3, <1>4 DEF s

LEMMA SliceFacts ==
  ASSUME NEW q \in Queue
  PROVE  /\ q.fragments # None /\ ~Last(q.fragments) =>
              /\ NextSlice(q) = [frame |-> q.fragments.frame, idx |-> q.fragments.idx + 1]
              /\ NextSlice(q) \in Fragment /\ q.fragments \in Fragment
         /\ (q.fragments = None \/ Last(q.fragments)) /\ q.waiting # << >> =>
              NextSlice(q) = [frame |-> q.waiting[1], idx |-> 1] /\ NextSlice(q) \in Fragment
         /\ NextSlice(q) = None <=> (q.fragments = None \/ Last(q.fragments)) /\ q.waiting = << >>
<1>1. ASSUME q.fragments # None, ~Last(q.fragments)
      PROVE  /\ NextSlice(q) = [frame |-> q.fragments.frame, idx |-> q.fragments.idx + 1]
             /\ NextSlice(q) \in Fragment /\ q.fragments \in Fragment
  <2>1. q.fragments \in Fragment BY <1>1, QueueFacts
  <2>2. NextSlice(q) = [q.fragments EXCEPT !.idx = @ + 1] BY <1>1 DEF NextSlice
  <2>3. [q.fragments EXCEPT !.idx = @ + 1] = [frame |-> q.fragments.frame, idx |-> q.fragments.idx + 1]
    BY <2>1 DEF Fragment
  <2>4. NextSlice(q) # None
    <3>1. [q.fragments EXCEPT !.idx = @ + 1] \in Fragment
      BY <1>1, <2>1, WriterAssumption DEF Fragment, Frame, Last
    <3> QED BY <2>2, <3>1, FragmentFacts
  <2> QED BY <2>1, <2>2, <2>3, <2>4, NextSliceType
<1>2. ASSUME q.fragments = None \/ Last(q.fragments), q.waiting # << >>
      PROVE  NextSlice(q) = [frame |-> q.waiting[1], idx |-> 1] /\ NextSlice(q) \in Fragment
  BY <1>2, QueueFacts, FragmentFacts DEF NextSlice
<1>3. ASSUME q.fragments = None \/ Last(q.fragments), q.waiting = << >> PROVE NextSlice(q) = None
  BY <1>3 DEF NextSlice
<1> QED BY <1>1, <1>2, <1>3, FragmentFacts

LEMMA FrontFacts ==
  ASSUME NEW q \in Queue, NEW w \in Seq(Fragment)
  PROVE  /\ Front(q, w) \in Fragment \cup {None}
         /\ Len(w) \in Nat /\ (w # << >> => Len(w) \in 1 .. Len(w) /\ w[Len(w)] \in Fragment)
<1>1. Len(w) \in Nat /\ (w = << >> <=> Len(w) = 0) BY LenProperties, EmptySeq
<1>2. w # << >> => Len(w) \in 1 .. Len(w) BY <1>1
<1>3. w # << >> => w[Len(w)] \in Fragment BY <1>2, ElementOfSeq
<1> QED BY <1>1, <1>2, <1>3, QueueFacts DEF Front

(* What was sent last, when it stands before the prepared fragment.        *)
LEMMA SentFits ==
  ASSUME NEW q \in Queue, NEW w \in Seq(Fragment), NEW e \in Nat, NEW a, LaneFits(q, w, e, a), w # << >>
  PROVE  /\ w[Len(w)].frame.seq <= e
         /\ a => w[Len(w)].frame.type # "reset"
<1> DEFINE x == Front(q, w)
           y == w[Len(w)]
<1>1. x \in Fragment /\ y \in Fragment BY FrontFacts, QueueFacts, FragmentFacts DEF Front
<1>2. x.frame.seq <= e /\ (a => x.frame.type # "reset")
  BY <1>1, FragmentFacts DEF LaneFits, FrontFits, EndFits
<1>3. x = y \/ Goes(y, x) BY DEF LaneFits, WholeFits, Front
<1>4. y.frame.seq <= x.frame.seq
  BY <1>1, <1>3, FragmentFacts DEF Goes, Follows
<1>5. a => y.frame.type # "reset" BY <1>2, <1>3 DEF Goes
<1>6. x.frame.seq \in Nat /\ y.frame.seq \in Nat BY <1>1, FragmentFacts
<1> HIDE DEF x, y
<1>7. y.frame.seq <= e BY <1>2, <1>4, <1>6
<1> QED BY <1>5, <1>7 DEF y

LEMMA FitsEmpties ==
  ASSUME NEW q \in Queue, NEW w \in Seq(Fragment), NEW e \in Nat, NEW a \in BOOLEAN, LaneFits(q, w, e, a),
         NEW b \in BOOLEAN, b => a /\ ~Sliceable(q)
  PROVE  LaneFits(EmptyQueue, w, e, b)
<1> DEFINE x == Front(EmptyQueue, w)
<1>1. x = IF w # << >> THEN w[Len(w)] ELSE None BY EmptyFacts DEF Front
<1>2. Len(EmptyQueue.waiting) = 0 BY EmptyFacts
<1>3. WaitingFits(EmptyQueue.waiting, e) BY <1>2 DEF WaitingFits
<1>4. FrontFits(x, EmptyQueue.waiting, e) BY <1>1, EmptyFacts, SentFits DEF FrontFits
<1>5. ASSUME b PROVE EndFits(x, EmptyQueue.waiting, e) /\ (x # None => Last(x))
  <2>1. /\ q.prepared = None /\ q.waiting = << >> /\ a
        /\ q.fragments # None => Last(q.fragments)
    BY <1>5, SliceFacts DEF Sliceable
  <2>2. Front(q, w) = x BY <1>1, <2>1 DEF Front
  <2>3. x # None => Last(x) BY <2>1, <2>2 DEF LaneFits, WholeFits
  <2>4. x # None => x.frame.type # "reset" /\ x.frame.seq = e BY <2>1, <2>2 DEF LaneFits, EndFits
  <2> QED BY <2>3, <2>4, EmptyFacts DEF EndFits
<1>6. WholeFits(EmptyQueue, w, x, b) BY <1>5, EmptyFacts DEF WholeFits
<1> QED BY <1>3, <1>4, <1>5, <1>6 DEF LaneFits

LEMMA FitsDiscards ==
  ASSUME NEW q \in Queue, NEW w \in Seq(Fragment), NEW e \in Nat, LaneFits(q, w, e, TRUE)
  PROVE  LET d == DiscardExceptUnsentOpen(q)
         IN  /\ LaneFits(d, w, e, FALSE) /\ d \in Queue /\ d.prepared = None /\ d.fragments = None
             /\ Len(d.waiting) \in {0, 1}
             /\ d.waiting # << >> => d.waiting[1] = q.waiting[1] /\ d.waiting[1].type = "open"
<1> DEFINE d == DiscardExceptUnsentOpen(q)
<1>1. CASE KeepsOpen(q)
  <2>1. q.prepared = None /\ q.fragments = None /\ q.waiting # << >> /\ q.waiting[1].type = "open"
    BY <1>1, QueueFacts DEF KeepsOpen
  <2>2. d.waiting = <<q.waiting[1]>> /\ d.prepared = None /\ d.fragments = None
    BY <1>1, <2>1, QueueFacts DEF DiscardExceptUnsentOpen, EmptyQueue
  <2>3. Front(d, w) = Front(q, w) BY <2>1, <2>2 DEF Front
  <2> DEFINE s == d.waiting
             f == q.waiting[1]
             x == Front(q, w)
  <2>4. Len(s) = 1 /\ s[1] = f /\ s # << >> BY <2>2
  <2>5. f.seq <= e /\ f.type = "open"
    <3>1. 1 \in 1 .. Len(q.waiting) BY <2>1, QueueFacts
    <3> QED BY <2>1, <3>1 DEF LaneFits, WaitingFits
  <2>6. x # None => x.frame.seq <= e /\ NextTo(x.frame, f) /\ x.frame.type # "reset" /\ Last(x)
    BY <2>1 DEF LaneFits, FrontFits, WholeFits
  <2>7. WaitingFits(s, e) BY <2>4, <2>5 DEF WaitingFits
  <2>8. FrontFits(x, s, e) BY <2>4, <2>6 DEF FrontFits
  <2>9. WholeFits(d, w, x, FALSE) BY <2>2, <2>6 DEF WholeFits
  <2> QED BY <2>2, <2>3, <2>4, <2>5, <2>7, <2>8, <2>9, DiscardType DEF LaneFits
<1>2. CASE ~KeepsOpen(q)
  <2>1. d = EmptyQueue BY <1>2 DEF DiscardExceptUnsentOpen
  <2>2. LaneFits(d, w, e, FALSE) BY <2>1, FitsEmpties
  <2>3. Len(d.waiting) = 0 BY <2>1, EmptyFacts
  <2> QED BY <2>1, <2>2, <2>3, EmptyFacts
<1> QED BY <1>1, <1>2

(* What an active lane meets, an ended one meets as well.                  *)
LEMMA FitsWeaker ==
  ASSUME NEW q \in Queue, NEW w \in Seq(Fragment), NEW e \in Nat, NEW a \in BOOLEAN, LaneFits(q, w, e, a),
         NEW b \in BOOLEAN, b => a
  PROVE  LaneFits(q, w, e, b)
BY DEF LaneFits, WholeFits

(* A frame that ends what may be enqueued, behind a lane that was dropped. *)
LEMMA FitsReset ==
  ASSUME NEW q \in Queue, NEW w \in Seq(Fragment), NEW e \in Nat, LaneFits(q, w, e, FALSE),
         q.prepared = None, q.fragments = None, Len(q.waiting) \in {0, 1},
         q.waiting # << >> => q.waiting[1].type = "open",
         w # << >> => w[Len(w)].frame.type # "reset",
         NEW f \in Frame, f.type = "reset", f.seq = e + 1
  PROVE  LaneFits(Put(q, f), w, e + 1, FALSE)
<1> DEFINE s == q.waiting
           t == Append(s, f)
           x == Front(q, w)
<1>1. s \in Seq(Frame) /\ Len(s) \in {0, 1} /\ (s = << >> <=> Len(s) = 0) /\ (s # << >> => s[1].type = "open")
  BY QueueFacts
<1>2. /\ Put(q, f) \in Queue /\ Put(q, f).waiting = t
      /\ Put(q, f).prepared = None /\ Put(q, f).fragments = None
  BY PutType
<1>3. Front(Put(q, f), w) = x BY <1>2 DEF Front
<1>4. WaitingFits(s, e) /\ FrontFits(x, s, e) /\ WholeFits(q, w, x, FALSE) BY DEF LaneFits
<1>5. x \in Fragment \cup {None} /\ (x # None => x.frame.seq \in Nat /\ x.frame.type # "reset")
  BY FrontFacts, FragmentFacts DEF Front
<1>6. x # None => Last(x) \/ (s # << >> => s[1].type = "reset") BY <1>4 DEF WholeFits
<1> HIDE DEF s, t, x
<1>7. /\ Len(t) = Len(s) + 1 /\ t[Len(s) + 1] = f /\ \A i \in 1 .. Len(s) : t[i] = s[i]
  BY <1>1, AppendProperties DEF t
<1>8. CASE s = << >>
  <2>1. Len(s) = 0 BY <1>1, <1>8
  <2>5. Len(t) = 1 /\ t[1] = f BY <1>7, <2>1
  <2>6. Len(<< >>) = 0 OBVIOUS
  <2>7. t # << >>
    <3>1. Len(t) # 0 BY <2>5
    <3> QED BY <2>6, <3>1
  <2>2. WaitingFits(t, e + 1) BY <2>5 DEF WaitingFits
  <2>3. FrontFits(x, t, e + 1) BY <1>4, <1>5, <2>5, <2>7 DEF FrontFits, NextTo
  <2>4. WholeFits(Put(q, f), w, x, FALSE) BY <1>2, <2>5 DEF WholeFits
  <2> QED BY <1>2, <1>3, <2>2, <2>3, <2>4 DEF LaneFits
<1>9. CASE s # << >>
  <2>1. Len(s) = 1 /\ Len(t) = 2 /\ t[1] = s[1] /\ t[2] = f /\ t # << >> BY <1>1, <1>7, <1>9, EmptySeq
  <2>2. s[1] \in Frame /\ s[1].seq <= e BY <1>1, <1>4, <2>1, ElementOfSeq DEF WaitingFits
  <2>7. s[1].type # "reset" /\ s[1].seq \in Nat BY <1>1, <1>9, <2>2, FragmentFacts
  <2>8. f.seq > s[1].seq /\ s[1].seq <= e + 1 BY <2>2, <2>7
  <2>3. NextTo(s[1], f) BY <2>8 DEF NextTo
  <2>9. \A i \in 1 .. Len(t) - 1 : i = 1 /\ i + 1 = 2 BY <2>1
  <2>10. \A i \in 1 .. Len(t) : i = 1 \/ i = 2 BY <2>1
  <2>11. f.seq <= e + 1 OBVIOUS
  <2>4. WaitingFits(t, e + 1) BY <2>1, <2>3, <2>7, <2>8, <2>9, <2>10, <2>11 DEF WaitingFits
  <2>5. FrontFits(x, t, e + 1) BY <1>4, <1>5, <1>9, <2>1 DEF FrontFits, NextTo
  <2>6. WholeFits(Put(q, f), w, x, FALSE) BY <1>1, <1>2, <1>6, <1>9 DEF WholeFits
  <2> QED BY <1>2, <1>3, <2>4, <2>5, <2>6 DEF LaneFits
<1> QED BY <1>8, <1>9

(* A frame enqueued on an active lane.                                     *)
LEMMA FitsPut ==
  ASSUME NEW q \in Queue, NEW w \in Seq(Fragment), NEW e \in Nat, LaneFits(q, w, e, TRUE),
         NEW f \in Frame, f.seq = e + 1, NEW b \in BOOLEAN, f.type = "reset" => ~b
  PROVE  LaneFits(Put(q, f), w, e + 1, b)
<1> DEFINE s == q.waiting
           t == Append(s, f)
           x == Front(q, w)
<1>1. s \in Seq(Frame) /\ Len(s) \in Nat /\ (s = << >> <=> Len(s) = 0) BY QueueFacts
<1>2. /\ Put(q, f) \in Queue /\ Put(q, f).waiting = t
      /\ Put(q, f).prepared = q.prepared /\ Put(q, f).fragments = q.fragments
  BY PutType
<1>3. Front(Put(q, f), w) = x BY <1>2 DEF Front
<1>4. WaitingFits(s, e) /\ FrontFits(x, s, e) /\ EndFits(x, s, e) /\ WholeFits(q, w, x, TRUE) BY DEF LaneFits
<1>5. x \in Fragment \cup {None} /\ (x # None => x.frame.seq \in Nat) BY FrontFacts, FragmentFacts
<1>6. WholeFits(Put(q, f), w, x, b) BY <1>2, <1>4 DEF WholeFits
<1> HIDE DEF s, t, x
<1>7. /\ Len(t) = Len(s) + 1 /\ t[Len(s) + 1] = f /\ \A i \in 1 .. Len(s) : t[i] = s[i]
      /\ \A i \in 1 .. Len(s) : s[i] \in Frame
  BY <1>1, AppendProperties, ElementOfSeq DEF t
<1>8. Len(t) \in Nat \ {0} /\ t # << >> /\ t[Len(t)] = f BY <1>1, <1>7, EmptySeq
<1>9. EndFits(x, t, e + 1) \/ ~b BY <1>4, <1>8 DEF EndFits
<1>10. CASE s = << >>
  <2>1. Len(t) = 1 /\ t[1] = f BY <1>1, <1>7, <1>10
  <2>2. WaitingFits(t, e + 1) BY <2>1 DEF WaitingFits
  <2>3. x # None => x.frame.seq = e /\ x.frame.type # "reset" BY <1>4, <1>10 DEF EndFits
  <2>4. FrontFits(x, t, e + 1) BY <2>1, <2>3 DEF FrontFits, NextTo
  <2> QED BY <1>2, <1>3, <1>6, <1>9, <2>2, <2>4 DEF LaneFits
<1>11. CASE s # << >>
  <2>1. Len(s) >= 1 /\ t[1] = s[1] /\ s[Len(s)].seq = e /\ s[Len(s)].type # "reset"
    BY <1>1, <1>4, <1>7, <1>11 DEF EndFits
  <2>2. NextTo(s[Len(s)], f) BY <2>1 DEF NextTo
  <2>3. \A i \in 1 .. Len(s) : s[i].seq \in Nat /\ s[i].seq <= e BY <1>4, <1>7, FragmentFacts DEF WaitingFits
  <2>4. ASSUME NEW i \in 1 .. Len(t) - 1 PROVE NextTo(t[i], t[i + 1]) /\ t[i].type # "reset"
    <3>1. CASE i = Len(s) BY <1>1, <1>7, <2>1, <2>2, <3>1
    <3>2. CASE i # Len(s)
      <4>1. i \in 1 .. Len(s) - 1 /\ i \in 1 .. Len(s) /\ i + 1 \in 1 .. Len(s) BY <1>1, <1>7, <3>2
      <4>2. t[i] = s[i] /\ t[i + 1] = s[i + 1] BY <1>7, <4>1
      <4> QED BY <1>4, <4>1, <4>2 DEF WaitingFits
    <3> QED BY <3>1, <3>2
  <2>5. ASSUME NEW i \in 1 .. Len(t) PROVE t[i].seq <= e + 1
    <3>1. CASE i = Len(s) + 1 BY <1>7, <3>1
    <3>2. CASE i # Len(s) + 1
      <4>1. i \in 1 .. Len(s) BY <1>1, <1>7, <3>2
      <4>2. t[i] = s[i] /\ s[i].seq \in Nat /\ s[i].seq <= e BY <1>7, <2>3, <4>1
      <4> QED BY <4>2
    <3> QED BY <3>1, <3>2
  <2>6. WaitingFits(t, e + 1) BY <2>4, <2>5 DEF WaitingFits
  <2>7. FrontFits(x, t, e + 1) BY <1>4, <1>5, <1>8, <1>11, <2>1 DEF FrontFits
  <2> QED BY <1>2, <1>3, <1>6, <1>9, <2>6, <2>7 DEF LaneFits
<1> QED BY <1>10, <1>11

(* The first frame of a stream.                                            *)
LEMMA FitsBegins ==
  ASSUME NEW e \in Nat, NEW b \in BOOLEAN
  PROVE  /\ LaneFits(EmptyQueue, << >>, e, b)
         /\ \A f \in Frame : f.seq = e + 1 /\ f.type # "reset" => LaneFits(Put(EmptyQueue, f), << >>, e + 1, b)
<1>1. Front(EmptyQueue, << >>) = None /\ Len(EmptyQueue.waiting) = 0 BY EmptyFacts DEF Front
<1>2. LaneFits(EmptyQueue, << >>, e, TRUE) /\ LaneFits(EmptyQueue, << >>, e, FALSE)
  BY <1>1, EmptyFacts DEF LaneFits, WaitingFits, FrontFits, EndFits, WholeFits
<1>3. << >> \in Seq(Fragment) OBVIOUS
<1> QED BY <1>2, <1>3, EmptyFacts, FitsPut

(* The next fragment is sliced: from the payload being cut, or from the    *)
(* first waiting frame.                                                    *)
LEMMA FitsSlices ==
  ASSUME NEW q \in Queue, NEW w \in Seq(Fragment), NEW e \in Nat, NEW a \in BOOLEAN, LaneFits(q, w, e, a)
  PROVE  LaneFits(Prepare(q), w, e, a)
<1> DEFINE s == q.waiting
           n == NextSlice(q)
           x == Front(q, w)
           p == Prepare(q)
           t == p.waiting
<1>1. CASE q.prepared # None BY <1>1 DEF Prepare
<1>2. CASE q.prepared = None
  <2>1. x = IF w # << >> THEN w[Len(w)] ELSE None BY <1>2 DEF Front
  <2>2. /\ p.prepared = n /\ p.fragments = n
        /\ t = IF n # None /\ n.idx = 1 THEN Tail(s) ELSE s
    BY <1>2 DEF Prepare
  <2>3. /\ WaitingFits(s, e) /\ FrontFits(x, s, e) /\ (a => EndFits(x, s, e))
        /\ q.fragments # None => q.fragments = x
        /\ q.fragments = None /\ x # None => Last(x) \/ (~a /\ (s # << >> => s[1].type = "reset"))
    BY DEF LaneFits, WholeFits
  <2>4. n \in Fragment \cup {None} /\ x \in Fragment \cup {None} BY NextSliceType, FrontFacts
  <2>5. CASE n = None
    <3>1. s = << >> /\ (q.fragments = None \/ Last(q.fragments)) BY <2>5, SliceFacts
    <3>2. t = s /\ Front(p, w) = x BY <2>1, <2>2, <2>5 DEF Front
    <3>3. WholeFits(p, w, x, a) BY <2>2, <2>3, <2>5, <3>1, <3>2 DEF WholeFits
    <3> QED BY <2>3, <3>2, <3>3 DEF LaneFits
  <2>6. CASE n # None /\ q.fragments # None /\ ~Last(q.fragments)
    <3>1. n.frame = q.fragments.frame /\ n.idx = q.fragments.idx + 1 /\ x = q.fragments /\ x \in Fragment
      BY <2>3, <2>6, SliceFacts
    <3>2. n.idx # 1 BY <3>1, FragmentFacts
    <3>3. t = s /\ Front(p, w) = n BY <2>2, <2>6, <3>2 DEF Front
    <3>4. Goes(x, n) BY <2>6, <3>1 DEF Goes, Follows
    <3>5. w # << >> => Goes(w[Len(w)], n) BY <2>1, <3>4
    <3>6. WholeFits(p, w, n, a) BY <2>2, <2>6, <3>5 DEF WholeFits
    <3>7. x # None BY <2>6, <3>1
    <3>8. FrontFits(n, s, e) /\ (a => EndFits(n, s, e)) BY <2>3, <3>1, <3>7 DEF FrontFits, EndFits
    <3> QED BY <2>3, <3>3, <3>6, <3>8 DEF LaneFits
  <2>7. CASE n # None /\ (q.fragments = None \/ Last(q.fragments))
    <3>1. s # << >> /\ n.frame = s[1] /\ n.idx = 1 BY <2>7, SliceFacts
    <3>2. t = Tail(s) /\ Front(p, w) = n BY <2>2, <2>7, <3>1 DEF Front
    <3>3. s \in Seq(Frame) /\ Len(s) \in Nat /\ Len(s) # 0 BY <3>1, QueueFacts
    <3> HIDE DEF s, n, x, p, t
    <3>4. /\ Len(t) = Len(s) - 1 /\ \A i \in 1 .. Len(t) : t[i] = s[i + 1] /\ (t = << >> <=> Len(t) = 0)
      BY <3>1, <3>2, <3>3, HeadTailProperties, EmptySeq
    <3>5. t = << >> <=> Len(s) = 1
      <4>1. t \in Seq(Frame) BY <3>1, <3>2, <3>3, HeadTailProperties
      <4> QED BY <3>3, <3>4, <4>1, EmptySeq
    <3>6. 1 \in 1 .. Len(s) /\ n.frame.seq <= e BY <2>3, <3>1, <3>3 DEF WaitingFits
    <3>7. WaitingFits(t, e)
      <4>1. ASSUME NEW i \in 1 .. Len(t) - 1 PROVE NextTo(t[i], t[i + 1]) /\ t[i].type # "reset"
        <5>1. i \in 1 .. Len(t) /\ i + 1 \in 1 .. Len(t) /\ i + 1 \in 1 .. Len(s) - 1 BY <3>3, <3>4
        <5>2. t[i] = s[i + 1] /\ t[i + 1] = s[i + 1 + 1] BY <3>4, <5>1
        <5> QED BY <2>3, <5>1, <5>2 DEF WaitingFits
      <4>2. ASSUME NEW i \in 1 .. Len(t) PROVE t[i].seq <= e
        <5>1. i + 1 \in 1 .. Len(s) /\ t[i] = s[i + 1] BY <3>3, <3>4
        <5> QED BY <2>3, <5>1 DEF WaitingFits
      <4> QED BY <4>1, <4>2 DEF WaitingFits
    <3>8. t # << >> => t[1] = s[2] /\ NextTo(s[1], s[2]) /\ s[1].type # "reset"
      <4> SUFFICES ASSUME t # << >> PROVE t[1] = s[2] /\ NextTo(s[1], s[2]) /\ s[1].type # "reset" OBVIOUS
      <4>1. 1 \in 1 .. Len(t) /\ 1 \in 1 .. Len(s) - 1 BY <3>3, <3>4, <3>5
      <4>2. t[1] = s[1 + 1] BY <3>4, <4>1
      <4> QED BY <2>3, <4>1, <4>2 DEF WaitingFits
    <3>9. FrontFits(n, t, e) BY <3>1, <3>6, <3>8 DEF FrontFits
    <3>10. ASSUME a PROVE EndFits(n, t, e)
      <4>1. s[Len(s)].seq = e /\ s[Len(s)].type # "reset" BY <2>3, <3>1, <3>10 DEF EndFits
      <4>4. n.frame = s[1] BY <3>1
      <4>2. CASE t = << >>
        <5>1. Len(s) = 1 BY <3>5, <4>2
        <5>2. n.frame.seq = e /\ n.frame.type # "reset" BY <4>1, <4>4, <5>1
        <5> QED BY <4>2, <5>2 DEF EndFits
      <4>3. CASE t # << >>
        <5>1. Len(t) \in 1 .. Len(t) /\ t[Len(t)] = s[Len(s)] BY <3>3, <3>4, <3>5, <4>3
        <5> QED BY <3>1, <3>8, <4>1, <4>3, <5>1 DEF EndFits
      <4> QED BY <4>2, <4>3
    <3>11. ASSUME w # << >> PROVE Goes(w[Len(w)], n)
      <4>1. x = w[Len(w)] /\ x \in Fragment BY <2>1, <3>11, FrontFacts
      <4>2. x # None BY <4>1, FragmentFacts
      <4>3. NextTo(x.frame, s[1]) /\ x.frame.type # "reset" BY <2>3, <3>1, <4>2 DEF FrontFits
      <4>4. Last(x) \/ s[1].type = "reset" BY <2>3, <2>7, <3>1, <4>2
      <4>5. s[1] \in Frame /\ s[1].seq \in Nat /\ x.frame.seq \in Nat BY <3>3, <3>6, <4>1, ElementOfSeq, FragmentFacts
      <4>6. s[1].seq > x.frame.seq BY <4>3, <4>5 DEF NextTo
      <4> QED BY <3>1, <4>1, <4>3, <4>4, <4>6 DEF Goes, Follows, NextTo
    <3>12. WholeFits(p, w, n, a) BY <2>2, <2>7, <3>11 DEF WholeFits
    <3>13. p.waiting = t BY DEF t
    <3>14. LaneFits(p, w, e, a) BY <3>2, <3>7, <3>9, <3>10, <3>12, <3>13 DEF LaneFits
    <3> QED BY <3>14 DEF p
  <2> QED BY <2>5, <2>6, <2>7
<1> QED BY <1>1, <1>2

(* The prepared fragment is sent.                                          *)
LEMMA FitsTakes ==
  ASSUME NEW q \in Queue, NEW w \in Seq(Fragment), NEW e \in Nat, NEW a \in BOOLEAN, LaneFits(q, w, e, a),
         WireFits(w), q.prepared # None
  PROVE  LaneFits(Take(q), Append(w, q.prepared), e, a) /\ WireFits(Append(w, q.prepared))
<1> DEFINE v == Append(w, q.prepared)
<1>1. q.prepared \in Fragment BY QueueFacts
<1>2. Take(q).waiting = q.waiting /\ Take(q).prepared = None /\ Take(q).fragments = q.fragments
  BY DEF Take, Queue
<1>3. /\ Len(v) = Len(w) + 1 /\ v[Len(w) + 1] = q.prepared /\ Len(w) \in Nat
      /\ \A i \in 1 .. Len(w) : v[i] = w[i]
  BY <1>1, AppendProperties, LenProperties
<1>4. Front(q, w) = q.prepared BY DEF Front
<1>5. q.fragments = q.prepared /\ (w # << >> => Goes(w[Len(w)], q.prepared)) BY DEF LaneFits, WholeFits
<1>6. w = << >> <=> Len(w) = 0 BY EmptySeq
<1> HIDE DEF v
<1>7. v # << >>
  <2>1. Len(v) # 0 BY <1>3
  <2>2. Len(<< >>) = 0 OBVIOUS
  <2> QED BY <2>1, <2>2
<1>8. Front(Take(q), v) = q.prepared BY <1>2, <1>3, <1>7 DEF Front
<1>9. WholeFits(Take(q), v, q.prepared, a) BY <1>2, <1>5 DEF WholeFits
<1>10. LaneFits(Take(q), v, e, a) BY <1>2, <1>4, <1>8, <1>9 DEF LaneFits
<1>11. WireFits(v)
  <2> SUFFICES ASSUME NEW i \in 1 .. Len(v) - 1 PROVE Goes(v[i], v[i + 1]) BY DEF WireFits
  <2>1. CASE i = Len(w)
    <3>1. w # << >> BY <1>6, <2>1
    <3> QED BY <1>3, <1>5, <2>1, <3>1
  <2>2. CASE i # Len(w)
    <3>1. i \in 1 .. Len(w) - 1 /\ i \in 1 .. Len(w) /\ i + 1 \in 1 .. Len(w) BY <1>3, <2>2
    <3> QED BY <1>3, <3>1 DEF WireFits
  <2> QED BY <2>1, <2>2
<1> QED BY <1>10, <1>11 DEF v

-----------------------------------------------------------------------------
(* The moves keep an open where it stands.                                 *)

LEMMA OpensEmpty ==
  ASSUME NEW u \in BOOLEAN
  PROVE  OpensFit(EmptyQueue, u)
<1>1. Len(EmptyQueue.waiting) = 0 BY EmptyFacts
<1> QED BY <1>1, EmptyFacts DEF OpensFit

LEMMA OpensPut ==
  ASSUME NEW q \in Queue, NEW u \in BOOLEAN, OpensFit(q, u), NEW f \in Frame,
         f.type = "open" => u /\ q.waiting = << >>
  PROVE  OpensFit(Put(q, f), u)
<1> DEFINE s == q.waiting
           t == Append(s, f)
<1>1. s \in Seq(Frame) /\ Len(s) \in Nat /\ (s = << >> <=> Len(s) = 0) BY QueueFacts
<1>2. Put(q, f).waiting = t /\ Put(q, f).prepared = q.prepared BY PutType
<1>3. /\ \A i \in 2 .. Len(s) : s[i].type # "open"
      /\ ~u /\ s # << >> => s[1].type # "open"
      /\ q.prepared # None => ~(q.prepared.idx = 1 /\ q.prepared.frame.type = "open")
  BY DEF OpensFit
<1>4. f.type = "open" => u /\ s = << >> OBVIOUS
<1> HIDE DEF s, t
<1>5. Len(t) = Len(s) + 1 /\ t[Len(s) + 1] = f /\ \A i \in 1 .. Len(s) : t[i] = s[i]
  BY <1>1, AppendProperties DEF t
<1>6. ASSUME NEW i \in 2 .. Len(t) PROVE t[i].type # "open"
  <2>1. CASE i = Len(s) + 1
    <3>1. s # << >> BY <1>1, <2>1
    <3> QED BY <1>4, <1>5, <2>1, <3>1
  <2>2. CASE i # Len(s) + 1
    <3>1. i \in 2 .. Len(s) /\ i \in 1 .. Len(s) BY <1>1, <1>5, <2>2
    <3> QED BY <1>3, <1>5, <3>1
  <2> QED BY <2>1, <2>2
<1>7. ASSUME ~u PROVE t[1].type # "open"
  <2>1. CASE s = << >> BY <1>1, <1>4, <1>5, <1>7, <2>1
  <2>2. CASE s # << >>
    <3>1. 1 \in 1 .. Len(s) BY <1>1, <2>2
    <3> QED BY <1>3, <1>5, <1>7, <2>2, <3>1
  <2> QED BY <2>1, <2>2
<1> QED BY <1>2, <1>3, <1>6, <1>7 DEF OpensFit

LEMMA OpensDiscard ==
  ASSUME NEW q \in Queue, NEW u \in BOOLEAN, OpensFit(q, u)
  PROVE  OpensFit(DiscardExceptUnsentOpen(q), u)
<1> DEFINE d == DiscardExceptUnsentOpen(q)
<1>1. CASE KeepsOpen(q)
  <2>1. u BY <1>1, QueueFacts DEF KeepsOpen, OpensFit
  <2>2. d.waiting = <<Head(q.waiting)>> /\ d.prepared = None
    BY <1>1 DEF DiscardExceptUnsentOpen, EmptyQueue
  <2>3. Len(d.waiting) = 1 BY <2>2
  <2> QED BY <2>1, <2>2, <2>3 DEF OpensFit
<1>2. CASE ~KeepsOpen(q) BY <1>2, OpensEmpty DEF DiscardExceptUnsentOpen
<1> QED BY <1>1, <1>2

LEMMA OpensSlices ==
  ASSUME NEW q \in Queue, NEW u \in BOOLEAN, OpensFit(q, u), u => q.prepared = None /\ q.fragments = None
  PROVE  OpensFit(Take(Prepare(q)), FALSE) /\ (~u => OpensFit(Prepare(q), FALSE))
<1> DEFINE s == q.waiting
           n == NextSlice(q)
           p == Prepare(q)
           t == p.waiting
<1>1. p \in Queue BY PrepareType
<1>2. Take(p).waiting = t /\ Take(p).prepared = None BY <1>1 DEF Take, Queue
<1>3. /\ \A i \in 2 .. Len(s) : s[i].type # "open"
      /\ ~u /\ s # << >> => s[1].type # "open"
  BY DEF OpensFit
<1>4. CASE q.prepared # None
  <2>1. p = q /\ ~u BY <1>4 DEF Prepare
  <2> QED BY <1>2, <2>1 DEF OpensFit
<1>5. CASE q.prepared = None /\ (n = None \/ (q.fragments # None /\ ~Last(q.fragments)))
  <2>1. n = None \/ n.idx # 1 BY <1>5, SliceFacts, FragmentFacts
  <2>2. t = s /\ p.prepared = n BY <1>5, <2>1 DEF Prepare
  <2>3. s # << >> => ~u BY <1>5, SliceFacts
  <2> QED BY <1>2, <1>3, <2>1, <2>2, <2>3 DEF OpensFit
<1>6. CASE q.prepared = None /\ n # None /\ (q.fragments = None \/ Last(q.fragments))
  <2>1. s # << >> /\ n.frame = s[1] /\ n.idx = 1 BY <1>6, SliceFacts
  <2>2. t = Tail(s) /\ p.prepared = n BY <1>6, <2>1 DEF Prepare
  <2>3. s \in Seq(Frame) /\ Len(s) \in Nat /\ Len(s) # 0 BY <2>1, QueueFacts
  <2> HIDE DEF s, n, t
  <2>4. Len(t) = Len(s) - 1 /\ \A i \in 1 .. Len(t) : t[i] = s[i + 1] /\ t \in Seq(Frame)
    BY <2>1, <2>2, <2>3, HeadTailProperties
  <2>5. \A i \in 1 .. Len(t) : t[i].type # "open"
    <3> SUFFICES ASSUME NEW i \in 1 .. Len(t) PROVE t[i].type # "open" OBVIOUS
    <3>1. t[i] = s[i + 1] /\ i + 1 \in 2 .. Len(s) BY <2>3, <2>4
    <3> QED BY <1>3, <3>1
  <2>6. \A i \in 2 .. Len(t) : t[i].type # "open" BY <2>5
  <2>7. t # << >> => t[1].type # "open"
    <3> SUFFICES ASSUME t # << >> PROVE 1 \in 1 .. Len(t) BY <2>5
    <3>1. t \in Seq(Frame) BY <2>1, <2>2, <2>3, HeadTailProperties
    <3>2. Len(t) # 0 /\ Len(t) \in Nat BY <3>1, EmptySeq, LenProperties
    <3> QED BY <3>2
  <2>8. ~u => n.frame.type # "open" BY <1>3, <2>1
  <2>9. p.waiting = t BY DEF t
  <2> HIDE DEF p
  <2>10. OpensFit(Take(p), FALSE) /\ (~u => OpensFit(p, FALSE))
    BY <1>2, <2>2, <2>6, <2>7, <2>8, <2>9 DEF OpensFit
  <2> QED BY <2>10 DEF p
<1> QED BY <1>4, <1>5, <1>6

-----------------------------------------------------------------------------
(* Every step keeps every lane in order.                                   *)

LEMMA RowFacts ==
  ASSUME BaseInv, NEW l \in Lanes
  PROVE  /\ queues[l] \in Queue /\ wire[l] \in Seq(Fragment) /\ enqueued[l] \in Nat
         /\ Active(l) \in BOOLEAN /\ (l \in Local /\ Untouched(l)) \in BOOLEAN
         /\ l \in live => Active(l)
         /\ l \in Local /\ Untouched(l) => queues[l].prepared = None /\ queues[l].fragments = None
<1>1. TypeOK BY DEF BaseInv, OpenInv
<1>2. l \in Local /\ Untouched(l) => queues[l].prepared = None /\ queues[l].fragments = None
  BY DEF BaseInv, OpenInv, LaneInv, OpenWaits
<1> QED BY <1>1, <1>2, LaneFacts DEF Active

LEMMA RowStep ==
  ASSUME BaseInv, BaseInv', NEW l \in Lanes, LaneMove(l), Row(l)
  PROVE  Row(l)'
<1> DEFINE q == queues[l]
           w == wire[l]
           e == enqueued[l]
           a == Active(l)
           b == Active(l)'
           u == l \in Local /\ Untouched(l)
<1>1. /\ q \in Queue /\ w \in Seq(Fragment) /\ e \in Nat /\ a \in BOOLEAN /\ b \in BOOLEAN /\ u \in BOOLEAN
      /\ l \in live => a
      /\ u => q.prepared = None /\ q.fragments = None
  BY RowFacts DEF Active
<1>2. LaneFits(q, w, e, a) /\ WireFits(w) /\ OpensFit(q, u) BY DEF Row
<1>3. (b => a) \/ Begins(l) BY DEF LaneMove
<1>4. Begins(l) => q = EmptyQueue /\ w = << >> BY DEF Begins, Unused, Untouched
<1>5. a => LaneFits(q, w, e, TRUE) BY <1>1, <1>2, FitsWeaker
<1>6. wire'[l] = w => (l \in Local /\ Untouched(l))' = u BY DEF Untouched
<1>7. Plain(l, "reset") \in Frame /\ Plain(l, "reset").seq = e + 1 /\ Plain(l, "reset").type = "reset"
  BY FrameType_New DEF Plain, FrameType, BaseInv, OpenInv
<1> SUFFICES /\ LaneFits(queues'[l], wire'[l], enqueued'[l], b) /\ WireFits(wire'[l])
             /\ OpensFit(queues'[l], (l \in Local /\ Untouched(l))')
  BY DEF Row
<1> HIDE DEF q, w, e, a, b, u
<1>8. CASE Stays(l)
  <2>1. queues'[l] = q /\ wire'[l] = w /\ enqueued'[l] = e BY <1>8 DEF Stays, Idles, q, w, e
  <2>2. LaneFits(q, w, e, b) BY <1>1, <1>2, <1>3, <1>4, FitsWeaker, FitsBegins
  <2> QED BY <1>2, <1>6, <2>1, <2>2
<1>9. CASE Empties(l)
  <2>1. /\ queues'[l] = EmptyQueue /\ wire'[l] = w /\ enqueued'[l] = e
        /\ ~Sliceable(q) \/ ~b
    BY <1>9 DEF Empties, Idles, q, w, e, b
  <2>2. LaneFits(EmptyQueue, w, e, b)
    <3>1. CASE Begins(l) BY <1>1, <1>4, <3>1, FitsBegins
    <3>2. CASE b => a BY <1>1, <1>2, <2>1, <3>2, FitsEmpties
    <3> QED BY <1>3, <3>1, <3>2
  <2> QED BY <1>1, <1>2, <1>6, <2>1, <2>2, OpensEmpty
<1>10. CASE Discards(l)
  <2>1. /\ queues'[l] = DiscardExceptUnsentOpen(q) /\ wire'[l] = w /\ enqueued'[l] = e
        /\ a /\ ~b
    BY <1>1, <1>10 DEF Discards, Idles, q, w, e, b
  <2>2. LaneFits(DiscardExceptUnsentOpen(q), w, e, b)
    BY <1>1, <1>5, <2>1, FitsDiscards, FitsWeaker
  <2> QED BY <1>1, <1>2, <1>6, <2>1, <2>2, OpensDiscard
<1>11. CASE Replaces(l)
  <2> DEFINE d == DiscardExceptUnsentOpen(q)
  <2>1. /\ queues'[l] = Put(d, Plain(l, "reset")) /\ wire'[l] = w /\ enqueued'[l] = e + 1
        /\ a /\ ~b
    BY <1>1, <1>11 DEF Replaces, Counts, q, w, e, b
  <2>2. /\ LaneFits(d, w, e, FALSE) /\ d \in Queue /\ d.prepared = None /\ d.fragments = None
        /\ Len(d.waiting) \in {0, 1} /\ (d.waiting # << >> => d.waiting[1].type = "open")
    BY <1>1, <1>5, <2>1, FitsDiscards
  <2>3. w # << >> => w[Len(w)].frame.type # "reset" BY <1>1, <1>5, <2>1, SentFits
  <2>4. OpensFit(d, u) BY <1>1, <1>2, OpensDiscard
  <2> HIDE DEF d
  <2>5. LaneFits(Put(d, Plain(l, "reset")), w, e + 1, FALSE) BY <1>1, <1>7, <2>2, <2>3, FitsReset
  <2>6. Put(d, Plain(l, "reset")) \in Queue BY <1>7, <2>2, PutType
  <2>7. LaneFits(Put(d, Plain(l, "reset")), w, e + 1, b) BY <1>1, <2>1, <2>5, <2>6, FitsWeaker
  <2>8. OpensFit(Put(d, Plain(l, "reset")), u) BY <1>1, <1>7, <2>2, <2>4, OpensPut
  <2> QED BY <1>2, <1>6, <2>1, <2>7, <2>8
<1>12. CASE Fails(l)
  <2>1. /\ queues'[l] = Put(EmptyQueue, Plain(l, "reset")) /\ wire'[l] = w /\ enqueued'[l] = e + 1
        /\ a /\ ~b
    BY <1>1, <1>12 DEF Fails, Counts, q, w, e, b
  <2>2. LaneFits(EmptyQueue, w, e, FALSE) BY <1>1, <1>2, FitsEmpties
  <2>3. w # << >> => w[Len(w)].frame.type # "reset" BY <1>1, <1>5, <2>1, SentFits
  <2>4. EmptyQueue \in Queue /\ Len(EmptyQueue.waiting) \in {0, 1} BY EmptyFacts
  <2>5. LaneFits(Put(EmptyQueue, Plain(l, "reset")), w, e + 1, FALSE)
    BY <1>1, <1>7, <2>2, <2>3, <2>4, EmptyFacts, FitsReset
  <2>6. Put(EmptyQueue, Plain(l, "reset")) \in Queue BY <1>7, <2>4, PutType
  <2>7. LaneFits(Put(EmptyQueue, Plain(l, "reset")), w, e + 1, b) BY <1>1, <2>1, <2>5, <2>6, FitsWeaker
  <2>8. OpensFit(Put(EmptyQueue, Plain(l, "reset")), u) BY <1>1, <1>7, <2>4, OpensEmpty, OpensPut
  <2> QED BY <1>2, <1>6, <2>1, <2>7, <2>8
<1>13. CASE Emits(l)
  <2> DEFINE p == Prepare(q)
  <2>1. /\ queues'[l] = Take(p) /\ wire'[l] = Append(w, p.prepared) /\ enqueued'[l] = e /\ Sliceable(q)
    BY <1>13 DEF Emits, q, w, e
  <2>2. p \in Queue /\ p.prepared \in Fragment BY <1>1, <2>1, PrepareType, SliceType
  <2>3. LaneFits(p, w, e, a) BY <1>1, <1>2, FitsSlices
  <2>4. OpensFit(Take(p), FALSE) BY <1>1, <1>2, OpensSlices
  <2>5. b => a BY <1>3, <1>4, <2>1, EmptyFacts
  <2> HIDE DEF p
  <2>6. LaneFits(Take(p), Append(w, p.prepared), e, a) /\ WireFits(Append(w, p.prepared))
    BY <1>1, <1>2, <2>2, <2>3, FragmentFacts, FitsTakes
  <2>7. Take(p) \in Queue /\ Append(w, p.prepared) \in Seq(Fragment) BY <1>1, <2>2, TakeType, AppendProperties
  <2>8. LaneFits(Take(p), Append(w, p.prepared), e, b) BY <1>1, <2>5, <2>6, <2>7, FitsWeaker
  <2>9. ~Untouched(l)' BY <1>1, <2>1, <2>2, AppendProperties DEF Untouched
  <2>10. (l \in Local /\ Untouched(l))' = FALSE BY <2>9
  <2> QED BY <2>1, <2>4, <2>6, <2>8, <2>10
<1>14. CASE Slices(l)
  <2>1. queues'[l] = Prepare(q) /\ wire'[l] = w /\ enqueued'[l] = e /\ w # << >>
    BY <1>14 DEF Slices, Idles, Untouched, q, w, e
  <2>2. u = FALSE BY <2>1 DEF Untouched, u, w
  <2>3. LaneFits(Prepare(q), w, e, a) BY <1>1, <1>2, FitsSlices
  <2>4. OpensFit(Prepare(q), FALSE) BY <1>1, <1>2, <2>2, OpensSlices
  <2>5. LaneFits(Prepare(q), w, e, b) BY <1>1, <1>3, <1>4, <2>1, <2>3, PrepareType, FitsWeaker
  <2> QED BY <1>2, <1>6, <2>1, <2>2, <2>4, <2>5
<1>15. ASSUME NEW f \in Frame, Gains(l, f)
       PROVE  /\ LaneFits(queues'[l], wire'[l], enqueued'[l], b) /\ WireFits(wire'[l])
              /\ OpensFit(queues'[l], (l \in Local /\ Untouched(l))')
  <2>1. /\ queues'[l] = Put(q, f) /\ wire'[l] = w /\ enqueued'[l] = e + 1 /\ f.seq = e + 1
        /\ f.type = "reset" => ~b
        /\ IF f.type = "open" THEN l \in Local /\ Begins(l) ELSE a
    BY <1>15 DEF Gains, Counts, q, w, e, a, b
  <2>2. LaneFits(Put(q, f), w, e + 1, b)
    <3>1. CASE f.type = "open" BY <1>1, <1>4, <2>1, <3>1, FitsBegins
    <3>2. CASE f.type # "open" BY <1>1, <1>5, <2>1, <3>2, FitsPut
    <3> QED BY <3>1, <3>2
  <2>3. f.type = "open" => u /\ q.waiting = << >> BY <1>4, <2>1, EmptyFacts DEF Begins, Unused, u
  <2>4. OpensFit(Put(q, f), u) BY <1>1, <1>2, <2>3, OpensPut
  <2> QED BY <1>2, <1>6, <2>1, <2>2, <2>4
<1> QED BY <1>8, <1>9, <1>10, <1>11, <1>12, <1>13, <1>14, <1>15 DEF LaneMove

OrderlyInv == BaseInv /\ RowInv

LEMMA OrderlyInit == Init => OrderlyInv
<1> SUFFICES ASSUME Init PROVE OrderlyInv OBVIOUS
<1>1. BaseInv BY BaseInit
<1>2. ASSUME NEW l \in Lanes PROVE Row(l)
  <2>1. queues[l] = EmptyQueue /\ wire[l] = << >> /\ enqueued[l] = 0 BY DEF Init
  <2>2. LaneFits(EmptyQueue, << >>, 0, Active(l)) BY FitsBegins DEF Active
  <2>3. WireFits(<< >>) BY DEF WireFits
  <2>4. OpensFit(EmptyQueue, l \in Local /\ Untouched(l)) BY OpensEmpty
  <2> QED BY <2>1, <2>2, <2>3, <2>4 DEF Row
<1> QED BY <1>1, <1>2 DEF OrderlyInv, RowInv

LEMMA OrderlyStep == OrderlyInv /\ [Next]_vars => OrderlyInv'
<1> SUFFICES ASSUME OrderlyInv, [Next]_vars PROVE OrderlyInv' OBVIOUS
<1>1. BaseInv /\ BaseInv' BY BaseStep DEF OrderlyInv
<1>2. ASSUME NEW l \in Lanes PROVE Row(l)'
  BY <1>1, LaneMoves, RowStep DEF OrderlyInv, RowInv
<1> QED BY <1>1, <1>2 DEF OrderlyInv, RowInv

(* On each lane frames leave in the order they were enqueued, whole and    *)
(* with their fragments contiguous, whatever discards, failures and        *)
(* reslicing do in between (`discardExceptUnsentOpen`, `failLane`,         *)
(* `prepare`).                                                             *)
LEMMA LanesAreInOrder == OrderlyInv => LanesInOrder
BY DEF OrderlyInv, RowInv, Row, WireFits, Goes, LanesInOrder

(* A `reset` is the last frame of its stream on the wire, for every number *)
(* of streams: what `enqueueReset` and `failLane` dropped is gone, and     *)
(* nothing is enqueued on a stream that left the live map.                 *)
THEOREM ResetEndsTheLane == Spec => []ResetIsLast
<1>1. OrderlyInv => ResetIsLast BY DEF OrderlyInv, RowInv, Row, WireFits, Goes, ResetIsLast
<1> QED BY OrderlyInit, OrderlyStep, <1>1, PTL DEF Spec

-----------------------------------------------------------------------------
(* The rotation as a sequence of lanes.                                    *)

Members(o) == {o[i] : i \in DOMAIN o}
Distinct(o) == \A i, j \in DOMAIN o : o[i] = o[j] => i = j
Ahead(o, a, b) == \E i, j \in DOMAIN o : i < j /\ o[i] = a /\ o[j] = b

(* Rotation p is o without some of its lanes, and with those of late at    *)
(* its end.                                                                *)
Moved(o, p, late) ==
    /\ p \in Seq(Lanes) /\ Distinct(p)
    /\ Members(p) \subseteq Members(o) \cup late
    /\ \A a, b \in Lanes : Ahead(p, a, b) => Ahead(o, a, b) \/ b \in late

LEMMA SeqFacts ==
  ASSUME NEW o \in Seq(Lanes)
  PROVE  /\ Len(o) \in Nat /\ DOMAIN o = 1 .. Len(o)
         /\ \A i \in DOMAIN o : i \in Nat /\ 1 <= i /\ i <= Len(o) /\ o[i] \in Lanes
         /\ Members(o) \subseteq Lanes
<1>1. Len(o) \in Nat /\ DOMAIN o = 1 .. Len(o) BY LenProperties
<1>2. \A i \in DOMAIN o : i \in Nat /\ 1 <= i /\ i <= Len(o) /\ o[i] \in Lanes BY <1>1, ElementOfSeq
<1> QED BY <1>1, <1>2 DEF Members

LEMMA TailFacts ==
  ASSUME NEW o \in Seq(Lanes), NEW c \in DOMAIN o
  PROVE  LET y == SubSeq(o, c + 1, Len(o))
         IN  y \in Seq(Lanes) /\ Len(y) = Len(o) - c /\ \A i \in 1 .. Len(o) - c : y[i] = o[c + i]
<1> DEFINE y == SubSeq(o, c + 1, Len(o))
<1>1. Len(o) \in Nat /\ c \in Nat /\ c + 1 \in Nat /\ 1 <= c /\ c <= Len(o) BY SeqFacts
<1>2. \A k \in c + 1 .. Len(o) : o[k] \in Lanes BY <1>1, SeqFacts
<1>3. /\ y \in Seq(Lanes) /\ Len(y) = IF c + 1 <= Len(o) THEN Len(o) - (c + 1) + 1 ELSE 0
      /\ \A i \in 1 .. Len(o) - (c + 1) + 1 : y[i] = o[c + 1 + i - 1]
  BY <1>1, <1>2, SubSeqProperties
<1> HIDE DEF y
<1> DEFINE n == Len(o)
<1>4. n \in Nat /\ c \in Nat /\ c <= n BY <1>1
<1> HIDE DEF n
<1>5. n - (c + 1) + 1 = n - c BY <1>4
<1>6. \A i \in 1 .. n - c : c + 1 + i - 1 = c + i BY <1>4
<1>7. (IF c + 1 <= n THEN n - (c + 1) + 1 ELSE 0) = n - c BY <1>4
<1>8. Len(y) = n - c BY <1>3, <1>7 DEF n
<1>9. \A i \in 1 .. n - c : y[i] = o[c + i] BY <1>3, <1>5, <1>6 DEF n
<1> QED BY <1>3, <1>8, <1>9 DEF y, n

LEMMA MovedNone ==
  /\ \A o \in Seq(Lanes) : Distinct(o) => Moved(o, o, {})
  /\ \A o : Moved(o, << >>, {})
  /\ Members(<< >>) = {}
BY DEF Moved, Members, Distinct, Ahead

(* Some lanes leave.                                                       *)
LEMMA MovedThin ==
  ASSUME NEW o \in Seq(Lanes), Distinct(o), NEW p \in Seq(Lanes), NEW h,
         \A k \in DOMAIN p : h[k] \in DOMAIN o /\ p[k] = o[h[k]],
         \A k, m \in DOMAIN p : k < m => h[k] < h[m]
  PROVE  Moved(o, p, {})
<1>1. Distinct(p)
  <2> SUFFICES ASSUME NEW i \in DOMAIN p, NEW j \in DOMAIN p, p[i] = p[j] PROVE i = j BY DEF Distinct
  <2>1. h[i] = h[j] BY DEF Distinct
  <2>2. h[i] \in Nat /\ h[j] \in Nat /\ i \in Nat /\ j \in Nat BY SeqFacts
  <2>3. ~(h[i] < h[j]) /\ ~(h[j] < h[i]) BY <2>1, <2>2
  <2>4. ~(i < j) /\ ~(j < i) BY <2>3
  <2> QED BY <2>2, <2>4
<1>2. Members(p) \subseteq Members(o) BY DEF Members
<1>3. ASSUME NEW a \in Lanes, NEW b \in Lanes, Ahead(p, a, b) PROVE Ahead(o, a, b)
  BY <1>3 DEF Ahead
<1> QED BY <1>1, <1>2, <1>3 DEF Moved

(* A lane comes in behind all others.                                      *)
LEMMA MovedAppend ==
  ASSUME NEW o \in Seq(Lanes), NEW p, NEW late, Moved(o, p, late), NEW l \in Lanes, l \notin Members(p)
  PROVE  /\ Moved(o, Append(p, l), late \cup {l})
         /\ Members(Append(p, l)) = Members(p) \cup {l}
         /\ \A b \in Lanes : ~Ahead(Append(p, l), l, b)
<1> DEFINE r == Append(p, l)
<1>1. p \in Seq(Lanes) BY DEF Moved
<1>2. /\ r \in Seq(Lanes) /\ Len(r) = Len(p) + 1 /\ r[Len(p) + 1] = l
      /\ \A i \in 1 .. Len(p) : r[i] = p[i]
  BY <1>1, AppendProperties
<1>3. Len(p) \in Nat /\ DOMAIN p = 1 .. Len(p) /\ DOMAIN r = 1 .. Len(p) + 1 BY <1>1, <1>2, SeqFacts
<1> HIDE DEF r
<1>4. \A i \in DOMAIN r : (i \in DOMAIN p /\ r[i] = p[i] /\ r[i] # l /\ i <= Len(p)) \/ (i = Len(p) + 1 /\ r[i] = l)
  <2> SUFFICES ASSUME NEW i \in DOMAIN r, i # Len(p) + 1 PROVE i \in DOMAIN p /\ r[i] = p[i] /\ r[i] # l /\ i <= Len(p)
    BY <1>2
  <2>1. i \in DOMAIN p /\ i <= Len(p) BY <1>3
  <2> QED BY <1>2, <1>3, <2>1 DEF Members
<1>5. \A i \in DOMAIN p : i \in DOMAIN r /\ r[i] = p[i] BY <1>2, <1>3
<1>6. Len(p) + 1 \in DOMAIN r /\ r[Len(p) + 1] = l BY <1>2, <1>3
<1>7. Distinct(r) BY <1>4, <1>1 DEF Moved, Distinct
<1>8. Members(r) = Members(p) \cup {l} BY <1>4, <1>5, <1>6 DEF Members
<1>9. ASSUME NEW a \in Lanes, NEW b \in Lanes, Ahead(r, a, b) PROVE b = l \/ Ahead(p, a, b)
  <2>1. PICK i, j \in DOMAIN r : i < j /\ r[i] = a /\ r[j] = b BY <1>9 DEF Ahead
  <2>2. CASE j = Len(p) + 1 BY <1>6, <2>1, <2>2
  <2>3. CASE j # Len(p) + 1
    <3>1. j \in DOMAIN p /\ r[j] = p[j] /\ j <= Len(p) BY <1>4, <2>3
    <3>2. i # Len(p) + 1 BY <1>3, <2>1, <3>1
    <3>3. i \in DOMAIN p /\ r[i] = p[i] BY <1>4, <3>2
    <3> QED BY <2>1, <3>1, <3>3 DEF Ahead
  <2> QED BY <2>2, <2>3
<1>10. ASSUME NEW b \in Lanes, Ahead(r, l, b) PROVE FALSE
  <2>1. PICK i, j \in DOMAIN r : i < j /\ r[i] = l /\ r[j] = b BY <1>10 DEF Ahead
  <2>2. i = Len(p) + 1 BY <1>4, <2>1
  <2> QED BY <1>3, <2>1, <2>2
<1>11. Moved(o, r, late \cup {l})
  BY <1>2, <1>7, <1>8, <1>9 DEF Moved
<1> QED BY <1>8, <1>10, <1>11 DEF r

(* Writer.retire.                                                          *)
LEMMA DropMoved ==
  ASSUME TypeOK, Distinct(order), NEW l \in Lanes
  PROVE  Moved(order, Drop(l), {}) /\ Members(Drop(l)) = Members(order) \ {l}
<1>1. order \in Seq(Lanes) /\ Drop(l) \in Seq(Lanes) BY LaneFacts, DropType
<1>2. Len(order) \in Nat /\ DOMAIN order = 1 .. Len(order) BY PlaceFacts
<1>3. CASE ~Registered(l, order)
  <2>1. Drop(l) = order BY <1>3 DEF Drop
  <2>2. l \notin Members(order) BY <1>3 DEF Registered, Members
  <2> QED BY <1>1, <2>1, <2>2, MovedNone
<1>4. CASE Registered(l, order)
  <2> DEFINE c == CHOOSE i \in DOMAIN order : order[i] = l
             p == Drop(l)
             h == [k \in DOMAIN p |-> IF k < c THEN k ELSE k + 1]
  <2>1. c \in DOMAIN order /\ order[c] = l BY <1>4 DEF Registered
  <2>2. p = SubSeq(order, 1, c - 1) \o SubSeq(order, c + 1, Len(order)) BY <1>4 DEF Drop
  <2> HIDE DEF c
  <2>3. c \in Nat /\ 1 <= c /\ c <= Len(order) BY <1>2, <2>1
  <2> DEFINE x == SubSeq(order, 1, c - 1)
             y == SubSeq(order, c + 1, Len(order))
  <2>4. x \in Seq(Lanes) /\ Len(x) = c - 1 /\ \A i \in 1 .. c - 1 : x[i] = order[i]
    <3>1. \A i \in 1 .. c - 1 : order[i] \in Lanes BY <1>1, <1>2, <2>3
    <3> QED BY <1>1, <2>3, <3>1, SubSeqProperties
  <2>5. y \in Seq(Lanes) /\ Len(y) = Len(order) - c /\ \A i \in 1 .. Len(order) - c : y[i] = order[c + i]
    BY <1>1, <2>1, TailFacts
  <2> HIDE DEF x, y, p
  <2>6. p = x \o y BY <2>2 DEF x, y
  <2>7. /\ Len(p) = Len(order) - 1
        /\ \A i \in 1 .. Len(p) : p[i] = IF i <= Len(x) THEN x[i] ELSE y[i - Len(x)]
    <3>1. /\ Len(p) = Len(x) + Len(y)
          /\ \A i \in 1 .. Len(x) + Len(y) : p[i] = IF i <= Len(x) THEN x[i] ELSE y[i - Len(x)]
      BY <2>4, <2>5, <2>6, ConcatProperties
    <3>2. Len(x) + Len(y) = Len(order) - 1
      <4> DEFINE n == Len(order)
      <4>1. n \in Nat /\ Len(x) = c - 1 /\ Len(y) = n - c BY <1>2, <2>4, <2>5
      <4> HIDE DEF n
      <4>2. Len(x) + Len(y) = n - 1 BY <2>3, <4>1
      <4> QED BY <4>2 DEF n
    <3> QED BY <3>1, <3>2
  <2>8. p \in Seq(Lanes) BY <1>1 DEF p
  <2>9. DOMAIN p = 1 .. Len(order) - 1 BY <2>7, <2>8, SeqFacts
  <2>10. \A k \in DOMAIN p : k \in Nat /\ h[k] \in DOMAIN order /\ p[k] = order[h[k]] /\ h[k] # c
    <3> SUFFICES ASSUME NEW k \in DOMAIN p PROVE h[k] \in DOMAIN order /\ p[k] = order[h[k]] /\ h[k] # c
      BY <2>9
    <3>1. k \in Nat /\ 1 <= k /\ k <= Len(order) - 1 BY <1>2, <2>9
    <3>2. CASE k < c
      <4>1. k <= c - 1 /\ k \in 1 .. c - 1 BY <2>3, <3>1, <3>2
      <4>2. p[k] = order[k] BY <2>4, <2>7, <2>9, <4>1
      <4> QED BY <1>2, <2>3, <3>1, <3>2, <4>2
    <3>3. CASE ~(k < c)
      <4>1. ~(k <= c - 1) /\ k - (c - 1) \in 1 .. Len(order) - c /\ c + (k - (c - 1)) = k + 1
        BY <1>2, <2>3, <3>1, <3>3
      <4>2. p[k] = y[k - Len(x)] BY <2>4, <2>7, <2>9, <4>1
      <4>3. p[k] = order[k + 1] BY <2>4, <2>5, <4>1, <4>2
      <4> QED BY <1>2, <2>3, <3>1, <3>3, <4>3
    <3> QED BY <3>2, <3>3
  <2>11. \A k, m \in DOMAIN p : k < m => h[k] < h[m] BY <2>3, <2>10
  <2>12. Moved(order, p, {})
    <3>1. \A k \in DOMAIN p : h[k] \in DOMAIN order /\ p[k] = order[h[k]] BY <2>10
    <3> HIDE DEF h
    <3> QED BY <1>1, <2>8, <2>11, <3>1, MovedThin
  <2>13. l \notin Members(p)
    <3> SUFFICES ASSUME NEW k \in DOMAIN p, p[k] = l PROVE FALSE BY DEF Members
    <3>1. h[k] = c BY <2>1, <2>10 DEF Distinct
    <3> QED BY <2>10, <3>1
  <2>14. ASSUME NEW i \in DOMAIN order, order[i] # l PROVE order[i] \in Members(p)
    <3>1. i \in Nat /\ i # c /\ 1 <= i /\ i <= Len(order) BY <1>2, <2>1, <2>14
    <3>2. CASE i < c
      <4>1. i \in DOMAIN p /\ h[i] = i BY <1>2, <2>3, <2>9, <3>1, <3>2
      <4> QED BY <2>10, <4>1 DEF Members
    <3>3. CASE ~(i < c)
      <4>1. i - 1 \in DOMAIN p /\ h[i - 1] = i BY <1>2, <2>3, <2>9, <3>1, <3>3
      <4> QED BY <2>10, <4>1 DEF Members
    <3> QED BY <3>2, <3>3
  <2>15. Members(p) = Members(order) \ {l}
    <3>1. Members(p) \subseteq Members(order) BY <2>12 DEF Moved
    <3> QED BY <2>13, <2>14, <3>1 DEF Members
  <2> QED BY <2>12, <2>15 DEF p
<1> QED BY <1>3, <1>4

(* The rotation has turned past position i.                                *)
LEMMA RotatedMoved ==
  ASSUME TypeOK, Distinct(order), NEW i \in DOMAIN order
  PROVE  LET kept == {CONNECTION_LANE} \cap Asked(i - 1)
         IN  /\ Moved(order, Rotated(i), kept)
             /\ Members(Rotated(i)) = (Members(order) \ Asked(i)) \cup kept
             /\ order[i] \notin Members(Rotated(i))
<1>1. order \in Seq(Lanes) /\ CONNECTION_LANE \in Lanes BY LaneFacts
<1>2. Len(order) \in Nat /\ DOMAIN order = 1 .. Len(order) /\ i \in Nat /\ 1 <= i /\ i <= Len(order)
  BY PlaceFacts
<1> DEFINE y == SubSeq(order, i + 1, Len(order))
           h == [k \in DOMAIN y |-> k + i]
           kept == {CONNECTION_LANE} \cap Asked(i - 1)
<1>3. y \in Seq(Lanes) /\ Len(y) = Len(order) - i /\ \A k \in 1 .. Len(order) - i : y[k] = order[i + k]
  BY <1>1, <1>2, TailFacts
<1> HIDE DEF y
<1>4. DOMAIN y = 1 .. Len(order) - i BY <1>3, SeqFacts
<1>5. \A k \in DOMAIN y : k \in Nat /\ h[k] \in DOMAIN order /\ y[k] = order[h[k]] /\ h[k] > i
  BY <1>2, <1>3, <1>4
<1>6. Moved(order, y, {})
  <2>1. \A k \in DOMAIN y : h[k] \in DOMAIN order /\ y[k] = order[h[k]] BY <1>5
  <2>2. \A k, m \in DOMAIN y : k < m => h[k] < h[m] BY <1>2, <1>5
  <2> HIDE DEF h
  <2> QED BY <1>1, <1>3, <2>1, <2>2, MovedThin
<1>7. \A j \in 1 .. i : j \in DOMAIN order BY <1>2
<1>8. Members(y) = Members(order) \ Asked(i)
  <2>1. ASSUME NEW k \in DOMAIN y PROVE y[k] \in Members(order) \ Asked(i)
    <3>1. ASSUME NEW j \in 1 .. i, order[j] = y[k] PROVE FALSE
      <4>1. j = h[k] BY <1>5, <1>7, <3>1 DEF Distinct
      <4> QED BY <1>2, <1>5, <4>1
    <3> QED BY <1>5, <3>1 DEF Members, Asked
  <2>2. ASSUME NEW j \in DOMAIN order, order[j] \notin Asked(i) PROVE order[j] \in Members(y)
    <3>1. j \in Nat /\ j > i /\ j <= Len(order) BY <1>2, <2>2 DEF Asked
    <3>2. j - i \in DOMAIN y /\ h[j - i] = j BY <1>2, <1>4, <3>1
    <3> QED BY <1>5, <3>2 DEF Members
  <2> QED BY <2>1, <2>2 DEF Members
<1>9. order[i] \in Asked(i) /\ Asked(i - 1) \subseteq Asked(i)
  <2>1. i \in 1 .. i /\ 1 .. i - 1 \subseteq 1 .. i BY <1>2
  <2> QED BY <2>1 DEF Asked
<1>10. order[i] \notin Asked(i - 1)
  <2>1. ASSUME NEW j \in 1 .. i - 1, order[j] = order[i] PROVE FALSE
    <3>1. j \in 1 .. i /\ j # i BY <1>2
    <3> QED BY <1>7, <2>1, <3>1 DEF Distinct
  <2> QED BY <2>1 DEF Asked
<1>11. CASE CONNECTION_LANE \in Asked(i - 1)
  <2>1. Kept(i - 1) = <<CONNECTION_LANE>> BY <1>11 DEF Kept, Asked
  <2>2. Rotated(i) = Append(y, CONNECTION_LANE)
    <3>1. Append(y, CONNECTION_LANE) = y \o <<CONNECTION_LANE>> BY <1>1, <1>3, AppendIsConcat
    <3> QED BY <2>1, <3>1 DEF Rotated, y
  <2>3. CONNECTION_LANE \notin Members(y) BY <1>8, <1>9, <1>11
  <2>4. kept = {CONNECTION_LANE} BY <1>11
  <2>5. Moved(order, Rotated(i), {} \cup kept) /\ Members(Rotated(i)) = Members(y) \cup kept
    <3>1. /\ Moved(order, Append(y, CONNECTION_LANE), {} \cup {CONNECTION_LANE})
          /\ Members(Append(y, CONNECTION_LANE)) = Members(y) \cup {CONNECTION_LANE}
      BY <1>1, <1>6, <2>3, MovedAppend
    <3> QED BY <2>2, <2>4, <3>1
  <2>6. {} \cup kept = kept OBVIOUS
  <2> QED BY <1>8, <1>9, <1>10, <2>5, <2>6
<1>12. CASE CONNECTION_LANE \notin Asked(i - 1)
  <2>1. Kept(i - 1) = << >> BY <1>12 DEF Kept, Asked
  <2>2. Rotated(i) = y BY <1>1, <1>3, <2>1, ConcatEmptySeq DEF Rotated, y
  <2>3. kept = {} BY <1>12
  <2> QED BY <1>6, <1>8, <1>9, <2>2, <2>3
<1> QED BY <1>11, <1>12

-----------------------------------------------------------------------------
(* What a step does to the rotation.                                       *)

InRotation == \A l \in Lanes : HasWork(queues[l]) => l \in Members(order)

(* Lane b comes in or starts to wait anew.                                 *)
Late(b) ==
    \/ b \notin Members(order) \/ ~Sliceable(queues[b]) \/ wire'[b] # wire[b]
    \/ queues'[b] = Put(EmptyQueue, Plain(b, "reset")) /\ Anew(b)

OrderMove ==
    /\ Distinct(order')
    /\ \A l \in Members(order') : l \in Members(order) \/ enqueued'[l] # enqueued[l]
    /\ \A a, b \in Lanes : Ahead(order', a, b) => Ahead(order, a, b) \/ Late(b)
    /\ InRotation'

LEMMA WorkFacts ==
  /\ ~HasWork(EmptyQueue)
  /\ \A q \in Queue : HasWork(DiscardExceptUnsentOpen(q)) => HasWork(q)
  /\ \A q \in Queue : Sliceable(q) => HasWork(q)
  /\ \A q \in Queue : ~HasWork(DiscardExceptUnsentOpen(q)) => DiscardExceptUnsentOpen(q) = EmptyQueue
<1>1. ~HasWork(EmptyQueue) BY EmptyFacts DEF HasWork
<1>2. ASSUME NEW q \in Queue, KeepsOpen(q) PROVE HasWork(q) /\ HasWork(DiscardExceptUnsentOpen(q))
  <2>1. DiscardExceptUnsentOpen(q).waiting = <<Head(q.waiting)>>
    BY <1>2 DEF DiscardExceptUnsentOpen, EmptyQueue
  <2>2. <<Head(q.waiting)>> # << >> OBVIOUS
  <2> QED BY <1>2, <2>1, <2>2 DEF KeepsOpen, HasWork
<1>3. ASSUME NEW q \in Queue, Sliceable(q) PROVE HasWork(q)
  BY <1>3, SliceFacts DEF Sliceable, HasWork
<1>4. \A q \in Queue : ~KeepsOpen(q) => DiscardExceptUnsentOpen(q) = EmptyQueue BY DEF DiscardExceptUnsentOpen
<1> QED BY <1>1, <1>2, <1>3, <1>4

LEMMA EnqueueOrder ==
  ASSUME TypeOK, Distinct(order), InRotation, NEW k \in Lanes, NEW f \in Frame, EnqueueOn(queues, order, k, f)
  PROVE  OrderMove
<1> USE LaneFacts
<1>1. /\ queues' = [queues EXCEPT ![k] = Put(@, f)] /\ enqueued' = [enqueued EXCEPT ![k] = @ + 1]
      /\ order' = IF Registered(k, order) THEN order ELSE Append(order, k)
  BY DEF EnqueueOn
<1>2. \A l \in Lanes : l # k => queues'[l] = queues[l] BY <1>1
<1>3. enqueued'[k] # enqueued[k] BY <1>1
<1>4. CASE k \in Members(order)
  <2>1. order' = order BY <1>1, <1>4 DEF Registered, Members
  <2>2. InRotation' BY <1>2, <1>4, <2>1 DEF InRotation
  <2> QED BY <2>1, <2>2 DEF OrderMove
<1>5. CASE k \notin Members(order)
  <2>1. order' = Append(order, k) BY <1>1, <1>5 DEF Registered, Members
  <2>2. /\ Moved(order, order', {} \cup {k})
        /\ Members(order') = Members(order) \cup {k}
    BY <1>5, <2>1, MovedNone, MovedAppend, ZenonT(40)
  <2>3. InRotation' BY <1>2, <2>2 DEF InRotation
  <2>4. Late(k) BY <1>5 DEF Late
  <2> QED BY <1>3, <2>2, <2>3, <2>4 DEF OrderMove, Moved
<1> QED BY <1>4, <1>5

(* The peer dies.                                                          *)
LEMMA DeadOrder ==
  ASSUME order' = << >>, queues' = [l \in Lanes |-> EmptyQueue]
  PROVE  OrderMove
BY WorkFacts DEF OrderMove, InRotation, Distinct, Members, Ahead

LEMMA FailLaneOrder ==
  ASSUME TypeOK, isOpen, NEW q \in [Lanes -> Queue], NEW o, NEW u \in BOOLEAN, NEW k \in Lanes, FailLane(k, q, o, u),
         Restart(k), q[k] = EmptyQueue, NEW late,
         k \in live => Moved(order, o, late) /\ k \notin Members(o),
         \A b \in late : Late(b) /\ b \in Members(order),
         k \in live => \A l \in Lanes : HasWork(q[l]) => l \in Members(o)
  PROVE  OrderMove
<1> USE LaneFacts
<1>1. CASE k \notin live
  <2>1. order' = << >> /\ queues' = [l \in Lanes |-> EmptyQueue] BY <1>1 DEF FailLane, DieWith
  <2> QED BY <2>1, DeadOrder
<1>2. CASE k \in live /\ u
  <2>1. order' = o /\ queues' = q BY <1>2 DEF FailLane
  <2> QED BY <1>2, <2>1 DEF OrderMove, Moved, InRotation
<1>3. CASE k \in live /\ ~u
  <2>1. /\ queues' = [q EXCEPT ![k] = Put(@, Plain(k, "reset"))] /\ enqueued' = [enqueued EXCEPT ![k] = @ + 1]
        /\ order' = IF Registered(k, o) THEN o ELSE Append(o, k)
    BY <1>3 DEF FailLane, EnqueueOn
  <2>2. order' = Append(o, k) BY <1>3, <2>1 DEF Registered, Members
  <2>3. Moved(order, order', late \cup {k}) /\ Members(order') = Members(o) \cup {k}
    BY <1>3, <2>2, MovedAppend
  <2>4. Members(o) \subseteq Members(order) BY <1>3 DEF Moved
  <2>5. enqueued'[k] # enqueued[k] BY <2>1
  <2>6. Late(k)
    <3>1. queues'[k] = Put(EmptyQueue, Plain(k, "reset")) BY <2>1
    <3>2. Anew(k) BY DEF Restart, Anew
    <3> QED BY <3>1, <3>2 DEF Late
  <2>7. InRotation'
    <3>1. \A l \in Lanes : l # k => queues'[l] = q[l] BY <2>1
    <3> QED BY <1>3, <2>3, <3>1 DEF InRotation
  <2> QED BY <2>3, <2>4, <2>5, <2>6, <2>7 DEF OrderMove, Moved
<1> QED BY <1>1, <1>2, <1>3

(* Asking lanes up to position i loses no work.                            *)
LEMMA RotatedOrder ==
  ASSUME TypeOK, Distinct(order), InRotation, NEW i \in DOMAIN order, FirstSliceable(i)
  PROVE  /\ Moved(order, Rotated(i), {CONNECTION_LANE} \cap Asked(i - 1))
         /\ \A b \in {CONNECTION_LANE} \cap Asked(i - 1) : Late(b) /\ b \in Members(order)
         /\ order[i] \notin Members(Rotated(i))
         /\ \A l \in Lanes : l # order[i] /\ HasWork(Retired(i - 1)[l]) => l \in Members(Rotated(i))
<1> DEFINE kept == {CONNECTION_LANE} \cap Asked(i - 1)
<1>1. Len(order) \in Nat /\ DOMAIN order = 1 .. Len(order) /\ i \in Nat /\ 1 <= i /\ i <= Len(order)
  BY PlaceFacts
<1>2. \A j \in 1 .. i - 1 : j \in DOMAIN order /\ ~Sliceable(queues[order[j]])
  BY <1>1 DEF FirstSliceable
<1>3. \A b \in kept : Late(b) /\ b \in Members(order) BY <1>2 DEF Late, Asked, Members
<1>4. /\ Moved(order, Rotated(i), kept)
      /\ Members(Rotated(i)) = (Members(order) \ Asked(i)) \cup kept
      /\ order[i] \notin Members(Rotated(i))
  BY RotatedMoved
<1>5. ASSUME NEW l \in Lanes, l # order[i], HasWork(Retired(i - 1)[l]) PROVE l \in Members(Rotated(i))
  <2>1. l \notin Asked(i - 1) /\ HasWork(queues[l]) BY <1>5, WorkFacts DEF Retired
  <2>2. l \notin Asked(i)
    <3>1. ASSUME NEW j \in 1 .. i, order[j] = l PROVE FALSE
      <4>1. j # i BY <1>5, <3>1
      <4>2. j \in 1 .. i - 1 BY <1>1, <4>1
      <4> QED BY <2>1, <3>1, <4>2 DEF Asked
    <3> QED BY <3>1 DEF Asked
  <2> QED BY <1>4, <2>1, <2>2 DEF InRotation
<1> QED BY <1>3, <1>4, <1>5

LEMMA OrderMoves ==
  ASSUME BaseInv, Distinct(order), InRotation, [Next]_vars
  PROVE  OrderMove
<1> USE LaneFacts
<1>1. TypeOK /\ DeadIsEmpty BY DEF BaseInv, OpenInv
<1>2. CASE Open
  <2>1. PICK f \in NewFrame(nextId, "open") : EnqueueOn(queues, order, nextId, f)
    BY <1>2 DEF Open, Enqueue
  <2>2. nextId \in Lanes BY <1>1, <1>2, WriterAssumption DEF Open, Local, TypeOK, PeerType
  <2>3. f \in Frame BY <1>1, <2>1, <2>2, FrameType_New DEF FrameType
  <2> QED BY <1>1, <2>1, <2>2, <2>3, EnqueueOrder
<1>3. CASE Control
  <2>1. EnqueueOn(queues, order, CONNECTION_LANE, Plain(CONNECTION_LANE, "control")) BY <1>3 DEF Control, Enqueue
  <2>2. Plain(CONNECTION_LANE, "control") \in Frame BY <1>1, FrameType_New DEF FrameType
  <2> QED BY <1>1, <2>1, <2>2, EnqueueOrder
<1>4. CASE Die
  <2>1. order' = << >> /\ queues' = [l \in Lanes |-> EmptyQueue] BY <1>4 DEF Die, DieWith
  <2> QED BY <2>1, DeadOrder
<1>5. ASSUME UNCHANGED <<queues, order>> PROVE OrderMove
  BY <1>5 DEF OrderMove, InRotation
<1>6. CASE Stop \/ Wake \/ LoopEnds \/ SendFindsClosed \/ UNCHANGED vars
  <2>1. UNCHANGED <<queues, order>> BY <1>6 DEF Stop, Wake, LoopEnds, SendFindsClosed, vars, writerVars
  <2> QED BY <1>5, <2>1
<1>7. ASSUME NEW s \in Streams, Accept(s) \/ RemoteEnd(s) \/ GoawayFails(s) PROVE OrderMove
  <2>1. UNCHANGED <<queues, order>> BY <1>7 DEF Accept, RemoteEnd, GoawayFails, writerVars
  <2> QED BY <1>5, <2>1
<1>8. ASSUME NEW s \in Streams, Send(s) \/ HandlerError(s) PROVE OrderMove
  <2>1. PICK t \in {"data", "reset"} : \E f \in NewFrame(s, t) : EnqueueOn(queues, order, s, f)
    BY <1>8 DEF Send, HandlerError, Enqueue
  <2>2. PICK f \in NewFrame(s, t) : EnqueueOn(queues, order, s, f) BY <2>1
  <2>3. f \in Frame BY <1>1, <2>2, FrameType_New DEF FrameType
  <2> QED BY <1>1, <2>2, <2>3, EnqueueOrder
<1>9. ASSUME NEW s \in Streams, Reset(s) PROVE OrderMove
  <2> DEFINE d == DiscardExceptUnsentOpen(queues[s])
             o == DiscardedOrder(s)
  <2>1. /\ queues' = [DiscardedQueues(s) EXCEPT ![s] = Put(@, Plain(s, "reset"))]
        /\ order' = IF Registered(s, o) THEN o ELSE Append(o, s)
        /\ enqueued' = [enqueued EXCEPT ![s] = @ + 1] /\ Restart(s)
    BY <1>9 DEF Reset, EnqueueOn
  <2>2. DiscardedQueues(s) = [queues EXCEPT ![s] = d] BY <1>1 DEF DiscardedQueues
  <2>3. queues'[s] = Put(d, Plain(s, "reset")) /\ \A l \in Lanes : l # s => queues'[l] = queues[l]
    BY <1>1, <2>1, <2>2
  <2>4. enqueued'[s] # enqueued[s] BY <1>1, <2>1
  <2>5. CASE HasWork(d)
    <3>1. o = order /\ s \in Members(order) BY <1>1, <2>5, WorkFacts DEF DiscardedOrder, InRotation
    <3>2. order' = order BY <2>1, <3>1 DEF Registered, Members
    <3>3. InRotation' BY <2>3, <3>1, <3>2 DEF InRotation
    <3> QED BY <3>2, <3>3 DEF OrderMove
  <2>6. CASE ~HasWork(d)
    <3>1. d = EmptyQueue /\ o = Drop(s) BY <1>1, <2>6, WorkFacts DEF DiscardedOrder
    <3>2. Moved(order, o, {}) /\ Members(o) = Members(order) \ {s} BY <1>1, <3>1, DropMoved
    <3>3. order' = Append(o, s) BY <2>1, <3>2 DEF Registered, Members
    <3>4. Moved(order, order', {} \cup {s}) /\ Members(order') = Members(o) \cup {s}
      BY <1>1, <3>2, <3>3, MovedAppend
    <3>5. InRotation' BY <2>3, <3>2, <3>4 DEF InRotation
    <3>6. Anew(s) BY <1>1, <2>1 DEF Restart, Anew
    <3>7. Late(s) BY <2>3, <3>1, <3>6 DEF Late
    <3> QED BY <2>4, <3>2, <3>4, <3>5, <3>7 DEF OrderMove, Moved
  <2> QED BY <2>5, <2>6
<1>10. ASSUME NEW s \in Streams, RemoteReset(s) PROVE OrderMove
  <2> DEFINE d == DiscardExceptUnsentOpen(queues[s])
  <2>1. queues' = DiscardedQueues(s) /\ order' = DiscardedOrder(s) BY <1>10 DEF RemoteReset
  <2>2. DiscardedQueues(s) = [queues EXCEPT ![s] = d] BY <1>1 DEF DiscardedQueues
  <2>3. queues'[s] = d /\ \A l \in Lanes : l # s => queues'[l] = queues[l]
    BY <1>1, <2>1, <2>2
  <2>4. CASE HasWork(d)
    <3>1. order' = order /\ s \in Members(order) BY <1>1, <2>1, <2>4, WorkFacts DEF DiscardedOrder, InRotation
    <3>2. InRotation' BY <2>3, <3>1 DEF InRotation
    <3> QED BY <3>1, <3>2 DEF OrderMove
  <2>5. CASE ~HasWork(d)
    <3>1. order' = Drop(s) BY <2>1, <2>5 DEF DiscardedOrder
    <3>2. Moved(order, order', {}) /\ Members(order') = Members(order) \ {s} BY <1>1, <3>1, DropMoved
    <3>3. InRotation' BY <2>3, <2>5, <3>2 DEF InRotation
    <3> QED BY <3>2, <3>3 DEF OrderMove, Moved
  <2> QED BY <2>4, <2>5
<1>11. CASE NextFrame
  <2>1. PICK i \in DOMAIN order :
           /\ FirstSliceable(i)
           /\ queues' = [Retired(i - 1) EXCEPT ![order[i]] = Take(Prepare(queues[order[i]]))]
           /\ order' = Append(Rotated(i), order[i])
           /\ wire' = [wire EXCEPT ![order[i]] = Append(@, Prepare(queues[order[i]]).prepared)]
    BY <1>11 DEF NextFrame
  <2>2. order[i] \in Lanes /\ i - 1 \in Nat /\ i - 1 <= Len(order) BY <1>1, PlaceFacts
  <2>3. Retired(i - 1) \in [Lanes -> Queue] BY <1>1, <2>2, RotationType
  <2> DEFINE late == {CONNECTION_LANE} \cap Asked(i - 1)
  <2>4. /\ Moved(order, Rotated(i), late)
        /\ \A b \in late : Late(b) /\ b \in Members(order)
        /\ order[i] \notin Members(Rotated(i))
        /\ \A l \in Lanes : l # order[i] /\ HasWork(Retired(i - 1)[l]) => l \in Members(Rotated(i))
    BY <1>1, <2>1, RotatedOrder
  <2> HIDE DEF late
  <2>5. Moved(order, order', late \cup {order[i]}) /\ Members(order') = Members(Rotated(i)) \cup {order[i]}
    BY <1>1, <2>1, <2>2, <2>4, MovedAppend
  <2>6. InRotation'
    <3>1. \A l \in Lanes : l # order[i] => queues'[l] = Retired(i - 1)[l] BY <2>1, <2>3
    <3> QED BY <2>4, <2>5, <3>1 DEF InRotation
  <2>7. Late(order[i])
    <3>1. queues[order[i]] \in Queue /\ wire[order[i]] \in Seq(Fragment) BY <1>1, <2>2
    <3>2. Prepare(queues[order[i]]).prepared \in Fragment BY <2>1, <3>1, SliceType DEF FirstSliceable
    <3>3. Len(wire'[order[i]]) = Len(wire[order[i]]) + 1 /\ Len(wire[order[i]]) \in Nat
      BY <1>1, <2>1, <2>2, <3>1, <3>2, AppendProperties, LenProperties
    <3>4. wire'[order[i]] # wire[order[i]] BY <3>3
    <3> QED BY <3>4 DEF Late
  <2>8. order[i] \in Members(order) BY DEF Members
  <2>9. Members(order') \subseteq Members(order) BY <2>4, <2>5, <2>8 DEF Moved
  <2> QED BY <2>4, <2>5, <2>6, <2>7, <2>9 DEF OrderMove, Moved
<1>12. CASE NextFrameRaises
  <2>1. PICK i \in DOMAIN order :
           /\ FirstSliceable(i) /\ PrepareRaises(queues[order[i]])
           /\ FailLane(order[i], [Retired(i - 1) EXCEPT ![order[i]] = EmptyQueue],
                       Rotated(i) \o (IF order[i] = CONNECTION_LANE THEN <<order[i]>> ELSE << >>),
                       UnsentOpen(queues[order[i]]))
           /\ Restart(order[i])
    BY <1>12 DEF NextFrameRaises
  <2> DEFINE k == order[i]
             q == [Retired(i - 1) EXCEPT ![k] = EmptyQueue]
             o == Rotated(i) \o (IF order[i] = CONNECTION_LANE THEN <<order[i]>> ELSE << >>)
             u == UnsentOpen(queues[k])
             late == {CONNECTION_LANE} \cap Asked(i - 1)
  <2>2. k \in Lanes /\ i - 1 \in Nat /\ i - 1 <= Len(order) BY <1>1, PlaceFacts
  <2>3. Retired(i - 1) \in [Lanes -> Queue] BY <1>1, <2>2, RotationType
  <2>4. /\ q \in [Lanes -> Queue] /\ q[k] = EmptyQueue /\ u \in BOOLEAN
        /\ \A l \in Lanes : l # k => q[l] = Retired(i - 1)[l]
    BY <2>2, <2>3, EmptyQueueType DEF UnsentOpen
  <2>5. FailLane(k, q, o, u) /\ Restart(k) BY <2>1
  <2>6. isOpen BY <1>1, <2>1, <2>2, EmptyFacts DEF FirstSliceable, DeadIsEmpty
  <2>7. /\ Moved(order, Rotated(i), late)
        /\ \A b \in late : Late(b) /\ b \in Members(order)
        /\ k \notin Members(Rotated(i))
        /\ \A l \in Lanes : l # k /\ HasWork(Retired(i - 1)[l]) => l \in Members(Rotated(i))
    BY <1>1, <2>1, RotatedOrder
  <2>8. k \in live => o = Rotated(i)
    <3>1. Rotated(i) \in Seq(Lanes) BY <2>7 DEF Moved
    <3> QED BY <1>1, <3>1, ConcatEmptySeq
  <2> HIDE DEF k, q, o, u, late
  <2>9. k \in live => \A l \in Lanes : HasWork(q[l]) => l \in Members(o)
    BY <2>4, <2>7, <2>8, WorkFacts
  <2>10. k \in live => Moved(order, o, late) /\ k \notin Members(o) BY <2>7, <2>8
  <2>11. \A b \in late : Late(b) /\ b \in Members(order) BY <2>7
  <2> QED BY <1>1, <2>2, <2>4, <2>5, <2>6, <2>9, <2>10, <2>11, FailLaneOrder
<1>13. CASE NothingToSend
  <2> DEFINE n == Len(order)
  <2>1. queues' = Retired(n) /\ order' = Kept(n) BY <1>13 DEF NothingToSend
  <2>2. Members(order) = Asked(n) BY <1>1, PlaceFacts DEF Members, Asked
  <2>3. order' = << >> \/ (order' = <<CONNECTION_LANE>> /\ CONNECTION_LANE \in Members(order))
    BY <2>1, <2>2 DEF Kept, Asked
  <2>4. InRotation'
    <3>1. \A l \in Lanes : HasWork(queues'[l]) => l \notin Asked(n) /\ HasWork(queues[l])
      BY <2>1, WorkFacts DEF Retired
    <3> QED BY <2>2, <3>1 DEF InRotation
  <2>5. CASE order' = << >> BY <2>4, <2>5 DEF OrderMove, Distinct, Members, Ahead
  <2>6. CASE order' = <<CONNECTION_LANE>> /\ CONNECTION_LANE \in Members(order)
    <3>1. DOMAIN order' = {1} /\ order'[1] = CONNECTION_LANE BY <2>6
    <3> QED BY <2>4, <2>6, <3>1 DEF OrderMove, Distinct, Members, Ahead
  <2> QED BY <2>3, <2>5, <2>6
<1>14. CASE Sent
  <2> DEFINE k == inhand.lane
             q == [queues EXCEPT ![k] = EmptyQueue]
             o == IF k = CONNECTION_LANE THEN order ELSE Drop(k)
             u == UnsentOpen(queues[k])
  <2>1. k \in Lanes BY <1>1, <1>14 DEF Sent, TypeOK, LoopType
  <2>2. CASE PrepareRaises(queues[k])
    <3>1. FailLane(k, q, o, u) /\ Restart(k) BY <1>14, <2>2 DEF Sent
    <3>2. /\ q \in [Lanes -> Queue] /\ q[k] = EmptyQueue /\ u \in BOOLEAN
          /\ \A l \in Lanes : l # k => q[l] = queues[l]
      BY <1>1, <2>1, EmptyQueueType DEF UnsentOpen
    <3>3. isOpen BY <1>1, <2>1, <2>2, EmptyFacts DEF PrepareRaises, Sliceable, DeadIsEmpty
    <3>4. k \in live => o = Drop(k) /\ Moved(order, o, {}) /\ Members(o) = Members(order) \ {k}
      BY <1>1, <2>1, DropMoved
    <3> HIDE DEF k, q, o, u
    <3>5. k \in live => \A l \in Lanes : HasWork(q[l]) => l \in Members(o)
      BY <3>2, <3>4, WorkFacts DEF InRotation
    <3> QED BY <1>1, <2>1, <3>1, <3>2, <3>3, <3>4, <3>5, FailLaneOrder, ZenonT(40)
  <2>3. CASE ~PrepareRaises(queues[k])
    <3>1. queues' = [queues EXCEPT ![k] = Prepare(queues[k])] /\ order' = order BY <1>14, <2>3 DEF Sent
    <3>2. HasWork(Prepare(queues[k])) => HasWork(queues[k])
      BY <1>1, <2>1, SliceFacts DEF Prepare, HasWork
    <3>3. InRotation' BY <1>1, <2>1, <3>1, <3>2 DEF InRotation
    <3> QED BY <3>1, <3>3 DEF OrderMove
  <2> QED BY <2>2, <2>3
<1>15. CASE SendRaises
  <2> PICK k : k = inhand.lane OBVIOUS
  <2>1. k \in Lanes BY <1>1, <1>15 DEF SendRaises, TypeOK, LoopType
  <2>2. CASE k \notin live
    <3>1. DieWith(1011, queues, order) BY <1>15, <2>2 DEF SendRaises
    <3>2. CASE isOpen
      <4>1. order' = << >> /\ queues' = [l \in Lanes |-> EmptyQueue] BY <3>1, <3>2 DEF DieWith
      <4> QED BY <4>1, DeadOrder
    <3>3. CASE ~isOpen BY <1>5, <3>1, <3>3 DEF DieWith
    <3> QED BY <3>2, <3>3
  <2>3. CASE k \in live
    <3>1. EnqueueOn(queues, order, k, Plain(k, "reset")) BY <1>15, <2>3 DEF SendRaises, Enqueue
    <3>2. Plain(k, "reset") \in Frame BY <1>1, <2>1, FrameType_New DEF FrameType
    <3> QED BY <1>1, <2>1, <3>1, <3>2, EnqueueOrder
  <2> QED BY <2>2, <2>3
<1> QED BY <1>2, <1>3, <1>4, <1>6, <1>7, <1>8, <1>9, <1>10, <1>11, <1>12, <1>13, <1>14, <1>15
        DEF Next, WriteLoop

-----------------------------------------------------------------------------
(* Sending and waiting.                                                    *)

NoWork == \A l \in Lanes : ~HasWork(queues[l])

LEMMA NextFrameFacts ==
  ASSUME TypeOK, NextFrame
  PROVE  \E i \in DOMAIN order :
            /\ FirstSliceable(i) /\ order[i] \in Lanes /\ order' = Append(Rotated(i), order[i])
            /\ inhand' = [lane |-> order[i], fragment |-> Prepare(queues[order[i]]).prepared]
            /\ wire'[order[i]] # wire[order[i]] /\ wire'[order[i]] # << >>
            /\ opens' = IF /\ Prepare(queues[order[i]]).prepared.frame.type = "open"
                           /\ Prepare(queues[order[i]]).prepared.idx = 1
                        THEN Append(opens, order[i]) ELSE opens
            /\ behind' = [l \in Lanes |-> [m \in Lanes |->
                            IF l = order[i] \/ ~Sliceable(queues[l]) THEN 0
                            ELSE IF m = order[i] THEN behind[l][m] + 1 ELSE behind[l][m]]]
<1> USE LaneFacts
<1>1. PICK i \in DOMAIN order :
         /\ FirstSliceable(i) /\ order' = Append(Rotated(i), order[i])
         /\ inhand' = [lane |-> order[i], fragment |-> Prepare(queues[order[i]]).prepared]
         /\ wire' = [wire EXCEPT ![order[i]] = Append(@, Prepare(queues[order[i]]).prepared)]
         /\ opens' = IF /\ Prepare(queues[order[i]]).prepared.frame.type = "open"
                        /\ Prepare(queues[order[i]]).prepared.idx = 1
                     THEN Append(opens, order[i]) ELSE opens
         /\ behind' = [l \in Lanes |-> [m \in Lanes |->
                         IF l = order[i] \/ ~Sliceable(queues[l]) THEN 0
                         ELSE IF m = order[i] THEN behind[l][m] + 1 ELSE behind[l][m]]]
  BY DEF NextFrame
<1>2. order[i] \in Lanes BY PlaceFacts
<1>3. Prepare(queues[order[i]]).prepared \in Fragment BY <1>1, <1>2, SliceType DEF FirstSliceable
<1>4. wire'[order[i]] = Append(wire[order[i]], Prepare(queues[order[i]]).prepared) BY <1>1, <1>2
<1>5. wire'[order[i]] # << >> /\ wire'[order[i]] # wire[order[i]]
  <2> DEFINE w == wire[order[i]]
             f == Prepare(queues[order[i]]).prepared
  <2>1. w \in Seq(Fragment) /\ f \in Fragment BY <1>2, <1>3
  <2>2. wire'[order[i]] = Append(w, f) BY <1>4
  <2> HIDE DEF w, f
  <2> DEFINE v == Append(w, f)
  <2>3. Len(v) = Len(w) + 1 /\ Len(w) \in Nat BY <2>1, AppendProperties, LenProperties
  <2> HIDE DEF v
  <2>4. Len(v) # 0 BY <2>3
  <2>5. Len(<< >>) = 0 OBVIOUS
  <2>6. v # << >> BY <2>4, <2>5
  <2>7. v # w BY <2>3
  <2> QED BY <2>2, <2>6, <2>7 DEF v, w
<1> QED BY <1>1, <1>2, <1>5

LEMMA LoopMoves ==
  ASSUME BaseInv, [Next]_vars
  PROVE  /\ inhand' = None \/ inhand' = inhand \/ wire'[inhand'.lane] # wire[inhand'.lane]
         /\ idle' => idle \/ ~isOpen' \/ (NoWork' /\ inhand' = None)
         /\ loop' = "asleep" /\ ~wake' => NoWork' \/ (loop = "asleep" /\ ~wake)
         /\ inhand' # None /\ inhand' # inhand => idle' = idle /\ death' = death /\ ~NoWork
         /\ nextId' \in {nextId, nextId + 2}
         /\ ~NextFrame => opens' = opens
<1>1. TypeOK BY DEF BaseInv, OpenInv
<1>2. ASSUME NEW q, NEW o, NEW c, c # 0, DieWith(c, q, o)
      PROVE  (idle' = idle /\ wake' = wake) \/ (wake' /\ ~isOpen')
  BY <1>2 DEF DieWith, isOpen
<1>3. ASSUME NEW q, NEW o, NEW u, NEW k, FailLane(k, q, o, u)
      PROVE  (idle' = idle /\ wake' = wake) \/ (wake' /\ ~isOpen') \/ (wake' /\ ~idle')
  BY <1>2, <1>3 DEF FailLane, EnqueueOn
<1>4. CASE NextFrame
  <2>1. PICK i \in DOMAIN order :
           /\ FirstSliceable(i) /\ order[i] \in Lanes
           /\ inhand' = [lane |-> order[i], fragment |-> Prepare(queues[order[i]]).prepared]
           /\ wire'[order[i]] # wire[order[i]]
    BY <1>1, <1>4, NextFrameFacts
  <2>2. loop' = "sending" /\ idle' = idle /\ death' = death /\ nextId' = nextId BY <1>4 DEF NextFrame, peerVars
  <2>3. ~NoWork BY <1>1, <2>1, WorkFacts, LaneFacts DEF NoWork, FirstSliceable
  <2> QED BY <1>4, <2>1, <2>2, <2>3
<1>5. CASE NextFrameRaises
  <2>1. loop = "ready" /\ UNCHANGED <<loop, inhand, nextId, opens>> BY <1>5 DEF NextFrameRaises, loopVars
  <2>2. \E k, q, o, u : FailLane(k, q, o, u) BY <1>5, Zenon DEF NextFrameRaises
  <2> QED BY <1>3, <2>1, <2>2
<1>6. CASE NothingToSend
  <2>1. /\ loop = "ready" /\ inhand' = inhand /\ nextId' = nextId /\ opens' = opens
        /\ \/ idle' = idle /\ loop' = loop
           \/ \A l \in Lanes : ~HasWork(queues'[l])
    BY <1>6 DEF NothingToSend, peerVars, history
  <2>2. inhand = None BY <1>1, <2>1 DEF TypeOK, LoopType
  <2> QED BY <2>1, <2>2 DEF NoWork
<1>7. CASE Sent
  <2>1. loop' = "ready" /\ inhand' = None /\ nextId' = nextId /\ opens' = opens BY <1>7 DEF Sent
  <2>2. CASE PrepareRaises(queues[inhand.lane])
    <3>1. \E k, q, o, u : FailLane(k, q, o, u) BY <1>7, <2>2, Zenon DEF Sent
    <3> QED BY <1>3, <2>1, <3>1
  <2>3. CASE ~PrepareRaises(queues[inhand.lane])
    <3>1. idle' = idle BY <1>7, <2>3 DEF Sent
    <3> QED BY <2>1, <3>1
  <2> QED BY <2>2, <2>3
<1>8. CASE SendRaises
  <2>1. loop' = "ready" /\ inhand' = None /\ nextId' = nextId /\ opens' = opens BY <1>8 DEF SendRaises
  <2>2. CASE inhand.lane \notin live BY <1>2, <1>8, <2>1, <2>2 DEF SendRaises
  <2>3. CASE inhand.lane \in live BY <1>8, <2>1, <2>3 DEF SendRaises, Enqueue, EnqueueOn
  <2> QED BY <2>2, <2>3
<1>9. CASE Wake \/ LoopEnds \/ SendFindsClosed \/ UNCHANGED vars
  BY <1>9 DEF Wake, LoopEnds, SendFindsClosed, vars, writerVars, loopVars, peerVars, history
<1>10. CASE Die
  <2>1. /\ wake' /\ ~isOpen' /\ UNCHANGED <<loop, inhand, nextId, opens>>
    BY <1>10 DEF Die, DieWith, isOpen, loopVars
  <2> QED BY <2>1
<1>11. CASE Stop
  <2>1. /\ wake' /\ ~isOpen' /\ UNCHANGED <<loop, inhand, nextId, opens>>
    BY <1>11 DEF Stop, isOpen, loopVars, peerVars, history
  <2> QED BY <2>1
<1>12. CASE Open
  <2>1. wake' /\ ~idle' /\ UNCHANGED <<loop, inhand, opens>> /\ nextId' = nextId + 2
    BY <1>12 DEF Open, Enqueue, EnqueueOn, loopVars
  <2> QED BY <2>1
<1>13. CASE Control
  <2>1. wake' /\ ~idle' /\ UNCHANGED <<loop, inhand, opens, nextId>>
    BY <1>13 DEF Control, Enqueue, EnqueueOn, loopVars, peerVars
  <2> QED BY <2>1
<1>14. ASSUME NEW s \in Streams, Send(s) \/ Reset(s) \/ HandlerError(s)
       PROVE  wake' /\ ~idle' /\ UNCHANGED <<loop, inhand, opens, nextId>>
  BY <1>14 DEF Send, Reset, HandlerError, Enqueue, EnqueueOn, loopVars
<1>15. ASSUME NEW s \in Streams, Accept(s) \/ RemoteEnd(s) \/ RemoteReset(s) \/ GoawayFails(s)
       PROVE  UNCHANGED <<wake, idle, loop, inhand, opens, nextId>>
  BY <1>15 DEF Accept, RemoteEnd, RemoteReset, GoawayFails, writerVars, loopVars, history
<1>16. ASSUME UNCHANGED <<loop, inhand, opens, nextId>>, (wake' /\ ~idle') \/ UNCHANGED <<wake, idle>>
       PROVE  /\ inhand' = inhand /\ (idle' => idle)
              /\ loop' = "asleep" /\ ~wake' => loop = "asleep" /\ ~wake
              /\ nextId' = nextId /\ opens' = opens
  BY <1>16
<1> QED BY <1>4, <1>5, <1>6, <1>7, <1>8, <1>9, <1>10, <1>11, <1>12, <1>13, <1>14, <1>15, <1>16
        DEF Next, WriteLoop

(* A lane that begins to wait has had no turn taken from it.               *)
LEMMA BeginsToWait ==
  ASSUME TypeOK, NEW l \in Lanes, LaneMove(l), ~Sliceable(queues[l]), Sliceable(queues'[l])
  PROVE  Anew(l)
<1> DEFINE q == queues[l]
<1>1. q \in Queue BY LaneFacts
<1>2. ~Sliceable(Prepare(q))
  <2>1. q.prepared = None /\ NextSlice(q) = None BY DEF Sliceable
  <2>2. q.waiting = << >> BY <1>1, <2>1, SliceFacts
  <2>3. Prepare(q) = [waiting |-> << >>, prepared |-> None, fragments |-> None]
    BY <2>1, <2>2 DEF Prepare
  <2>4. Prepare(q) = EmptyQueue BY <2>3 DEF EmptyQueue
  <2> QED BY <2>4, EmptyFacts
<1>3. ~Sliceable(DiscardExceptUnsentOpen(q))
  <2>1. q.waiting = << >> BY <1>1, SliceFacts DEF Sliceable
  <2> QED BY <2>1, EmptyFacts DEF DiscardExceptUnsentOpen, KeepsOpen
<1>4. ~Sliceable(EmptyQueue) BY EmptyFacts
<1> QED BY <1>2, <1>3, <1>4
        DEF LaneMove, Stays, Empties, Discards, Gains, Replaces, Fails, Emits, Slices, Counts

LEMMA TurnMoves ==
  ASSUME BaseInv, Distinct(order), InRotation, [Next]_vars, NEW l \in Lanes, NEW m \in Lanes
  PROVE  \/ behind'[l][m] \in {0, behind[l][m]}
         \/ behind'[l][m] = behind[l][m] + 1 /\ Sliceable(queues[l]) /\ Ahead(order, m, l) /\ ~Ahead(order', m, l)
<1> USE LaneFacts
<1>1. TypeOK BY DEF BaseInv, OpenInv
<1>2. ASSUME UNCHANGED behind \/ \E k \in Lanes : Restart(k) \/ Waits(k)
      PROVE  behind'[l][m] \in {0, behind[l][m]}
  <2>1. CASE UNCHANGED behind BY <2>1
  <2>2. ASSUME NEW k \in Lanes, Restart(k) PROVE behind'[l][m] \in {0, behind[l][m]}
    <3>1. behind' = [behind EXCEPT ![k] = [n \in Lanes |-> 0]] BY <2>2 DEF Restart
    <3> QED BY <1>1, <3>1
  <2> QED BY <1>2, <2>1, <2>2 DEF Waits
<1>3. CASE NextFrame
  <2>1. PICK i \in DOMAIN order :
           /\ FirstSliceable(i) /\ order[i] \in Lanes /\ order' = Append(Rotated(i), order[i])
           /\ behind' = [k \in Lanes |-> [n \in Lanes |->
                           IF k = order[i] \/ ~Sliceable(queues[k]) THEN 0
                           ELSE IF n = order[i] THEN behind[k][n] + 1 ELSE behind[k][n]]]
    BY <1>1, <1>3, NextFrameFacts
  <2>2. behind'[l][m] = IF l = order[i] \/ ~Sliceable(queues[l]) THEN 0
                        ELSE IF m = order[i] THEN behind[l][m] + 1 ELSE behind[l][m]
    BY <2>1
  <2>3. ASSUME l # order[i], Sliceable(queues[l]), m = order[i] PROVE Ahead(order, m, l) /\ ~Ahead(order', m, l)
    <3>1. PICK j \in DOMAIN order : order[j] = l BY <1>1, <2>3, WorkFacts DEF InRotation, Members
    <3>2. j \in Nat /\ i \in Nat /\ 1 <= j BY <1>1, PlaceFacts
    <3>3. ~(j < i)
      <4>1. ASSUME j < i PROVE j \in 1 .. i - 1 BY <3>2, <4>1
      <4> QED BY <2>1, <2>3, <3>1, <4>1 DEF FirstSliceable
    <3>4. i < j BY <2>3, <3>1, <3>2, <3>3
    <3>5. Ahead(order, m, l) BY <2>3, <3>1, <3>4 DEF Ahead
    <3>6. /\ Moved(order, Rotated(i), {CONNECTION_LANE} \cap Asked(i - 1))
          /\ order[i] \notin Members(Rotated(i))
      BY <1>1, <2>1, RotatedOrder
    <3>7. ~Ahead(order', m, l) BY <1>1, <2>1, <2>3, <3>6, MovedAppend
    <3> QED BY <3>5, <3>7
  <2> QED BY <2>2, <2>3
<1>4. CASE Open \/ Control \/ Die \/ Stop
  <2>1. nextId \in Lanes \/ ~Open BY <1>1, WriterAssumption DEF Open, Local, TypeOK, PeerType
  <2>2. UNCHANGED behind \/ \E k \in Lanes : Restart(k) \/ Waits(k)
    BY <1>1, <1>4, <2>1 DEF Open, Control, Die, Stop, history
  <2> QED BY <1>2, <2>2
<1>5. ASSUME NEW s \in Streams,
             \/ Accept(s) \/ Send(s) \/ RemoteEnd(s) \/ Reset(s) \/ HandlerError(s)
             \/ RemoteReset(s) \/ GoawayFails(s)
      PROVE  UNCHANGED behind \/ \E k \in Lanes : Restart(k) \/ Waits(k)
  BY <1>1, <1>5 DEF Accept, Send, RemoteEnd, Reset, HandlerError, RemoteReset, GoawayFails, history
<1>6. CASE NextFrameRaises
  <2>1. PICK i \in DOMAIN order : Restart(order[i]) BY <1>6 DEF NextFrameRaises
  <2>2. order[i] \in Lanes BY <1>1, PlaceFacts
  <2> QED BY <1>2, <2>1, <2>2
<1>7. CASE Sent \/ SendRaises
  <2>1. inhand.lane \in Lanes BY <1>1, <1>7 DEF Sent, SendRaises, TypeOK, LoopType
  <2>2. UNCHANGED behind \/ Restart(inhand.lane) \/ Waits(inhand.lane) BY <1>7 DEF Sent, SendRaises
  <2> QED BY <1>2, <2>1, <2>2
<1>8. CASE NothingToSend \/ Wake \/ LoopEnds \/ SendFindsClosed \/ UNCHANGED vars
  <2>1. UNCHANGED behind BY <1>8 DEF NothingToSend, Wake, LoopEnds, SendFindsClosed, vars, history
  <2> QED BY <1>2, <2>1
<1> QED BY <1>2, <1>3, <1>4, <1>5, <1>6, <1>7, <1>8 DEF Next, WriteLoop

-----------------------------------------------------------------------------
(* Nothing overtakes, and nothing is overlooked.                           *)

(* The open of l still waits.                                              *)
Unsent(l) == l \in Local /\ Untouched(l) /\ HasWork(queues[l])

(* Opens stand in the rotation in the order of their ids, behind those     *)
(* that were sent; ids not allocated yet are not in it.                    *)
OpensInv ==
    /\ \A a, b \in Lanes : Ahead(order, a, b) /\ Unsent(a) /\ Unsent(b) => a < b
    /\ \A i \in DOMAIN opens : opens[i] < nextId /\ \A b \in Local : Unsent(b) => opens[i] < b
    /\ \A l \in Local \cap Members(order) : l < nextId
    /\ OpensInIdOrder

(* A lane that m has overtaken once is ahead of m.                         *)
TurnInv ==
    /\ RoundRobin
    /\ \A l, m \in Lanes : Sliceable(queues[l]) /\ behind[l][m] = 1 => ~Ahead(order, m, l)

WaitInv ==
    /\ NoSliceAhead /\ IdleMeansSent
    /\ loop = "asleep" /\ ~wake => NoWork

SendInv == OrderlyInv /\ Distinct(order) /\ InRotation /\ OpensInv /\ TurnInv /\ WaitInv

LEMMA UnsentFacts ==
  ASSUME OrderlyInv, NEW l \in Lanes, Unsent(l)
  PROVE  /\ l \in Local /\ l \in Nat /\ l < nextId
         /\ queues[l] \in Queue /\ queues[l].waiting # << >> /\ Head(queues[l].waiting).type = "open"
         /\ Sliceable(queues[l]) /\ UnsentOpen(queues[l])
         /\ queues[l].prepared = None /\ queues[l].fragments = None
<1> USE LaneFacts
<1>1. TypeOK /\ LaneInv(l) BY DEF OrderlyInv, BaseInv, OpenInv, Unsent
<1>2. l \in Local /\ l \in Nat /\ nextId \in Nat /\ queues[l] \in Queue BY <1>1 DEF Unsent
<1>3. queues[l].prepared = None /\ queues[l].fragments = None BY <1>1 DEF Unsent, LaneInv, OpenWaits
<1>4. queues[l].waiting # << >> BY <1>3 DEF Unsent, HasWork
<1>5. Head(queues[l].waiting).type = "open" BY <1>1, <1>4 DEF Unsent, LaneInv, OpenWaits
<1>6. ~(l >= nextId) BY <1>1, <1>4, EmptyFacts DEF LaneInv, Fresh
<1>7. Sliceable(queues[l]) /\ NextSlice(queues[l]) = [frame |-> Head(queues[l].waiting), idx |-> 1]
  BY <1>2, <1>3, <1>4, OpenIsNext
<1>8. UnsentOpen(queues[l]) BY <1>5, <1>7 DEF UnsentOpen
<1> QED BY <1>2, <1>3, <1>4, <1>5, <1>6, <1>7, <1>8

(* An open that waits did so before, or its stream has just been opened.   *)
LEMMA UnsentMove ==
  ASSUME OrderlyInv, OrderlyInv', NEW l \in Lanes, LaneMove(l), Unsent(l)'
  PROVE  /\ wire[l] = << >> /\ wire'[l] = << >>
         /\ queues'[l] # Put(EmptyQueue, Plain(l, "reset"))
         /\ Unsent(l) \/ l = nextId
<1> USE LaneFacts
<1>1. TypeOK /\ l \in Local /\ queues[l] \in Queue BY DEF OrderlyInv, BaseInv, OpenInv, Unsent
<1>2. queues'[l].waiting # << >> /\ Head(queues'[l].waiting).type = "open"
  <2>1. TypeOK' /\ LaneInv(l)' BY <1>1 DEF OrderlyInv, BaseInv, OpenInv
  <2>2. queues'[l].prepared = None /\ queues'[l].fragments = None BY <2>1 DEF Unsent, LaneInv, OpenWaits
  <2>3. queues'[l].waiting # << >> BY <2>2 DEF Unsent, HasWork
  <2> QED BY <2>1, <2>3 DEF Unsent, LaneInv, OpenWaits
<1>3. Plain(l, "reset") \in Frame /\ Plain(l, "reset").type = "reset" BY <1>1, FrameType_New DEF FrameType, Plain
<1>4. ASSUME NEW q \in Queue, NEW f \in Frame, f.type # "open", queues'[l] = Put(q, f) PROVE q.waiting # << >>
  <2> SUFFICES ASSUME q.waiting = << >> PROVE FALSE OBVIOUS
  <2>1. queues'[l].waiting = <<f>> BY <1>4, PutType
  <2> QED BY <1>2, <1>4, <2>1
<1>5. queues'[l] # Put(EmptyQueue, Plain(l, "reset")) BY <1>3, <1>4, EmptyFacts
<1>6. wire'[l] = << >> BY DEF Unsent, Untouched
<1>7. wire[l] = << >> /\ ~Emits(l)
  <2>1. ASSUME Emits(l) PROVE FALSE
    <3>1. wire'[l] = Append(wire[l], Prepare(queues[l]).prepared) /\ Sliceable(queues[l]) BY <2>1 DEF Emits
    <3>2. Prepare(queues[l]).prepared \in Fragment /\ wire[l] \in Seq(Fragment) BY <1>1, <3>1, SliceType
    <3> QED BY <1>6, <3>1, <3>2, AppendProperties
  <2> QED BY <1>6, <2>1 DEF LaneMove, Stays, Empties, Discards, Gains, Replaces, Fails, Slices, Idles, Counts
<1>8. Untouched(l) BY <1>7 DEF Untouched
<1>9. HasWork(queues[l]) \/ l = nextId
  <2>1. CASE Stays(l) BY <2>1 DEF Stays, Unsent
  <2>2. CASE Empties(l) BY <1>2, <2>2, EmptyFacts DEF Empties
  <2>3. CASE Discards(l) BY <1>1, <2>3, WorkFacts DEF Discards, Unsent
  <2>4. CASE Replaces(l)
    <3>1. DiscardExceptUnsentOpen(queues[l]).waiting # << >> BY <1>1, <1>3, <1>4, <2>4, DiscardType DEF Replaces
    <3> QED BY <1>1, <3>1, WorkFacts DEF HasWork
  <2>5. CASE Fails(l) BY <1>5, <2>5 DEF Fails
  <2>6. CASE Slices(l) BY <1>8, <2>6 DEF Slices
  <2>7. ASSUME NEW f \in Frame, Gains(l, f) PROVE HasWork(queues[l]) \/ l = nextId
    <3>1. CASE f.type = "open" BY <2>7, <3>1 DEF Gains
    <3>2. CASE f.type # "open"
      <4>1. queues[l].waiting # << >> BY <1>1, <1>4, <2>7, <3>2 DEF Gains
      <4> QED BY <4>1 DEF HasWork
    <3> QED BY <3>1, <3>2
  <2> QED BY <1>7, <2>1, <2>2, <2>3, <2>4, <2>5, <2>6, <2>7 DEF LaneMove
<1> QED BY <1>1, <1>5, <1>6, <1>7, <1>8, <1>9 DEF Unsent

LEMMA OpensStep ==
  ASSUME OrderlyInv, OrderlyInv', Distinct(order), InRotation, OpensInv, [Next]_vars
  PROVE  OpensInv'
<1> USE LaneFacts
<1>1. /\ BaseInv /\ TypeOK /\ TypeOK'
      /\ nextId \in Nat /\ nextId' \in Nat /\ opens \in Seq(Lanes) /\ opens' \in Seq(Lanes)
  <2>1. BaseInv /\ TypeOK /\ TypeOK' BY DEF OrderlyInv, BaseInv, OpenInv
  <2>2. nextId' \in Nat /\ opens' \in Seq(Lanes) BY <2>1 DEF TypeOK, PeerType, HistoryType
  <2> QED BY <2>1, <2>2
<1>2. \A l \in Lanes : LaneMove(l) BY <1>1, LaneMoves
<1>3. OrderMove BY <1>1, OrderMoves
<1>4. nextId' >= nextId BY <1>1, LoopMoves
<1>5. \A l \in Lanes : Unsent(l)' =>
         /\ wire[l] = << >> /\ wire'[l] = << >> /\ queues'[l] # Put(EmptyQueue, Plain(l, "reset"))
         /\ Unsent(l) \/ l = nextId
         /\ l \in Local /\ l \in Nat
  <2> SUFFICES ASSUME NEW l \in Lanes, Unsent(l)'
               PROVE  /\ wire[l] = << >> /\ wire'[l] = << >> /\ queues'[l] # Put(EmptyQueue, Plain(l, "reset"))
                      /\ Unsent(l) \/ l = nextId
                      /\ l \in Local /\ l \in Nat
    OBVIOUS
  <2>1. l \in Local /\ l \in Nat BY <1>1 DEF Unsent
  <2> QED BY <1>2, <2>1, UnsentMove
<1>6. ASSUME NEW a \in Lanes, NEW b \in Lanes, Ahead(order', a, b), Unsent(a)', Unsent(b)' PROVE a < b
  <2>1. a \in Members(order') /\ a # b
    <3>1. order' \in Seq(Lanes) BY <1>1 DEF TypeOK, WriterType
    <3>2. \A i \in DOMAIN order' : i \in Nat BY <3>1, SeqFacts
    <3>3. PICK i, j \in DOMAIN order' : i < j /\ order'[i] = a /\ order'[j] = b BY <1>6 DEF Ahead
    <3>4. i # j BY <3>2, <3>3
    <3>5. a # b BY <1>3, <3>3, <3>4 DEF OrderMove, Distinct
    <3> QED BY <3>3, <3>5 DEF Members
  <2>2. CASE Unsent(b)
    <3>1. b \in Members(order) /\ Sliceable(queues[b]) BY <2>2, UnsentFacts DEF InRotation, Unsent
    <3>2. ~Late(b) BY <1>5, <1>6, <3>1 DEF Late
    <3>3. Ahead(order, a, b) BY <1>3, <1>6, <3>2 DEF OrderMove
    <3>4. a \in Members(order) BY <3>3 DEF Ahead, Members
    <3>5. a # nextId BY <1>1, <1>5, <1>6, <3>4 DEF OpensInv
    <3> QED BY <1>5, <1>6, <2>2, <3>3, <3>5 DEF OpensInv
  <2>3. CASE ~Unsent(b)
    <3>1. b = nextId BY <1>5, <1>6, <2>3
    <3>2. Unsent(a) BY <1>5, <1>6, <2>1, <3>1
    <3> QED BY <3>1, <3>2, UnsentFacts
  <2> QED BY <2>2, <2>3
<1>7. ASSUME NEW l \in Local, l \in Members(order') PROVE l < nextId'
  <2>1. l \in Lanes /\ l \in Nat BY <1>1
  <2>2. CASE l \in Members(order)
    <3>1. l < nextId BY <2>2 DEF OpensInv
    <3> QED BY <1>1, <1>4, <2>1, <3>1
  <2>3. CASE l \notin Members(order)
    <3>1. enqueued'[l] # enqueued[l] BY <1>3, <1>7, <2>3 DEF OrderMove
    <3>2. \E q \in Queue, f \in Frame : queues'[l] = Put(q, f)
      <4>1. Plain(l, "reset") \in Frame BY <1>1, <2>1, FrameType_New DEF FrameType
      <4>2. /\ queues[l] \in Queue /\ EmptyQueue \in Queue /\ DiscardExceptUnsentOpen(queues[l]) \in Queue
        BY <1>1, <2>1, EmptyFacts, DiscardType
      <4>3. (\E f \in Frame : Gains(l, f)) \/ Replaces(l) \/ Fails(l)
        BY <1>2, <2>1, <3>1 DEF LaneMove, Stays, Empties, Discards, Emits, Slices, Idles
      <4> QED BY <4>1, <4>2, <4>3 DEF Gains, Replaces, Fails
    <3>3. queues'[l] # EmptyQueue
      <4>1. PICK q \in Queue, f \in Frame : queues'[l] = Put(q, f) BY <3>2
      <4>2. queues'[l].waiting = Append(q.waiting, f) /\ q.waiting \in Seq(Frame) BY <4>1, PutType, QueueFacts
      <4>3. queues'[l].waiting # << >> BY <4>2, AppendProperties
      <4> QED BY <4>3, EmptyFacts
    <3>4. ~(l >= nextId') BY <3>3 DEF OrderlyInv, BaseInv, OpenInv, LaneInv, Fresh
    <3> QED BY <1>1, <2>1, <3>4
  <2> QED BY <2>2, <2>3
<1>8. ASSUME NEW x \in Nat, x < nextId, \A b \in Local : Unsent(b) => x < b
      PROVE  x < nextId' /\ \A b \in Local : Unsent(b)' => x < b
  <2>1. x < nextId' BY <1>1, <1>4, <1>8
  <2>2. ASSUME NEW b \in Local, Unsent(b)' PROVE x < b
    <3>1. b \in Lanes BY <1>1
    <3>2. Unsent(b) \/ b = nextId BY <1>5, <2>2, <3>1
    <3> QED BY <1>8, <3>2
  <2> QED BY <2>1, <2>2
<1>9. /\ Len(opens) \in Nat /\ DOMAIN opens = 1 .. Len(opens)
      /\ \A i \in DOMAIN opens : opens[i] \in Nat /\ opens[i] < nextId /\ \A b \in Local : Unsent(b) => opens[i] < b
  BY <1>1, SeqFacts DEF OpensInv
<1>10. CASE opens' = opens
  <2>1. \A i \in DOMAIN opens : opens[i] < nextId' /\ \A b \in Local : Unsent(b)' => opens[i] < b
    BY <1>8, <1>9
  <2> QED BY <1>6, <1>7, <1>10, <2>1 DEF OpensInv, OpensInIdOrder
<1>11. CASE opens' # opens
  <2>1. NextFrame BY <1>1, <1>11, LoopMoves
  <2>2. PICK i \in DOMAIN order :
           /\ FirstSliceable(i) /\ order[i] \in Lanes /\ wire'[order[i]] # << >>
           /\ opens' = IF /\ Prepare(queues[order[i]]).prepared.frame.type = "open"
                          /\ Prepare(queues[order[i]]).prepared.idx = 1
                       THEN Append(opens, order[i]) ELSE opens
    BY <1>1, <2>1, NextFrameFacts
  <2> DEFINE k == order[i]
             q == queues[k]
  <2>3. /\ Prepare(q).prepared.frame.type = "open" /\ Prepare(q).prepared.idx = 1
        /\ opens' = Append(opens, k)
    BY <1>11, <2>2
  <2>4. q \in Queue /\ Sliceable(q) /\ k \in Lanes BY <1>1, <2>2 DEF FirstSliceable
  <2>5. OpensFit(q, k \in Local /\ Untouched(k)) BY <2>4 DEF OrderlyInv, RowInv, Row
  <2>6. q.prepared = None /\ Prepare(q).prepared = NextSlice(q) /\ NextSlice(q) # None
    BY <2>3, <2>4, <2>5 DEF OpensFit, Prepare, Sliceable
  <2>7. q.waiting # << >> /\ q.waiting[1].type = "open"
    <3>1. q.fragments = None \/ Last(q.fragments)
      BY <2>3, <2>4, <2>6, SliceFacts, FragmentFacts
    <3>2. q.waiting # << >> BY <2>4, <2>6, <3>1, SliceFacts
    <3>3. NextSlice(q).frame = q.waiting[1] BY <2>4, <3>1, <3>2, SliceFacts
    <3> QED BY <2>3, <2>6, <3>2, <3>3
  <2>8. Unsent(k) BY <2>5, <2>7 DEF OpensFit, Unsent, HasWork
  <2>9. k \in Nat /\ k < nextId /\ k \in Members(order) BY <2>4, <2>8, UnsentFacts DEF Members
  <2>10. ASSUME NEW b \in Local, Unsent(b)' PROVE k < b
    <3>1. b \in Lanes /\ b # k BY <1>1, <1>5, <2>2, <2>10
    <3>2. CASE b = nextId BY <2>9, <3>2
    <3>3. CASE b # nextId
      <4>1. Unsent(b) /\ Sliceable(queues[b]) BY <1>5, <2>10, <3>1, <3>3, UnsentFacts
      <4>2. PICK j \in DOMAIN order : order[j] = b BY <3>1, <4>1 DEF InRotation, Members, Unsent
      <4>3. i \in Nat /\ j \in Nat /\ 1 <= j BY <1>1, PlaceFacts
      <4>4. ~(j < i)
        <5>1. ASSUME j < i PROVE j \in 1 .. i - 1 BY <4>3, <5>1
        <5> QED BY <2>2, <4>1, <4>2, <5>1 DEF FirstSliceable
      <4>5. i < j BY <3>1, <4>2, <4>3, <4>4
      <4>6. Ahead(order, k, b) BY <4>2, <4>5 DEF Ahead
      <4> QED BY <2>4, <2>8, <3>1, <4>1, <4>6 DEF OpensInv
    <3> QED BY <3>2, <3>3
  <2> HIDE DEF k, q
  <2>11. /\ Len(opens') = Len(opens) + 1 /\ opens'[Len(opens) + 1] = k
         /\ \A j \in 1 .. Len(opens) : opens'[j] = opens[j]
    BY <1>1, <2>3, <2>4, AppendProperties
  <2>12. DOMAIN opens' = 1 .. Len(opens) + 1 BY <1>1, <2>11, SeqFacts
  <2>13. k < nextId' BY <1>1, <1>4, <2>9
  <2>14. \A j \in DOMAIN opens' : (j = Len(opens) + 1 /\ opens'[j] = k) \/ (j \in DOMAIN opens /\ opens'[j] = opens[j])
    BY <1>9, <2>11, <2>12
  <2>15. \A j \in DOMAIN opens' : opens'[j] < nextId' /\ \A b \in Local : Unsent(b)' => opens'[j] < b
    BY <1>8, <1>9, <2>10, <2>13, <2>14
  <2>16. OpensInIdOrder'
    <3> SUFFICES ASSUME NEW j \in 1 .. Len(opens') - 1 PROVE opens'[j] < opens'[j + 1] BY DEF OpensInIdOrder
    <3>1. j \in Nat /\ 1 <= j /\ j <= Len(opens) BY <1>9, <2>11
    <3>2. j \in DOMAIN opens /\ opens'[j] = opens[j] BY <1>9, <2>11, <3>1
    <3>3. CASE j = Len(opens)
      <4>1. opens'[j + 1] = k BY <2>11, <3>3
      <4>2. opens[j] < k BY <1>9, <2>8, <3>2 DEF Unsent
      <4> QED BY <3>2, <4>1, <4>2
    <3>4. CASE j # Len(opens)
      <4> DEFINE n == Len(opens)
      <4>3. n \in Nat /\ j <= n /\ j # n BY <1>9, <3>1, <3>4
      <4> HIDE DEF n
      <4>4. j \in 1 .. n - 1 /\ j + 1 \in 1 .. n BY <3>1, <4>3
      <4>1. j \in 1 .. Len(opens) - 1 /\ j + 1 \in 1 .. Len(opens) BY <4>4 DEF n
      <4>2. opens[j] < opens[j + 1] BY <4>1 DEF OpensInv, OpensInIdOrder
      <4> QED BY <2>11, <3>2, <4>1, <4>2
    <3> QED BY <3>3, <3>4
  <2> QED BY <1>6, <1>7, <2>15, <2>16 DEF OpensInv
<1> QED BY <1>10, <1>11

LEMMA TurnStep ==
  ASSUME BaseInv, BaseInv', Distinct(order), InRotation, TurnInv, [Next]_vars
  PROVE  TurnInv'
<1> USE LaneFacts
<1>1. TypeOK BY DEF BaseInv, OpenInv
<1>2. OrderMove BY OrderMoves
<1>3. SUFFICES ASSUME NEW l \in Lanes, NEW m \in Lanes
               PROVE  /\ behind'[l][m] <= 1
                      /\ Sliceable(queues'[l]) /\ behind'[l][m] = 1 => ~Ahead(order', m, l)
  BY DEF TurnInv, RoundRobin
<1>4. LaneMove(l) BY LaneMoves
<1>5. behind[l][m] \in Nat /\ behind[l][m] <= 1 /\ (Sliceable(queues[l]) /\ behind[l][m] = 1 => ~Ahead(order, m, l))
  BY <1>1 DEF TurnInv, RoundRobin
<1>6. Anew(l) => behind'[l][m] = 0 BY DEF Anew
<1>7. CASE behind'[l][m] = 0 BY <1>7
<1>8. CASE behind'[l][m] = behind[l][m] /\ behind'[l][m] # 0
  <2> SUFFICES ASSUME Sliceable(queues'[l]), behind'[l][m] = 1, Ahead(order', m, l) PROVE FALSE BY <1>5, <1>8
  <2>1. ~Anew(l) BY <1>6, <1>8
  <2>2. Sliceable(queues[l]) BY <1>1, <1>4, <2>1, BeginsToWait
  <2>3. ~Ahead(order, m, l) BY <1>5, <1>8, <2>2
  <2>4. Late(l) BY <1>2, <2>3 DEF OrderMove
  <2>5. l \in Members(order) BY <1>1, <2>2, WorkFacts DEF InRotation
  <2>6. wire'[l] # wire[l] BY <2>1, <2>2, <2>4, <2>5 DEF Late
  <2>7. Emits(l)
    BY <1>4, <2>6 DEF LaneMove, Stays, Empties, Discards, Gains, Replaces, Fails, Slices, Idles, Counts
  <2> QED BY <2>1, <2>7 DEF Emits
<1>9. CASE behind'[l][m] = behind[l][m] + 1 /\ Sliceable(queues[l]) /\ Ahead(order, m, l) /\ ~Ahead(order', m, l)
  <2>1. behind[l][m] # 1 BY <1>5, <1>9
  <2>2. behind[l][m] = 0 BY <1>5, <2>1
  <2> QED BY <1>9, <2>2
<1> QED BY <1>7, <1>8, <1>9, TurnMoves

LEMMA WaitStep ==
  ASSUME BaseInv, BaseInv', WaitInv, [Next]_vars
  PROVE  WaitInv'
<1> USE LaneFacts
<1>1. TypeOK /\ TypeOK' BY DEF BaseInv, OpenInv
<1>2. \A l \in Lanes : LaneMove(l) BY LaneMoves
(* Work comes in with both events set for it.                              *)
<1>3. ASSUME NoWork, idle' \/ ~wake' PROVE NoWork'
  <2> SUFFICES ASSUME NEW l \in Lanes PROVE ~HasWork(queues'[l]) BY DEF NoWork
  <2>1. ~HasWork(queues[l]) /\ queues[l] \in Queue BY <1>1, <1>3 DEF NoWork
  <2>2. ~Sliceable(queues[l]) BY <2>1, WorkFacts
  <2>3. HasWork(Prepare(queues[l])) => HasWork(queues[l]) BY <2>1, SliceFacts DEF Prepare, HasWork
  <2> QED BY <1>2, <1>3, <2>1, <2>2, <2>3, WorkFacts
          DEF LaneMove, Stays, Empties, Discards, Gains, Replaces, Fails, Emits, Slices, Counts
<1>4. NoSliceAhead'
  <2> SUFFICES ASSUME inhand' # None PROVE queues'[inhand'.lane].prepared = None BY DEF NoSliceAhead
  <2>1. PICK k \in Lanes : k = inhand'.lane BY <1>1 DEF TypeOK, LoopType
  <2>2. queues[k] \in Queue /\ LaneMove(k) /\ ~Slices(k) BY <1>1, <1>2, <2>1 DEF Slices
  <2>3. DiscardExceptUnsentOpen(queues[k]) \in Queue /\ DiscardExceptUnsentOpen(queues[k]).prepared = None
    BY <2>2, EmptyFacts, DiscardType DEF DiscardExceptUnsentOpen, EmptyQueue
  <2>4. Plain(k, "reset") \in Frame BY <1>1, <2>1, FrameType_New DEF FrameType
  <2>5. Take(Prepare(queues[k])).prepared = None BY <2>2, PrepareType DEF Take, Queue
  <2>6. CASE Emits(k) BY <2>1, <2>5, <2>6 DEF Emits
  <2>7. CASE ~Emits(k)
    <3>1. wire'[k] = wire[k]
      BY <2>2, <2>7 DEF LaneMove, Stays, Empties, Discards, Gains, Replaces, Fails, Slices, Idles, Counts
    <3>2. inhand' = inhand BY <2>1, <3>1, LoopMoves
    <3>3. queues[k].prepared = None BY <2>1, <3>2 DEF WaitInv, NoSliceAhead
    <3>4. CASE Stays(k) \/ Empties(k) \/ Discards(k)
      BY <2>1, <2>3, <3>3, <3>4, EmptyFacts DEF Stays, Empties, Discards
    <3>5. CASE Replaces(k) \/ Fails(k)
      BY <2>1, <2>3, <2>4, <3>5, EmptyFacts, PutType, EmptyQueueType DEF Replaces, Fails
    <3>6. ASSUME NEW f \in Frame, Gains(k, f) PROVE queues'[k].prepared = None
      BY <2>2, <3>3, <3>6, PutType DEF Gains
    <3> QED BY <2>1, <2>2, <2>7, <3>4, <3>5, <3>6 DEF LaneMove
  <2> QED BY <2>1, <2>6, <2>7
<1>5. IdleMeansSent'
  <2> SUFFICES ASSUME idle', isOpen' PROVE inhand' = None /\ NoWork' BY DEF IdleMeansSent, NoWork
  <2>1. CASE NoWork' /\ inhand' = None BY <2>1
  <2>2. CASE ~(NoWork' /\ inhand' = None)
    <3>1. idle BY <2>2, LoopMoves
    <3>2. isOpen BY <1>1, PeerMoves DEF isOpen
    <3>3. inhand = None /\ NoWork BY <3>1, <3>2 DEF WaitInv, IdleMeansSent, NoWork
    <3>4. inhand' = None BY <3>3, LoopMoves
    <3> QED BY <1>3, <3>3, <3>4
  <2> QED BY <2>1, <2>2
<1>6. ASSUME loop' = "asleep", ~wake' PROVE NoWork'
  BY <1>3, <1>6, LoopMoves DEF WaitInv
<1> QED BY <1>4, <1>5, <1>6 DEF WaitInv

LEMMA SendInit == Init => SendInv
<1> SUFFICES ASSUME Init PROVE SendInv OBVIOUS
<1>1. /\ order = << >> /\ opens = << >> /\ inhand = None /\ loop = "ready"
      /\ \A l \in Lanes : queues[l] = EmptyQueue /\ \A m \in Lanes : behind[l][m] = 0
  BY DEF Init
<1>2. Distinct(order) /\ Members(order) = {} /\ \A a, b : ~Ahead(order, a, b)
  BY <1>1 DEF Distinct, Members, Ahead
<1>3. InRotation /\ NoWork BY <1>1, WorkFacts DEF InRotation, NoWork
<1>4. DOMAIN opens = {} /\ Len(opens) = 0 BY <1>1
<1>5. OpensInv BY <1>2, <1>4 DEF OpensInv, OpensInIdOrder
<1>6. TurnInv BY <1>1 DEF TurnInv, RoundRobin
<1>7. WaitInv BY <1>1, <1>3 DEF WaitInv, NoSliceAhead, IdleMeansSent, NoWork
<1> QED BY <1>2, <1>3, <1>5, <1>6, <1>7, OrderlyInit DEF SendInv

LEMMA SendStep == SendInv /\ [Next]_vars => SendInv'
<1> SUFFICES ASSUME SendInv, [Next]_vars PROVE SendInv' OBVIOUS
<1>1. OrderlyInv /\ OrderlyInv' /\ BaseInv /\ BaseInv' BY OrderlyStep DEF SendInv, OrderlyInv
<1>2. OrderMove BY <1>1, OrderMoves DEF SendInv
<1>3. Distinct(order') /\ InRotation' BY <1>2 DEF OrderMove
<1>4. OpensInv' BY <1>1, OpensStep DEF SendInv
<1>5. TurnInv' BY <1>1, TurnStep DEF SendInv
<1>6. WaitInv' BY <1>1, WaitStep DEF SendInv
<1> QED BY <1>1, <1>3, <1>4, <1>5, <1>6 DEF SendInv, Distinct

-----------------------------------------------------------------------------
(* What the remote reads of each lane is in the order it was enqueued,     *)
(* each payload whole and with its fragments contiguous unless a `reset`   *)
(* cut it short, and the ids of this peer's streams reach it in increasing *)
(* order: for every number of streams, fragments and frames, whatever the  *)
(* rotation, `discard` and failing lanes do.                               *)
THEOREM FramesStayInOrder == Spec => []WireInOrder
<1>1. SendInv => WireInOrder
  BY DEF SendInv, OpensInv, OrderlyInv, RowInv, Row, WireFits, Goes, LanesInOrder, WireInOrder
<1> QED BY SendInit, SendStep, <1>1, PTL DEF Spec

(* A lane that waits is overtaken at most once by each other lane, however *)
(* many there are, and no lane is sliced ahead while its fragment is on    *)
(* its way (`nextFrame`, `advance`).                                       *)
THEOREM EveryLaneHasItsTurn == Spec => []RotationIsFair
<1>1. SendInv => RotationIsFair BY DEF SendInv, TurnInv, WaitInv, RotationIsFair
<1> QED BY SendInit, SendStep, <1>1, PTL DEF Spec

(* A lane with work is in the rotation exactly once, the loop never sleeps *)
(* on work with the event clear, and the idle event tells `close()` the    *)
(* truth (`enqueue`, `discard`, `nextFrame`).                              *)
THEOREM AllWorkIsRemembered == Spec => []NoWorkForgotten
<1>1. SendInv => NoWorkForgotten
  BY DEF SendInv, InRotation, Members, Distinct, WaitInv, NoWork, NoWorkForgotten, NoLostWakeup
<1> QED BY SendInit, SendStep, <1>1, PTL DEF Spec

-----------------------------------------------------------------------------
(* What the remote is told of a stream the write loop fails.               *)

(* The slice of a lane that counts as an unsent open belongs to a stream   *)
(* the remote has never seen, and the other way round.                     *)
LEMMA UnsentIsUnseen ==
  ASSUME OrderlyInv, NEW l \in Lanes, NextSlice(queues[l]) # None, queues[l].prepared = None
  PROVE  UnsentOpen(queues[l]) <=> l \in Local /\ Untouched(l)
<1> USE LaneFacts
<1>1. TypeOK /\ queues[l] \in Queue BY DEF OrderlyInv, BaseInv, OpenInv
<1>2. ASSUME UnsentOpen(queues[l]) PROVE l \in Local /\ Untouched(l)
  <2>1. OpensFit(queues[l], l \in Local /\ Untouched(l)) BY DEF OrderlyInv, RowInv, Row
  <2>2. queues[l].fragments = None \/ Last(queues[l].fragments)
    <3> SUFFICES ASSUME queues[l].fragments # None, ~Last(queues[l].fragments) PROVE FALSE OBVIOUS
    <3>1. /\ NextSlice(queues[l]) = [frame |-> queues[l].fragments.frame, idx |-> queues[l].fragments.idx + 1]
          /\ queues[l].fragments \in Fragment
      BY <1>1, SliceFacts
    <3>2. NextSlice(queues[l]).idx = queues[l].fragments.idx + 1 BY <3>1
    <3> QED BY <1>2, <3>1, <3>2, FragmentFacts DEF UnsentOpen
  <2>3. queues[l].waiting # << >> /\ NextSlice(queues[l]).frame = queues[l].waiting[1]
    BY <1>1, <2>2, SliceFacts
  <2> QED BY <1>2, <2>1, <2>3 DEF UnsentOpen, OpensFit
<1>3. ASSUME l \in Local, Untouched(l) PROVE UnsentOpen(queues[l])
  <2>1. LaneInv(l) BY <1>3 DEF OrderlyInv, BaseInv, OpenInv
  <2>2. /\ queues[l].prepared = None /\ queues[l].fragments = None
        /\ queues[l].waiting # << >> => Head(queues[l].waiting).type = "open"
    BY <1>3, <2>1 DEF LaneInv, OpenWaits
  <2>3. queues[l].waiting # << >> BY <1>1, <2>2, SliceFacts
  <2>4. NextSlice(queues[l]) = [frame |-> Head(queues[l].waiting), idx |-> 1] BY <2>2, <2>3 DEF NextSlice
  <2> QED BY <2>2, <2>3, <2>4 DEF UnsentOpen
<1> QED BY <1>2, <1>3

LEMMA PutIsLast ==
  ASSUME NEW q \in Queue, NEW f \in Frame
  PROVE  LET w == Put(q, f).waiting IN w # << >> /\ w[Len(w)] = f
<1> DEFINE v == q.waiting
           w == Put(q, f).waiting
<1>1. w = Append(v, f) /\ v \in Seq(Frame) BY PutType DEF Queue
<1> HIDE DEF v, w
<1>2. Len(v) \in Nat /\ Len(w) = Len(v) + 1 /\ w[Len(v) + 1] = f BY <1>1, AppendProperties
<1>3. w # << >> BY <1>2, EmptySeq
<1> QED BY <1>2, <1>3 DEF w

LEMMA FailLaneReports ==
  ASSUME OrderlyInv, NEW k \in Lanes, NEW q \in [Lanes -> Queue], NEW o, NEW u \in BOOLEAN,
         FailLane(k, q, o, u), q[k] = EmptyQueue, PrepareRaises(queues[k]), u = UnsentOpen(queues[k]),
         NEW s \in live \ live', isOpen'
  PROVE  QueuesReset(s) <=> (s \in Remote \/ wire[s] # << >>)
<1> USE LaneFacts
<1>1. TypeOK BY DEF OrderlyInv, BaseInv, OpenInv
<1>2. k \in live
  <2> SUFFICES ASSUME k \notin live PROVE FALSE OBVIOUS
  <2>1. DieWith(1011, q, o) BY DEF FailLane
  <2> QED BY <2>1 DEF DieWith, isOpen
<1>3. s = k BY <1>2 DEF FailLane
<1>4. u <=> k \in Local /\ Untouched(k) BY UnsentIsUnseen DEF PrepareRaises
<1>5. CASE u
  <2>1. queues'[k] = EmptyQueue BY <1>2, <1>5 DEF FailLane
  <2>2. ~QueuesReset(s) BY <1>3, <2>1, EmptyFacts DEF QueuesReset
  <2> QED BY <1>1, <1>3, <1>4, <1>5, <2>2 DEF Untouched
<1>6. CASE ~u
  <2>1. queues' = [q EXCEPT ![k] = Put(@, Plain(k, "reset"))] BY <1>2, <1>6 DEF FailLane, EnqueueOn
  <2>2. queues'[k] = Put(EmptyQueue, Plain(k, "reset")) BY <2>1
  <2>3. Plain(k, "reset") \in Frame BY <1>1, FrameType_New DEF FrameType
  <2>4. QueuesReset(s) BY <1>3, <2>2, <2>3, PutIsLast, EmptyFacts DEF QueuesReset, Plain
  <2>5. k \in Local \/ k \in Remote BY <1>1, <1>2 DEF Streams
  <2> QED BY <1>3, <1>4, <1>6, <2>4, <2>5 DEF Untouched
<1> QED BY <1>5, <1>6

LEMMA LoopReports ==
  ASSUME SendInv, NextFrameRaises \/ Sent \/ SendRaises, NEW s \in live \ live', isOpen'
  PROVE  QueuesReset(s) <=> (s \in Remote \/ wire[s] # << >>)
<1> USE LaneFacts
<1>1. OrderlyInv /\ TypeOK BY DEF SendInv, OrderlyInv, BaseInv, OpenInv
<1>2. CASE NextFrameRaises
  <2>1. PICK i \in DOMAIN order :
           /\ PrepareRaises(queues[order[i]])
           /\ FailLane(order[i], [Retired(i - 1) EXCEPT ![order[i]] = EmptyQueue],
                       Rotated(i) \o (IF order[i] = CONNECTION_LANE THEN <<order[i]>> ELSE << >>),
                       UnsentOpen(queues[order[i]]))
    BY <1>2 DEF NextFrameRaises
  <2> DEFINE k == order[i]
             q == [Retired(i - 1) EXCEPT ![k] = EmptyQueue]
             o == Rotated(i) \o (IF order[i] = CONNECTION_LANE THEN <<order[i]>> ELSE << >>)
             u == UnsentOpen(queues[k])
  <2>2. k \in Lanes /\ i - 1 \in Nat /\ i - 1 <= Len(order) BY <1>1, PlaceFacts
  <2>3. Retired(i - 1) \in [Lanes -> Queue] BY <1>1, <2>2, RotationType
  <2>4. q \in [Lanes -> Queue] /\ q[k] = EmptyQueue /\ u \in BOOLEAN
    BY <2>2, <2>3, EmptyQueueType DEF UnsentOpen
  <2>5. FailLane(k, q, o, u) /\ PrepareRaises(queues[k]) /\ u = UnsentOpen(queues[k]) BY <2>1
  <2> HIDE DEF k, q, o, u
  <2> QED BY <1>1, <2>2, <2>4, <2>5, FailLaneReports
<1>3. CASE Sent
  <2>1. PICK k \in Lanes : k = inhand.lane BY <1>1, <1>3 DEF Sent, TypeOK, LoopType
  <2> DEFINE q == [queues EXCEPT ![k] = EmptyQueue]
             o == IF k = CONNECTION_LANE THEN order ELSE Drop(k)
             u == UnsentOpen(queues[k])
  <2>2. PrepareRaises(queues[k]) BY <1>3, <2>1 DEF Sent
  <2>3. FailLane(k, q, o, u) BY <1>3, <2>1, <2>2 DEF Sent
  <2>4. q \in [Lanes -> Queue] /\ q[k] = EmptyQueue /\ u \in BOOLEAN /\ u = UnsentOpen(queues[k])
    BY <1>1, EmptyQueueType DEF UnsentOpen
  <2> HIDE DEF q, o, u
  <2> QED BY <1>1, <2>2, <2>3, <2>4, FailLaneReports, ZenonT(40)
<1>4. CASE SendRaises
  <2>1. PICK k \in Lanes : k = inhand.lane BY <1>1, <1>4 DEF SendRaises, TypeOK, LoopType
  <2>2. k \in live
    <3> SUFFICES ASSUME k \notin live PROVE FALSE OBVIOUS
    <3>1. DieWith(1011, queues, order) BY <1>4, <2>1 DEF SendRaises
    <3> QED BY <3>1 DEF DieWith, isOpen
  <2>3. s = k /\ queues' = [queues EXCEPT ![k] = Put(@, Plain(k, "reset"))]
    BY <1>4, <2>1, <2>2 DEF SendRaises, Enqueue, EnqueueOn
  <2>4. Plain(k, "reset") \in Frame BY <1>1, FrameType_New DEF FrameType
  <2>5. queues'[k] = Put(queues[k], Plain(k, "reset")) /\ queues[k] \in Queue BY <1>1, <2>3
  <2>6. QueuesReset(s) BY <2>3, <2>4, <2>5, PutIsLast DEF QueuesReset, Plain
  <2>7. wire[k] # << >>
    BY <1>1, <1>4, <2>1 DEF SendRaises, TypeOK, LoopType, OrderlyInv, BaseInv, OpenInv, HandedOver
  <2> QED BY <2>3, <2>6, <2>7
<1> QED BY <1>2, <1>3, <1>4

(* When the write loop fails a stream and the connection goes on, a        *)
(* `reset` waits for the remote exactly when the remote may have seen the  *)
(* id, whichever slice the codec or the socket refused (`failLane`,        *)
(* `failUnsendable`, `LaneEncodingError.unsentOpen`).                      *)
THEOREM FailureReachesTheRemote == Spec => FailureIsReported
<1>1. SendInv /\ [Next]_vars =>
        [ NextFrameRaises \/ Sent \/ SendRaises =>
          \A s \in live \ live' : isOpen' =>
              (QueuesReset(s) <=> (s \in Remote \/ wire[s] # << >>)) ]_vars
  BY LoopReports
<1> QED BY SendInit, SendStep, <1>1, PTL DEF Spec, FailureIsReported

-----------------------------------------------------------------------------
(* A queue of the writer as a lane of SendPath.                            *)

Item == [frame : Frame, next : Nat]
Queued(s) == [i \in DOMAIN s |-> Pending(s[i], 1)]

LEMMA QueuedFacts ==
  ASSUME NEW s \in Seq(Frame)
  PROVE  /\ Queued(s) \in Seq(Item) /\ Len(Queued(s)) = Len(s) /\ Len(s) \in Nat
         /\ \A i \in 1 .. Len(s) : Queued(s)[i] = Pending(s[i], 1)
         /\ s = << >> => Queued(s) = << >>
         /\ \A f \in Frame : Queued(Append(s, f)) = Append(Queued(s), Pending(f, 1))
         /\ s # << >> => Queued(s) = <<Pending(Head(s), 1)>> \o Queued(Tail(s)) /\ Tail(s) \in Seq(Frame)
<1>1. ASSUME NEW t \in Seq(Frame)
      PROVE  /\ Queued(t) \in Seq(Item) /\ Len(Queued(t)) = Len(t) /\ Len(t) \in Nat
             /\ \A i \in 1 .. Len(t) : Queued(t)[i] = Pending(t[i], 1)
  <2> DEFINE n == Len(t)
             g == [i \in 1 .. n |-> Pending(t[i], 1)]
  <2>1. n \in Nat /\ DOMAIN t = 1 .. n /\ \A i \in 1 .. n : t[i] \in Frame BY LenProperties, ElementOfSeq
  <2> HIDE DEF n
  <2>2. \A i \in 1 .. n : Pending(t[i], 1) \in Item BY <2>1 DEF Pending, Item
  <2>3. Queued(t) = g BY <2>1 DEF Queued
  <2>4. g \in [1 .. n -> Item] /\ \A i \in 1 .. n : g[i] = Pending(t[i], 1) BY <2>2
  <2> HIDE DEF g
  <2>5. g \in Seq(Item) /\ Len(g) = n BY <2>1, <2>4
  <2> QED BY <2>1, <2>3, <2>4, <2>5 DEF n
<1>2. s = << >> => Queued(s) = << >>
  <2>1. s = << >> => Len(Queued(s)) = 0 BY <1>1
  <2> QED BY <1>1, <2>1, EmptySeq
<1>3. ASSUME NEW f \in Frame PROVE Queued(Append(s, f)) = Append(Queued(s), Pending(f, 1))
  <2> DEFINE t == Append(s, f)
             a == Queued(t)
             b == Append(Queued(s), Pending(f, 1))
  <2>1. t \in Seq(Frame) /\ Len(t) = Len(s) + 1 /\ t[Len(s) + 1] = f /\ \A i \in 1 .. Len(s) : t[i] = s[i]
    BY AppendProperties
  <2> HIDE DEF t
  <2>2. a \in Seq(Item) /\ Len(a) = Len(s) + 1 /\ \A i \in 1 .. Len(s) + 1 : a[i] = Pending(t[i], 1)
    BY <1>1, <2>1
  <2>3. Pending(f, 1) \in Item BY DEF Pending, Item
  <2>4. /\ b \in Seq(Item) /\ Len(b) = Len(s) + 1 /\ b[Len(s) + 1] = Pending(f, 1)
        /\ \A i \in 1 .. Len(s) : b[i] = Pending(s[i], 1)
    BY <1>1, <2>3, AppendProperties
  <2> HIDE DEF a, b
  <2>5. \A i \in 1 .. Len(a) : a[i] = b[i]
    <3> TAKE i \in 1 .. Len(a)
    <3>1. i = Len(s) + 1 \/ i \in 1 .. Len(s) BY <1>1, <2>2
    <3> QED BY <1>1, <2>1, <2>2, <2>4, <3>1
  <2>6. a = b BY <2>2, <2>4, <2>5, SeqEqual
  <2> QED BY <2>6 DEF a, b, t
<1>4. ASSUME s # << >> PROVE Queued(s) = <<Pending(Head(s), 1)>> \o Queued(Tail(s)) /\ Tail(s) \in Seq(Frame)
  <2> DEFINE t == Tail(s)
             h == Head(s)
             a == Queued(s)
             b == <<Pending(h, 1)>> \o Queued(t)
  <2>1. /\ h \in Frame /\ h = s[1] /\ t \in Seq(Frame) /\ Len(t) = Len(s) - 1 /\ \A i \in 1 .. Len(t) : t[i] = s[i + 1]
        /\ Len(s) \in Nat \ {0}
    BY <1>4, HeadTailProperties, EmptySeq
  <2>2. a \in Seq(Item) /\ Len(a) = Len(s) /\ \A i \in 1 .. Len(s) : a[i] = Pending(s[i], 1) BY <1>1
  <2>3. <<Pending(h, 1)>> \in Seq(Item) BY <2>1 DEF Pending, Item
  <2> HIDE DEF t, h
  <2>4. Queued(t) \in Seq(Item) /\ Len(Queued(t)) = Len(t) /\ \A i \in 1 .. Len(t) : Queued(t)[i] = Pending(t[i], 1)
    BY <1>1, <2>1
  <2>5. /\ b \in Seq(Item) /\ Len(b) = 1 + Len(t) /\ \A i \in 1 .. 1 + Len(t) :
                b[i] = IF i <= 1 THEN Pending(h, 1) ELSE Queued(t)[i - 1]
    BY <2>3, <2>4, ConcatProperties
  <2> HIDE DEF a, b
  <2>6. \A i \in 1 .. Len(a) : a[i] = b[i]
    <3> TAKE i \in 1 .. Len(a)
    <3>1. CASE i = 1 BY <2>1, <2>2, <2>5, <3>1
    <3>2. CASE i # 1
      <4> DEFINE n == Len(s)
      <4>1. n \in Nat \ {0} /\ i \in 1 .. n /\ Len(t) = n - 1 BY <2>1, <2>2
      <4> HIDE DEF n
      <4>2. i - 1 \in 1 .. Len(t) /\ i \in 1 .. 1 + Len(t) /\ ~(i <= 1) /\ i - 1 + 1 = i BY <3>2, <4>1
      <4>3. b[i] = Pending(t[i - 1], 1) BY <2>4, <2>5, <4>2
      <4>4. t[i - 1] = s[i] BY <2>1, <4>2
      <4> QED BY <2>2, <4>3, <4>4
    <3> QED BY <3>1, <3>2
  <2>7. Len(a) = Len(b) BY <2>1, <2>2, <2>5
  <2>8. a = b BY <2>2, <2>5, <2>6, <2>7, SeqEqual
  <2> QED BY <2>1, <2>8 DEF a, b, h, t
<1> QED BY <1>1, <1>2, <1>3, <1>4

LEMMA LaneShape ==
  ASSUME NEW q \in Queue
  PROVE  /\ LaneOf(q) = InProgress(q) \o Queued(q.waiting)
         /\ InProgress(q) = << >> \/ \E x \in Item : InProgress(q) = <<x>>
         /\ InProgress(q) \in Seq(Item) /\ Queued(q.waiting) \in Seq(Item) /\ LaneOf(q) \in Seq(Item)
         /\ InProgress(q) = << >> => LaneOf(q) = Queued(q.waiting)
         /\ InProgress(q) = << >> <=> q.prepared = None /\ (q.fragments = None \/ Last(q.fragments))
<1>1. LaneOf(q) = InProgress(q) \o Queued(q.waiting) BY DEF LaneOf, Queued
<1>2. Queued(q.waiting) \in Seq(Item) BY QueuedFacts DEF Queue
<1>3. ASSUME q.prepared # None PROVE \E x \in Item : InProgress(q) = <<x>>
  BY <1>3, QueueFacts, FragmentFacts DEF InProgress, Pending, Item
<1>4. ASSUME q.prepared = None, q.fragments # None, ~Last(q.fragments) PROVE \E x \in Item : InProgress(q) = <<x>>
  BY <1>4, QueueFacts, FragmentFacts DEF InProgress, Pending, Item
<1>5. ASSUME q.prepared = None, q.fragments = None \/ Last(q.fragments) PROVE InProgress(q) = << >>
  BY <1>5 DEF InProgress
<1>6. InProgress(q) = << >> \/ \E x \in Item : InProgress(q) = <<x>> BY <1>3, <1>4, <1>5
<1>7. InProgress(q) \in Seq(Item)
  <2>1. << >> \in Seq(Item) BY EmptySeq
  <2>2. ASSUME NEW x \in Item PROVE <<x>> \in Seq(Item) BY <2>2
  <2> QED BY <1>6, <2>1, <2>2
<1>8. LaneOf(q) \in Seq(Item) BY <1>1, <1>2, <1>7, ConcatProperties
<1>9. InProgress(q) = << >> => LaneOf(q) = Queued(q.waiting) BY <1>1, <1>2, ConcatEmptySeq
<1> QED BY <1>1, <1>2, <1>3, <1>4, <1>5, <1>6, <1>7, <1>8, <1>9

LEMMA LaneIsEmpty ==
  ASSUME NEW q \in Queue
  PROVE  LaneOf(q) = << >> <=> ~Sliceable(q)
<1>1. Queued(q.waiting) \in Seq(Item) /\ Len(Queued(q.waiting)) = Len(q.waiting) BY QueuedFacts DEF Queue
<1>2. ASSUME NEW x \in Item, InProgress(q) = <<x>> PROVE LaneOf(q) # << >>
  <2> DEFINE w == Queued(q.waiting)
             v == <<x>> \o w
  <2>1. w \in Seq(Item) /\ <<x>> \in Seq(Item) BY <1>1
  <2>2. LaneOf(q) = v BY <1>2, LaneShape
  <2> HIDE DEF w
  <2>3. Len(v) = 1 + Len(w) /\ Len(w) \in Nat BY <2>1, ConcatProperties, LenProperties
  <2> HIDE DEF v
  <2> QED BY <2>2, <2>3, EmptySeq
<1>3. ASSUME InProgress(q) = << >> PROVE LaneOf(q) = << >> <=> q.waiting = << >>
  <2>1. LaneOf(q) = Queued(q.waiting) BY <1>3, LaneShape
  <2> QED BY <1>1, <2>1, QueueFacts, EmptySeq
<1>4. Sliceable(q) <=> ~(InProgress(q) = << >> /\ q.waiting = << >>) BY LaneShape, SliceFacts DEF Sliceable
<1>5. InProgress(q) # << >> => \E x \in Item : InProgress(q) = <<x>> BY LaneShape
<1> QED BY <1>2, <1>3, <1>4, <1>5

LEMMA LanePut ==
  ASSUME NEW q \in Queue, NEW f \in Frame
  PROVE  LaneOf(Put(q, f)) = Append(LaneOf(q), Pending(f, 1)) /\ Pending(f, 1) \in Item
<1>1. Put(q, f) \in Queue /\ InProgress(Put(q, f)) = InProgress(q) BY PutType DEF InProgress
<1>2. q.waiting \in Seq(Frame) BY DEF Queue
<1>3. Queued(Put(q, f).waiting) = Append(Queued(q.waiting), Pending(f, 1)) BY <1>2, PutType, QueuedFacts
<1> DEFINE a == InProgress(q)
           b == Queued(q.waiting)
           x == Pending(f, 1)
<1>4. a \in Seq(Item) /\ b \in Seq(Item) /\ x \in Item /\ LaneOf(q) = a \o b BY LaneShape DEF Pending, Item
<1>5. LaneOf(Put(q, f)) = a \o Append(b, x) BY <1>1, <1>3, LaneShape
<1> HIDE DEF a, b, x
<1>6. Append(b, x) = b \o <<x>> /\ <<x>> \in Seq(Item) BY <1>4, AppendIsConcat
<1>7. a \o b \in Seq(Item) BY <1>4, ConcatProperties
<1>8. Append(a \o b, x) = (a \o b) \o <<x>> BY <1>4, <1>7, AppendIsConcat
<1>9. a \o (b \o <<x>>) = (a \o b) \o <<x>> BY <1>4, <1>6, ConcatAssociative
<1> QED BY <1>4, <1>5, <1>6, <1>8, <1>9 DEF x

LEMMA ConsFacts ==
  ASSUME NEW x \in Item, NEW w \in Seq(Item)
  PROVE  /\ <<x>> \o w # << >> /\ Head(<<x>> \o w) = x /\ (<<x>> \o w)[1] = x
         /\ Tail(<<x>> \o w) = w
         /\ \A y \in Item : [<<x>> \o w EXCEPT ![1] = y] = <<y>> \o w
<1> DEFINE v == <<x>> \o w
<1>1. /\ v \in Seq(Item) /\ Len(v) = 1 + Len(w) /\ Len(w) \in Nat
      /\ \A i \in 1 .. 1 + Len(w) : v[i] = IF i <= 1 THEN x ELSE w[i - 1]
  <2>1. <<x>> \in Seq(Item) /\ Len(<<x>>) = 1 /\ <<x>>[1] = x OBVIOUS
  <2> QED BY <2>1, ConcatProperties, LenProperties
<1>2. ASSUME NEW y \in Item
      PROVE  /\ <<y>> \o w \in Seq(Item) /\ Len(<<y>> \o w) = 1 + Len(w)
             /\ \A i \in 1 .. 1 + Len(w) : (<<y>> \o w)[i] = IF i <= 1 THEN y ELSE w[i - 1]
  <2>1. <<y>> \in Seq(Item) /\ Len(<<y>>) = 1 /\ <<y>>[1] = y BY <1>2
  <2> QED BY <2>1, ConcatProperties
<1> HIDE DEF v
<1>3. v # << >> BY <1>1, EmptySeq
<1>4. v[1] = x /\ Head(v) = x
  <2>1. v[1] = x BY <1>1
  <2> QED BY <1>1, <1>3, <2>1
<1>5. Tail(v) = w
  <2>1. Tail(v) \in Seq(Item) /\ Len(Tail(v)) = Len(v) - 1 /\ \A i \in 1 .. Len(Tail(v)) : Tail(v)[i] = v[i + 1]
    BY <1>1, <1>3, HeadTailProperties
  <2>2. Len(Tail(v)) = Len(w) BY <1>1, <2>1
  <2> DEFINE n == Len(w)
  <2>3. n \in Nat BY <1>1
  <2>4. \A i \in 1 .. n : Tail(v)[i] = v[i + 1] /\ v[i + 1] = IF i + 1 <= 1 THEN x ELSE w[i + 1 - 1]
    <3> TAKE i \in 1 .. n
    <3>1. Tail(v)[i] = v[i + 1] BY <2>1, <2>2
    <3>2. i + 1 \in 1 .. 1 + n BY <2>3
    <3>3. v[i + 1] = IF i + 1 <= 1 THEN x ELSE w[i + 1 - 1] BY <1>1, <3>2
    <3> QED BY <3>1, <3>3
  <2> HIDE DEF n
  <2>5. \A i \in 1 .. n : Tail(v)[i] = w[i]
    <3> TAKE i \in 1 .. n
    <3>1. ~(i + 1 <= 1) /\ i + 1 - 1 = i BY <2>3
    <3> QED BY <2>4, <3>1
  <2> QED BY <2>1, <2>2, <2>5, SeqEqual DEF n
<1>6. ASSUME NEW y \in Item PROVE [v EXCEPT ![1] = y] = <<y>> \o w
  <2> DEFINE a == [v EXCEPT ![1] = y]
             b == <<y>> \o w
  <2>1. 1 \in 1 .. Len(v) BY <1>1
  <2>2. a \in Seq(Item) /\ Len(a) = Len(v) /\ \A i \in 1 .. Len(v) : a[i] = IF i = 1 THEN y ELSE v[i]
    BY <1>1, <2>1, ExceptSeq
  <2>3. b \in Seq(Item) /\ Len(b) = 1 + Len(w) /\ \A i \in 1 .. 1 + Len(w) : b[i] = IF i <= 1 THEN y ELSE w[i - 1]
    BY <1>2
  <2> HIDE DEF a, b
  <2>4. \A i \in 1 .. Len(a) : a[i] = b[i]
    <3> TAKE i \in 1 .. Len(a)
    <3> DEFINE n == Len(w)
    <3>1. n \in Nat /\ Len(v) = 1 + n /\ i \in 1 .. 1 + n BY <1>1, <2>2
    <3>2. a[i] = (IF i = 1 THEN y ELSE v[i]) /\ b[i] = (IF i <= 1 THEN y ELSE w[i - 1])
          /\ v[i] = (IF i <= 1 THEN x ELSE w[i - 1])
      BY <1>1, <2>2, <2>3, <3>1
    <3> HIDE DEF n
    <3>3. i = 1 <=> i <= 1 BY <3>1
    <3> QED BY <3>2, <3>3
  <2>5. a = b BY <1>1, <2>2, <2>3, <2>4, SeqEqual
  <2> QED BY <2>5 DEF a, b
<1> QED BY <1>3, <1>4, <1>5, <1>6 DEF v

(* Slicing the next fragment changes nothing of the lane; taking it moves  *)
(* the lane one fragment on.                                               *)
LEMMA LaneSliced ==
  ASSUME NEW q \in Queue
  PROVE  LaneOf(Prepare(q)) = LaneOf(q)
<1> DEFINE p == Prepare(q)
<1>1. CASE q.prepared # None BY <1>1 DEF Prepare
<1>2. CASE q.prepared = None /\ q.fragments # None /\ ~Last(q.fragments)
  <2>1. NextSlice(q) = [frame |-> q.fragments.frame, idx |-> q.fragments.idx + 1] /\ NextSlice(q) # None
    BY <1>2, SliceFacts, FragmentFacts
  <2>2. q.fragments \in Fragment BY <1>2, QueueFacts
  <2>3. NextSlice(q).idx # 1 BY <2>1, <2>2, FragmentFacts
  <2>4. p.waiting = q.waiting /\ p.prepared = NextSlice(q) BY <1>2, <2>3 DEF Prepare
  <2>5. InProgress(p) = <<Pending(q.fragments.frame, q.fragments.idx + 1)>> BY <2>1, <2>4 DEF InProgress
  <2>6. InProgress(q) = <<Pending(q.fragments.frame, q.fragments.idx + 1)>> BY <1>2 DEF InProgress
  <2> QED BY <2>4, <2>5, <2>6 DEF LaneOf
<1>3. CASE q.prepared = None /\ (q.fragments = None \/ Last(q.fragments)) /\ q.waiting # << >>
  <2>1. NextSlice(q) = [frame |-> Head(q.waiting), idx |-> 1] /\ NextSlice(q) # None
    BY <1>3, SliceFacts, FragmentFacts DEF NextSlice
  <2>2. p \in Queue /\ p.waiting = Tail(q.waiting) /\ p.prepared = NextSlice(q)
    BY <1>3, <2>1, PrepareType DEF Prepare
  <2>3. InProgress(p) = <<Pending(Head(q.waiting), 1)>> BY <2>1, <2>2 DEF InProgress
  <2>4. LaneOf(p) = <<Pending(Head(q.waiting), 1)>> \o Queued(Tail(q.waiting)) BY <2>2, <2>3, LaneShape
  <2>5. LaneOf(q) = Queued(q.waiting) BY <1>3, LaneShape
  <2> QED BY <1>3, <2>4, <2>5, QueuedFacts, QueueFacts
<1>4. CASE q.prepared = None /\ (q.fragments = None \/ Last(q.fragments)) /\ q.waiting = << >>
  <2>1. NextSlice(q) = None BY <1>4, SliceFacts
  <2>2. p \in Queue /\ p.waiting = << >> /\ p.prepared = None /\ p.fragments = None
    BY <1>4, <2>1, PrepareType DEF Prepare
  <2>3. ~Sliceable(p) /\ ~Sliceable(q) BY <1>4, <2>1, <2>2, SliceFacts DEF Sliceable
  <2> QED BY <2>2, <2>3, LaneIsEmpty
<1> QED BY <1>1, <1>2, <1>3, <1>4

LEMMA LaneTaken ==
  ASSUME NEW q \in Queue, q.prepared # None, q.fragments = q.prepared
  PROVE  /\ LaneOf(q) # << >> /\ Promise!First(LaneOf(q)) = q.prepared
         /\ Promise!Rest(LaneOf(q)) = LaneOf(Take(q))
<1> DEFINE p == q.prepared
           x == Pending(p.frame, p.idx)
           y == Pending(p.frame, p.idx + 1)
           w == Queued(q.waiting)
<1>1. p \in Fragment /\ p.frame \in Frame /\ p.idx \in Nat /\ p = [frame |-> p.frame, idx |-> p.idx]
  BY QueueFacts, FragmentFacts
<1>a. p.idx + 1 \in Nat BY <1>1
<1>2. x \in Item /\ y \in Item /\ w \in Seq(Item) BY <1>1, <1>a, LaneShape DEF Pending, Item
<1>3. /\ x.frame = p.frame /\ x.next = p.idx /\ [x EXCEPT !.next = @ + 1] = y
      /\ InProgress(q) = <<x>>
  BY DEF Pending, InProgress
<1>4. Take(q) \in Queue /\ Take(q).prepared = None /\ Take(q).waiting = q.waiting /\ Take(q).fragments = p
  BY TakeType DEF Take, Queue
<1>5. InProgress(Take(q)) = IF Last(p) THEN << >> ELSE <<y>> BY <1>4 DEF InProgress
<1>6. LaneOf(Take(q)) = IF Last(p) THEN w ELSE <<y>> \o w
  BY <1>4, <1>5, LaneShape
<1>7. LaneOf(q) = <<x>> \o w BY <1>3, LaneShape
<1>8. Last(p) <=> x.next = x.frame.frags BY <1>3 DEF Last
<1> HIDE DEF x, y, w, p
<1> DEFINE v == <<x>> \o w
<1>9. v # << >> /\ Head(v) = x /\ v[1] = x /\ Tail(v) = w /\ [v EXCEPT ![1] = y] = <<y>> \o w
  BY <1>2, ConsFacts
<1> HIDE DEF v
<1>10. [v EXCEPT ![1].next = @ + 1] = [v EXCEPT ![1] = y] BY <1>3, <1>9
<1>11. Promise!First(v) = p BY <1>1, <1>3, <1>9 DEF Promise!First
<1>12. Promise!Rest(v) = IF Last(p) THEN w ELSE <<y>> \o w
  BY <1>8, <1>9, <1>10 DEF Promise!Rest
<1> QED BY <1>6, <1>7, <1>9, <1>11, <1>12 DEF v, p

(* What `discard` keeps of the queue it keeps of the lane.                 *)
LEMMA LaneHolds ==
  ASSUME NEW q \in Queue, NEW u \in BOOLEAN, OpensFit(q, u), u => q.prepared = None /\ q.fragments = None
  PROVE  /\ Promise!HoldsUnsentOpen(LaneOf(q)) <=> KeepsOpen(q)
         /\ KeepsOpen(q) => u
         /\ Promise!Keep(LaneOf(q)) = LaneOf(DiscardExceptUnsentOpen(q))
<1>1. KeepsOpen(q) => u BY QueueFacts DEF KeepsOpen, OpensFit
<1>2. ASSUME KeepsOpen(q)
      PROVE  /\ LaneOf(q) # << >> /\ Head(LaneOf(q)) = Pending(Head(q.waiting), 1) /\ Head(q.waiting) \in Frame
             /\ Promise!HoldsUnsentOpen(LaneOf(q))
  <2>1. q.prepared = None /\ q.fragments = None /\ q.waiting # << >> /\ Head(q.waiting).type = "open"
    BY <1>2 DEF KeepsOpen
  <2> DEFINE x == Pending(Head(q.waiting), 1)
             w == Queued(Tail(q.waiting))
  <2>2. LaneOf(q) = <<x>> \o w /\ Tail(q.waiting) \in Seq(Frame)
    BY <2>1, LaneShape, QueuedFacts, QueueFacts
  <2>3. Head(q.waiting) \in Frame BY <2>1, QueueFacts
  <2>4. x \in Item /\ w \in Seq(Item) BY <2>2, <2>3, QueuedFacts DEF Pending, Item
  <2>5. x.next = 1 /\ x.frame.type = "open" BY <2>1 DEF Pending
  <2>6. LaneOf(q) # << >> /\ Head(LaneOf(q)) = x
    <3> HIDE DEF x, w
    <3> QED BY <2>2, <2>4, ConsFacts
  <2> QED BY <2>3, <2>5, <2>6 DEF Promise!HoldsUnsentOpen
<1>3. ASSUME Promise!HoldsUnsentOpen(LaneOf(q)) PROVE KeepsOpen(q)
  <2>1. LaneOf(q) # << >> /\ Head(LaneOf(q)).next = 1 /\ Head(LaneOf(q)).frame.type = "open"
    BY <1>3 DEF Promise!HoldsUnsentOpen
  <2>2. CASE InProgress(q) # << >>
    <3>1. PICK x \in Item : InProgress(q) = <<x>> BY <2>2, LaneShape
    <3>2. Head(LaneOf(q)) = x BY <3>1, LaneShape, ConsFacts
    <3>3. CASE q.prepared # None
      <4>1. x = Pending(q.prepared.frame, q.prepared.idx) BY <3>1, <3>3 DEF InProgress
      <4> QED BY <2>1, <3>2, <3>3, <4>1 DEF Pending, OpensFit
    <3>4. CASE q.prepared = None
      <4>1. q.fragments # None /\ ~Last(q.fragments) BY <2>2, <3>4 DEF InProgress
      <4>2. x = Pending(q.fragments.frame, q.fragments.idx + 1) BY <3>1, <3>4, <4>1 DEF InProgress
      <4>3. q.fragments \in Fragment BY <4>1, QueueFacts
      <4>4. x.next # 1 BY <4>2, <4>3, FragmentFacts DEF Pending
      <4> QED BY <2>1, <3>2, <4>4
    <3> QED BY <3>3, <3>4
  <2>3. CASE InProgress(q) = << >>
    <3>1. q.waiting # << >>
      <4>1. LaneOf(q) = Queued(q.waiting) /\ q.waiting \in Seq(Frame) BY <2>3, LaneShape, QueueFacts
      <4> QED BY <2>1, <4>1, QueuedFacts
    <3> DEFINE x == Pending(Head(q.waiting), 1)
               w == Queued(Tail(q.waiting))
    <3>2. LaneOf(q) = <<x>> \o w /\ Tail(q.waiting) \in Seq(Frame)
      BY <2>3, <3>1, LaneShape, QueuedFacts, QueueFacts
    <3>3. x \in Item /\ w \in Seq(Item) BY <3>1, <3>2, QueueFacts, QueuedFacts DEF Pending, Item
    <3>4. x.frame = Head(q.waiting) BY DEF Pending
    <3>5. Head(LaneOf(q)) = x
      <4> HIDE DEF x, w
      <4> QED BY <3>2, <3>3, ConsFacts
    <3>6. Head(q.waiting).type = "open" BY <2>1, <3>4, <3>5
    <3>7. u BY <3>1, <3>6, QueueFacts DEF OpensFit
    <3> QED BY <3>1, <3>6, <3>7 DEF KeepsOpen
  <2> QED BY <2>2, <2>3
<1>4. Promise!Keep(LaneOf(q)) = LaneOf(DiscardExceptUnsentOpen(q))
  <2>1. CASE KeepsOpen(q)
    <3> DEFINE d == DiscardExceptUnsentOpen(q)
               f == Head(q.waiting)
    <3>1. d.waiting = <<f>> /\ d.prepared = None /\ d.fragments = None /\ d \in Queue
      BY <2>1, DiscardType DEF DiscardExceptUnsentOpen, EmptyQueue
    <3>2. f \in Frame /\ Promise!Keep(LaneOf(q)) = <<Pending(f, 1)>> BY <1>2, <2>1 DEF Promise!Keep
    <3>3. LaneOf(d) = Queued(<<f>>) BY <3>1, LaneShape
    <3> HIDE DEF f, d
    <3>4. Queued(<<f>>) = <<Pending(f, 1)>> BY DEF Queued
    <3> QED BY <3>2, <3>3, <3>4 DEF d
  <2>2. CASE ~KeepsOpen(q)
    <3>1. DiscardExceptUnsentOpen(q) = EmptyQueue BY <2>2 DEF DiscardExceptUnsentOpen
    <3>2. LaneOf(EmptyQueue) = << >> BY EmptyFacts, LaneIsEmpty
    <3>3. Promise!Keep(LaneOf(q)) = << >> BY <1>3, <2>2 DEF Promise!Keep
    <3> QED BY <3>1, <3>2, <3>3
  <2> QED BY <2>1, <2>2
<1> QED BY <1>1, <1>2, <1>3, <1>4

-----------------------------------------------------------------------------
(* A step touches one lane, but for a death, which clears them all.        *)

Others(k) ==
    \A l \in Lanes \ {k} :
        /\ wire'[l] = wire[l]
        /\ queues'[l] = queues[l] \/ (queues'[l] = EmptyQueue /\ ~Sliceable(queues[l]))

Cleared == wire' = wire /\ queues' = [l \in Lanes |-> EmptyQueue]

(* What a lane loses without sending it, it may lose.                      *)
Lawful(k) ==
    queues'[k] = EmptyQueue /\ wire'[k] = wire[k] =>
        \/ queues'[k] = DiscardExceptUnsentOpen(queues[k]) \/ ~Sliceable(queues[k])
        \/ k \in Local /\ Untouched(k)

LEMMA PutNotEmpty ==
  ASSUME NEW q \in Queue, NEW f \in Frame
  PROVE  Put(q, f) # EmptyQueue
BY PutIsLast, EmptyFacts

LEMMA EnqueueOne ==
  ASSUME TypeOK, NEW k \in Lanes, NEW f \in Frame, EnqueueOn(queues, order, k, f), wire' = wire
  PROVE  Others(k) /\ Lawful(k)
<1>1. queues' = [queues EXCEPT ![k] = Put(@, f)] /\ queues \in [Lanes -> Queue] BY LaneFacts DEF EnqueueOn
<1>2. queues'[k] # EmptyQueue BY <1>1, PutNotEmpty
<1> QED BY <1>1, <1>2 DEF Others, Lawful

LEMMA UnchangedOne ==
  ASSUME TypeOK, wire' = wire,
         \A l \in Lanes : queues'[l] = queues[l] \/ (queues'[l] = EmptyQueue /\ ~Sliceable(queues[l]))
  PROVE  Others(CONNECTION_LANE) /\ Lawful(CONNECTION_LANE)
BY LaneFacts, EmptyFacts DEF Others, Lawful

LEMMA FailLaneOne ==
  ASSUME OrderlyInv, NEW k \in Lanes, NEW q \in [Lanes -> Queue], NEW o, NEW u \in BOOLEAN,
         FailLane(k, q, o, u), q[k] = EmptyQueue, PrepareRaises(queues[k]), u = UnsentOpen(queues[k]), wire' = wire,
         \A l \in Lanes \ {k} : q[l] = queues[l] \/ (q[l] = EmptyQueue /\ ~Sliceable(queues[l]))
  PROVE  Cleared \/ (Others(k) /\ Lawful(k))
<1> USE LaneFacts
<1>1. TypeOK /\ DeadIsEmpty BY DEF OrderlyInv, BaseInv, OpenInv
<1>2. isOpen
  <2> SUFFICES ASSUME ~isOpen PROVE FALSE OBVIOUS
  <2>1. queues[k] = EmptyQueue BY <1>1 DEF DeadIsEmpty
  <2> QED BY <2>1, EmptyFacts DEF PrepareRaises, Sliceable
<1>3. CASE k \notin live
  <2>1. queues' = [l \in Lanes |-> EmptyQueue] BY <1>2, <1>3 DEF FailLane, DieWith
  <2> QED BY <2>1 DEF Cleared
<1>4. CASE k \in live /\ u
  <2>1. queues' = q BY <1>4 DEF FailLane
  <2>2. k \in Local /\ Untouched(k) BY <1>4, UnsentIsUnseen DEF PrepareRaises
  <2> QED BY <2>1, <2>2 DEF Others, Lawful
<1>5. CASE k \in live /\ ~u
  <2>1. queues' = [q EXCEPT ![k] = Put(@, Plain(k, "reset"))] BY <1>5 DEF FailLane, EnqueueOn
  <2>2. Plain(k, "reset") \in Frame BY <1>1, FrameType_New DEF FrameType
  <2>3. queues'[k] = Put(EmptyQueue, Plain(k, "reset")) BY <2>1
  <2>4. queues'[k] # EmptyQueue BY <2>2, <2>3, PutNotEmpty, EmptyFacts
  <2> QED BY <2>1, <2>4 DEF Others, Lawful
<1> QED BY <1>3, <1>4, <1>5

LEMMA OneLane ==
  ASSUME OrderlyInv, [Next]_vars
  PROVE  Cleared \/ \E k \in Lanes : Others(k) /\ Lawful(k)
<1> USE LaneFacts
<1>1. TypeOK BY DEF OrderlyInv, BaseInv, OpenInv
<1>2. CASE wire' = wire /\ queues' = queues BY <1>1, <1>2, UnchangedOne
<1>3. ASSUME NEW k \in Lanes, NEW f \in Frame, EnqueueOn(queues, order, k, f), wire' = wire
      PROVE  \E m \in Lanes : Others(m) /\ Lawful(m)
  BY <1>1, <1>3, EnqueueOne
<1>4. CASE Open
  <2>1. PICK f \in NewFrame(nextId, "open") : EnqueueOn(queues, order, nextId, f)
    BY <1>4 DEF Open, Enqueue
  <2>2. nextId \in Local /\ wire' = wire BY <1>1, <1>4, WriterAssumption DEF Open, Local, TypeOK, PeerType
  <2>3. f \in Frame BY <1>1, <2>1, <2>2, FrameType_New DEF FrameType
  <2> QED BY <1>1, <1>3, <2>1, <2>2, <2>3
<1>5. CASE Control
  <2> DEFINE f == Plain(CONNECTION_LANE, "control")
  <2>1. EnqueueOn(queues, order, CONNECTION_LANE, f) /\ wire' = wire BY <1>5 DEF Control, Enqueue
  <2>2. f \in Frame BY <1>1, FrameType_New DEF FrameType
  <2> HIDE DEF f
  <2> QED BY <1>1, <1>3, <2>1, <2>2
<1>6. CASE Die BY <1>6 DEF Die, DieWith, Cleared
<1>7. CASE Stop \/ Wake \/ LoopEnds \/ SendFindsClosed \/ UNCHANGED vars
  BY <1>2, <1>7 DEF Stop, Wake, LoopEnds, SendFindsClosed, vars, writerVars, history
<1>8. ASSUME NEW s \in Streams, Accept(s) \/ RemoteEnd(s) \/ GoawayFails(s)
      PROVE  \E k \in Lanes : Others(k) /\ Lawful(k)
  <2>1. wire' = wire /\ queues' = queues BY <1>8 DEF Accept, RemoteEnd, GoawayFails, writerVars, history
  <2> QED BY <1>1, <2>1, UnchangedOne
<1>9. ASSUME NEW s \in Streams, Send(s) PROVE \E k \in Lanes : Others(k) /\ Lawful(k)
  <2>1. PICK f \in NewFrame(s, "data") : EnqueueOn(queues, order, s, f) BY <1>9 DEF Send, Enqueue
  <2>2. f \in Frame /\ wire' = wire BY <1>1, <1>9, <2>1, FrameType_New DEF FrameType, Send
  <2> QED BY <1>1, <1>3, <2>1, <2>2
<1>10. ASSUME NEW s \in Streams, HandlerError(s) PROVE \E k \in Lanes : Others(k) /\ Lawful(k)
  <2>1. PICK f \in NewFrame(s, "reset") : EnqueueOn(queues, order, s, f) BY <1>10 DEF HandlerError, Enqueue
  <2>2. f \in Frame /\ wire' = wire BY <1>1, <1>10, <2>1, FrameType_New DEF FrameType, HandlerError
  <2> QED BY <1>1, <1>3, <2>1, <2>2
<1>11. ASSUME NEW s \in Streams, Reset(s) PROVE \E k \in Lanes : Others(k) /\ Lawful(k)
  <2>1. /\ queues' = [DiscardedQueues(s) EXCEPT ![s] = Put(@, Plain(s, "reset"))]
        /\ wire' = wire
    BY <1>11 DEF Reset, EnqueueOn
  <2>2. /\ s \in Lanes /\ queues \in [Lanes -> Queue] /\ Plain(s, "reset") \in Frame
        /\ DiscardExceptUnsentOpen(queues[s]) \in Queue
    BY <1>1, FrameType_New, DiscardType DEF FrameType
  <2>3. /\ queues'[s] = Put(DiscardExceptUnsentOpen(queues[s]), Plain(s, "reset"))
        /\ \A l \in Lanes \ {s} : queues'[l] = queues[l]
    BY <2>1, <2>2 DEF DiscardedQueues
  <2>4. queues'[s] # EmptyQueue BY <2>2, <2>3, PutNotEmpty
  <2> QED BY <2>1, <2>2, <2>3, <2>4 DEF Others, Lawful
<1>12. ASSUME NEW s \in Streams, RemoteReset(s) PROVE \E k \in Lanes : Others(k) /\ Lawful(k)
  <2>1. queues' = [queues EXCEPT ![s] = DiscardExceptUnsentOpen(queues[s])] /\ wire' = wire /\ s \in Lanes
    BY <1>1, <1>12 DEF RemoteReset, DiscardedQueues
  <2> QED BY <1>1, <2>1 DEF Others, Lawful
<1>13. CASE NextFrame
  <2>1. PICK i \in DOMAIN order :
           /\ FirstSliceable(i)
           /\ queues' = [Retired(i - 1) EXCEPT ![order[i]] = Take(Prepare(queues[order[i]]))]
           /\ wire' = [wire EXCEPT ![order[i]] = Append(@, Prepare(queues[order[i]]).prepared)]
    BY <1>13 DEF NextFrame
  <2>2. order[i] \in Lanes /\ i - 1 \in Nat /\ i - 1 <= Len(order) BY <1>1, PlaceFacts
  <2>3. Retired(i - 1) \in [Lanes -> Queue] BY <1>1, <2>2, RotationType
  <2>4. Others(order[i])
    <3> SUFFICES ASSUME NEW l \in Lanes \ {order[i]}
                 PROVE  /\ wire'[l] = wire[l]
                        /\ queues'[l] = queues[l] \/ (queues'[l] = EmptyQueue /\ ~Sliceable(queues[l]))
      BY DEF Others
    <3>1. queues'[l] = Retired(i - 1)[l] /\ wire'[l] = wire[l] BY <1>1, <2>1, <2>3
    <3>2. Retired(i - 1)[l] = queues[l] \/ (Retired(i - 1)[l] = EmptyQueue /\ ~Sliceable(queues[l]))
      BY <1>1, <2>1, <2>2, RetiredMove DEF FirstSliceable
    <3> QED BY <3>1, <3>2
  <2>5. wire'[order[i]] # wire[order[i]]
    <3> DEFINE k == order[i]
               w == wire[k]
               f == Prepare(queues[k]).prepared
    <3>1. wire'[k] = Append(w, f) /\ w \in Seq(Fragment) BY <1>1, <2>1, <2>2
    <3>2. f \in Fragment BY <1>1, <2>1, <2>2, SliceType DEF FirstSliceable
    <3> HIDE DEF w, f, k
    <3>3. Len(Append(w, f)) = Len(w) + 1 /\ Len(w) \in Nat BY <3>1, <3>2, AppendProperties, LenProperties
    <3> DEFINE v == Append(w, f)
    <3>4. Len(v) # Len(w) BY <3>3
    <3> HIDE DEF v
    <3>5. v # w BY <3>4
    <3> QED BY <3>1, <3>5 DEF v, w, k
  <2> QED BY <2>2, <2>4, <2>5 DEF Lawful
<1>14. CASE NextFrameRaises
  <2>1. PICK i \in DOMAIN order :
           /\ FirstSliceable(i) /\ PrepareRaises(queues[order[i]])
           /\ FailLane(order[i], [Retired(i - 1) EXCEPT ![order[i]] = EmptyQueue],
                       Rotated(i) \o (IF order[i] = CONNECTION_LANE THEN <<order[i]>> ELSE << >>),
                       UnsentOpen(queues[order[i]]))
    BY <1>14 DEF NextFrameRaises
  <2> DEFINE k == order[i]
             q == [Retired(i - 1) EXCEPT ![k] = EmptyQueue]
             o == Rotated(i) \o (IF order[i] = CONNECTION_LANE THEN <<order[i]>> ELSE << >>)
             u == UnsentOpen(queues[k])
  <2>2. k \in Lanes /\ i - 1 \in Nat /\ i - 1 <= Len(order) /\ wire' = wire
    BY <1>1, <1>14, PlaceFacts DEF NextFrameRaises
  <2>3. Retired(i - 1) \in [Lanes -> Queue] BY <1>1, <2>2, RotationType
  <2>4. q \in [Lanes -> Queue] /\ q[k] = EmptyQueue /\ u \in BOOLEAN
    BY <2>2, <2>3, EmptyQueueType DEF UnsentOpen
  <2>5. \A l \in Lanes \ {k} : q[l] = queues[l] \/ (q[l] = EmptyQueue /\ ~Sliceable(queues[l]))
    <3> TAKE l \in Lanes \ {k}
    <3>1. q[l] = Retired(i - 1)[l] BY <2>3
    <3>2. Retired(i - 1)[l] = queues[l] \/ (Retired(i - 1)[l] = EmptyQueue /\ ~Sliceable(queues[l]))
      BY <1>1, <2>1, <2>2, RetiredMove DEF FirstSliceable
    <3> QED BY <3>1, <3>2
  <2>6. FailLane(k, q, o, u) /\ PrepareRaises(queues[k]) /\ u = UnsentOpen(queues[k]) BY <2>1
  <2> HIDE DEF k, q, o, u
  <2> QED BY <2>2, <2>4, <2>5, <2>6, FailLaneOne
<1>15. CASE NothingToSend
  <2>1. queues' = Retired(Len(order)) /\ wire' = wire /\ \A m \in InOrder : ~Sliceable(queues[m])
    BY <1>15 DEF NothingToSend, history
  <2>2. Len(order) \in Nat /\ \A j \in 1 .. Len(order) : ~Sliceable(queues[order[j]])
    BY <1>1, <2>1, PlaceFacts DEF InOrder
  <2>3. \A l \in Lanes : queues'[l] = queues[l] \/ (queues'[l] = EmptyQueue /\ ~Sliceable(queues[l]))
    BY <1>1, <2>1, <2>2, RetiredMove
  <2> QED BY <1>1, <2>1, <2>3, UnchangedOne
<1>16. CASE Sent
  <2>1. PICK k \in Lanes : k = inhand.lane BY <1>1, <1>16 DEF Sent, TypeOK, LoopType
  <2> DEFINE q == [queues EXCEPT ![k] = EmptyQueue]
             o == IF k = CONNECTION_LANE THEN order ELSE Drop(k)
             u == UnsentOpen(queues[k])
  <2>2. wire' = wire BY <1>16 DEF Sent
  <2>3. CASE PrepareRaises(queues[k])
    <3>1. FailLane(k, q, o, u) BY <1>16, <2>1, <2>3 DEF Sent
    <3>2. /\ q \in [Lanes -> Queue] /\ q[k] = EmptyQueue /\ u \in BOOLEAN /\ u = UnsentOpen(queues[k])
          /\ \A l \in Lanes \ {k} : q[l] = queues[l]
      BY <1>1, EmptyQueueType DEF UnsentOpen
    <3> HIDE DEF q, o, u
    <3> QED BY <2>2, <2>3, <3>1, <3>2, FailLaneOne
  <2>4. CASE ~PrepareRaises(queues[k])
    <3>1. queues' = [queues EXCEPT ![k] = Prepare(queues[k])] BY <1>16, <2>1, <2>4 DEF Sent
    <3>2. Sliceable(queues[k]) => Prepare(queues[k]) # EmptyQueue BY EmptyFacts DEF Sliceable, Prepare
    <3> QED BY <1>1, <2>2, <3>1, <3>2 DEF Others, Lawful
  <2> QED BY <2>3, <2>4
<1>17. CASE SendRaises
  <2>1. PICK k \in Lanes : k = inhand.lane BY <1>1, <1>17 DEF SendRaises, TypeOK, LoopType
  <2>2. wire' = wire BY <1>17 DEF SendRaises
  <2>3. CASE k \notin live
    <3>1. DieWith(1011, queues, order) BY <1>17, <2>1, <2>3 DEF SendRaises
    <3> QED BY <1>2, <2>2, <3>1 DEF DieWith, Cleared
  <2>4. CASE k \in live
    <3> DEFINE f == Plain(k, "reset")
    <3>1. EnqueueOn(queues, order, k, f) BY <1>17, <2>1, <2>4 DEF SendRaises, Enqueue
    <3>2. f \in Frame BY <1>1, FrameType_New DEF FrameType
    <3> HIDE DEF f
    <3> QED BY <1>3, <2>2, <3>1, <3>2
  <2> QED BY <2>3, <2>4
<1> QED BY <1>4, <1>5, <1>6, <1>7, <1>8, <1>9, <1>10, <1>11, <1>12, <1>13, <1>14, <1>15, <1>16, <1>17
        DEF Next, WriteLoop

-----------------------------------------------------------------------------
(* Each thing a step does to a lane is a step of SendPath.                 *)

LaneMap == [l \in Lanes |-> LaneOf(queues[l])]

LEMMA GainsOne ==
  ASSUME NEW s \in Seq(Item), NEW x \in Item, x.next = 1
  PROVE  Promise!Gains(s, Append(s, x)) /\ Append(s, x)[Len(Append(s, x))] = x
<1> DEFINE v == Append(s, x)
<1>1. /\ v \in Seq(Item) /\ Len(v) = Len(s) + 1 /\ Len(s) \in Nat /\ v[Len(s) + 1] = x
      /\ \A i \in 1 .. Len(s) : v[i] = s[i]
  BY AppendProperties, LenProperties
<1>2. v[Len(v)] = x BY <1>1
<1> HIDE DEF v
<1>3. SubSeq(v, 1, Len(s)) = s
  <2> DEFINE n == Len(s)
             a == SubSeq(v, 1, n)
  <2>1. n \in Nat /\ \A i \in 1 .. n : v[i] \in Item /\ v[i] = s[i] BY <1>1, ElementOfSeq
  <2> HIDE DEF n
  <2>2. a \in Seq(Item) /\ Len(a) = (IF 1 <= n THEN n - 1 + 1 ELSE 0) /\ \A i \in 1 .. n - 1 + 1 : a[i] = v[1 + i - 1]
    BY <2>1, SubSeqProperties
  <2> HIDE DEF a
  <2>3. Len(a) = n BY <2>1, <2>2
  <2>4. \A i \in 1 .. n : a[i] = s[i]
    <3> TAKE i \in 1 .. n
    <3>1. i \in 1 .. n - 1 + 1 /\ 1 + i - 1 = i BY <2>1
    <3> QED BY <2>1, <2>2, <3>1
  <2>5. a = s BY <2>2, <2>3, <2>4, SeqEqual DEF n
  <2> QED BY <2>5 DEF a, n
<1> QED BY <1>1, <1>2, <1>3 DEF Promise!Gains, v

(* The lane k of SendPath when only queue k counts.                        *)
LEMMA OnlyLane ==
  ASSUME TypeOK, NEW k \in Lanes, Others(k), TypeOK'
  PROVE  /\ LaneMap' = [LaneMap EXCEPT ![k] = LaneMap'[k]]
         /\ wire' = [wire EXCEPT ![k] = wire'[k]]
         /\ LaneMap[k] = LaneOf(queues[k]) /\ LaneMap'[k] = LaneOf(queues'[k])
         /\ LaneMap'[k] = LaneMap[k] => LaneMap' = LaneMap
         /\ wire'[k] = wire[k] => wire' = wire
<1>1. /\ queues \in [Lanes -> Queue] /\ queues' \in [Lanes -> Queue]
      /\ wire \in [Lanes -> Seq(Fragment)] /\ wire' \in [Lanes -> Seq(Fragment)]
  BY DEF TypeOK, WriterType, HistoryType
<1>2. \A l \in Lanes : LaneMap[l] = LaneOf(queues[l]) /\ LaneMap'[l] = LaneOf(queues'[l]) BY DEF LaneMap
<1>3. \A l \in Lanes \ {k} : LaneOf(queues'[l]) = LaneOf(queues[l])
  <2> TAKE l \in Lanes \ {k}
  <2>1. queues'[l] = queues[l] \/ (queues'[l] = EmptyQueue /\ ~Sliceable(queues[l])) BY DEF Others
  <2>2. queues[l] \in Queue BY <1>1
  <2> QED BY <2>1, <2>2, LaneIsEmpty, EmptyFacts
<1>4. \A l \in Lanes \ {k} : wire'[l] = wire[l] BY DEF Others
<1>5. LaneMap = [l \in Lanes |-> LaneMap[l]] /\ LaneMap' = [l \in Lanes |-> LaneMap'[l]] BY DEF LaneMap
<1>6. LaneMap' = [LaneMap EXCEPT ![k] = LaneMap'[k]] BY <1>2, <1>3, <1>5
<1>7. LaneMap'[k] = LaneMap[k] => LaneMap' = LaneMap BY <1>2, <1>3, <1>5
<1>8. wire' = [wire EXCEPT ![k] = wire'[k]] /\ (wire'[k] = wire[k] => wire' = wire) BY <1>1, <1>4
<1> QED BY <1>2, <1>6, <1>7, <1>8

(* What stands at the head of an untouched lane of this peer is an open.   *)
LEMMA LaneOpens ==
  ASSUME OrderlyInv, NEW l \in Lanes
  PROVE  LET u == l \in Local /\ Untouched(l)
         IN  /\ u \in BOOLEAN /\ queues[l] \in Queue /\ OpensFit(queues[l], u)
             /\ u => queues[l].prepared = None /\ queues[l].fragments = None
             /\ u /\ queues[l].waiting # << >> => KeepsOpen(queues[l])
<1>1. BaseInv /\ OpensFit(queues[l], l \in Local /\ Untouched(l)) BY DEF OrderlyInv, RowInv, Row
<1>2. l \in Local /\ Untouched(l) /\ queues[l].waiting # << >> => KeepsOpen(queues[l])
  BY <1>1 DEF BaseInv, OpenInv, LaneInv, OpenWaits, KeepsOpen
<1> QED BY <1>1, <1>2, RowFacts

LEMMA EnqueueMaps ==
  ASSUME OrderlyInv, OrderlyInv', NEW k \in Lanes, NEW f \in Frame, Others(k),
         queues'[k] = Put(queues[k], f), wire'[k] = wire[k]
  PROVE  /\ Promise!Gains(LaneMap[k], LaneMap'[k])
         /\ k \in Local /\ wire[k] = << >> => Promise!HoldsUnsentOpen(LaneMap'[k])
<1>1. TypeOK /\ TypeOK' /\ queues[k] \in Queue /\ queues'[k] \in Queue
  BY LaneOpens DEF OrderlyInv, BaseInv, OpenInv, TypeOK, WriterType
<1>2. LaneMap[k] = LaneOf(queues[k]) /\ LaneMap'[k] = LaneOf(queues'[k]) BY <1>1, OnlyLane
<1>3. LaneMap'[k] = Append(LaneMap[k], Pending(f, 1)) /\ Pending(f, 1) \in Item /\ LaneMap[k] \in Seq(Item)
  BY <1>1, <1>2, LanePut, LaneShape
<1>4. Promise!Gains(LaneMap[k], LaneMap'[k])
  <2> DEFINE x == Pending(f, 1)
             s == LaneMap[k]
  <2>1. x.next = 1 BY DEF Pending
  <2> HIDE DEF x, s
  <2> QED BY <1>3, <2>1, GainsOne DEF x, s
<1>5. ASSUME k \in Local, wire[k] = << >> PROVE Promise!HoldsUnsentOpen(LaneMap'[k])
  <2>1. queues'[k].waiting # << >> BY <1>1, PutIsLast
  <2>2. Untouched(k)' BY <1>5 DEF Untouched
  <2> DEFINE u == k \in Local /\ Untouched(k)'
  <2>3. /\ u \in BOOLEAN /\ OpensFit(queues'[k], u) /\ (u => queues'[k].prepared = None /\ queues'[k].fragments = None)
        /\ KeepsOpen(queues'[k])
    <3>1. OpensFit(queues'[k], u) BY DEF OrderlyInv, RowInv, Row
    <3>2. LaneInv(k)' BY <1>5 DEF OrderlyInv, BaseInv, OpenInv
    <3>3. /\ queues'[k].prepared = None /\ queues'[k].fragments = None
          /\ queues'[k].waiting # << >> => Head(queues'[k].waiting).type = "open"
      BY <2>2, <3>2 DEF LaneInv, OpenWaits
    <3> QED BY <2>1, <3>1, <3>3 DEF KeepsOpen
  <2> HIDE DEF u
  <2>4. Promise!HoldsUnsentOpen(LaneOf(queues'[k])) BY <1>1, <2>3, LaneHolds
  <2> QED BY <1>2, <2>4
<1> QED BY <1>4, <1>5

(* The open that stands at the front of a lane is the least of all.        *)
LEMMA FrontOpens ==
  ASSUME SendInv, NextFrame, NEW k \in Lanes, wire'[k] # wire[k],
         KeepsOpen(queues[k]), NEW m \in Local, m < k, KeepsOpen(queues[m])
  PROVE  FALSE
<1> USE LaneFacts
<1>1. OrderlyInv /\ TypeOK BY DEF SendInv, OrderlyInv, BaseInv, OpenInv
<1>2. PICK i \in DOMAIN order :
         /\ FirstSliceable(i)
         /\ wire' = [wire EXCEPT ![order[i]] = Append(@, Prepare(queues[order[i]]).prepared)]
  BY DEF NextFrame
<1>3. order[i] = k BY <1>1, <1>2
<1>4. ASSUME NEW l \in Lanes, KeepsOpen(queues[l]) PROVE Unsent(l)
  <2> DEFINE u == l \in Local /\ Untouched(l)
  <2>1. u \in BOOLEAN /\ queues[l] \in Queue /\ OpensFit(queues[l], u) BY <1>1, LaneOpens
  <2>2. queues[l].waiting # << >> /\ queues[l].waiting[1].type = "open" BY <1>4, <2>1, QueueFacts DEF KeepsOpen
  <2>3. u BY <2>1, <2>2 DEF OpensFit
  <2> QED BY <2>2, <2>3 DEF Unsent, HasWork
<1>5. m \in Lanes /\ m \in Nat /\ k \in Nat BY <1>1
<1>6. Unsent(k) /\ Unsent(m) /\ Sliceable(queues[m]) BY <1>1, <1>4, <1>5, UnsentFacts
<1>7. PICK j \in DOMAIN order : order[j] = m BY <1>5, <1>6 DEF SendInv, InRotation, Members, Unsent
<1>8. i \in Nat /\ j \in Nat /\ 1 <= j BY <1>1, PlaceFacts
<1>9. ~(j < i)
  <2>1. j < i => j \in 1 .. i - 1 BY <1>8
  <2> QED BY <1>2, <1>6, <1>7, <2>1 DEF FirstSliceable
<1>10. i < j BY <1>3, <1>5, <1>7, <1>8, <1>9
<1>11. Ahead(order, k, m) BY <1>3, <1>7, <1>10 DEF Ahead
<1>12. k < m BY <1>5, <1>6, <1>11 DEF SendInv, OpensInv
<1> QED BY <1>5, <1>12

(* The actions of SendPath on the mapped lanes.                            *)
LEMMA MappedActions ==
  ASSUME NEW k \in Lanes
  PROVE  /\ Promise!Enqueue(k) <=>
              /\ Promise!Gains(LaneMap[k], LaneMap'[k])
              /\ k \in Local /\ wire[k] = << >> => Promise!HoldsUnsentOpen(LaneMap'[k])
         /\ Promise!Discard(k) <=> LaneMap'[k] = Promise!Keep(LaneMap[k])
         /\ Promise!Replace(k) <=>
              /\ Promise!Gains(Promise!Keep(LaneMap[k]), LaneMap'[k])
              /\ LaneMap'[k][Len(LaneMap'[k])].frame.type = "reset"
              /\ k \in Local /\ wire[k] = << >> => Promise!HoldsUnsentOpen(LaneMap[k])
         /\ Promise!Abandon(k) <=>
              IF k \in Local /\ wire[k] = << >> THEN LaneMap'[k] = << >>
              ELSE Promise!Gains(<< >>, LaneMap'[k]) /\ LaneMap'[k][1].frame.type = "reset"
         /\ Promise!OnLane(k) <=>
              /\ Promise!Enqueue(k) \/ Promise!Discard(k) \/ Promise!Replace(k) \/ Promise!Abandon(k)
              /\ LaneMap' = [LaneMap EXCEPT ![k] = LaneMap'[k]]
              /\ wire' = wire
         /\ Promise!Emit(k) <=>
              /\ LaneMap[k] # << >>
              /\ Promise!HoldsUnsentOpen(LaneMap[k]) =>
                    \A m \in Local : m < k => ~Promise!HoldsUnsentOpen(LaneMap[m])
              /\ wire' = [wire EXCEPT ![k] = Append(@, Promise!First(LaneMap[k]))]
              /\ LaneMap' = [LaneMap EXCEPT ![k] = Promise!Rest(@)]
<1>1. Promise!Enqueue(k) <=>
        /\ Promise!Gains(LaneMap[k], LaneMap'[k])
        /\ k \in Local /\ wire[k] = << >> => Promise!HoldsUnsentOpen(LaneMap'[k])
  BY DEF LaneMap, Promise!Enqueue
<1>2. Promise!Discard(k) <=> LaneMap'[k] = Promise!Keep(LaneMap[k]) BY DEF LaneMap, Promise!Discard
<1>3. Promise!Replace(k) <=>
        /\ Promise!Gains(Promise!Keep(LaneMap[k]), LaneMap'[k])
        /\ LaneMap'[k][Len(LaneMap'[k])].frame.type = "reset"
        /\ k \in Local /\ wire[k] = << >> => Promise!HoldsUnsentOpen(LaneMap[k])
  BY DEF LaneMap, Promise!Replace
<1>4. Promise!Abandon(k) <=>
        IF k \in Local /\ wire[k] = << >> THEN LaneMap'[k] = << >>
        ELSE Promise!Gains(<< >>, LaneMap'[k]) /\ LaneMap'[k][1].frame.type = "reset"
  BY DEF LaneMap, Promise!Abandon
<1>5. Promise!OnLane(k) <=>
        /\ Promise!Enqueue(k) \/ Promise!Discard(k) \/ Promise!Replace(k) \/ Promise!Abandon(k)
        /\ LaneMap' = [LaneMap EXCEPT ![k] = LaneMap'[k]]
        /\ wire' = wire
  BY DEF LaneMap, Promise!OnLane
<1>6. Promise!Emit(k) <=>
        /\ LaneMap[k] # << >>
        /\ Promise!HoldsUnsentOpen(LaneMap[k]) =>
              \A m \in Local : m < k => ~Promise!HoldsUnsentOpen(LaneMap[m])
        /\ wire' = [wire EXCEPT ![k] = Append(@, Promise!First(LaneMap[k]))]
        /\ LaneMap' = [LaneMap EXCEPT ![k] = Promise!Rest(@)]
  BY DEF LaneMap, Promise!Emit, Promise!MaySend
<1> QED BY <1>1, <1>2, <1>3, <1>4, <1>5, <1>6

LEMMA ReplaceMaps ==
  ASSUME OrderlyInv, OrderlyInv', NEW k \in Lanes, Others(k), Replaces(k)
  PROVE  Promise!OnLane(k)
<1> USE LaneFacts
<1> DEFINE d == DiscardExceptUnsentOpen(queues[k])
           f == Plain(k, "reset")
           u == k \in Local /\ Untouched(k)
<1>1. TypeOK /\ TypeOK' BY DEF OrderlyInv, BaseInv, OpenInv
<1>2. f \in Frame /\ f.type = "reset" BY <1>1, FrameType_New DEF FrameType, Plain
<1>3. queues[k] \in Queue /\ d \in Queue BY <1>1, DiscardType
<1>4. queues'[k] = Put(d, f) /\ wire'[k] = wire[k] BY DEF Replaces, Counts
<1>5. /\ LaneMap' = [LaneMap EXCEPT ![k] = LaneMap'[k]] /\ wire' = wire
      /\ LaneMap[k] = LaneOf(queues[k]) /\ LaneMap'[k] = LaneOf(queues'[k])
  BY <1>1, <1>4, OnlyLane
<1>6. /\ u \in BOOLEAN /\ OpensFit(queues[k], u) /\ (u => queues[k].prepared = None /\ queues[k].fragments = None)
  BY LaneOpens
<1>7. /\ Promise!HoldsUnsentOpen(LaneMap[k]) <=> KeepsOpen(queues[k])
      /\ Promise!Keep(LaneMap[k]) = LaneOf(d)
  <2> HIDE DEF u
  <2> QED BY <1>3, <1>5, <1>6, LaneHolds
<1>8. ASSUME u PROVE KeepsOpen(queues[k])
  <2> SUFFICES ASSUME ~KeepsOpen(queues[k]) PROVE FALSE OBVIOUS
  <2>1. d = EmptyQueue BY DEF DiscardExceptUnsentOpen
  <2>2. queues'[k].waiting = Append(<< >>, f) BY <1>2, <1>4, <2>1, PutType, EmptyFacts
  <2>3. queues'[k].waiting = <<f>> BY <2>2
  <2>4. LaneInv(k)' BY <1>8 DEF OrderlyInv, BaseInv, OpenInv
  <2>5. Untouched(k)' BY <1>4, <1>8 DEF Untouched
  <2>6. queues'[k].waiting # << >> => Head(queues'[k].waiting).type = "open" BY <2>4, <2>5 DEF LaneInv, OpenWaits
  <2> HIDE DEF f
  <2> QED BY <1>2, <2>3, <2>6
<1> DEFINE x == Pending(f, 1)
           s == LaneOf(d)
<1>9. LaneMap'[k] = Append(s, x) /\ x \in Item /\ s \in Seq(Item) /\ x.next = 1 /\ x.frame = f
  BY <1>2, <1>3, <1>4, <1>5, LanePut, LaneShape DEF Pending
<1>10. Promise!Gains(s, LaneMap'[k]) /\ LaneMap'[k][Len(LaneMap'[k])] = x
  <2> HIDE DEF s, x
  <2> QED BY <1>9, GainsOne
<1>11. LaneMap'[k][Len(LaneMap'[k])].frame.type = "reset" BY <1>2, <1>9, <1>10
<1>12. Promise!Replace(k) BY <1>7, <1>8, <1>10, <1>11, MappedActions DEF Untouched
<1> QED BY <1>5, <1>12, MappedActions

LEMMA FailMaps ==
  ASSUME OrderlyInv, OrderlyInv', NEW k \in Lanes, Others(k), Fails(k)
  PROVE  Promise!OnLane(k)
<1> USE LaneFacts
<1> DEFINE f == Plain(k, "reset")
<1>1. TypeOK /\ TypeOK' BY DEF OrderlyInv, BaseInv, OpenInv
<1>2. f \in Frame /\ f.type = "reset" BY <1>1, FrameType_New DEF FrameType, Plain
<1>3. queues'[k] = Put(EmptyQueue, f) /\ wire'[k] = wire[k] BY DEF Fails, Counts
<1>4. /\ LaneMap' = [LaneMap EXCEPT ![k] = LaneMap'[k]] /\ wire' = wire
      /\ LaneMap'[k] = LaneOf(queues'[k])
  BY <1>1, <1>3, OnlyLane
<1>5. ~(k \in Local /\ wire[k] = << >>) BY UnsentIsUnseen DEF Fails, Untouched
<1> DEFINE x == Pending(f, 1)
<1>6. LaneMap'[k] = Append(<< >>, x) /\ x \in Item /\ x.next = 1 /\ x.frame = f
  BY <1>2, <1>3, <1>4, LanePut, LaneIsEmpty, EmptyFacts DEF Pending
<1>7. Promise!Gains(<< >>, LaneMap'[k])
  <2>1. << >> \in Seq(Item) BY EmptySeq
  <2> HIDE DEF x
  <2> QED BY <1>6, <2>1, GainsOne
<1>8. LaneMap'[k][1] = x BY <1>6
<1>9. Promise!Abandon(k) BY <1>2, <1>5, <1>6, <1>7, <1>8, MappedActions
<1> QED BY <1>4, <1>9, MappedActions

LEMMA EmitMaps ==
  ASSUME SendInv, SendInv', [Next]_vars, NEW k \in Lanes, Others(k), Emits(k)
  PROVE  Promise!Emit(k)
<1> USE LaneFacts
<1> DEFINE q == queues[k]
           p == Prepare(q)
<1>1. OrderlyInv /\ TypeOK /\ TypeOK' BY DEF SendInv, OrderlyInv, BaseInv, OpenInv
<1>2. q \in Queue /\ p \in Queue /\ Sliceable(q) BY <1>1, PrepareType DEF Emits
<1>3. p.prepared # None /\ p.fragments = p.prepared /\ p.prepared \in Fragment
  <2>1. LaneFits(q, wire[k], enqueued[k], Active(k)) BY <1>1 DEF OrderlyInv, RowInv, Row
  <2>2. q.prepared # None => q.fragments = q.prepared BY <2>1 DEF LaneFits, WholeFits
  <2>3. p.prepared \in Fragment BY <1>2, SliceType
  <2> QED BY <1>2, <2>2, <2>3, FragmentFacts DEF Prepare
<1>4. queues'[k] = Take(p) /\ wire'[k] = Append(wire[k], p.prepared) BY DEF Emits
<1>5. /\ LaneMap' = [LaneMap EXCEPT ![k] = LaneMap'[k]] /\ wire' = [wire EXCEPT ![k] = wire'[k]]
      /\ LaneMap[k] = LaneOf(q) /\ LaneMap'[k] = LaneOf(queues'[k])
  BY <1>1, OnlyLane
<1>6. LaneMap[k] = LaneOf(p) BY <1>2, <1>5, LaneSliced
<1>7. /\ LaneMap[k] # << >> /\ Promise!First(LaneMap[k]) = p.prepared
      /\ Promise!Rest(LaneMap[k]) = LaneMap'[k]
  <2> HIDE DEF p
  <2> QED BY <1>2, <1>3, <1>4, <1>5, <1>6, LaneTaken
<1>8. wire' = [wire EXCEPT ![k] = Append(@, Promise!First(LaneMap[k]))] BY <1>1, <1>4, <1>5, <1>7
<1>9. LaneMap' = [LaneMap EXCEPT ![k] = Promise!Rest(@)] BY <1>5, <1>7 DEF LaneMap
<1>10. wire'[k] # wire[k] /\ NextFrame
  <2> DEFINE w == wire[k]
             v == Append(w, p.prepared)
  <2>1. w \in Seq(Fragment) /\ wire'[k] = v BY <1>1, <1>4
  <2>2. Len(v) = Len(w) + 1 /\ Len(w) \in Nat
    <3> HIDE DEF w, p
    <3> QED BY <1>3, <2>1, AppendProperties, LenProperties
  <2> HIDE DEF v, w
  <2>3. Len(v) # Len(w) BY <2>2
  <2>4. wire'[k] # wire[k] BY <2>1, <2>3 DEF w
  <2>5. ~NextFrame => UNCHANGED wire
    BY DEF Next, WriteLoop, Open, Control, Die, Stop, Accept, Send, RemoteEnd, Reset, HandlerError,
       RemoteReset, GoawayFails, NextFrameRaises, NothingToSend, Wake, LoopEnds, Sent,
       SendFindsClosed, SendRaises, vars, history
  <2> QED BY <2>4, <2>5
<1>11. \A l \in Lanes : Promise!HoldsUnsentOpen(LaneMap[l]) <=> KeepsOpen(queues[l])
  <2> TAKE l \in Lanes
  <2> DEFINE u == l \in Local /\ Untouched(l)
  <2>1. /\ u \in BOOLEAN /\ queues[l] \in Queue /\ OpensFit(queues[l], u)
        /\ u => queues[l].prepared = None /\ queues[l].fragments = None
    BY <1>1, LaneOpens
  <2> HIDE DEF u
  <2>2. Promise!HoldsUnsentOpen(LaneOf(queues[l])) <=> KeepsOpen(queues[l]) BY <2>1, LaneHolds
  <2> QED BY <2>2 DEF LaneMap
<1>12. ASSUME Promise!HoldsUnsentOpen(LaneMap[k]), NEW m \in Local, m < k
       PROVE  ~Promise!HoldsUnsentOpen(LaneMap[m])
  <2>1. m \in Lanes BY <1>1
  <2>2. KeepsOpen(queues[k]) BY <1>11, <1>12
  <2>3. ~KeepsOpen(queues[m]) BY <1>10, <1>12, <2>2, FrontOpens
  <2> QED BY <1>11, <2>1, <2>3
<1> HIDE DEF p, q
<1> QED BY <1>7, <1>8, <1>9, <1>12, MappedActions

LEMMA StepMaps ==
  ASSUME SendInv, SendInv', [Next]_vars
  PROVE  [Promise!Next]_(Promise!svars)
<1> USE LaneFacts
<1>1. OrderlyInv /\ OrderlyInv' /\ BaseInv /\ TypeOK /\ TypeOK' BY DEF SendInv, OrderlyInv, BaseInv, OpenInv
<1>2. LaneMap' = LaneMap /\ wire' = wire => UNCHANGED Promise!svars BY DEF LaneMap, Promise!svars
<1>3. ASSUME NEW k \in Lanes, Promise!OnLane(k) \/ Promise!Emit(k) PROVE Promise!Next
  BY <1>3 DEF Promise!Next
<1>4. CASE Cleared
  <2>1. \A l \in Lanes : LaneOf(queues'[l]) = << >>
    <3> TAKE l \in Lanes
    <3>1. queues'[l] = EmptyQueue BY <1>4 DEF Cleared
    <3> QED BY <3>1, LaneIsEmpty, EmptyFacts
  <2>2. [l \in Lanes |-> LaneOf(queues[l])]' = [l \in Lanes |-> << >>] BY <2>1
  <2>3. Promise!Clear BY <1>4, <2>2 DEF Promise!Clear, Cleared
  <2> QED BY <2>3 DEF Promise!Next
<1>5. ASSUME NEW k \in Lanes, Others(k), Lawful(k) PROVE Promise!Next \/ UNCHANGED Promise!svars
  <2>1. /\ LaneMap' = [LaneMap EXCEPT ![k] = LaneMap'[k]]
        /\ LaneMap[k] = LaneOf(queues[k]) /\ LaneMap'[k] = LaneOf(queues'[k])
        /\ LaneMap'[k] = LaneMap[k] => LaneMap' = LaneMap
        /\ wire'[k] = wire[k] => wire' = wire
    BY <1>1, <1>5, OnlyLane
  <2>2. queues[k] \in Queue /\ queues'[k] \in Queue BY <1>1 DEF TypeOK, WriterType
  <2>3. LaneMove(k) BY <1>1, LaneMoves
  <2>4. Promise!Keep(LaneMap[k]) = LaneOf(DiscardExceptUnsentOpen(queues[k]))
    <3> DEFINE u == k \in Local /\ Untouched(k)
    <3>1. /\ u \in BOOLEAN /\ OpensFit(queues[k], u)
          /\ u => queues[k].prepared = None /\ queues[k].fragments = None
      BY <1>1, LaneOpens
    <3> HIDE DEF u
    <3> QED BY <2>1, <2>2, <3>1, LaneHolds
  <2>5. ASSUME queues'[k] = DiscardExceptUnsentOpen(queues[k]), wire'[k] = wire[k] PROVE Promise!Next
    <3>1. Promise!Discard(k) BY <2>1, <2>4, <2>5, MappedActions
    <3> QED BY <1>3, <2>1, <2>5, <3>1, MappedActions
  <2>6. CASE Stays(k) BY <1>2, <2>1, <2>6 DEF Stays, Idles
  <2>7. CASE Empties(k)
    <3>1. queues'[k] = EmptyQueue /\ wire'[k] = wire[k] BY <2>7 DEF Empties, Idles
    <3>2. LaneMap'[k] = << >> BY <2>1, <3>1, LaneIsEmpty, EmptyFacts
    <3>3. CASE ~Sliceable(queues[k]) BY <1>2, <2>1, <2>2, <3>1, <3>2, <3>3, LaneIsEmpty
    <3>4. CASE k \in Local /\ Untouched(k)
      <4>1. Promise!Abandon(k) BY <3>2, <3>4, MappedActions DEF Untouched
      <4> QED BY <1>3, <2>1, <3>1, <4>1, MappedActions
    <3> QED BY <1>5, <2>5, <3>1, <3>3, <3>4 DEF Lawful
  <2>8. CASE Discards(k) BY <2>5, <2>8 DEF Discards, Idles
  <2>9. CASE Replaces(k) BY <1>1, <1>3, <1>5, <2>9, ReplaceMaps
  <2>10. CASE Fails(k) BY <1>1, <1>3, <1>5, <2>10, FailMaps
  <2>11. CASE Emits(k) BY <1>3, <1>5, <2>11, EmitMaps
  <2>12. CASE Slices(k) BY <1>2, <2>1, <2>2, <2>12, LaneSliced DEF Slices, Idles
  <2>13. ASSUME NEW f \in Frame, Gains(k, f) PROVE Promise!Next
    <3>1. queues'[k] = Put(queues[k], f) /\ wire'[k] = wire[k] BY <2>13 DEF Gains, Counts
    <3>2. Promise!Enqueue(k) BY <1>1, <1>5, <3>1, EnqueueMaps, MappedActions
    <3> QED BY <1>3, <2>1, <3>1, <3>2, MappedActions
  <2> QED BY <2>3, <2>6, <2>7, <2>8, <2>9, <2>10, <2>11, <2>12, <2>13 DEF LaneMove
<1> QED BY <1>1, <1>4, <1>5, OneLane

LEMMA InitMaps == Init => Promise!Init
<1> SUFFICES ASSUME Init PROVE Promise!Init OBVIOUS
<1>1. LaneOf(EmptyQueue) = << >> BY LaneIsEmpty, EmptyFacts
<1>2. [l \in Lanes |-> LaneOf(queues[l])] = [l \in Lanes |-> << >>] BY <1>1 DEF Init
<1> QED BY <1>2 DEF Init, Promise!Init

(* The writer, its rotation and its one prepared fragment per lane         *)
(* implement the plain queues the rest of the peer relies on, for every    *)
(* number of streams, fragments and frames: no step of `enqueue`,          *)
(* `discard`, `nextFrame`, `advance` or of a failing lane loses, reorders, *)
(* splits or invents a frame on the way to the socket.                     *)
THEOREM WriterImplementsSendPath == Spec => ImplementsSendPath
<1>1. SendInv /\ SendInv' /\ [Next]_vars => [Promise!Next]_(Promise!svars) BY StepMaps
<1> QED BY SendInit, SendStep, InitMaps, <1>1, PTL DEF Spec, ImplementsSendPath, Promise!Spec

=============================================================================
