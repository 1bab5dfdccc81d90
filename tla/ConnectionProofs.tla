-------------------------- MODULE ConnectionProofs --------------------------
(***************************************************************************)
(* Theorems about two peers on one socket, for every number of streams,    *)
(* fragments and payloads, every limit and every setup.                    *)
(*                                                                         *)
(* There are two invariants.  RefusalInv says of every frame that is       *)
(* queued or on its way what it means when it is read (Fits), so that the  *)
(* order of the frames does not matter to the proof; refusals follow from  *)
(* it.  LinkInv reads the frames of one lane, written or waiting, as one   *)
(* row in their order, and relates the two ends of each stream to that     *)
(* row; everything else follows from it.                                   *)
(***************************************************************************)
EXTENDS Connection, FiniteSetTheorems, SequenceTheorems, TLAPS

-----------------------------------------------------------------------------
(* Types.  The payloads got are bounded by those sent, which is more than  *)
(* a type says.                                                            *)

Held == [frame : Frame, next : Nat]
Sent == [lane : Lanes, frame : Frame, idx : Nat]
Stream == [state : Live \cup {"idle", "closed"}, opening : BOOLEAN,
           cause : ResetCode \cup {"none", "normal", "CONNECTION_CLOSED"},
           handler : Handler, ran : BOOLEAN, sent : Nat, got : Nat]

Shape ==
    /\ next \in [Peers -> Nat] /\ high \in [Peers -> Nat]
    /\ view \in [Peers -> [Streams -> Stream]]
    /\ promised \in [Peers -> Nat \cup {None}] /\ allowed \in [Peers -> Nat \cup {None}]
    /\ out \in [Peers -> [Lanes -> Seq(Held)]]
    /\ chan \in [Peers -> Seq(Sent)]
    /\ DOMAIN phase = Peers

LEMMA PeerFacts ==
  /\ \A p \in Peers : Other(p) \in Peers /\ Other(p) # p /\ Other(Other(p)) = p
                      /\ Ids(p) \subseteq Streams /\ Ids(p) \subseteq Nat
                      /\ Ids(p) \cap Ids(Other(p)) = {} /\ Streams = Ids(p) \cup Ids(Other(p))
  /\ Streams \subseteq Lanes /\ Lanes \subseteq Nat /\ CONNECTION_LANE \in Lanes /\ CONNECTION_LANE \notin Streams
<1>1. \A p \in Peers : Other(p) \in Peers /\ Other(p) # p /\ Other(Other(p)) = p BY DEF Peers, Other
<1>2. Ids("dialer") \subseteq Nat \ {0} /\ Ids("acceptor") \subseteq Nat \ {0} /\ Ids("dialer") \cap Ids("acceptor") = {}
  BY ConnectionAssumption DEF Ids
<1> QED BY <1>1, <1>2 DEF Peers, Other, Streams, Lanes, CONNECTION_LANE

LEMMA FrameFacts ==
  /\ \A frags \in 1 .. MaxFrags, end \in BOOLEAN :
        OpenFrame(frags, end) \in Frame /\ OpenFrame(frags, end).type = "open"
  /\ \A payload, end \in BOOLEAN : DataFrame(payload, end) \in Frame /\ DataFrame(payload, end).type = "data"
  /\ \A code \in ResetCode :
        ResetFrame(code) \in Frame /\ ResetFrame(code).type = "reset" /\ ResetFrame(code).code = code
  /\ \A last \in Nat :
        GoawayFrame(last) \in Frame /\ GoawayFrame(last).type = "goaway" /\ GoawayFrame(last).last = last
<1>1. 1 \in 1 .. MaxFrags BY ConnectionAssumption
<1> QED BY <1>1 DEF Frame, OpenFrame, DataFrame, ResetFrame, GoawayFrame

(* The frames of a lane, and what becomes of them.                         *)
Frames(lane) == {lane[i].frame : i \in DOMAIN lane}

LEMMA LaneFacts ==
  ASSUME NEW q \in Seq(Held)
  PROVE  /\ Keep(q) \in Seq(Held) /\ Frames(Keep(q)) \subseteq Frames(q)
         /\ \A f \in Frame : Put(q, f) \in Seq(Held) /\ Frames(Put(q, f)) \subseteq Frames(q) \cup {f}
         /\ q # << >> => /\ Rest(q) \in Seq(Held) /\ Frames(Rest(q)) \subseteq Frames(q)
                         /\ First(q).frame \in Frames(q) /\ First(q).frame \in Frame /\ First(q).idx \in Nat
<1>1. Len(q) \in Nat /\ DOMAIN q = 1 .. Len(q) /\ \A i \in 1 .. Len(q) : q[i] \in Held
  BY LenProperties, ElementOfSeq
<1>2. ASSUME q # << >>
      PROVE  /\ Head(q) \in Held /\ Head(q).frame \in Frames(q) /\ 1 \in 1 .. Len(q) /\ Head(q) = q[1]
  <2>1. 1 \in 1 .. Len(q) BY <1>1, <1>2, EmptySeq
  <2>2. Head(q) = q[1] BY <1>2
  <2> QED BY <1>1, <2>1, <2>2 DEF Frames
<1>3. << >> \in Seq(Held) /\ Frames(<< >>) = {}
  <2>1. << >> \in Seq(Held) BY EmptySeq
  <2> QED BY <2>1 DEF Frames
<1>4. Keep(q) \in Seq(Held) /\ Frames(Keep(q)) \subseteq Frames(q)
  <2>1. CASE HoldsUnsentOpen(q)
    <3> PICK h : h = Head(q) OBVIOUS
    <3>1. Keep(q) = <<h>> /\ h \in Held /\ h.frame \in Frames(q) BY <1>2, <2>1 DEF Keep, HoldsUnsentOpen
    <3>2. <<h>> \in Seq(Held) /\ Frames(<<h>>) = {h.frame} BY <3>1 DEF Frames
    <3> QED BY <3>1, <3>2
  <2>2. CASE ~HoldsUnsentOpen(q) BY <1>3, <2>2 DEF Keep
  <2> QED BY <2>1, <2>2
<1>5. ASSUME NEW f \in Frame PROVE Put(q, f) \in Seq(Held) /\ Frames(Put(q, f)) \subseteq Frames(q) \cup {f}
  <2> DEFINE x == Item(f)
             t == Append(q, x)
  <2>1. x \in Held /\ x.frame = f BY DEF Item, Held
  <2> HIDE DEF x
  <2>2. t \in Seq(Held) /\ Len(t) = Len(q) + 1 /\ t[Len(q) + 1] = x /\ \A i \in 1 .. Len(q) : t[i] = q[i]
    BY <2>1, AppendProperties
  <2>3. DOMAIN t = 1 .. Len(q) + 1 BY <2>2, LenProperties
  <2> HIDE DEF t
  <2>4. \A i \in DOMAIN t : t[i] = x \/ (i \in DOMAIN q /\ t[i] = q[i]) BY <1>1, <2>2, <2>3
  <2>5. Frames(t) \subseteq Frames(q) \cup {f} BY <2>1, <2>4 DEF Frames
  <2> QED BY <2>2, <2>5 DEF Put, t, x
<1>6. ASSUME q # << >>
      PROVE  /\ Rest(q) \in Seq(Held) /\ Frames(Rest(q)) \subseteq Frames(q)
             /\ First(q).frame \in Frames(q) /\ First(q).frame \in Frame /\ First(q).idx \in Nat
  <2>1. First(q).frame = Head(q).frame /\ First(q).idx = Head(q).next BY DEF First
  <2>2. First(q).frame \in Frames(q) /\ First(q).frame \in Frame /\ First(q).idx \in Nat
    BY <1>2, <1>6, <2>1 DEF Held
  <2>3. CASE Head(q).next = Head(q).frame.frags
    <3> DEFINE t == Tail(q)
    <3>1. t \in Seq(Held) /\ Len(t) = Len(q) - 1 /\ \A i \in 1 .. Len(t) : t[i] = q[i + 1]
      BY <1>6, HeadTailProperties
    <3>2. DOMAIN t = 1 .. Len(t) /\ Len(t) \in Nat BY <3>1, LenProperties
    <3> HIDE DEF t
    <3>3. \A i \in DOMAIN t : i + 1 \in DOMAIN q /\ t[i] = q[i + 1] BY <1>1, <3>1, <3>2
    <3>4. Frames(t) \subseteq Frames(q) BY <3>3 DEF Frames
    <3> QED BY <2>2, <2>3, <3>1, <3>4 DEF Rest, t
  <2>4. CASE Head(q).next # Head(q).frame.frags
    <3> DEFINE x == [q[1] EXCEPT !.next = @ + 1]
               t == [q EXCEPT ![1] = x]
    <3>1. q[1] \in Held BY <1>2, <1>6
    <3>2. x \in Held /\ x.frame = q[1].frame BY <3>1 DEF Held
    <3>3. Rest(q) = t BY <2>4 DEF Rest
    <3> HIDE DEF x
    <3>4. t \in Seq(Held) /\ Len(t) = Len(q) /\ \A i \in 1 .. Len(q) : t[i] = IF i = 1 THEN x ELSE q[i]
      BY <1>2, <1>6, <3>2, ExceptSeq
    <3>5. DOMAIN t = DOMAIN q OBVIOUS
    <3> HIDE DEF t
    <3>6. \A i \in DOMAIN t : t[i].frame = q[i].frame BY <1>1, <3>2, <3>4, <3>5
    <3>7. Frames(t) \subseteq Frames(q) BY <3>5, <3>6 DEF Frames
    <3> QED BY <2>2, <3>3, <3>4, <3>7
  <2> QED BY <2>3, <2>4
<1> QED BY <1>4, <1>5, <1>6

-----------------------------------------------------------------------------
(* The invariant.                                                          *)

(* What p has on its way on a lane: queued, or written and not yet read.   *)
Queued(p, l) == Frames(out[p][l])
OnWay(p, l) == {chan[p][i].frame : i \in {j \in DOMAIN chan[p] : chan[p][j].lane = l}}

(* q will never give stream s, which the other peer opens, to a handler.   *)
Never(q, s) ==
    /\ ~view[q][s].ran /\ view[q][s].handler # "scheduled"
    /\ promised[q] # None \/ (s <= high[q] /\ ~isLive(q, s))

(* What a frame of p on lane l means to its reader.                        *)
Fits(p, l, f) ==
    /\ f.type # "goaway" => l \in Streams
    /\ f.type = "open" => l \in Ids(p)
    /\ f.type = "reset" /\ f.code = "REFUSED" /\ l \in Ids(Other(p)) => Never(p, l)
    /\ f.type = "goaway" => \A s \in Ids(Other(p)) : s > f.last => Never(p, s)

(* A stream not yet opened, or not yet opened completely, has no handler.  *)
Fresh(q, s) ==
    /\ s > high[q] => view[q][s].state = "idle" /\ view[q][s].handler = "none" /\ ~view[q][s].ran
    /\ view[q][s].opening => view[q][s].handler = "none" /\ ~view[q][s].ran

Refusals ==
    /\ \A p \in Peers, l \in Lanes : \A f \in Queued(p, l) \cup OnWay(p, l) : Fits(p, l, f)
    /\ \A q \in Peers : \A s \in Ids(Other(q)) : Fresh(q, s)
    /\ \A q \in Peers : \A s \in Ids(q) : view[q][s].cause = "REFUSED" => Never(Other(q), s)

RefusalInv == Shape /\ Refusals

(* What a step may do to a peer and to a stream of it.                     *)
PeerMove(q) == high'[q] >= high[q] /\ (promised[q] # None => promised'[q] # None)

StreamMove(q, s) ==
    /\ s \in Ids(Other(q)) =>
        /\ view'[q][s].ran => view[q][s].ran \/ view[q][s].handler = "scheduled"
        /\ view'[q][s].handler = "scheduled" =>
              view[q][s].handler = "scheduled"
              \/ (promised[q] = None /\ (s > high[q] \/ isLive(q, s)))
        /\ isLive(q, s)' => isLive(q, s) \/ s > high[q]
        /\ Fresh(q, s)'
    /\ s \in Ids(q) /\ view'[q][s].cause = "REFUSED" =>
        view[q][s].cause = "REFUSED" \/ Never(Other(q), s)

LEMMA NeverLasts ==
  ASSUME NEW q \in Peers, NEW s \in Ids(Other(q)), Shape, Shape', PeerMove(q), StreamMove(q, s), Never(q, s)
  PROVE  Never(q, s)'
<1>1. s \in Streams /\ s \in Nat BY PeerFacts
<1>2. high[q] \in Nat /\ high'[q] \in Nat BY DEF Shape
<1> QED BY <1>1, <1>2 DEF PeerMove, StreamMove, Never

LEMMA StepKeeps ==
  ASSUME RefusalInv, Shape', \A q \in Peers : PeerMove(q), \A q \in Peers, s \in Streams : StreamMove(q, s),
         \A q \in Peers, l \in Lanes : \A f \in Queued(q, l)' \cup OnWay(q, l)' :
             f \in Queued(q, l) \cup OnWay(q, l) \/ Fits(q, l, f)'
  PROVE  RefusalInv'
<1>1. \A q \in Peers : \A s \in Ids(Other(q)) : Never(q, s) => Never(q, s)'
  <2> TAKE q \in Peers
  <2> TAKE s \in Ids(Other(q))
  <2>1. s \in Streams BY PeerFacts
  <2> QED BY <2>1, NeverLasts DEF RefusalInv
<1>2. ASSUME NEW q \in Peers, NEW l \in Lanes, NEW f, Fits(q, l, f) PROVE Fits(q, l, f)'
  BY <1>1, <1>2 DEF Fits
<1>3. \A q \in Peers, l \in Lanes : \A f \in Queued(q, l)' \cup OnWay(q, l)' : Fits(q, l, f)'
  BY <1>2 DEF RefusalInv, Refusals
<1>4. \A q \in Peers : \A s \in Ids(Other(q)) : Fresh(q, s)'
  <2> TAKE q \in Peers
  <2> TAKE s \in Ids(Other(q))
  <2>1. s \in Streams BY PeerFacts
  <2> QED BY <2>1 DEF StreamMove
<1>5. \A q \in Peers : \A s \in Ids(q) : view'[q][s].cause = "REFUSED" => Never(Other(q), s)'
  <2> TAKE q \in Peers
  <2> TAKE s \in Ids(q)
  <2>1. s \in Streams /\ Other(q) \in Peers /\ s \in Ids(Other(Other(q))) BY PeerFacts
  <2>2. view'[q][s].cause = "REFUSED" => Never(Other(q), s)
    BY <2>1 DEF StreamMove, RefusalInv, Refusals
  <2> QED BY <2>1, <2>2, <1>1
<1> QED BY <1>3, <1>4, <1>5 DEF RefusalInv, Refusals

(* A stream a step does not touch.                                         *)
LEMMA Untouched ==
  ASSUME RefusalInv, NEW q \in Peers, NEW s \in Streams, high'[q] >= high[q], high'[q] \in Nat,
         view'[q][s] = view[q][s]
  PROVE  StreamMove(q, s)
<1>1. high[q] \in Nat /\ s \in Nat BY PeerFacts DEF RefusalInv, Shape
<1>2. s \in Ids(Other(q)) => Fresh(q, s) BY DEF RefusalInv, Refusals
<1> QED BY <1>1, <1>2 DEF StreamMove, Fresh, isLive

-----------------------------------------------------------------------------
(* What the parts of a step do to the variables they change.               *)

LEMMA SetViewFacts ==
  ASSUME Shape, NEW p \in Peers, NEW s \in Streams, NEW v \in Stream, SetView(p, s, v)
  PROVE  /\ view' \in [Peers -> [Streams -> Stream]] /\ view'[p][s] = v
         /\ \A q \in Peers, t \in Streams : q # p \/ t # s => view'[q][t] = view[q][t]
BY DEF Shape, SetView

LEMMA EnqueueFacts ==
  ASSUME Shape, NEW p \in Peers, NEW l \in Lanes, NEW f \in Frame, Enqueue(p, l, f)
  PROVE  /\ out' \in [Peers -> [Lanes -> Seq(Held)]]
         /\ \A q \in Peers, m \in Lanes : \A g \in Queued(q, m)' :
               g \in Queued(q, m) \/ (q = p /\ m = l /\ g = f)
<1> DEFINE w == Put(out[p][l], f)
<1>1. out[p][l] \in Seq(Held) BY DEF Shape
<1>2. w \in Seq(Held) /\ Frames(w) \subseteq Frames(out[p][l]) \cup {f} BY <1>1, LaneFacts
<1>3. out' = [out EXCEPT ![p][l] = w] BY DEF Enqueue
<1> HIDE DEF w
<1>4. out' \in [Peers -> [Lanes -> Seq(Held)]] BY <1>2, <1>3 DEF Shape
<1>5. \A q \in Peers, m \in Lanes : out'[q][m] = IF q = p /\ m = l THEN w ELSE out[q][m]
  BY <1>3 DEF Shape
<1> QED BY <1>2, <1>4, <1>5 DEF Queued

LEMMA KeepFacts ==
  ASSUME Shape, NEW p \in Peers, NEW l \in Lanes, out' = [out EXCEPT ![p][l] = Keep(@)]
  PROVE  /\ out' \in [Peers -> [Lanes -> Seq(Held)]]
         /\ \A q \in Peers, m \in Lanes : \A g \in Queued(q, m)' : g \in Queued(q, m)
<1> DEFINE w == Keep(out[p][l])
<1>1. out[p][l] \in Seq(Held) BY DEF Shape
<1>2. w \in Seq(Held) /\ Frames(w) \subseteq Frames(out[p][l]) BY <1>1, LaneFacts
<1>3. out' = [out EXCEPT ![p][l] = w] OBVIOUS
<1> HIDE DEF w
<1>4. out' \in [Peers -> [Lanes -> Seq(Held)]] BY <1>2, <1>3 DEF Shape
<1>5. \A q \in Peers, m \in Lanes : out'[q][m] = IF q = p /\ m = l THEN w ELSE out[q][m]
  BY <1>3 DEF Shape
<1> QED BY <1>2, <1>4, <1>5 DEF Queued

LEMMA EnqueueResetFacts ==
  ASSUME Shape, NEW p \in Peers, NEW l \in Lanes, NEW code \in ResetCode, EnqueueReset(p, l, code)
  PROVE  /\ out' \in [Peers -> [Lanes -> Seq(Held)]]
         /\ \A q \in Peers, m \in Lanes : \A g \in Queued(q, m)' :
               g \in Queued(q, m) \/ (q = p /\ m = l /\ g = ResetFrame(code))
<1> DEFINE k == Keep(out[p][l])
           f == ResetFrame(code)
           w == Put(k, f)
<1>1. out[p][l] \in Seq(Held) BY DEF Shape
<1>2. k \in Seq(Held) /\ Frames(k) \subseteq Frames(out[p][l]) BY <1>1, LaneFacts
<1>3. f \in Frame BY FrameFacts
<1>4. out' = [out EXCEPT ![p][l] = w] BY DEF EnqueueReset
<1> HIDE DEF k, f
<1>5. w \in Seq(Held) /\ Frames(w) \subseteq Frames(k) \cup {f} BY <1>2, <1>3, LaneFacts
<1> HIDE DEF w
<1>6. out' \in [Peers -> [Lanes -> Seq(Held)]] BY <1>4, <1>5 DEF Shape
<1>7. \A q \in Peers, m \in Lanes : out'[q][m] = IF q = p /\ m = l THEN w ELSE out[q][m]
  BY <1>4 DEF Shape
<1>8. \A q \in Peers, m \in Lanes : \A g \in Queued(q, m)' :
               g \in Queued(q, m) \/ (q = p /\ m = l /\ g = f)
  BY <1>2, <1>5, <1>7 DEF Queued
<1> QED BY <1>6, <1>8 DEF f

(* The frame a peer reads was on the way, and its lane is one of the       *)
(* other peer's.                                                           *)
LEMMA ReadFacts ==
  ASSUME RefusalInv, NEW p \in Peers, NEW type, Reads(p, type)
  PROVE  /\ chan' \in [Peers -> Seq(Sent)]
         /\ \A q \in Peers, m \in Lanes : \A g \in OnWay(q, m)' : g \in OnWay(q, m)
         /\ Incoming(p) \in Sent /\ Incoming(p).frame.type = type
         /\ Fits(Other(p), Incoming(p).lane, Incoming(p).frame)
<1> DEFINE r == Other(p)
           c == chan[r]
           t == Tail(c)
<1>1. r \in Peers /\ c \in Seq(Sent) /\ c # << >> BY PeerFacts DEF RefusalInv, Shape, Reads
<1>2. chan' = [chan EXCEPT ![r] = t] BY DEF Reads
<1>3. Incoming(p) = Head(c) /\ Incoming(p).frame.type = type BY DEF Incoming, Reads
<1> HIDE DEF r, c
<1>4. t \in Seq(Sent) /\ Len(t) = Len(c) - 1 /\ \A i \in 1 .. Len(t) : t[i] = c[i + 1]
  BY <1>1, HeadTailProperties
<1>5. Len(c) \in Nat /\ DOMAIN c = 1 .. Len(c) /\ DOMAIN t = 1 .. Len(t) /\ Len(t) \in Nat
  BY <1>1, <1>4, LenProperties
<1>6. Head(c) \in Sent /\ Head(c) = c[1] BY <1>1, HeadTailProperties
<1>7. 1 \in DOMAIN c BY <1>1, <1>5, EmptySeq
<1> HIDE DEF t
<1>8. \A i \in DOMAIN t : i + 1 \in DOMAIN c /\ t[i] = c[i + 1] BY <1>4, <1>5
<1>9. chan' \in [Peers -> Seq(Sent)] BY <1>1, <1>2, <1>4 DEF RefusalInv, Shape
<1>10. \A q \in Peers : chan'[q] = IF q = r THEN t ELSE chan[q] BY <1>2 DEF RefusalInv, Shape
<1>11. \A q \in Peers, m \in Lanes : \A g \in OnWay(q, m)' : g \in OnWay(q, m)
  BY <1>8, <1>10 DEF OnWay, c
<1>12. Head(c).frame \in OnWay(r, Head(c).lane) BY <1>6, <1>7 DEF OnWay, c
<1>13. Fits(r, Head(c).lane, Head(c).frame)
  <2>1. Head(c).lane \in Lanes BY <1>6 DEF Sent
  <2> QED BY <1>1, <1>12, <2>1 DEF RefusalInv, Refusals
<1> QED BY <1>3, <1>6, <1>9, <1>11, <1>13 DEF r

(* What a step adds to the lanes, once its frames are known to fit.        *)
LEMMA StreamFacts ==
  /\ NoStream \in Stream
  /\ \A v \in Stream, code \in ResetCode \cup {"CONNECTION_CLOSED"} :
        /\ Failed(v, code) \in Stream /\ Failed(v, code).state = "closed"
        /\ Failed(v, code).opening = v.opening /\ Failed(v, code).ran = v.ran
        /\ Failed(v, code).handler = IF v.state # "closed" /\ v.handler = "scheduled"
                                     THEN "cancelled" ELSE v.handler
        /\ Failed(v, code).cause \in {v.cause, code}
        /\ Failed(v, code).sent = v.sent /\ Failed(v, code).got = v.got
  /\ \A v \in Stream :
        /\ LocallyEnded(v) \in Stream /\ RemotelyEnded(v) \in Stream
        /\ \A w \in {LocallyEnded(v), RemotelyEnded(v)} :
              /\ w.opening = v.opening /\ w.ran = v.ran /\ w.handler = v.handler
              /\ w.cause \in {v.cause, "normal"} /\ w.state # "idle"
              /\ w.sent = v.sent /\ w.got = v.got
<1>1. NoStream \in Stream BY DEF NoStream, Stream, Live, Handler
<1>2. ASSUME NEW v \in Stream, NEW code \in ResetCode \cup {"CONNECTION_CLOSED"}
      PROVE  /\ Failed(v, code) \in Stream /\ Failed(v, code).state = "closed"
             /\ Failed(v, code).opening = v.opening /\ Failed(v, code).ran = v.ran
             /\ Failed(v, code).handler = IF v.state # "closed" /\ v.handler = "scheduled"
                                          THEN "cancelled" ELSE v.handler
             /\ Failed(v, code).cause \in {v.cause, code}
             /\ Failed(v, code).sent = v.sent /\ Failed(v, code).got = v.got
  <2>1. CASE v.state = "closed" BY <2>1 DEF Failed
  <2>2. CASE v.state # "closed"
    <3> DEFINE h == IF v.handler = "scheduled" THEN "cancelled" ELSE v.handler
    <3>1. Failed(v, code) = [v EXCEPT !.state = "closed", !.cause = code, !.handler = h]
      BY <2>2 DEF Failed
    <3>2. h \in Handler BY DEF Stream, Handler
    <3> HIDE DEF h
    <3>3. [v EXCEPT !.state = "closed", !.cause = code, !.handler = h] \in Stream
      BY <3>2 DEF Stream, ResetCode
    <3>4. LET w == [v EXCEPT !.state = "closed", !.cause = code, !.handler = h]
          IN  /\ w.state = "closed" /\ w.cause = code /\ w.handler = h /\ w.opening = v.opening
              /\ w.ran = v.ran /\ w.sent = v.sent /\ w.got = v.got
      BY DEF Stream
    <3> QED BY <2>2, <3>1, <3>3, <3>4 DEF h
  <2> QED BY <2>1, <2>2
<1>3. ASSUME NEW v \in Stream
      PROVE  /\ LocallyEnded(v) \in Stream /\ RemotelyEnded(v) \in Stream
             /\ \A w \in {LocallyEnded(v), RemotelyEnded(v)} :
                   /\ w.opening = v.opening /\ w.ran = v.ran /\ w.handler = v.handler
                   /\ w.cause \in {v.cause, "normal"} /\ w.state # "idle"
                   /\ w.sent = v.sent /\ w.got = v.got
  BY <1>3 DEF LocallyEnded, RemotelyEnded, Stream, Live
<1> QED BY <1>1, <1>2, <1>3

(* The frames of the other lanes and those on the way are as they were.    *)
Silent == \A q \in Peers, m \in Lanes : \A g \in Queued(q, m)' : g \in Queued(q, m)
Added(p, l, f) == \A q \in Peers, m \in Lanes : \A g \in Queued(q, m)' :
                     g \in Queued(q, m) \/ (q = p /\ m = l /\ g = f)
Arrived == \A q \in Peers, m \in Lanes : \A g \in OnWay(q, m)' : g \in OnWay(q, m)

LEMMA SameOut == out' = out => Silent
BY DEF Silent, Queued

LEMMA SameChan == chan' = chan => Arrived
BY DEF Arrived, OnWay

(* The step of a peer that changes at most its own stream s.               *)
LEMMA OneStream ==
  ASSUME RefusalInv, NEW p \in Peers, NEW s \in Streams,
         Shape', \A q \in Peers : PeerMove(q),
         \A q \in Peers, t \in Streams : q # p \/ t # s => view'[q][t] = view[q][t],
         StreamMove(p, s)
  PROVE  \A q \in Peers, t \in Streams : StreamMove(q, t)
<1> TAKE q \in Peers
<1> TAKE t \in Streams
<1>1. high'[q] \in Nat /\ high[q] \in Nat /\ high'[q] >= high[q] BY DEF RefusalInv, Shape, PeerMove
<1>2. CASE q = p /\ t = s BY <1>2
<1>3. CASE q # p \/ t # s BY <1>1, <1>3, Untouched
<1> QED BY <1>2, <1>3

(* Reading a stream's record under the invariant.                          *)
LEMMA ViewFacts ==
  ASSUME RefusalInv, NEW p \in Peers, NEW s \in Streams
  PROVE  /\ view[p][s] \in Stream /\ high[p] \in Nat /\ s \in Nat
         /\ s \in Ids(p) <=> s \notin Ids(Other(p))
         /\ s \in Ids(Other(p)) => Fresh(p, s)
BY PeerFacts DEF RefusalInv, Shape, Refusals

-----------------------------------------------------------------------------
(* The application.                                                        *)

LEMMA OpenKeeps == ASSUME RefusalInv, NEW p \in Peers, Open(p) PROVE RefusalInv'
<1> PICK s \in Streams : s = next[p] BY PeerFacts DEF Open
<1>1. PICK frags \in 1 .. MaxFrags, end \in BOOLEAN :
         /\ Enqueue(p, s, OpenFrame(frags, end))
         /\ SetView(p, s, [NoStream EXCEPT !.state = IF end THEN "half_closed_local" ELSE "open"])
  BY DEF Open
<1> DEFINE v == [NoStream EXCEPT !.state = IF end THEN "half_closed_local" ELSE "open"]
           f == OpenFrame(frags, end)
<1>2. /\ s \in Ids(p) /\ s \notin Ids(Other(p)) /\ s \in Lanes BY PeerFacts DEF Open
<1>3. f \in Frame /\ f.type = "open" BY FrameFacts
<1>4. v \in Stream /\ v.cause = "none" BY DEF NoStream, Stream, Live, Handler
<1>5. SetView(p, s, v) /\ Enqueue(p, s, f) BY <1>1
<1> HIDE DEF v, f
<1>6. UNCHANGED <<phase, high, promised, allowed, chan, setup>> /\ next' = [next EXCEPT ![p] = @ + 2] BY DEF Open
<1>7. Shape BY DEF RefusalInv
<1>8. /\ view' \in [Peers -> [Streams -> Stream]] /\ view'[p][s] = v
      /\ \A q \in Peers, t \in Streams : q # p \/ t # s => view'[q][t] = view[q][t]
  BY <1>4, <1>5, <1>7, SetViewFacts
<1>9. out' \in [Peers -> [Lanes -> Seq(Held)]] /\ Added(p, s, f)
  BY <1>2, <1>3, <1>5, <1>7, EnqueueFacts DEF Added
<1>10. Shape' BY <1>6, <1>7, <1>8, <1>9 DEF Shape
<1>11. StreamMove(p, s) BY <1>2, <1>4, <1>8 DEF StreamMove
<1>12. \A q \in Peers : PeerMove(q) BY <1>6, <1>7 DEF PeerMove, Shape
<1>13. \A q \in Peers, t \in Streams : StreamMove(q, t)
  BY <1>6, <1>7, <1>8, <1>10, <1>11, <1>12, OneStream
<1>14. Fits(p, s, f)' BY <1>2, <1>3 DEF Fits
<1> QED BY <1>6, <1>9, <1>10, <1>12, <1>13, <1>14, StepKeeps, SameChan DEF Added, Arrived

LEMMA SendKeeps == ASSUME RefusalInv, NEW p \in Peers, NEW s \in Streams, Send(p, s) PROVE RefusalInv'
<1>1. PICK payload \in BOOLEAN, end \in BOOLEAN :
         /\ Enqueue(p, s, DataFrame(payload, end))
         /\ LET v == IF payload THEN [view[p][s] EXCEPT !.sent = @ + 1] ELSE view[p][s]
            IN SetView(p, s, IF end THEN LocallyEnded(v) ELSE v)
  BY DEF Send
<1> DEFINE w == IF payload THEN [view[p][s] EXCEPT !.sent = @ + 1] ELSE view[p][s]
           v == IF end THEN LocallyEnded(w) ELSE w
           f == DataFrame(payload, end)
<1>2. f \in Frame /\ f.type = "data" /\ s \in Lanes BY FrameFacts, PeerFacts
<1>3. Shape /\ view[p][s] \in Stream /\ high[p] \in Nat /\ s \in Nat BY ViewFacts DEF RefusalInv
<1>4. /\ w \in Stream /\ w.cause = view[p][s].cause /\ w.opening = view[p][s].opening
      /\ w.handler = view[p][s].handler /\ w.ran = view[p][s].ran /\ w.state = view[p][s].state
  BY <1>3 DEF Stream
<1>5. SetView(p, s, v) /\ Enqueue(p, s, f) BY <1>1
<1> HIDE DEF w, f
<1>6. /\ v \in Stream /\ v.cause \in {view[p][s].cause, "normal"} /\ v.opening = view[p][s].opening
      /\ v.handler = view[p][s].handler /\ v.ran = view[p][s].ran
  BY <1>4, StreamFacts
<1> HIDE DEF v
<1>7. UNCHANGED <<phase, next, high, promised, allowed, chan, setup>> /\ isLive(p, s) BY DEF Send, isLive, Live
<1>8. /\ view' \in [Peers -> [Streams -> Stream]] /\ view'[p][s] = v
      /\ \A q \in Peers, t \in Streams : q # p \/ t # s => view'[q][t] = view[q][t]
  BY <1>3, <1>5, <1>6, SetViewFacts
<1>9. out' \in [Peers -> [Lanes -> Seq(Held)]] /\ Added(p, s, f)
  BY <1>2, <1>3, <1>5, EnqueueFacts DEF Added
<1>10. Shape' BY <1>3, <1>7, <1>8, <1>9 DEF Shape
<1>11. s \in Ids(Other(p)) => Fresh(p, s) BY ViewFacts
<1>12. view[p][s].state # "idle" BY <1>7 DEF isLive, Live
<1>13. StreamMove(p, s) BY <1>3, <1>6, <1>7, <1>8, <1>11, <1>12 DEF StreamMove, Fresh
<1>14. \A q \in Peers : PeerMove(q) BY <1>3, <1>7 DEF PeerMove, Shape
<1>15. \A q \in Peers, t \in Streams : StreamMove(q, t)
  BY <1>3, <1>7, <1>8, <1>10, <1>13, <1>14, OneStream
<1>16. Fits(p, s, f)' BY <1>2 DEF Fits
<1> QED BY <1>7, <1>9, <1>10, <1>14, <1>15, <1>16, StepKeeps, SameChan DEF Added, Arrived

(* A step that changes one stream of p and adds frames that fit.           *)
LEMMA StreamStep ==
  ASSUME RefusalInv, Shape', NEW p \in Peers, NEW s \in Streams, \A q \in Peers : PeerMove(q),
         \A q \in Peers, t \in Streams : q # p \/ t # s => view'[q][t] = view[q][t],
         StreamMove(p, s), Arrived,
         \A q \in Peers, m \in Lanes : \A g \in Queued(q, m)' : g \in Queued(q, m) \/ Fits(q, m, g)'
  PROVE  RefusalInv'
<1>1. \A q \in Peers, t \in Streams : StreamMove(q, t) BY OneStream
<1> QED BY <1>1, StepKeeps DEF Arrived

LEMMA ResetKeeps == ASSUME RefusalInv, NEW p \in Peers, NEW s \in Streams, Reset(p, s) PROVE RefusalInv'
<1> DEFINE v == Failed(view[p][s], "CANCELLED")
           f == ResetFrame("CANCELLED")
<1>1. "CANCELLED" \in ResetCode /\ "CANCELLED" # "REFUSED" BY DEF ResetCode
<1>2. f.type = "reset" /\ f.code = "CANCELLED" /\ s \in Lanes BY <1>1, FrameFacts, PeerFacts
<1>3. Shape /\ view[p][s] \in Stream /\ high[p] \in Nat /\ s \in Nat BY ViewFacts DEF RefusalInv
<1>4. /\ v \in Stream /\ v.state = "closed" /\ v.opening = view[p][s].opening /\ v.ran = view[p][s].ran
      /\ v.handler = (IF view[p][s].state # "closed" /\ view[p][s].handler = "scheduled"
                      THEN "cancelled" ELSE view[p][s].handler)
      /\ v.cause \in {view[p][s].cause, "CANCELLED"}
  BY <1>1, <1>3, StreamFacts
<1>5. SetView(p, s, v) /\ EnqueueReset(p, s, "CANCELLED") BY DEF Reset
<1> HIDE DEF v
<1>6. UNCHANGED <<phase, next, high, promised, allowed, chan, setup>> /\ isLive(p, s) BY DEF Reset
<1>7. /\ view' \in [Peers -> [Streams -> Stream]] /\ view'[p][s] = v
      /\ \A q \in Peers, t \in Streams : q # p \/ t # s => view'[q][t] = view[q][t]
  BY <1>3, <1>4, <1>5, SetViewFacts
<1>8. out' \in [Peers -> [Lanes -> Seq(Held)]] /\ Added(p, s, f)
  BY <1>1, <1>2, <1>3, <1>5, EnqueueResetFacts DEF Added
<1> HIDE DEF f
<1>9. Shape' BY <1>3, <1>6, <1>7, <1>8 DEF Shape
<1>10. s \in Ids(Other(p)) => Fresh(p, s) BY ViewFacts
<1>11. view[p][s].state # "idle" BY <1>6 DEF isLive, Live
<1>12. ~isLive(p, s)' BY <1>4, <1>7 DEF isLive, Live
<1>13. StreamMove(p, s) BY <1>1, <1>3, <1>4, <1>6, <1>7, <1>10, <1>11, <1>12 DEF StreamMove, Fresh
<1>14. \A q \in Peers : PeerMove(q) BY <1>3, <1>6 DEF PeerMove, Shape
<1>15. Fits(p, s, f)' BY <1>2 DEF Fits
<1> QED BY <1>6, <1>7, <1>8, <1>9, <1>13, <1>14, <1>15, StreamStep, SameChan DEF Added

LEMMA HandlerStartsKeeps ==
  ASSUME RefusalInv, NEW p \in Peers, NEW s \in Streams, HandlerStarts(p, s) PROVE RefusalInv'
<1> DEFINE v == [view[p][s] EXCEPT !.handler = "running", !.ran = TRUE]
<1>1. Shape /\ view[p][s] \in Stream /\ high[p] \in Nat /\ s \in Nat BY ViewFacts DEF RefusalInv
<1>2. SetView(p, s, v) /\ view[p][s].handler = "scheduled" BY DEF HandlerStarts
<1>3. /\ v \in Stream /\ v.state = view[p][s].state /\ v.opening = view[p][s].opening
      /\ v.handler = "running" /\ v.cause = view[p][s].cause
  BY <1>1 DEF Stream, Handler
<1> HIDE DEF v
<1>4. UNCHANGED <<phase, next, high, promised, allowed, out, chan, setup>> BY DEF HandlerStarts
<1>5. /\ view' \in [Peers -> [Streams -> Stream]] /\ view'[p][s] = v
      /\ \A q \in Peers, t \in Streams : q # p \/ t # s => view'[q][t] = view[q][t]
  BY <1>1, <1>2, <1>3, SetViewFacts
<1>6. Shape' BY <1>1, <1>4, <1>5 DEF Shape
<1>7. s \in Ids(Other(p)) => Fresh(p, s) BY ViewFacts
<1>8. StreamMove(p, s) BY <1>1, <1>2, <1>3, <1>4, <1>5, <1>7 DEF StreamMove, Fresh, isLive
<1>9. \A q \in Peers : PeerMove(q) BY <1>1, <1>4 DEF PeerMove, Shape
<1> QED BY <1>4, <1>5, <1>6, <1>8, <1>9, StreamStep, SameChan, SameOut DEF Silent

LEMMA HandlerReturnsKeeps ==
  ASSUME RefusalInv, NEW p \in Peers, NEW s \in Streams, HandlerReturns(p, s) PROVE RefusalInv'
<1> DEFINE w == [view[p][s] EXCEPT !.handler = "returned"]
           f == DataFrame(FALSE, TRUE)
<1>1. Shape /\ view[p][s] \in Stream /\ high[p] \in Nat /\ s \in Nat BY ViewFacts DEF RefusalInv
<1>2. f \in Frame /\ f.type = "data" /\ s \in Lanes BY FrameFacts, PeerFacts
<1>3. view[p][s].handler = "running" BY DEF HandlerReturns
<1>4. /\ w \in Stream /\ w.state = view[p][s].state /\ w.opening = view[p][s].opening
      /\ w.ran = view[p][s].ran /\ w.handler = "returned" /\ w.cause = view[p][s].cause
  BY <1>1 DEF Stream, Handler
<1>5. PICK v \in {w, LocallyEnded(w)} :
         /\ SetView(p, s, v)
         /\ UNCHANGED out \/ Enqueue(p, s, f)
         /\ v = w \/ isLive(p, s)
  <2>1. CASE w.state \in {"open", "half_closed_remote"}
    <3>1. SetView(p, s, LocallyEnded(w)) /\ Enqueue(p, s, f) BY <2>1 DEF HandlerReturns
    <3>2. isLive(p, s) BY <1>4, <2>1 DEF isLive, Live
    <3> QED BY <3>1, <3>2
  <2>2. CASE w.state \notin {"open", "half_closed_remote"} BY <2>2 DEF HandlerReturns
  <2> QED BY <2>1, <2>2
<1> HIDE DEF w, f
<1>6. /\ v \in Stream /\ v.cause \in {view[p][s].cause, "normal"} /\ v.opening = view[p][s].opening
      /\ v.handler = "returned" /\ v.ran = view[p][s].ran
      /\ v.state = view[p][s].state \/ isLive(p, s)
  BY <1>4, <1>5, StreamFacts
<1>7. UNCHANGED <<phase, next, high, promised, allowed, chan, setup>> BY DEF HandlerReturns
<1>8. /\ view' \in [Peers -> [Streams -> Stream]] /\ view'[p][s] = v
      /\ \A q \in Peers, t \in Streams : q # p \/ t # s => view'[q][t] = view[q][t]
  BY <1>1, <1>5, <1>6, SetViewFacts
<1>9. out' \in [Peers -> [Lanes -> Seq(Held)]] /\ Added(p, s, f)
  <2>1. CASE UNCHANGED out BY <1>1, <2>1, SameOut DEF Shape, Silent, Added
  <2>2. CASE Enqueue(p, s, f) BY <1>1, <1>2, <2>2, EnqueueFacts DEF Added
  <2> QED BY <1>5, <2>1, <2>2
<1>10. Shape' BY <1>1, <1>7, <1>8, <1>9 DEF Shape
<1>11. s \in Ids(Other(p)) => Fresh(p, s) BY ViewFacts
<1>12. StreamMove(p, s)
  <2>1. isLive(p, s)' => isLive(p, s) BY <1>6, <1>8 DEF isLive
  <2>2. s \in Ids(Other(p)) => s <= high[p] BY <1>1, <1>3, <1>11 DEF Fresh
  <2> QED BY <1>1, <1>3, <1>6, <1>7, <1>8, <1>11, <2>1, <2>2 DEF StreamMove, Fresh
<1>13. \A q \in Peers : PeerMove(q) BY <1>1, <1>7 DEF PeerMove, Shape
<1>14. Fits(p, s, f)' BY <1>2 DEF Fits
<1> QED BY <1>7, <1>8, <1>9, <1>10, <1>12, <1>13, <1>14, StreamStep, SameChan DEF Added

LEMMA HandlerRaisesKeeps ==
  ASSUME RefusalInv, NEW p \in Peers, NEW s \in Streams, HandlerRaises(p, s) PROVE RefusalInv'
<1> DEFINE w == [view[p][s] EXCEPT !.handler = "raised"]
           v == Failed(w, "APPLICATION_ERROR")
           f == ResetFrame("APPLICATION_ERROR")
<1>1. Shape /\ view[p][s] \in Stream /\ high[p] \in Nat /\ s \in Nat BY ViewFacts DEF RefusalInv
<1>2. "APPLICATION_ERROR" \in ResetCode /\ "APPLICATION_ERROR" # "REFUSED" BY DEF ResetCode
<1>3. f \in Frame /\ f.type = "reset" /\ f.code = "APPLICATION_ERROR" /\ s \in Lanes
  BY <1>2, FrameFacts, PeerFacts
<1>4. view[p][s].handler = "running" BY DEF HandlerRaises
<1>5. SetView(p, s, v) /\ (UNCHANGED out \/ Enqueue(p, s, f)) BY DEF HandlerRaises
<1>6. /\ w \in Stream /\ w.state = view[p][s].state /\ w.opening = view[p][s].opening
      /\ w.ran = view[p][s].ran /\ w.handler = "raised" /\ w.cause = view[p][s].cause
  BY <1>1 DEF Stream, Handler
<1> HIDE DEF w
<1>7. /\ v \in Stream /\ v.state = "closed" /\ v.opening = view[p][s].opening /\ v.ran = view[p][s].ran
      /\ v.handler = "raised" /\ v.cause \in {view[p][s].cause, "APPLICATION_ERROR"}
  BY <1>2, <1>6, StreamFacts
<1> HIDE DEF v, f
<1>8. UNCHANGED <<phase, next, high, promised, allowed, chan, setup>> BY DEF HandlerRaises
<1>9. /\ view' \in [Peers -> [Streams -> Stream]] /\ view'[p][s] = v
      /\ \A q \in Peers, t \in Streams : q # p \/ t # s => view'[q][t] = view[q][t]
  BY <1>1, <1>5, <1>7, SetViewFacts
<1>10. out' \in [Peers -> [Lanes -> Seq(Held)]] /\ Added(p, s, f)
  <2>1. CASE UNCHANGED out BY <1>1, <2>1, SameOut DEF Shape, Silent, Added
  <2>2. CASE Enqueue(p, s, f) BY <1>1, <1>3, <2>2, EnqueueFacts DEF Added
  <2> QED BY <1>5, <2>1, <2>2
<1>11. Shape' BY <1>1, <1>8, <1>9, <1>10 DEF Shape
<1>12. s \in Ids(Other(p)) => Fresh(p, s) BY ViewFacts
<1>13. StreamMove(p, s)
  <2>1. ~isLive(p, s)' BY <1>7, <1>9 DEF isLive, Live
  <2>2. s \in Ids(Other(p)) => s <= high[p] BY <1>1, <1>4, <1>12 DEF Fresh
  <2> QED BY <1>1, <1>2, <1>4, <1>7, <1>8, <1>9, <1>12, <2>1, <2>2 DEF StreamMove, Fresh
<1>14. \A q \in Peers : PeerMove(q) BY <1>1, <1>8 DEF PeerMove, Shape
<1>15. Fits(p, s, f)' BY <1>3 DEF Fits
<1> QED BY <1>8, <1>9, <1>10, <1>11, <1>13, <1>14, <1>15, StreamStep, SameChan DEF Added

-----------------------------------------------------------------------------
(* The read loop.                                                          *)

(* An `open` completes: the stream is refused, or has a handler from now   *)
(* on, which only a peer that has promised nothing gives it.               *)
LEMMA StartHandlerKeeps ==
  ASSUME RefusalInv, NEW p \in Peers, NEW s \in Ids(Other(p)), NEW v \in Stream,
         v.handler = "none", ~v.ran, ~v.opening, v.state # "closed",
         high' \in [Peers -> Nat], \A q \in Peers : high'[q] >= high[q], s <= high'[p],
         s > high[p] \/ isLive(p, s),
         StartHandler(p, s, v), UNCHANGED <<phase, next, promised, allowed, setup>>,
         chan' \in [Peers -> Seq(Sent)], Arrived
  PROVE  RefusalInv'
<1> DEFINE f == ResetFrame("REFUSED")
           r == Failed(v, "REFUSED")
           h == [v EXCEPT !.handler = "scheduled"]
<1>1. s \in Streams /\ s \in Nat /\ s \in Lanes /\ s \notin Ids(p) BY PeerFacts
<1>2. Shape /\ high[p] \in Nat /\ high'[p] \in Nat BY DEF RefusalInv, Shape
<1>3. f \in Frame /\ f.type = "reset" BY FrameFacts DEF ResetCode
<1>4. r \in Stream /\ r.state = "closed" /\ ~r.opening /\ ~r.ran /\ r.handler = "none"
  <2>1. "REFUSED" \in ResetCode BY DEF ResetCode
  <2> QED BY <2>1, StreamFacts
<1>5. h \in Stream /\ h.handler = "scheduled" /\ ~h.opening /\ ~h.ran BY DEF Stream, Handler
<1>6. \A q \in Peers : PeerMove(q) BY DEF PeerMove
<1>7. CASE promised[p] # None \/ p \notin Serving
  <2>1. Enqueue(p, s, f) /\ SetView(p, s, r) BY <1>7 DEF StartHandler
  <2> HIDE DEF f, r
  <2>2. /\ view' \in [Peers -> [Streams -> Stream]] /\ view'[p][s] = r
        /\ \A q \in Peers, t \in Streams : q # p \/ t # s => view'[q][t] = view[q][t]
    BY <1>1, <1>2, <1>4, <2>1, SetViewFacts
  <2>3. out' \in [Peers -> [Lanes -> Seq(Held)]] /\ Added(p, s, f)
    BY <1>1, <1>2, <1>3, <2>1, EnqueueFacts DEF Added
  <2>4. Shape' BY <1>2, <2>2, <2>3 DEF Shape
  <2>5. ~isLive(p, s)' BY <1>4, <2>2 DEF isLive, Live
  <2>6. StreamMove(p, s) BY <1>1, <1>2, <1>4, <2>2, <2>5 DEF StreamMove, Fresh
  <2>7. Never(p, s)' BY <1>1, <1>2, <1>4, <2>2, <2>5 DEF Never
  <2>8. Fits(p, s, f)' BY <1>1, <1>3, <2>7 DEF Fits
  <2> QED BY <1>1, <1>6, <2>2, <2>3, <2>4, <2>6, <2>8, StreamStep DEF Added
<1>8. CASE promised[p] = None /\ p \in Serving
  <2>1. UNCHANGED out /\ SetView(p, s, h) BY <1>8 DEF StartHandler
  <2> HIDE DEF h
  <2>2. /\ view' \in [Peers -> [Streams -> Stream]] /\ view'[p][s] = h
        /\ \A q \in Peers, t \in Streams : q # p \/ t # s => view'[q][t] = view[q][t]
    BY <1>1, <1>2, <1>5, <2>1, SetViewFacts
  <2>3. Shape' BY <1>2, <2>1, <2>2 DEF Shape
  <2>4. StreamMove(p, s) BY <1>1, <1>2, <1>5, <1>8, <2>2 DEF StreamMove, Fresh
  <2> QED BY <1>1, <1>6, <2>1, <2>2, <2>3, <2>4, StreamStep, SameOut DEF Silent
<1> QED BY <1>7, <1>8

(* A peer that fails its connection promises what it has opened so far.    *)
LEMMA PromiseKeeps ==
  ASSUME RefusalInv, NEW p \in Peers, UNCHANGED <<next, high, view, allowed, setup>>,
         DOMAIN phase' = Peers, chan' \in [Peers -> Seq(Sent)], Arrived,
         promised' = [promised EXCEPT ![p] = high[p]],
         Enqueue(p, CONNECTION_LANE, GoawayFrame(high[p]))
  PROVE  RefusalInv'
<1> PICK f : f = GoawayFrame(high[p]) OBVIOUS
<1>1. Shape /\ high[p] \in Nat BY DEF RefusalInv, Shape
<1>2. f \in Frame /\ f.type = "goaway" /\ f.last = high[p] BY <1>1, FrameFacts
<1>3. CONNECTION_LANE \in Lanes BY PeerFacts
<1>4. out' \in [Peers -> [Lanes -> Seq(Held)]] /\ Added(p, CONNECTION_LANE, f)
  BY <1>1, <1>2, <1>3, EnqueueFacts DEF Added
<1>5. promised' \in [Peers -> Nat \cup {None}] /\ promised'[p] # None BY <1>1, ConnectionAssumption DEF Shape
<1>6. Shape' BY <1>1, <1>4, <1>5 DEF Shape
<1>7. \A q \in Peers : PeerMove(q) BY <1>1, <1>5 DEF PeerMove, Shape
<1>8. \A q \in Peers, s \in Streams : StreamMove(q, s)
  <2>1. \A q \in Peers : high[q] \in Nat /\ high'[q] >= high[q] BY <1>1 DEF Shape
  <2> QED BY <2>1, Untouched
<1>9. \A s \in Ids(Other(p)) : s > high[p] => Never(p, s)'
  <2> TAKE s \in Ids(Other(p))
  <2>1. Fresh(p, s) BY DEF RefusalInv, Refusals
  <2> QED BY <1>5, <2>1 DEF Fresh, Never
<1>10. Fits(p, CONNECTION_LANE, f)' BY <1>2, <1>9 DEF Fits
<1> QED BY <1>4, <1>6, <1>7, <1>8, <1>10, StepKeeps DEF Added, Arrived

LEMMA FailKeeps ==
  ASSUME RefusalInv, NEW p \in Peers, FailConnection(p), UNCHANGED <<next, high, view, allowed, setup>>,
         chan' \in [Peers -> Seq(Sent)], Arrived
  PROVE  RefusalInv'
<1>1. DOMAIN phase' = Peers BY DEF RefusalInv, Shape, FailConnection
<1> QED BY <1>1, PromiseKeeps DEF FailConnection

LEMMA OpenNotNewKeeps == ASSUME RefusalInv, NEW p \in Peers, OpenNotNew(p) PROVE RefusalInv'
<1>1. chan' \in [Peers -> Seq(Sent)] /\ Arrived BY ReadFacts DEF OpenNotNew, Arrived
<1> QED BY <1>1, FailKeeps DEF OpenNotNew

(* The `open` a peer reads is of a stream the other peer opens.            *)
LEMMA OpenRead ==
  ASSUME RefusalInv, NEW p \in Peers, Reads(p, "open")
  PROVE  /\ Incoming(p).lane \in Ids(Other(p)) /\ Incoming(p).lane \in Nat
         /\ chan' \in [Peers -> Seq(Sent)] /\ Arrived
<1>1. /\ chan' \in [Peers -> Seq(Sent)] /\ Arrived
      /\ Incoming(p).frame.type = "open" /\ Fits(Other(p), Incoming(p).lane, Incoming(p).frame)
  BY ReadFacts DEF Arrived
<1> QED BY <1>1, PeerFacts DEF Fits

LEMMA OpenOverLimitKeeps == ASSUME RefusalInv, NEW p \in Peers, OpenOverLimit(p) PROVE RefusalInv'
<1> DEFINE f == ResetFrame("REFUSED")
<1> PICK s \in Ids(Other(p)) : s = Incoming(p).lane BY OpenRead DEF OpenOverLimit
<1>1. chan' \in [Peers -> Seq(Sent)] /\ Arrived BY OpenRead DEF OpenOverLimit
<1>2. /\ s > high[p] /\ high' = [high EXCEPT ![p] = s] /\ Enqueue(p, s, f)
      /\ UNCHANGED <<phase, next, view, promised, allowed, setup>>
  BY DEF OpenOverLimit
<1>3. s \in Streams /\ s \in Nat /\ s \in Lanes /\ s \notin Ids(p) BY PeerFacts
<1>4. Shape /\ high[p] \in Nat BY DEF RefusalInv, Shape
<1>5. f \in Frame /\ f.type = "reset" BY FrameFacts DEF ResetCode
<1> HIDE DEF f
<1>6. out' \in [Peers -> [Lanes -> Seq(Held)]] /\ Added(p, s, f)
  BY <1>2, <1>3, <1>4, <1>5, EnqueueFacts DEF Added
<1>7. Shape' BY <1>1, <1>2, <1>3, <1>4, <1>6 DEF Shape
<1>8. high'[p] = s /\ \A q \in Peers : high[q] \in Nat /\ high'[q] \in Nat /\ high'[q] >= high[q]
  BY <1>2, <1>3, <1>4 DEF Shape
<1>9. \A q \in Peers : PeerMove(q) BY <1>2, <1>8 DEF PeerMove
<1>10. \A q \in Peers, t \in Streams : StreamMove(q, t) BY <1>2, <1>8, Untouched
<1>11. Fresh(p, s) BY DEF RefusalInv, Refusals
<1>12. Never(p, s)' BY <1>2, <1>3, <1>8, <1>11 DEF Never, Fresh, isLive, Live
<1>13. Fits(p, s, f)' BY <1>3, <1>5, <1>12 DEF Fits
<1> QED BY <1>1, <1>6, <1>7, <1>9, <1>10, <1>13, StepKeeps DEF Added, Arrived

LEMMA OpenTakenKeeps == ASSUME RefusalInv, NEW p \in Peers, OpenTaken(p) PROVE RefusalInv'
<1> PICK s \in Ids(Other(p)) : s = Incoming(p).lane BY OpenRead DEF OpenTaken
<1> PICK whole \in BOOLEAN : whole = (Incoming(p).frame.frags = 1) OBVIOUS
<1> PICK state \in {"open", "half_closed_remote"} :
       state = IF whole /\ Incoming(p).frame.end THEN "half_closed_remote" ELSE "open"
  OBVIOUS
<1> DEFINE v == [NoStream EXCEPT !.state = state, !.opening = ~whole]
<1>1. chan' \in [Peers -> Seq(Sent)] /\ Arrived BY OpenRead DEF OpenTaken
<1>2. /\ s > high[p] /\ high' = [high EXCEPT ![p] = s]
      /\ IF whole THEN StartHandler(p, s, v) ELSE SetView(p, s, v) /\ UNCHANGED out
      /\ UNCHANGED <<phase, next, promised, allowed, setup>>
  BY DEF OpenTaken
<1>3. s \in Streams /\ s \in Nat /\ s \notin Ids(p) BY PeerFacts
<1>4. Shape BY DEF RefusalInv
<1>5. /\ v \in Stream /\ v.handler = "none" /\ ~v.ran /\ v.state # "closed"
      /\ v.opening = ~whole
  BY DEF NoStream, Stream, Live, Handler
<1> HIDE DEF v
<1>6. /\ high' \in [Peers -> Nat] /\ high'[p] = s
      /\ \A q \in Peers : high[q] \in Nat /\ high'[q] \in Nat /\ high'[q] >= high[q]
  BY <1>2, <1>3, <1>4 DEF Shape
<1>7. CASE whole
  <2>1. StartHandler(p, s, v) BY <1>2, <1>7
  <2>2. ~v.opening BY <1>5, <1>7
  <2>3. s <= high'[p] BY <1>3, <1>6
  <2> QED BY <1>1, <1>2, <1>5, <1>6, <2>1, <2>2, <2>3, StartHandlerKeeps
<1>8. CASE ~whole
  <2>1. SetView(p, s, v) /\ UNCHANGED out BY <1>2, <1>8
  <2>2. /\ view' \in [Peers -> [Streams -> Stream]] /\ view'[p][s] = v
        /\ \A q \in Peers, t \in Streams : q # p \/ t # s => view'[q][t] = view[q][t]
    BY <1>3, <1>4, <1>5, <2>1, SetViewFacts
  <2>3. Shape' BY <1>1, <1>2, <1>4, <1>6, <2>1, <2>2 DEF Shape
  <2>4. StreamMove(p, s) BY <1>2, <1>3, <1>5, <1>6, <2>2 DEF StreamMove, Fresh
  <2>5. \A q \in Peers : PeerMove(q) BY <1>2, <1>6 DEF PeerMove
  <2> QED BY <1>1, <1>3, <2>1, <2>2, <2>3, <2>4, <2>5, StreamStep, SameOut DEF Silent
<1> QED BY <1>7, <1>8

LEMMA OpenContinuedKeeps == ASSUME RefusalInv, NEW p \in Peers, OpenContinued(p) PROVE RefusalInv'
<1> PICK s \in Ids(Other(p)) : s = Incoming(p).lane BY OpenRead DEF OpenContinued
<1> DEFINE v == [view[p][s] EXCEPT !.opening = FALSE,
                                   !.state = IF Incoming(p).frame.end THEN "half_closed_remote" ELSE @]
<1>1. chan' \in [Peers -> Seq(Sent)] /\ Arrived BY OpenRead DEF OpenContinued
<1>2. /\ StartHandler(p, s, v) \/ UNCHANGED <<view, out>>
      /\ isLive(p, s) /\ view[p][s].opening
      /\ UNCHANGED <<phase, next, high, promised, allowed, setup>>
  BY DEF OpenContinued, Continues
<1>3. s \in Streams /\ s \in Nat BY PeerFacts
<1>4. Shape /\ view[p][s] \in Stream /\ high[p] \in Nat /\ Fresh(p, s)
  BY <1>3 DEF RefusalInv, Refusals, Shape
<1>5. view[p][s].handler = "none" /\ ~view[p][s].ran /\ s <= high[p]
  BY <1>2, <1>3, <1>4 DEF Fresh, isLive, Live
<1>6. /\ v \in Stream /\ v.handler = "none" /\ ~v.ran /\ ~v.opening /\ v.state # "closed"
  BY <1>2, <1>4, <1>5 DEF Stream, Live, isLive
<1> HIDE DEF v
<1>7. high' \in [Peers -> Nat] /\ \A q \in Peers : high[q] \in Nat /\ high'[q] >= high[q]
  BY <1>2, <1>4 DEF Shape
<1>8. CASE StartHandler(p, s, v) BY <1>1, <1>2, <1>5, <1>6, <1>7, <1>8, StartHandlerKeeps
<1>9. CASE UNCHANGED <<view, out>>
  <2>1. Shape' BY <1>1, <1>2, <1>4, <1>9 DEF Shape
  <2>2. \A q \in Peers : PeerMove(q) BY <1>2, <1>7 DEF PeerMove
  <2>3. \A q \in Peers, t \in Streams : StreamMove(q, t) BY <1>2, <1>7, <1>9, Untouched
  <2> QED BY <1>1, <1>9, <2>1, <2>2, <2>3, StepKeeps, SameOut DEF Silent, Arrived
<1> QED BY <1>2, <1>8, <1>9

(* A stream frame names a stream.                                          *)
LEMMA StreamFrameRead ==
  ASSUME RefusalInv, NEW p \in Peers, NEW type \in {"data", "reset"}, Reads(p, type)
  PROVE  /\ Incoming(p).lane \in Streams /\ Incoming(p).frame \in Frame /\ Incoming(p).frame.type = type
         /\ chan' \in [Peers -> Seq(Sent)] /\ Arrived
         /\ Fits(Other(p), Incoming(p).lane, Incoming(p).frame)
<1>1. /\ chan' \in [Peers -> Seq(Sent)] /\ Arrived /\ Incoming(p) \in Sent
      /\ Incoming(p).frame.type = type /\ Fits(Other(p), Incoming(p).lane, Incoming(p).frame)
  BY ReadFacts DEF Arrived
<1>2. Incoming(p).frame \in Frame BY <1>1 DEF Sent
<1> QED BY <1>1, <1>2 DEF Fits

LEMMA StreamFrameNotLiveKeeps ==
  ASSUME RefusalInv, NEW p \in Peers, StreamFrameNotLive(p) PROVE RefusalInv'
<1>1. PICK type \in {"data", "reset"} : Reads(p, type) BY DEF StreamFrameNotLive
<1>2. chan' \in [Peers -> Seq(Sent)] /\ Arrived BY <1>1, StreamFrameRead
<1>3. UNCHANGED <<next, high, view, allowed, setup>>
      /\ (FailConnection(p) \/ UNCHANGED <<phase, promised, out>>)
  BY DEF StreamFrameNotLive
<1>4. CASE FailConnection(p) BY <1>2, <1>3, <1>4, FailKeeps
<1>5. CASE UNCHANGED <<phase, promised, out>>
  <2>1. Shape /\ \A q \in Peers : high[q] \in Nat BY DEF RefusalInv, Shape
  <2>2. Shape' BY <1>2, <1>3, <1>5, <2>1 DEF Shape
  <2>3. \A q \in Peers : PeerMove(q) BY <1>3, <1>5, <2>1 DEF PeerMove
  <2>4. \A q \in Peers, s \in Streams : StreamMove(q, s) BY <1>3, <2>1, Untouched
  <2> QED BY <1>2, <1>5, <2>2, <2>3, <2>4, StepKeeps, SameOut DEF Silent, Arrived
<1> QED BY <1>3, <1>4, <1>5

LEMMA ResetArrivesKeeps == ASSUME RefusalInv, NEW p \in Peers, ResetArrives(p) PROVE RefusalInv'
<1> PICK s \in Streams, f \in Frame : s = Incoming(p).lane /\ f = Incoming(p).frame
  BY StreamFrameRead DEF ResetArrives
<1>1. chan' \in [Peers -> Seq(Sent)] /\ Arrived /\ f.type = "reset" /\ Fits(Other(p), s, f)
  BY StreamFrameRead DEF ResetArrives
<1> DEFINE v == Failed(view[p][s], f.code)
<1>2. /\ isLive(p, s) /\ out' = [out EXCEPT ![p][s] = Keep(@)] /\ SetView(p, s, v)
      /\ UNCHANGED <<phase, next, high, promised, allowed, setup>>
  BY DEF ResetArrives
<1>3. Shape /\ view[p][s] \in Stream /\ high[p] \in Nat /\ s \in Nat /\ s \in Lanes
  BY ViewFacts, PeerFacts DEF RefusalInv
<1>4. /\ v \in Stream /\ v.state = "closed" /\ v.opening = view[p][s].opening /\ v.ran = view[p][s].ran
      /\ v.handler = (IF view[p][s].state # "closed" /\ view[p][s].handler = "scheduled"
                      THEN "cancelled" ELSE view[p][s].handler)
      /\ v.cause \in {view[p][s].cause, f.code}
  <2>1. f.code \in ResetCode \cup {"none"} BY DEF Frame
  <2>2. CASE f.code \in ResetCode BY <1>3, <2>2, StreamFacts
  <2>3. CASE f.code = "none" BY <1>3, <2>3 DEF Failed, Stream, Handler
  <2> QED BY <2>1, <2>2, <2>3
<1> HIDE DEF v
<1>5. /\ view' \in [Peers -> [Streams -> Stream]] /\ view'[p][s] = v
      /\ \A q \in Peers, t \in Streams : q # p \/ t # s => view'[q][t] = view[q][t]
  BY <1>2, <1>3, <1>4, SetViewFacts
<1>6. out' \in [Peers -> [Lanes -> Seq(Held)]] /\ Silent BY <1>2, <1>3, KeepFacts DEF Silent
<1>7. Shape' BY <1>1, <1>2, <1>3, <1>5, <1>6 DEF Shape
<1>8. s \in Ids(Other(p)) => Fresh(p, s) BY ViewFacts
<1>9. view[p][s].state # "idle" BY <1>2 DEF isLive, Live
<1>10. ~isLive(p, s)' BY <1>4, <1>5 DEF isLive, Live
<1>11. s \in Ids(p) /\ f.code = "REFUSED" => Never(Other(p), s) BY <1>1, PeerFacts DEF Fits
<1>12. StreamMove(p, s) BY <1>2, <1>3, <1>4, <1>5, <1>8, <1>9, <1>10, <1>11 DEF StreamMove, Fresh
<1>13. \A q \in Peers : PeerMove(q) BY <1>2, <1>3 DEF PeerMove, Shape
<1> QED BY <1>1, <1>5, <1>6, <1>7, <1>12, <1>13, StreamStep DEF Silent

LEMMA DataArrivesKeeps == ASSUME RefusalInv, NEW p \in Peers, DataArrives(p) PROVE RefusalInv'
<1> PICK s \in Streams, f \in Frame : s = Incoming(p).lane /\ f = Incoming(p).frame
  BY StreamFrameRead DEF DataArrives
<1>1. chan' \in [Peers -> Seq(Sent)] /\ Arrived BY StreamFrameRead DEF DataArrives
<1>2. isLive(p, s) /\ UNCHANGED <<phase, next, high, promised, allowed, setup>> BY DEF DataArrives
<1>3. Shape /\ view[p][s] \in Stream /\ high[p] \in Nat /\ s \in Nat /\ s \in Lanes
  BY ViewFacts, PeerFacts DEF RefusalInv
<1> DEFINE w == IF f.payload THEN [view[p][s] EXCEPT !.got = @ + 1] ELSE view[p][s]
           r == Failed(view[p][s], "PROTOCOL_ERROR")
           g == ResetFrame("PROTOCOL_ERROR")
<1>4. /\ w \in Stream /\ w.cause = view[p][s].cause /\ w.opening = view[p][s].opening
      /\ w.handler = view[p][s].handler /\ w.ran = view[p][s].ran /\ w.state = view[p][s].state
  BY <1>3 DEF Stream
<1>5. "PROTOCOL_ERROR" \in ResetCode /\ "PROTOCOL_ERROR" # "REFUSED" BY DEF ResetCode
<1>6. g.type = "reset" /\ g.code = "PROTOCOL_ERROR" BY <1>5, FrameFacts
<1>7. /\ r \in Stream /\ r.state = "closed" /\ r.opening = view[p][s].opening /\ r.ran = view[p][s].ran
      /\ r.handler \in {view[p][s].handler, "cancelled"}
      /\ (view[p][s].handler # "scheduled" => r.handler = view[p][s].handler)
      /\ r.cause \in {view[p][s].cause, "PROTOCOL_ERROR"}
  BY <1>3, <1>5, StreamFacts
<1>8. PICK v \in {w, RemotelyEnded(w), r} :
         SetView(p, s, v) /\ (UNCHANGED out \/ EnqueueReset(p, s, "PROTOCOL_ERROR"))
  BY DEF DataArrives
<1> HIDE DEF w, r, g
<1>9. /\ v \in Stream /\ v.cause \in {view[p][s].cause, "PROTOCOL_ERROR", "normal"}
      /\ v.opening = view[p][s].opening
      /\ v.handler \in {view[p][s].handler, "cancelled"}
      /\ (view[p][s].handler # "scheduled" => v.handler = view[p][s].handler)
      /\ v.ran = view[p][s].ran
  <2>1. CASE v = r BY <1>7, <2>1
  <2>2. CASE v = w BY <1>4, <2>2
  <2>3. CASE v = RemotelyEnded(w) BY <1>4, <2>3, StreamFacts
  <2> QED BY <1>8, <2>1, <2>2, <2>3
<1>10. /\ view' \in [Peers -> [Streams -> Stream]] /\ view'[p][s] = v
       /\ \A q \in Peers, t \in Streams : q # p \/ t # s => view'[q][t] = view[q][t]
  BY <1>3, <1>8, <1>9, SetViewFacts
<1>11. out' \in [Peers -> [Lanes -> Seq(Held)]] /\ Added(p, s, g)
  <2>1. CASE UNCHANGED out BY <1>3, <2>1, SameOut DEF Shape, Silent, Added
  <2>2. CASE EnqueueReset(p, s, "PROTOCOL_ERROR") BY <1>3, <1>5, <2>2, EnqueueResetFacts DEF Added, g
  <2> QED BY <1>8, <2>1, <2>2
<1>12. Shape' BY <1>1, <1>2, <1>3, <1>10, <1>11 DEF Shape
<1>13. s \in Ids(Other(p)) => Fresh(p, s) BY ViewFacts
<1>14. view[p][s].state # "idle" BY <1>2 DEF isLive, Live
<1>15. StreamMove(p, s) BY <1>2, <1>3, <1>5, <1>9, <1>10, <1>13, <1>14 DEF StreamMove, Fresh
<1>16. \A q \in Peers : PeerMove(q) BY <1>2, <1>3 DEF PeerMove, Shape
<1>17. Fits(p, s, g)' BY <1>5, <1>6 DEF Fits
<1> QED BY <1>1, <1>10, <1>11, <1>12, <1>15, <1>16, <1>17, StreamStep DEF Added

LEMMA GoawayArrivesKeeps == ASSUME RefusalInv, NEW p \in Peers, GoawayArrives(p) PROVE RefusalInv'
<1> PICK f \in Frame : f = Incoming(p).frame BY ReadFacts DEF GoawayArrives, Sent
<1> DEFINE hit(s) == s \in Ids(p) /\ isLive(p, s) /\ s > f.last
<1>1. /\ chan' \in [Peers -> Seq(Sent)] /\ Arrived /\ f.type = "goaway"
      /\ Fits(Other(p), Incoming(p).lane, f)
  BY ReadFacts DEF GoawayArrives, Arrived
<1>2. /\ allowed' = [allowed EXCEPT ![p] = f.last]
      /\ view' = [view EXCEPT ![p] = [s \in Streams |->
                     IF hit(s) THEN Failed(view[p][s], "REFUSED") ELSE view[p][s]]]
      /\ UNCHANGED <<phase, next, high, promised, out, setup>>
  BY DEF GoawayArrives
<1>3. Shape /\ f.last \in Nat BY DEF RefusalInv, Frame
<1>4. \A s \in Streams : Failed(view[p][s], "REFUSED") \in Stream
  BY <1>3, StreamFacts DEF Shape, ResetCode
<1>5. /\ view' \in [Peers -> [Streams -> Stream]]
      /\ \A s \in Streams : view'[p][s] = IF hit(s) THEN Failed(view[p][s], "REFUSED") ELSE view[p][s]
      /\ \A q \in Peers, s \in Streams : q # p => view'[q][s] = view[q][s]
  BY <1>2, <1>3, <1>4 DEF Shape
<1>6. Shape' BY <1>1, <1>2, <1>3, <1>5 DEF Shape
<1>7. \A q \in Peers : high[q] \in Nat /\ high'[q] >= high[q] BY <1>2, <1>3 DEF Shape
<1>8. \A q \in Peers : PeerMove(q) BY <1>2, <1>7 DEF PeerMove
<1>9. ASSUME NEW q \in Peers, NEW s \in Streams PROVE StreamMove(q, s)
  <2>1. CASE q = p /\ hit(s)
    <3>1. s \in Ids(p) /\ s \notin Ids(Other(p)) BY <2>1, PeerFacts
    <3>2. Never(Other(p), s) BY <1>1, <2>1, PeerFacts DEF Fits
    <3> QED BY <2>1, <3>1, <3>2 DEF StreamMove
  <2>2. CASE ~(q = p /\ hit(s))
    <3>1. view'[q][s] = view[q][s] BY <1>5, <2>2
    <3> QED BY <1>2, <1>7, <3>1, Untouched
  <2> QED BY <2>1, <2>2
<1> QED BY <1>1, <1>2, <1>6, <1>8, <1>9, StepKeeps, SameOut DEF Silent, Arrived

-----------------------------------------------------------------------------
(* The write loop and the end of the connection.                           *)

LEMMA WriteKeeps == ASSUME RefusalInv, NEW p \in Peers, NEW l \in Lanes, Write(p, l) PROVE RefusalInv'
<1> DEFINE w == Rest(out[p][l])
           x == [lane |-> l, frame |-> First(out[p][l]).frame, idx |-> First(out[p][l]).idx]
           c == chan[p]
           t == Append(c, x)
<1>1. Shape /\ out[p][l] \in Seq(Held) /\ out[p][l] # << >> /\ c \in Seq(Sent)
  BY DEF RefusalInv, Shape, Write
<1>2. /\ w \in Seq(Held) /\ Frames(w) \subseteq Queued(p, l)
      /\ x \in Sent /\ x.frame \in Queued(p, l) /\ x.lane = l
  BY <1>1, LaneFacts DEF Sent, Queued
<1>3. /\ chan' = [chan EXCEPT ![p] = t] /\ out' = [out EXCEPT ![p][l] = w]
      /\ UNCHANGED <<phase, next, high, view, promised, allowed, setup>>
  BY DEF Write
<1> HIDE DEF w, x
<1>4. out' \in [Peers -> [Lanes -> Seq(Held)]]
      /\ \A q \in Peers, m \in Lanes : out'[q][m] = IF q = p /\ m = l THEN w ELSE out[q][m]
  BY <1>1, <1>2, <1>3 DEF Shape
<1>5. Silent BY <1>2, <1>4 DEF Silent, Queued
<1>6. t \in Seq(Sent) /\ \A i \in DOMAIN t : t[i] = x \/ (i \in DOMAIN c /\ t[i] = c[i])
  <2> HIDE DEF c
  <2>1. Len(c) \in Nat /\ DOMAIN c = 1 .. Len(c) BY <1>1, LenProperties
  <2>2. t \in Seq(Sent) /\ Len(t) = Len(c) + 1 /\ t[Len(c) + 1] = x /\ \A i \in 1 .. Len(c) : t[i] = c[i]
    BY <1>1, <1>2, AppendProperties
  <2>3. DOMAIN t = 1 .. Len(c) + 1 BY <2>2, LenProperties
  <2> HIDE DEF t
  <2> QED BY <2>1, <2>2, <2>3
<1> HIDE DEF t
<1>7. chan' \in [Peers -> Seq(Sent)] /\ \A q \in Peers : chan'[q] = IF q = p THEN t ELSE chan[q]
  BY <1>1, <1>3, <1>6 DEF Shape
<1>8. \A q \in Peers, m \in Lanes : \A g \in OnWay(q, m)' : g \in Queued(q, m) \cup OnWay(q, m)
  <2> TAKE q \in Peers, m \in Lanes
  <2> TAKE g \in OnWay(q, m)'
  <2>1. CASE q # p BY <1>7, <2>1 DEF OnWay
  <2>2. CASE q = p
    <3>1. PICK i \in DOMAIN t : t[i].lane = m /\ g = t[i].frame BY <1>7, <2>2 DEF OnWay
    <3> QED BY <1>2, <1>6, <2>2, <3>1 DEF OnWay
  <2> QED BY <2>1, <2>2
<1>9. Shape' BY <1>1, <1>3, <1>4, <1>7 DEF Shape
<1>10. \A q \in Peers : high[q] \in Nat /\ high'[q] >= high[q] BY <1>1, <1>3 DEF Shape
<1>11. \A q \in Peers : PeerMove(q) BY <1>3, <1>10 DEF PeerMove
<1>12. \A q \in Peers, s \in Streams : StreamMove(q, s) BY <1>3, <1>10, Untouched
<1> QED BY <1>5, <1>8, <1>9, <1>11, <1>12, StepKeeps DEF Silent

LEMMA CloseKeeps == ASSUME RefusalInv, NEW p \in Peers, Close(p) PROVE RefusalInv'
<1>1. DOMAIN phase' = Peers /\ chan' \in [Peers -> Seq(Sent)] BY DEF RefusalInv, Shape, Close
<1>2. Arrived BY SameChan DEF Close
<1> QED BY <1>1, <1>2, PromiseKeeps DEF Close

(* A step of the closing that touches no stream.                           *)
LEMMA PhaseKeeps ==
  ASSUME RefusalInv, DOMAIN phase' = Peers, UNCHANGED <<next, high, view, promised, allowed, out, chan, setup>>
  PROVE  RefusalInv'
<1>1. Shape /\ \A q \in Peers : high[q] \in Nat BY DEF RefusalInv, Shape
<1>2. Shape' BY <1>1 DEF Shape
<1>3. \A q \in Peers : PeerMove(q) BY <1>1 DEF PeerMove
<1>4. \A q \in Peers, s \in Streams : StreamMove(q, s) BY <1>1, Untouched
<1> QED BY <1>2, <1>3, <1>4, StepKeeps, SameOut, SameChan DEF Silent, Arrived

LEMMA DieKeeps == ASSUME RefusalInv, NEW p \in Peers, Die(p) PROVE RefusalInv'
<1> DEFINE gone(s) == Failed(view[p][s], "CONNECTION_CLOSED")
<1>1. Shape /\ Other(p) \in Peers BY PeerFacts DEF RefusalInv
<1>2. \A q \in Peers : high[q] \in Nat BY <1>1 DEF Shape
<1>3. /\ view' = [view EXCEPT ![p] = [s \in Streams |-> IF isLive(p, s) THEN gone(s) ELSE view[p][s]]]
      /\ out' = [out EXCEPT ![p] = [l \in Lanes |-> << >>]]
      /\ chan' = [chan EXCEPT ![Other(p)] = << >>]
      /\ UNCHANGED <<next, high, promised, allowed, setup>> /\ DOMAIN phase' = Peers
  BY <1>1 DEF Die, Shape
<1>4. \A s \in Streams : view[p][s] \in Stream BY <1>1 DEF Shape
<1>5. \A s \in Streams :
         /\ gone(s) \in Stream /\ gone(s).state = "closed" /\ gone(s).opening = view[p][s].opening
         /\ gone(s).ran = view[p][s].ran
         /\ gone(s).handler \in {view[p][s].handler, "cancelled"}
         /\ (view[p][s].handler # "scheduled" => gone(s).handler = view[p][s].handler)
         /\ gone(s).cause \in {view[p][s].cause, "CONNECTION_CLOSED"}
  BY <1>4, StreamFacts
<1> HIDE DEF gone
<1>6. /\ view' \in [Peers -> [Streams -> Stream]]
      /\ \A s \in Streams : view'[p][s] = IF isLive(p, s) THEN gone(s) ELSE view[p][s]
      /\ \A q \in Peers, s \in Streams : q # p => view'[q][s] = view[q][s]
  BY <1>1, <1>3, <1>5 DEF Shape
<1>7. /\ out' \in [Peers -> [Lanes -> Seq(Held)]]
      /\ \A q \in Peers, l \in Lanes : out'[q][l] \in {out[q][l], << >>}
  BY <1>1, <1>3, EmptySeq DEF Shape
<1>8. /\ chan' \in [Peers -> Seq(Sent)]
      /\ \A q \in Peers : chan'[q] \in {chan[q], << >>}
  BY <1>1, <1>3, EmptySeq DEF Shape
<1>9. Shape' BY <1>1, <1>3, <1>6, <1>7, <1>8 DEF Shape
<1>10. Silent
  <2>1. Frames(<< >>) = {} BY DEF Frames
  <2> QED BY <1>7, <2>1 DEF Silent, Queued
<1>11. Arrived
  <2> SUFFICES ASSUME NEW q \in Peers, NEW m \in Lanes, NEW g \in OnWay(q, m)' PROVE g \in OnWay(q, m)
    BY DEF Arrived
  <2>1. CASE chan'[q] = chan[q] BY <2>1 DEF OnWay
  <2>2. CASE chan'[q] = << >> BY <2>2 DEF OnWay
  <2> QED BY <1>8, <2>1, <2>2
<1>12. \A q \in Peers : PeerMove(q) BY <1>2, <1>3 DEF PeerMove
<1>13. ASSUME NEW q \in Peers, NEW s \in Streams PROVE StreamMove(q, s)
  <2>1. CASE q = p /\ isLive(p, s)
    <3>1. view'[p][s] = gone(s) BY <1>6, <2>1
    <3>2. s \in Nat /\ (s \in Ids(Other(p)) => Fresh(p, s)) BY ViewFacts
    <3>3. view[p][s].state # "idle" BY <2>1 DEF isLive, Live
    <3> QED BY <1>2, <1>3, <1>5, <2>1, <3>1, <3>2, <3>3 DEF StreamMove, Fresh
  <2>2. CASE ~(q = p /\ isLive(p, s))
    <3>1. view'[q][s] = view[q][s] BY <1>6, <2>2
    <3> QED BY <1>2, <1>3, <3>1, Untouched
  <2> QED BY <2>1, <2>2
<1> QED BY <1>9, <1>10, <1>11, <1>12, <1>13, StepKeeps DEF Silent, Arrived

LEMMA RefusalStarts == Init => RefusalInv
<1> SUFFICES ASSUME Init PROVE RefusalInv OBVIOUS
<1>1. << >> \in Seq(Held) /\ << >> \in Seq(Sent) /\ Frames(<< >>) = {} BY EmptySeq DEF Frames
<1>2. Shape BY <1>1, StreamFacts DEF Init, Shape, FirstId
<1>3. \A p \in Peers, l \in Lanes : Queued(p, l) = {} /\ OnWay(p, l) = {}
  BY <1>1 DEF Init, Queued, OnWay
<1>4. \A q \in Peers, s \in Streams : view[q][s] = NoStream BY DEF Init
<1>5. \A q \in Peers : \A s \in Ids(Other(q)) : Fresh(q, s) BY <1>4, PeerFacts DEF Fresh, NoStream
<1>6. \A q \in Peers : \A s \in Ids(q) : view[q][s].cause # "REFUSED" BY <1>4, PeerFacts DEF NoStream
<1> QED BY <1>2, <1>3, <1>5, <1>6 DEF RefusalInv, Refusals

LEMMA RefusalStep == RefusalInv /\ [Next]_vars => RefusalInv'
<1> SUFFICES ASSUME RefusalInv, [Next]_vars PROVE RefusalInv' OBVIOUS
<1>1. CASE UNCHANGED vars BY <1>1, PhaseKeeps DEF vars, RefusalInv, Shape
<1>2. CASE Next
  <2>1. PICK p \in Peers :
           \/ Open(p) \/ Close(p) \/ ReadLoop(p)
           \/ StreamsDrained(p) \/ Flushed(p) \/ SocketClosed(p) \/ SocketLost(p)
           \/ \E s \in Streams : Send(p, s) \/ Reset(p, s) \/ HandlerStarts(p, s) \/ HandlerEnds(p, s)
           \/ \E l \in Lanes : Write(p, l)
    BY <1>2 DEF Next
  <2>2. CASE Open(p) BY <2>2, OpenKeeps
  <2>3. CASE Close(p) BY <2>3, CloseKeeps
  <2>4. CASE ReadLoop(p)
    BY <2>4, OpenNotNewKeeps, OpenOverLimitKeeps, OpenTakenKeeps, OpenContinuedKeeps,
       StreamFrameNotLiveKeeps, ResetArrivesKeeps, DataArrivesKeeps, GoawayArrivesKeeps DEF ReadLoop
  <2>5. CASE StreamsDrained(p) BY <2>5, PhaseKeeps DEF StreamsDrained, RefusalInv, Shape
  <2>6. CASE Flushed(p) BY <2>6, PhaseKeeps DEF Flushed, RefusalInv, Shape
  <2>7. CASE SocketClosed(p) BY <2>7, DieKeeps DEF SocketClosed
  <2>8. CASE SocketLost(p) BY <2>8, DieKeeps DEF SocketLost
  <2>9. ASSUME NEW s \in Streams, Send(p, s) \/ Reset(p, s) \/ HandlerStarts(p, s) \/ HandlerEnds(p, s)
        PROVE  RefusalInv'
    BY <2>9, SendKeeps, ResetKeeps, HandlerStartsKeeps, HandlerReturnsKeeps, HandlerRaisesKeeps DEF HandlerEnds
  <2>10. ASSUME NEW l \in Lanes, Write(p, l) PROVE RefusalInv' BY <2>10, WriteKeeps
  <2> QED BY <2>1, <2>2, <2>3, <2>4, <2>5, <2>6, <2>7, <2>8, <2>9, <2>10
<1> QED BY <1>1, <1>2

(* A stream whose opener is told REFUSED never reaches the other peer's    *)
(* handler, whatever goaways, resets, late fragments and lost sockets      *)
(* cross: Peer.startHandler refuses once a goaway is out, and              *)
(* Peer.onGoaway and a REFUSED reset speak only of streams whose handler   *)
(* has not been scheduled.                                                 *)
THEOREM RefusalIsSafeToRetry == Spec => []RefusedNeverRan
<1>1. RefusalInv => RefusedNeverRan BY DEF RefusalInv, Refusals, Never, RefusedNeverRan
<1> QED BY <1>1, RefusalStarts, RefusalStep, PTL DEF Spec

-----------------------------------------------------------------------------
(* What travels from one peer to the other on one lane.                    *)

(* A fragment of a frame, the fragments of an item still to be sent, those *)
(* written on lane l of the channel c, those that wait in the queue w, and *)
(* both.                                                                   *)
Piece(f, n) == [frame |-> f, idx |-> n]
Parts(item) == {Piece(item.frame, n) : n \in item.next .. item.frame.frags}
Written(c, l) == {Piece(c[i].frame, c[i].idx) : i \in {j \in DOMAIN c : c[j].lane = l}}
Waiting(w) == UNION {Parts(w[k]) : k \in DOMAIN w}
Line(c, l, w) == Written(c, l) \cup Waiting(w)

IsFirst(x) == x.frame.type = "open" /\ x.idx = 1
IsLast(x) == x.idx = x.frame.frags
Pays(f) == f.type = "data" /\ f.payload

(* The payloads on the line.                                               *)
Count(c, S) == Cardinality({i \in DOMAIN c : c[i] \in S})
PayingSent(l) == {e \in Sent : e.lane = l /\ Pays(e.frame)}
PayingHeld == {e \in Held : Pays(e.frame)}
Paid(c, l, w) == Count(c, PayingSent(l)) + Count(w, PayingHeld)

(* x may come before y: a reset is the last word, after the end of a side  *)
(* only a reset comes, and the fragments of an `open` come first and in    *)
(* order.                                                                  *)
Before(x, y) ==
    /\ x.frame.type # "reset"
    /\ x.frame.end /\ y.frame.type # "reset" => x.frame.type = "open" /\ y.frame.type = "open"
    /\ y.frame.type = "open" => x.frame = y.frame /\ x.idx < y.idx

Follow(c, l, w) ==
    /\ \A i, j \in DOMAIN c : i < j /\ c[i].lane = l /\ c[j].lane = l =>
          Before(Piece(c[i].frame, c[i].idx), Piece(c[j].frame, c[j].idx))
    /\ \A x \in Written(c, l), y \in Waiting(w) : Before(x, y)
    /\ \A k, m \in DOMAIN w : k < m => \A x \in Parts(w[k]), y \in Parts(w[m]) : Before(x, y)

(* Only the head of a lane is partly sent, and only an `open` has parts.   *)
WellFormed(w) ==
    \A k \in DOMAIN w :
        /\ w[k].next \in 1 .. w[k].frame.frags
        /\ w[k].next > 1 => k = 1

Fine(l, x) ==
    /\ x.frame \in Frame /\ x.idx \in 1 .. x.frame.frags
    /\ x.frame.type # "open" => x.frame.frags = 1
    /\ x.frame.type = "goaway" <=> l = CONNECTION_LANE
    /\ x.frame.type = "goaway" => ~x.frame.end
    /\ x.frame.type = "reset" => ~x.frame.end /\ x.frame.code \in ResetCode \ {"PROTOCOL_ERROR"}

Tidy(c, l, w) == Follow(c, l, w) /\ WellFormed(w) /\ \A x \in Line(c, l, w) : Fine(l, x)

-----------------------------------------------------------------------------
(* The same of the two peers.                                              *)
Row(q, l) == Line(chan[q], l, out[q][l])
PaidOn(q, s) == Paid(chan[q], s, out[q][s])

AnyOn(q, s) == Row(q, s) # {}
OpenOn(q, s) == \E x \in Row(q, s) : x.frame.type = "open"
FirstOn(q, s) == \E x \in Row(q, s) : IsFirst(x)
LastOn(q, s) == \E x \in Row(q, s) : x.frame.type = "open" /\ IsLast(x)
DataOn(q, s) == \E x \in Row(q, s) : x.frame.type = "data"
ResetOn(q, s) == \E x \in Row(q, s) : x.frame.type = "reset"
EndsOn(q, s) == \E x \in Row(q, s) : x.frame.end
EndOn(q, s) == \E x \in Row(q, s) : x.frame.end /\ IsLast(x)

(* An id is processed only in its turn: `open` frames leave in the order   *)
(* of their ids.                                                           *)
InTurn(q) ==
    \A i \in DOMAIN chan[q] : IsFirst(chan[q][i]) =>
        \A s \in Ids(q) : s < chan[q][i].lane =>
            /\ \A j \in DOMAIN chan[q] : j > i /\ chan[q][j].lane = s => ~IsFirst(chan[q][j])
            /\ \A y \in Waiting(out[q][s]) : ~IsFirst(y)

(* No `open` that is cut into fragments is ever refused for the limit.     *)
WithinLimit == MaxFrags = 1 \/ (DialerOpens <= Limit /\ AcceptorOpens <= Limit)

Alive(q) == phase[q] # "dead"
Unread(p, s) == s \notin Ids(p) /\ s > high[p]

(* A frame for s means something to p.                                     *)
Hears(p, s) == Alive(p) /\ (isLive(p, s) \/ Unread(p, s))

(* What q has said or says on s reaches the other peer: q lives, or has    *)
(* closed without cutting the stream.                                      *)
Speaks(q, s) ==
    \/ Alive(q)
    \/ /\ WithinLimit /\ ~setup.faulty /\ view[q][s].cause # "CONNECTION_CLOSED"
       /\ s \notin Ids(q) => promised[q] # None /\ s <= promised[q]

MayEnd(v) == v.state \in {"open", "half_closed_remote"}
Heard(v) == v.state = "half_closed_remote" \/ v.cause = "normal"
Ended(v) == v.state = "half_closed_local" \/ v.cause = "normal"
Refused(q, s) == s \notin Ids(q) /\ s <= high[q] /\ view[q][s].state = "idle"
Cut(v) == v.state = "closed" /\ v.cause # "normal"

Numbers(q, p) ==
    /\ next[q] \in Nat /\ next[q] > 0 /\ \E k \in Nat : next[q] = FirstId(q) + 2 * k
    /\ high[p] # 0 => high[p] \in Ids(q) /\ high[p] < next[q]
    /\ promised[p] # None => promised[p] <= high[p]

Stage(q, s) ==
    LET v == view[q][s] IN
    /\ v.state = "idle" => v = NoStream
    /\ v.cause = "none" <=> v.state # "closed"
    /\ v.cause # "PROTOCOL_ERROR"
    /\ v.opening /\ isLive(q, s) => v.state # "half_closed_local"
    /\ v.handler \in {"running", "returned", "raised"} => v.ran
    /\ s \in Ids(q) => ~v.opening /\ v.handler = "none" /\ (v.state = "idle" <=> s >= next[q])
    /\ s \notin Ids(q) /\ isLive(q, s) /\ ~v.opening => v.handler \in {"scheduled", "running", "returned"}
    /\ ~Alive(q) => ~isLive(q, s)

Lines(q, s) ==
    /\ Tidy(chan[q], s, out[q][s])
    /\ OpenOn(q, s) => s \in Ids(q)
    /\ AnyOn(q, s) => ~Unread(q, s)
    /\ DataOn(q, s) \/ (AnyOn(q, s) /\ s \in Ids(q)) => view[q][s].state # "idle"
    /\ ResetOn(q, s) => ~Hears(q, s)

Opening(q, p, s) == s \in Ids(q) =>
    /\ FirstOn(q, s) => s > high[p]
    /\ Alive(p) /\ s > high[p] /\ AnyOn(q, s) => FirstOn(q, s)
    /\ Alive(p) /\ Alive(q) /\ s > high[p] /\ s < next[q] => FirstOn(q, s)
    /\ Alive(q) /\ s < next[q] /\ Hears(p, s) /\ (view[p][s].opening \/ s > high[p]) =>
          LastOn(q, s) \/ ResetOn(q, s)
    /\ isLive(p, s) /\ ~view[p][s].opening => ~OpenOn(q, s)
    /\ WithinLimit /\ Alive(p) /\ s <= high[p] /\ OpenOn(q, s) => isLive(p, s)

Ends(q, p, s) ==
    /\ EndsOn(q, s) \/ Heard(view[p][s]) => view[q][s].state \in {"half_closed_local", "closed"}
    /\ DataOn(q, s) => view[p][s].state # "half_closed_remote"
    /\ Ended(view[q][s]) /\ Hears(p, s) /\ Speaks(q, s) =>
          EndOn(q, s) \/ view[p][s].state = "half_closed_remote"

Counts(q, p, s) ==
    /\ view[q][s].state = "idle" => view[p][s].got = 0
    /\ Hears(p, s) /\ (MayEnd(view[q][s]) \/ EndOn(q, s)) =>
          view[p][s].got + PaidOn(q, s) = view[q][s].sent
    /\ Heard(view[p][s]) => view[p][s].got = view[q][s].sent

Closes(q, p, s) ==
    Speaks(q, s) /\ Hears(p, s) /\ (Refused(q, s) \/ Cut(view[q][s])) =>
        \/ ResetOn(q, s)
        \/ view[q][s].cause = "REFUSED" /\ s \in Ids(q) /\ (view[p][s].opening \/ s > high[p])

Link(q, p, s) ==
    /\ Stage(q, s) /\ Lines(q, s)
    /\ Opening(q, p, s) /\ Ends(q, p, s) /\ Counts(q, p, s) /\ Closes(q, p, s)

(* The end of the connection.                                              *)
Leaving(q, p) == WithinLimit =>
    /\ phase[q] \in {"open", "draining", "flushing", "closing", "dead"}
    /\ phase[q] \in {"draining", "flushing", "closing"} => promised[q] # None
    /\ phase[q] = "open" => promised[q] = None
    /\ ~setup.faulty /\ phase[q] \in {"flushing", "closing"} =>
          \A s \in Streams : isLive(q, s) => view[q][s].opening /\ s > promised[q]
    /\ ~setup.faulty /\ phase[q] = "closing" =>
          \A l \in Lanes : out[q][l] # << >> => l \in Ids(p) /\ l > promised[q]
    /\ \A x \in Row(q, CONNECTION_LANE) : promised[q] # None /\ x.frame.last = promised[q]
    /\ promised[q] # None /\ (Alive(q) \/ ~setup.faulty) /\ Alive(p) =>
          \/ AnyOn(q, CONNECTION_LANE)
          \/ allowed[p] # None /\ \A s \in Ids(p) : isLive(p, s) => s <= promised[q]
    /\ ~setup.faulty => \A s \in Streams :
          view[q][s].cause = "CONNECTION_CLOSED" => s \notin Ids(q) /\ view[q][s].handler = "none"
    /\ ~setup.faulty /\ ~Alive(q) /\ Alive(p) =>
          promised[q] # None /\ \A s \in Ids(p) : view[q][s].cause = "CONNECTION_CLOSED" => s > promised[q]

(* Only a dead peer has streams cut by the end of the socket, and nothing  *)
(* waits to be sent by it.                                                 *)
Deaths(q) ==
    /\ Alive(q) => \A s \in Streams : view[q][s].cause # "CONNECTION_CLOSED"
    /\ ~Alive(q) => \A l \in Lanes : out[q][l] = << >>

LinkInv ==
    /\ \A q \in Peers : Numbers(q, Other(q)) /\ InTurn(q) /\ Leaving(q, Other(q)) /\ Deaths(q)
    /\ \A q \in Peers : Tidy(chan[q], CONNECTION_LANE, out[q][CONNECTION_LANE])
    /\ \A q \in Peers, s \in Streams : Link(q, Other(q), s)

-----------------------------------------------------------------------------
(* Counting the elements of a sequence that belong to a set.               *)

LEMMA SeqFacts ==
  ASSUME NEW T, NEW c \in Seq(T)
  PROVE  Len(c) \in Nat /\ DOMAIN c = 1 .. Len(c) /\ \A i \in 1 .. Len(c) : c[i] \in T
BY LenProperties, ElementOfSeq

LEMMA TailFacts ==
  ASSUME NEW T, NEW c \in Seq(T), c # << >>
  PROVE  /\ Head(c) = c[1] /\ Len(c) \in Nat /\ 1 \in 1 .. Len(c) /\ DOMAIN c = 1 .. Len(c)
         /\ Tail(c) \in Seq(T) /\ DOMAIN Tail(c) = 1 .. (Len(c) - 1)
         /\ \A i \in 1 .. (Len(c) - 1) : Tail(c)[i] = c[i + 1]
<1>1. Len(c) \in Nat \ {0} BY EmptySeq
<1>2. Head(c) = c[1] OBVIOUS
<1>3. Tail(c) \in Seq(T) /\ Len(Tail(c)) = Len(c) - 1 /\ \A i \in 1 .. Len(Tail(c)) : Tail(c)[i] = c[i + 1]
  BY HeadTailProperties
<1>4. DOMAIN Tail(c) = 1 .. Len(Tail(c)) BY <1>3, LenProperties
<1> QED BY <1>1, <1>2, <1>3, <1>4, SeqFacts

LEMMA AppendFacts ==
  ASSUME NEW T, NEW c \in Seq(T), NEW x \in T
  PROVE  /\ Append(c, x) \in Seq(T) /\ Len(c) \in Nat /\ DOMAIN c = 1 .. Len(c)
         /\ DOMAIN Append(c, x) = 1 .. (Len(c) + 1) /\ Append(c, x)[Len(c) + 1] = x
         /\ \A i \in 1 .. Len(c) : Append(c, x)[i] = c[i]
<1>1. /\ Append(c, x) \in Seq(T) /\ Len(Append(c, x)) = Len(c) + 1 /\ Append(c, x)[Len(c) + 1] = x
      /\ \A i \in 1 .. Len(c) : Append(c, x)[i] = c[i]
  BY AppendProperties
<1>2. DOMAIN Append(c, x) = 1 .. Len(Append(c, x)) BY <1>1, LenProperties
<1> QED BY <1>1, <1>2, SeqFacts

LEMMA CountType ==
  ASSUME NEW T, NEW c \in Seq(T), NEW S
  PROVE  IsFiniteSet({i \in DOMAIN c : c[i] \in S}) /\ Count(c, S) \in Nat
<1> DEFINE I == {i \in DOMAIN c : c[i] \in S}
<1>1. Len(c) \in Nat /\ DOMAIN c = 1 .. Len(c) BY SeqFacts
<1>2. IsFiniteSet(1 .. Len(c)) BY <1>1, FS_Interval
<1>3. I \in SUBSET (1 .. Len(c)) BY <1>1
<1>4. IsFiniteSet(I) BY <1>2, <1>3, FS_Subset
<1>5. Cardinality(I) \in Nat BY <1>4, FS_CardinalityType
<1> QED BY <1>4, <1>5 DEF Count

LEMMA CountAppend ==
  ASSUME NEW T, NEW c \in Seq(T), NEW x \in T, NEW S
  PROVE  Count(Append(c, x), S) = Count(c, S) + IF x \in S THEN 1 ELSE 0
<1> DEFINE t == Append(c, x)
           n == Len(c) + 1
           I == {i \in DOMAIN c : c[i] \in S}
           J == {i \in DOMAIN t : t[i] \in S}
<1>1. /\ Len(c) \in Nat /\ DOMAIN c = 1 .. Len(c) /\ DOMAIN t = 1 .. n /\ t[n] = x
      /\ \A i \in 1 .. Len(c) : t[i] = c[i]
  BY AppendFacts
<1>2. IsFiniteSet(I) /\ Cardinality(I) \in Nat BY CountType DEF Count
<1>3. Count(t, S) = Cardinality(J) /\ Count(c, S) = Cardinality(I) BY DEF Count
<1> HIDE DEF t
<1>4. CASE x \in S
  <2>1. J = I \cup {n} /\ n \notin I BY <1>1, <1>4
  <2> HIDE DEF I, J, n
  <2>2. Cardinality(I \cup {n}) = Cardinality(I) + 1 BY <1>2, <2>1, FS_AddElement
  <2> QED BY <1>3, <1>4, <2>1, <2>2 DEF t
<1>5. CASE x \notin S
  <2>1. J = I BY <1>1, <1>5
  <2> HIDE DEF I, J, n
  <2> QED BY <1>2, <1>3, <1>5, <2>1 DEF t
<1> QED BY <1>4, <1>5

LEMMA CountTail ==
  ASSUME NEW T, NEW c \in Seq(T), c # << >>, NEW S
  PROVE  Count(c, S) = Count(Tail(c), S) + IF Head(c) \in S THEN 1 ELSE 0
<1> DEFINE t == Tail(c)
           I == {i \in DOMAIN c : c[i] \in S}
           J == {j \in DOMAIN t : t[j] \in S}
           K == I \ {1}
           f == [j \in J |-> j + 1]
<1>1. /\ Head(c) = c[1] /\ Len(c) \in Nat /\ 1 \in 1 .. Len(c) /\ DOMAIN c = 1 .. Len(c)
      /\ t \in Seq(T) /\ DOMAIN t = 1 .. (Len(c) - 1) /\ \A i \in 1 .. (Len(c) - 1) : t[i] = c[i + 1]
  BY TailFacts
<1>2. IsFiniteSet(I) /\ Cardinality(I) \in Nat BY CountType DEF Count
<1>3. Count(t, S) = Cardinality(J) /\ Count(c, S) = Cardinality(I) BY DEF Count
<1>4. IsFiniteSet(J) BY <1>1, CountType
<1> HIDE DEF t
<1>5. \A j \in J : j \in Nat /\ j + 1 \in K BY <1>1
<1>6. \A i \in K : i \in Nat /\ i - 1 \in J /\ (i - 1) + 1 = i
  <2> TAKE i \in K
  <2>1. i \in Nat /\ i - 1 \in 1 .. (Len(c) - 1) /\ (i - 1) + 1 = i /\ c[i] \in S BY <1>1
  <2>2. t[i - 1] = c[i] BY <1>1, <2>1
  <2> QED BY <1>1, <2>1, <2>2
<1>7. f \in Bijection(J, K)
  <2> HIDE DEF J, K
  <2>1. f \in [J -> K] BY <1>5
  <2>2. \A a, b \in J : f[a] = f[b] => a = b BY <1>5
  <2>3. \A i \in K : \E j \in J : f[j] = i BY <1>6
  <2> QED BY <2>1, <2>2, <2>3 DEF Bijection, Injection, Surjection, IsInjective
<1>8. Cardinality(K) = Cardinality(J) BY <1>4, <1>7, FS_Bijection DEF ExistsBijection
<1>9. Cardinality(K) = IF 1 \in I THEN Cardinality(I) - 1 ELSE Cardinality(I) BY <1>2, FS_RemoveElement
<1>10. 1 \in I <=> Head(c) \in S BY <1>1
<1> HIDE DEF I, J, K
<1> QED BY <1>2, <1>3, <1>8, <1>9, <1>10 DEF t

LEMMA PaidType ==
  ASSUME NEW c \in Seq(Sent), NEW w \in Seq(Held), NEW l
  PROVE  /\ Count(c, PayingSent(l)) \in Nat /\ Count(w, PayingHeld) \in Nat /\ Paid(c, l, w) \in Nat
         /\ Paid(c, l, w) = Count(c, PayingSent(l)) + Count(w, PayingHeld)
<1> HIDE DEF PayingSent, PayingHeld
<1>1. Count(c, PayingSent(l)) \in Nat /\ Count(w, PayingHeld) \in Nat BY CountType
<1> QED BY <1>1 DEF Paid

LEMMA CountNone ==
  ASSUME NEW c, NEW S, \A i \in DOMAIN c : c[i] \notin S
  PROVE  Count(c, S) = 0
<1>1. {i \in DOMAIN c : c[i] \in S} = {} OBVIOUS
<1> QED BY <1>1, FS_EmptySet DEF Count

LEMMA CountAlike ==
  ASSUME NEW c, NEW d, NEW S, DOMAIN c = DOMAIN d, \A i \in DOMAIN c : c[i] \in S <=> d[i] \in S
  PROVE  Count(c, S) = Count(d, S)
<1>1. {i \in DOMAIN c : c[i] \in S} = {i \in DOMAIN d : d[i] \in S} OBVIOUS
<1> QED BY <1>1 DEF Count

-----------------------------------------------------------------------------
(* What becomes of a line.                                                 *)

LEMMA PartsFacts ==
  ASSUME NEW item
  PROVE  \A x \in Parts(item) : x.frame = item.frame /\ x.idx \in item.next .. item.frame.frags
BY DEF Parts, Piece

(* The parts of a whole frame that is queued.                              *)
LEMMA ItemFacts ==
  ASSUME NEW f \in Frame
  PROVE  /\ Item(f) \in Held /\ Item(f).frame = f /\ Item(f).next = 1
         /\ f.frags \in Nat /\ 1 <= f.frags
         /\ \A x \in Parts(Item(f)) : x.frame = f /\ x.idx \in 1 .. f.frags
         /\ Piece(f, 1) \in Parts(Item(f)) /\ Piece(f, f.frags) \in Parts(Item(f))
<1>1. Item(f) \in Held /\ Item(f).frame = f /\ Item(f).next = 1 BY DEF Item, Held
<1>2. f.frags \in Nat /\ 1 <= f.frags BY ConnectionAssumption DEF Frame
<1>3. Parts(Item(f)) = {Piece(f, n) : n \in 1 .. f.frags} BY <1>1 DEF Parts
<1> QED BY <1>1, <1>2, <1>3 DEF Piece

LEMMA WaitingPut ==
  ASSUME NEW w \in Seq(Held), NEW f \in Frame
  PROVE  /\ Put(w, f) \in Seq(Held) /\ Len(w) \in Nat /\ DOMAIN w = 1 .. Len(w)
         /\ DOMAIN Put(w, f) = 1 .. (Len(w) + 1) /\ Put(w, f)[Len(w) + 1] = Item(f)
         /\ \A i \in 1 .. Len(w) : Put(w, f)[i] = w[i]
         /\ Waiting(Put(w, f)) = Waiting(w) \cup Parts(Item(f))
<1> DEFINE t == Put(w, f)
           x == Item(f)
<1>1. x \in Held BY ItemFacts
<1> HIDE DEF x
<1>2. /\ t \in Seq(Held) /\ Len(w) \in Nat /\ DOMAIN w = 1 .. Len(w)
      /\ DOMAIN t = 1 .. (Len(w) + 1) /\ t[Len(w) + 1] = x
      /\ \A i \in 1 .. Len(w) : t[i] = w[i]
  BY <1>1, AppendFacts DEF Put, x
<1> HIDE DEF t
<1>3. Waiting(t) = Waiting(w) \cup Parts(x)
  <2>1. ASSUME NEW y \in Waiting(t) PROVE y \in Waiting(w) \cup Parts(x)
    <3>1. PICK k \in DOMAIN t : y \in Parts(t[k]) BY DEF Waiting
    <3>2. k = Len(w) + 1 \/ k \in DOMAIN w BY <1>2
    <3> QED BY <1>2, <3>1, <3>2 DEF Waiting
  <2>2. ASSUME NEW y \in Waiting(w) PROVE y \in Waiting(t)
    <3>1. PICK k \in DOMAIN w : y \in Parts(w[k]) BY <2>2 DEF Waiting
    <3>2. k \in DOMAIN t /\ t[k] = w[k] BY <1>2
    <3> QED BY <3>1, <3>2 DEF Waiting
  <2>3. ASSUME NEW y \in Parts(x) PROVE y \in Waiting(t)
    <3>1. Len(w) + 1 \in DOMAIN t BY <1>2
    <3> QED BY <1>2, <3>1 DEF Waiting
  <2> QED BY <2>1, <2>2, <2>3
<1> QED BY <1>2, <1>3 DEF t, x

LEMMA PutLine ==
  ASSUME NEW c \in Seq(Sent), NEW w \in Seq(Held), NEW l, NEW f \in Frame, Tidy(c, l, w),
         \A x \in Parts(Item(f)) : Fine(l, x),
         \A x \in Line(c, l, w), y \in Parts(Item(f)) : Before(x, y)
  PROVE  /\ Tidy(c, l, Put(w, f))
         /\ Line(c, l, Put(w, f)) = Line(c, l, w) \cup Parts(Item(f))
         /\ Paid(c, l, Put(w, f)) = Paid(c, l, w) + IF Pays(f) THEN 1 ELSE 0
<1> DEFINE t == Put(w, f)
           n == Len(w)
<1>1. /\ t \in Seq(Held) /\ n \in Nat /\ DOMAIN w = 1 .. n /\ DOMAIN t = 1 .. (n + 1)
      /\ t[n + 1] = Item(f) /\ \A i \in 1 .. n : t[i] = w[i]
      /\ Waiting(t) = Waiting(w) \cup Parts(Item(f))
  BY WaitingPut
<1>2. Item(f) \in Held /\ Item(f).frame = f /\ Item(f).next = 1 /\ f.frags \in Nat /\ 1 <= f.frags BY ItemFacts
<1>3. Line(c, l, t) = Line(c, l, w) \cup Parts(Item(f)) BY <1>1 DEF Line
<1>4. Paid(c, l, t) = Paid(c, l, w) + IF Pays(f) THEN 1 ELSE 0
  <2>1. Count(t, PayingHeld) = Count(w, PayingHeld) + IF Item(f) \in PayingHeld THEN 1 ELSE 0
    BY <1>2, CountAppend DEF Put
  <2>2. Item(f) \in PayingHeld <=> Pays(f) BY <1>2 DEF PayingHeld
  <2> HIDE DEF t
  <2> QED BY <1>1, <2>1, <2>2, PaidType
<1> HIDE DEF t, n
<1>5. WellFormed(t)
  <2> SUFFICES ASSUME NEW k \in DOMAIN t
               PROVE  t[k].next \in 1 .. t[k].frame.frags /\ (t[k].next > 1 => k = 1)
    BY DEF WellFormed
  <2>1. CASE k = n + 1 BY <1>1, <1>2, <2>1
  <2>2. CASE k \in DOMAIN w BY <1>1, <2>2 DEF Tidy, WellFormed
  <2> QED BY <1>1, <2>1, <2>2
<1>6. Follow(c, l, t)
  <2>1. \A x \in Written(c, l), y \in Waiting(t) : Before(x, y)
    BY <1>1 DEF Tidy, Follow, Line
  <2>2. ASSUME NEW k \in DOMAIN t, NEW m \in DOMAIN t, k < m, NEW x \in Parts(t[k]), NEW y \in Parts(t[m])
        PROVE  Before(x, y)
    <3>1. k \in DOMAIN w /\ t[k] = w[k] BY <1>1, <2>2
    <3>2. CASE m \in DOMAIN w
      <4>1. t[m] = w[m] BY <1>1, <3>2
      <4> QED BY <2>2, <3>1, <3>2, <4>1 DEF Tidy, Follow
    <3>3. CASE m = n + 1
      <4>1. x \in Line(c, l, w) BY <3>1, <2>2 DEF Line, Waiting
      <4> QED BY <1>1, <2>2, <3>3, <4>1
    <3> QED BY <1>1, <3>2, <3>3
  <2> QED BY <2>1, <2>2 DEF Tidy, Follow
<1> QED BY <1>3, <1>4, <1>5, <1>6 DEF Tidy, t

(* A line whose queue is cut back to nothing, or to its unsent `open`.     *)
LEMMA CutLine ==
  ASSUME NEW c \in Seq(Sent), NEW w \in Seq(Held), NEW l, Tidy(c, l, w),
         NEW k \in {<< >>, Keep(w)}
  PROVE  /\ k \in Seq(Held) /\ Tidy(c, l, k) /\ Line(c, l, k) \subseteq Line(c, l, w)
         /\ Line(c, l, k) # {} \/ k = Keep(w) =>
               \A x \in Line(c, l, w) : IsFirst(x) => x \in Line(c, l, k)
         /\ (\E x \in Line(c, l, k) : x.frame.end /\ IsLast(x)) => Paid(c, l, k) = Paid(c, l, w)
<1>1. Len(w) \in Nat /\ DOMAIN w = 1 .. Len(w) /\ \A i \in 1 .. Len(w) : w[i] \in Held BY SeqFacts
<1>2. k = << >> \/ (k = <<w[1]>> /\ 1 \in DOMAIN w /\ w[1].next = 1 /\ w[1].frame.type = "open" /\ w[1] \in Held)
  <2>1. CASE HoldsUnsentOpen(w)
    <3>1. Head(w) = w[1] /\ 1 \in DOMAIN w BY <2>1, TailFacts DEF HoldsUnsentOpen
    <3> QED BY <1>1, <2>1, <3>1 DEF Keep, HoldsUnsentOpen
  <2>2. CASE ~HoldsUnsentOpen(w) BY <2>2 DEF Keep
  <2> QED BY <2>1, <2>2
<1>3. k \in Seq(Held) /\ DOMAIN k \subseteq {1} \cap DOMAIN w /\ \A i \in DOMAIN k : i = 1 /\ k[i] = w[i]
  <2>1. CASE k = << >> BY <2>1, EmptySeq
  <2>2. CASE k # << >>
    <3>1. k = <<w[1]>> /\ 1 \in DOMAIN w /\ w[1] \in Held BY <1>2, <2>2
    <3> DEFINE h == w[1]
    <3> HIDE DEF h
    <3>2. <<h>> \in Seq(Held) /\ DOMAIN <<h>> = {1} /\ <<h>>[1] = h BY <3>1 DEF h
    <3> QED BY <3>1, <3>2 DEF h
  <2> QED BY <2>1, <2>2
<1>4. \A x \in Waiting(k) : x \in Waiting(w) /\ 1 \in DOMAIN k /\ x \in Parts(w[1]) BY <1>3 DEF Waiting
<1>5. Line(c, l, k) \subseteq Line(c, l, w) BY <1>4 DEF Line
<1>6. Tidy(c, l, k)
  <2>1. WellFormed(k) BY <1>3 DEF Tidy, WellFormed
  <2>2. Follow(c, l, k)
    <3>1. \A x \in Written(c, l), y \in Waiting(k) : Before(x, y) BY <1>4 DEF Tidy, Follow
    <3>2. \A i, j \in DOMAIN k : ~(i < j)
      <4> TAKE i, j \in DOMAIN k
      <4>1. i = 1 /\ j = 1 BY <1>3
      <4> QED BY <4>1
    <3> QED BY <3>1, <3>2 DEF Tidy, Follow
  <2> QED BY <1>5, <2>1, <2>2 DEF Tidy
<1>7. ASSUME Line(c, l, k) # {} \/ k = Keep(w), NEW x \in Line(c, l, w), IsFirst(x)
      PROVE  x \in Line(c, l, k)
  <2>1. CASE x \in Written(c, l) BY <2>1 DEF Line
  <2>2. CASE x \in Waiting(w)
    <3>1. PICK m \in DOMAIN w : x \in Parts(w[m]) BY <2>2 DEF Waiting
    <3>2. w[m].frame.type = "open" /\ w[m].next = 1
      <4>1. w[m].next \in 1 .. w[m].frame.frags /\ w[m] \in Held BY <1>1 DEF Tidy, WellFormed
      <4>2. x.frame = w[m].frame /\ x.idx \in w[m].next .. w[m].frame.frags BY <3>1, PartsFacts
      <4> QED BY <1>7, <4>1, <4>2 DEF IsFirst, Held, Frame
    <3>3. m = 1
      <4> SUFFICES ASSUME m # 1 PROVE FALSE OBVIOUS
      <4>1. 1 \in DOMAIN w /\ 1 < m BY <1>1
      <4>2. w[1].next \in 1 .. w[1].frame.frags /\ w[1] \in Held BY <1>1, <4>1 DEF Tidy, WellFormed
      <4>3. w[1].frame.frags \in Nat /\ w[1].next \in Nat BY <4>2, ConnectionAssumption DEF Held, Frame
      <4>8. w[1].next \in w[1].next .. w[1].frame.frags BY <4>2, <4>3
      <4>9. Piece(w[1].frame, w[1].next) \in Parts(w[1]) BY <4>8 DEF Parts
      <4>4. Before(Piece(w[1].frame, w[1].next), x) BY <3>1, <4>1, <4>9 DEF Tidy, Follow
      <4> QED BY <1>7, <4>2, <4>4 DEF Before, Piece, IsFirst, Held, Frame
    <3>4. Head(w) = w[1] /\ w # << >> BY <3>1, <3>3, <1>1, TailFacts
    <3>5. HoldsUnsentOpen(w) BY <3>2, <3>3, <3>4 DEF HoldsUnsentOpen
    <3>6. CASE k = Keep(w)
      <4>1. k = <<w[1]>> BY <3>4, <3>5, <3>6 DEF Keep
      <4>2. 1 \in DOMAIN k BY <4>1
      <4>3. k[1] = w[1] BY <1>3, <4>2
      <4> QED BY <3>1, <3>3, <4>2, <4>3 DEF Waiting, Line
    <3>7. CASE k # Keep(w)
      <4>1. k = << >> BY <3>7
      <4>2. Waiting(k) = {} BY <4>1 DEF Waiting
      <4>3. PICK y \in Written(c, l) : TRUE BY <1>7, <3>7, <4>2 DEF Line
      <4>4. Before(y, x) BY <2>2 DEF Tidy, Follow
      <4>5. Fine(l, y) BY DEF Tidy, Line
      <4> QED BY <1>7, <4>4, <4>5 DEF Before, IsFirst, Fine, Frame
    <3> QED BY <3>6, <3>7
  <2> QED BY <2>1, <2>2 DEF Line
<1>8. ASSUME NEW x \in Line(c, l, k), x.frame.end, IsLast(x) PROVE Paid(c, l, k) = Paid(c, l, w)
  <2>1. ASSUME NEW m \in DOMAIN w, w[m] \in PayingHeld PROVE FALSE
    <3>1. w[m].frame.type = "data" /\ w[m].next \in 1 .. w[m].frame.frags /\ w[m] \in Held
      BY <2>1 DEF PayingHeld, Pays, Tidy, WellFormed
    <3>2. Piece(w[m].frame, w[m].next) \in Parts(w[m]) BY <3>1 DEF Parts, Held, Frame
    <3>3. CASE x \in Written(c, l)
      <4>1. Before(x, Piece(w[m].frame, w[m].next)) BY <3>2, <3>3 DEF Tidy, Follow, Waiting
      <4> QED BY <1>8, <3>1, <4>1 DEF Before, Piece
    <3>4. CASE x \in Waiting(k)
      <4>1. 1 \in DOMAIN k /\ x \in Parts(w[1]) BY <1>4, <3>4
      <4>2. k # << >> BY <4>1
      <4>3. w[1].frame.type = "open" /\ 1 \in DOMAIN w BY <1>2, <4>2
      <4>4. m # 1 /\ 1 < m BY <1>1, <3>1, <4>3
      <4>5. Before(x, Piece(w[m].frame, w[m].next)) BY <3>2, <4>1, <4>3, <4>4 DEF Tidy, Follow
      <4> QED BY <1>8, <3>1, <4>5 DEF Before, Piece
    <3> QED BY <3>3, <3>4 DEF Line
  <2>2. Count(w, PayingHeld) = 0 BY <2>1, CountNone
  <2>3. Count(k, PayingHeld) = 0 BY <1>3, <2>1, CountNone
  <2> QED BY <2>2, <2>3 DEF Paid
<1> QED BY <1>3, <1>5, <1>6, <1>7, <1>8

LEMMA WrittenTail ==
  ASSUME NEW c \in Seq(Sent), c # << >>, NEW l
  PROVE  Written(c, l) = Written(Tail(c), l) \cup
            (IF Head(c).lane = l THEN {Piece(Head(c).frame, Head(c).idx)} ELSE {})
<1> DEFINE t == Tail(c)
<1>1. /\ Head(c) = c[1] /\ Len(c) \in Nat /\ 1 \in 1 .. Len(c) /\ DOMAIN c = 1 .. Len(c)
      /\ DOMAIN t = 1 .. (Len(c) - 1) /\ \A i \in 1 .. (Len(c) - 1) : t[i] = c[i + 1]
  BY TailFacts
<1> HIDE DEF t
<1>2. ASSUME NEW x \in Written(c, l)
      PROVE  x \in Written(t, l) \/ (c[1].lane = l /\ x = Piece(c[1].frame, c[1].idx))
  <2>1. PICK i \in DOMAIN c : c[i].lane = l /\ x = Piece(c[i].frame, c[i].idx) BY DEF Written
  <2>2. CASE i = 1 BY <2>1, <2>2
  <2>3. CASE i # 1
    <3>1. i - 1 \in DOMAIN t /\ t[i - 1] = c[i]
      <4>1. i - 1 \in 1 .. (Len(c) - 1) /\ (i - 1) + 1 = i BY <1>1, <2>3
      <4> QED BY <1>1, <4>1
    <3>2. x \in {Piece(t[j].frame, t[j].idx) : j \in {k \in DOMAIN t : t[k].lane = l}} BY <2>1, <3>1
    <3> QED BY <3>2 DEF Written
  <2> QED BY <2>2, <2>3
<1>3. ASSUME NEW x \in Written(t, l) PROVE x \in Written(c, l)
  <2>1. PICK i \in DOMAIN t : t[i].lane = l /\ x = Piece(t[i].frame, t[i].idx) BY <1>3 DEF Written
  <2>2. i + 1 \in DOMAIN c /\ c[i + 1] = t[i] BY <1>1
  <2> QED BY <2>1, <2>2 DEF Written
<1>4. c[1].lane = l => Piece(c[1].frame, c[1].idx) \in Written(c, l) BY <1>1 DEF Written
<1> QED BY <1>1, <1>2, <1>3, <1>4 DEF t

LEMMA WrittenAppend ==
  ASSUME NEW c \in Seq(Sent), NEW e \in Sent, NEW l
  PROVE  Written(Append(c, e), l) = Written(c, l) \cup
            (IF e.lane = l THEN {Piece(e.frame, e.idx)} ELSE {})
<1> DEFINE t == Append(c, e)
           n == Len(c)
<1>1. /\ n \in Nat /\ DOMAIN c = 1 .. n /\ DOMAIN t = 1 .. (n + 1) /\ t[n + 1] = e
      /\ \A i \in 1 .. n : t[i] = c[i]
  BY AppendFacts
<1> HIDE DEF t, n
<1>2. ASSUME NEW x \in Written(t, l)
      PROVE  x \in Written(c, l) \/ (e.lane = l /\ x = Piece(e.frame, e.idx))
  <2>1. PICK i \in DOMAIN t : t[i].lane = l /\ x = Piece(t[i].frame, t[i].idx) BY DEF Written
  <2>2. CASE i = n + 1 BY <1>1, <2>1, <2>2
  <2>3. CASE i # n + 1
    <3>1. i \in DOMAIN c /\ t[i] = c[i] BY <1>1, <2>3
    <3> QED BY <2>1, <3>1 DEF Written
  <2> QED BY <2>2, <2>3
<1>3. ASSUME NEW x \in Written(c, l) PROVE x \in Written(t, l)
  <2>1. PICK i \in DOMAIN c : c[i].lane = l /\ x = Piece(c[i].frame, c[i].idx) BY <1>3 DEF Written
  <2>2. i \in DOMAIN t /\ t[i] = c[i] BY <1>1
  <2> QED BY <2>1, <2>2 DEF Written
<1>4. e.lane = l => Piece(e.frame, e.idx) \in Written(t, l)
  <2>1. n + 1 \in DOMAIN t BY <1>1
  <2> QED BY <1>1, <2>1 DEF Written
<1> QED BY <1>2, <1>3, <1>4 DEF t

(* The channel of a peer that reads no more.                               *)
LEMMA LostLine ==
  ASSUME NEW c, NEW w, NEW l, Tidy(c, l, w)
  PROVE  Tidy(<< >>, l, w) /\ Line(<< >>, l, w) \subseteq Line(c, l, w)
<1>1. Written(<< >>, l) = {} BY DEF Written
<1>2. Line(<< >>, l, w) \subseteq Line(c, l, w) BY <1>1 DEF Line
<1>3. Follow(<< >>, l, w) BY <1>1 DEF Tidy, Follow
<1> QED BY <1>2, <1>3 DEF Tidy

(* The head of the channel is read.                                        *)
LEMMA ReadLine ==
  ASSUME NEW c \in Seq(Sent), NEW w \in Seq(Held), NEW l, c # << >>, Tidy(c, l, w),
         NEW x, x = Piece(Head(c).frame, Head(c).idx)
  PROVE  /\ Tidy(Tail(c), l, w)
         /\ Head(c).lane # l =>
               Line(Tail(c), l, w) = Line(c, l, w) /\ Paid(Tail(c), l, w) = Paid(c, l, w)
         /\ Head(c).lane = l =>
               /\ Line(c, l, w) = Line(Tail(c), l, w) \cup {x}
               /\ \A y \in Line(Tail(c), l, w) : Before(x, y)
               /\ Paid(c, l, w) = Paid(Tail(c), l, w) + IF Pays(x.frame) THEN 1 ELSE 0
<1> DEFINE t == Tail(c)
<1>1. /\ Head(c) = c[1] /\ Len(c) \in Nat /\ 1 \in 1 .. Len(c) /\ DOMAIN c = 1 .. Len(c) /\ t \in Seq(Sent)
      /\ DOMAIN t = 1 .. (Len(c) - 1) /\ \A i \in 1 .. (Len(c) - 1) : t[i] = c[i + 1]
  BY TailFacts
<1>2. Written(c, l) = Written(t, l) \cup (IF Head(c).lane = l THEN {x} ELSE {}) BY WrittenTail
<1>3. Paid(c, l, w) = Paid(t, l, w) + IF Head(c).lane = l /\ Pays(x.frame) THEN 1 ELSE 0
  <2>1. Count(c, PayingSent(l)) = Count(t, PayingSent(l)) + IF Head(c) \in PayingSent(l) THEN 1 ELSE 0
    BY CountTail
  <2>2. Head(c) \in Sent /\ x.frame = Head(c).frame BY <1>1, SeqFacts DEF Piece
  <2>3. Head(c) \in PayingSent(l) <=> Head(c).lane = l /\ Pays(x.frame) BY <2>2 DEF PayingSent
  <2> HIDE DEF t
  <2> QED BY <1>1, <2>1, <2>3, PaidType
<1> HIDE DEF t
<1>4. Line(c, l, w) = Line(t, l, w) \cup (IF Head(c).lane = l THEN {x} ELSE {}) BY <1>2 DEF Line
<1>5. Follow(t, l, w)
  <2>1. ASSUME NEW i \in DOMAIN t, NEW j \in DOMAIN t, i < j, t[i].lane = l, t[j].lane = l
        PROVE  Before(Piece(t[i].frame, t[i].idx), Piece(t[j].frame, t[j].idx))
    <3>1. /\ i + 1 \in DOMAIN c /\ j + 1 \in DOMAIN c /\ i + 1 < j + 1
          /\ t[i] = c[i + 1] /\ t[j] = c[j + 1]
      BY <1>1, <2>1
    <3> QED BY <2>1, <3>1 DEF Tidy, Follow
  <2>2. \A z \in Written(t, l), y \in Waiting(w) : Before(z, y) BY <1>2 DEF Tidy, Follow
  <2> QED BY <2>1, <2>2 DEF Tidy, Follow
<1>6. Tidy(t, l, w) BY <1>4, <1>5 DEF Tidy
<1>7. ASSUME Head(c).lane = l, NEW y \in Line(t, l, w) PROVE Before(x, y)
  <2>1. CASE y \in Written(t, l)
    <3>1. PICK j \in DOMAIN t : t[j].lane = l /\ y = Piece(t[j].frame, t[j].idx) BY <2>1 DEF Written
    <3>2. j + 1 \in DOMAIN c /\ 1 < j + 1 /\ t[j] = c[j + 1] /\ 1 \in DOMAIN c BY <1>1
    <3> QED BY <1>1, <1>7, <3>1, <3>2 DEF Tidy, Follow
  <2>2. CASE y \in Waiting(w)
    <3>1. x \in Written(c, l) BY <1>2, <1>7
    <3> QED BY <2>2, <3>1 DEF Tidy, Follow
  <2> QED BY <2>1, <2>2 DEF Line
<1>8. Paid(t, l, w) \in Nat BY <1>1, PaidType
<1>9. Head(c).lane # l => Line(t, l, w) = Line(c, l, w) /\ Paid(t, l, w) = Paid(c, l, w) BY <1>3, <1>4, <1>8
<1>10. Head(c).lane = l => /\ Line(c, l, w) = Line(t, l, w) \cup {x}
                          /\ Paid(c, l, w) = Paid(t, l, w) + IF Pays(x.frame) THEN 1 ELSE 0
  BY <1>3, <1>4
<1> QED BY <1>6, <1>7, <1>9, <1>10 DEF t

(* A fragment of another lane is written.                                  *)
LEMMA WriteOther ==
  ASSUME NEW c \in Seq(Sent), NEW w \in Seq(Held), NEW l, NEW e \in Sent, e.lane # l, Tidy(c, l, w)
  PROVE  /\ Tidy(Append(c, e), l, w) /\ Line(Append(c, e), l, w) = Line(c, l, w)
         /\ Paid(Append(c, e), l, w) = Paid(c, l, w)
<1> DEFINE t == Append(c, e)
           n == Len(c)
<1>1. /\ t \in Seq(Sent) /\ n \in Nat /\ DOMAIN c = 1 .. n /\ DOMAIN t = 1 .. (n + 1) /\ t[n + 1] = e
      /\ \A i \in 1 .. n : t[i] = c[i]
  BY AppendFacts
<1>2. Written(t, l) = Written(c, l)
  <2>1. Written(t, l) = Written(c, l) \cup (IF e.lane = l THEN {Piece(e.frame, e.idx)} ELSE {})
    BY WrittenAppend
  <2> QED BY <2>1
<1>3. Paid(t, l, w) = Paid(c, l, w)
  <2>1. Count(t, PayingSent(l)) = Count(c, PayingSent(l)) + IF e \in PayingSent(l) THEN 1 ELSE 0
    BY CountAppend
  <2>2. e \notin PayingSent(l) BY DEF PayingSent
  <2> HIDE DEF t
  <2> QED BY <1>1, <2>1, <2>2, PaidType
<1> HIDE DEF t, n
<1>4. Line(t, l, w) = Line(c, l, w) BY <1>2 DEF Line
<1>5. Follow(t, l, w)
  <2>1. ASSUME NEW i \in DOMAIN t, NEW j \in DOMAIN t, i < j, t[i].lane = l, t[j].lane = l
        PROVE  Before(Piece(t[i].frame, t[i].idx), Piece(t[j].frame, t[j].idx))
    <3>1. i # n + 1 /\ j # n + 1 BY <1>1, <2>1
    <3>2. i \in DOMAIN c /\ j \in DOMAIN c /\ t[i] = c[i] /\ t[j] = c[j] BY <1>1, <3>1
    <3> QED BY <2>1, <3>2 DEF Tidy, Follow
  <2> QED BY <1>2, <2>1 DEF Tidy, Follow
<1> QED BY <1>3, <1>4, <1>5 DEF Tidy, t

(* The next fragment of the lane itself is written: the line is as it was. *)
LEMMA WaitingRest ==
  ASSUME NEW w \in Seq(Held), w # << >>, WellFormed(w),
         NEW x, x = Piece(First(w).frame, First(w).idx)
  PROVE  /\ Rest(w) \in Seq(Held) /\ WellFormed(Rest(w)) /\ x \in Parts(w[1]) /\ 1 \in DOMAIN w
         /\ Waiting(w) = Waiting(Rest(w)) \cup {x}
         /\ \A k \in DOMAIN Rest(w) :
               \/ k + 1 \in DOMAIN w /\ Rest(w)[k] = w[k + 1] /\ w[1].next = w[1].frame.frags
               \/ k \in DOMAIN w /\ k # 1 /\ Rest(w)[k] = w[k] /\ w[1].next < w[1].frame.frags
               \/ /\ k = 1 /\ w[1].next < w[1].frame.frags
                  /\ \A y \in Parts(Rest(w)[1]) : y \in Parts(w[1]) /\ y.frame = x.frame /\ y.idx > x.idx
<1>1. /\ Head(w) = w[1] /\ Len(w) \in Nat /\ 1 \in 1 .. Len(w) /\ DOMAIN w = 1 .. Len(w)
      /\ \A i \in 1 .. Len(w) : w[i] \in Held
  BY TailFacts, SeqFacts
<1> DEFINE h == w[1]
<1>2. h \in Held /\ h.next \in Nat /\ h.frame.frags \in Nat /\ 1 <= h.next /\ h.next <= h.frame.frags
  <2>1. h \in Held BY <1>1
  <2>2. h.next \in Nat /\ h.frame \in Frame BY <2>1 DEF Held
  <2>3. h.frame.frags \in Nat BY <2>2, ConnectionAssumption DEF Frame
  <2>4. h.next \in 1 .. h.frame.frags BY <1>1 DEF WellFormed
  <2> QED BY <2>1, <2>2, <2>3, <2>4
<1>3. x = Piece(h.frame, h.next) /\ x \in Parts(h) BY <1>1, <1>2 DEF First, Parts, Piece
<1>4. Rest(w) \in Seq(Held) BY LaneFacts
<1>5. CASE h.next = h.frame.frags
  <2> DEFINE t == Tail(w)
  <2>1. Rest(w) = t BY <1>1, <1>5 DEF Rest
  <2>2. DOMAIN t = 1 .. (Len(w) - 1) /\ \A i \in 1 .. (Len(w) - 1) : t[i] = w[i + 1] BY TailFacts
  <2> HIDE DEF t
  <2>3. Parts(h) = {x}
    <3>1. h.next .. h.frame.frags = {h.next} BY <1>2, <1>5
    <3> QED BY <1>3, <3>1 DEF Parts
  <2>4. \A k \in DOMAIN t : k + 1 \in DOMAIN w /\ t[k] = w[k + 1] BY <1>1, <2>2
  <2>5. WellFormed(t)
    <3> SUFFICES ASSUME NEW k \in DOMAIN t
                 PROVE  t[k].next \in 1 .. t[k].frame.frags /\ ~(t[k].next > 1)
      BY DEF WellFormed
    <3>1. k + 1 # 1 BY <2>2
    <3> QED BY <2>4, <3>1 DEF WellFormed
  <2>6. Waiting(w) = Waiting(t) \cup {x}
    <3>1. ASSUME NEW y \in Waiting(w) PROVE y \in Waiting(t) \cup {x}
      <4>1. PICK k \in DOMAIN w : y \in Parts(w[k]) BY <3>1 DEF Waiting
      <4>2. CASE k = 1 BY <2>3, <4>1, <4>2
      <4>3. CASE k # 1
        <5>1. k - 1 \in DOMAIN t /\ (k - 1) + 1 = k BY <1>1, <2>2, <4>3
        <5>2. t[k - 1] = w[k] BY <2>4, <5>1
        <5> QED BY <4>1, <5>1, <5>2 DEF Waiting
      <4> QED BY <4>2, <4>3
    <3>2. \A y \in Waiting(t) : y \in Waiting(w) BY <2>4 DEF Waiting
    <3>3. x \in Waiting(w) BY <1>1, <1>3 DEF Waiting
    <3> QED BY <3>1, <3>2, <3>3
  <2> QED BY <1>1, <1>3, <1>4, <1>5, <2>1, <2>4, <2>5, <2>6
<1>6. CASE h.next # h.frame.frags
  <2> DEFINE g == [h EXCEPT !.next = @ + 1]
             t == [w EXCEPT ![1] = g]
  <2>1. Rest(w) = t BY <1>1, <1>6 DEF Rest
  <2>2. g \in Held /\ g.frame = h.frame /\ g.next = h.next + 1 BY <1>2 DEF Held
  <2> HIDE DEF g
  <2>3. DOMAIN t = DOMAIN w /\ t[1] = g /\ \A i \in DOMAIN w : i # 1 => t[i] = w[i] BY <1>1
  <2> HIDE DEF t
  <2>4. \A y \in Parts(g) : y \in Parts(h) /\ y.frame = x.frame /\ y.idx > x.idx
    BY <1>2, <1>3, <2>2 DEF Parts, Piece
  <2>5. \A y \in Parts(h) : y = x \/ y \in Parts(g)
    <3> TAKE y \in Parts(h)
    <3>1. PICK n \in h.next .. h.frame.frags : y = Piece(h.frame, n) BY DEF Parts
    <3>2. n = h.next \/ n \in g.next .. g.frame.frags BY <1>2, <2>2, <3>1
    <3> QED BY <1>3, <2>2, <3>1, <3>2 DEF Parts
  <2>6. WellFormed(t)
    <3> SUFFICES ASSUME NEW k \in DOMAIN t
                 PROVE  t[k].next \in 1 .. t[k].frame.frags /\ (t[k].next > 1 => k = 1)
      BY DEF WellFormed
    <3>1. CASE k = 1 BY <1>2, <1>6, <2>2, <2>3, <3>1
    <3>2. CASE k # 1 BY <2>3, <3>2 DEF WellFormed
    <3> QED BY <3>1, <3>2
  <2>7. Waiting(w) = Waiting(t) \cup {x}
    <3>1. ASSUME NEW y \in Waiting(w) PROVE y \in Waiting(t) \cup {x}
      <4>1. PICK k \in DOMAIN w : y \in Parts(w[k]) BY <3>1 DEF Waiting
      <4>2. CASE k = 1 BY <2>3, <2>5, <4>1, <4>2 DEF Waiting
      <4>3. CASE k # 1 BY <2>3, <4>1, <4>3 DEF Waiting
      <4> QED BY <4>2, <4>3
    <3>2. ASSUME NEW y \in Waiting(t) PROVE y \in Waiting(w)
      <4>1. PICK k \in DOMAIN t : y \in Parts(t[k]) BY <3>2 DEF Waiting
      <4>2. CASE k = 1 BY <2>3, <2>4, <4>1, <4>2 DEF Waiting
      <4>3. CASE k # 1 BY <2>3, <4>1, <4>3 DEF Waiting
      <4> QED BY <4>2, <4>3
    <3>3. x \in Waiting(w) BY <1>1, <1>3 DEF Waiting
    <3> QED BY <3>1, <3>2, <3>3
  <2>8. h.next < h.frame.frags BY <1>2, <1>6
  <2> QED BY <1>1, <1>3, <1>4, <2>1, <2>3, <2>4, <2>6, <2>7, <2>8
<1> QED BY <1>5, <1>6

LEMMA WriteLine ==
  ASSUME NEW c \in Seq(Sent), NEW w \in Seq(Held), NEW l \in Lanes, w # << >>, Tidy(c, l, w),
         NEW e \in Sent, e.lane = l, e.frame = First(w).frame, e.idx = First(w).idx
  PROVE  /\ Tidy(Append(c, e), l, Rest(w)) /\ Line(Append(c, e), l, Rest(w)) = Line(c, l, w)
         /\ Paid(Append(c, e), l, Rest(w)) = Paid(c, l, w)
<1> DEFINE t == Append(c, e)
           n == Len(c)
           v == Rest(w)
           x == Piece(e.frame, e.idx)
<1>1. /\ t \in Seq(Sent) /\ n \in Nat /\ DOMAIN c = 1 .. n /\ DOMAIN t = 1 .. (n + 1) /\ t[n + 1] = e
      /\ \A i \in 1 .. n : t[i] = c[i]
  BY AppendFacts
<1>2. Written(t, l) = Written(c, l) \cup {x} BY WrittenAppend
<1>3. /\ v \in Seq(Held) /\ WellFormed(v) /\ x \in Parts(w[1]) /\ 1 \in DOMAIN w
      /\ Waiting(w) = Waiting(v) \cup {x}
      /\ \A k \in DOMAIN v :
            \/ k + 1 \in DOMAIN w /\ v[k] = w[k + 1] /\ w[1].next = w[1].frame.frags
            \/ k \in DOMAIN w /\ k # 1 /\ v[k] = w[k] /\ w[1].next < w[1].frame.frags
            \/ /\ k = 1 /\ w[1].next < w[1].frame.frags
               /\ \A y \in Parts(v[1]) : y \in Parts(w[1]) /\ y.frame = x.frame /\ y.idx > x.idx
  BY WaitingRest DEF Tidy
<1>4. Line(t, l, v) = Line(c, l, w) BY <1>2, <1>3 DEF Line
<1>5. x \in Line(c, l, w) /\ x \in Waiting(w) BY <1>3 DEF Line
<1>6. Fine(l, x) BY <1>5 DEF Tidy
<1>7. Len(w) \in Nat /\ DOMAIN w = 1 .. Len(w) /\ w[1] \in Held /\ Head(w) = w[1] /\ DOMAIN v \subseteq Nat
  <2>1. DOMAIN v = 1 .. Len(v) /\ Len(v) \in Nat BY <1>3, SeqFacts
  <2> HIDE DEF v
  <2> QED BY <1>3, <2>1, SeqFacts, TailFacts
<1>8. x.frame = w[1].frame /\ x.idx = w[1].next BY <1>7 DEF First, Piece
<1>9. Paid(t, l, v) = Paid(c, l, w)
  <2>1. Count(t, PayingSent(l)) = Count(c, PayingSent(l)) + IF e \in PayingSent(l) THEN 1 ELSE 0
    BY CountAppend
  <2>2. e \in PayingSent(l) <=> Pays(x.frame) BY DEF PayingSent, Piece
  <2>3. w[1] \in PayingHeld <=> Pays(x.frame) BY <1>7, <1>8 DEF PayingHeld
  <2>4. Count(w, PayingHeld) = Count(v, PayingHeld) + IF Pays(x.frame) THEN 1 ELSE 0
    <3>1. CASE w[1].next = w[1].frame.frags
      <4>1. v = Tail(w) BY <1>7, <3>1 DEF Rest
      <4> HIDE DEF v
      <4> QED BY <1>7, <2>3, <4>1, CountTail
    <3>2. CASE w[1].next # w[1].frame.frags
      <4>1. ~Pays(x.frame) /\ w[1].next \in 1 .. w[1].frame.frags
        <5>1. w[1].next \in 1 .. w[1].frame.frags BY <1>3 DEF Tidy, WellFormed
        <5>2. w[1].frame.frags # 1 BY <3>2, <5>1
        <5>3. x.frame.type = "open" BY <1>6, <1>8, <5>2 DEF Fine
        <5> QED BY <5>1, <5>3 DEF Pays
      <4> DEFINE g == [w[1] EXCEPT !.next = @ + 1]
      <4>2. v = [w EXCEPT ![1] = g] BY <1>7, <3>2 DEF Rest
      <4>3. g.frame = w[1].frame BY <1>7 DEF Held
      <4>4. g \notin PayingHeld /\ w[1] \notin PayingHeld BY <1>8, <2>3, <4>1, <4>3 DEF PayingHeld
      <4> HIDE DEF g, v
      <4>5. DOMAIN v = DOMAIN w /\ \A i \in DOMAIN w : v[i] = IF i = 1 THEN g ELSE w[i] BY <1>7, <4>2
      <4>6. Count(w, PayingHeld) = Count(v, PayingHeld)
        <5>1. \A i \in DOMAIN w : w[i] \in PayingHeld <=> v[i] \in PayingHeld BY <4>4, <4>5
        <5> QED BY <4>5, <5>1, CountAlike
      <4>7. Count(v, PayingHeld) \in Nat BY <1>3, CountType
      <4> HIDE DEF x
      <4> QED BY <4>1, <4>6, <4>7
    <3> QED BY <3>1, <3>2
  <2> HIDE DEF t, v
  <2> QED BY <1>1, <1>3, <2>1, <2>2, <2>4, PaidType
<1> HIDE DEF t, n, v, x
<1>10. Follow(t, l, v)
  <2>1. ASSUME NEW i \in DOMAIN t, NEW j \in DOMAIN t, i < j, t[i].lane = l, t[j].lane = l
        PROVE  Before(Piece(t[i].frame, t[i].idx), Piece(t[j].frame, t[j].idx))
    <3>1. i \in DOMAIN c /\ t[i] = c[i] BY <1>1, <2>1
    <3>2. CASE j \in DOMAIN c
      <4>1. t[j] = c[j] BY <1>1, <3>2
      <4> QED BY <2>1, <3>1, <3>2, <4>1 DEF Tidy, Follow
    <3>3. CASE j = n + 1
      <4>1. Piece(c[i].frame, c[i].idx) \in Written(c, l) BY <2>1, <3>1 DEF Written
      <4> QED BY <1>1, <1>5, <3>1, <3>3, <4>1 DEF Tidy, Follow, x
    <3> QED BY <1>1, <3>2, <3>3
  <2>2. ASSUME NEW y \in Waiting(v) PROVE Before(x, y)
    <3>1. PICK k \in DOMAIN v : y \in Parts(v[k]) BY <2>2 DEF Waiting
    <3>2. ASSUME NEW m \in DOMAIN w, m > 1, y \in Parts(w[m]) PROVE Before(x, y)
      <4>1. 1 < m BY <1>7, <3>2
      <4> QED BY <1>3, <3>2, <4>1 DEF Tidy, Follow
    <3>3. CASE k + 1 \in DOMAIN w /\ v[k] = w[k + 1]
      <4>1. k + 1 > 1
        <5>1. k \in Nat /\ k >= 1
          <6>1. DOMAIN v = 1 .. Len(v) /\ Len(v) \in Nat BY <1>3, SeqFacts
          <6> QED BY <6>1
        <5> QED BY <5>1
      <4> QED BY <3>1, <3>2, <3>3, <4>1
    <3>4. CASE k \in DOMAIN w /\ k # 1 /\ v[k] = w[k]
      <4>1. k > 1 BY <1>7, <3>4
      <4> QED BY <3>1, <3>2, <3>4, <4>1
    <3>5. CASE k = 1 /\ w[1].next < w[1].frame.frags /\ y \in Parts(w[1]) /\ y.frame = x.frame /\ y.idx > x.idx
      <4>1. Fine(l, y) BY <2>2, <1>3 DEF Tidy, Line
      <4>2. x.idx \in Nat /\ y.idx \in Nat /\ x.frame.frags \in Nat /\ x.idx >= 1
        BY <1>6, <3>5, <4>1, ConnectionAssumption DEF Fine, Frame
      <4>3. x.frame.frags # 1 BY <1>8, <3>5, <4>2
      <4>4. x.frame.type = "open" BY <1>6, <4>3 DEF Fine
      <4> QED BY <3>5, <4>2, <4>4 DEF Before
    <3> QED BY <1>3, <3>1, <3>3, <3>4, <3>5
  <2>3. \A z \in Written(t, l), y \in Waiting(v) : Before(z, y)
    <3> TAKE z \in Written(t, l), y \in Waiting(v)
    <3>1. CASE z \in Written(c, l) BY <1>3, <3>1 DEF Tidy, Follow
    <3>2. CASE z = x BY <2>2, <3>2
    <3> QED BY <1>2, <3>1, <3>2
  <2>4. ASSUME NEW k \in DOMAIN v, NEW m \in DOMAIN v, k < m, NEW y \in Parts(v[k]), NEW z \in Parts(v[m])
        PROVE  Before(y, z)
    <3>1. k \in Nat /\ m \in Nat /\ k >= 1
      <4>1. DOMAIN v = 1 .. Len(v) /\ Len(v) \in Nat BY <1>3, SeqFacts
      <4> QED BY <4>1
    <3>2. CASE w[1].next = w[1].frame.frags
      <4>1. ~(w[1].next < w[1].frame.frags)
        <5>1. w[1].next \in Nat BY <1>7 DEF Held
        <5> QED BY <3>2, <5>1
      <4>2. /\ k + 1 \in DOMAIN w /\ v[k] = w[k + 1] /\ m + 1 \in DOMAIN w /\ v[m] = w[m + 1]
            /\ k + 1 < m + 1
        BY <1>3, <2>4, <3>1, <4>1
      <4> QED BY <2>4, <4>2 DEF Tidy, Follow
    <3>3. CASE w[1].next # w[1].frame.frags
      <4>1. m # 1 BY <2>4, <3>1
      <4>2. m \in DOMAIN w /\ z \in Parts(w[m]) BY <1>3, <2>4, <3>3, <4>1
      <4>3. k \in DOMAIN w /\ y \in Parts(w[k]) BY <1>3, <2>4, <3>3
      <4> QED BY <2>4, <4>2, <4>3 DEF Tidy, Follow
    <3> QED BY <3>2, <3>3
  <2> QED BY <2>1, <2>3, <2>4 DEF Follow
<1> QED BY <1>3, <1>4, <1>9, <1>10 DEF Tidy, t, v

-----------------------------------------------------------------------------
(* What a step does to the line of stream s from q: it leaves it alone,    *)
(* shortens it, adds a frame, ends it with a reset, or takes its first     *)
(* fragment.                                                               *)
InOrder(q, l) == Tidy(chan[q], l, out[q][l])

Kept(q, s) ==
    /\ InOrder(q, s)'
    /\ AnyOn(q, s)' <=> AnyOn(q, s)
    /\ OpenOn(q, s)' <=> OpenOn(q, s)
    /\ FirstOn(q, s)' <=> FirstOn(q, s)
    /\ LastOn(q, s)' <=> LastOn(q, s)
    /\ DataOn(q, s)' <=> DataOn(q, s)
    /\ ResetOn(q, s)' <=> ResetOn(q, s)
    /\ EndsOn(q, s)' <=> EndsOn(q, s)
    /\ EndOn(q, s)' <=> EndOn(q, s)
    /\ PaidOn(q, s)' = PaidOn(q, s)

Fewer(q, s) ==
    /\ InOrder(q, s)'
    /\ AnyOn(q, s)' => AnyOn(q, s)
    /\ OpenOn(q, s)' => OpenOn(q, s)
    /\ FirstOn(q, s)' => FirstOn(q, s)
    /\ LastOn(q, s)' => LastOn(q, s)
    /\ DataOn(q, s)' => DataOn(q, s)
    /\ ResetOn(q, s)' => ResetOn(q, s)
    /\ EndsOn(q, s)' => EndsOn(q, s)
    /\ EndOn(q, s)' => EndOn(q, s)

Dropped(q, s) ==
    /\ Fewer(q, s)
    /\ FirstOn(q, s)' <=> FirstOn(q, s)
    /\ EndOn(q, s)' => PaidOn(q, s)' = PaidOn(q, s)

Broken(q, s) ==
    /\ Fewer(q, s)
    /\ FirstOn(q, s) /\ AnyOn(q, s)' => FirstOn(q, s)'
    /\ EndOn(q, s)' => PaidOn(q, s)' = PaidOn(q, s)

Grown(q, s, f) ==
    /\ InOrder(q, s)' /\ AnyOn(q, s)'
    /\ OpenOn(q, s)' <=> OpenOn(q, s) \/ f.type = "open"
    /\ FirstOn(q, s)' <=> FirstOn(q, s) \/ f.type = "open"
    /\ LastOn(q, s)' <=> LastOn(q, s) \/ f.type = "open"
    /\ DataOn(q, s)' <=> DataOn(q, s) \/ f.type = "data"
    /\ ResetOn(q, s)' <=> ResetOn(q, s)
    /\ EndsOn(q, s)' <=> EndsOn(q, s) \/ f.end
    /\ EndOn(q, s)' <=> EndOn(q, s) \/ f.end
    /\ PaidOn(q, s)' = PaidOn(q, s) + IF Pays(f) THEN 1 ELSE 0

Struck(q, s) ==
    /\ InOrder(q, s)' /\ AnyOn(q, s)' /\ ResetOn(q, s)'
    /\ OpenOn(q, s)' => OpenOn(q, s)
    /\ FirstOn(q, s)' <=> FirstOn(q, s)
    /\ DataOn(q, s)' => DataOn(q, s)
    /\ EndsOn(q, s)' => EndsOn(q, s)
    /\ EndOn(q, s)' => EndOn(q, s) /\ PaidOn(q, s)' = PaidOn(q, s)

Taken(q, s, x) ==
    /\ Fewer(q, s) /\ AnyOn(q, s) /\ PaidOn(q, s)' \in Nat
    /\ x.frame.type = "open" =>
          /\ OpenOn(q, s) /\ ~FirstOn(q, s)' /\ (FirstOn(q, s) <=> x.idx = 1)
          /\ IF IsLast(x) THEN LastOn(q, s) /\ ~OpenOn(q, s)' /\ ~LastOn(q, s)'
                          ELSE LastOn(q, s)' <=> LastOn(q, s)
          /\ DataOn(q, s)' <=> DataOn(q, s)
          /\ ResetOn(q, s)' <=> ResetOn(q, s)
          /\ PaidOn(q, s)' = PaidOn(q, s)
    /\ x.frame.type = "data" =>
          /\ DataOn(q, s) /\ ~OpenOn(q, s) /\ ~FirstOn(q, s) /\ ~LastOn(q, s)
          /\ ResetOn(q, s)' <=> ResetOn(q, s)
          /\ PaidOn(q, s) = PaidOn(q, s)' + IF x.frame.payload THEN 1 ELSE 0
    /\ x.frame.type = "reset" =>
          /\ ResetOn(q, s) /\ ~FirstOn(q, s) /\ ~OpenOn(q, s) /\ ~DataOn(q, s)
          /\ ~AnyOn(q, s)'
    /\ IF x.frame.end /\ IsLast(x)
       THEN EndsOn(q, s) /\ EndOn(q, s) /\ ~EndsOn(q, s)' /\ ~DataOn(q, s)' /\ PaidOn(q, s)' = 0
       ELSE EndOn(q, s)' <=> EndOn(q, s)

LEMMA NoPay ==
  ASSUME NEW c \in Seq(Sent), NEW w \in Seq(Held), NEW l, Tidy(c, l, w),
         \A x \in Line(c, l, w) : x.frame.type # "data"
  PROVE  Paid(c, l, w) = 0
<1>1. ASSUME NEW i \in DOMAIN c, c[i] \in PayingSent(l) PROVE FALSE
  <2>1. c[i].lane = l /\ c[i].frame.type = "data" BY <1>1 DEF PayingSent, Pays
  <2>2. Piece(c[i].frame, c[i].idx) \in Line(c, l, w) BY <2>1 DEF Line, Written
  <2> QED BY <2>1, <2>2 DEF Piece
<1>2. ASSUME NEW k \in DOMAIN w, w[k] \in PayingHeld PROVE FALSE
  <2>1. w[k].frame.type = "data" /\ w[k] \in Held BY <1>2 DEF PayingHeld, Pays
  <2>2. w[k].next \in w[k].next .. w[k].frame.frags
    <3>1. w[k].next \in 1 .. w[k].frame.frags /\ w[k].frame.frags \in Nat
      BY <2>1, ConnectionAssumption DEF Tidy, WellFormed, Held, Frame
    <3> QED BY <3>1
  <2>3. Piece(w[k].frame, w[k].next) \in Line(c, l, w) BY <2>2 DEF Line, Waiting, Parts
  <2> QED BY <2>1, <2>3 DEF Piece
<1>3. Count(c, PayingSent(l)) = 0 /\ Count(w, PayingHeld) = 0 BY <1>1, <1>2, CountNone
<1> QED BY <1>3 DEF Paid

LEMMA RowType ==
  ASSUME Shape, NEW q \in Peers, NEW l \in Lanes
  PROVE  /\ chan[q] \in Seq(Sent) /\ out[q][l] \in Seq(Held) /\ PaidOn(q, l) \in Nat
         /\ InOrder(q, l) /\ ~DataOn(q, l) => PaidOn(q, l) = 0
<1>1. chan[q] \in Seq(Sent) /\ out[q][l] \in Seq(Held) BY DEF Shape
<1> QED BY <1>1, PaidType, NoPay DEF PaidOn, InOrder, DataOn, Row

(* From the line itself to what is on it.                                  *)
LEMMA SameRow ==
  ASSUME NEW q, NEW s, Row(q, s)' = Row(q, s), PaidOn(q, s)' = PaidOn(q, s), InOrder(q, s)'
  PROVE  Kept(q, s)
BY DEF Kept, AnyOn, OpenOn, FirstOn, LastOn, DataOn, ResetOn, EndsOn, EndOn

LEMMA FewerRow ==
  ASSUME NEW q, NEW s, Row(q, s)' \subseteq Row(q, s), InOrder(q, s)'
  PROVE  Fewer(q, s)
BY DEF Fewer, AnyOn, OpenOn, FirstOn, LastOn, DataOn, ResetOn, EndsOn, EndOn

LEMMA KeptStill ==
  ASSUME NEW q, NEW s, InOrder(q, s), chan'[q] = chan[q], out'[q][s] = out[q][s]
  PROVE  Kept(q, s) /\ Row(q, s)' = Row(q, s)
<1>1. Row(q, s)' = Row(q, s) /\ PaidOn(q, s)' = PaidOn(q, s) /\ InOrder(q, s)' BY DEF Row, PaidOn, InOrder
<1> QED BY <1>1, SameRow

LEMMA DroppedByKeep ==
  ASSUME Shape, NEW q \in Peers, NEW s \in Lanes, InOrder(q, s),
         chan'[q] = chan[q], out'[q][s] = Keep(out[q][s])
  PROVE  Dropped(q, s)
<1> DEFINE c == chan[q]
           w == out[q][s]
           k == Keep(w)
<1>1. c \in Seq(Sent) /\ w \in Seq(Held) /\ Tidy(c, s, w) BY RowType DEF InOrder
<1>2. Row(q, s) = Line(c, s, w) /\ Row(q, s)' = Line(c, s, k) BY DEF Row
<1>3. PaidOn(q, s) = Paid(c, s, w) /\ PaidOn(q, s)' = Paid(c, s, k) BY DEF PaidOn
<1>4. InOrder(q, s)' <=> Tidy(c, s, k) BY DEF InOrder
<1> HIDE DEF c, w
<1>5. /\ Tidy(c, s, k) /\ Line(c, s, k) \subseteq Line(c, s, w)
      /\ \A x \in Line(c, s, w) : IsFirst(x) => x \in Line(c, s, k)
      /\ (\E x \in Line(c, s, k) : x.frame.end /\ IsLast(x)) => Paid(c, s, k) = Paid(c, s, w)
  BY <1>1, CutLine
<1> HIDE DEF k
<1>6. Fewer(q, s) BY <1>2, <1>4, <1>5, FewerRow
<1>7. FirstOn(q, s)' <=> FirstOn(q, s) BY <1>2, <1>5 DEF FirstOn
<1>8. EndOn(q, s)' => PaidOn(q, s)' = PaidOn(q, s) BY <1>2, <1>3, <1>5 DEF EndOn
<1> QED BY <1>6, <1>7, <1>8 DEF Dropped

LEMMA BrokenByDeath ==
  ASSUME Shape, NEW q \in Peers, NEW s \in Lanes, InOrder(q, s),
         chan'[q] = chan[q], out'[q][s] = << >>
  PROVE  Broken(q, s) /\ (out[q][s] = << >> => Kept(q, s))
<1> DEFINE c == chan[q]
           w == out[q][s]
<1> PICK k : k = << >> OBVIOUS
<1>1. c \in Seq(Sent) /\ w \in Seq(Held) /\ Tidy(c, s, w) BY RowType DEF InOrder
<1>2. Row(q, s) = Line(c, s, w) /\ Row(q, s)' = Line(c, s, k) BY DEF Row
<1>3. PaidOn(q, s) = Paid(c, s, w) /\ PaidOn(q, s)' = Paid(c, s, k) BY DEF PaidOn
<1>4. InOrder(q, s)' <=> Tidy(c, s, k) BY DEF InOrder
<1>5. w = << >> => Kept(q, s) BY KeptStill
<1> HIDE DEF c, w
<1>6. /\ Tidy(c, s, k) /\ Line(c, s, k) \subseteq Line(c, s, w)
      /\ Line(c, s, k) # {} => \A x \in Line(c, s, w) : IsFirst(x) => x \in Line(c, s, k)
      /\ (\E x \in Line(c, s, k) : x.frame.end /\ IsLast(x)) => Paid(c, s, k) = Paid(c, s, w)
  BY <1>1, CutLine
<1>7. Fewer(q, s) BY <1>2, <1>4, <1>6, FewerRow
<1>8. FirstOn(q, s) /\ AnyOn(q, s)' => FirstOn(q, s)' BY <1>2, <1>6 DEF FirstOn, AnyOn
<1>9. EndOn(q, s)' => PaidOn(q, s)' = PaidOn(q, s) BY <1>2, <1>3, <1>6 DEF EndOn
<1> QED BY <1>5, <1>7, <1>8, <1>9 DEF Broken, w

LEMMA FewerByLoss ==
  ASSUME NEW q, NEW s, InOrder(q, s), chan'[q] = << >>, out'[q][s] = out[q][s]
  PROVE  Fewer(q, s)
<1> DEFINE c == chan[q]
           w == out[q][s]
<1>1. Tidy(c, s, w) BY DEF InOrder
<1>2. Row(q, s) = Line(c, s, w) /\ Row(q, s)' = Line(<< >>, s, w) BY DEF Row
<1>3. InOrder(q, s)' <=> Tidy(<< >>, s, w) BY DEF InOrder
<1> HIDE DEF c, w
<1> QED BY <1>1, <1>2, <1>3, LostLine, FewerRow

LEMMA GrownBy ==
  ASSUME Shape, NEW q \in Peers, NEW s \in Streams, InOrder(q, s), NEW f \in Frame,
         chan'[q] = chan[q], out'[q][s] = Put(out[q][s], f),
         ~ResetOn(q, s), f.type = "open" => ~AnyOn(q, s), f.type = "data" => f.frags = 1 /\ ~EndsOn(q, s),
         f.type \in {"open", "data"}
  PROVE  Grown(q, s, f)
<1> DEFINE c == chan[q]
           w == out[q][s]
           t == Put(w, f)
           P == Parts(Item(f))
<1>1. c \in Seq(Sent) /\ w \in Seq(Held) /\ Tidy(c, s, w) /\ s \in Lanes
  BY RowType, PeerFacts DEF InOrder
<1>2. Row(q, s) = Line(c, s, w) /\ Row(q, s)' = Line(c, s, t) BY DEF Row
<1>3. PaidOn(q, s) = Paid(c, s, w) /\ PaidOn(q, s)' = Paid(c, s, t) BY DEF PaidOn
<1>4. InOrder(q, s)' <=> Tidy(c, s, t) BY DEF InOrder
<1> HIDE DEF c, w, t
<1>5. /\ \A x \in P : x.frame = f /\ x.idx \in 1 .. f.frags
      /\ Piece(f, 1) \in P /\ Piece(f, f.frags) \in P
  BY ItemFacts
<1> HIDE DEF P
<1>6. s # CONNECTION_LANE BY PeerFacts
<1>7. \A x \in P : Fine(s, x) BY <1>5, <1>6 DEF Fine
<1>8. \A x \in Line(c, s, w), y \in P : Before(x, y)
  BY <1>2, <1>5 DEF Before, ResetOn, AnyOn, EndsOn
<1>9. /\ Tidy(c, s, t) /\ Line(c, s, t) = Line(c, s, w) \cup P
      /\ Paid(c, s, t) = Paid(c, s, w) + IF Pays(f) THEN 1 ELSE 0
  BY <1>1, <1>7, <1>8, PutLine DEF P, t
<1>10. Row(q, s)' = Row(q, s) \cup P BY <1>2, <1>9
<1>11. Piece(f, 1).frame = f /\ Piece(f, 1).idx = 1 /\ Piece(f, f.frags).frame = f /\ Piece(f, f.frags).idx = f.frags
  BY DEF Piece
<1>12. AnyOn(q, s)' BY <1>5, <1>10 DEF AnyOn
<1>13. /\ OpenOn(q, s)' <=> OpenOn(q, s) \/ f.type = "open"
       /\ DataOn(q, s)' <=> DataOn(q, s) \/ f.type = "data"
       /\ ResetOn(q, s)' <=> ResetOn(q, s)
       /\ EndsOn(q, s)' <=> EndsOn(q, s) \/ f.end
  BY <1>5, <1>10, <1>11 DEF OpenOn, DataOn, ResetOn, EndsOn
<1>14. /\ FirstOn(q, s)' <=> FirstOn(q, s) \/ f.type = "open"
       /\ LastOn(q, s)' <=> LastOn(q, s) \/ f.type = "open"
       /\ EndOn(q, s)' <=> EndOn(q, s) \/ f.end
  BY <1>5, <1>10, <1>11 DEF FirstOn, LastOn, EndOn, IsFirst, IsLast
<1> QED BY <1>3, <1>4, <1>9, <1>12, <1>13, <1>14 DEF Grown

(* A reset is put behind the line, or behind what stays of it.             *)
LEMMA StruckBy ==
  ASSUME Shape, NEW q \in Peers, NEW s \in Streams, InOrder(q, s), NEW code \in ResetCode \ {"PROTOCOL_ERROR"},
         chan'[q] = chan[q], ~ResetOn(q, s),
         NEW v, v = out[q][s] \/ v = Keep(out[q][s]), out'[q][s] = Put(v, ResetFrame(code))
  PROVE  Struck(q, s)
<1> DEFINE c == chan[q]
           w == out[q][s]
           f == ResetFrame(code)
           t == Put(v, f)
           P == Parts(Item(f))
<1>1. c \in Seq(Sent) /\ w \in Seq(Held) /\ Tidy(c, s, w) /\ s \in Lanes
  BY RowType, PeerFacts DEF InOrder
<1>2. Row(q, s) = Line(c, s, w) /\ Row(q, s)' = Line(c, s, t) BY DEF Row
<1>3. PaidOn(q, s) = Paid(c, s, w) /\ PaidOn(q, s)' = Paid(c, s, t) BY DEF PaidOn
<1>4. InOrder(q, s)' <=> Tidy(c, s, t) BY DEF InOrder
<1>5. v = w \/ v = Keep(w) OBVIOUS
<1>6. /\ f \in Frame /\ f.type = "reset" /\ f.code = code /\ ~f.end /\ f.frags = 1
  BY FrameFacts DEF ResetFrame
<1> HIDE DEF c, w, t, f
<1>7. /\ v \in Seq(Held) /\ Tidy(c, s, v) /\ Line(c, s, v) \subseteq Line(c, s, w)
      /\ \A x \in Line(c, s, w) : IsFirst(x) => x \in Line(c, s, v)
      /\ (\E x \in Line(c, s, v) : x.frame.end /\ IsLast(x)) => Paid(c, s, v) = Paid(c, s, w)
  <2>1. CASE v = w BY <1>1, <2>1
  <2>2. CASE v = Keep(w) BY <1>1, <2>2, CutLine
  <2> QED BY <1>5, <2>1, <2>2
<1>8. \A x \in P : x.frame = f /\ x.idx \in 1 .. f.frags
  BY <1>6, ItemFacts
<1>9. Piece(f, 1) \in P BY <1>6, ItemFacts
<1> HIDE DEF P
<1>10. s # CONNECTION_LANE BY PeerFacts
<1>11. \A x \in P : Fine(s, x) BY <1>6, <1>8, <1>10 DEF Fine
<1>12. \A x \in Line(c, s, v), y \in P : Before(x, y)
  BY <1>2, <1>6, <1>7, <1>8 DEF Before, ResetOn
<1>13. ~Pays(f) BY <1>6 DEF Pays
<1>14. /\ Tidy(c, s, t) /\ Line(c, s, t) = Line(c, s, v) \cup P
       /\ Paid(c, s, t) = Paid(c, s, v) + 0
  BY <1>1, <1>6, <1>7, <1>11, <1>12, <1>13, PutLine DEF P, t
<1>15. Paid(c, s, t) = Paid(c, s, v) BY <1>1, <1>7, <1>14, PaidType
<1>16. /\ \A x \in Row(q, s)' : x \in P \/ (x \in Row(q, s) /\ x \in Line(c, s, v))
       /\ \A x \in Row(q, s) : IsFirst(x) => x \in Row(q, s)'
       /\ Piece(f, 1) \in Row(q, s)'
  BY <1>2, <1>7, <1>9, <1>14
<1>17. AnyOn(q, s)' /\ ResetOn(q, s)'
  <2>1. Piece(f, 1).frame.type = "reset" BY <1>6 DEF Piece
  <2> QED BY <1>16, <2>1 DEF AnyOn, ResetOn
<1>18. /\ OpenOn(q, s)' => OpenOn(q, s)
       /\ DataOn(q, s)' => DataOn(q, s)
       /\ EndsOn(q, s)' => EndsOn(q, s)
       /\ FirstOn(q, s)' <=> FirstOn(q, s)
  BY <1>6, <1>8, <1>16 DEF OpenOn, DataOn, EndsOn, FirstOn, IsFirst
<1>19. EndOn(q, s)' => EndOn(q, s) /\ PaidOn(q, s)' = PaidOn(q, s)
  <2> HAVE EndOn(q, s)'
  <2>1. PICK x \in Row(q, s)' : x.frame.end /\ IsLast(x) BY DEF EndOn
  <2>2. x \in Row(q, s) /\ x \in Line(c, s, v) BY <1>6, <1>8, <1>16, <2>1
  <2> QED BY <1>3, <1>7, <1>15, <2>1, <2>2 DEF EndOn
<1> QED BY <1>4, <1>14, <1>17, <1>18, <1>19 DEF Struck

(* The first fragment of the channel is read.                              *)
LEMMA ReadRow ==
  ASSUME Shape, NEW q \in Peers, NEW s \in Lanes, InOrder(q, s), chan[q] # << >>,
         chan'[q] = Tail(chan[q]), out'[q][s] = out[q][s],
         NEW x, x = Piece(Head(chan[q]).frame, Head(chan[q]).idx)
  PROVE  /\ InOrder(q, s)'
         /\ Head(chan[q]).lane # s => Row(q, s)' = Row(q, s) /\ PaidOn(q, s)' = PaidOn(q, s)
         /\ Head(chan[q]).lane = s =>
               /\ Row(q, s) = Row(q, s)' \cup {x} /\ Fine(s, x)
               /\ \A y \in Row(q, s)' : Before(x, y) /\ Fine(s, y)
               /\ PaidOn(q, s) = PaidOn(q, s)' + IF Pays(x.frame) THEN 1 ELSE 0
               /\ PaidOn(q, s)' \in Nat /\ (~DataOn(q, s)' => PaidOn(q, s)' = 0)
<1> DEFINE c == chan[q]
           w == out[q][s]
           t == Tail(c)
           h == Head(c)
<1>1. c \in Seq(Sent) /\ w \in Seq(Held) /\ Tidy(c, s, w) /\ c # << >> BY RowType DEF InOrder
<1>2. Row(q, s) = Line(c, s, w) /\ Row(q, s)' = Line(t, s, w) BY DEF Row
<1>3. PaidOn(q, s) = Paid(c, s, w) /\ PaidOn(q, s)' = Paid(t, s, w) BY DEF PaidOn
<1>4. InOrder(q, s)' <=> Tidy(t, s, w) BY DEF InOrder
<1>5. t \in Seq(Sent) BY <1>1, TailFacts
<1>6. x = Piece(h.frame, h.idx) OBVIOUS
<1> HIDE DEF c, w
<1>7. /\ Tidy(t, s, w)
      /\ h.lane # s => Line(t, s, w) = Line(c, s, w) /\ Paid(t, s, w) = Paid(c, s, w)
      /\ h.lane = s =>
            /\ Line(c, s, w) = Line(t, s, w) \cup {x}
            /\ \A y \in Line(t, s, w) : Before(x, y)
            /\ Paid(c, s, w) = Paid(t, s, w) + IF Pays(x.frame) THEN 1 ELSE 0
  BY <1>1, <1>6, ReadLine
<1> HIDE DEF t
<1>8. Paid(t, s, w) \in Nat BY <1>1, <1>5, PaidType
<1>9. ~DataOn(q, s)' => PaidOn(q, s)' = 0
  <2> HAVE ~DataOn(q, s)'
  <2>1. \A y \in Line(t, s, w) : y.frame.type # "data" BY <1>2 DEF DataOn
  <2> QED BY <1>1, <1>3, <1>5, <1>7, <2>1, NoPay
<1>10. h.lane = s => Fine(s, x) /\ \A y \in Line(t, s, w) : Fine(s, y) BY <1>1, <1>7 DEF Tidy
<1> QED BY <1>2, <1>3, <1>4, <1>7, <1>8, <1>9, <1>10 DEF h, c

LEMMA KeptByRead ==
  ASSUME Shape, NEW q \in Peers, NEW s \in Lanes, InOrder(q, s), chan[q] # << >>,
         chan'[q] = Tail(chan[q]), out'[q][s] = out[q][s], Head(chan[q]).lane # s
  PROVE  Kept(q, s) /\ Row(q, s)' = Row(q, s)
<1> PICK x : x = Piece(Head(chan[q]).frame, Head(chan[q]).idx) OBVIOUS
<1> QED BY ReadRow, SameRow

LEMMA FineFacts ==
  ASSUME NEW s, NEW y, Fine(s, y), s # CONNECTION_LANE
  PROVE  /\ y.frame.type \in {"open", "data", "reset"} /\ y.frame.end \in BOOLEAN
         /\ y.frame.frags \in Nat /\ y.idx \in 1 .. y.frame.frags
         /\ y.idx \in Nat /\ y.idx >= 1 /\ y.idx <= y.frame.frags
         /\ (y.frame.type # "open" => y.frame.frags = 1) /\ (y.frame.type = "reset" => ~y.frame.end)
<1>1. y.frame \in Frame /\ y.idx \in 1 .. y.frame.frags /\ y.frame.type # "goaway" BY DEF Fine
<1>2. y.frame.frags \in 1 .. MaxFrags /\ y.frame.end \in BOOLEAN
      /\ y.frame.type \in {"open", "data", "reset", "goaway"}
  BY <1>1 DEF Frame
<1>3. y.frame.frags \in Nat BY <1>2, ConnectionAssumption
<1> QED BY <1>1, <1>2, <1>3 DEF Fine

LEMMA TakenBy ==
  ASSUME Shape, NEW q \in Peers, NEW s \in Streams, InOrder(q, s), chan[q] # << >>,
         chan'[q] = Tail(chan[q]), out'[q][s] = out[q][s], Head(chan[q]).lane = s,
         NEW x, x = Piece(Head(chan[q]).frame, Head(chan[q]).idx)
  PROVE  Taken(q, s, x) /\ Fine(s, x)
<1> DEFINE R == Row(q, s)
           T == Row(q, s)'
<1>1. s \in Lanes /\ s # CONNECTION_LANE BY PeerFacts
<1>2. /\ InOrder(q, s)' /\ R = T \cup {x} /\ Fine(s, x)
      /\ \A y \in T : Before(x, y) /\ Fine(s, y)
      /\ PaidOn(q, s) = PaidOn(q, s)' + IF Pays(x.frame) THEN 1 ELSE 0
      /\ PaidOn(q, s)' \in Nat /\ (~DataOn(q, s)' => PaidOn(q, s)' = 0)
  BY <1>1, ReadRow
<1>3. /\ AnyOn(q, s) <=> R # {}
      /\ AnyOn(q, s)' <=> T # {}
      /\ OpenOn(q, s) <=> \E y \in R : y.frame.type = "open"
      /\ OpenOn(q, s)' <=> \E y \in T : y.frame.type = "open"
      /\ FirstOn(q, s) <=> \E y \in R : y.frame.type = "open" /\ y.idx = 1
      /\ FirstOn(q, s)' <=> \E y \in T : y.frame.type = "open" /\ y.idx = 1
      /\ LastOn(q, s) <=> \E y \in R : y.frame.type = "open" /\ IsLast(y)
      /\ LastOn(q, s)' <=> \E y \in T : y.frame.type = "open" /\ IsLast(y)
      /\ DataOn(q, s) <=> \E y \in R : y.frame.type = "data"
      /\ DataOn(q, s)' <=> \E y \in T : y.frame.type = "data"
      /\ ResetOn(q, s) <=> \E y \in R : y.frame.type = "reset"
      /\ ResetOn(q, s)' <=> \E y \in T : y.frame.type = "reset"
      /\ EndsOn(q, s) <=> \E y \in R : y.frame.end
      /\ EndsOn(q, s)' <=> \E y \in T : y.frame.end
      /\ EndOn(q, s) <=> \E y \in R : y.frame.end /\ IsLast(y)
      /\ EndOn(q, s)' <=> \E y \in T : y.frame.end /\ IsLast(y)
  BY DEF AnyOn, OpenOn, FirstOn, LastOn, DataOn, ResetOn, EndsOn, EndOn, IsFirst
<1>4. Fewer(q, s) BY <1>2, FewerRow
<1> HIDE DEF R, T
<1>5. AnyOn(q, s) BY <1>2, <1>3
<1>6. /\ x.frame.type \in {"open", "data", "reset"} /\ x.idx \in 1 .. x.frame.frags /\ x.frame.frags \in Nat
      /\ (x.frame.type # "open" => x.frame.frags = 1) /\ (x.frame.type = "reset" => ~x.frame.end)
      /\ x.idx \in Nat /\ x.frame.end \in BOOLEAN
  BY <1>1, <1>2, FineFacts
<1>7. \A y \in T : y.frame.type \in {"open", "data", "reset"} /\ y.frame.end \in BOOLEAN
                   /\ y.idx \in Nat /\ y.frame.frags \in Nat /\ y.idx >= 1 /\ y.idx <= y.frame.frags
                   /\ (y.frame.type = "reset" => ~y.frame.end)
  <2> TAKE y \in T
  <2>1. Fine(s, y) BY <1>2
  <2> QED BY <1>1, <2>1, FineFacts
<1>8. CASE x.frame.type = "open"
  <2>1. OpenOn(q, s) BY <1>2, <1>3, <1>8
  <2>2. \A y \in T : y.frame.type = "open" => y.frame = x.frame /\ x.idx < y.idx BY <1>2 DEF Before
  <2>3. ~FirstOn(q, s)' BY <1>3, <1>6, <2>2
  <2>4. FirstOn(q, s) <=> x.idx = 1 BY <1>2, <1>3, <1>8, <2>3
  <2>5. IsLast(x) => LastOn(q, s) /\ ~OpenOn(q, s)' /\ ~LastOn(q, s)'
    <3> HAVE IsLast(x)
    <3>1. \A y \in T : y.frame.type # "open" BY <1>6, <1>7, <2>2 DEF IsLast
    <3> QED BY <1>2, <1>3, <1>8, <3>1
  <2>6. ~IsLast(x) => (LastOn(q, s)' <=> LastOn(q, s)) BY <1>2, <1>3
  <2>7. DataOn(q, s)' <=> DataOn(q, s) BY <1>2, <1>3, <1>8
  <2>8. ResetOn(q, s)' <=> ResetOn(q, s) BY <1>2, <1>3, <1>8
  <2>9. PaidOn(q, s)' = PaidOn(q, s) BY <1>2, <1>8 DEF Pays
  <2>10. CASE x.frame.end /\ IsLast(x)
    <3>1. \A y \in T : y.frame.type = "reset"
      <4>1. \A y \in T : y.frame.type # "open" BY <1>6, <1>7, <2>2, <2>10 DEF IsLast
      <4> QED BY <1>2, <1>7, <2>10, <4>1 DEF Before
    <3>2. ~EndsOn(q, s)' /\ ~DataOn(q, s)' BY <1>3, <1>7, <3>1
    <3> QED BY <1>2, <1>3, <1>4, <1>5, <1>8, <2>1, <2>3, <2>4, <2>5, <2>7, <2>8, <2>9, <2>10, <3>2 DEF Taken
  <2>11. CASE ~(x.frame.end /\ IsLast(x))
    <3>1. EndOn(q, s)' <=> EndOn(q, s) BY <1>2, <1>3, <2>11
    <3> QED BY <1>2, <1>4, <1>5, <1>8, <2>1, <2>3, <2>4, <2>5, <2>6, <2>7, <2>8, <2>9, <2>11, <3>1 DEF Taken
  <2> QED BY <2>10, <2>11
<1>9. CASE x.frame.type = "data"
  <2>1. DataOn(q, s) BY <1>2, <1>3, <1>9
  <2>2. \A y \in R : y.frame.type # "open" BY <1>2, <1>9 DEF Before
  <2>3. ~OpenOn(q, s) /\ ~FirstOn(q, s) /\ ~LastOn(q, s) BY <1>3, <2>2
  <2>4. ResetOn(q, s)' <=> ResetOn(q, s) BY <1>2, <1>3, <1>9
  <2>5. PaidOn(q, s) = PaidOn(q, s)' + IF x.frame.payload THEN 1 ELSE 0 BY <1>2, <1>9 DEF Pays
  <2>6. IsLast(x) BY <1>6, <1>9 DEF IsLast
  <2>7. CASE x.frame.end
    <3>1. \A y \in T : y.frame.type = "reset" BY <1>2, <1>7, <1>9, <2>7 DEF Before
    <3>2. ~EndsOn(q, s)' /\ ~DataOn(q, s)' BY <1>3, <1>7, <3>1
    <3>3. EndsOn(q, s) /\ EndOn(q, s) BY <1>2, <1>3, <2>6, <2>7
    <3> QED BY <1>2, <1>4, <1>5, <1>9, <2>1, <2>3, <2>4, <2>5, <2>6, <2>7, <3>2, <3>3 DEF Taken
  <2>8. CASE ~x.frame.end
    <3>1. EndOn(q, s)' <=> EndOn(q, s) BY <1>2, <1>3, <2>8
    <3> QED BY <1>2, <1>4, <1>5, <1>9, <2>1, <2>3, <2>4, <2>5, <2>8, <3>1 DEF Taken
  <2> QED BY <2>7, <2>8
<1>10. CASE x.frame.type = "reset"
  <2>1. T = {} BY <1>2, <1>10 DEF Before
  <2>2. R = {x} BY <1>2, <2>1
  <2>3. ResetOn(q, s) /\ ~FirstOn(q, s) /\ ~OpenOn(q, s) /\ ~DataOn(q, s) /\ ~AnyOn(q, s)'
    BY <1>3, <1>10, <2>1, <2>2
  <2>4. EndOn(q, s)' <=> EndOn(q, s) BY <1>3, <1>6, <1>10, <2>1, <2>2
  <2>5. ~(x.frame.end /\ IsLast(x)) BY <1>6, <1>10
  <2>6. x.frame.type # "open" /\ x.frame.type # "data" BY <1>10
  <2> QED BY <1>2, <1>4, <1>5, <2>3, <2>4, <2>5, <2>6 DEF Taken
<1> QED BY <1>2, <1>6, <1>8, <1>9, <1>10

(* A fragment is written.                                                  *)
LEMMA KeptByWrite ==
  ASSUME Shape, NEW q \in Peers, NEW s \in Lanes, InOrder(q, s), NEW l \in Lanes,
         out[q][l] # << >>, NEW e \in Sent, e.lane = l,
         e.frame = First(out[q][l]).frame, e.idx = First(out[q][l]).idx,
         chan'[q] = Append(chan[q], e),
         out'[q][s] = IF s = l THEN Rest(out[q][s]) ELSE out[q][s]
  PROVE  Kept(q, s) /\ Row(q, s)' = Row(q, s)
<1> DEFINE c == chan[q]
           w == out[q][s]
           t == Append(c, e)
           v == IF s = l THEN Rest(w) ELSE w
<1>1. c \in Seq(Sent) /\ w \in Seq(Held) /\ Tidy(c, s, w) BY RowType DEF InOrder
<1>2. Row(q, s) = Line(c, s, w) /\ Row(q, s)' = Line(t, s, v) BY DEF Row
<1>3. PaidOn(q, s) = Paid(c, s, w) /\ PaidOn(q, s)' = Paid(t, s, v) BY DEF PaidOn
<1>4. InOrder(q, s)' <=> Tidy(t, s, v) BY DEF InOrder
<1>5. s = l => w # << >> /\ e.frame = First(w).frame /\ e.idx = First(w).idx OBVIOUS
<1> HIDE DEF c, w
<1>6. Tidy(t, s, v) /\ Line(t, s, v) = Line(c, s, w) /\ Paid(t, s, v) = Paid(c, s, w)
  <2>1. CASE s = l BY <1>1, <1>5, <2>1, WriteLine
  <2>2. CASE s # l BY <1>1, <2>2, WriteOther
  <2> QED BY <2>1, <2>2
<1> HIDE DEF t, v
<1> QED BY <1>2, <1>3, <1>4, <1>6, SameRow

-----------------------------------------------------------------------------
(* A stream a step does not touch.                                         *)

LEMMA LinkType ==
  ASSUME Shape, NEW q \in Peers, NEW s \in Streams
  PROVE  /\ view[q][s] \in Stream /\ view[q][s].got \in Nat /\ view[q][s].sent \in Nat
         /\ view[q][s].opening \in BOOLEAN
         /\ view[q][s].state \in Live \cup {"idle", "closed"}
         /\ high[q] \in Nat /\ next[q] \in Nat /\ s \in Nat /\ s > 0 /\ s \in Lanes /\ s # CONNECTION_LANE
         /\ promised[q] \in Nat \cup {None} /\ None \notin Nat
         /\ PaidOn(q, s) \in Nat /\ (InOrder(q, s) /\ ~DataOn(q, s) => PaidOn(q, s) = 0)
<1>1. view[q][s] \in Stream /\ high[q] \in Nat /\ next[q] \in Nat /\ promised[q] \in Nat \cup {None} BY DEF Shape
<1>2. s \in Nat /\ s \in Lanes /\ s # CONNECTION_LANE BY PeerFacts
<1>3. s > 0 BY <1>2 DEF CONNECTION_LANE
<1>4. None \notin Nat BY ConnectionAssumption
<1>5. PaidOn(q, s) \in Nat /\ (InOrder(q, s) /\ ~DataOn(q, s) => PaidOn(q, s) = 0) BY <1>2, RowType
<1> QED BY <1>1, <1>2, <1>3, <1>4, <1>5 DEF Stream

(* The peers live, and close, as before.                                   *)
SameLives == setup' = setup /\ \A q \in Peers : Alive(q)' <=> Alive(q)

LEMMA Bystander ==
  ASSUME Shape, Shape', SameLives, NEW q \in Peers, NEW p \in Peers, p = Other(q), NEW s \in Streams,
         Link(q, p, s), Kept(q, s), view'[q][s] = view[q][s], view'[p][s] = view[p][s],
         s \in Ids(q) => (s < next'[q] <=> s < next[q]) /\ (s > high'[p] <=> s > high[p]),
         s \notin Ids(q) => (s > high'[q] <=> s > high[q]),
         Speaks(q, s)' => Speaks(q, s)
  PROVE  Link(q, p, s)'
<1>1. s \in Nat /\ next[q] \in Nat /\ next'[q] \in Nat /\ high[q] \in Nat /\ high'[q] \in Nat
      /\ high[p] \in Nat /\ high'[p] \in Nat
  BY LinkType DEF Shape
<1>2. (Alive(q)' <=> Alive(q)) /\ (Alive(p)' <=> Alive(p)) BY DEF SameLives
<1>3. (isLive(q, s)' <=> isLive(q, s)) /\ (isLive(p, s)' <=> isLive(p, s)) BY DEF isLive
<1>4. (Unread(q, s)' <=> Unread(q, s)) BY DEF Unread
<1>5. Unread(p, s)' <=> Unread(p, s)
  <2>1. s \notin Ids(p) => s \in Ids(q) BY PeerFacts
  <2> QED BY <2>1 DEF Unread
<1>6. (Hears(q, s)' <=> Hears(q, s)) /\ (Hears(p, s)' <=> Hears(p, s))
  BY <1>2, <1>3, <1>4, <1>5 DEF Hears
<1>7. Stage(q, s)' BY <1>1, <1>2, <1>3 DEF Link, Stage
<1>8. Lines(q, s)' BY <1>4, <1>6 DEF Link, Lines, Kept, InOrder
<1>9. Opening(q, p, s)' BY <1>1, <1>2, <1>3, <1>6 DEF Link, Opening, Kept
<1>10. Ends(q, p, s)' BY <1>6 DEF Link, Ends, Kept
<1>11. Counts(q, p, s)' BY <1>6 DEF Link, Counts, Kept
<1>12. Closes(q, p, s)'
  <2>1. Refused(q, s)' => Refused(q, s) BY <1>1 DEF Refused
  <2> QED BY <1>1, <1>6, <2>1 DEF Link, Closes, Kept
<1> QED BY <1>7, <1>8, <1>9, <1>10, <1>11, <1>12 DEF Link

LEMMA OnFacts ==
  ASSUME NEW q, NEW s
  PROVE  /\ FirstOn(q, s) => OpenOn(q, s)
         /\ LastOn(q, s) => OpenOn(q, s)
         /\ OpenOn(q, s) \/ DataOn(q, s) \/ ResetOn(q, s) \/ EndsOn(q, s) => AnyOn(q, s)
         /\ EndOn(q, s) => EndsOn(q, s)
BY DEF FirstOn, LastOn, OpenOn, DataOn, ResetOn, EndsOn, EndOn, AnyOn, IsFirst

LEMMA LiveFacts ==
  ASSUME NEW q, NEW s
  PROVE  /\ isLive(q, s) <=> view[q][s].state \in {"open", "half_closed_local", "half_closed_remote"}
         /\ isLive(q, s) => view[q][s].state # "idle" /\ view[q][s].state # "closed"
         /\ MayEnd(view[q][s]) => isLive(q, s)
         /\ (isLive(q, s) \/ view[q][s].state = "idle") /\ Stage(q, s) => view[q][s].cause = "none"
BY DEF isLive, Live, MayEnd, Stage

(* The streams skipped by the `open` of a later one: their opener is dead. *)
LEMMA Skipped ==
  ASSUME RefusalInv, Shape', SameLives, NEW q \in Peers, NEW p \in Peers, p = Other(q), NEW s \in Ids(q),
         Link(q, p, s), Link(p, q, s), Kept(q, s), Kept(p, s),
         view'[q][s] = view[q][s], view'[p][s] = view[p][s],
         s < next'[q] <=> s < next[q], s > high[p], s <= high'[p], ~AnyOn(q, s), ~Alive(q),
         Speaks(p, s)' => Speaks(p, s)
  PROVE  Link(q, p, s)' /\ Link(p, q, s)'
<1>1. s \in Nat /\ next[q] \in Nat /\ next'[q] \in Nat /\ high[p] \in Nat /\ high'[p] \in Nat
      /\ s \in Streams /\ s \notin Ids(p) /\ s \in Ids(q)
  BY PeerFacts DEF RefusalInv, Shape
<1>2. ~Alive(q)' /\ (Alive(p)' <=> Alive(p)) BY DEF SameLives
<1>3. (isLive(q, s)' <=> isLive(q, s)) /\ (isLive(p, s)' <=> isLive(p, s)) BY DEF isLive
<1>4. Unread(p, s) /\ ~Unread(p, s)' /\ ~Unread(q, s) /\ ~Unread(q, s)' BY <1>1 DEF Unread
<1>5. view[p][s].state = "idle" /\ ~isLive(p, s) /\ ~isLive(q, s) /\ ~AnyOn(p, s)
  <2>1. Fresh(p, s) BY PeerFacts DEF RefusalInv, Refusals
  <2>2. view[p][s].state = "idle" BY <2>1 DEF Fresh
  <2> QED BY <1>4, <2>2 DEF Link, Stage, Lines, isLive, Live
<1>6. ~Hears(q, s)' /\ ~Hears(p, s)' /\ ~Hears(q, s) BY <1>2, <1>3, <1>4, <1>5 DEF Hears
<1>7. /\ ~AnyOn(q, s)' /\ ~AnyOn(p, s)'
      /\ ~FirstOn(q, s)' /\ ~OpenOn(q, s)' /\ ~ResetOn(q, s)' /\ ~DataOn(q, s)' /\ ~EndsOn(q, s)' /\ ~EndOn(q, s)'
      /\ ~FirstOn(p, s)' /\ ~OpenOn(p, s)' /\ ~ResetOn(p, s)' /\ ~DataOn(p, s)' /\ ~EndsOn(p, s)' /\ ~EndOn(p, s)'
  BY <1>5, OnFacts DEF Kept
<1>8. Stage(q, s)' /\ Stage(p, s)' BY <1>1, <1>2, <1>3 DEF Link, Stage
<1>9. Lines(q, s)' /\ Lines(p, s)' BY <1>7 DEF Link, Lines, Kept, InOrder
<1>10. Opening(q, p, s)' /\ Opening(p, q, s)' BY <1>1, <1>2, <1>3, <1>5, <1>7 DEF Opening
<1>11. Ends(q, p, s)' /\ Ends(p, q, s)' BY <1>6, <1>7 DEF Link, Ends, Kept
<1>12. Counts(q, p, s)' /\ Counts(p, q, s)' BY <1>6 DEF Link, Counts, Kept
<1>13. Closes(q, p, s)' /\ Closes(p, q, s)' BY <1>6 DEF Closes
<1> QED BY <1>8, <1>9, <1>10, <1>11, <1>12, <1>13 DEF Link

(* A fragment that means nothing to its reader any more.                   *)
LEMMA Unheard ==
  ASSUME Shape, Shape', SameLives, UNCHANGED <<next, high>>,
         NEW q \in Peers, NEW p \in Peers, p = Other(q), NEW s \in Streams,
         Link(q, p, s), NEW x, Taken(q, s, x), Fine(s, x), ~Hears(p, s),
         view'[q][s] = view[q][s], view'[p][s] = view[p][s]
  PROVE  Link(q, p, s)'
<1>1. s \in Nat /\ next[q] \in Nat /\ high[p] \in Nat /\ high[q] \in Nat BY LinkType
<1>2. (Alive(q)' <=> Alive(q)) /\ (Alive(p)' <=> Alive(p)) BY DEF SameLives
<1>3. (isLive(q, s)' <=> isLive(q, s)) /\ (isLive(p, s)' <=> isLive(p, s)) BY DEF isLive
<1>4. (Unread(q, s)' <=> Unread(q, s)) /\ (Unread(p, s)' <=> Unread(p, s)) BY DEF Unread
<1>5. (Hears(q, s)' <=> Hears(q, s)) /\ ~Hears(p, s)' BY <1>2, <1>3, <1>4 DEF Hears
<1>6. Fewer(q, s) BY DEF Taken
<1>7. Stage(q, s)' BY <1>2, <1>3 DEF Link, Stage
<1>8. Lines(q, s)' BY <1>4, <1>5, <1>6 DEF Link, Lines, Fewer, InOrder
<1>9. Opening(q, p, s)'
  <2> SUFFICES ASSUME s \in Ids(q) PROVE Opening(q, p, s)' BY DEF Opening
  <2>1. s \notin Ids(p) BY PeerFacts
  <2>2. ~(Alive(p) /\ s > high[p]) BY <2>1 DEF Hears, Unread
  <2>3. Opening(q, p, s) BY DEF Link
  <2> QED BY <1>1, <1>2, <1>3, <1>5, <1>6, <2>2, <2>3 DEF Opening, Fewer
<1>10. Ends(q, p, s)' BY <1>5, <1>6 DEF Link, Ends, Fewer
<1>11. Counts(q, p, s)' BY <1>5 DEF Link, Counts
<1>12. Closes(q, p, s)' BY <1>5 DEF Closes
<1> QED BY <1>7, <1>8, <1>9, <1>10, <1>11, <1>12 DEF Link

Calm == SameLives /\ UNCHANGED <<next, high, promised>>

(* Data is sent on a stream that its side has not ended.                   *)
LEMMA Speaking ==
  ASSUME RefusalInv, Shape', Calm, NEW p \in Peers, NEW o \in Peers, o = Other(p), NEW s \in Streams,
         Link(p, o, s), Link(o, p, s), view'[o][s] = view[o][s],
         NEW u, u = view[p][s], NEW v, v = view'[p][s], MayEnd(u), ~u.opening,
         NEW f, f.type = "data", f.payload \in BOOLEAN, f.end \in BOOLEAN, Grown(p, s, f), Kept(o, s),
         v.sent = u.sent + IF f.payload THEN 1 ELSE 0,
         v.state = (IF ~f.end THEN u.state ELSE IF u.state = "half_closed_remote" THEN "closed" ELSE "half_closed_local"),
         v.cause = (IF f.end /\ u.state = "half_closed_remote" THEN "normal" ELSE u.cause),
         v.opening = u.opening, v.ran = u.ran, v.got = u.got,
         v.handler = u.handler \/ (u.handler = "running" /\ v.handler = "returned")
  PROVE  Link(p, o, s)' /\ Link(o, p, s)'
<1>1. /\ s \in Nat /\ next[p] \in Nat /\ high[p] \in Nat /\ high[o] \in Nat /\ next[o] \in Nat
      /\ PaidOn(p, s) \in Nat /\ u.sent \in Nat /\ view[o][s].got \in Nat
      /\ u.state \in {"open", "half_closed_remote"}
  BY LinkType DEF MayEnd, RefusalInv
<1>2. s \in Ids(p) <=> s \notin Ids(o) BY PeerFacts
<1>3. (Alive(p)' <=> Alive(p)) /\ (Alive(o)' <=> Alive(o)) /\ UNCHANGED <<next, high, promised>> BY DEF Calm, SameLives
<1>4. isLive(p, s) /\ Alive(p) /\ Hears(p, s) /\ u.cause = "none"
  BY <1>1 DEF isLive, Live, Link, Stage, Hears
<1>5. Speaks(p, s) /\ ~ResetOn(p, s) /\ ~EndsOn(p, s) /\ ~EndOn(p, s) /\ ~Heard(view[o][s])
  BY <1>1, <1>4, OnFacts DEF Speaks, Link, Lines, Ends
<1>6. /\ (isLive(o, s)' <=> isLive(o, s)) /\ (Unread(o, s)' <=> Unread(o, s)) /\ (Hears(o, s)' <=> Hears(o, s))
      /\ (isLive(p, s)' <=> v.state # "closed") /\ (Unread(p, s)' <=> Unread(p, s)) /\ ~Unread(p, s)
  <2>1. s \notin Ids(p) => Fresh(p, s) BY ViewFacts
  <2>2. ~Unread(p, s) BY <1>1, <2>1 DEF Unread, Fresh
  <2> QED BY <1>1, <1>3, <1>4, <2>2 DEF isLive, Live, Unread, Hears
<1>7. (Hears(p, s)' <=> v.state # "closed") /\ Speaks(p, s)' /\ (Speaks(o, s)' <=> Speaks(o, s))
  BY <1>3, <1>4, <1>6 DEF Hears, Speaks, Calm, SameLives
<1>8. v.state # "idle" /\ u.state # "idle" /\ (v.state = "closed" => v.cause = "normal")
      /\ (v.state # "closed" => v.cause = "none")
  BY <1>1, <1>4
<1>9. /\ InOrder(p, s)' /\ AnyOn(p, s)' /\ DataOn(p, s)' /\ ~ResetOn(p, s)'
      /\ (OpenOn(p, s)' <=> OpenOn(p, s)) /\ (FirstOn(p, s)' <=> FirstOn(p, s)) /\ (LastOn(p, s)' <=> LastOn(p, s))
      /\ (EndsOn(p, s)' <=> f.end) /\ (EndOn(p, s)' <=> f.end)
      /\ PaidOn(p, s)' = PaidOn(p, s) + IF f.payload THEN 1 ELSE 0
  BY <1>5 DEF Grown, Pays
<1>10. Stage(p, s)'
  BY <1>1, <1>3, <1>4, <1>6, <1>8 DEF Link, Stage
<1>11. Stage(o, s)' BY <1>3, <1>6 DEF Link, Stage
<1>12. Lines(p, s)' /\ Lines(o, s)'
  <2>1. Lines(p, s)' BY <1>6, <1>8, <1>9 DEF Link, Lines, InOrder
  <2>2. Lines(o, s)' BY <1>6 DEF Link, Lines, Kept, InOrder
  <2> QED BY <2>1, <2>2
<1>13. Opening(p, o, s)'
  <2> SUFFICES ASSUME s \in Ids(p) PROVE Opening(p, o, s)' BY DEF Opening
  <2>1. s < next[p] BY <1>1, <1>8 DEF Link, Stage
  <2>2. Opening(p, o, s) BY DEF Link
  <2> QED BY <1>1, <1>3, <1>4, <1>5, <1>6, <1>9, <2>1, <2>2 DEF Opening
<1>14. Opening(o, p, s)'
  <2> SUFFICES ASSUME s \in Ids(o) PROVE Opening(o, p, s)' BY DEF Opening
  <2>1. Opening(o, p, s) BY DEF Link
  <2>2. s <= high[p] BY <1>1, <1>2, <1>6 DEF Unread
  <2> QED BY <1>1, <1>3, <1>4, <1>6, <1>7, <2>1, <2>2 DEF Opening, Kept
<1>15. Ends(p, o, s)' BY <1>1, <1>5, <1>6, <1>7, <1>8, <1>9 DEF Link, Ends, Heard, Ended
<1>16. Ends(o, p, s)'
  BY <1>1, <1>4, <1>6, <1>7, <1>8 DEF Link, Ends, Heard, Ended, Kept
<1>17. Counts(p, o, s)' BY <1>1, <1>5, <1>6, <1>8, <1>9 DEF Link, Counts, MayEnd, Heard
<1>18. Counts(o, p, s)' BY <1>1, <1>4, <1>6, <1>7, <1>8 DEF Link, Counts, MayEnd, Heard, Kept
<1>19. Closes(p, o, s)' BY <1>8 DEF Closes, Refused, Cut
<1>20. Closes(o, p, s)' BY <1>4, <1>6, <1>7, <1>3 DEF Link, Closes, Refused, Cut, Kept
<1> QED BY <1>10, <1>11, <1>12, <1>13, <1>14, <1>15, <1>16, <1>17, <1>18, <1>19, <1>20 DEF Link

-----------------------------------------------------------------------------
(* The stream a step touches.                                              *)

LEMMA SideFacts ==
  ASSUME RefusalInv, NEW q \in Peers, NEW p \in Peers, p = Other(q), NEW s \in Streams, Link(q, p, s)
  PROVE  /\ s \in Nat /\ s > 0 /\ next[q] \in Nat /\ high[q] \in Nat /\ PaidOn(q, s) \in Nat
         /\ (~DataOn(q, s) => PaidOn(q, s) = 0)
         /\ view[q][s].got \in Nat /\ view[q][s].sent \in Nat /\ view[q][s].opening \in BOOLEAN
         /\ view[q][s].state \in {"idle", "open", "half_closed_local", "half_closed_remote", "closed"}
         /\ (s \in Ids(q) <=> s \notin Ids(p))
         /\ (isLive(q, s) <=> view[q][s].state \in {"open", "half_closed_local", "half_closed_remote"})
         /\ (isLive(q, s) => Alive(q) /\ Hears(q, s) /\ view[q][s].cause = "none")
         /\ (view[q][s].state # "idle" => ~Unread(q, s))
         /\ (view[q][s].state = "idle" => view[q][s] = NoStream)
         /\ (Unread(q, s) => s \notin Ids(q) /\ s > high[q] /\ ~AnyOn(q, s))
         /\ (s \notin Ids(q) /\ ~Unread(q, s) => s <= high[q])
         /\ (s \in Ids(q) => (view[q][s].state = "idle" <=> s >= next[q]) /\ ~Unread(q, s))
         /\ (Hears(q, s) => ~ResetOn(q, s))
<1>1. Shape BY DEF RefusalInv
<1>2. /\ s \in Nat /\ s > 0 /\ next[q] \in Nat /\ high[q] \in Nat /\ PaidOn(q, s) \in Nat
      /\ view[q][s].got \in Nat /\ view[q][s].sent \in Nat /\ view[q][s].opening \in BOOLEAN
      /\ view[q][s].state \in Live \cup {"idle", "closed"}
      /\ (InOrder(q, s) /\ ~DataOn(q, s) => PaidOn(q, s) = 0)
  BY <1>1, LinkType
<1>3. Stage(q, s) /\ Lines(q, s) BY DEF Link
<1>4. ~DataOn(q, s) => PaidOn(q, s) = 0 BY <1>2, <1>3 DEF Lines, InOrder
<1>5. s \in Ids(q) <=> s \notin Ids(p) BY PeerFacts
<1>6. isLive(q, s) => Alive(q) /\ Hears(q, s) /\ view[q][s].cause = "none"
  BY <1>3 DEF Stage, Hears, isLive, Live
<1>7. view[q][s].state # "idle" => ~Unread(q, s)
  <2>1. s \notin Ids(q) => Fresh(q, s) BY ViewFacts
  <2> QED BY <1>2, <2>1 DEF Fresh, Unread
<1>8. Unread(q, s) => s \notin Ids(q) /\ s > high[q] /\ ~AnyOn(q, s) BY <1>3 DEF Unread, Lines
<1>9. s \notin Ids(q) /\ ~Unread(q, s) => s <= high[q] BY <1>2 DEF Unread
<1>10. s \in Ids(q) => (view[q][s].state = "idle" <=> s >= next[q]) /\ ~Unread(q, s)
  BY <1>3 DEF Stage, Unread
<1>11. Hears(q, s) => ~ResetOn(q, s) BY <1>3 DEF Lines
<1>12. view[q][s].state = "idle" => view[q][s] = NoStream BY <1>3 DEF Stage
<1> QED BY <1>2, <1>4, <1>5, <1>6, <1>7, <1>8, <1>9, <1>10, <1>11, <1>12 DEF isLive, Live

(* A stream is opened.                                                     *)
LEMMA Opened ==
  ASSUME RefusalInv, Shape', SameLives, UNCHANGED <<high, promised>>,
         NEW p \in Peers, NEW o \in Peers, o = Other(p), NEW s \in Ids(p),
         s = next[p], next'[p] = next[p] + 2, next'[o] = next[o], s > high[o], Alive(p),
         Link(p, o, s), Link(o, p, s), view'[o][s] = view[o][s],
         NEW v, v = view'[p][s], NEW f, f.type = "open", f.end \in BOOLEAN,
         v = [NoStream EXCEPT !.state = IF f.end THEN "half_closed_local" ELSE "open"],
         Grown(p, s, f), Kept(o, s)
  PROVE  Link(p, o, s)' /\ Link(o, p, s)'
<1> DEFINE w == view[o][s]
<1> s \in Streams BY PeerFacts
<1>1. /\ s \in Nat /\ s > 0 /\ next[p] \in Nat /\ s < next'[p] /\ s \notin Ids(o)
      /\ high[o] \in Nat /\ high[p] \in Nat /\ p = Other(o)
  BY SideFacts, PeerFacts
<1>2. Unread(o, s) /\ ~isLive(o, s) /\ w.state = "idle" /\ w.got = 0 /\ w.sent = 0 /\ w.cause = "none" /\ ~w.opening
      /\ w = NoStream
  <2>1. Unread(o, s) BY <1>1 DEF Unread
  <2>2. w.state = "idle" /\ w = NoStream BY <1>1, <2>1, SideFacts
  <2> QED BY <2>1, <2>2 DEF NoStream, isLive, Live
<1>3. ~AnyOn(o, s) /\ ~EndsOn(o, s) /\ ~EndOn(o, s) /\ ~DataOn(o, s) /\ ~ResetOn(o, s) /\ ~OpenOn(o, s)
  BY <1>1, <1>2, SideFacts, OnFacts
<1>4. view[p][s].state = "idle" BY <1>1, SideFacts
<1>5. /\ ~AnyOn(p, s) /\ ~EndsOn(p, s) /\ ~DataOn(p, s) /\ ~ResetOn(p, s) /\ ~EndOn(p, s) /\ PaidOn(p, s) = 0
  <2>1. ~AnyOn(p, s) BY <1>4 DEF Link, Lines
  <2> QED BY <2>1, OnFacts, SideFacts
<1>6. /\ v.state = (IF f.end THEN "half_closed_local" ELSE "open") /\ ~v.opening /\ v.cause = "none"
      /\ v.handler = "none" /\ ~v.ran /\ v.sent = 0 /\ v.got = 0
  BY DEF NoStream
<1>7. (Alive(p)' <=> Alive(p)) /\ (Alive(o)' <=> Alive(o)) BY DEF SameLives
<1>8. isLive(p, s)' /\ ~isLive(o, s)' /\ ~Unread(p, s)' /\ Unread(o, s)'
  BY <1>1, <1>2, <1>6 DEF isLive, Live, Unread
<1>9. ~Pays(f) BY DEF Pays
<1>10. Stage(p, s)' BY <1>1, <1>6, <1>7, <1>8 DEF Stage
<1>11. Stage(o, s)' BY <1>1, <1>2, <1>7, <1>8 DEF Link, Stage
<1>12. Lines(p, s)' BY <1>5, <1>6, <1>8 DEF Lines, Grown, InOrder
<1>13. Lines(o, s)' BY <1>3, OnFacts DEF Lines, Kept, InOrder
<1>14. Opening(p, o, s)' BY <1>1, <1>8 DEF Opening, Grown
<1>15. Opening(o, p, s)' BY <1>1 DEF Opening
<1>16. Ends(p, o, s)' BY <1>2, <1>5, <1>6 DEF Ends, Grown, Heard, Ended
<1>17. Ends(o, p, s)' BY <1>2, <1>3, <1>6 DEF Ends, Kept, Heard, Ended
<1>18. Counts(p, o, s)' BY <1>2, <1>5, <1>6, <1>9 DEF Counts, Grown, Heard
<1>19. Counts(o, p, s)' BY <1>2, <1>3, <1>6 DEF Counts, Kept, Heard, MayEnd
<1>20. Closes(p, o, s)' BY <1>6 DEF Closes, Refused, Cut
<1>21. Closes(o, p, s)' BY <1>1, <1>2 DEF Closes, Refused, Cut
<1> QED BY <1>10, <1>11, <1>12, <1>13, <1>14, <1>15, <1>16, <1>17, <1>18, <1>19, <1>20, <1>21 DEF Link

(* A handler goes on without a word.                                       *)
LEMMA HandlerMoves ==
  ASSUME RefusalInv, Shape', Calm, NEW p \in Peers, NEW o \in Peers, o = Other(p), NEW s \in Streams,
         Link(p, o, s), Link(o, p, s), view'[o][s] = view[o][s], Kept(p, s), Kept(o, s),
         NEW u, u = view[p][s], NEW v, v = view'[p][s], s \notin Ids(p), u.state # "idle",
         v.state = u.state, v.cause = u.cause, v.opening = u.opening, v.sent = u.sent, v.got = u.got,
         v.handler \in {"running", "returned", "raised"}, v.ran,
         isLive(p, s) => v.handler # "raised"
  PROVE  Link(p, o, s)' /\ Link(o, p, s)'
<1>1. /\ s \in Nat /\ next[p] \in Nat /\ high[p] \in Nat /\ p = Other(o) /\ high[o] \in Nat
  BY SideFacts, PeerFacts
<1>2. (Alive(p)' <=> Alive(p)) /\ (Alive(o)' <=> Alive(o)) /\ UNCHANGED <<next, high, promised>>
  BY DEF Calm, SameLives
<1>3. (isLive(p, s)' <=> isLive(p, s)) /\ (isLive(o, s)' <=> isLive(o, s)) BY DEF isLive
<1>4. (Unread(p, s)' <=> Unread(p, s)) /\ (Unread(o, s)' <=> Unread(o, s)) BY <1>2 DEF Unread
<1>5. (Hears(p, s)' <=> Hears(p, s)) /\ (Hears(o, s)' <=> Hears(o, s)) BY <1>2, <1>3, <1>4 DEF Hears
<1>6. (Speaks(p, s)' <=> Speaks(p, s)) /\ (Speaks(o, s)' <=> Speaks(o, s))
  BY <1>2 DEF Speaks, Calm, SameLives
<1>7. (Heard(v) <=> Heard(u)) /\ (Ended(v) <=> Ended(u)) /\ (MayEnd(v) <=> MayEnd(u)) /\ (Cut(v) <=> Cut(u))
  BY DEF Heard, Ended, MayEnd, Cut
<1>8. Stage(p, s)' BY <1>2, <1>3 DEF Link, Stage
<1>9. Stage(o, s)' BY <1>2, <1>3 DEF Link, Stage
<1>10. Lines(p, s)' /\ Lines(o, s)' BY <1>4, <1>5 DEF Link, Lines, Kept, InOrder
<1>11. Opening(p, o, s)' BY DEF Opening
<1>12. Opening(o, p, s)' BY <1>1, <1>2, <1>3, <1>5 DEF Link, Opening, Kept
<1>13. Ends(p, o, s)' BY <1>5, <1>6, <1>7 DEF Link, Ends, Kept
<1>14. Ends(o, p, s)' BY <1>5, <1>6, <1>7 DEF Link, Ends, Kept
<1>15. Counts(p, o, s)' BY <1>5, <1>7 DEF Link, Counts, Kept
<1>16. Counts(o, p, s)' BY <1>5, <1>7 DEF Link, Counts, Kept
<1>17. Refused(p, s)' => Refused(p, s) BY <1>2 DEF Refused
<1>18. Refused(o, s)' => Refused(o, s) BY <1>2 DEF Refused
<1>19. Closes(p, o, s)' BY <1>2, <1>5, <1>6, <1>7, <1>17 DEF Link, Closes, Kept
<1>20. Closes(o, p, s)' BY <1>2, <1>5, <1>6, <1>18 DEF Link, Closes, Kept
<1> QED BY <1>8, <1>9, <1>10, <1>11, <1>12, <1>13, <1>14, <1>15, <1>16, <1>19, <1>20 DEF Link

(* This side is over: closed by what is not a normal end.                  *)
Over(p, s) ==
    /\ view'[p][s].state = "closed"
    /\ view'[p][s].cause \notin {"none", "normal", "PROTOCOL_ERROR"}
    /\ view'[p][s].opening => view[p][s].opening
    /\ view'[p][s].sent = view[p][s].sent
    /\ view'[p][s].got = view[p][s].got
    /\ view'[p][s].handler \in {"running", "returned", "raised"} => view'[p][s].ran
    /\ s \in Ids(p) => view'[p][s].handler = "none"

(* The application resets the stream, or its handler fails.                *)
LEMMA Cancelling ==
  ASSUME RefusalInv, Shape', Calm, NEW p \in Peers, NEW o \in Peers, o = Other(p), NEW s \in Streams,
         Link(p, o, s), Link(o, p, s), view'[o][s] = view[o][s],
         isLive(p, s), ~view[p][s].opening, Over(p, s), Struck(p, s), Kept(o, s)
  PROVE  Link(p, o, s)' /\ Link(o, p, s)'
<1> DEFINE u == view[p][s]
           v == view'[p][s]
           w == view[o][s]
<1>1. /\ s \in Nat /\ next[p] \in Nat /\ high[p] \in Nat /\ p = Other(o) /\ high[o] \in Nat
      /\ (s \in Ids(p) <=> s \notin Ids(o))
  BY SideFacts, PeerFacts
<1>2. (Alive(p)' <=> Alive(p)) /\ (Alive(o)' <=> Alive(o)) /\ UNCHANGED <<next, high, promised>>
  BY DEF Calm, SameLives
<1>3. /\ Alive(p) /\ ~Unread(p, s) /\ u.state # "idle" /\ u.state # "closed" /\ u.cause = "none"
      /\ (s \notin Ids(p) => s <= high[p]) /\ (s \in Ids(p) => s < next[p])
  BY <1>1, SideFacts
<1>4. /\ v.state = "closed" /\ v.cause \notin {"none", "normal", "PROTOCOL_ERROR"} /\ (v.opening => u.opening)
      /\ v.sent = u.sent /\ v.got = u.got
      /\ (v.handler \in {"running", "returned", "raised"} => v.ran) /\ (s \in Ids(p) => v.handler = "none")
  BY DEF Over
<1>5. /\ ~isLive(p, s)' /\ (isLive(o, s)' <=> isLive(o, s))
      /\ ~Unread(p, s)' /\ (Unread(o, s)' <=> Unread(o, s))
  BY <1>2, <1>3, <1>4 DEF isLive, Live, Unread
<1>6. ~Hears(p, s)' /\ (Hears(o, s)' <=> Hears(o, s)) BY <1>2, <1>5 DEF Hears
<1>7. ~Heard(v) /\ ~Ended(v) /\ ~MayEnd(v) BY <1>4 DEF Heard, Ended, MayEnd
<1>8. Stage(p, s)' BY <1>1, <1>2, <1>3, <1>4, <1>5 DEF Link, Stage
<1>9. Stage(o, s)' BY <1>2, <1>5 DEF Link, Stage
<1>10. Lines(p, s)' BY <1>4, <1>5, <1>6 DEF Link, Lines, Struck, InOrder
<1>11. Lines(o, s)' BY <1>5, <1>6 DEF Link, Lines, Kept, InOrder
<1>12. Opening(p, o, s)'
  <2> SUFFICES ASSUME s \in Ids(p) PROVE Opening(p, o, s)' BY DEF Opening
  <2> QED BY <1>1, <1>2, <1>3, <1>5 DEF Link, Opening, Struck
<1>13. Opening(o, p, s)'
  <2> SUFFICES ASSUME s \in Ids(o) PROVE Opening(o, p, s)' BY DEF Opening
  <2> QED BY <1>1, <1>2, <1>3, <1>5, <1>6, OnFacts DEF Link, Opening, Kept
<1>14. Ends(p, o, s)' BY <1>4, <1>7 DEF Link, Ends, Struck
<1>15. Ends(o, p, s)' BY <1>4, <1>6, <1>7 DEF Link, Ends, Kept
<1>16. Counts(p, o, s)' BY <1>4, <1>6, <1>7 DEF Link, Counts, Struck
<1>17. Counts(o, p, s)' BY <1>4, <1>6, <1>7 DEF Link, Counts, Kept
<1>18. Closes(p, o, s)' BY DEF Closes, Struck
<1>19. Closes(o, p, s)' BY <1>6 DEF Closes
<1> QED BY <1>8, <1>9, <1>10, <1>11, <1>12, <1>13, <1>14, <1>15, <1>16, <1>17, <1>18, <1>19 DEF Link

(* A reset arrives.                                                        *)
LEMMA Closing ==
  ASSUME RefusalInv, Shape', Calm, NEW p \in Peers, NEW o \in Peers, o = Other(p), NEW s \in Streams,
         Link(p, o, s), Link(o, p, s), view'[o][s] = view[o][s],
         isLive(p, s), Over(p, s), Dropped(p, s), NEW x, x.frame.type = "reset", Taken(o, s, x)
  PROVE  Link(p, o, s)' /\ Link(o, p, s)'
<1> DEFINE u == view[p][s]
           v == view'[p][s]
           w == view[o][s]
<1>1. /\ s \in Nat /\ next[p] \in Nat /\ high[p] \in Nat /\ p = Other(o) /\ high[o] \in Nat
      /\ (s \in Ids(p) <=> s \notin Ids(o))
  BY SideFacts, PeerFacts
<1>2. (Alive(p)' <=> Alive(p)) /\ (Alive(o)' <=> Alive(o)) /\ UNCHANGED <<next, high, promised>>
  BY DEF Calm, SameLives
<1>3. /\ Alive(p) /\ ~Unread(p, s) /\ u.state # "idle" /\ u.state # "closed" /\ u.cause = "none"
      /\ (s \notin Ids(p) => s <= high[p]) /\ (s \in Ids(p) => s < next[p]) /\ ~ResetOn(p, s)
  BY <1>1, SideFacts
<1>4. /\ v.state = "closed" /\ v.cause \notin {"none", "normal", "PROTOCOL_ERROR"} /\ (v.opening => u.opening)
      /\ v.sent = u.sent /\ v.got = u.got
      /\ (v.handler \in {"running", "returned", "raised"} => v.ran) /\ (s \in Ids(p) => v.handler = "none")
  BY DEF Over
<1>5. /\ ~isLive(p, s)' /\ (isLive(o, s)' <=> isLive(o, s))
      /\ ~Unread(p, s)' /\ (Unread(o, s)' <=> Unread(o, s))
  BY <1>2, <1>3, <1>4 DEF isLive, Live, Unread
<1>6. ~Hears(p, s)' /\ (Hears(o, s)' <=> Hears(o, s)) BY <1>2, <1>5 DEF Hears
<1>7. ~Heard(v) /\ ~Ended(v) /\ ~MayEnd(v) BY <1>4 DEF Heard, Ended, MayEnd
<1>8. ~Hears(o, s)' /\ Fewer(o, s) /\ Fewer(p, s)
  <2>1. ResetOn(o, s) BY DEF Taken
  <2> QED BY <1>1, <1>6, <2>1, SideFacts DEF Taken, Dropped
<1>9. ~AnyOn(o, s)' /\ ~OpenOn(o, s)' /\ ~FirstOn(o, s)' /\ ~DataOn(o, s)' /\ ~ResetOn(o, s)' /\ ~EndsOn(o, s)' /\ ~EndOn(o, s)'
  <2>1. ~AnyOn(o, s)' BY DEF Taken
  <2> QED BY <1>8, <2>1, OnFacts DEF AnyOn, OpenOn, FirstOn, DataOn, ResetOn, EndsOn, EndOn
<1>10. Stage(p, s)' BY <1>1, <1>2, <1>3, <1>4, <1>5 DEF Link, Stage
<1>11. Stage(o, s)' BY <1>2, <1>5 DEF Link, Stage
<1>12. Lines(p, s)' BY <1>3, <1>4, <1>5, <1>8 DEF Link, Lines, Fewer, InOrder
<1>13. Lines(o, s)' BY <1>8, <1>9 DEF Link, Lines, Fewer, InOrder
<1>14. Opening(p, o, s)'
  <2> SUFFICES ASSUME s \in Ids(p) PROVE Opening(p, o, s)' BY DEF Opening
  <2> QED BY <1>1, <1>2, <1>3, <1>5, <1>8 DEF Link, Opening, Dropped, Fewer
<1>15. Opening(o, p, s)'
  <2> SUFFICES ASSUME s \in Ids(o) PROVE Opening(o, p, s)' BY DEF Opening
  <2> QED BY <1>1, <1>2, <1>3, <1>5, <1>6, <1>9 DEF Opening
<1>16. Ends(p, o, s)' BY <1>4, <1>7, <1>8 DEF Link, Ends, Fewer
<1>17. Ends(o, p, s)' BY <1>6, <1>7, <1>9 DEF Ends
<1>18. Counts(p, o, s)' BY <1>4, <1>8 DEF Link, Counts
<1>19. Counts(o, p, s)' BY <1>4, <1>6, <1>7 DEF Link, Counts
<1>20. Closes(p, o, s)' BY <1>8 DEF Closes
<1>21. Closes(o, p, s)' BY <1>6 DEF Closes
<1> QED BY <1>10, <1>11, <1>12, <1>13, <1>14, <1>15, <1>16, <1>17, <1>18, <1>19, <1>20, <1>21 DEF Link

(* A goaway cuts a stream its sender will never take.                      *)
LEMMA Cutting ==
  ASSUME RefusalInv, Shape', Calm, NEW p \in Peers, NEW o \in Peers, o = Other(p), NEW s \in Ids(p),
         Link(p, o, s), Link(o, p, s), view'[o][s] = view[o][s], Never(o, s),
         isLive(p, s), Over(p, s), view'[p][s].cause = "REFUSED", Kept(p, s), Kept(o, s)
  PROVE  Link(p, o, s)' /\ Link(o, p, s)'
<1> DEFINE u == view[p][s]
           v == view'[p][s]
           w == view[o][s]
<1> s \in Streams BY PeerFacts
<1>1. /\ s \in Nat /\ next[p] \in Nat /\ high[p] \in Nat /\ p = Other(o) /\ high[o] \in Nat
      /\ (s \in Ids(p) <=> s \notin Ids(o))
  BY SideFacts, PeerFacts
<1>2. (Alive(p)' <=> Alive(p)) /\ (Alive(o)' <=> Alive(o)) /\ UNCHANGED <<next, high, promised>>
  BY DEF Calm, SameLives
<1>3. /\ Alive(p) /\ ~Unread(p, s) /\ u.state # "idle" /\ u.state # "closed" /\ u.cause = "none"
      /\ (s \notin Ids(p) => s <= high[p]) /\ (s \in Ids(p) => s < next[p]) /\ ~ResetOn(p, s)
  BY <1>1, SideFacts
<1>4. /\ v.state = "closed" /\ v.cause = "REFUSED" /\ (v.opening => u.opening)
      /\ v.sent = u.sent /\ v.got = u.got
      /\ (v.handler \in {"running", "returned", "raised"} => v.ran) /\ (s \in Ids(p) => v.handler = "none")
  BY DEF Over
<1>5. /\ ~isLive(p, s)' /\ (isLive(o, s)' <=> isLive(o, s))
      /\ ~Unread(p, s)' /\ (Unread(o, s)' <=> Unread(o, s))
  BY <1>2, <1>3, <1>4 DEF isLive, Live, Unread
<1>6. ~Hears(p, s)' /\ (Hears(o, s)' <=> Hears(o, s)) BY <1>2, <1>5 DEF Hears
<1>7. ~Heard(v) /\ ~Ended(v) /\ ~MayEnd(v) BY <1>4 DEF Heard, Ended, MayEnd
<1>8. Hears(o, s) => w.opening \/ s > high[o]
  <2> HAVE Hears(o, s)
  <2>1. CASE Unread(o, s) BY <2>1 DEF Unread
  <2>2. CASE isLive(o, s)
    <3>1. w.handler # "scheduled" /\ ~w.ran BY DEF Never
    <3>2. Stage(o, s) BY DEF Link
    <3>3. w.handler \notin {"scheduled", "running", "returned"} BY <3>1, <3>2 DEF Stage
    <3> QED BY <1>1, <2>2, <3>2, <3>3 DEF Stage
  <2> QED BY <2>1, <2>2 DEF Hears
<1>10. Stage(p, s)' BY <1>1, <1>2, <1>3, <1>4, <1>5 DEF Link, Stage
<1>11. Stage(o, s)' BY <1>2, <1>5 DEF Link, Stage
<1>12. Lines(p, s)' BY <1>3, <1>4, <1>5 DEF Link, Lines, Kept, InOrder
<1>13. Lines(o, s)' BY <1>5, <1>6 DEF Link, Lines, Kept, InOrder
<1>14. Opening(p, o, s)' BY <1>1, <1>2, <1>5, <1>6 DEF Link, Opening, Kept
<1>15. Opening(o, p, s)' BY <1>1 DEF Opening
<1>16. Ends(p, o, s)' BY <1>4, <1>7 DEF Link, Ends, Kept
<1>17. Ends(o, p, s)' BY <1>4, <1>6, <1>7 DEF Link, Ends, Kept
<1>18. Counts(p, o, s)' BY <1>4, <1>6, <1>7 DEF Link, Counts, Kept
<1>19. Counts(o, p, s)' BY <1>4, <1>6, <1>7 DEF Link, Counts, Kept
<1>20. Closes(p, o, s)' BY <1>2, <1>4, <1>6, <1>8 DEF Closes
<1>21. Closes(o, p, s)' BY <1>6 DEF Closes
<1> QED BY <1>10, <1>11, <1>12, <1>13, <1>14, <1>15, <1>16, <1>17, <1>18, <1>19, <1>20, <1>21 DEF Link

(* A fragment of an `open` is read by p: `high` may become s.              *)
Reaches(p, s) ==
    /\ SameLives /\ UNCHANGED <<next, promised>>
    /\ high'[Other(p)] = high[Other(p)] /\ s <= high'[p]
    /\ IF s > high[p] THEN view[p][s] = NoStream ELSE isLive(p, s) /\ view[p][s].opening

LEMMA ReachFacts ==
  ASSUME RefusalInv, Shape', NEW p \in Peers, NEW o \in Peers, o = Other(p), NEW s \in Ids(o),
         Link(p, o, s), Link(o, p, s), view'[o][s] = view[o][s], Reaches(p, s), Alive(p),
         NEW x, x.frame.type = "open", Taken(o, s, x)
  PROVE  /\ s \in Streams /\ s \in Nat /\ s \notin Ids(p) /\ p = Other(o)
         /\ high[p] \in Nat /\ high'[p] \in Nat /\ s <= high'[p]
         /\ (Alive(p)' <=> Alive(p)) /\ (Alive(o)' <=> Alive(o)) /\ Hears(p, s) /\ ~ResetOn(p, s)
         /\ (isLive(o, s)' <=> isLive(o, s)) /\ (Unread(o, s)' <=> Unread(o, s)) /\ ~Unread(p, s)'
         /\ (Hears(o, s)' <=> Hears(o, s)) /\ (Speaks(o, s)' <=> Speaks(o, s))
         /\ view[p][s].cause = "none" /\ ~EndsOn(p, s) /\ ~EndOn(p, s) /\ ~Heard(view[o][s])
         /\ (Hears(o, s) => view[o][s].got + PaidOn(p, s) = view[p][s].sent)
         /\ (s > high[p] => ~AnyOn(p, s) /\ ~DataOn(p, s))
         /\ Stage(o, s)' /\ Lines(o, s)' /\ ~FirstOn(o, s)' /\ Fewer(o, s)
         /\ (OpenOn(o, s)' => ~IsLast(x))
         /\ UNCHANGED <<next, promised>> /\ high'[o] = high[o]
         /\ view[p][s].state \in {"idle", "open", "half_closed_remote"}
         /\ (view[o][s].state = "idle" => view[p][s].got = 0)
<1> s \in Streams BY PeerFacts
<1>1. /\ s \in Nat /\ s \notin Ids(p) /\ p = Other(o) /\ high[p] \in Nat /\ high'[p] \in Nat /\ s <= high'[p]
      /\ high'[o] = high[o] /\ UNCHANGED <<next, promised>>
  BY SideFacts, PeerFacts DEF Reaches, Shape
<1>2. (Alive(p)' <=> Alive(p)) /\ (Alive(o)' <=> Alive(o)) /\ setup' = setup BY DEF Reaches, SameLives
<1>3. Hears(p, s) BY <1>1 DEF Reaches, Hears, Unread
<1>4. ~ResetOn(p, s) BY <1>1, <1>3, SideFacts
<1>5. (isLive(o, s)' <=> isLive(o, s)) /\ (Unread(o, s)' <=> Unread(o, s)) /\ ~Unread(p, s)'
  BY <1>1 DEF isLive, Unread
<1>6. (Hears(o, s)' <=> Hears(o, s)) /\ (Speaks(o, s)' <=> Speaks(o, s))
  BY <1>1, <1>2, <1>5 DEF Hears, Speaks
<1>8. ASSUME ~(s > high[p])
      PROVE  /\ view[p][s].cause = "none" /\ view[p][s].state \in {"open", "half_closed_remote"}
             /\ (Hears(o, s) => view[o][s].got + PaidOn(p, s) = view[p][s].sent)
             /\ (view[o][s].state = "idle" => view[p][s].got = 0)
  <2>1. isLive(p, s) /\ view[p][s].opening BY <1>8 DEF Reaches
  <2>2. view[p][s].state \in {"open", "half_closed_remote"} /\ view[p][s].cause = "none"
    <3>1. Stage(p, s) BY DEF Link
    <3> QED BY <1>1, <2>1, <3>1, SideFacts DEF Stage
  <2>3. Hears(o, s) => view[o][s].got + PaidOn(p, s) = view[p][s].sent
    BY <2>2 DEF Link, Counts, MayEnd
  <2>4. view[o][s].state = "idle" => view[p][s].got = 0 BY <1>1 DEF Link, Counts
  <2> QED BY <2>2, <2>3, <2>4
<1>9. /\ view[p][s].cause = "none" /\ view[p][s].state \in {"idle", "open", "half_closed_remote"}
      /\ (Hears(o, s) => view[o][s].got + PaidOn(p, s) = view[p][s].sent)
      /\ (s > high[p] => ~AnyOn(p, s) /\ ~DataOn(p, s))
      /\ (view[o][s].state = "idle" => view[p][s].got = 0)
  <2>1. s > high[p] => view[o][s].got + PaidOn(p, s) = view[p][s].sent
    <3> HAVE s > high[p]
    <3>1. view[p][s].state = "idle" /\ view[p][s].sent = 0 BY DEF Reaches, NoStream
    <3>2. ~AnyOn(p, s) BY <1>1, SideFacts DEF Unread
    <3>3. PaidOn(p, s) = 0 BY <3>2, OnFacts, SideFacts
    <3>4. view[o][s].got = 0 BY <3>1 DEF Link, Counts
    <3> QED BY <3>1, <3>3, <3>4
  <2>2. s > high[p] => view[p][s].state = "idle" /\ view[p][s].cause = "none" /\ view[p][s].got = 0 /\ ~AnyOn(p, s)
    BY <1>1, SideFacts DEF Reaches, NoStream, Unread
  <2> QED BY <1>8, <2>1, <2>2, OnFacts
<1>10. ~EndsOn(p, s) /\ ~Heard(view[o][s]) /\ ~EndOn(p, s) BY <1>9, OnFacts DEF Link, Ends
<1>11. Fewer(o, s) /\ ~FirstOn(o, s)' /\ (OpenOn(o, s)' => ~IsLast(x)) BY DEF Taken
<1>12. Stage(o, s)' BY <1>1, <1>2, <1>5 DEF Link, Stage
<1>13. Lines(o, s)' BY <1>5, <1>6, <1>11 DEF Link, Lines, Fewer, InOrder
<1> QED BY <1>1, <1>2, <1>3, <1>4, <1>5, <1>6, <1>9, <1>10, <1>11, <1>12, <1>13

(* The stream is refused, before it is known or when its `open` completes. *)
LEMMA Refusing ==
  ASSUME RefusalInv, Shape', NEW p \in Peers, NEW o \in Peers, o = Other(p), NEW s \in Ids(o),
         Link(p, o, s), Link(o, p, s), view'[o][s] = view[o][s], Reaches(p, s), Alive(p),
         NEW x, x.frame.type = "open", Taken(o, s, x), WithinLimit => IsLast(x),
         (view'[p][s] = NoStream /\ s > high[p]) \/ Over(p, s),
         Struck(p, s)
  PROVE  Link(p, o, s)' /\ Link(o, p, s)'
<1> DEFINE u == view[p][s]
           v == view'[p][s]
           w == view[o][s]
<1>1. /\ s \in Streams /\ s \in Nat /\ s \notin Ids(p) /\ p = Other(o)
      /\ high[p] \in Nat /\ high'[p] \in Nat /\ s <= high'[p]
      /\ (Alive(p)' <=> Alive(p)) /\ (Alive(o)' <=> Alive(o)) /\ Hears(p, s) /\ ~ResetOn(p, s)
      /\ (isLive(o, s)' <=> isLive(o, s)) /\ (Unread(o, s)' <=> Unread(o, s)) /\ ~Unread(p, s)'
      /\ (Hears(o, s)' <=> Hears(o, s)) /\ (Speaks(o, s)' <=> Speaks(o, s))
      /\ ~EndsOn(p, s) /\ ~EndOn(p, s) /\ ~Heard(w) /\ ~FirstOn(o, s)' /\ Fewer(o, s)
      /\ (w.state = "idle" => u.got = 0) /\ (OpenOn(o, s)' => ~IsLast(x)) /\ (s > high[p] => ~DataOn(p, s))
  BY ReachFacts
<1>2. Stage(o, s)' /\ Lines(o, s)' BY ReachFacts
<1>3. (v = NoStream /\ u = NoStream /\ s > high[p]) \/ Over(p, s) BY DEF Reaches
<1>4. /\ v.state \in {"idle", "closed"} /\ v.cause # "normal" /\ v.cause # "PROTOCOL_ERROR"
      /\ (v.cause = "none" <=> v.state = "idle") /\ v.sent = u.sent /\ v.got = u.got
      /\ (v.state = "idle" => v = NoStream /\ u.state = "idle" /\ s > high[p])
      /\ (v.handler \in {"running", "returned", "raised"} => v.ran)
  BY <1>3 DEF Over, NoStream
<1>5. ~isLive(p, s)' /\ ~Hears(p, s)' BY <1>1, <1>4 DEF isLive, Live, Hears
<1>6. ~Heard(v) /\ ~Ended(v) /\ ~MayEnd(v) BY <1>4 DEF Heard, Ended, MayEnd
<1>7. ~EndsOn(p, s)' /\ ~EndOn(p, s)' BY <1>1 DEF Struck
<1>8. Stage(p, s)' BY <1>1, <1>4, <1>5 DEF Stage
<1>9. Lines(p, s)' BY <1>1, <1>4, <1>5 DEF Link, Lines, Struck, InOrder
<1>10. Opening(p, o, s)' BY <1>1 DEF Opening
<1>11. Opening(o, p, s)' BY <1>1, <1>5 DEF Opening
<1>12. Ends(p, o, s)' BY <1>1, <1>6, <1>7 DEF Link, Ends, Struck
<1>13. Ends(o, p, s)' BY <1>1, <1>4, <1>5, <1>6 DEF Link, Ends, Fewer
<1>14. Counts(p, o, s)' BY <1>1, <1>4, <1>6, <1>7 DEF Link, Counts
<1>15. Counts(o, p, s)' BY <1>1, <1>4, <1>5, <1>6 DEF Counts
<1>16. Closes(p, o, s)' BY DEF Closes, Struck
<1>17. Closes(o, p, s)' BY <1>5 DEF Closes
<1> QED BY <1>2, <1>8, <1>9, <1>10, <1>11, <1>12, <1>13, <1>14, <1>15, <1>16, <1>17 DEF Link

(* The `open` completes and a handler is scheduled.                        *)
LEMMA Scheduling ==
  ASSUME RefusalInv, Shape', NEW p \in Peers, NEW o \in Peers, o = Other(p), NEW s \in Ids(o),
         Link(p, o, s), Link(o, p, s), view'[o][s] = view[o][s], Reaches(p, s), Alive(p), promised[p] = None,
         NEW x, x.frame.type = "open", x.frame.end \in BOOLEAN, Taken(o, s, x), IsLast(x), Kept(p, s),
         NEW u, u = view[p][s], NEW v, v = view'[p][s], v.handler = "scheduled", ~v.opening,
         v.sent = u.sent, v.got = u.got, v.cause = u.cause,
         v.state = IF x.frame.end THEN "half_closed_remote"
                   ELSE IF u.state = "idle" THEN "open" ELSE u.state
  PROVE  Link(p, o, s)' /\ Link(o, p, s)'
<1> DEFINE w == view[o][s]
<1>1. /\ s \in Streams /\ s \in Nat /\ s \notin Ids(p) /\ p = Other(o)
      /\ high[p] \in Nat /\ high'[p] \in Nat /\ s <= high'[p]
      /\ (Alive(p)' <=> Alive(p)) /\ (Alive(o)' <=> Alive(o)) /\ Hears(p, s) /\ ~ResetOn(p, s)
      /\ (isLive(o, s)' <=> isLive(o, s)) /\ (Unread(o, s)' <=> Unread(o, s)) /\ ~Unread(p, s)'
      /\ (Hears(o, s)' <=> Hears(o, s)) /\ (Speaks(o, s)' <=> Speaks(o, s))
      /\ ~EndsOn(p, s) /\ ~EndOn(p, s) /\ ~Heard(w) /\ ~FirstOn(o, s)' /\ Fewer(o, s)
      /\ (w.state = "idle" => u.got = 0) /\ ~OpenOn(o, s)'
      /\ u.state \in {"idle", "open", "half_closed_remote"} /\ u.cause = "none"
      /\ (Hears(o, s) => w.got + PaidOn(p, s) = u.sent)
  BY ReachFacts
<1>2. Stage(o, s)' /\ Lines(o, s)' BY ReachFacts
<1>3. /\ v.state \in {"open", "half_closed_remote"} /\ v.cause = "none"
      /\ (v.state = "half_closed_remote" <=> x.frame.end \/ u.state = "half_closed_remote")
  BY <1>1
<1>4. isLive(p, s)' /\ Hears(p, s)' BY <1>1, <1>3 DEF isLive, Live, Hears
<1>5. ~Ended(v) /\ (Heard(v) <=> v.state = "half_closed_remote") /\ MayEnd(v) /\ ~Cut(v)
  BY <1>3 DEF Heard, Ended, MayEnd, Cut
<1>6. /\ PaidOn(o, s)' = PaidOn(o, s) /\ (ResetOn(o, s)' <=> ResetOn(o, s))
      /\ (x.frame.end => EndsOn(o, s) /\ EndOn(o, s) /\ ~DataOn(o, s)' /\ PaidOn(o, s)' = 0)
      /\ (~x.frame.end => (EndOn(o, s)' <=> EndOn(o, s)))
      /\ (DataOn(o, s)' => DataOn(o, s)) /\ (EndsOn(o, s)' => EndsOn(o, s)) /\ (EndOn(o, s)' => EndOn(o, s))
  BY DEF Taken, Fewer
<1>7. u.state = "half_closed_remote" => Heard(u) BY DEF Heard
<1>8. v.got \in Nat BY <1>1, SideFacts
<1>9. Stage(p, s)' BY <1>1, <1>3, <1>4 DEF Stage
<1>10. Lines(p, s)' BY <1>1, <1>3 DEF Link, Lines, Kept, InOrder
<1>11. Opening(p, o, s)' BY <1>1 DEF Opening
<1>12. Opening(o, p, s)' BY <1>1 DEF Opening
<1>13. Ends(p, o, s)' BY <1>1, <1>5 DEF Link, Ends, Kept
<1>14. Ends(o, p, s)'
  <2>1. Ends(o, p, s) BY DEF Link
  <2>2. EndsOn(o, s)' \/ Heard(v) => w.state \in {"half_closed_local", "closed"}
    BY <1>3, <1>5, <1>6, <1>7, <2>1 DEF Ends
  <2>3. DataOn(o, s)' => v.state # "half_closed_remote" BY <1>3, <1>6, <2>1 DEF Ends
  <2>4. Ended(w) /\ Speaks(o, s) => EndOn(o, s)' \/ v.state = "half_closed_remote"
    BY <1>1, <1>3, <1>6, <2>1 DEF Ends
  <2> QED BY <1>1, <2>2, <2>3, <2>4 DEF Ends
<1>15. Counts(p, o, s)' BY <1>1, <1>3, <1>5 DEF Counts, Kept
<1>16. Counts(o, p, s)'
  <2>1. Counts(o, p, s) BY DEF Link
  <2>2. MayEnd(w) \/ EndOn(o, s)' => v.got + PaidOn(o, s)' = w.sent BY <1>1, <1>6, <2>1 DEF Counts
  <2>3. x.frame.end => v.got = w.sent BY <1>1, <1>6, <1>8, <2>1 DEF Counts
  <2>4. Heard(v) => v.got = w.sent BY <1>3, <1>5, <1>7, <2>1, <2>3 DEF Counts
  <2> QED BY <1>1, <2>2, <2>4 DEF Counts
<1>17. Closes(p, o, s)' BY <1>3, <1>5 DEF Closes, Refused
<1>18. Closes(o, p, s)'
  <2>1. w.cause = "REFUSED" => Never(p, s) BY <1>1 DEF RefusalInv, Refusals
  <2>2. w.cause # "REFUSED" BY <1>1, <2>1 DEF Never, Reaches
  <2>3. Refused(o, s)' => Refused(o, s) BY DEF Refused, Reaches
  <2> QED BY <1>1, <1>6, <2>2, <2>3 DEF Link, Closes
<1> QED BY <1>2, <1>9, <1>10, <1>11, <1>12, <1>13, <1>14, <1>15, <1>16, <1>17, <1>18 DEF Link

(* The first of several fragments.                                         *)
LEMMA Beginning ==
  ASSUME RefusalInv, Shape', NEW p \in Peers, NEW o \in Peers, o = Other(p), NEW s \in Ids(o),
         Link(p, o, s), Link(o, p, s), view'[o][s] = view[o][s], Reaches(p, s), Alive(p), s > high[p],
         NEW x, x.frame.type = "open", Taken(o, s, x), ~IsLast(x), Kept(p, s),
         view'[p][s] = [NoStream EXCEPT !.state = "open", !.opening = TRUE]
  PROVE  Link(p, o, s)' /\ Link(o, p, s)'
<1> DEFINE u == view[p][s]
           v == view'[p][s]
           w == view[o][s]
<1>1. /\ s \in Streams /\ s \in Nat /\ s \notin Ids(p) /\ p = Other(o)
      /\ high[p] \in Nat /\ high'[p] \in Nat /\ s <= high'[p]
      /\ (Alive(p)' <=> Alive(p)) /\ (Alive(o)' <=> Alive(o)) /\ Hears(p, s) /\ ~ResetOn(p, s)
      /\ (isLive(o, s)' <=> isLive(o, s)) /\ (Unread(o, s)' <=> Unread(o, s)) /\ ~Unread(p, s)'
      /\ (Hears(o, s)' <=> Hears(o, s)) /\ (Speaks(o, s)' <=> Speaks(o, s))
      /\ ~EndsOn(p, s) /\ ~EndOn(p, s) /\ ~Heard(w) /\ ~FirstOn(o, s)' /\ Fewer(o, s)
      /\ ~AnyOn(p, s) /\ (Hears(o, s) => w.got + PaidOn(p, s) = u.sent)
      /\ UNCHANGED <<next, promised>> /\ high'[o] = high[o]
  BY ReachFacts
<1>2. Stage(o, s)' /\ Lines(o, s)' BY ReachFacts
<1>3. /\ u.state = "idle" /\ u.sent = 0 /\ u.got = 0
      /\ v.state = "open" /\ v.opening /\ v.cause = "none" /\ v.handler = "none" /\ v.sent = 0 /\ v.got = 0
  BY DEF Reaches, NoStream
<1>4. isLive(p, s)' /\ Hears(p, s)' BY <1>1, <1>3 DEF isLive, Live, Hears
<1>5. ~Ended(v) /\ ~Heard(v) /\ ~Cut(v) BY <1>3 DEF Heard, Ended, Cut
<1>6. /\ PaidOn(o, s)' = PaidOn(o, s) /\ (ResetOn(o, s)' <=> ResetOn(o, s))
      /\ (EndOn(o, s)' <=> EndOn(o, s)) /\ (LastOn(o, s)' <=> LastOn(o, s))
  BY DEF Taken
<1>7. Stage(p, s)' BY <1>1, <1>3, <1>4 DEF Stage
<1>8. Lines(p, s)' BY <1>1, <1>3, OnFacts DEF Link, Lines, Kept, InOrder
<1>9. Opening(p, o, s)' BY <1>1 DEF Opening
<1>10. Opening(o, p, s)' BY <1>1, <1>3, <1>4, <1>6 DEF Link, Opening
<1>11. Ends(p, o, s)' BY <1>1, <1>5, OnFacts DEF Ends, Kept
<1>12. Ends(o, p, s)' BY <1>1, <1>3, <1>5, <1>6 DEF Link, Ends, Fewer
<1>13. Counts(p, o, s)' BY <1>1, <1>3 DEF Counts, Kept
<1>14. Counts(o, p, s)' BY <1>1, <1>3, <1>5, <1>6 DEF Link, Counts
<1>15. Closes(p, o, s)' BY <1>3, <1>5 DEF Closes, Refused
<1>16. Refused(o, s)' => Refused(o, s) BY <1>1 DEF Refused
<1>17. Closes(o, p, s)' BY <1>1, <1>3, <1>6, <1>16 DEF Link, Closes
<1> QED BY <1>2, <1>7, <1>8, <1>9, <1>10, <1>11, <1>12, <1>13, <1>14, <1>15, <1>17 DEF Link

(* One of the next.                                                        *)
LEMMA Continuing ==
  ASSUME RefusalInv, Shape', Calm, NEW p \in Peers, NEW o \in Peers, o = Other(p), NEW s \in Ids(o),
         Link(p, o, s), Link(o, p, s), view'[o][s] = view[o][s], view'[p][s] = view[p][s],
         isLive(p, s), view[p][s].opening,
         NEW x, x.frame.type = "open", Taken(o, s, x), ~IsLast(x), Kept(p, s)
  PROVE  Link(p, o, s)' /\ Link(o, p, s)'
<1> s \in Streams BY PeerFacts
<1>1. Shape /\ SameLives /\ p = Other(o) /\ UNCHANGED <<next, high, promised>>
  BY PeerFacts DEF RefusalInv, Calm
<1>2. Speaks(p, s)' => Speaks(p, s) BY <1>1 DEF Speaks, SameLives
<1>3. Link(p, o, s)' BY <1>1, <1>2, Bystander
<1>4. Reaches(p, s)
  <2>1. s <= high[p] BY <1>1, SideFacts
  <2>2. s \in Nat /\ high[p] \in Nat BY SideFacts
  <2> QED BY <1>1, <2>1, <2>2 DEF Reaches
<1>5. Alive(p) BY SideFacts
<1>6. /\ s \in Nat /\ high[p] \in Nat /\ s <= high'[p]
      /\ (Alive(p)' <=> Alive(p)) /\ (Alive(o)' <=> Alive(o)) /\ Hears(p, s)
      /\ (Hears(o, s)' <=> Hears(o, s)) /\ (Speaks(o, s)' <=> Speaks(o, s))
      /\ ~FirstOn(o, s)' /\ Fewer(o, s)
  BY <1>4, <1>5, ReachFacts
<1>7. Stage(o, s)' /\ Lines(o, s)' BY <1>4, <1>5, ReachFacts
<1>8. isLive(p, s)' BY DEF isLive
<1>9. /\ PaidOn(o, s)' = PaidOn(o, s) /\ (ResetOn(o, s)' <=> ResetOn(o, s))
      /\ (EndOn(o, s)' <=> EndOn(o, s)) /\ (LastOn(o, s)' <=> LastOn(o, s))
  BY DEF Taken
<1>10. Opening(o, p, s)' BY <1>1, <1>6, <1>8, <1>9 DEF Link, Opening
<1>11. Ends(o, p, s)' BY <1>6, <1>9 DEF Link, Ends, Fewer
<1>12. Counts(o, p, s)' BY <1>6, <1>9 DEF Link, Counts
<1>13. Refused(o, s)' => Refused(o, s) BY <1>1 DEF Refused
<1>14. Closes(o, p, s)' BY <1>1, <1>6, <1>9, <1>13 DEF Link, Closes
<1> QED BY <1>3, <1>7, <1>10, <1>11, <1>12, <1>14 DEF Link

(* Data arrives.                                                           *)
LEMMA Hearing ==
  ASSUME RefusalInv, Shape', Calm, NEW p \in Peers, NEW o \in Peers, o = Other(p), NEW s \in Streams,
         Link(p, o, s), Link(o, p, s), view'[o][s] = view[o][s], isLive(p, s),
         NEW x, x.frame.type = "data", x.frame.end \in BOOLEAN, x.frame.payload \in BOOLEAN,
         IsLast(x), Taken(o, s, x), Kept(p, s),
         NEW u, u = view[p][s], NEW v, v = view'[p][s],
         v.got = u.got + IF x.frame.payload THEN 1 ELSE 0,
         v.sent = u.sent, v.opening = u.opening, v.handler = u.handler, v.ran = u.ran,
         v.state = (IF ~x.frame.end THEN u.state
                    ELSE IF u.state = "half_closed_local" THEN "closed" ELSE "half_closed_remote"),
         v.cause = (IF x.frame.end /\ u.state = "half_closed_local" THEN "normal" ELSE u.cause)
  PROVE  Link(p, o, s)' /\ Link(o, p, s)'
<1> DEFINE w == view[o][s]
<1>1. /\ s \in Nat /\ next[p] \in Nat /\ high[p] \in Nat /\ p = Other(o) /\ high[o] \in Nat
      /\ (s \in Ids(p) <=> s \notin Ids(o)) /\ PaidOn(o, s) \in Nat /\ u.got \in Nat /\ w.sent \in Nat
  BY SideFacts, PeerFacts
<1>2. (Alive(p)' <=> Alive(p)) /\ (Alive(o)' <=> Alive(o)) /\ UNCHANGED <<next, high, promised>>
  BY DEF Calm, SameLives
<1>3. /\ Alive(p) /\ Hears(p, s) /\ ~Unread(p, s) /\ ~ResetOn(p, s) /\ u.cause = "none"
      /\ u.state \in {"open", "half_closed_local", "half_closed_remote"}
      /\ (s \notin Ids(p) => s <= high[p])
  BY <1>1, SideFacts
<1>4. /\ DataOn(o, s) /\ ~OpenOn(o, s) /\ ~LastOn(o, s) /\ (ResetOn(o, s)' <=> ResetOn(o, s))
      /\ PaidOn(o, s) = PaidOn(o, s)' + IF x.frame.payload THEN 1 ELSE 0
      /\ (x.frame.end => EndsOn(o, s) /\ EndOn(o, s) /\ ~DataOn(o, s)' /\ PaidOn(o, s)' = 0)
      /\ (~x.frame.end => (EndOn(o, s)' <=> EndOn(o, s)))
      /\ Fewer(o, s)
  BY DEF Taken
<1>5. /\ ~OpenOn(o, s)' /\ ~FirstOn(o, s)' /\ (EndOn(o, s)' => EndOn(o, s)) /\ (EndsOn(o, s)' => EndsOn(o, s))
      /\ (DataOn(o, s)' => DataOn(o, s))
  BY <1>4, OnFacts DEF Fewer
<1>6. u.state \in {"open", "half_closed_local"} BY <1>3, <1>4 DEF Link, Ends
<1>7. /\ v.state \in {"open", "half_closed_local", "half_closed_remote", "closed"}
      /\ (v.state = "closed" <=> x.frame.end /\ u.state = "half_closed_local")
      /\ (v.state = "half_closed_remote" <=> x.frame.end /\ u.state = "open")
      /\ (v.state = "half_closed_local" <=> ~x.frame.end /\ u.state = "half_closed_local")
      /\ (v.state = "closed" => v.cause = "normal") /\ (v.state # "closed" => v.cause = "none")
  BY <1>3, <1>6
<1>8. /\ (isLive(p, s)' => v.state # "closed") /\ (isLive(o, s)' <=> isLive(o, s))
      /\ ~Unread(p, s)' /\ (Unread(o, s)' <=> Unread(o, s))
  BY <1>2, <1>3 DEF isLive, Live, Unread
<1>9. /\ (Hears(p, s)' => v.state # "closed") /\ (Hears(o, s)' <=> Hears(o, s))
      /\ (Speaks(o, s)' <=> Speaks(o, s)) /\ Speaks(p, s) /\ Speaks(p, s)'
  BY <1>2, <1>3, <1>8 DEF Hears, Speaks, Calm, SameLives
<1>10. /\ (Heard(v) <=> x.frame.end) /\ ~Cut(v) /\ (Ended(v) => Ended(u)) /\ (MayEnd(v) => MayEnd(u))
  BY <1>3, <1>6, <1>7 DEF Heard, Cut, Ended, MayEnd
<1>11. Stage(p, s)' BY <1>1, <1>2, <1>3, <1>7, <1>8 DEF Link, Stage
<1>12. Stage(o, s)' BY <1>2, <1>8 DEF Link, Stage
<1>13. Lines(p, s)' BY <1>3, <1>7, <1>8 DEF Link, Lines, Kept, InOrder
<1>14. Lines(o, s)' BY <1>4, <1>8, <1>9 DEF Link, Lines, Fewer, InOrder
<1>15. Opening(p, o, s)'
  <2> SUFFICES ASSUME s \in Ids(p) PROVE Opening(p, o, s)' BY DEF Opening
  <2> QED BY <1>1, <1>2, <1>3, <1>8, <1>9 DEF Link, Opening, Kept
<1>16. Opening(o, p, s)'
  <2> SUFFICES ASSUME s \in Ids(o) PROVE Opening(o, p, s)' BY DEF Opening
  <2> QED BY <1>1, <1>2, <1>3, <1>4, <1>5 DEF Link, Opening
<1>17. Ends(p, o, s)'
  <2>1. Ends(p, o, s) BY DEF Link
  <2>2. EndsOn(p, s) \/ Heard(w) => u.state = "half_closed_local" BY <1>6, <2>1 DEF Ends
  <2>3. u.state = "half_closed_local" => v.state \in {"half_closed_local", "closed"} BY <1>7
  <2> QED BY <1>9, <1>10, <2>1, <2>2, <2>3 DEF Ends, Kept
<1>18. Ends(o, p, s)'
  <2>1. Ends(o, p, s) BY DEF Link
  <2>2. Ended(w) /\ Speaks(o, s) => EndOn(o, s) BY <1>3, <1>6, <2>1 DEF Ends
  <2> QED BY <1>4, <1>5, <1>6, <1>7, <1>9, <1>10, <2>1, <2>2 DEF Ends
<1>19. Counts(p, o, s)' BY <1>7, <1>9, <1>10 DEF Link, Counts, Kept
<1>20. Counts(o, p, s)'
  <2>1. Counts(o, p, s) BY DEF Link
  <2>2. w.state # "idle" BY <1>4 DEF Link, Lines
  <2>3. MayEnd(w) \/ EndOn(o, s) => u.got + PaidOn(o, s) = w.sent BY <1>3, <2>1 DEF Counts
  <2>4. PaidOn(o, s)' \in Nat BY DEF Taken
  <2>5. MayEnd(w) \/ EndOn(o, s)' => v.got + PaidOn(o, s)' = w.sent BY <1>1, <1>4, <1>5, <2>3, <2>4
  <2>6. x.frame.end => v.got = w.sent BY <1>1, <1>4, <2>3
  <2> QED BY <1>10, <2>2, <2>5, <2>6 DEF Counts
<1>21. Closes(p, o, s)' BY <1>7, <1>10 DEF Closes, Refused
<1>22. Closes(o, p, s)'
  <2>1. Refused(o, s)' => Refused(o, s) BY <1>2 DEF Refused
  <2> QED BY <1>2, <1>3, <1>4, <1>9, <2>1 DEF Link, Closes
<1> QED BY <1>11, <1>12, <1>13, <1>14, <1>15, <1>16, <1>17, <1>18, <1>19, <1>20, <1>21, <1>22 DEF Link

(* The peer dies.                                                          *)
LEMMA Dying ==
  ASSUME RefusalInv, Shape', UNCHANGED <<next, high, promised, setup>>,
         NEW p \in Peers, NEW o \in Peers, o = Other(p), NEW s \in Streams,
         Link(p, o, s), Link(o, p, s), view'[o][s] = view[o][s],
         Alive(p), ~Alive(p)', Alive(o)' <=> Alive(o),
         IF isLive(p, s) THEN Over(p, s) /\ view'[p][s].cause = "CONNECTION_CLOSED"
                         ELSE view'[p][s] = view[p][s],
         Broken(p, s), Fewer(o, s), Speaks(p, s)' /\ Alive(o) => Kept(p, s)
  PROVE  Link(p, o, s)' /\ Link(o, p, s)'
<1> DEFINE u == view[p][s]
           v == view'[p][s]
           w == view[o][s]
<1>1. /\ s \in Nat /\ next[p] \in Nat /\ high[p] \in Nat /\ p = Other(o) /\ high[o] \in Nat
      /\ (s \in Ids(p) <=> s \notin Ids(o))
      /\ u.state \in {"idle", "open", "half_closed_local", "half_closed_remote", "closed"}
      /\ (isLive(p, s) <=> u.state \in {"open", "half_closed_local", "half_closed_remote"})
  BY SideFacts, PeerFacts
<1>2. (isLive(p, s) /\ v.state = "closed" /\ v.cause = "CONNECTION_CLOSED") \/ (~isLive(p, s) /\ v = u)
  BY DEF Over
<1>3. v.got = u.got /\ v.sent = u.sent BY <1>2 DEF Over
<1>4. ~isLive(p, s)' /\ (isLive(o, s)' <=> isLive(o, s)) BY <1>1, <1>2 DEF isLive, Live
<1>5. (Unread(p, s)' <=> Unread(p, s)) /\ (Unread(o, s)' <=> Unread(o, s)) BY DEF Unread
<1>6. ~Hears(p, s)' /\ (Hears(o, s)' <=> Hears(o, s)) BY <1>4, <1>5 DEF Hears
<1>7. Fewer(p, s) BY DEF Broken
<1>8. /\ (Heard(v) => v = u) /\ ~MayEnd(v) /\ (Heard(v) => u.cause = "normal")
  BY <1>1, <1>2 DEF Heard, MayEnd
<1>9. Stage(p, s)' BY <1>1, <1>2, <1>4 DEF Link, Stage, Over
<1>10. Stage(o, s)' BY <1>4 DEF Link, Stage
<1>11. Lines(p, s)' BY <1>1, <1>2, <1>5, <1>6, <1>7 DEF Link, Lines, Fewer, InOrder
<1>12. Lines(o, s)' BY <1>5, <1>6 DEF Link, Lines, Fewer, InOrder
<1>13. Opening(p, o, s)'
  <2> SUFFICES ASSUME s \in Ids(p) PROVE Opening(p, o, s)' BY DEF Opening
  <2> QED BY <1>1, <1>4, <1>7 DEF Link, Opening, Fewer, Broken
<1>14. Opening(o, p, s)'
  <2> SUFFICES ASSUME s \in Ids(o) PROVE Opening(o, p, s)' BY DEF Opening
  <2> QED BY <1>1, <1>4, <1>6 DEF Link, Opening, Fewer
<1>15. Ends(p, o, s)'
  <2>1. Ends(p, o, s) BY DEF Link
  <2>2. EndsOn(p, s)' \/ Heard(w) => v.state \in {"half_closed_local", "closed"}
    BY <1>1, <1>2, <1>7, <2>1 DEF Ends, Fewer
  <2>3. DataOn(p, s)' => w.state # "half_closed_remote" BY <1>7, <2>1 DEF Ends, Fewer
  <2>4. Ended(v) /\ Hears(o, s) /\ Speaks(p, s)' => EndOn(p, s)' \/ w.state = "half_closed_remote"
    <3> HAVE Ended(v) /\ Hears(o, s) /\ Speaks(p, s)'
    <3>1. Kept(p, s) BY DEF Hears
    <3>2. Ended(u) BY <1>1, <1>2 DEF Ended
    <3> QED BY <2>1, <3>1, <3>2 DEF Ends, Kept, Speaks
  <2> QED BY <1>6, <2>2, <2>3, <2>4 DEF Ends
<1>16. Ends(o, p, s)'
  <2>1. Ends(o, p, s) BY DEF Link
  <2>2. v.state # "half_closed_remote" BY <1>1, <1>2
  <2> QED BY <1>6, <1>8, <2>1, <2>2 DEF Ends, Fewer
<1>17. Counts(p, o, s)'
  <2>1. Counts(p, o, s) BY DEF Link
  <2>2. EndOn(p, s)' => EndOn(p, s) /\ PaidOn(p, s)' = PaidOn(p, s) BY <1>7 DEF Fewer, Broken
  <2>3. v.state = "idle" => u.state = "idle" BY <1>2
  <2> QED BY <1>3, <1>6, <1>8, <2>1, <2>2, <2>3 DEF Counts
<1>18. Counts(o, p, s)' BY <1>3, <1>6, <1>8 DEF Link, Counts
<1>19. Closes(p, o, s)'
  <2> SUFFICES ASSUME Speaks(p, s)', Hears(o, s)', Refused(p, s)' \/ Cut(v)
               PROVE  \/ ResetOn(p, s)'
                      \/ v.cause = "REFUSED" /\ s \in Ids(p) /\ (w.opening \/ s > high[o])
    BY DEF Closes
  <2>1. Kept(p, s) /\ Hears(o, s) BY <1>6 DEF Hears
  <2>2. v.cause # "CONNECTION_CLOSED" /\ Speaks(p, s) BY DEF Speaks
  <2>3. v = u BY <1>2, <2>2
  <2>4. Refused(p, s) \/ Cut(u) BY <2>3 DEF Refused
  <2> QED BY <2>1, <2>2, <2>3, <2>4 DEF Link, Closes, Kept
<1>20. Closes(o, p, s)' BY <1>6 DEF Closes
<1> QED BY <1>9, <1>10, <1>11, <1>12, <1>13, <1>14, <1>15, <1>16, <1>17, <1>18, <1>19, <1>20 DEF Link

-----------------------------------------------------------------------------
(* A step and the streams it does not touch.                               *)

LEMMA LinkFacts ==
  ASSUME LinkInv, NEW q \in Peers
  PROVE  /\ Numbers(q, Other(q)) /\ InTurn(q) /\ Leaving(q, Other(q)) /\ Deaths(q)
         /\ \A l \in Lanes : InOrder(q, l)
         /\ \A s \in Streams : Link(q, Other(q), s)
<1>1. \A l \in Lanes : InOrder(q, l)
  <2> TAKE l \in Lanes
  <2>1. l \in Streams \/ l = CONNECTION_LANE BY DEF Lanes
  <2>2. \A s \in Streams : Link(q, Other(q), s) BY DEF LinkInv
  <2> QED BY <2>1, <2>2 DEF LinkInv, Link, Lines, InOrder
<1> QED BY <1>1 DEF LinkInv

(* A step of p touches at most the stream, or the lane, s, and reads at    *)
(* most a fragment of it.                                                  *)
Reading1(p, s) ==
    /\ chan[Other(p)] # << >> /\ Head(chan[Other(p)]).lane = s
    /\ chan' = [chan EXCEPT ![Other(p)] = Tail(@)]

Touch(p, s) ==
    /\ SameLives
    /\ \A q \in Peers, t \in Streams : q # p \/ t # s => view'[q][t] = view[q][t]
    /\ \A q \in Peers, l \in Lanes : q # p \/ l # s => out'[q][l] = out[q][l]
    /\ chan' = chan \/ Reading1(p, s)
    /\ \A q \in Peers : promised'[q] = promised[q] \/ Alive(q)

LEMMA OtherRows ==
  ASSUME Shape, LinkInv, NEW p \in Peers, NEW s \in Lanes, Touch(p, s)
  PROVE  /\ \A q \in Peers, l \in Lanes : l # s => Kept(q, l) /\ Row(q, l)' = Row(q, l)
         /\ chan' = chan => Kept(Other(p), s) /\ Row(Other(p), s)' = Row(Other(p), s)
         /\ chan' = chan /\ out' = out => Kept(p, s) /\ Row(p, s)' = Row(p, s)
         /\ chan'[p] = chan[p]
<1> PICK o \in Peers : o = Other(p) /\ o # p BY PeerFacts
<1>1. \A q \in Peers, l \in Lanes : InOrder(q, l) BY LinkFacts
<1>2. DOMAIN chan = Peers BY DEF Shape
<1>3. chan'[p] = chan[p] BY <1>2 DEF Touch, Reading1
<1>4. ASSUME NEW q \in Peers, NEW l \in Lanes, l # s PROVE Kept(q, l) /\ Row(q, l)' = Row(q, l)
  <2>1. out'[q][l] = out[q][l] BY <1>4 DEF Touch
  <2>2. CASE chan'[q] = chan[q] BY <1>1, <2>1, <2>2, KeptStill
  <2>3. CASE chan'[q] # chan[q]
    <3>1. q = o /\ Reading1(p, s) BY <1>2, <2>3 DEF Touch, Reading1
    <3>2. chan[q] # << >> /\ chan'[q] = Tail(chan[q]) /\ Head(chan[q]).lane # l
      BY <1>2, <1>4, <3>1 DEF Reading1
    <3> QED BY <1>1, <2>1, <3>2, KeptByRead
  <2> QED BY <2>2, <2>3
<1>5. chan' = chan => Kept(o, s) /\ Row(o, s)' = Row(o, s)
  <2> HAVE chan' = chan
  <2>1. out'[o][s] = out[o][s] BY DEF Touch
  <2> QED BY <1>1, <2>1, KeptStill
<1>6. chan' = chan /\ out' = out => Kept(p, s) /\ Row(p, s)' = Row(p, s)
  BY <1>1, KeptStill
<1> QED BY <1>3, <1>4, <1>5, <1>6

LEMMA StillSpeaks ==
  ASSUME SameLives, NEW q \in Peers, NEW s, promised'[q] = promised[q] \/ Alive(q), view'[q][s] = view[q][s]
  PROVE  Speaks(q, s)' => Speaks(q, s)
BY DEF SameLives, Speaks

LEMMA IdFacts ==
  ASSUME Shape, LinkInv, NEW q \in Peers, NEW s \in Ids(q)
  PROVE  /\ s < next[q] + 2 /\ s # next[q] => s < next[q]
         /\ s < next[q] => s <= next[q] - 2
         /\ AnyOn(q, s) => s < next[q]
         /\ next[q] \in Nat /\ s \in Nat /\ high[Other(q)] \in Nat
         /\ next[q] > high[Other(q)]
<1>1. Numbers(q, Other(q)) /\ Other(q) \in Peers /\ s \in Streams BY LinkFacts, PeerFacts
<1>2. Link(q, Other(q), s) BY <1>1, LinkFacts
<1>3. PICK k \in Nat : next[q] = FirstId(q) + 2 * k BY <1>1 DEF Numbers
<1>4. next[q] \in Nat /\ s \in Nat /\ high[Other(q)] \in Nat BY <1>1, PeerFacts DEF Shape
<1>5. CASE q = "dialer"
  <2>1. PICK i \in 1 .. DialerOpens : s = 2 * i - 1 BY <1>5 DEF Ids
  <2>2. next[q] = 1 + 2 * k BY <1>3, <1>5 DEF FirstId
  <2>3. i \in Nat BY <2>1, ConnectionAssumption
  <2>4. /\ s < next[q] + 2 /\ s # next[q] => s < next[q]
        /\ s < next[q] => s <= next[q] - 2
    BY <2>1, <2>2, <2>3
  <2>5. AnyOn(q, s) => s < next[q] BY <1>2, <1>4 DEF Link, Lines, Stage
  <2> QED BY <1>1, <1>4, <2>4, <2>5 DEF Numbers
<1>6. CASE q # "dialer"
  <2>1. PICK i \in 1 .. AcceptorOpens : s = 2 * i BY <1>6 DEF Ids
  <2>2. next[q] = 2 + 2 * k BY <1>3, <1>6 DEF FirstId
  <2>3. i \in Nat BY <2>1, ConnectionAssumption
  <2>4. /\ s < next[q] + 2 /\ s # next[q] => s < next[q]
        /\ s < next[q] => s <= next[q] - 2
    BY <2>1, <2>2, <2>3
  <2>5. AnyOn(q, s) => s < next[q] BY <1>2, <1>4 DEF Link, Lines, Stage
  <2> QED BY <1>1, <1>4, <2>4, <2>5 DEF Numbers
<1> QED BY <1>5, <1>6

(* The streams whose place among the ids does not change.                  *)
LEMMA OtherStream ==
  ASSUME RefusalInv, LinkInv, Shape', NEW p \in Peers, NEW s \in Lanes, Touch(p, s),
         NEW t \in Streams, t # s,
         \A q \in Peers : /\ t \in Ids(q) => (t < next'[q] <=> t < next[q])
                          /\ t \notin Ids(q) => (t > high'[q] <=> t > high[q])
  PROVE  \A q \in Peers : Link(q, Other(q), t)'
<1> TAKE q \in Peers
<1> PICK r \in Peers : r = Other(q) BY PeerFacts
<1>1. Shape /\ t \in Lanes /\ SameLives BY PeerFacts DEF RefusalInv, Touch
<1>2. Link(q, r, t) /\ Kept(q, t) BY <1>1, LinkFacts, OtherRows
<1>3. view'[q][t] = view[q][t] /\ view'[r][t] = view[r][t] /\ (promised'[q] = promised[q] \/ Alive(q))
  BY DEF Touch
<1>4. Speaks(q, t)' => Speaks(q, t) BY <1>1, <1>3, StillSpeaks
<1>5. t \in Ids(q) => t \notin Ids(r) BY PeerFacts
<1> QED BY <1>1, <1>2, <1>3, <1>4, <1>5, Bystander

(* p opens s.                                                              *)
LEMMA OtherWhenOpened ==
  ASSUME RefusalInv, LinkInv, Shape', NEW p \in Peers, NEW s \in Ids(p), Touch(p, s),
         s = next[p], next' = [next EXCEPT ![p] = @ + 2], high' = high,
         NEW t \in Streams, t # s
  PROVE  \A q \in Peers : Link(q, Other(q), t)'
<1>1. Shape /\ s \in Lanes BY PeerFacts DEF RefusalInv
<1>2. ASSUME NEW q \in Peers, t \in Ids(q) PROVE t < next'[q] <=> t < next[q]
  <2>1. next'[q] = IF q = p THEN next[q] + 2 ELSE next[q] BY <1>1 DEF Shape
  <2> QED BY <1>1, <1>2, <2>1, IdFacts
<1> QED BY <1>1, <1>2, OtherStream

(* p learns of s: the ids below it that were not opened never will be.     *)
LEMMA OtherWhenReached ==
  ASSUME RefusalInv, LinkInv, Shape', NEW p \in Peers, NEW o \in Peers, o = Other(p), NEW s \in Ids(o),
         Touch(p, s), Alive(p), Reading1(p, s), IsFirst(Head(chan[o])), s > high[p],
         high' = [high EXCEPT ![p] = s], next' = next,
         NEW t \in Streams, t # s
  PROVE  \A q \in Peers : Link(q, Other(q), t)'
<1>1. Shape /\ s \in Lanes /\ t \in Lanes /\ SameLives /\ p = Other(o) /\ p # o /\ s \in Nat /\ t \in Nat
      /\ high[p] \in Nat
  BY PeerFacts DEF RefusalInv, Shape, Touch
<1>2. /\ high'[p] = s /\ \A q \in Peers : q # p => high'[q] = high[q] BY <1>1 DEF Shape
<1>3. CASE t \in Ids(o) /\ t > high[p] /\ t < s
  <2>1. Link(o, p, t) /\ Link(p, o, t) /\ Link(o, p, s) /\ InTurn(o) BY <1>1, LinkFacts, PeerFacts
  <2>2. chan[o] \in Seq(Sent) /\ chan[o] # << >> BY <1>1 DEF Shape, Reading1
  <2>3. /\ 1 \in DOMAIN chan[o] /\ chan[o][1] = Head(chan[o]) /\ DOMAIN chan[o] = 1 .. Len(chan[o])
        /\ Len(chan[o]) \in Nat
    BY <2>2, TailFacts
  <2>4. chan[o][1].lane = s BY <2>3 DEF Reading1
  <2>5. ~FirstOn(o, t)
    <3>1. /\ \A j \in DOMAIN chan[o] : j > 1 /\ chan[o][j].lane = t => ~IsFirst(chan[o][j])
          /\ \A y \in Waiting(out[o][t]) : ~IsFirst(y)
      BY <1>3, <2>1, <2>3, <2>4 DEF InTurn
    <3>2. \A j \in DOMAIN chan[o] : chan[o][j].lane = t => ~IsFirst(Piece(chan[o][j].frame, chan[o][j].idx))
      <4> TAKE j \in DOMAIN chan[o]
      <4> HAVE chan[o][j].lane = t
      <4>1. j # 1 BY <2>4
      <4>2. j > 1 BY <2>3, <4>1
      <4> QED BY <3>1, <4>2 DEF IsFirst, Piece
    <3> QED BY <3>1, <3>2 DEF FirstOn, Row, Line, Written
  <2>6. ~AnyOn(o, t) BY <1>3, <2>1, <2>5 DEF Link, Opening
  <2>7. t < next[o]
    <3>1. Piece(Head(chan[o]).frame, Head(chan[o]).idx) \in Row(o, s)
      BY <2>3, <2>4 DEF Row, Line, Written
    <3>2. s < next[o] /\ next[o] \in Nat BY <1>1, <3>1, IdFacts DEF AnyOn
    <3> QED BY <1>1, <1>3, <3>2
  <2>8. ~Alive(o) BY <1>3, <2>1, <2>5, <2>7 DEF Link, Opening
  <2>9. Kept(o, t) /\ Kept(p, t) BY <1>1, OtherRows
  <2>10. view'[o][t] = view[o][t] /\ view'[p][t] = view[p][t] BY DEF Touch
  <2>11. Speaks(p, t)' => Speaks(p, t) BY <1>1, <2>10, StillSpeaks DEF Touch
  <2>12. Link(o, p, t)' /\ Link(p, o, t)'
    BY <1>1, <1>2, <1>3, <2>1, <2>6, <2>8, <2>9, <2>10, <2>11, Skipped
  <2>13. \A q \in Peers : q = p \/ q = o BY DEF Peers, Other
  <2> QED BY <1>1, <2>12, <2>13
<1>4. CASE ~(t \in Ids(o) /\ t > high[p] /\ t < s)
  <2>1. \A q \in Peers : t \notin Ids(q) => (t > high'[q] <=> t > high[q])
    <3> TAKE q \in Peers
    <3> HAVE t \notin Ids(q)
    <3>1. CASE q = p
      <4>1. t \in Ids(o) BY <3>1, PeerFacts
      <4> QED BY <1>1, <1>2, <1>4, <3>1, <4>1
    <3>2. CASE q # p BY <1>2, <3>2
    <3> QED BY <3>1, <3>2
  <2> QED BY <1>1, <2>1, OtherStream
<1> QED BY <1>3, <1>4

-----------------------------------------------------------------------------
(* What else a step keeps.                                                 *)

NoNewOpen(p, s) == \A y \in Waiting(out'[p][s]) : IsFirst(y) => y \in Waiting(out[p][s])

LEMMA NoNewOpenBy ==
  ASSUME Shape, NEW p \in Peers, NEW s \in Lanes, NEW v, v = out[p][s] \/ v = Keep(out[p][s]),
         out'[p][s] = v \/ \E f \in Frame : f.type # "open" /\ out'[p][s] = Put(v, f)
  PROVE  NoNewOpen(p, s)
<1> DEFINE w == out[p][s]
<1>1. w \in Seq(Held) BY DEF Shape
<1>2. v \in Seq(Held) /\ Waiting(v) \subseteq Waiting(w)
  <2>1. CASE v = w BY <1>1, <2>1
  <2>2. CASE v = Keep(w)
    <3>1. CASE HoldsUnsentOpen(w)
      <4>1. Head(w) = w[1] /\ 1 \in DOMAIN w BY <1>1, <3>1, TailFacts DEF HoldsUnsentOpen
      <4> PICK h : h = Head(w) OBVIOUS
      <4>2. v = <<h>> BY <2>2, <3>1 DEF Keep
      <4>3. Waiting(v) = Parts(h) BY <4>2 DEF Waiting
      <4>4. Parts(h) \subseteq Waiting(w) BY <4>1 DEF Waiting
      <4>5. v \in Seq(Held) BY <1>1, <2>2, LaneFacts
      <4> QED BY <4>3, <4>4, <4>5
    <3>2. CASE ~HoldsUnsentOpen(w)
      <4>1. v = << >> BY <2>2, <3>2 DEF Keep
      <4>2. Waiting(v) = {} BY <4>1 DEF Waiting
      <4>3. v \in Seq(Held) BY <1>1, <2>2, LaneFacts
      <4> QED BY <4>2, <4>3
    <3> QED BY <3>1, <3>2
  <2> QED BY <2>1, <2>2
<1>3. CASE out'[p][s] = v BY <1>2, <1>3 DEF NoNewOpen
<1>4. ASSUME NEW f \in Frame, f.type # "open", out'[p][s] = Put(v, f) PROVE NoNewOpen(p, s)
  <2>1. Waiting(Put(v, f)) = Waiting(v) \cup Parts(Item(f)) BY <1>2, WaitingPut
  <2>2. \A x \in Parts(Item(f)) : ~IsFirst(x) BY <1>4, ItemFacts DEF IsFirst
  <2> QED BY <1>2, <1>4, <2>1, <2>2 DEF NoNewOpen
<1> QED BY <1>3, <1>4

LEMMA StillInTurn ==
  ASSUME Shape, NEW q \in Peers, InTurn(q),
         \/ chan'[q] = chan[q]
         \/ chan[q] # << >> /\ chan'[q] = Tail(chan[q])
         \/ chan'[q] = << >>,
         \A s \in Ids(q) :
             \/ NoNewOpen(q, s)
             \/ \A i \in DOMAIN chan[q] : IsFirst(chan[q][i]) => chan[q][i].lane <= s
  PROVE  InTurn(q)'
<1> DEFINE c == chan[q]
           d == chan'[q]
<1>1. c \in Seq(Sent) BY DEF Shape
<1>2. \A s \in Ids(q) : s \in Nat BY PeerFacts
<1>3. PICK n \in {0, 1} : \A i \in DOMAIN d : i \in Nat /\ i + n \in DOMAIN c /\ d[i] = c[i + n]
  <2>1. Len(c) \in Nat /\ DOMAIN c = 1 .. Len(c) BY <1>1, SeqFacts
  <2>2. CASE d = c
    <3>1. \A i \in DOMAIN d : i \in Nat /\ i + 0 \in DOMAIN c /\ d[i] = c[i + 0] BY <2>1, <2>2
    <3> QED BY <3>1
  <2>3. CASE c # << >> /\ d = Tail(c)
    <3>1. DOMAIN d = 1 .. (Len(c) - 1) /\ \A i \in 1 .. (Len(c) - 1) : d[i] = c[i + 1]
      BY <1>1, <2>3, TailFacts
    <3>2. \A i \in DOMAIN d : i \in Nat /\ i + 1 \in DOMAIN c /\ d[i] = c[i + 1] BY <2>1, <3>1
    <3> QED BY <3>2
  <2>4. CASE d = << >>
    <3>1. \A i \in DOMAIN d : i \in Nat /\ i + 0 \in DOMAIN c /\ d[i] = c[i + 0] BY <2>4
    <3> QED BY <3>1
  <2> QED BY <2>2, <2>3, <2>4
<1>4. \A i \in DOMAIN c : c[i].lane \in Nat
  <2>1. \A i \in DOMAIN c : c[i] \in Sent BY <1>1, SeqFacts
  <2> QED BY <2>1, PeerFacts DEF Sent
<1>5. /\ \A i \in DOMAIN c : IsFirst(c[i]) =>
            \A s \in Ids(q) : s < c[i].lane =>
                /\ \A j \in DOMAIN c : j > i /\ c[j].lane = s => ~IsFirst(c[j])
                /\ \A y \in Waiting(out[q][s]) : ~IsFirst(y)
      /\ InTurn(q)' <=>
         \A i \in DOMAIN d : IsFirst(d[i]) =>
            \A s \in Ids(q) : s < d[i].lane =>
                /\ \A j \in DOMAIN d : j > i /\ d[j].lane = s => ~IsFirst(d[j])
                /\ \A y \in Waiting(out'[q][s]) : ~IsFirst(y)
  BY DEF InTurn, IsFirst
<1>6. \A s \in Ids(q) : NoNewOpen(q, s) \/ \A i \in DOMAIN c : IsFirst(c[i]) => c[i].lane <= s
  OBVIOUS
<1> HIDE DEF c, d
<1>7. ASSUME NEW i \in DOMAIN d, IsFirst(d[i]), NEW s \in Ids(q), s < d[i].lane
      PROVE  /\ \A j \in DOMAIN d : j > i /\ d[j].lane = s => ~IsFirst(d[j])
             /\ \A y \in Waiting(out'[q][s]) : ~IsFirst(y)
  <2>1. i + n \in DOMAIN c /\ d[i] = c[i + n] /\ i \in Nat BY <1>3
  <2>2. /\ \A j \in DOMAIN c : j > i + n /\ c[j].lane = s => ~IsFirst(c[j])
        /\ \A y \in Waiting(out[q][s]) : ~IsFirst(y)
    BY <1>5, <1>7, <2>1
  <2>3. \A j \in DOMAIN d : j > i /\ d[j].lane = s => ~IsFirst(d[j]) BY <1>3, <2>1, <2>2
  <2>4. ~(c[i + n].lane <= s) BY <1>2, <1>4, <1>7, <2>1
  <2>5. NoNewOpen(q, s) BY <1>6, <1>7, <2>1, <2>4
  <2> QED BY <2>2, <2>3, <2>5 DEF NoNewOpen
<1> QED BY <1>5, <1>7

(* What a step on a stream of p may do while the connection ends.          *)
Ebbs(p, s) ==
    /\ view'[p][s].cause = "CONNECTION_CLOSED" => view[p][s].cause = "CONNECTION_CLOSED"
    /\ out'[p][s] # << >> => out[p][s] # << >> \/ Alive(p)
    /\ WithinLimit /\ ~setup.faulty /\ view'[p][s].cause = "CONNECTION_CLOSED" =>
          view'[p][s].handler = view[p][s].handler
    /\ s \in Ids(p) /\ isLive(p, s)' => isLive(p, s) \/ allowed[p] = None
    /\ WithinLimit /\ ~setup.faulty /\ phase[p] \in {"flushing", "closing"} =>
          /\ isLive(p, s)' => view'[p][s].opening /\ s > promised[p]
          /\ out'[p][s] # << >> => out[p][s] # << >> \/ (s \notin Ids(p) /\ s > promised[p])

LEMMA StillLeaving ==
  ASSUME Shape, LinkInv, NEW p \in Peers, NEW s \in Lanes, Touch(p, s), s = CONNECTION_LANE \/ Ebbs(p, s),
         UNCHANGED <<phase, promised, allowed>>,
         s = CONNECTION_LANE => UNCHANGED <<chan, out>>,
         NEW q \in Peers
  PROVE  Leaving(q, Other(q))'
<1> PICK r \in Peers : r = Other(q) /\ q = Other(r) /\ q # r BY PeerFacts
<1>1. /\ setup' = setup /\ \A x \in Peers : Alive(x)' <=> Alive(x)
      /\ \A x \in Peers, t \in Streams : x # p \/ t # s => view'[x][t] = view[x][t]
      /\ \A x \in Peers, l \in Lanes : x # p \/ l # s => out'[x][l] = out[x][l]
  BY DEF Touch, SameLives
<1>2. Row(q, CONNECTION_LANE)' = Row(q, CONNECTION_LANE)
      /\ (AnyOn(q, CONNECTION_LANE)' <=> AnyOn(q, CONNECTION_LANE))
  <2>1. CASE s = CONNECTION_LANE BY <2>1 DEF Row, AnyOn
  <2>2. CASE s # CONNECTION_LANE
    <3>1. CONNECTION_LANE \in Lanes BY PeerFacts
    <3>2. Row(q, CONNECTION_LANE)' = Row(q, CONNECTION_LANE) BY <2>2, <3>1, OtherRows
    <3> QED BY <3>2 DEF AnyOn
  <2> QED BY <2>1, <2>2
<1>3. Leaving(q, r) BY LinkFacts
<1>4. ASSUME s \in Streams PROVE Ebbs(p, s)
  BY <1>4, PeerFacts
<1>5. s \in Streams \/ s = CONNECTION_LANE BY DEF Lanes
<1>6. \A t \in Streams : /\ t \in Lanes
                         /\ t \in Ids(q) <=> t \notin Ids(r)
  BY PeerFacts
<1> SUFFICES ASSUME WithinLimit PROVE Leaving(q, r)' BY DEF Leaving
<1>7. ASSUME NEW t \in Streams
      PROVE  /\ ~setup.faulty /\ view'[q][t].cause = "CONNECTION_CLOSED" =>
                  view[q][t].cause = "CONNECTION_CLOSED" /\ view'[q][t].handler = view[q][t].handler
             /\ t \in Ids(r) /\ isLive(r, t)' => isLive(r, t) \/ allowed[r] = None
             /\ ~setup.faulty /\ phase[q] \in {"flushing", "closing"} /\ isLive(q, t)' =>
                  view'[q][t].opening /\ t > promised[q]
  <2>1. CASE t = s
    <3>1. Ebbs(p, s) BY <1>4, <2>1
    <3>2. CASE q = p
      <4>1. view'[r][t] = view[r][t] BY <1>1, <3>2
      <4> QED BY <2>1, <3>1, <3>2, <4>1 DEF Ebbs, isLive
    <3>3. CASE q # p
      <4>1. r = p /\ view'[q][t] = view[q][t] BY <1>1, <3>3 DEF Peers
      <4> QED BY <1>3, <2>1, <3>1, <4>1 DEF Ebbs, isLive, Leaving
    <3> QED BY <3>2, <3>3
  <2>2. CASE t # s
    <3>1. view'[q][t] = view[q][t] /\ view'[r][t] = view[r][t] BY <1>1, <2>2
    <3> QED BY <1>3, <3>1 DEF isLive, Leaving
  <2> QED BY <2>1, <2>2
<1>8. ASSUME NEW l \in Lanes, ~setup.faulty, phase[q] = "closing", out'[q][l] # << >>
      PROVE  l \in Ids(r) /\ l > promised[q]
  <2>1. CASE q = p /\ l = s /\ s # CONNECTION_LANE
    <3>1. Ebbs(p, s) /\ s \in Streams BY <1>4, <1>5, <2>1
    <3> QED BY <1>3, <1>6, <1>8, <2>1, <3>1 DEF Ebbs, Leaving
  <2>2. CASE ~(q = p /\ l = s /\ s # CONNECTION_LANE)
    <3>1. out'[q][l] = out[q][l] BY <1>1, <2>2
    <3> QED BY <1>3, <1>8, <3>1 DEF Leaving
  <2> QED BY <2>1, <2>2
<1>10. promised[q] # None /\ (Alive(q)' \/ ~setup'.faulty) /\ Alive(r)' =>
          \/ AnyOn(q, CONNECTION_LANE)'
          \/ allowed[r] # None /\ \A t \in Ids(r) : isLive(r, t)' => t <= promised[q]
  <2>1. \A t \in Ids(r) : t \in Streams BY PeerFacts
  <2>2. promised[q] # None /\ (Alive(q) \/ ~setup.faulty) /\ Alive(r) =>
          \/ AnyOn(q, CONNECTION_LANE)
          \/ allowed[r] # None /\ \A t \in Ids(r) : isLive(r, t) => t <= promised[q]
    BY <1>3 DEF Leaving
  <2> QED BY <1>1, <1>2, <1>7, <2>1, <2>2
<1>11. /\ ~setup'.faulty => \A t \in Streams :
             view'[q][t].cause = "CONNECTION_CLOSED" => t \notin Ids(q) /\ view'[q][t].handler = "none"
       /\ ~setup'.faulty /\ ~Alive(q)' /\ Alive(r)' =>
             promised[q] # None /\ \A t \in Ids(r) : view'[q][t].cause = "CONNECTION_CLOSED" => t > promised[q]
  <2>1. \A t \in Ids(r) : t \in Streams BY PeerFacts
  <2> QED BY <1>1, <1>3, <1>7, <2>1 DEF Leaving
<1>12. ~setup'.faulty /\ phase[q] \in {"flushing", "closing"} =>
          \A t \in Streams : isLive(q, t)' => view'[q][t].opening /\ t > promised[q]
  BY <1>1, <1>7
<1>13. ~setup'.faulty /\ phase[q] = "closing" =>
          \A l \in Lanes : out'[q][l] # << >> => l \in Ids(r) /\ l > promised[q]
  BY <1>1, <1>8
<1>14. \A x \in Row(q, CONNECTION_LANE)' : promised[q] # None /\ x.frame.last = promised[q]
  BY <1>2, <1>3 DEF Leaving
<1>15. /\ phase[q] \in {"open", "draining", "flushing", "closing", "dead"}
       /\ phase[q] \in {"draining", "flushing", "closing"} => promised[q] # None
       /\ phase[q] = "open" => promised[q] = None
  BY <1>3 DEF Leaving
<1> QED BY <1>10, <1>11, <1>12, <1>13, <1>14, <1>15 DEF Leaving

LEMMA StillDeaths ==
  ASSUME Shape, LinkInv, NEW p \in Peers, NEW s \in Streams, Touch(p, s), Ebbs(p, s), NEW q \in Peers
  PROVE  Deaths(q)'
<1>1. Deaths(q) /\ (Alive(q)' <=> Alive(q)) BY LinkFacts DEF Touch, SameLives
<1>2. ASSUME NEW t \in Streams, view'[q][t].cause = "CONNECTION_CLOSED"
      PROVE  view[q][t].cause = "CONNECTION_CLOSED"
  <2>1. CASE q = p /\ t = s BY <1>2, <2>1 DEF Ebbs
  <2>2. CASE q # p \/ t # s BY <1>2, <2>2 DEF Touch
  <2> QED BY <2>1, <2>2
<1>3. ASSUME NEW l \in Lanes, out'[q][l] # << >> PROVE out[q][l] # << >> \/ Alive(q)
  <2>1. CASE q = p /\ l = s BY <1>3, <2>1 DEF Ebbs
  <2>2. CASE q # p \/ l # s BY <1>3, <2>2 DEF Touch
  <2> QED BY <2>1, <2>2
<1> QED BY <1>1, <1>2, <1>3 DEF Deaths

(* How the ids move: not at all, p opens s, or p learns of s.              *)
OpensId(p, s) ==
    s \in Ids(p) /\ s = next[p] /\ next' = [next EXCEPT ![p] = @ + 2] /\ high' = high

LearnsId(p, s) ==
    /\ s \in Ids(Other(p)) /\ s > high[p] /\ Alive(p)
    /\ Reading1(p, s) /\ IsFirst(Head(chan[Other(p)]))
    /\ high' = [high EXCEPT ![p] = s] /\ next' = next

LEMMA OnLine ==
  ASSUME Shape, LinkInv, NEW q \in Peers, NEW i \in DOMAIN chan[q], NEW l, l = chan[q][i].lane
  PROVE  /\ l \in Lanes /\ l \in Nat /\ AnyOn(q, l)
         /\ Piece(chan[q][i].frame, chan[q][i].idx) \in Row(q, l)
         /\ Fine(l, Piece(chan[q][i].frame, chan[q][i].idx))
         /\ chan[q][i].frame.type = "open" => l \in Ids(q) /\ OpenOn(q, l)
<1> DEFINE x == Piece(chan[q][i].frame, chan[q][i].idx)
<1>1. chan[q] \in Seq(Sent) BY DEF Shape
<1>2. l \in Lanes /\ l \in Nat
  <2>1. chan[q][i] \in Sent BY <1>1, SeqFacts
  <2> QED BY <2>1, PeerFacts DEF Sent
<1>3. x \in Row(q, l) BY DEF Row, Line, Written
<1>4. AnyOn(q, l) BY <1>3 DEF AnyOn
<1>5. Fine(l, x)
  <2>1. InOrder(q, l) BY <1>2, LinkFacts
  <2> QED BY <1>3, <2>1 DEF InOrder, Tidy, Row
<1>6. chan[q][i].frame.type = "open" => l \in Ids(q) /\ OpenOn(q, l)
  <2> HAVE chan[q][i].frame.type = "open"
  <2>1. x.frame.type = "open" BY DEF Piece
  <2>2. OpenOn(q, l) BY <1>3, <2>1 DEF OpenOn
  <2>3. l # CONNECTION_LANE
    <3>1. CASE l = CONNECTION_LANE BY <1>5, <2>1, <3>1 DEF Fine
    <3> QED BY <3>1
  <2>4. l \in Streams BY <1>2, <2>3 DEF Lanes
  <2>5. Lines(q, l) BY <2>4, LinkFacts DEF Link
  <2> QED BY <2>2, <2>5 DEF Lines
<1> QED BY <1>2, <1>3, <1>4, <1>5, <1>6

LEMMA TouchKeepsTurn ==
  ASSUME Shape, LinkInv, NEW p \in Peers, NEW s \in Lanes, Touch(p, s), NoNewOpen(p, s) \/ OpensId(p, s),
         NEW q \in Peers
  PROVE  InTurn(q)'
<1>1. \/ chan'[q] = chan[q]
      \/ chan[q] # << >> /\ chan'[q] = Tail(chan[q])
      \/ chan'[q] = << >>
  <2>1. DOMAIN chan = Peers /\ Other(p) \in Peers BY PeerFacts DEF Shape
  <2> QED BY <2>1 DEF Touch, Reading1
<1>2. ASSUME NEW t \in Ids(q)
      PROVE  \/ NoNewOpen(q, t)
             \/ \A i \in DOMAIN chan[q] : IsFirst(chan[q][i]) => chan[q][i].lane <= t
  <2>1. t \in Lanes BY PeerFacts
  <2>2. CASE q # p \/ t # s
    <3>1. out'[q][t] = out[q][t] BY <2>1, <2>2 DEF Touch
    <3> QED BY <3>1 DEF NoNewOpen
  <2>3. CASE q = p /\ t = s /\ NoNewOpen(p, s) BY <2>3
  <2>4. CASE q = p /\ t = s /\ OpensId(p, s)
    <3>1. ASSUME NEW i \in DOMAIN chan[q], IsFirst(chan[q][i]) PROVE chan[q][i].lane <= t
      <4>1. chan[q][i].lane \in Ids(q) /\ AnyOn(q, chan[q][i].lane) BY <3>1, OnLine DEF IsFirst
      <4>2. chan[q][i].lane < next[q] /\ chan[q][i].lane \in Nat /\ next[q] \in Nat BY <4>1, IdFacts
      <4> QED BY <2>4, <4>2 DEF OpensId
    <3> QED BY <3>1
  <2> QED BY <2>2, <2>3, <2>4
<1>3. InTurn(q) BY LinkFacts
<1> QED BY <1>1, <1>2, <1>3, StillInTurn

LEMMA TouchKeepsNumbers ==
  ASSUME Shape, LinkInv, Shape', NEW p \in Peers, NEW s \in Streams, promised' = promised,
         UNCHANGED <<next, high>> \/ OpensId(p, s) \/ LearnsId(p, s),
         NEW q \in Peers
  PROVE  Numbers(q, Other(q))'
<1> PICK r \in Peers : r = Other(q) /\ q = Other(r) /\ q # r BY PeerFacts
<1>1. Numbers(q, r) BY LinkFacts
<1>2. /\ next[q] \in Nat /\ high[r] \in Nat /\ promised[r] \in Nat \cup {None} /\ None \notin Nat
      /\ next \in [Peers -> Nat] /\ high \in [Peers -> Nat]
  BY ConnectionAssumption DEF Shape
<1>3. CASE UNCHANGED <<next, high>> BY <1>1, <1>3 DEF Numbers
<1>4. CASE OpensId(p, s)
  <2>1. high' = high /\ next'[q] = IF q = p THEN next[q] + 2 ELSE next[q]
    BY <1>2, <1>4 DEF OpensId
  <2>2. PICK k \in Nat : next[q] = FirstId(q) + 2 * k BY <1>1 DEF Numbers
  <2>3. FirstId(q) \in Nat BY DEF FirstId
  <2>4. next[q] + 2 = FirstId(q) + 2 * (k + 1) /\ k + 1 \in Nat BY <2>2, <2>3
  <2>5. next'[q] \in Nat /\ next'[q] >= next[q] /\ \E m \in Nat : next'[q] = FirstId(q) + 2 * m
    <3>1. CASE q = p
      <4>1. next'[q] = FirstId(q) + 2 * (k + 1) BY <2>1, <2>4, <3>1
      <4>2. next'[q] \in Nat /\ next'[q] >= next[q] BY <1>2, <2>1, <3>1
      <4> QED BY <2>4, <4>1, <4>2
    <3>2. CASE q # p
      <4>1. next'[q] = next[q] BY <2>1, <3>2
      <4> QED BY <1>2, <2>2, <4>1
    <3> QED BY <3>1, <3>2
  <2>6. next[q] > 0 /\ (high[r] # 0 => high[r] \in Ids(q) /\ high[r] < next[q])
        /\ (promised[r] # None => promised[r] <= high[r])
    BY <1>1 DEF Numbers
  <2>7. next'[q] > 0 BY <1>2, <2>5, <2>6
  <2>8. high'[r] # 0 => high'[r] \in Ids(q) /\ high'[r] < next'[q] BY <1>2, <2>1, <2>5, <2>6
  <2>9. promised'[r] # None => promised'[r] <= high'[r] BY <2>1, <2>6
  <2>10. Numbers(q, r)' BY <2>5, <2>7, <2>8, <2>9 DEF Numbers
  <2> QED BY <2>10
<1>5. CASE LearnsId(p, s)
  <2>1. next' = next /\ high'[r] = IF r = p THEN s ELSE high[r] BY <1>2, <1>5 DEF LearnsId
  <2>2. r = p => s \in Ids(q) /\ s \in Nat /\ s > high[r] /\ s < next[q]
    <3> HAVE r = p
    <3>1. s \in Ids(q) /\ s > high[r] /\ s \in Nat BY <1>5, PeerFacts DEF LearnsId
    <3>2. chan[q] # << >> /\ Head(chan[q]).lane = s BY <1>5 DEF LearnsId, Reading1
    <3>3. 1 \in DOMAIN chan[q] /\ chan[q][1].lane = s
      <4>1. chan[q] \in Seq(Sent) BY DEF Shape
      <4> QED BY <3>2, <4>1, TailFacts
    <3>4. AnyOn(q, s) BY <3>3, OnLine
    <3> QED BY <3>1, <3>4, IdFacts
  <2> QED BY <1>1, <1>2, <2>1, <2>2 DEF Numbers
<1> QED BY <1>3, <1>4, <1>5

(* The invariant after a step on one stream.                               *)
LEMMA Concludes ==
  ASSUME RefusalInv, LinkInv, Shape', NEW p \in Peers, NEW s \in Streams, Touch(p, s), Ebbs(p, s),
         UNCHANGED <<phase, promised, allowed>>,
         \/ UNCHANGED <<next, high>> /\ NoNewOpen(p, s)
         \/ OpensId(p, s)
         \/ LearnsId(p, s) /\ NoNewOpen(p, s),
         Link(p, Other(p), s)', Link(Other(p), p, s)'
  PROVE  LinkInv'
<1>1. Shape /\ s \in Lanes /\ s # CONNECTION_LANE /\ CONNECTION_LANE \in Lanes BY PeerFacts DEF RefusalInv
<1>2. \A q \in Peers : q = p \/ q = Other(p) BY DEF Peers, Other
<1>3. \A q \in Peers : Other(q) \in Peers /\ Other(Other(q)) = q BY PeerFacts
<1>4. ASSUME NEW q \in Peers PROVE Numbers(q, Other(q))' /\ InTurn(q)' /\ Leaving(q, Other(q))' /\ Deaths(q)'
  <2>1. Numbers(q, Other(q))' BY <1>1, TouchKeepsNumbers
  <2>2. InTurn(q)' BY <1>1, TouchKeepsTurn
  <2>3. Leaving(q, Other(q))' BY <1>1, StillLeaving
  <2>4. Deaths(q)' BY <1>1, StillDeaths
  <2> QED BY <2>1, <2>2, <2>3, <2>4
<1>5. ASSUME NEW q \in Peers PROVE Tidy(chan[q], CONNECTION_LANE, out[q][CONNECTION_LANE])'
  <2>1. Kept(q, CONNECTION_LANE) BY <1>1, OtherRows
  <2> QED BY <2>1 DEF Kept, InOrder
<1>6. ASSUME NEW q \in Peers, NEW t \in Streams PROVE Link(q, Other(q), t)'
  <2>1. CASE t = s BY <1>2, <1>3, <2>1
  <2>2. CASE t # s
    <3>1. CASE UNCHANGED <<next, high>> BY <1>1, <2>2, <3>1, OtherStream
    <3>2. CASE OpensId(p, s) BY <2>2, <3>2, OtherWhenOpened DEF OpensId
    <3>3. CASE LearnsId(p, s)
      <4>1. /\ s \in Ids(Other(p)) /\ Other(p) \in Peers /\ s > high[p] /\ Alive(p) /\ Reading1(p, s)
            /\ IsFirst(Head(chan[Other(p)])) /\ high' = [high EXCEPT ![p] = s] /\ next' = next
        BY <1>3, <3>3 DEF LearnsId
      <4> QED BY <2>2, <4>1, OtherWhenReached
    <3> QED BY <3>1, <3>2, <3>3
  <2> QED BY <2>1, <2>2
<1> QED BY <1>4, <1>5, <1>6 DEF LinkInv

(***************************************************************************)
(* The steps of the application.                                           *)

LEMMA AppTouch ==
  ASSUME Shape, NEW p \in Peers, NEW s \in Streams, UNCHANGED <<phase, promised, chan, setup>>,
         \A q \in Peers, t \in Streams : q # p \/ t # s => view'[q][t] = view[q][t],
         \A q \in Peers, l \in Lanes : q # p \/ l # s => out'[q][l] = out[q][l]
  PROVE  SameLives /\ Touch(p, s) /\ (UNCHANGED <<next, high>> => Calm)
BY DEF SameLives, Alive, Touch, Calm

LEMMA PutOut ==
  ASSUME Shape, NEW p \in Peers, NEW l \in Lanes, NEW f, Enqueue(p, l, f)
  PROVE  /\ out'[p][l] = Put(out[p][l], f)
         /\ \A q \in Peers, m \in Lanes : q # p \/ m # l => out'[q][m] = out[q][m]
BY DEF Shape, Enqueue

LEMMA PutResetOut ==
  ASSUME Shape, NEW p \in Peers, NEW l \in Lanes, NEW code, EnqueueReset(p, l, code)
  PROVE  /\ out'[p][l] = Put(Keep(out[p][l]), ResetFrame(code))
         /\ \A q \in Peers, m \in Lanes : q # p \/ m # l => out'[q][m] = out[q][m]
BY DEF Shape, EnqueueReset

(* A stream before a step of its application.                              *)
LEMMA AppFacts ==
  ASSUME RefusalInv, LinkInv, NEW p \in Peers, NEW s \in Streams, NEW v, v = view[p][s]
  PROVE  /\ Shape /\ s \in Lanes /\ s # CONNECTION_LANE /\ Other(p) \in Peers /\ Other(p) # p /\ Other(Other(p)) = p
         /\ InOrder(p, s) /\ InOrder(Other(p), s)
         /\ Link(p, Other(p), s) /\ Link(Other(p), p, s)
         /\ v \in Stream
         /\ Holds(p, s) \/ v.handler \in {"scheduled", "running", "returned"} => ~v.opening
         /\ v.handler # "none" => s \notin Ids(p) /\ v.state # "idle"
         /\ s \in Ids(p) => v.handler = "none"
         /\ v.handler \in {"running", "returned", "raised"} => v.ran
         /\ isLive(p, s) => ~ResetOn(p, s) /\ v.cause = "none" /\ Alive(p)
         /\ MayEnd(v) => isLive(p, s) /\ ~EndsOn(p, s)
         /\ WithinLimit /\ ~setup.faulty /\ phase[p] \in {"flushing", "closing"} /\ isLive(p, s) =>
               v.opening /\ s > promised[p]
<1> PICK o \in Peers : o = Other(p) /\ o # p /\ Other(o) = p BY PeerFacts
<1>1. Shape /\ s \in Lanes /\ s # CONNECTION_LANE /\ (s \in Ids(p) <=> s \notin Ids(o)) BY PeerFacts DEF RefusalInv
<1>2. InOrder(p, s) /\ InOrder(o, s) /\ Link(p, o, s) /\ Link(o, p, s) /\ Leaving(p, o) BY <1>1, LinkFacts
<1>3. v \in Stream BY <1>1 DEF Shape
<1>4. Stage(p, s) BY <1>2 DEF Link
<1>5. v.handler # "none" => s \notin Ids(p) /\ v.state # "idle" BY <1>4 DEF Stage, NoStream
<1>6. Holds(p, s) \/ v.handler \in {"scheduled", "running", "returned"} => ~v.opening
  <2>1. s \in Ids(p) => ~v.opening BY <1>4 DEF Stage
  <2>2. s \notin Ids(p) => Fresh(p, s) BY <1>1, ViewFacts
  <2>3. v.opening \in BOOLEAN BY <1>3 DEF Stream
  <2> QED BY <2>1, <2>2, <2>3 DEF Holds, Fresh
<1>7. isLive(p, s) => ~ResetOn(p, s) /\ v.cause = "none" /\ Alive(p) BY <1>2, SideFacts
<1>8. MayEnd(v) => isLive(p, s) /\ ~EndsOn(p, s)
  <2> HAVE MayEnd(v)
  <2>1. v.state \notin {"half_closed_local", "closed"} BY DEF MayEnd
  <2> QED BY <1>2, <2>1, LiveFacts DEF Link, Ends
<1>9. WithinLimit /\ ~setup.faulty /\ phase[p] \in {"flushing", "closing"} /\ isLive(p, s) =>
         v.opening /\ s > promised[p]
  BY <1>2 DEF Leaving
<1>10. /\ s \in Ids(p) => v.handler = "none"
       /\ v.handler \in {"running", "returned", "raised"} => v.ran
  BY <1>4 DEF Stage
<1> QED BY <1>1, <1>2, <1>3, <1>5, <1>6, <1>7, <1>8, <1>9, <1>10

LEMMA FrameKinds ==
  /\ \A payload, end \in BOOLEAN :
        LET f == DataFrame(payload, end)
        IN f.type = "data" /\ f.frags = 1 /\ f.payload = payload /\ f.end = end
  /\ \A frags \in 1 .. MaxFrags, end \in BOOLEAN :
        LET f == OpenFrame(frags, end) IN f.type = "open" /\ f.frags = frags /\ f.end = end
BY DEF DataFrame, OpenFrame

(* Data is sent while nothing has to be flushed.                           *)
LEMMA SpeakingLinks ==
  ASSUME RefusalInv, LinkInv, Shape', NEW p \in Peers, NEW s \in Streams,
         NEW u, u = view[p][s], NEW v \in Stream, SetView(p, s, v), MayEnd(u), ~u.opening,
         NEW payload \in BOOLEAN, NEW end \in BOOLEAN, Enqueue(p, s, DataFrame(payload, end)),
         UNCHANGED <<phase, next, high, promised, allowed, chan, setup>>,
         v.sent = u.sent + IF payload THEN 1 ELSE 0,
         v.state = (IF ~end THEN u.state ELSE IF u.state = "half_closed_remote" THEN "closed" ELSE "half_closed_local"),
         v.cause = (IF end /\ u.state = "half_closed_remote" THEN "normal" ELSE u.cause),
         v.opening = u.opening, v.ran = u.ran, v.got = u.got,
         v.handler = u.handler \/ (u.handler = "running" /\ v.handler = "returned")
  PROVE  LinkInv'
<1> DEFINE f == DataFrame(payload, end)
           o == Other(p)
<1>1. /\ Shape /\ s \in Lanes /\ o \in Peers /\ o # p /\ InOrder(p, s) /\ InOrder(o, s)
      /\ Link(p, o, s) /\ Link(o, p, s) /\ isLive(p, s) /\ ~ResetOn(p, s) /\ ~EndsOn(p, s) /\ u.cause = "none"
      /\ Alive(p)
  BY AppFacts
<1>2. f \in Frame /\ f.type = "data" /\ f.frags = 1 /\ f.payload = payload /\ f.end = end
  BY FrameFacts, FrameKinds
<1>3. view'[p][s] = v /\ \A q \in Peers, t \in Streams : q # p \/ t # s => view'[q][t] = view[q][t]
  BY <1>1, SetViewFacts
<1>4. out'[p][s] = Put(out[p][s], f) /\ \A q \in Peers, l \in Lanes : q # p \/ l # s => out'[q][l] = out[q][l]
  BY <1>1, PutOut
<1>5. Touch(p, s) /\ Calm BY <1>1, <1>3, <1>4, AppTouch
<1>6. Grown(p, s, f) BY <1>1, <1>2, <1>4, GrownBy
<1>7. Kept(o, s) BY <1>1, <1>4, KeptStill
<1>8. Link(p, o, s)' /\ Link(o, p, s)'
  <2>1. view'[o][s] = view[o][s] BY <1>1, <1>3
  <2>2. v.sent = u.sent + IF f.payload THEN 1 ELSE 0 BY <1>2
  <2>3. v.state = (IF ~f.end THEN u.state ELSE IF u.state = "half_closed_remote" THEN "closed" ELSE "half_closed_local")
    BY <1>2
  <2>4. v.cause = (IF f.end /\ u.state = "half_closed_remote" THEN "normal" ELSE u.cause) BY <1>2
  <2>5. f.payload \in BOOLEAN /\ f.end \in BOOLEAN BY <1>2
  <2> HIDE DEF f
  <2> QED BY <1>1, <1>2, <1>3, <1>5, <1>6, <1>7, <2>1, <2>2, <2>3, <2>4, <2>5, Speaking
<1>9. Ebbs(p, s)
  <2>1. v.cause # "CONNECTION_CLOSED" BY <1>1
  <2>2. ~(WithinLimit /\ ~setup.faulty /\ phase[p] \in {"flushing", "closing"}) BY <1>1, AppFacts
  <2> QED BY <1>1, <1>3, <2>1, <2>2 DEF Ebbs
<1>10. NoNewOpen(p, s)
  <2>1. f.type # "open" BY <1>2
  <2> QED BY <1>1, <1>2, <1>4, <2>1, NoNewOpenBy
<1> QED BY <1>1, <1>5, <1>8, <1>9, <1>10, Concludes

LEMMA EndFacts ==
  ASSUME NEW v \in Stream
  PROVE  /\ LocallyEnded(v).state = IF v.state = "half_closed_remote" THEN "closed" ELSE "half_closed_local"
         /\ LocallyEnded(v).cause = IF v.state = "half_closed_remote" THEN "normal" ELSE v.cause
         /\ RemotelyEnded(v).state = IF v.state = "half_closed_local" THEN "closed" ELSE "half_closed_remote"
         /\ RemotelyEnded(v).cause = IF v.state = "half_closed_local" THEN "normal" ELSE v.cause
BY DEF LocallyEnded, RemotelyEnded, Stream

LEMMA SendLinks ==
  ASSUME RefusalInv, LinkInv, Shape', NEW p \in Peers, NEW s \in Streams, Send(p, s)
  PROVE  LinkInv'
<1> DEFINE u == view[p][s]
<1>1. PICK payload, end \in BOOLEAN :
         /\ Enqueue(p, s, DataFrame(payload, end))
         /\ LET w == IF payload THEN [u EXCEPT !.sent = @ + 1] ELSE u
            IN SetView(p, s, IF end THEN LocallyEnded(w) ELSE w)
  BY DEF Send
<1>2. Holds(p, s) /\ MayEnd(u) /\ UNCHANGED <<phase, next, high, promised, allowed, chan, setup>>
  BY DEF Send, MayEnd
<1>3. u \in Stream /\ ~u.opening BY <1>2, AppFacts
<1> DEFINE w == IF payload THEN [u EXCEPT !.sent = @ + 1] ELSE u
           v == IF end THEN LocallyEnded(w) ELSE w
<1>4. /\ w \in Stream /\ w.sent = u.sent + IF payload THEN 1 ELSE 0
      /\ w.state = u.state /\ w.cause = u.cause /\ w.opening = u.opening /\ w.ran = u.ran /\ w.got = u.got
      /\ w.handler = u.handler
  BY <1>3 DEF Stream
<1>5. SetView(p, s, v) BY <1>1
<1> HIDE DEF w
<1>6. /\ v \in Stream /\ v.sent = w.sent /\ v.opening = w.opening /\ v.ran = w.ran /\ v.got = w.got
      /\ v.handler = w.handler
      /\ v.state = (IF ~end THEN w.state ELSE IF w.state = "half_closed_remote" THEN "closed" ELSE "half_closed_local")
      /\ v.cause = (IF end /\ w.state = "half_closed_remote" THEN "normal" ELSE w.cause)
  <2>1. CASE end
    <3>1. v = LocallyEnded(w) BY <2>1
    <3> QED BY <1>4, <2>1, <3>1, EndFacts, StreamFacts
  <2>2. CASE ~end BY <1>4, <2>2
  <2> QED BY <2>1, <2>2
<1> HIDE DEF v
<1> QED BY <1>1, <1>2, <1>3, <1>4, <1>5, <1>6, SpeakingLinks

(* The handler goes on without a word.                                     *)
LEMMA MovingLinks ==
  ASSUME RefusalInv, LinkInv, Shape', NEW p \in Peers, NEW s \in Streams,
         NEW u, u = view[p][s], NEW v \in Stream, SetView(p, s, v), u.handler \in {"scheduled", "running"},
         UNCHANGED <<phase, next, high, promised, allowed, out, chan, setup>>,
         v.state = u.state, v.cause = u.cause, v.opening = u.opening, v.sent = u.sent, v.got = u.got,
         v.handler \in {"running", "returned", "raised"}, v.ran, isLive(p, s) => v.handler # "raised"
  PROVE  LinkInv'
<1> DEFINE o == Other(p)
<1>1. /\ Shape /\ s \in Lanes /\ o \in Peers /\ o # p /\ InOrder(p, s) /\ InOrder(o, s)
      /\ Link(p, o, s) /\ Link(o, p, s) /\ s \notin Ids(p) /\ u.state # "idle" /\ ~u.opening
  BY AppFacts
<1>2. view'[p][s] = v /\ \A q \in Peers, t \in Streams : q # p \/ t # s => view'[q][t] = view[q][t]
  BY <1>1, SetViewFacts
<1>3. Touch(p, s) /\ Calm BY <1>1, <1>2, AppTouch
<1>4. Kept(p, s) /\ Kept(o, s) BY <1>1, KeptStill
<1>5. Link(p, o, s)' /\ Link(o, p, s)'
  <2>1. view'[o][s] = view[o][s] BY <1>1, <1>2
  <2> QED BY <1>1, <1>2, <1>3, <1>4, <2>1, HandlerMoves
<1>6. isLive(p, s)' <=> isLive(p, s) BY <1>2 DEF isLive
<1>7. Ebbs(p, s)
  <2>1. WithinLimit /\ ~setup.faulty /\ phase[p] \in {"flushing", "closing"} => ~isLive(p, s)
    BY <1>1, AppFacts
  <2>2. WithinLimit /\ ~setup.faulty => v.cause # "CONNECTION_CLOSED"
    <3>1. Leaving(p, o) BY LinkFacts
    <3>2. u.handler # "none" BY <1>1
    <3> QED BY <3>1, <3>2 DEF Leaving
  <2> QED BY <1>1, <1>2, <1>6, <2>1, <2>2 DEF Ebbs
<1>8. NoNewOpen(p, s) BY DEF NoNewOpen
<1> QED BY <1>1, <1>3, <1>5, <1>7, <1>8, Concludes

LEMMA OpenLinks ==
  ASSUME RefusalInv, LinkInv, Shape', NEW p \in Peers, Open(p)
  PROVE  LinkInv'
<1> DEFINE o == Other(p)
<1> PICK s \in Ids(p) : s = next[p] BY DEF Open
<1>1. s \in Ids(p) /\ s \in Streams /\ Alive(p) /\ promised[p] = None BY PeerFacts DEF Open, Alive
<1>2. /\ Shape /\ s \in Lanes /\ o \in Peers /\ o # p /\ Other(o) = p /\ InOrder(p, s) /\ InOrder(o, s)
      /\ Link(p, o, s) /\ Link(o, p, s)
  BY <1>1, AppFacts
<1>3. PICK frags \in 1 .. MaxFrags, end \in BOOLEAN :
         /\ Enqueue(p, s, OpenFrame(frags, end))
         /\ SetView(p, s, [NoStream EXCEPT !.state = IF end THEN "half_closed_local" ELSE "open"])
  BY DEF Open
<1>4. /\ next' = [next EXCEPT ![p] = @ + 2] /\ allowed[p] = None
      /\ UNCHANGED <<phase, high, promised, allowed, chan, setup>>
  BY DEF Open
<1> DEFINE f == OpenFrame(frags, end)
           v == [NoStream EXCEPT !.state = IF f.end THEN "half_closed_local" ELSE "open"]
<1>5. f \in Frame /\ f.type = "open" /\ f.end = end /\ f.end \in BOOLEAN BY FrameFacts, FrameKinds
<1>6. SetView(p, s, v) BY <1>3, <1>5
<1> HIDE DEF f
<1>7. v \in Stream /\ v.cause = "none" BY DEF NoStream, Stream, Live, Handler
<1> HIDE DEF v
<1>8. view'[p][s] = v /\ \A q \in Peers, t \in Streams : q # p \/ t # s => view'[q][t] = view[q][t]
  BY <1>1, <1>2, <1>6, <1>7, SetViewFacts
<1>9. Enqueue(p, s, f) BY <1>3 DEF f
<1>10. out'[p][s] = Put(out[p][s], f) /\ \A q \in Peers, l \in Lanes : q # p \/ l # s => out'[q][l] = out[q][l]
  BY <1>2, <1>9, PutOut
<1>11. Touch(p, s) /\ SameLives BY <1>1, <1>2, <1>4, <1>8, <1>10, AppTouch
<1>12. /\ ~AnyOn(p, s) /\ s > high[o] /\ s \in Nat /\ next[p] \in Nat /\ next \in [Peers -> Nat]
  <2>1. /\ AnyOn(p, s) => s < next[p]
        /\ next[p] \in Nat /\ s \in Nat /\ next[p] > high[o]
    BY <1>2, IdFacts
  <2> QED BY <1>2, <2>1 DEF Shape
<1>13. Grown(p, s, f)
  <2>1. ~ResetOn(p, s) BY <1>12, OnFacts
  <2> QED BY <1>1, <1>2, <1>4, <1>5, <1>10, <1>12, <2>1, GrownBy
<1>14. Kept(o, s) BY <1>2, <1>4, <1>10, KeptStill
<1>15. next'[p] = next[p] + 2 /\ next'[o] = next[o] BY <1>2, <1>4, <1>12
<1>16. Link(p, o, s)' /\ Link(o, p, s)'
  <2>1. view'[o][s] = view[o][s] BY <1>1, <1>2, <1>8
  <2>2. UNCHANGED <<high, promised>> BY <1>4
  <2>3. view'[p][s] = [NoStream EXCEPT !.state = IF f.end THEN "half_closed_local" ELSE "open"] BY <1>8 DEF v
  <2> QED BY <1>1, <1>2, <1>5, <1>11, <1>12, <1>13, <1>14, <1>15, <2>1, <2>2, <2>3, Opened
<1>17. Ebbs(p, s)
  <2>1. Leaving(p, o) BY LinkFacts
  <2>2. ~(WithinLimit /\ phase[p] \in {"flushing", "closing"}) BY <1>1, <2>1 DEF Leaving
  <2> QED BY <1>1, <1>4, <1>7, <1>8, <2>2 DEF Ebbs
<1>18. OpensId(p, s) BY <1>1, <1>4 DEF OpensId
<1>19. UNCHANGED <<phase, promised, allowed>> BY <1>4
<1> QED BY <1>1, <1>11, <1>16, <1>17, <1>18, <1>19, Concludes

(* This side ends the stream with a reset.                                 *)
LEMMA CancellingLinks ==
  ASSUME RefusalInv, LinkInv, Shape', NEW p \in Peers, NEW s \in Streams,
         isLive(p, s), ~view[p][s].opening, Over(p, s), view'[p][s].cause # "CONNECTION_CLOSED",
         \A q \in Peers, t \in Streams : q # p \/ t # s => view'[q][t] = view[q][t],
         NEW w, w = out[p][s] \/ w = Keep(out[p][s]),
         NEW code \in ResetCode \ {"PROTOCOL_ERROR"}, out'[p][s] = Put(w, ResetFrame(code)),
         \A q \in Peers, l \in Lanes : q # p \/ l # s => out'[q][l] = out[q][l],
         UNCHANGED <<phase, next, high, promised, allowed, chan, setup>>
  PROVE  LinkInv'
<1> DEFINE o == Other(p)
<1>1. /\ Shape /\ s \in Lanes /\ o \in Peers /\ o # p /\ InOrder(p, s) /\ InOrder(o, s)
      /\ Link(p, o, s) /\ Link(o, p, s) /\ ~ResetOn(p, s) /\ Alive(p)
  BY AppFacts
<1>2. Touch(p, s) /\ Calm BY <1>1, AppTouch
<1>3. Struck(p, s) BY <1>1, StruckBy
<1>4. Kept(o, s) BY <1>1, KeptStill
<1>5. Link(p, o, s)' /\ Link(o, p, s)'
  <2>1. view'[o][s] = view[o][s] BY <1>1
  <2> QED BY <1>1, <1>2, <1>3, <1>4, <2>1, Cancelling
<1>6. Ebbs(p, s)
  <2>1. ~(WithinLimit /\ ~setup.faulty /\ phase[p] \in {"flushing", "closing"}) BY <1>1, AppFacts
  <2>2. ~isLive(p, s)' BY DEF Over, isLive, Live
  <2> QED BY <1>1, <2>1, <2>2 DEF Ebbs
<1>7. NoNewOpen(p, s)
  <2>1. ResetFrame(code) \in Frame /\ ResetFrame(code).type # "open" BY FrameFacts
  <2> QED BY <1>1, <2>1, NoNewOpenBy
<1> QED BY <1>1, <1>2, <1>5, <1>6, <1>7, Concludes

LEMMA FailedFacts ==
  ASSUME NEW v \in Stream, NEW code \in ResetCode \cup {"CONNECTION_CLOSED"}, v.state # "closed"
  PROVE  Failed(v, code).cause = code
BY DEF Failed, Stream

LEMMA ResetLinks ==
  ASSUME RefusalInv, LinkInv, Shape', NEW p \in Peers, NEW s \in Streams, Reset(p, s)
  PROVE  LinkInv'
<1> DEFINE u == view[p][s]
           v == Failed(u, "CANCELLED")
<1>1. /\ Holds(p, s) /\ isLive(p, s) /\ EnqueueReset(p, s, "CANCELLED") /\ SetView(p, s, v)
      /\ UNCHANGED <<phase, next, high, promised, allowed, chan, setup>>
  BY DEF Reset
<1>2. /\ Shape /\ s \in Lanes /\ u \in Stream /\ ~u.opening /\ u.state # "closed"
      /\ (s \in Ids(p) => u.handler = "none")
      /\ (u.handler \in {"running", "returned", "raised"} => u.ran)
  BY <1>1, AppFacts, LiveFacts
<1>3. "CANCELLED" \in ResetCode \ {"PROTOCOL_ERROR"} BY DEF ResetCode
<1>4. v \in Stream BY <1>2, <1>3, StreamFacts
<1>5. view'[p][s] = v /\ \A q \in Peers, t \in Streams : q # p \/ t # s => view'[q][t] = view[q][t]
  <2> HIDE DEF v
  <2> QED BY <1>1, <1>2, <1>4, SetViewFacts
<1>6. Over(p, s) /\ v.cause = "CANCELLED"
  <2>1. /\ v.state = "closed" /\ v.opening = u.opening /\ v.ran = u.ran /\ v.sent = u.sent /\ v.got = u.got
        /\ v.cause = "CANCELLED"
        /\ v.handler = IF u.state # "closed" /\ u.handler = "scheduled" THEN "cancelled" ELSE u.handler
    BY <1>2, <1>3, StreamFacts, FailedFacts
  <2> HIDE DEF v
  <2> QED BY <1>2, <1>5, <2>1 DEF Over
<1>7. /\ out'[p][s] = Put(Keep(out[p][s]), ResetFrame("CANCELLED"))
      /\ \A q \in Peers, l \in Lanes : q # p \/ l # s => out'[q][l] = out[q][l]
  BY <1>1, <1>2, PutResetOut
<1> HIDE DEF v
<1> QED BY <1>1, <1>2, <1>3, <1>5, <1>6, <1>7, CancellingLinks

LEMMA HandlerStartsLinks ==
  ASSUME RefusalInv, LinkInv, Shape', NEW p \in Peers, NEW s \in Streams, HandlerStarts(p, s)
  PROVE  LinkInv'
<1> DEFINE u == view[p][s]
           v == [u EXCEPT !.handler = "running", !.ran = TRUE]
<1>1. /\ u.handler = "scheduled" /\ SetView(p, s, v)
      /\ UNCHANGED <<phase, next, high, promised, allowed, out, chan, setup>>
  BY DEF HandlerStarts
<1>2. u \in Stream BY AppFacts
<1>3. /\ v \in Stream /\ v.state = u.state /\ v.cause = u.cause /\ v.opening = u.opening /\ v.sent = u.sent
      /\ v.got = u.got /\ v.handler = "running" /\ v.ran
  BY <1>2 DEF Stream, Handler
<1> HIDE DEF v
<1> QED BY <1>1, <1>3, MovingLinks

LEMMA HandlerReturnsLinks ==
  ASSUME RefusalInv, LinkInv, Shape', NEW p \in Peers, NEW s \in Streams, HandlerReturns(p, s)
  PROVE  LinkInv'
<1> DEFINE u == view[p][s]
           w == [u EXCEPT !.handler = "returned"]
<1>1. u \in Stream /\ u.ran /\ ~u.opening /\ u.handler = "running"
  <2>1. u.handler = "running" BY DEF HandlerReturns
  <2> QED BY <2>1, AppFacts
<1>2. /\ w \in Stream /\ w.state = u.state /\ w.cause = u.cause /\ w.opening = u.opening /\ w.sent = u.sent
      /\ w.got = u.got /\ w.handler = "returned" /\ w.ran = u.ran
  BY <1>1 DEF Stream, Handler
<1>3. /\ IF w.state \in {"open", "half_closed_remote"}
         THEN Enqueue(p, s, DataFrame(FALSE, TRUE)) /\ SetView(p, s, LocallyEnded(w))
         ELSE SetView(p, s, w) /\ UNCHANGED out
      /\ UNCHANGED <<phase, next, high, promised, allowed, chan, setup>>
  BY DEF HandlerReturns
<1> HIDE DEF w
<1>4. CASE w.state \in {"open", "half_closed_remote"}
  <2> DEFINE v == LocallyEnded(w)
  <2>1. /\ v \in Stream /\ v.opening = u.opening /\ v.ran = u.ran /\ v.handler = "returned"
        /\ v.sent = u.sent + 0 /\ v.got = u.got
        /\ v.state = IF u.state = "half_closed_remote" THEN "closed" ELSE "half_closed_local"
        /\ v.cause = IF u.state = "half_closed_remote" THEN "normal" ELSE u.cause
    <3>1. u.sent \in Nat BY <1>1 DEF Stream
    <3> QED BY <1>2, <3>1, StreamFacts, EndFacts
  <2>2. MayEnd(u) BY <1>2, <1>4 DEF MayEnd
  <2>3. SetView(p, s, v) /\ Enqueue(p, s, DataFrame(FALSE, TRUE)) BY <1>3, <1>4
  <2> HIDE DEF v
  <2> QED BY <1>1, <1>3, <2>1, <2>2, <2>3, SpeakingLinks
<1>5. CASE w.state \notin {"open", "half_closed_remote"}
  <2>1. SetView(p, s, w) /\ UNCHANGED out BY <1>3, <1>5
  <2> QED BY <1>1, <1>2, <1>3, <2>1, MovingLinks
<1> QED BY <1>4, <1>5

LEMMA HandlerRaisesLinks ==
  ASSUME RefusalInv, LinkInv, Shape', NEW p \in Peers, NEW s \in Streams, HandlerRaises(p, s)
  PROVE  LinkInv'
<1> DEFINE u == view[p][s]
           w == [u EXCEPT !.handler = "raised"]
           v == Failed(w, "APPLICATION_ERROR")
<1>1. /\ Shape /\ s \in Lanes /\ u \in Stream /\ u.ran /\ ~u.opening /\ u.handler = "running"
      /\ s \notin Ids(p) /\ u.state # "idle"
  <2>1. u.handler = "running" BY DEF HandlerRaises
  <2> QED BY <2>1, AppFacts
<1>2. /\ w \in Stream /\ w.state = u.state /\ w.cause = u.cause /\ w.opening = u.opening /\ w.sent = u.sent
      /\ w.got = u.got /\ w.handler = "raised" /\ w.ran = u.ran
  BY <1>1 DEF Stream, Handler
<1>3. /\ IF isLive(p, s) THEN Enqueue(p, s, ResetFrame("APPLICATION_ERROR")) ELSE UNCHANGED out
      /\ SetView(p, s, v)
      /\ UNCHANGED <<phase, next, high, promised, allowed, chan, setup>>
  BY DEF HandlerRaises
<1> HIDE DEF w
<1>4. "APPLICATION_ERROR" \in ResetCode \ {"PROTOCOL_ERROR"} BY DEF ResetCode
<1>5. /\ v \in Stream /\ v.state = "closed" /\ v.opening = u.opening /\ v.ran /\ v.sent = u.sent /\ v.got = u.got
      /\ v.handler = "raised"
      /\ (u.state # "closed" => v.cause = "APPLICATION_ERROR")
  <2>1. u.state # "closed" => v.cause = "APPLICATION_ERROR"
    <3> HAVE u.state # "closed"
    <3>1. w.state # "closed" BY <1>2
    <3> QED BY <1>2, <1>4, <3>1, FailedFacts
  <2>2. /\ v \in Stream /\ v.state = "closed" /\ v.opening = w.opening /\ v.ran = w.ran
        /\ v.sent = w.sent /\ v.got = w.got
        /\ v.handler = IF w.state # "closed" /\ w.handler = "scheduled" THEN "cancelled" ELSE w.handler
    BY <1>2, <1>4, StreamFacts
  <2> HIDE DEF v
  <2>3. v.handler = "raised" BY <1>2, <2>2
  <2> QED BY <1>1, <1>2, <2>1, <2>2, <2>3
<1>6. u.state = "closed" => v = w BY <1>2 DEF Failed
<1> HIDE DEF v
<1>7. CASE isLive(p, s)
  <2>1. u.state # "closed" BY <1>7, LiveFacts
  <2>2. view'[p][s] = v /\ \A q \in Peers, t \in Streams : q # p \/ t # s => view'[q][t] = view[q][t]
    BY <1>1, <1>3, <1>5, SetViewFacts
  <2>3. Over(p, s) BY <1>1, <1>5, <2>1, <2>2 DEF Over
  <2>4. Enqueue(p, s, ResetFrame("APPLICATION_ERROR")) BY <1>3, <1>7
  <2>5. /\ out'[p][s] = Put(out[p][s], ResetFrame("APPLICATION_ERROR"))
        /\ \A q \in Peers, l \in Lanes : q # p \/ l # s => out'[q][l] = out[q][l]
    BY <1>1, <2>4, PutOut
  <2> QED BY <1>1, <1>3, <1>4, <1>5, <1>7, <2>1, <2>2, <2>3, <2>5, CancellingLinks
<1>8. CASE ~isLive(p, s)
  <2>1. u.state = "closed" BY <1>1, <1>8 DEF isLive, Stream
  <2>2. SetView(p, s, w) BY <1>3, <1>6, <2>1
  <2>3. out' = out BY <1>3, <1>8
  <2> QED BY <1>1, <1>2, <1>3, <1>8, <2>2, <2>3, MovingLinks
<1> QED BY <1>7, <1>8

(***************************************************************************)
(* The steps of the read loop.                                             *)

(* A fragment on the lane of a stream arrives.                             *)
LEMMA ArrivesFacts ==
  ASSUME RefusalInv, LinkInv, NEW p \in Peers, NEW o \in Peers, o = Other(p),
         NEW type \in {"open", "data", "reset"}, Reads(p, type),
         NEW f, f = Incoming(p).frame, NEW s, s = Incoming(p).lane,
         NEW x, x = Piece(f, Incoming(p).idx)
  PROVE  /\ s \in Streams /\ s \in Lanes /\ s # CONNECTION_LANE /\ (s \in Ids(p) <=> s \notin Ids(o))
         /\ (type = "open" => s \in Ids(o))
         /\ Shape /\ Alive(p) /\ Reading1(p, s) /\ chan[o] # << >> /\ chan'[o] = Tail(chan[o]) /\ chan'[p] = chan[p]
         /\ x.frame = f /\ f.type = type /\ x.idx = Incoming(p).idx /\ x.idx = Head(chan[o]).idx
         /\ f = Head(chan[o]).frame
         /\ x = Piece(Head(chan[o]).frame, Head(chan[o]).idx)
         /\ Fine(s, x) /\ AnyOn(o, s)
         /\ (out'[o][s] = out[o][s] => Taken(o, s, x))
<1>1. Shape /\ DOMAIN chan = Peers /\ p # o BY PeerFacts DEF RefusalInv, Shape
<1>2. /\ chan[o] # << >> /\ chan' = [chan EXCEPT ![o] = Tail(@)] /\ f.type = type /\ Reading(p)
      /\ f = Head(chan[o]).frame /\ s = Head(chan[o]).lane /\ Incoming(p) = Head(chan[o])
  BY DEF Reads, Incoming
<1>3. Alive(p) BY <1>2 DEF Reading, Alive
<1>4. 1 \in DOMAIN chan[o] /\ Head(chan[o]) = chan[o][1]
  <2>1. chan[o] \in Seq(Sent) BY <1>1 DEF Shape
  <2> QED BY <1>2, <2>1, TailFacts
<1>5. /\ s \in Lanes /\ AnyOn(o, s) /\ Fine(s, x) /\ (f.type = "open" => s \in Ids(o))
  BY <1>1, <1>2, <1>4, OnLine
<1>6. x.frame = f /\ x.idx = Incoming(p).idx BY DEF Piece
<1>7. s # CONNECTION_LANE BY <1>2, <1>5, <1>6 DEF Fine
<1>8. s \in Streams BY <1>5, <1>7 DEF Lanes
<1>9. s \in Ids(p) <=> s \notin Ids(o) BY <1>8, PeerFacts
<1>10. chan'[o] = Tail(chan[o]) /\ chan'[p] = chan[p] BY <1>1, <1>2
<1>11. Reading1(p, s) BY <1>2 DEF Reading1
<1>12. out'[o][s] = out[o][s] => Taken(o, s, x)
  <2> HAVE out'[o][s] = out[o][s]
  <2>1. InOrder(o, s) BY <1>5, LinkFacts
  <2>2. x = Piece(Head(chan[o]).frame, Head(chan[o]).idx) BY <1>2
  <2> QED BY <1>1, <1>2, <1>8, <1>10, <2>1, <2>2, TakenBy
<1>13. x = Piece(Head(chan[o]).frame, Head(chan[o]).idx) BY <1>2
<1>14. x.idx = Head(chan[o]).idx BY <1>2, <1>6
<1> QED BY <1>1, <1>2, <1>3, <1>5, <1>6, <1>7, <1>8, <1>9, <1>10, <1>11, <1>12, <1>13, <1>14

LEMMA ReadTouch ==
  ASSUME Shape, NEW p \in Peers, NEW s \in Streams, UNCHANGED <<phase, promised, setup>>, Reading1(p, s),
         \A q \in Peers, t \in Streams : q # p \/ t # s => view'[q][t] = view[q][t],
         \A q \in Peers, l \in Lanes : q # p \/ l # s => out'[q][l] = out[q][l]
  PROVE  SameLives /\ Touch(p, s) /\ (UNCHANGED <<next, high>> => Calm)
BY DEF SameLives, Alive, Touch, Calm

(* Nothing is sent on a lane by the reader, or a reset is.                 *)
LEMMA ReadKeeps ==
  ASSUME Shape, NEW p \in Peers, NEW s \in Streams, InOrder(p, s), chan'[p] = chan[p]
  PROVE  /\ UNCHANGED out => Kept(p, s) /\ NoNewOpen(p, s) /\ out'[p][s] = out[p][s]
         /\ ~ResetOn(p, s) /\ Enqueue(p, s, ResetFrame("REFUSED")) => Struck(p, s) /\ NoNewOpen(p, s)
<1>1. s \in Lanes BY PeerFacts
<1>2. ASSUME UNCHANGED out PROVE Kept(p, s) /\ NoNewOpen(p, s) /\ out'[p][s] = out[p][s]
  <2>1. out'[p][s] = out[p][s] BY <1>2
  <2> QED BY <2>1, KeptStill DEF NoNewOpen
<1>3. ASSUME ~ResetOn(p, s), Enqueue(p, s, ResetFrame("REFUSED")) PROVE Struck(p, s) /\ NoNewOpen(p, s)
  <2>1. out'[p][s] = Put(out[p][s], ResetFrame("REFUSED")) BY <1>1, <1>3, PutOut
  <2>2. "REFUSED" \in ResetCode \ {"PROTOCOL_ERROR"} BY DEF ResetCode
  <2>3. ResetFrame("REFUSED") \in Frame /\ ResetFrame("REFUSED").type # "open" BY <2>2, FrameFacts
  <2>4. Struck(p, s) BY <1>3, <2>1, <2>2, StruckBy
  <2> QED BY <1>1, <2>1, <2>3, <2>4, NoNewOpenBy
<1> QED BY <1>2, <1>3

(* A stream that is not new is not continued unless its `open` is.         *)
LEMMA OpenFacts ==
  ASSUME RefusalInv, LinkInv, NEW p \in Peers, NEW o \in Peers, o = Other(p), Reads(p, "open"),
         NEW f, f = Incoming(p).frame, NEW s, s = Incoming(p).lane,
         NEW x, x = Piece(f, Incoming(p).idx), out'[o][s] = out[o][s]
  PROVE  /\ s \in Nat /\ high[p] \in Nat /\ next[o] \in Nat /\ f \in Frame /\ x.idx \in 1 .. f.frags
         /\ f.frags \in 1 .. MaxFrags /\ f.end \in BOOLEAN
         /\ s > high[p] => /\ IsFirst(x) /\ IsFirst(Head(chan[o])) /\ view[p][s] = NoStream
                           /\ ~isLive(p, s) /\ ~AnyOn(p, s)
         /\ s <= high[p] /\ ~Continues(p) => ~isLive(p, s) /\ ~Hears(p, s) /\ ~WithinLimit
         /\ Continues(p) => isLive(p, s) /\ view[p][s].opening /\ s <= high[p]
<1>1. /\ s \in Streams /\ s \in Lanes /\ s \in Ids(o) /\ s \notin Ids(p) /\ Shape /\ Alive(p) /\ x.frame = f
      /\ x.idx = Incoming(p).idx /\ f.type = "open" /\ Fine(s, x) /\ Taken(o, s, x) /\ AnyOn(o, s)
      /\ x.idx = Head(chan[o]).idx /\ f = Head(chan[o]).frame
  BY ArrivesFacts
<1>2. /\ s \in Nat /\ high[p] \in Nat /\ next[o] \in Nat BY <1>1, PeerFacts DEF Shape
<1>3. /\ f \in Frame /\ x.idx \in 1 .. f.frags BY <1>1 DEF Fine
<1>4. f.frags \in 1 .. MaxFrags /\ f.end \in BOOLEAN BY <1>3 DEF Frame
<1>5. /\ OpenOn(o, s) /\ (FirstOn(o, s) <=> x.idx = 1) BY <1>1 DEF Taken
<1>6. /\ Link(o, p, s) /\ Link(p, o, s) /\ Fresh(p, s)
  <2>1. p = Other(o) BY PeerFacts
  <2> QED BY <1>1, <2>1, LinkFacts, ViewFacts
<1>7. /\ FirstOn(o, s) => s > high[p]
      /\ s > high[p] => FirstOn(o, s)
      /\ isLive(p, s) => view[p][s].opening
      /\ WithinLimit /\ s <= high[p] => isLive(p, s)
  BY <1>1, <1>5, <1>6 DEF Link, Opening
<1>8. ASSUME s > high[p]
      PROVE  /\ IsFirst(x) /\ IsFirst(Head(chan[o])) /\ view[p][s] = NoStream
             /\ ~isLive(p, s) /\ ~AnyOn(p, s)
  <2>1. x.idx = 1 BY <1>5, <1>7, <1>8
  <2>2. IsFirst(x) /\ IsFirst(Head(chan[o])) BY <1>1, <2>1 DEF IsFirst
  <2>3. view[p][s].state = "idle" BY <1>6, <1>8 DEF Fresh
  <2>4. view[p][s] = NoStream BY <1>6, <2>3 DEF Link, Stage
  <2>5. Unread(p, s) BY <1>1, <1>8 DEF Unread
  <2>6. ~AnyOn(p, s) BY <1>6, <2>5 DEF Link, Lines
  <2> QED BY <2>2, <2>3, <2>4, <2>6, LiveFacts
<1>9. ASSUME s <= high[p], ~Continues(p) PROVE ~isLive(p, s) /\ ~Hears(p, s) /\ ~WithinLimit
  <2>1. ~isLive(p, s)
    <3> SUFFICES ASSUME isLive(p, s) PROVE FALSE OBVIOUS
    <3>1. ~(f.frags > 1) BY <1>7, <1>9 DEF Continues
    <3>2. x.idx = 1 BY <1>3, <1>4, <3>1
    <3> QED BY <1>2, <1>5, <1>7, <1>9, <3>2
  <2>2. ~Unread(p, s) BY <1>2, <1>9 DEF Unread
  <2> QED BY <1>7, <1>9, <2>1, <2>2 DEF Hears
<1>10. Continues(p) => isLive(p, s) /\ view[p][s].opening /\ s <= high[p]
  <2> HAVE Continues(p)
  <2>1. isLive(p, s) /\ view[p][s].opening BY DEF Continues
  <2>2. view[p][s].state # "idle" BY <2>1, LiveFacts
  <2> QED BY <1>2, <1>6, <2>1, <2>2 DEF Fresh
<1> QED BY <1>2, <1>3, <1>4, <1>8, <1>9, <1>10

(* The closing peer has promised less than it newly learns of.             *)
LEMMA PromisedBelow ==
  ASSUME RefusalInv, LinkInv, NEW p \in Peers, NEW s \in Nat, s > high[p], WithinLimit,
         phase[p] \in {"flushing", "closing"}
  PROVE  s > promised[p] /\ promised[p] # None
<1> DEFINE o == Other(p)
<1>1. o \in Peers /\ Other(o) = p /\ high[p] \in Nat /\ promised[p] \in Nat \cup {None}
  BY PeerFacts DEF RefusalInv, Shape
<1>2. Leaving(p, o) /\ Numbers(o, p) BY <1>1, LinkFacts
<1> QED BY <1>1, <1>2 DEF Leaving, Numbers

(* The limit is never reached when no peer may open more.                  *)
LEMMA LimitFacts ==
  ASSUME RefusalInv, NEW p \in Peers, NEW o \in Peers, o = Other(p), NEW s \in Ids(o), ~isLive(p, s),
         DialerOpens <= Limit /\ AcceptorOpens <= Limit
  PROVE  RemoteStreamCount(p) < Limit
<1> PICK n \in Nat, first \in {0, 1} : n <= Limit /\ Ids(o) = {2 * i - first : i \in 1 .. n}
  <2>1. CASE o = "dialer" BY <2>1, ConnectionAssumption DEF Ids
  <2>2. CASE o # "dialer"
    <3>1. Ids(o) = {2 * i - 0 : i \in 1 .. AcceptorOpens} BY <2>2 DEF Ids
    <3> QED BY <3>1, ConnectionAssumption
  <2> QED BY <2>1, <2>2
<1> DEFINE f == [i \in 1 .. n |-> 2 * i - first]
           Lives == {t \in Streams \ Ids(p) : isLive(p, t)}
<1>1. IsFiniteSet(1 .. n) /\ Cardinality(1 .. n) = n BY FS_Interval
<1>2. f \in Surjection(1 .. n, Ids(o)) BY DEF Surjection
<1>3. IsFiniteSet(Ids(o)) /\ Cardinality(Ids(o)) <= n BY <1>1, <1>2, FS_Surjection
<1>4. IsFiniteSet(Ids(o) \ {s}) /\ Cardinality(Ids(o) \ {s}) = Cardinality(Ids(o)) - 1 BY <1>3, FS_RemoveElement
<1>5. Lives \subseteq Ids(o) \ {s} BY PeerFacts
<1>6. Cardinality(Lives) <= Cardinality(Ids(o) \ {s}) /\ Cardinality(Lives) \in Nat
  BY <1>4, <1>5, FS_Subset, FS_CardinalityType
<1>7. Cardinality(Ids(o)) \in Nat BY <1>3, FS_CardinalityType
<1>8. RemoteStreamCount(p) = Cardinality(Lives) BY DEF RemoteStreamCount
<1> HIDE DEF Lives
<1> QED BY <1>3, <1>4, <1>6, <1>7, <1>8, ConnectionAssumption

LEMMA OpenOverLimitLinks ==
  ASSUME RefusalInv, LinkInv, Shape', NEW p \in Peers, OpenOverLimit(p)
  PROVE  LinkInv'
<1> DEFINE o == Other(p)
<1> PICK s : s = Incoming(p).lane OBVIOUS
<1> PICK f : f = Incoming(p).frame OBVIOUS
<1> PICK x : x = Piece(f, Incoming(p).idx) OBVIOUS
<1>1. /\ Reads(p, "open") /\ s > high[p] /\ RemoteStreamCount(p) >= Limit
      /\ high' = [high EXCEPT ![p] = s] /\ Enqueue(p, s, ResetFrame("REFUSED"))
      /\ UNCHANGED <<phase, next, view, promised, allowed, setup>>
  BY DEF OpenOverLimit
<1>2. /\ s \in Streams /\ s \in Lanes /\ s \in Ids(o) /\ s \notin Ids(p) /\ Shape /\ Alive(p) /\ Reading1(p, s)
      /\ chan'[p] = chan[p] /\ x.frame = f /\ f.type = "open" /\ o \in Peers /\ o # p /\ Other(o) = p
      /\ (out'[o][s] = out[o][s] => Taken(o, s, x))
  BY <1>1, ArrivesFacts, PeerFacts
<1>3. /\ Link(p, o, s) /\ Link(o, p, s) /\ InOrder(p, s) BY <1>2, LinkFacts
<1>4. \A q \in Peers, l \in Lanes : q # p \/ l # s => out'[q][l] = out[q][l] BY <1>1, <1>2, PutOut
<1>5. out'[o][s] = out[o][s] BY <1>2, <1>4
<1>6. /\ s \in Nat /\ high[p] \in Nat /\ f.frags \in 1 .. MaxFrags /\ f.end \in BOOLEAN /\ x.idx \in 1 .. f.frags
      /\ IsFirst(x) /\ IsFirst(Head(chan[o])) /\ view[p][s] = NoStream /\ ~isLive(p, s) /\ ~AnyOn(p, s)
  BY <1>1, <1>2, <1>5, OpenFacts
<1>7. SameLives /\ Touch(p, s) BY <1>1, <1>2, <1>4, ReadTouch
<1>8. Struck(p, s) /\ NoNewOpen(p, s)
  <2>1. ~ResetOn(p, s) BY <1>6, OnFacts
  <2> QED BY <1>1, <1>2, <1>3, <2>1, ReadKeeps
<1>9. Reaches(p, s)
  <2>1. high'[p] = s /\ high'[o] = high[o] BY <1>1, <1>2 DEF Shape
  <2> QED BY <1>1, <1>6, <1>7, <2>1 DEF Reaches
<1>10. WithinLimit => IsLast(x)
  <2> HAVE WithinLimit
  <2>1. ~(DialerOpens <= Limit /\ AcceptorOpens <= Limit)
    <3>1. RemoteStreamCount(p) < Limit => FALSE
      <4>1. RemoteStreamCount(p) = Cardinality({t \in Streams \ Ids(p) : isLive(p, t)}) BY DEF RemoteStreamCount
      <4>2. IsFiniteSet(Ids(o))
        <5>1. IsFiniteSet({2 * i - 1 : i \in 1 .. DialerOpens}) /\ IsFiniteSet({2 * i : i \in 1 .. AcceptorOpens})
          <6>1. [i \in 1 .. DialerOpens |-> 2 * i - 1] \in Surjection(1 .. DialerOpens, {2 * i - 1 : i \in 1 .. DialerOpens})
            BY DEF Surjection
          <6>2. [i \in 1 .. AcceptorOpens |-> 2 * i] \in Surjection(1 .. AcceptorOpens, {2 * i : i \in 1 .. AcceptorOpens})
            BY DEF Surjection
          <6>3. IsFiniteSet(1 .. DialerOpens) /\ IsFiniteSet(1 .. AcceptorOpens) BY ConnectionAssumption, FS_Interval
          <6> QED BY <6>1, <6>2, <6>3, FS_Surjection
        <5> QED BY <5>1 DEF Ids
      <4>3. {t \in Streams \ Ids(p) : isLive(p, t)} \subseteq Ids(o) BY PeerFacts
      <4>4. RemoteStreamCount(p) \in Nat BY <4>1, <4>2, <4>3, FS_Subset, FS_CardinalityType
      <4> QED BY <1>1, <4>4, ConnectionAssumption
    <3> QED BY <1>2, <1>6, <3>1, LimitFacts
  <2>2. MaxFrags = 1 BY <2>1 DEF WithinLimit
  <2> QED BY <1>2, <1>6, <2>2 DEF IsLast
<1>11. Link(p, o, s)' /\ Link(o, p, s)'
  <2>1. view'[p][s] = NoStream /\ view'[o][s] = view[o][s] BY <1>1, <1>6
  <2>2. x.frame.type = "open" /\ Taken(o, s, x) BY <1>2, <1>5
  <2> QED BY <1>1, <1>2, <1>3, <1>8, <1>9, <1>10, <2>1, <2>2, Refusing
<1>12. Ebbs(p, s)
  <2>1. ~isLive(p, s)' /\ view'[p][s].cause = "none" BY <1>1, <1>6 DEF isLive, NoStream
  <2>2. WithinLimit /\ phase[p] \in {"flushing", "closing"} => s > promised[p] BY <1>1, <1>6, PromisedBelow
  <2> QED BY <1>2, <2>1, <2>2 DEF Ebbs
<1>13. LearnsId(p, s) BY <1>1, <1>2, <1>6 DEF LearnsId
<1>14. UNCHANGED <<phase, promised, allowed>> BY <1>1
<1> QED BY <1>2, <1>7, <1>8, <1>11, <1>12, <1>13, <1>14, Concludes

(* The stream u is given to a handler or refused, once its `open` is       *)
(* complete.                                                               *)
LEMMA StartingLinks ==
  ASSUME RefusalInv, LinkInv, Shape', NEW p \in Peers, NEW o \in Peers, o = Other(p), Reads(p, "open"),
         NEW f, f = Incoming(p).frame, NEW s, s = Incoming(p).lane, NEW x, x = Piece(f, Incoming(p).idx),
         IsLast(x), UNCHANGED <<phase, next, promised, allowed, setup>>,
         high'[o] = high[o], s <= high'[p],
         \/ s > high[p] /\ high' = [high EXCEPT ![p] = s]
         \/ Continues(p) /\ high' = high,
         NEW u, u = view[p][s],
         NEW v \in Stream, v.handler = "none", ~v.opening, v.sent = u.sent, v.got = u.got, v.cause = u.cause,
         v.state = (IF f.end THEN "half_closed_remote" ELSE IF u.state = "idle" THEN "open" ELSE u.state),
         v.state # "closed", StartHandler(p, s, v)
  PROVE  LinkInv'
<1>1. /\ s \in Streams /\ s \in Lanes /\ s \in Ids(o) /\ s \notin Ids(p) /\ Shape /\ Alive(p) /\ Reading1(p, s)
      /\ chan'[p] = chan[p] /\ x.frame = f /\ f.type = "open" /\ o # p /\ Other(o) = p
      /\ (out'[o][s] = out[o][s] => Taken(o, s, x))
  BY ArrivesFacts, PeerFacts
<1>2. /\ Link(p, o, s) /\ Link(o, p, s) /\ InOrder(p, s) BY <1>1, LinkFacts
<1> DEFINE refuses == promised[p] # None \/ p \notin Serving
<1>3. /\ refuses => Enqueue(p, s, ResetFrame("REFUSED")) /\ SetView(p, s, Failed(v, "REFUSED"))
      /\ ~refuses => SetView(p, s, [v EXCEPT !.handler = "scheduled"]) /\ UNCHANGED out
  BY DEF StartHandler
<1>4. \A q \in Peers, l \in Lanes : q # p \/ l # s => out'[q][l] = out[q][l] BY <1>1, <1>3, PutOut
<1>5. out'[o][s] = out[o][s] BY <1>1, <1>4
<1>6. /\ s \in Nat /\ high[p] \in Nat /\ f.end \in BOOLEAN
      /\ s > high[p] => IsFirst(x) /\ IsFirst(Head(chan[o])) /\ view[p][s] = NoStream
      /\ Continues(p) => isLive(p, s) /\ view[p][s].opening /\ s <= high[p]
  BY <1>5, OpenFacts
<1> DEFINE r == Failed(v, "REFUSED")
           h == [v EXCEPT !.handler = "scheduled"]
<1>7. "REFUSED" \in ResetCode BY DEF ResetCode
<1>8. /\ r \in Stream /\ r.state = "closed" /\ ~r.opening /\ r.sent = u.sent /\ r.got = u.got
      /\ r.cause = "REFUSED" /\ r.handler = "none"
  <2>1. r.cause = "REFUSED" BY <1>7, FailedFacts
  <2> QED BY <1>7, <2>1, StreamFacts
<1>9. /\ h \in Stream /\ h.handler = "scheduled" /\ ~h.opening /\ h.sent = u.sent /\ h.got = u.got
      /\ h.cause = u.cause /\ h.state = v.state
  BY DEF Stream, Handler
<1> HIDE DEF r, h
<1>10. /\ view'[p][s] = IF refuses THEN r ELSE h
       /\ \A q \in Peers, t \in Streams : q # p \/ t # s => view'[q][t] = view[q][t]
  <2>1. CASE refuses
    <3>1. SetView(p, s, r) BY <1>3, <2>1 DEF r
    <3> QED BY <1>1, <1>8, <2>1, <3>1, SetViewFacts
  <2>2. CASE ~refuses
    <3>1. SetView(p, s, h) BY <1>3, <2>2 DEF h
    <3> QED BY <1>1, <1>9, <2>2, <3>1, SetViewFacts
  <2> QED BY <2>1, <2>2
<1>11. SameLives /\ Touch(p, s) BY <1>1, <1>4, <1>10, ReadTouch
<1>12. Reaches(p, s) /\ Hears(p, s)
  <2>1. IF s > high[p] THEN view[p][s] = NoStream ELSE isLive(p, s) /\ view[p][s].opening
    BY <1>6
  <2>2. Reaches(p, s) BY <1>11, <2>1 DEF Reaches
  <2>3. Unread(p, s) \/ isLive(p, s) BY <1>1, <2>1 DEF Unread
  <2> QED BY <1>1, <2>2, <2>3 DEF Hears
<1>13. (refuses => Struck(p, s)) /\ (~refuses => Kept(p, s)) /\ NoNewOpen(p, s)
  <2>1. ~ResetOn(p, s) BY <1>1, <1>2, <1>12, SideFacts
  <2> QED BY <1>1, <1>2, <1>3, <2>1, ReadKeeps
<1>14. x.frame.type = "open" /\ Taken(o, s, x) /\ view'[o][s] = view[o][s] /\ x.frame.end \in BOOLEAN
  BY <1>1, <1>5, <1>6, <1>10
<1>15. CASE refuses
  <2>1. Over(p, s) BY <1>1, <1>8, <1>10, <1>15 DEF Over
  <2>2. Link(p, o, s)' /\ Link(o, p, s)' BY <1>1, <1>2, <1>12, <1>13, <1>14, <1>15, <2>1, Refusing
  <2>3. Ebbs(p, s)
    <3>1. ~isLive(p, s)' /\ view'[p][s].cause # "CONNECTION_CLOSED" BY <1>8, <1>10, <1>15 DEF isLive, Live
    <3>2. WithinLimit /\ ~setup.faulty /\ phase[p] \in {"flushing", "closing"} => s > promised[p]
      <4>1. Leaving(p, o) BY LinkFacts
      <4> QED BY <1>1, <1>6, <4>1, PromisedBelow DEF Leaving
    <3> QED BY <1>1, <3>1, <3>2 DEF Ebbs
  <2>4. UNCHANGED <<next, high>> \/ LearnsId(p, s) BY <1>1, <1>6 DEF LearnsId
  <2> QED BY <1>1, <1>11, <1>13, <2>2, <2>3, <2>4, Concludes
<1>16. CASE ~refuses
  <2>1. view'[p][s] = h /\ promised[p] = None BY <1>10, <1>16
  <2>2. h.state = IF x.frame.end THEN "half_closed_remote" ELSE IF u.state = "idle" THEN "open" ELSE u.state
    BY <1>1, <1>9
  <2>3. Link(p, o, s)' /\ Link(o, p, s)'
    BY <1>1, <1>2, <1>9, <1>12, <1>13, <1>14, <1>16, <2>1, <2>2, Scheduling
  <2>4. Ebbs(p, s)
    <3>1. Leaving(p, o) BY LinkFacts
    <3>2. ~(WithinLimit /\ phase[p] \in {"flushing", "closing"}) BY <2>1, <3>1 DEF Leaving
    <3>3. h.cause # "CONNECTION_CLOSED"
      <4>1. isLive(p, s) => u.cause = "none" BY <1>1, <1>2, SideFacts
      <4> QED BY <1>6, <1>9, <4>1 DEF NoStream
    <3> QED BY <1>1, <2>1, <3>2, <3>3 DEF Ebbs
  <2>5. UNCHANGED <<next, high>> \/ LearnsId(p, s) BY <1>1, <1>6 DEF LearnsId
  <2> QED BY <1>1, <1>11, <1>13, <2>3, <2>4, <2>5, Concludes
<1> QED BY <1>15, <1>16

LEMMA OpenTakenLinks ==
  ASSUME RefusalInv, LinkInv, Shape', NEW p \in Peers, OpenTaken(p)
  PROVE  LinkInv'
<1> DEFINE o == Other(p)
<1> PICK s : s = Incoming(p).lane OBVIOUS
<1> PICK f : f = Incoming(p).frame OBVIOUS
<1> PICK x : x = Piece(f, Incoming(p).idx) OBVIOUS
<1> DEFINE whole == f.frags = 1
           v == [NoStream EXCEPT !.state = IF whole /\ f.end THEN "half_closed_remote" ELSE "open",
                                 !.opening = ~whole]
<1>1. /\ Reads(p, "open") /\ s > high[p] /\ high' = [high EXCEPT ![p] = s]
      /\ IF whole THEN StartHandler(p, s, v) ELSE SetView(p, s, v) /\ UNCHANGED out
      /\ UNCHANGED <<phase, next, promised, allowed, setup>>
  BY DEF OpenTaken
<1>2. /\ s \in Streams /\ s \in Lanes /\ s \in Ids(o) /\ s \notin Ids(p) /\ Shape /\ Alive(p) /\ Reading1(p, s)
      /\ chan'[p] = chan[p] /\ x.frame = f /\ f.type = "open" /\ o \in Peers /\ o # p /\ Other(o) = p
      /\ (out'[o][s] = out[o][s] => Taken(o, s, x))
  BY <1>1, ArrivesFacts, PeerFacts
<1>3. /\ Link(p, o, s) /\ Link(o, p, s) /\ InOrder(p, s) BY <1>2, LinkFacts
<1>4. v \in Stream /\ v.cause = "none" BY DEF NoStream, Stream, Live, Handler
<1>5. high'[p] = s /\ high'[o] = high[o] /\ s <= high'[p]
  <2>1. s \in Nat BY <1>2, PeerFacts
  <2> QED BY <1>1, <1>2, <2>1 DEF Shape
<1>6. out'[o][s] = out[o][s]
  <2>1. CASE whole BY <1>1, <1>2, <2>1, PutOut DEF StartHandler
  <2>2. CASE ~whole BY <1>1, <2>2
  <2> QED BY <2>1, <2>2
<1>7. /\ s \in Nat /\ high[p] \in Nat /\ f.frags \in 1 .. MaxFrags /\ f.end \in BOOLEAN /\ x.idx \in 1 .. f.frags
      /\ IsFirst(x) /\ IsFirst(Head(chan[o])) /\ view[p][s] = NoStream
  BY <1>1, <1>2, <1>6, OpenFacts
<1>8. CASE whole
  <2>1. IsLast(x) BY <1>2, <1>7, <1>8 DEF IsLast
  <2>2. /\ v.handler = "none" /\ ~v.opening /\ v.sent = view[p][s].sent /\ v.got = view[p][s].got
        /\ v.cause = view[p][s].cause /\ v.state # "closed"
        /\ v.state = IF f.end THEN "half_closed_remote"
                     ELSE IF view[p][s].state = "idle" THEN "open" ELSE view[p][s].state
    <3>1. v = [NoStream EXCEPT !.state = IF f.end THEN "half_closed_remote" ELSE "open", !.opening = FALSE]
      BY <1>8
    <3> HIDE DEF v
    <3>2. v.state = IF f.end THEN "half_closed_remote" ELSE "open" BY <3>1 DEF NoStream
    <3>3. /\ v.handler = "none" /\ ~v.opening /\ v.sent = NoStream.sent /\ v.got = NoStream.got
          /\ v.cause = NoStream.cause /\ NoStream.state = "idle"
      BY <3>1 DEF NoStream
    <3>4. view[p][s] = NoStream BY <1>7
    <3>5. v.state # "closed" BY <3>2
    <3> QED BY <3>2, <3>3, <3>4, <3>5
  <2>3. StartHandler(p, s, v) BY <1>1, <1>8
  <2> HIDE DEF v
  <2> QED BY <1>1, <1>2, <1>4, <1>5, <2>1, <2>2, <2>3, StartingLinks
<1>9. CASE ~whole
  <2>1. SetView(p, s, v) /\ UNCHANGED out BY <1>1, <1>9
  <2>2. v = [NoStream EXCEPT !.state = "open", !.opening = TRUE] BY <1>9
  <2> HIDE DEF v
  <2>3. view'[p][s] = v /\ \A q \in Peers, t \in Streams : q # p \/ t # s => view'[q][t] = view[q][t]
    BY <1>2, <1>4, <2>1, SetViewFacts
  <2>4. SameLives /\ Touch(p, s) BY <1>1, <1>2, <2>1, <2>3, ReadTouch
  <2>5. Kept(p, s) /\ NoNewOpen(p, s) BY <1>2, <1>3, <2>1, ReadKeeps
  <2>6. Reaches(p, s) BY <1>1, <1>5, <1>7, <2>4 DEF Reaches
  <2>7. ~IsLast(x) /\ x.frame.type = "open" /\ Taken(o, s, x)
    <3>1. x.idx = 1 BY <1>7 DEF IsFirst
    <3> QED BY <1>2, <1>6, <1>9, <3>1 DEF IsLast
  <2>8. Link(p, o, s)' /\ Link(o, p, s)'
    <3>1. view'[o][s] = view[o][s] BY <1>2, <2>3
    <3> QED BY <1>1, <1>2, <1>3, <2>2, <2>3, <2>5, <2>6, <2>7, <3>1, Beginning
  <2>9. Ebbs(p, s)
    <3>1. v.opening BY <2>2 DEF NoStream
    <3>2. WithinLimit /\ phase[p] \in {"flushing", "closing"} => s > promised[p] BY <1>1, <1>7, PromisedBelow
    <3>3. out'[p][s] = out[p][s] BY <2>1
    <3> QED BY <1>2, <1>4, <2>3, <3>1, <3>2, <3>3 DEF Ebbs
  <2>10. LearnsId(p, s) BY <1>1, <1>2, <1>7 DEF LearnsId
  <2> QED BY <1>1, <1>2, <2>4, <2>5, <2>8, <2>9, <2>10, Concludes
<1> QED BY <1>8, <1>9

LEMMA OpenContinuedLinks ==
  ASSUME RefusalInv, LinkInv, Shape', NEW p \in Peers, OpenContinued(p)
  PROVE  LinkInv'
<1> DEFINE o == Other(p)
<1> PICK s : s = Incoming(p).lane OBVIOUS
<1> PICK f : f = Incoming(p).frame OBVIOUS
<1> PICK x : x = Piece(f, Incoming(p).idx) OBVIOUS
<1> DEFINE u == view[p][s]
           v == [u EXCEPT !.opening = FALSE, !.state = IF f.end THEN "half_closed_remote" ELSE @]
<1>1. /\ Reads(p, "open") /\ Continues(p)
      /\ IF Incoming(p).idx = f.frags THEN StartHandler(p, s, v) ELSE UNCHANGED <<view, out>>
      /\ UNCHANGED <<phase, next, high, promised, allowed, setup>>
  BY DEF OpenContinued
<1>2. /\ s \in Streams /\ s \in Lanes /\ s \in Ids(o) /\ s \notin Ids(p) /\ Shape /\ Alive(p) /\ Reading1(p, s)
      /\ chan'[p] = chan[p] /\ x.frame = f /\ x.idx = Incoming(p).idx /\ f.type = "open"
      /\ o \in Peers /\ o # p /\ Other(o) = p
      /\ (out'[o][s] = out[o][s] => Taken(o, s, x))
  BY <1>1, ArrivesFacts, PeerFacts
<1>3. /\ Link(p, o, s) /\ Link(o, p, s) /\ InOrder(p, s) /\ Fresh(p, s) /\ u \in Stream
  BY <1>2, LinkFacts, ViewFacts
<1>4. out'[o][s] = out[o][s]
  <2>1. CASE Incoming(p).idx = f.frags BY <1>1, <1>2, <2>1, PutOut DEF StartHandler
  <2>2. CASE Incoming(p).idx # f.frags BY <1>1, <2>2
  <2> QED BY <2>1, <2>2
<1>5. /\ s \in Nat /\ high[p] \in Nat /\ f.end \in BOOLEAN /\ isLive(p, s) /\ u.opening /\ s <= high[p]
  BY <1>1, <1>2, <1>4, OpenFacts
<1>6. CASE Incoming(p).idx = f.frags
  <2>1. IsLast(x) BY <1>2, <1>6 DEF IsLast
  <2>2. u.handler = "none" BY <1>3, <1>5 DEF Fresh
  <2>3. u.state \notin {"idle", "closed"} BY <1>5, LiveFacts
  <2>4. /\ v \in Stream /\ v.handler = "none" /\ ~v.opening /\ v.sent = u.sent /\ v.got = u.got
        /\ v.cause = u.cause /\ v.state # "closed"
        /\ v.state = IF f.end THEN "half_closed_remote" ELSE IF u.state = "idle" THEN "open" ELSE u.state
    BY <1>3, <1>5, <2>2, <2>3 DEF Stream, Live
  <2>5. StartHandler(p, s, v) BY <1>1, <1>6
  <2>6. high' = high /\ high'[o] = high[o] /\ s <= high'[p] BY <1>1, <1>5
  <2> HIDE DEF v
  <2> QED BY <1>1, <1>2, <2>1, <2>4, <2>5, <2>6, StartingLinks
<1>7. CASE Incoming(p).idx # f.frags
  <2>1. UNCHANGED <<view, out>> BY <1>1, <1>7
  <2>2. Touch(p, s) /\ Calm BY <1>1, <1>2, <2>1, ReadTouch
  <2>3. Kept(p, s) /\ NoNewOpen(p, s) BY <1>2, <1>3, <2>1, ReadKeeps
  <2>4. ~IsLast(x) /\ x.frame.type = "open" /\ Taken(o, s, x) BY <1>2, <1>4, <1>7 DEF IsLast
  <2>5. Link(p, o, s)' /\ Link(o, p, s)'
    BY <1>2, <1>3, <1>5, <2>1, <2>2, <2>3, <2>4, Continuing
  <2>6. Ebbs(p, s)
    <3>1. WithinLimit /\ ~setup.faulty /\ phase[p] \in {"flushing", "closing"} => u.opening /\ s > promised[p]
      BY <1>2, <1>5, AppFacts
    <3>2. view'[p][s] = u /\ out'[p][s] = out[p][s] BY <2>1
    <3> QED BY <1>2, <3>1, <3>2 DEF Ebbs
  <2> QED BY <1>1, <1>2, <2>2, <2>3, <2>5, <2>6, Concludes
<1> QED BY <1>6, <1>7

(* A frame of a stream that has left the live streams is no surprise.      *)
LEMMA LateFacts ==
  ASSUME RefusalInv, LinkInv, NEW p \in Peers, NEW o \in Peers, o = Other(p),
         NEW type \in {"data", "reset"}, Reads(p, type),
         NEW s, s = Incoming(p).lane, NEW x, x = Piece(Incoming(p).frame, Incoming(p).idx),
         out'[o][s] = out[o][s], ~isLive(p, s)
  PROVE  ~(s > HighWater(p, s)) /\ ~Hears(p, s)
<1>1. /\ s \in Streams /\ s \in Lanes /\ (s \in Ids(p) <=> s \notin Ids(o)) /\ Shape /\ Alive(p)
      /\ x.frame.type = type /\ Taken(o, s, x) /\ AnyOn(o, s) /\ p = Other(o)
  BY ArrivesFacts, PeerFacts
<1>2. /\ Link(o, p, s) /\ Numbers(p, o) BY <1>1, LinkFacts
<1>3. /\ s \in Nat /\ high[p] \in Nat /\ high[o] \in Nat /\ next[p] \in Nat BY <1>1, PeerFacts DEF Shape
<1>4. CASE s \in Ids(p)
  <2>1. ~Unread(o, s) BY <1>1, <1>2 DEF Link, Lines
  <2>2. s <= high[o] BY <1>1, <1>3, <1>4, <2>1 DEF Unread
  <2>3. s > 0 BY <1>2, <1>1, LinkFacts, SideFacts DEF RefusalInv
  <2>4. s < next[p] BY <1>2, <1>3, <2>2, <2>3 DEF Numbers
  <2>5. s <= next[p] - 2 BY <1>1, <1>4, <2>4, IdFacts
  <2>6. ~Unread(p, s) BY <1>4 DEF Unread
  <2> QED BY <1>3, <1>4, <2>5, <2>6 DEF HighWater, Hears
<1>5. CASE s \notin Ids(p)
  <2>1. ~FirstOn(o, s) BY <1>1 DEF Taken
  <2>2. ~(s > high[p]) BY <1>1, <1>2, <1>5, <2>1 DEF Link, Opening
  <2> QED BY <1>5, <2>2 DEF HighWater, Hears, Unread
<1> QED BY <1>4, <1>5

LEMMA StreamFrameNotLiveLinks ==
  ASSUME RefusalInv, LinkInv, Shape', NEW p \in Peers, StreamFrameNotLive(p)
  PROVE  LinkInv'
<1> DEFINE o == Other(p)
<1> PICK s : s = Incoming(p).lane OBVIOUS
<1> PICK x : x = Piece(Incoming(p).frame, Incoming(p).idx) OBVIOUS
<1> PICK type \in {"data", "reset"} : Reads(p, type) BY DEF StreamFrameNotLive
<1>1. /\ ~isLive(p, s) /\ UNCHANGED <<next, high, view, allowed, setup>>
      /\ IF s > HighWater(p, s) THEN FailConnection(p) ELSE UNCHANGED <<phase, promised, out>>
  BY DEF StreamFrameNotLive
<1>2. /\ s \in Streams /\ s \in Lanes /\ s # CONNECTION_LANE /\ Shape /\ Reading1(p, s) /\ chan'[p] = chan[p]
      /\ Fine(s, x) /\ (out'[o][s] = out[o][s] => Taken(o, s, x))
      /\ x.frame.type = type /\ o \in Peers /\ o # p /\ Other(o) = p
  BY ArrivesFacts, PeerFacts
<1>3. out'[o][s] = out[o][s]
  <2>1. CASE s > HighWater(p, s)
    <3>1. Enqueue(p, CONNECTION_LANE, GoawayFrame(high[p])) /\ CONNECTION_LANE \in Lanes
      BY <1>1, <2>1, PeerFacts DEF FailConnection
    <3> QED BY <1>2, <3>1, PutOut
  <2> QED BY <1>1, <2>1
<1>4. ~Hears(p, s) /\ UNCHANGED <<phase, promised, out>> BY <1>1, <1>2, <1>3, LateFacts
<1>5. /\ Link(p, o, s) /\ Link(o, p, s) /\ InOrder(p, s) BY <1>2, LinkFacts
<1>6. Touch(p, s) /\ Calm BY <1>1, <1>2, <1>4, ReadTouch
<1>7. Kept(p, s) /\ NoNewOpen(p, s) BY <1>2, <1>4, <1>5, ReadKeeps
<1>8. view'[p][s] = view[p][s] /\ view'[o][s] = view[o][s] BY <1>1
<1>9. Link(o, p, s)' BY <1>2, <1>3, <1>4, <1>5, <1>6, <1>8, Unheard DEF Calm, RefusalInv
<1>10. Link(p, o, s)'
  <2>1. Speaks(p, s)' => Speaks(p, s) BY <1>4, <1>6, <1>8, StillSpeaks DEF Calm
  <2> QED BY <1>1, <1>2, <1>5, <1>6, <1>7, <1>8, <2>1, Bystander DEF Calm
<1>11. Ebbs(p, s)
  <2>1. ~isLive(p, s)' BY <1>1, <1>8 DEF isLive
  <2>2. out'[p][s] = out[p][s] BY <1>4
  <2> QED BY <1>8, <2>1, <2>2 DEF Ebbs
<1> QED BY <1>1, <1>2, <1>4, <1>6, <1>7, <1>9, <1>10, <1>11, Concludes

LEMMA ResetArrivesLinks ==
  ASSUME RefusalInv, LinkInv, Shape', NEW p \in Peers, ResetArrives(p)
  PROVE  LinkInv'
<1> DEFINE o == Other(p)
<1> PICK s : s = Incoming(p).lane OBVIOUS
<1> PICK f : f = Incoming(p).frame OBVIOUS
<1> PICK x : x = Piece(f, Incoming(p).idx) OBVIOUS
<1> DEFINE u == view[p][s]
           v == Failed(u, f.code)
<1>1. /\ Reads(p, "reset") /\ isLive(p, s) /\ out' = [out EXCEPT ![p][s] = Keep(@)] /\ SetView(p, s, v)
      /\ UNCHANGED <<phase, next, high, promised, allowed, setup>>
  BY DEF ResetArrives
<1>2. /\ s \in Streams /\ s \in Lanes /\ s # CONNECTION_LANE /\ Shape /\ Reading1(p, s) /\ chan'[p] = chan[p]
      /\ Fine(s, x) /\ (out'[o][s] = out[o][s] => Taken(o, s, x))
      /\ x.frame = f /\ f.type = "reset" /\ o \in Peers /\ o # p /\ Other(o) = p
  BY <1>1, ArrivesFacts, PeerFacts
<1>3. /\ Link(p, o, s) /\ Link(o, p, s) /\ InOrder(p, s) /\ u \in Stream /\ u.state # "closed" /\ u.cause = "none"
      /\ (s \in Ids(p) => u.handler = "none") /\ (u.handler \in {"running", "returned", "raised"} => u.ran)
  BY <1>1, <1>2, AppFacts, LiveFacts
<1>4. /\ out'[p][s] = Keep(out[p][s]) /\ \A q \in Peers, l \in Lanes : q # p \/ l # s => out'[q][l] = out[q][l]
  BY <1>1, <1>2 DEF Shape
<1>5. out'[o][s] = out[o][s] BY <1>2, <1>4
<1>6. f.code \in ResetCode \ {"PROTOCOL_ERROR"} BY <1>2 DEF Fine
<1>7. /\ v \in Stream /\ v.state = "closed" /\ v.opening = u.opening /\ v.ran = u.ran
      /\ v.sent = u.sent /\ v.got = u.got
      /\ v.handler = IF u.state # "closed" /\ u.handler = "scheduled" THEN "cancelled" ELSE u.handler
      /\ v.cause = f.code
  BY <1>3, <1>6, StreamFacts, FailedFacts
<1> HIDE DEF v
<1>8. view'[p][s] = v /\ \A q \in Peers, t \in Streams : q # p \/ t # s => view'[q][t] = view[q][t]
  BY <1>1, <1>2, <1>7, SetViewFacts
<1>9. Over(p, s) /\ v.cause # "CONNECTION_CLOSED" BY <1>3, <1>6, <1>7, <1>8 DEF Over, ResetCode
<1>10. Touch(p, s) /\ Calm BY <1>1, <1>2, <1>4, <1>8, ReadTouch
<1>11. Dropped(p, s) BY <1>2, <1>3, <1>4, DroppedByKeep
<1>12. NoNewOpen(p, s) BY <1>2, <1>4, NoNewOpenBy
<1>13. Link(p, o, s)' /\ Link(o, p, s)'
  <2>1. view'[o][s] = view[o][s] BY <1>2, <1>8
  <2>2. x.frame.type = "reset" /\ Taken(o, s, x) BY <1>2, <1>5
  <2> QED BY <1>1, <1>2, <1>3, <1>9, <1>10, <1>11, <2>1, <2>2, Closing
<1>14. Ebbs(p, s)
  <2>1. ~isLive(p, s)' BY <1>9 DEF Over, isLive, Live
  <2>2. out'[p][s] # << >> => out[p][s] # << >> BY <1>4 DEF Keep, HoldsUnsentOpen
  <2> QED BY <1>8, <1>9, <2>1, <2>2 DEF Ebbs
<1> QED BY <1>1, <1>2, <1>10, <1>12, <1>13, <1>14, Concludes

LEMMA DataArrivesLinks ==
  ASSUME RefusalInv, LinkInv, Shape', NEW p \in Peers, DataArrives(p)
  PROVE  LinkInv'
<1> DEFINE o == Other(p)
<1> PICK s : s = Incoming(p).lane OBVIOUS
<1> PICK f : f = Incoming(p).frame OBVIOUS
<1> PICK x : x = Piece(f, Incoming(p).idx) OBVIOUS
<1> DEFINE u == view[p][s]
           w == IF f.payload THEN [u EXCEPT !.got = @ + 1] ELSE u
           v == IF f.end THEN RemotelyEnded(w) ELSE w
<1>1. /\ Reads(p, "data") /\ isLive(p, s)
      /\ IF w.state = "half_closed_remote"
         THEN EnqueueReset(p, s, "PROTOCOL_ERROR") /\ SetView(p, s, Failed(u, "PROTOCOL_ERROR"))
         ELSE SetView(p, s, v) /\ UNCHANGED out
      /\ UNCHANGED <<phase, next, high, promised, allowed, setup>>
  BY DEF DataArrives
<1>2. /\ s \in Streams /\ s \in Lanes /\ s # CONNECTION_LANE /\ Shape /\ Reading1(p, s) /\ chan'[p] = chan[p]
      /\ Fine(s, x) /\ (out'[o][s] = out[o][s] => Taken(o, s, x))
      /\ x.frame = f /\ f.type = "data" /\ o \in Peers /\ o # p /\ Other(o) = p
  BY <1>1, ArrivesFacts, PeerFacts
<1>3. /\ Link(p, o, s) /\ Link(o, p, s) /\ InOrder(p, s) /\ u \in Stream /\ u.state \notin {"idle", "closed"}
      /\ u.cause = "none"
  BY <1>1, <1>2, AppFacts, LiveFacts
<1>4. f \in Frame /\ f.end \in BOOLEAN /\ f.payload \in BOOLEAN /\ IsLast(x)
  BY <1>2 DEF Fine, Frame, IsLast
<1>5. /\ w \in Stream /\ w.got = u.got + (IF f.payload THEN 1 ELSE 0) /\ w.state = u.state
      /\ w.sent = u.sent /\ w.opening = u.opening /\ w.handler = u.handler /\ w.ran = u.ran /\ w.cause = u.cause
  BY <1>3, <1>4 DEF Stream
<1> HIDE DEF w
<1>6. out'[o][s] = out[o][s] BY <1>1, <1>2, PutResetOut
<1>7. Taken(o, s, x) BY <1>2, <1>6
<1>8. u.state # "half_closed_remote"
  <2>1. DataOn(o, s) BY <1>2, <1>7 DEF Taken
  <2> QED BY <1>3, <2>1 DEF Link, Ends
<1>9. SetView(p, s, v) /\ UNCHANGED out BY <1>1, <1>5, <1>8
<1>10. /\ v \in Stream /\ v.got = w.got /\ v.sent = w.sent /\ v.opening = w.opening /\ v.handler = w.handler
       /\ v.ran = w.ran
       /\ v.state = (IF ~f.end THEN w.state
                     ELSE IF w.state = "half_closed_local" THEN "closed" ELSE "half_closed_remote")
       /\ v.cause = (IF f.end /\ w.state = "half_closed_local" THEN "normal" ELSE w.cause)
  <2>1. CASE f.end
    <3>1. v = RemotelyEnded(w) BY <2>1
    <3> QED BY <1>5, <2>1, <3>1, EndFacts, StreamFacts
  <2>2. CASE ~f.end BY <1>5, <2>2
  <2> QED BY <2>1, <2>2
<1> HIDE DEF v
<1>11. view'[p][s] = v /\ \A q \in Peers, t \in Streams : q # p \/ t # s => view'[q][t] = view[q][t]
  BY <1>2, <1>9, <1>10, SetViewFacts
<1>12. Touch(p, s) /\ Calm BY <1>1, <1>2, <1>9, <1>11, ReadTouch
<1>13. Kept(p, s) /\ NoNewOpen(p, s) BY <1>2, <1>3, <1>9, ReadKeeps
<1>14. Link(p, o, s)' /\ Link(o, p, s)'
  <2>1. view'[o][s] = view[o][s] BY <1>2, <1>11
  <2>2. /\ v.got = u.got + (IF x.frame.payload THEN 1 ELSE 0) /\ v.sent = u.sent /\ v.opening = u.opening
        /\ v.handler = u.handler /\ v.ran = u.ran
        /\ v.state = (IF ~x.frame.end THEN u.state
                      ELSE IF u.state = "half_closed_local" THEN "closed" ELSE "half_closed_remote")
        /\ v.cause = (IF x.frame.end /\ u.state = "half_closed_local" THEN "normal" ELSE u.cause)
    BY <1>2, <1>5, <1>10
  <2>3. x.frame.type = "data" /\ x.frame.end \in BOOLEAN /\ x.frame.payload \in BOOLEAN BY <1>2, <1>4
  <2> QED BY <1>1, <1>2, <1>3, <1>4, <1>7, <1>11, <1>12, <1>13, <2>1, <2>2, <2>3, Hearing
<1>15. Ebbs(p, s)
  <2>1. WithinLimit /\ ~setup.faulty /\ phase[p] \in {"flushing", "closing"} => u.opening /\ s > promised[p]
    BY <1>1, <1>2, AppFacts
  <2>2. out'[p][s] = out[p][s] BY <1>9
  <2>3. v.cause # "CONNECTION_CLOSED" BY <1>3, <1>5, <1>10
  <2>4. v.opening = u.opening BY <1>5, <1>10
  <2> QED BY <1>1, <1>11, <2>1, <2>2, <2>3, <2>4 DEF Ebbs
<1> QED BY <1>1, <1>2, <1>12, <1>13, <1>14, <1>15, Concludes

(***************************************************************************)
(* The steps that end the connection, and the write loop.                  *)

LEMMA GoawayLine ==
  ASSUME Shape, NEW p \in Peers, InOrder(p, CONNECTION_LANE), NEW last \in Nat,
         Enqueue(p, CONNECTION_LANE, GoawayFrame(last)), chan'[p] = chan[p]
  PROVE  /\ InOrder(p, CONNECTION_LANE)' /\ AnyOn(p, CONNECTION_LANE)'
         /\ \A x \in Row(p, CONNECTION_LANE)' : x \in Row(p, CONNECTION_LANE) \/ x.frame.last = last
<1> DEFINE f == GoawayFrame(last)
           c == chan[p]
           l == CONNECTION_LANE
           w == out[p][l]
<1>1. c \in Seq(Sent) /\ w \in Seq(Held) /\ l \in Lanes BY PeerFacts DEF Shape
<1>2. /\ f \in Frame /\ f.type = "goaway" /\ f.last = last /\ ~f.end /\ f.frags = 1
  BY FrameFacts DEF GoawayFrame
<1>3. /\ \A x \in Parts(Item(f)) : x.frame = f /\ x.idx \in 1 .. f.frags
      /\ Piece(f, 1) \in Parts(Item(f))
  BY <1>2, ItemFacts
<1> HIDE DEF f
<1>4. \A x \in Parts(Item(f)) : Fine(l, x) BY <1>2, <1>3 DEF Fine
<1>5. \A x \in Line(c, l, w), y \in Parts(Item(f)) : Before(x, y)
  <2> TAKE x \in Line(c, l, w), y \in Parts(Item(f))
  <2>1. Fine(l, x) BY DEF InOrder, Tidy
  <2>2. x.frame.type = "goaway" /\ ~x.frame.end BY <2>1 DEF Fine
  <2>3. y.frame.type = "goaway" BY <1>2, <1>3
  <2> QED BY <2>2, <2>3 DEF Before
<1>6. Tidy(c, l, Put(w, f)) /\ Line(c, l, Put(w, f)) = Line(c, l, w) \cup Parts(Item(f))
  BY <1>1, <1>2, <1>4, <1>5, PutLine DEF InOrder
<1>7. out'[p][l] = Put(w, f)
  <2>1. Enqueue(p, l, f) BY DEF f
  <2> QED BY <1>1, <2>1, PutOut
<1>8. InOrder(p, l)' BY <1>6, <1>7 DEF InOrder
<1>9. Row(p, l)' = Row(p, l) \cup Parts(Item(f)) BY <1>6, <1>7 DEF Row
<1> QED BY <1>2, <1>3, <1>8, <1>9 DEF AnyOn

(* A goaway is sent, and what is read at the same time means nothing.      *)
LEMMA PromiseLinks ==
  ASSUME RefusalInv, LinkInv, Shape', NEW p \in Peers, Alive(p), SameLives,
         UNCHANGED <<next, high, view, allowed>>, promised' = [promised EXCEPT ![p] = high[p]],
         Enqueue(p, CONNECTION_LANE, GoawayFrame(high[p])),
         chan' = chan \/ \E s \in Streams : Reading1(p, s) /\ ~Hears(p, s),
         \A q \in Peers : Leaving(q, Other(q))'
  PROVE  LinkInv'
<1> DEFINE o == Other(p)
<1>1. /\ Shape /\ o \in Peers /\ o # p /\ Other(o) = p /\ (\A q \in Peers : q = p \/ q = o)
      /\ CONNECTION_LANE \in Lanes /\ CONNECTION_LANE \notin Streams /\ Streams \subseteq Lanes
  BY PeerFacts DEF RefusalInv, Peers, Other
<1>2. \A q \in Peers, l \in Lanes : q # p \/ l # CONNECTION_LANE => out'[q][l] = out[q][l]
  BY <1>1, PutOut
<1>3. chan'[p] = chan[p] /\ DOMAIN chan = Peers BY <1>1 DEF Shape, Reading1
<1>4. /\ high[p] \in Nat /\ promised' \in [Peers -> Nat \cup {None}]
      /\ promised'[p] = high[p] /\ promised'[o] = promised[o]
  BY <1>1 DEF Shape
<1>5. \A q \in Peers, t \in Streams :
         \/ Kept(q, t)
         \/ q = o /\ Reading1(p, t) /\ ~Hears(p, t)
  <2> TAKE q \in Peers, t \in Streams
  <2>1. InOrder(q, t) /\ t \in Lanes /\ out'[q][t] = out[q][t] BY <1>1, <1>2, LinkFacts
  <2>2. CASE chan'[q] = chan[q] BY <2>1, <2>2, KeptStill
  <2>3. CASE chan'[q] # chan[q]
    <3>1. q = o BY <1>1, <1>3, <2>3
    <3>2. PICK s \in Streams : Reading1(p, s) /\ ~Hears(p, s) BY <2>3
    <3>3. chan[o] # << >> /\ Head(chan[o]).lane = s /\ chan'[o] = Tail(chan[o]) BY <1>1, <1>3, <3>2 DEF Reading1
    <3>4. CASE s = t BY <3>1, <3>2, <3>4
    <3>5. CASE s # t BY <1>1, <2>1, <3>1, <3>3, <3>5, KeptByRead
    <3> QED BY <3>4, <3>5
  <2> QED BY <2>2, <2>3
<1>6. ASSUME NEW q \in Peers, NEW t \in Streams PROVE Link(q, Other(q), t)'
  <2> PICK r \in Peers : r = Other(q) /\ q = Other(r) BY PeerFacts
  <2>1. Link(q, r, t) /\ InOrder(q, t) BY <1>1, LinkFacts
  <2>2. view'[q][t] = view[q][t] /\ view'[r][t] = view[r][t] BY DEF Shape
  <2>3. CASE Kept(q, t)
    <3>1. Speaks(q, t)' => Speaks(q, t)
      <4>1. promised'[q] = promised[q] \/ Alive(q) BY <1>1, <1>4
      <4> QED BY <2>2, <4>1, StillSpeaks
    <3> QED BY <1>1, <2>1, <2>2, <2>3, <3>1, Bystander
  <2>4. CASE q = o /\ Reading1(p, t) /\ ~Hears(p, t)
    <3>1. r = p BY <1>1, <2>4
    <3>2. /\ chan[q] # << >> /\ Head(chan[q]).lane = t /\ chan'[q] = Tail(chan[q]) /\ out'[q][t] = out[q][t]
          /\ ~Hears(r, t)
      BY <1>1, <1>2, <1>3, <2>4, <3>1 DEF Reading1
    <3> PICK x : x = Piece(Head(chan[q]).frame, Head(chan[q]).idx) OBVIOUS
    <3>3. Taken(q, t, x) /\ Fine(t, x) BY <1>1, <2>1, <3>2, TakenBy
    <3>4. promised'[q] = promised[q] BY <1>4, <2>4
    <3> QED BY <1>1, <2>1, <2>2, <3>2, <3>3, <3>4, Unheard
  <2> QED BY <1>5, <2>3, <2>4
<1>7. ASSUME NEW q \in Peers PROVE Numbers(q, Other(q))'
  <2> PICK r \in Peers : r = Other(q) /\ q = Other(r) BY PeerFacts
  <2>1. Numbers(q, r) BY LinkFacts
  <2>2. promised'[r] # None => promised'[r] <= high[r]
    <3>1. CASE r = p BY <1>4, <3>1
    <3>2. CASE r # p BY <1>1, <1>4, <2>1, <3>2 DEF Numbers
    <3> QED BY <3>1, <3>2
  <2> QED BY <2>1, <2>2 DEF Numbers
<1>8. ASSUME NEW q \in Peers PROVE InTurn(q)'
  <2>1. \A s \in Ids(q) : NoNewOpen(q, s)
    <3> TAKE s \in Ids(q)
    <3>1. s \in Streams BY PeerFacts
    <3>2. out'[q][s] = out[q][s] BY <1>1, <1>2, <3>1
    <3> QED BY <3>2 DEF NoNewOpen
  <2>2. chan'[q] = chan[q] \/ (chan[q] # << >> /\ chan'[q] = Tail(chan[q]))
    BY <1>1, <1>3 DEF Reading1
  <2> QED BY <1>1, <2>1, <2>2, LinkFacts, StillInTurn
<1>9. ASSUME NEW q \in Peers PROVE InOrder(q, CONNECTION_LANE)'
  <2>1. InOrder(q, CONNECTION_LANE) BY <1>1, LinkFacts
  <2>2. CASE q = p BY <1>1, <1>3, <1>4, <2>1, <2>2, GoawayLine
  <2>3. CASE q = o
    <3>1. out'[q][CONNECTION_LANE] = out[q][CONNECTION_LANE] BY <1>1, <1>2, <2>3
    <3>2. CASE chan' = chan BY <2>1, <3>1, <3>2, KeptStill DEF Kept
    <3>3. CASE chan' # chan
      <4>1. PICK s \in Streams : Reading1(p, s) BY <3>3
      <4>2. chan[q] # << >> /\ chan'[q] = Tail(chan[q]) /\ Head(chan[q]).lane # CONNECTION_LANE
        BY <1>1, <1>3, <2>3, <4>1 DEF Reading1
      <4> QED BY <1>1, <2>1, <3>1, <4>2, KeptByRead DEF Kept
    <3> QED BY <3>2, <3>3
  <2> QED BY <1>1, <2>2, <2>3
<1>10. ASSUME NEW q \in Peers PROVE Deaths(q)'
  <2>1. Deaths(q) /\ (Alive(q)' <=> Alive(q)) BY LinkFacts DEF SameLives
  <2>2. CASE q = p BY <1>1, <2>1, <2>2 DEF Deaths
  <2>3. CASE q # p
    <3>1. \A l \in Lanes : out'[q][l] = out[q][l] BY <1>2, <2>3
    <3> QED BY <2>1, <3>1 DEF Deaths
  <2> QED BY <2>2, <2>3
<1> QED BY <1>6, <1>7, <1>8, <1>9, <1>10 DEF LinkInv, InOrder

LEMMA OpenNotNewLinks ==
  ASSUME RefusalInv, LinkInv, Shape', NEW p \in Peers, OpenNotNew(p)
  PROVE  LinkInv'
<1> DEFINE o == Other(p)
<1> PICK s : s = Incoming(p).lane OBVIOUS
<1> PICK x : x = Piece(Incoming(p).frame, Incoming(p).idx) OBVIOUS
<1>1. /\ Reads(p, "open") /\ ~Continues(p) /\ s <= high[p] /\ UNCHANGED <<next, high, view, allowed, setup>>
      /\ phase' = [phase EXCEPT ![p] = "failing"] /\ promised' = [promised EXCEPT ![p] = high[p]]
      /\ Enqueue(p, CONNECTION_LANE, GoawayFrame(high[p]))
  BY DEF OpenNotNew, FailConnection
<1>2. /\ s \in Streams /\ s \in Lanes /\ s # CONNECTION_LANE /\ Shape /\ Alive(p) /\ Reading1(p, s)
      /\ o \in Peers /\ o # p /\ Other(o) = p
  BY <1>1, ArrivesFacts, PeerFacts
<1>3. out'[o][s] = out[o][s]
  <2>1. CONNECTION_LANE \in Lanes BY PeerFacts
  <2> QED BY <1>1, <1>2, <2>1, PutOut
<1>4. ~Hears(p, s) /\ ~WithinLimit BY <1>1, <1>2, <1>3, OpenFacts
<1>5. \A q \in Peers : Leaving(q, Other(q))' BY <1>4 DEF Leaving, WithinLimit
<1>6. SameLives BY <1>1, <1>2 DEF SameLives, Alive, Shape
<1> QED BY <1>1, <1>2, <1>4, <1>5, <1>6, PromiseLinks

LEMMA SameLeaving ==
  ASSUME Shape, LinkInv, setup' = setup, NEW q \in Peers, NEW r \in Peers, r = Other(q),
         phase'[q] = phase[q] /\ promised'[q] = promised[q] /\ allowed'[r] = allowed[r],
         Alive(r)' <=> Alive(r), Row(q, CONNECTION_LANE)' = Row(q, CONNECTION_LANE),
         \A l \in Lanes : out'[q][l] # << >> => out[q][l] # << >>,
         \A s \in Streams : /\ view'[q][s] = view[q][s]
                            /\ isLive(r, s)' => isLive(r, s)
  PROVE  Leaving(q, r)'
<1>1. Leaving(q, r) BY LinkFacts
<1>2. (AnyOn(q, CONNECTION_LANE)' <=> AnyOn(q, CONNECTION_LANE)) /\ (Alive(q)' <=> Alive(q)) BY DEF AnyOn, Alive
<1>3. \A s \in Streams : isLive(q, s)' <=> isLive(q, s) BY DEF isLive
<1>4. Ids(r) \subseteq Streams BY PeerFacts
<1> SUFFICES ASSUME WithinLimit PROVE Leaving(q, r)' BY DEF Leaving
<1>5. /\ phase'[q] \in {"open", "draining", "flushing", "closing", "dead"}
      /\ phase'[q] \in {"draining", "flushing", "closing"} => promised'[q] # None
      /\ phase'[q] = "open" => promised'[q] = None
      /\ \A x \in Row(q, CONNECTION_LANE)' : promised'[q] # None /\ x.frame.last = promised'[q]
  BY <1>1 DEF Leaving
<1>6. /\ ~setup'.faulty /\ phase'[q] \in {"flushing", "closing"} =>
          \A s \in Streams : isLive(q, s)' => view'[q][s].opening /\ s > promised'[q]
      /\ ~setup'.faulty /\ phase'[q] = "closing" =>
          \A l \in Lanes : out'[q][l] # << >> => l \in Ids(r) /\ l > promised'[q]
  BY <1>1, <1>3 DEF Leaving
<1>7. promised'[q] # None /\ (Alive(q)' \/ ~setup'.faulty) /\ Alive(r)' =>
          \/ AnyOn(q, CONNECTION_LANE)'
          \/ allowed'[r] # None /\ \A s \in Ids(r) : isLive(r, s)' => s <= promised'[q]
  <2>1. promised[q] # None /\ (Alive(q) \/ ~setup.faulty) /\ Alive(r) =>
          \/ AnyOn(q, CONNECTION_LANE)
          \/ allowed[r] # None /\ \A s \in Ids(r) : isLive(r, s) => s <= promised[q]
    BY <1>1 DEF Leaving
  <2> QED BY <1>2, <1>4, <2>1
<1>8. /\ ~setup'.faulty => \A s \in Streams :
          view'[q][s].cause = "CONNECTION_CLOSED" => s \notin Ids(q) /\ view'[q][s].handler = "none"
      /\ ~setup'.faulty /\ ~Alive(q)' /\ Alive(r)' =>
          promised'[q] # None /\ \A s \in Ids(r) : view'[q][s].cause = "CONNECTION_CLOSED" => s > promised'[q]
  BY <1>1, <1>2, <1>4 DEF Leaving
<1> QED BY <1>5, <1>6, <1>7, <1>8 DEF Leaving

LEMMA CloseLinks ==
  ASSUME RefusalInv, LinkInv, Shape', NEW p \in Peers, Close(p)
  PROVE  LinkInv'
<1> DEFINE o == Other(p)
<1>1. /\ phase[p] = "open" /\ phase' = [phase EXCEPT ![p] = "draining"]
      /\ promised' = [promised EXCEPT ![p] = high[p]]
      /\ Enqueue(p, CONNECTION_LANE, GoawayFrame(high[p]))
      /\ UNCHANGED <<next, high, view, allowed, chan, setup>>
  BY DEF Close
<1>2. /\ Shape /\ o \in Peers /\ o # p /\ Other(o) = p /\ (\A q \in Peers : q = p \/ q = o)
      /\ CONNECTION_LANE \in Lanes
  BY PeerFacts DEF RefusalInv, Peers, Other
<1>3. /\ phase'[p] = "draining" /\ phase'[o] = phase[o] /\ high[p] \in Nat /\ None \notin Nat
      /\ promised'[p] = high[p] /\ promised'[o] = promised[o]
  BY <1>1, <1>2, ConnectionAssumption DEF Shape
<1>4. SameLives /\ Alive(p) /\ Alive(p)' BY <1>1, <1>2, <1>3 DEF SameLives, Alive
<1>5. \A q \in Peers, l \in Lanes : q # p \/ l # CONNECTION_LANE => out'[q][l] = out[q][l]
  BY <1>1, <1>2, PutOut
<1>6. Leaving(o, p)'
  <2>1. \A l \in Lanes : out'[o][l] = out[o][l] BY <1>2, <1>5
  <2>2. Row(o, CONNECTION_LANE)' = Row(o, CONNECTION_LANE) BY <1>1, <1>2, <2>1 DEF Row
  <2>3. \A s \in Streams : view'[o][s] = view[o][s] /\ (isLive(p, s)' => isLive(p, s)) BY <1>1 DEF isLive
  <2> QED BY <1>1, <1>2, <1>3, <1>4, <2>1, <2>2, <2>3, SameLeaving DEF SameLives
<1>7. Leaving(p, o)'
  <2> SUFFICES ASSUME WithinLimit PROVE Leaving(p, o)' BY DEF Leaving, WithinLimit
  <2>1. Leaving(p, o) /\ InOrder(p, CONNECTION_LANE) BY <1>2, LinkFacts
  <2>2. promised[p] = None BY <1>1, <2>1 DEF Leaving
  <2>3. /\ AnyOn(p, CONNECTION_LANE)'
        /\ \A x \in Row(p, CONNECTION_LANE)' : x \in Row(p, CONNECTION_LANE) \/ x.frame.last = high[p]
    BY <1>1, <1>2, <1>3, <2>1, GoawayLine
  <2>4. \A x \in Row(p, CONNECTION_LANE)' : promised'[p] # None /\ x.frame.last = promised'[p]
    BY <1>3, <2>1, <2>2, <2>3 DEF Leaving
  <2>5. ~setup'.faulty => \A s \in Streams :
          view'[p][s].cause = "CONNECTION_CLOSED" => s \notin Ids(p) /\ view'[p][s].handler = "none"
    BY <1>1, <2>1 DEF Leaving
  <2> QED BY <1>3, <1>4, <2>3, <2>4, <2>5 DEF Leaving
<1>8. \A q \in Peers : Leaving(q, Other(q))' BY <1>2, <1>6, <1>7
<1> QED BY <1>1, <1>4, <1>8, PromiseLinks

(* Only the phase changes.                                                 *)
LEMMA PhaseLinks ==
  ASSUME RefusalInv, LinkInv, Shape', NEW p \in Peers, NEW new, new # "dead", Alive(p),
         phase' = [phase EXCEPT ![p] = new],
         UNCHANGED <<next, high, view, promised, allowed, out, chan, setup>>,
         Leaving(p, Other(p))'
  PROVE  LinkInv'
<1> DEFINE o == Other(p)
<1>1. /\ Shape /\ o \in Peers /\ o # p /\ Other(o) = p /\ (\A q \in Peers : q = p \/ q = o)
      /\ CONNECTION_LANE \in Lanes /\ CONNECTION_LANE \notin Streams
  BY PeerFacts DEF RefusalInv, Peers, Other
<1>2. phase'[p] = new /\ phase'[o] = phase[o] BY <1>1 DEF Shape
<1>3. SameLives BY <1>1, <1>2 DEF SameLives, Alive
<1>4. Touch(p, CONNECTION_LANE) BY <1>3 DEF Touch
<1>5. Leaving(o, p)'
  <2>1. Row(o, CONNECTION_LANE)' = Row(o, CONNECTION_LANE) BY DEF Row
  <2>2. \A s \in Streams : view'[o][s] = view[o][s] /\ (isLive(p, s)' => isLive(p, s)) BY DEF isLive
  <2> QED BY <1>1, <1>2, <1>3, <2>1, <2>2, SameLeaving DEF SameLives
<1>6. ASSUME NEW q \in Peers, NEW s \in Streams PROVE Link(q, Other(q), s)'
  <2>1. s # CONNECTION_LANE BY <1>1
  <2> QED BY <1>1, <1>4, <2>1, OtherStream
<1>7. ASSUME NEW q \in Peers PROVE Numbers(q, Other(q))' /\ InTurn(q)' /\ InOrder(q, CONNECTION_LANE)'
  <2>1. Numbers(q, Other(q)) /\ InTurn(q) /\ InOrder(q, CONNECTION_LANE) BY <1>1, LinkFacts
  <2>2. Numbers(q, Other(q))' BY <2>1 DEF Numbers
  <2>3. InTurn(q)' BY <2>1 DEF InTurn
  <2>4. InOrder(q, CONNECTION_LANE)' BY <2>1 DEF InOrder
  <2> QED BY <2>2, <2>3, <2>4
<1>8. ASSUME NEW q \in Peers PROVE Deaths(q)'
  <2>1. Deaths(q) /\ (Alive(q)' <=> Alive(q)) BY <1>3, LinkFacts DEF SameLives
  <2> QED BY <2>1 DEF Deaths
<1> QED BY <1>1, <1>5, <1>6, <1>7, <1>8 DEF LinkInv, InOrder

LEMMA StreamsDrainedLinks ==
  ASSUME RefusalInv, LinkInv, Shape', NEW p \in Peers, StreamsDrained(p)
  PROVE  LinkInv'
<1> DEFINE o == Other(p)
<1>1. /\ phase[p] = "draining" /\ \A s \in Streams : ~isLive(p, s)
      /\ phase' = [phase EXCEPT ![p] = "flushing"]
      /\ UNCHANGED <<next, high, view, promised, allowed, out, chan, setup>>
  BY DEF StreamsDrained
<1>2. phase'[p] = "flushing" /\ Alive(p) /\ Alive(p)' /\ (Alive(o)' <=> Alive(o))
  BY <1>1, PeerFacts DEF RefusalInv, Shape, Alive
<1>3. Leaving(p, o)'
  <2>1. Leaving(p, o) BY LinkFacts
  <2>2. /\ (AnyOn(p, CONNECTION_LANE)' <=> AnyOn(p, CONNECTION_LANE))
        /\ Row(p, CONNECTION_LANE)' = Row(p, CONNECTION_LANE)
    BY <1>1 DEF AnyOn, Row
  <2>3. \A s \in Streams : ~isLive(p, s)' /\ (isLive(o, s)' <=> isLive(o, s)) BY <1>1 DEF isLive
  <2>4. Ids(o) \subseteq Streams BY PeerFacts
  <2> SUFFICES ASSUME WithinLimit PROVE Leaving(p, o)' BY DEF Leaving, WithinLimit
  <2>5. promised[p] # None BY <1>1, <2>1 DEF Leaving
  <2>6. promised[p] # None /\ (Alive(p)' \/ ~setup.faulty) /\ Alive(o)' =>
          \/ AnyOn(p, CONNECTION_LANE)'
          \/ allowed[o] # None /\ \A s \in Ids(o) : isLive(o, s)' => s <= promised[p]
    <3>1. promised[p] # None /\ (Alive(p) \/ ~setup.faulty) /\ Alive(o) =>
            \/ AnyOn(p, CONNECTION_LANE)
            \/ allowed[o] # None /\ \A s \in Ids(o) : isLive(o, s) => s <= promised[p]
      BY <2>1 DEF Leaving
    <3> QED BY <1>2, <2>2, <2>3, <2>4, <3>1
  <2>7. /\ \A x \in Row(p, CONNECTION_LANE)' : promised[p] # None /\ x.frame.last = promised[p]
        /\ ~setup.faulty => \A s \in Streams :
             view[p][s].cause = "CONNECTION_CLOSED" => s \notin Ids(p) /\ view[p][s].handler = "none"
    BY <2>1, <2>2 DEF Leaving
  <2> QED BY <1>1, <1>2, <2>3, <2>5, <2>6, <2>7 DEF Leaving
<1> QED BY <1>1, <1>2, <1>3, PhaseLinks

LEMMA FlushedLinks ==
  ASSUME RefusalInv, LinkInv, Shape', NEW p \in Peers, Flushed(p)
  PROVE  LinkInv'
<1> DEFINE o == Other(p)
           new == IF phase[p] = "failing" THEN "failed" ELSE "closing"
<1>1. /\ phase[p] \in {"flushing", "failing", "draining"} /\ phase' = [phase EXCEPT ![p] = new]
      /\ phase[p] = "flushing" => AllSent(p) \/ setup.faulty
      /\ phase[p] = "draining" => setup.faulty
      /\ UNCHANGED <<next, high, view, promised, allowed, out, chan, setup>>
  BY DEF Flushed
<1>2. phase'[p] = new /\ Alive(p) /\ Alive(p)' /\ (Alive(o)' <=> Alive(o)) /\ new # "dead"
  BY <1>1, PeerFacts DEF RefusalInv, Shape, Alive
<1>3. Leaving(p, o)'
  <2>1. Leaving(p, o) BY LinkFacts
  <2>2. /\ (AnyOn(p, CONNECTION_LANE)' <=> AnyOn(p, CONNECTION_LANE))
        /\ Row(p, CONNECTION_LANE)' = Row(p, CONNECTION_LANE)
    BY <1>1 DEF AnyOn, Row
  <2>3. \A s \in Streams : (isLive(p, s)' <=> isLive(p, s)) /\ (isLive(o, s)' <=> isLive(o, s)) BY <1>1 DEF isLive
  <2>4. Ids(o) \subseteq Streams BY PeerFacts
  <2> SUFFICES ASSUME WithinLimit PROVE Leaving(p, o)' BY DEF Leaving, WithinLimit
  <2>5. promised[p] # None /\ new = "closing" /\ (phase[p] = "flushing" \/ setup.faulty)
    BY <1>1, <2>1 DEF Leaving
  <2>6. promised[p] # None /\ (Alive(p)' \/ ~setup.faulty) /\ Alive(o)' =>
          \/ AnyOn(p, CONNECTION_LANE)'
          \/ allowed[o] # None /\ \A s \in Ids(o) : isLive(o, s)' => s <= promised[p]
    <3>1. promised[p] # None /\ (Alive(p) \/ ~setup.faulty) /\ Alive(o) =>
            \/ AnyOn(p, CONNECTION_LANE)
            \/ allowed[o] # None /\ \A s \in Ids(o) : isLive(o, s) => s <= promised[p]
      BY <2>1 DEF Leaving
    <3> QED BY <1>2, <2>2, <2>3, <2>4, <3>1
  <2>7. /\ \A x \in Row(p, CONNECTION_LANE)' : promised[p] # None /\ x.frame.last = promised[p]
        /\ ~setup.faulty => \A s \in Streams :
             view[p][s].cause = "CONNECTION_CLOSED" => s \notin Ids(p) /\ view[p][s].handler = "none"
    BY <2>1, <2>2 DEF Leaving
  <2>8. ~setup.faulty => \A s \in Streams : isLive(p, s)' => view[p][s].opening /\ s > promised[p]
    BY <2>1, <2>3, <2>5 DEF Leaving
  <2>9. ~setup.faulty => \A l \in Lanes : out[p][l] = << >> BY <1>1, <2>5 DEF AllSent
  <2> QED BY <1>1, <1>2, <2>5, <2>6, <2>7, <2>8, <2>9 DEF Leaving
<1> HIDE DEF new
<1> QED BY <1>1, <1>2, <1>3, PhaseLinks

(* The `open` that leaves is the first of those that wait.                 *)
LEMMA WriteKeepsTurn ==
  ASSUME Shape, LinkInv, NEW p \in Peers, NEW l \in Lanes, NEW e \in Sent, out[p][l] # << >>, e.lane = l,
         e.frame = First(out[p][l]).frame, e.idx = First(out[p][l]).idx,
         HoldsUnsentOpen(out[p][l]) => \A m \in Ids(p) : m < l => ~HoldsUnsentOpen(out[p][m]),
         chan'[p] = Append(chan[p], e), out'[p][l] = Rest(out[p][l]),
         \A m \in Lanes : m # l => out'[p][m] = out[p][m]
  PROVE  InTurn(p)'
<1> DEFINE c == chan[p]
           n == Len(c)
           y0 == Piece(e.frame, e.idx)
<1>1. /\ c \in Seq(Sent) /\ n \in Nat /\ DOMAIN c = 1 .. n
      /\ DOMAIN chan'[p] = 1 .. (n + 1) /\ chan'[p][n + 1] = e
      /\ \A i \in 1 .. n : chan'[p][i] = c[i]
  <2>1. c \in Seq(Sent) BY DEF Shape
  <2> QED BY <2>1, AppendFacts
<1>2. \A m \in Lanes : out[p][m] \in Seq(Held) /\ WellFormed(out[p][m]) /\ InOrder(p, m)
  BY LinkFacts DEF Shape, InOrder, Tidy
<1>3. /\ y0 \in Waiting(out[p][l]) /\ Waiting(out'[p][l]) \subseteq Waiting(out[p][l])
  <2>1. /\ y0 = Piece(First(out[p][l]).frame, First(out[p][l]).idx) OBVIOUS
  <2>2. Waiting(out[p][l]) = Waiting(Rest(out[p][l])) \cup {y0} BY <1>2, <2>1, WaitingRest
  <2> QED BY <2>2
<1>4. \A m \in Lanes : Waiting(out'[p][m]) \subseteq Waiting(out[p][m])
  <2> TAKE m \in Lanes
  <2>1. CASE m = l BY <1>3, <2>1
  <2>2. CASE m # l BY <2>2
  <2> QED BY <2>1, <2>2
<1>5. IsFirst(e) <=> IsFirst(y0) BY DEF IsFirst, Piece
<1>6. Ids(p) \subseteq Lanes /\ Ids(p) \subseteq Nat /\ l \in Nat BY PeerFacts
<1>7. InTurn(p) BY LinkFacts
<1>8. ASSUME NEW s \in Ids(p), s < l, IsFirst(e), NEW y \in Waiting(out'[p][s]) PROVE ~IsFirst(y)
  <2> DEFINE w == out[p][s]
  <2>1. s \in Lanes /\ s # l /\ out'[p][s] = w BY <1>6, <1>8
  <2>2. HoldsUnsentOpen(out[p][l])
    <3>1. e.frame = Head(out[p][l]).frame /\ e.idx = Head(out[p][l]).next BY DEF First
    <3> QED BY <1>8, <3>1 DEF IsFirst, HoldsUnsentOpen
  <2>3. ~HoldsUnsentOpen(w) BY <1>8, <2>2
  <2> SUFFICES ASSUME IsFirst(y) PROVE FALSE OBVIOUS
  <2>4. PICK k \in DOMAIN w : y \in Parts(w[k]) BY <1>8, <2>1 DEF Waiting
  <2>5. /\ w \in Seq(Held) /\ Len(w) \in Nat /\ DOMAIN w = 1 .. Len(w) /\ \A j \in 1 .. Len(w) : w[j] \in Held
    BY <1>2, <2>1, SeqFacts
  <2>6. y.frame = w[k].frame /\ y.idx \in w[k].next .. w[k].frame.frags BY <2>4, PartsFacts
  <2>7. \A j \in DOMAIN w : w[j].next \in 1 .. w[j].frame.frags /\ w[j].next \in Nat /\ w[j].frame.frags \in Nat
    <3>1. \A j \in DOMAIN w : w[j].next \in 1 .. w[j].frame.frags BY <1>2, <2>1 DEF WellFormed
    <3>2. \A h \in Held : h.next \in Nat /\ h.frame.frags \in Nat
      <4>1. \A f \in Frame : f.frags \in Nat BY DEF Frame
      <4> QED BY <4>1 DEF Held
    <3>3. \A j \in DOMAIN w : w[j].next \in Nat /\ w[j].frame.frags \in Nat BY <2>5, <3>2
    <3> QED BY <3>1, <3>3
  <2>8. y.frame.type = "open" /\ y.idx = 1 BY DEF IsFirst
  <2>9. w[k].next = 1 /\ w[k].frame.type = "open" BY <2>6, <2>7, <2>8
  <2>10. CASE k = 1
    <3>1. w # << >> /\ Head(w) = w[1] BY <2>5, <2>10, TailFacts
    <3> QED BY <2>3, <2>9, <2>10, <3>1 DEF HoldsUnsentOpen
  <2>11. CASE k # 1
    <3>1. 1 \in DOMAIN w /\ 1 < k BY <2>4, <2>5, <2>11
    <3> DEFINE x == Piece(w[1].frame, w[1].next)
    <3>2. x \in Parts(w[1]) BY <2>7, <3>1 DEF Parts
    <3>3. Before(x, y) BY <1>2, <2>1, <2>4, <3>1, <3>2 DEF InOrder, Tidy, Follow
    <3>4. x.idx < y.idx /\ x.idx = w[1].next BY <2>8, <3>3 DEF Before, Piece
    <3> QED BY <2>7, <2>8, <3>1, <3>4
  <2> QED BY <2>10, <2>11
<1>9. ASSUME NEW i \in 1 .. (n + 1), IsFirst(chan'[p][i]), NEW s \in Ids(p), s < chan'[p][i].lane
      PROVE  /\ \A j \in 1 .. (n + 1) : j > i /\ chan'[p][j].lane = s => ~IsFirst(chan'[p][j])
             /\ \A y \in Waiting(out'[p][s]) : ~IsFirst(y)
  <2>1. CASE i = n + 1
    <3>1. s < l /\ IsFirst(e) BY <1>1, <1>9, <2>1
    <3>2. \A y \in Waiting(out'[p][s]) : ~IsFirst(y) BY <1>8, <3>1
    <3> QED BY <1>1, <2>1, <3>2
  <2>2. CASE i # n + 1
    <3>1. i \in 1 .. n /\ chan'[p][i] = c[i] BY <1>1, <2>2
    <3>2. /\ \A j \in 1 .. n : j > i /\ c[j].lane = s => ~IsFirst(c[j])
          /\ \A y \in Waiting(out[p][s]) : ~IsFirst(y)
      BY <1>1, <1>7, <1>9, <3>1 DEF InTurn
    <3>3. \A y \in Waiting(out'[p][s]) : ~IsFirst(y) BY <1>4, <1>6, <3>2
    <3>4. e.lane = s => ~IsFirst(e) BY <1>3, <1>5, <3>2
    <3>5. ASSUME NEW j \in 1 .. (n + 1), j > i, chan'[p][j].lane = s PROVE ~IsFirst(chan'[p][j])
      <4>1. CASE j = n + 1 BY <1>1, <3>4, <3>5, <4>1
      <4>2. CASE j # n + 1
        <5>1. j \in 1 .. n /\ chan'[p][j] = c[j] BY <1>1, <4>2
        <5> QED BY <3>2, <3>5, <5>1
      <4> QED BY <4>1, <4>2
    <3> QED BY <3>3, <3>5
  <2> QED BY <2>1, <2>2
<1> QED BY <1>1, <1>9 DEF InTurn

LEMMA WriteLinks ==
  ASSUME RefusalInv, LinkInv, Shape', NEW p \in Peers, NEW l \in Lanes, Write(p, l)
  PROVE  LinkInv'
<1> DEFINE o == Other(p)
           w == out[p][l]
           e == [lane |-> l, frame |-> First(w).frame, idx |-> First(w).idx]
<1>1. /\ Shape /\ o \in Peers /\ o # p /\ Other(o) = p /\ (\A q \in Peers : q = p \/ q = o)
      /\ CONNECTION_LANE \in Lanes /\ Streams \subseteq Lanes
  BY PeerFacts DEF RefusalInv, Peers, Other
<1>2. /\ w # << >> /\ (HoldsUnsentOpen(w) => \A m \in Ids(p) : m < l => ~HoldsUnsentOpen(out[p][m]))
      /\ chan' = [chan EXCEPT ![p] = Append(@, e)] /\ out' = [out EXCEPT ![p][l] = Rest(@)]
      /\ UNCHANGED <<phase, next, high, view, promised, allowed, setup>>
  BY DEF Write
<1>3. e \in Sent /\ e.lane = l /\ e.frame = First(w).frame /\ e.idx = First(w).idx
  <2>1. w \in Seq(Held) BY <1>1 DEF Shape
  <2>2. First(w).frame \in Frame /\ First(w).idx \in Nat BY <1>2, <2>1, LaneFacts
  <2> QED BY <2>2 DEF Sent
<1> HIDE DEF e
<1>4. /\ chan'[p] = Append(chan[p], e) /\ chan'[o] = chan[o] /\ out'[p][l] = Rest(w)
      /\ \A q \in Peers, m \in Lanes : q # p \/ m # l => out'[q][m] = out[q][m]
  BY <1>1, <1>2 DEF Shape
<1>5. \A q \in Peers, m \in Lanes : Kept(q, m) /\ Row(q, m)' = Row(q, m)
  <2> TAKE q \in Peers, m \in Lanes
  <2>1. InOrder(q, m) BY LinkFacts
  <2>2. CASE q = p
    <3>1. out'[p][m] = IF m = l THEN Rest(out[p][m]) ELSE out[p][m] BY <1>1, <1>4
    <3> QED BY <1>1, <1>2, <1>3, <1>4, <2>1, <2>2, <3>1, KeptByWrite
  <2>3. CASE q = o
    <3>1. chan'[q] = chan[q] /\ out'[q][m] = out[q][m] BY <1>1, <1>4, <2>3
    <3> QED BY <2>1, <3>1, KeptStill
  <2> QED BY <1>1, <2>2, <2>3
<1>6. SameLives BY <1>2 DEF SameLives, Alive
<1>7. ASSUME NEW q \in Peers, NEW s \in Streams PROVE Link(q, Other(q), s)'
  <2> PICK r \in Peers : r = Other(q) BY PeerFacts
  <2>1. Link(q, r, s) /\ Kept(q, s) BY <1>1, <1>5, LinkFacts
  <2>2. view'[q][s] = view[q][s] /\ view'[r][s] = view[r][s] BY <1>2
  <2>3. Speaks(q, s)' => Speaks(q, s)
    <3>1. promised'[q] = promised[q] BY <1>2
    <3> QED BY <1>6, <2>2, <3>1, StillSpeaks
  <2> QED BY <1>1, <1>2, <1>6, <2>1, <2>2, <2>3, Bystander
<1>8. ASSUME NEW q \in Peers PROVE InTurn(q)'
  <2>1. CASE q = p
    <3>1. \A m \in Lanes : m # l => out'[p][m] = out[p][m] BY <1>4
    <3> QED BY <1>1, <1>2, <1>3, <1>4, <2>1, <3>1, WriteKeepsTurn
  <2>2. CASE q = o
    <3>1. \A s \in Ids(q) : s \in Lanes BY PeerFacts
    <3>2. \A s \in Ids(q) : out'[q][s] = out[q][s] BY <1>1, <1>4, <2>2, <3>1
    <3>3. \A s \in Ids(q) : NoNewOpen(q, s) BY <3>2 DEF NoNewOpen
    <3> QED BY <1>1, <1>4, <2>2, <3>3, LinkFacts, StillInTurn
  <2> QED BY <1>1, <2>1, <2>2
<1>9. ASSUME NEW q \in Peers PROVE Numbers(q, Other(q))'
  <2>1. Numbers(q, Other(q)) BY LinkFacts
  <2> QED BY <1>2, <2>1 DEF Numbers
<1>10. ASSUME NEW q \in Peers PROVE Leaving(q, Other(q))'
  <2> PICK r \in Peers : r = Other(q) BY PeerFacts
  <2>1. Row(q, CONNECTION_LANE)' = Row(q, CONNECTION_LANE) BY <1>1, <1>5
  <2>2. \A m \in Lanes : out'[q][m] # << >> => out[q][m] # << >> BY <1>1, <1>2, <1>4
  <2>3. \A s \in Streams : view'[q][s] = view[q][s] /\ (isLive(r, s)' => isLive(r, s)) BY <1>2 DEF isLive
  <2>4. phase'[q] = phase[q] /\ promised'[q] = promised[q] /\ allowed'[r] = allowed[r] /\ setup' = setup BY <1>2
  <2>5. Alive(r)' <=> Alive(r) BY <1>6 DEF SameLives
  <2>6. Leaving(q, r)' BY <1>1, <2>1, <2>2, <2>3, <2>4, <2>5, SameLeaving
  <2> QED BY <2>6
<1>11. ASSUME NEW q \in Peers PROVE InOrder(q, CONNECTION_LANE)'
  BY <1>1, <1>5 DEF Kept
<1>12. ASSUME NEW q \in Peers PROVE Deaths(q)'
  <2>1. Deaths(q) /\ (Alive(q)' <=> Alive(q)) BY <1>6, LinkFacts DEF SameLives
  <2>2. \A m \in Lanes : out'[q][m] # << >> => out[q][m] # << >> BY <1>1, <1>2, <1>4
  <2> QED BY <1>2, <2>1, <2>2 DEF Deaths
<1> QED BY <1>7, <1>8, <1>9, <1>10, <1>11, <1>12 DEF LinkInv, InOrder

(* A goaway cuts every stream its sender will never take.                  *)
LEMMA GoawayArrivesLinks ==
  ASSUME RefusalInv, LinkInv, Shape', NEW p \in Peers, GoawayArrives(p)
  PROVE  LinkInv'
<1> DEFINE o == Other(p)
           hit(t) == t \in Ids(p) /\ isLive(p, t) /\ t > Incoming(p).frame.last
<1> PICK f : f = Incoming(p).frame OBVIOUS
<1>1. /\ Reads(p, "goaway") /\ allowed' = [allowed EXCEPT ![p] = f.last]
      /\ view' = [view EXCEPT ![p] = [s \in Streams |-> IF hit(s) THEN Failed(@[s], "REFUSED") ELSE @[s]]]
      /\ UNCHANGED <<phase, next, high, promised, out, setup>>
  BY DEF GoawayArrives
<1>2. /\ Shape /\ o \in Peers /\ o # p /\ Other(o) = p /\ (\A q \in Peers : q = p \/ q = o)
      /\ CONNECTION_LANE \in Lanes /\ CONNECTION_LANE \notin Streams /\ Streams \subseteq Lanes
      /\ Ids(p) \subseteq Streams
  BY PeerFacts DEF RefusalInv, Peers, Other
<1>3. /\ chan[o] # << >> /\ Incoming(p) = Head(chan[o]) /\ f.type = "goaway" /\ Reading(p)
      /\ chan'[o] = Tail(chan[o]) /\ chan'[p] = chan[p]
  BY <1>1, <1>2 DEF Reads, Incoming, Shape
<1>4. Alive(p) BY <1>3 DEF Reading, Alive
<1>5. 1 \in DOMAIN chan[o] /\ Head(chan[o]) = chan[o][1]
  <2>1. chan[o] \in Seq(Sent) BY <1>2 DEF Shape
  <2> QED BY <1>3, <2>1, TailFacts
<1> PICK x : x = Piece(chan[o][1].frame, chan[o][1].idx) OBVIOUS
<1>6. /\ Head(chan[o]).lane = CONNECTION_LANE /\ x \in Row(o, CONNECTION_LANE) /\ x.frame = f
      /\ AnyOn(o, CONNECTION_LANE) /\ f \in Frame
  <2>1. /\ x \in Row(o, chan[o][1].lane) /\ Fine(chan[o][1].lane, x) /\ AnyOn(o, chan[o][1].lane)
    BY <1>2, <1>5, OnLine
  <2>2. x.frame = f BY <1>3, <1>5 DEF Piece
  <2>3. chan[o][1].lane = CONNECTION_LANE BY <1>3, <2>1, <2>2 DEF Fine
  <2> QED BY <1>5, <2>1, <2>2, <2>3 DEF Fine
<1>7. f.last \in Nat BY <1>6 DEF Frame
<1>8. \A t \in Ids(p) : t > f.last => Never(o, t)
  <2>1. Fits(o, Incoming(p).lane, f) BY <1>1, ReadFacts
  <2> QED BY <1>2, <1>3, <2>1 DEF Fits
<1>9. /\ \A t \in Streams : view'[p][t] = IF hit(t) THEN Failed(view[p][t], "REFUSED") ELSE view[p][t]
      /\ \A t \in Streams : view'[o][t] = view[o][t]
  BY <1>1, <1>2 DEF Shape
<1>10. SameLives /\ Calm BY <1>1 DEF SameLives, Calm, Alive
<1>11. \A q \in Peers, l \in Lanes : out'[q][l] = out[q][l] BY <1>1
<1>12. \A q \in Peers, t \in Streams : Kept(q, t)
  <2> TAKE q \in Peers, t \in Streams
  <2>1. InOrder(q, t) /\ t \in Lanes /\ t # CONNECTION_LANE BY <1>2, LinkFacts
  <2>2. CASE q = p BY <1>3, <1>11, <2>1, <2>2, KeptStill
  <2>3. CASE q = o BY <1>2, <1>3, <1>6, <1>11, <2>1, <2>3, KeptByRead
  <2> QED BY <1>2, <2>2, <2>3
<1>13. ASSUME NEW t \in Streams, hit(t)
       PROVE  /\ view'[p][t] = Failed(view[p][t], "REFUSED") /\ Over(p, t) /\ view'[p][t].cause = "REFUSED"
              /\ ~isLive(p, t)' /\ view'[p][t].handler = "none"
  <2> DEFINE u == view[p][t]
             v == Failed(u, "REFUSED")
  <2>1. view'[p][t] = v BY <1>9, <1>13
  <2>2. u \in Stream /\ u.handler = "none" /\ u.state # "closed"
    BY <1>2, <1>13, AppFacts, LiveFacts
  <2>3. "REFUSED" \in ResetCode BY DEF ResetCode
  <2>4. /\ v.state = "closed" /\ v.opening = u.opening /\ v.ran = u.ran /\ v.sent = u.sent /\ v.got = u.got
        /\ v.handler = IF u.state # "closed" /\ u.handler = "scheduled" THEN "cancelled" ELSE u.handler
        /\ v.cause = "REFUSED"
    BY <2>2, <2>3, StreamFacts, FailedFacts
  <2> HIDE DEF v
  <2>5. v.handler = "none" BY <2>2, <2>4
  <2>6. Over(p, t) BY <2>1, <2>4, <2>5 DEF Over
  <2>7. ~isLive(p, t)' BY <2>1, <2>4 DEF isLive, Live
  <2> QED BY <2>1, <2>4, <2>5, <2>6, <2>7 DEF v
<1> HIDE DEF hit
<1>14. \A t \in Streams : isLive(p, t)' => isLive(p, t) /\ ~hit(t) /\ view'[p][t] = view[p][t]
  <2> TAKE t \in Streams
  <2>1. CASE hit(t) BY <1>13, <2>1
  <2>2. CASE ~hit(t) BY <1>9, <2>2 DEF isLive
  <2> QED BY <2>1, <2>2
<1>15. ASSUME NEW t \in Streams PROVE Link(p, o, t)' /\ Link(o, p, t)'
  <2>1. Link(p, o, t) /\ Link(o, p, t) BY <1>2, LinkFacts
  <2>2. CASE hit(t)
    <3>1. t \in Ids(p) /\ isLive(p, t) /\ Never(o, t) BY <1>8, <2>2 DEF hit
    <3> QED BY <1>2, <1>9, <1>10, <1>12, <1>13, <2>1, <2>2, <3>1, Cutting
  <2>3. CASE ~hit(t)
    <3>1. view'[p][t] = view[p][t] /\ view'[o][t] = view[o][t] BY <1>9, <2>3
    <3>2. (Speaks(p, t)' => Speaks(p, t)) /\ (Speaks(o, t)' => Speaks(o, t))
      BY <1>1, <1>2, <1>10, <3>1, StillSpeaks
    <3> QED BY <1>1, <1>2, <1>10, <1>12, <2>1, <3>1, <3>2, Bystander
  <2> QED BY <2>2, <2>3
<1>16. \A q \in Peers, t \in Streams : Link(q, Other(q), t)' BY <1>2, <1>15
<1>17. ASSUME NEW q \in Peers PROVE Numbers(q, Other(q))'
  <2>1. Numbers(q, Other(q)) BY LinkFacts
  <2> QED BY <1>1, <2>1 DEF Numbers
<1>18. ASSUME NEW q \in Peers PROVE InTurn(q)'
  <2>1. \A s \in Ids(q) : NoNewOpen(q, s) BY <1>1 DEF NoNewOpen
  <2>2. chan'[q] = chan[q] \/ (chan[q] # << >> /\ chan'[q] = Tail(chan[q])) BY <1>2, <1>3
  <2> QED BY <1>2, <2>1, <2>2, LinkFacts, StillInTurn
<1>19. InOrder(o, CONNECTION_LANE)' /\ Row(o, CONNECTION_LANE)' \subseteq Row(o, CONNECTION_LANE)
  <2> DEFINE y == Piece(Head(chan[o]).frame, Head(chan[o]).idx)
  <2>1. InOrder(o, CONNECTION_LANE) BY <1>2, LinkFacts
  <2>2. /\ InOrder(o, CONNECTION_LANE)'
        /\ Row(o, CONNECTION_LANE) = Row(o, CONNECTION_LANE)' \cup {y}
    BY <1>2, <1>3, <1>6, <1>11, <2>1, ReadRow
  <2> QED BY <2>2
<1>20. InOrder(p, CONNECTION_LANE)' /\ Row(p, CONNECTION_LANE)' = Row(p, CONNECTION_LANE)
  <2>1. InOrder(p, CONNECTION_LANE) BY <1>2, LinkFacts
  <2> QED BY <1>2, <1>3, <1>11, <2>1, KeptStill DEF Kept
<1>21. ASSUME NEW q \in Peers PROVE Deaths(q)'
  <2>1. Deaths(q) /\ (Alive(q)' <=> Alive(q)) BY <1>10, LinkFacts DEF SameLives
  <2>2. \A t \in Streams : view'[q][t].cause = "CONNECTION_CLOSED" => view[q][t].cause = "CONNECTION_CLOSED"
    <3> TAKE t \in Streams
    <3>1. CASE q = p /\ hit(t) BY <1>13, <3>1
    <3>2. CASE ~(q = p /\ hit(t)) BY <1>2, <1>9, <3>2
    <3> QED BY <3>1, <3>2
  <2> QED BY <1>11, <2>1, <2>2 DEF Deaths
<1>22. Leaving(p, o)'
  <2> SUFFICES ASSUME WithinLimit PROVE Leaving(p, o)' BY DEF Leaving, WithinLimit
  <2>1. Leaving(p, o) BY LinkFacts
  <2>2. (AnyOn(p, CONNECTION_LANE)' <=> AnyOn(p, CONNECTION_LANE)) /\ Alive(p)' /\ (Alive(o)' <=> Alive(o))
    BY <1>2, <1>4, <1>10, <1>20 DEF AnyOn, SameLives
  <2>3. /\ phase'[p] \in {"open", "draining", "flushing", "closing", "dead"}
        /\ phase'[p] \in {"draining", "flushing", "closing"} => promised'[p] # None
        /\ phase'[p] = "open" => promised'[p] = None
        /\ \A y \in Row(p, CONNECTION_LANE)' : promised'[p] # None /\ y.frame.last = promised'[p]
    BY <1>1, <1>20, <2>1 DEF Leaving
  <2>4. /\ ~setup'.faulty /\ phase'[p] \in {"flushing", "closing"} =>
              \A s \in Streams : isLive(p, s)' => view'[p][s].opening /\ s > promised'[p]
        /\ ~setup'.faulty /\ phase'[p] = "closing" =>
              \A l \in Lanes : out'[p][l] # << >> => l \in Ids(o) /\ l > promised'[p]
    BY <1>1, <1>14, <2>1 DEF Leaving
  <2>5. promised'[p] # None /\ (Alive(p)' \/ ~setup'.faulty) /\ Alive(o)' =>
          \/ AnyOn(p, CONNECTION_LANE)'
          \/ allowed'[o] # None /\ \A s \in Ids(o) : isLive(o, s)' => s <= promised'[p]
    <3>1. allowed'[o] = allowed[o] BY <1>1, <1>2 DEF Shape
    <3>2. \A s \in Ids(o) : isLive(o, s)' <=> isLive(o, s) BY <1>2, <1>9, PeerFacts DEF isLive
    <3>3. promised[p] # None /\ (Alive(p) \/ ~setup.faulty) /\ Alive(o) =>
            \/ AnyOn(p, CONNECTION_LANE)
            \/ allowed[o] # None /\ \A s \in Ids(o) : isLive(o, s) => s <= promised[p]
      BY <2>1 DEF Leaving
    <3> QED BY <1>1, <1>4, <2>2, <3>1, <3>2, <3>3
  <2>6. ~setup'.faulty => \A s \in Streams :
          view'[p][s].cause = "CONNECTION_CLOSED" => s \notin Ids(p) /\ view'[p][s].handler = "none"
    <3>1. Alive(p)' => \A s \in Streams : view'[p][s].cause # "CONNECTION_CLOSED" BY <1>21 DEF Deaths
    <3> QED BY <2>2, <3>1
  <2> QED BY <2>2, <2>3, <2>4, <2>5, <2>6 DEF Leaving
<1>23. Leaving(o, p)'
  <2> SUFFICES ASSUME WithinLimit PROVE Leaving(o, p)' BY DEF Leaving, WithinLimit
  <2>1. Leaving(o, p) BY <1>2, LinkFacts
  <2>2. (Alive(p)' <=> Alive(p)) /\ (Alive(o)' <=> Alive(o)) BY <1>2, <1>10 DEF SameLives
  <2>3. /\ phase'[o] \in {"open", "draining", "flushing", "closing", "dead"}
        /\ phase'[o] \in {"draining", "flushing", "closing"} => promised'[o] # None
        /\ phase'[o] = "open" => promised'[o] = None
        /\ \A y \in Row(o, CONNECTION_LANE)' : promised'[o] # None /\ y.frame.last = promised'[o]
    BY <1>1, <1>19, <2>1 DEF Leaving
  <2>4. \A s \in Streams : isLive(o, s)' <=> isLive(o, s) BY <1>9 DEF isLive
  <2>5. /\ ~setup'.faulty /\ phase'[o] \in {"flushing", "closing"} =>
              \A s \in Streams : isLive(o, s)' => view'[o][s].opening /\ s > promised'[o]
        /\ ~setup'.faulty /\ phase'[o] = "closing" =>
              \A l \in Lanes : out'[o][l] # << >> => l \in Ids(p) /\ l > promised'[o]
    BY <1>1, <1>9, <2>1, <2>4 DEF Leaving
  <2>6. promised[o] # None /\ f.last = promised[o] BY <1>6, <2>1 DEF Leaving
  <2>7. allowed'[p] # None /\ \A s \in Ids(p) : isLive(p, s)' => s <= promised'[o]
    <3>1. allowed'[p] = f.last /\ f.last # None BY <1>1, <1>2, <1>7, ConnectionAssumption DEF Shape
    <3>2. ASSUME NEW s \in Ids(p), isLive(p, s)' PROVE s <= f.last
      <4>1. s \in Streams /\ s \in Nat BY PeerFacts
      <4>2. isLive(p, s) /\ ~hit(s) BY <1>14, <3>2, <4>1
      <4> QED BY <1>7, <4>1, <4>2 DEF hit
    <3> QED BY <1>1, <2>6, <3>1, <3>2
  <2>8. /\ ~setup'.faulty => \A s \in Streams :
            view'[o][s].cause = "CONNECTION_CLOSED" => s \notin Ids(o) /\ view'[o][s].handler = "none"
        /\ ~setup'.faulty /\ ~Alive(o)' /\ Alive(p)' =>
            promised'[o] # None /\ \A s \in Ids(p) : view'[o][s].cause = "CONNECTION_CLOSED" => s > promised'[o]
    BY <1>1, <1>2, <1>9, <2>1, <2>2 DEF Leaving
  <2> QED BY <2>3, <2>5, <2>7, <2>8 DEF Leaving
<1>24. \A q \in Peers : Leaving(q, Other(q))' /\ InOrder(q, CONNECTION_LANE)' BY <1>2, <1>19, <1>20, <1>22, <1>23
<1> QED BY <1>16, <1>17, <1>18, <1>21, <1>24 DEF LinkInv, InOrder

(* When a peer has closed and all it wrote is read, what still lives at    *)
(* the other one is an `open` that was never completed.                    *)
LEMMA LastWords ==
  ASSUME RefusalInv, LinkInv, WithinLimit, ~setup.faulty,
         NEW p \in Peers, NEW o \in Peers, o = Other(p), Alive(p), ~Alive(o), chan[o] = << >>,
         NEW s \in Streams, isLive(p, s)
  PROVE  s \notin Ids(p) /\ view[p][s].opening
<1> DEFINE u == view[p][s]
           w == view[o][s]
<1>1. /\ Shape /\ o # p /\ p = Other(o) /\ (s \in Ids(p) <=> s \notin Ids(o)) /\ CONNECTION_LANE \in Lanes
      /\ s \in Lanes
  BY PeerFacts DEF RefusalInv
<1>2. \A l \in Lanes : Row(o, l) = {}
  <2> TAKE l \in Lanes
  <2>1. out[o][l] = << >> BY LinkFacts DEF Deaths
  <2> QED BY <2>1 DEF Row, Line, Written, Waiting
<1>3. ~AnyOn(o, s) /\ ~ResetOn(o, s) /\ ~EndOn(o, s) /\ ~AnyOn(o, CONNECTION_LANE)
  BY <1>1, <1>2 DEF AnyOn, ResetOn, EndOn
<1>4. /\ Link(p, o, s) /\ Link(o, p, s) /\ Numbers(o, p) /\ Numbers(p, o) /\ Leaving(o, p)
  BY <1>1, LinkFacts
<1>5. /\ s \in Nat /\ high[p] \in Nat /\ high[o] \in Nat /\ next[o] \in Nat /\ promised[o] \in Nat \cup {None}
      /\ None \notin Nat /\ w.state \in Live \cup {"idle", "closed"} /\ w \in Stream
  BY <1>1, LinkType DEF Stream
<1>6. Hears(p, s) BY <1>4, SideFacts
<1>7. /\ u.state \in {"open", "half_closed_local", "half_closed_remote"} /\ u.cause = "none"
      /\ ~Heard(u) \/ u.state = "half_closed_remote"
  BY <1>4, LiveFacts DEF Link, Heard
<1>8. ~isLive(o, s) /\ (w.state = "idle" \/ w.state = "closed")
  <2>1. ~isLive(o, s) BY <1>4 DEF Link, Stage
  <2> QED BY <1>5, <2>1 DEF isLive
<1>9. promised[o] # None /\ \A t \in Ids(p) : w.cause = "CONNECTION_CLOSED" /\ t = s => s > promised[o]
  BY <1>4 DEF Leaving
<1>10. promised[o] \in Nat /\ promised[o] <= high[o] BY <1>4, <1>5, <1>9 DEF Numbers
<1>11. s \in Ids(p) => s <= promised[o]
  <2>1. \/ AnyOn(o, CONNECTION_LANE)
        \/ \A t \in Ids(p) : isLive(p, t) => t <= promised[o]
    BY <1>4, <1>9 DEF Leaving
  <2> QED BY <1>3, <2>1
<1>12. w.cause # "CONNECTION_CLOSED"
  <2>1. s \notin Ids(p) => w.cause # "CONNECTION_CLOSED" BY <1>1, <1>4 DEF Leaving
  <2>2. s \in Ids(p) => w.cause # "CONNECTION_CLOSED" BY <1>5, <1>9, <1>10, <1>11
  <2> QED BY <2>1, <2>2
<1>13. Speaks(o, s) BY <1>1, <1>9, <1>11, <1>12 DEF Speaks
<1>14. w.state # "closed" \/ w.cause # "normal"
  <2> SUFFICES ASSUME w.state = "closed", w.cause = "normal" PROVE FALSE OBVIOUS
  <2>1. u.state = "half_closed_remote" BY <1>3, <1>4, <1>6, <1>13 DEF Link, Ends, Ended
  <2>2. u.state \in {"half_closed_local", "closed"} BY <1>4 DEF Link, Ends, Heard
  <2> QED BY <2>1, <2>2
<1>15. Refused(o, s) \/ Cut(w)
  <2>1. CASE w.state = "closed" BY <1>14, <2>1 DEF Cut
  <2>2. CASE w.state = "idle"
    <3>1. CASE s \in Ids(p) BY <1>1, <1>5, <1>10, <1>11, <2>2, <3>1 DEF Refused
    <3>2. CASE s \notin Ids(p)
      <4>1. s >= next[o] BY <1>1, <1>4, <2>2, <3>2 DEF Link, Stage
      <4>2. Fresh(p, s) BY <1>1, <3>2 DEF RefusalInv, Refusals
      <4>3. s <= high[p] BY <1>5, <1>7, <4>2 DEF Fresh
      <4>4. s > 0 BY <1>1, LinkType
      <4> QED BY <1>4, <1>5, <4>1, <4>3, <4>4 DEF Numbers
    <3> QED BY <3>1, <3>2
  <2> QED BY <1>8, <2>1, <2>2
<1>16. s \in Ids(o) /\ (u.opening \/ s > high[p]) BY <1>3, <1>4, <1>6, <1>13, <1>15 DEF Link, Closes
<1>17. ~(s > high[p])
  <2>1. Fresh(p, s) BY <1>1, <1>16 DEF RefusalInv, Refusals
  <2> QED BY <1>7, <2>1 DEF Fresh
<1> QED BY <1>1, <1>16, <1>17

LEMMA DieLinks ==
  ASSUME RefusalInv, LinkInv, Shape', NEW p \in Peers, NEW o \in Peers, o = Other(p), Alive(p), Die(p),
         WithinLimit /\ ~setup.faulty => phase[p] = "closing" \/ (~Alive(o) /\ chan[o] = << >>)
  PROVE  LinkInv'
<1>1. /\ Shape /\ o # p /\ Other(o) = p /\ (\A q \in Peers : q = p \/ q = o)
      /\ CONNECTION_LANE \in Lanes /\ CONNECTION_LANE \notin Streams /\ Streams \subseteq Lanes
      /\ (\A s \in Streams : s \in Ids(p) <=> s \notin Ids(o)) /\ Ids(o) \subseteq Streams /\ Ids(p) \subseteq Streams
      /\ CONNECTION_LANE \notin Ids(o)
  BY PeerFacts DEF RefusalInv, Peers, Other
<1>2. /\ phase' = [phase EXCEPT ![p] = "dead"]
      /\ view' = [view EXCEPT ![p] = [s \in Streams |->
                     IF isLive(p, s) THEN Failed(@[s], "CONNECTION_CLOSED") ELSE @[s]]]
      /\ out' = [out EXCEPT ![p] = [l \in Lanes |-> << >>]]
      /\ chan' = [chan EXCEPT ![o] = << >>]
      /\ UNCHANGED <<next, high, promised, allowed, setup>>
  BY DEF Die
<1>3. /\ phase'[p] = "dead" /\ phase'[o] = phase[o] /\ ~Alive(p)' /\ (Alive(o)' <=> Alive(o))
      /\ chan'[p] = chan[p] /\ chan'[o] = << >>
      /\ \A l \in Lanes : out'[p][l] = << >> /\ out'[o][l] = out[o][l]
  BY <1>1, <1>2 DEF Shape, Alive
<1>4. /\ \A t \in Streams : view'[p][t] = IF isLive(p, t) THEN Failed(view[p][t], "CONNECTION_CLOSED") ELSE view[p][t]
      /\ \A t \in Streams : view'[o][t] = view[o][t]
  BY <1>1, <1>2 DEF Shape
<1>5. ASSUME NEW t \in Streams, isLive(p, t)
      PROVE  /\ Over(p, t) /\ view'[p][t].cause = "CONNECTION_CLOSED" /\ ~isLive(p, t)'
             /\ view[p][t].handler = "none" => view'[p][t].handler = "none"
  <2> DEFINE u == view[p][t]
             v == Failed(u, "CONNECTION_CLOSED")
  <2>1. view'[p][t] = v BY <1>4, <1>5
  <2>2. /\ u \in Stream /\ u.state # "closed" /\ (t \in Ids(p) => u.handler = "none")
        /\ (u.handler \in {"running", "returned", "raised"} => u.ran)
    BY <1>1, <1>5, AppFacts, LiveFacts
  <2>3. /\ v.state = "closed" /\ v.opening = u.opening /\ v.ran = u.ran /\ v.sent = u.sent /\ v.got = u.got
        /\ v.handler = IF u.state # "closed" /\ u.handler = "scheduled" THEN "cancelled" ELSE u.handler
        /\ v.cause = "CONNECTION_CLOSED"
    BY <2>2, StreamFacts, FailedFacts
  <2> HIDE DEF v
  <2>4. Over(p, t) BY <2>1, <2>2, <2>3 DEF Over
  <2>5. ~isLive(p, t)' BY <2>1, <2>3 DEF isLive, Live
  <2> QED BY <2>1, <2>3, <2>4, <2>5
<1>6. \A t \in Streams : ~isLive(p, t)'
  <2> TAKE t \in Streams
  <2>1. CASE isLive(p, t) BY <1>5, <2>1
  <2>2. CASE ~isLive(p, t) BY <1>4, <2>2 DEF isLive
  <2> QED BY <2>1, <2>2
<1>7. \A l \in Lanes : /\ InOrder(p, l) /\ InOrder(o, l) /\ Broken(p, l) /\ Fewer(o, l)
                       /\ out[p][l] = << >> => Kept(p, l)
  <2> TAKE l \in Lanes
  <2>1. InOrder(p, l) /\ InOrder(o, l) BY LinkFacts
  <2> QED BY <1>1, <1>3, <2>1, BrokenByDeath, FewerByLoss
<1>8. WithinLimit /\ ~setup.faulty /\ Alive(o) =>
          /\ phase[p] = "closing" /\ promised[p] # None
          /\ \A l \in Lanes : out[p][l] # << >> => l \in Ids(o) /\ l > promised[p]
          /\ \A t \in Streams : isLive(p, t) => view[p][t].opening /\ t > promised[p]
  <2>1. Leaving(p, o) BY LinkFacts
  <2> QED BY <2>1 DEF Leaving
<1>9. ASSUME NEW t \in Streams PROVE Link(p, o, t)' /\ Link(o, p, t)'
  <2>1. Link(p, o, t) /\ Link(o, p, t) /\ t \in Lanes BY <1>1, LinkFacts
  <2>2. IF isLive(p, t) THEN Over(p, t) /\ view'[p][t].cause = "CONNECTION_CLOSED"
                        ELSE view'[p][t] = view[p][t]
    BY <1>4, <1>5
  <2>3. Speaks(p, t)' /\ Alive(o) => Kept(p, t)
    <3> HAVE Speaks(p, t)' /\ Alive(o)
    <3>1. WithinLimit /\ ~setup.faulty /\ (t \notin Ids(p) => t <= promised[p])
      BY <1>2, <1>3 DEF Speaks, WithinLimit
    <3>2. promised[p] \in Nat
      <4>1. promised[p] # None BY <1>8, <3>1
      <4> QED BY <1>1, <4>1 DEF Shape
    <3>3. t \in Nat BY <1>1, PeerFacts
    <3>4. out[p][t] = << >> BY <1>1, <1>8, <2>1, <3>1, <3>2, <3>3
    <3> QED BY <1>7, <2>1, <3>4
  <2>4. view'[o][t] = view[o][t] BY <1>4
  <2> QED BY <1>2, <1>3, <1>7, <2>1, <2>2, <2>3, <2>4, Dying
<1>10. \A q \in Peers, t \in Streams : Link(q, Other(q), t)' BY <1>1, <1>9
<1>11. ASSUME NEW q \in Peers PROVE Numbers(q, Other(q))'
  <2>1. Numbers(q, Other(q)) BY LinkFacts
  <2> QED BY <1>2, <2>1 DEF Numbers
<1>12. ASSUME NEW q \in Peers PROVE InTurn(q)'
  <2>1. \A s \in Ids(q) : NoNewOpen(q, s)
    <3> TAKE s \in Ids(q)
    <3>1. s \in Lanes BY PeerFacts
    <3>2. out'[q][s] = << >> \/ out'[q][s] = out[q][s] BY <1>1, <1>3, <3>1
    <3> QED BY <3>2 DEF NoNewOpen, Waiting
  <2>2. chan'[q] = chan[q] \/ chan'[q] = << >> BY <1>1, <1>3
  <2> QED BY <1>1, <2>1, <2>2, LinkFacts, StillInTurn
<1>13. \A q \in Peers : InOrder(q, CONNECTION_LANE)' BY <1>1, <1>7 DEF Broken, Fewer
<1>14. ASSUME NEW q \in Peers PROVE Deaths(q)'
  <2>1. CASE q = p BY <1>3, <2>1 DEF Deaths
  <2>2. CASE q = o
    <3>1. Deaths(o) BY LinkFacts
    <3> QED BY <1>3, <1>4, <2>2, <3>1 DEF Deaths
  <2> QED BY <1>1, <2>1, <2>2
<1>15. Leaving(p, o)'
  <2> SUFFICES ASSUME WithinLimit PROVE Leaving(p, o)' BY DEF Leaving, WithinLimit
  <2>1. Leaving(p, o) BY LinkFacts
  <2>2. \A x \in Row(p, CONNECTION_LANE)' : promised'[p] # None /\ x.frame.last = promised'[p]
    <3>1. chan[p] \in Seq(Sent) /\ out[p][CONNECTION_LANE] \in Seq(Held) BY <1>1 DEF Shape
    <3>2. Tidy(chan[p], CONNECTION_LANE, out[p][CONNECTION_LANE]) BY <1>1, <1>7 DEF InOrder
    <3>3. Line(chan[p], CONNECTION_LANE, << >>) \subseteq Line(chan[p], CONNECTION_LANE, out[p][CONNECTION_LANE])
      BY <3>1, <3>2, CutLine
    <3>4. Row(p, CONNECTION_LANE)' \subseteq Row(p, CONNECTION_LANE) BY <1>1, <1>3, <3>3 DEF Row
    <3> QED BY <1>2, <2>1, <3>4 DEF Leaving
  <2>3. ASSUME promised'[p] # None, Alive(p)' \/ ~setup'.faulty, Alive(o)'
        PROVE  \/ AnyOn(p, CONNECTION_LANE)'
               \/ allowed'[o] # None /\ \A s \in Ids(o) : isLive(o, s)' => s <= promised'[p]
    <3>1. promised[p] # None /\ ~setup.faulty /\ Alive(o) BY <1>2, <1>3, <2>3
    <3>2. out[p][CONNECTION_LANE] = << >> BY <1>1, <1>8, <3>1
    <3>3. AnyOn(p, CONNECTION_LANE)' <=> AnyOn(p, CONNECTION_LANE) BY <1>1, <1>7, <3>2 DEF Kept
    <3>4. \/ AnyOn(p, CONNECTION_LANE)
          \/ allowed[o] # None /\ \A s \in Ids(o) : isLive(o, s) => s <= promised[p]
      BY <2>1, <3>1 DEF Leaving
    <3>5. \A s \in Ids(o) : isLive(o, s)' <=> isLive(o, s) BY <1>1, <1>4 DEF isLive
    <3> QED BY <1>2, <3>3, <3>4, <3>5
  <2>4. ASSUME ~setup'.faulty, NEW s \in Streams, view'[p][s].cause = "CONNECTION_CLOSED"
        PROVE  /\ s \notin Ids(p) /\ view'[p][s].handler = "none"
               /\ Alive(o) => s > promised[p]
    <3>1. ~setup.faulty BY <1>2, <2>4
    <3>2. isLive(p, s)
      <4>1. view[p][s].cause # "CONNECTION_CLOSED" BY LinkFacts DEF Deaths
      <4> QED BY <1>4, <2>4, <4>1
    <3>3. view[p][s].opening /\ (Alive(o) => s > promised[p])
      <4>1. CASE phase[p] = "closing" BY <2>1, <3>1, <3>2, <4>1 DEF Leaving
      <4>2. CASE phase[p] # "closing"
        <5>1. ~Alive(o) /\ chan[o] = << >> BY <3>1, <4>2
        <5> QED BY <3>1, <3>2, <5>1, LastWords
      <4> QED BY <4>1, <4>2
    <3>4. s \notin Ids(p) /\ view[p][s].handler = "none"
      <4>1. Link(p, o, s) BY LinkFacts
      <4>2. s \notin Ids(p) BY <3>3, <4>1 DEF Link, Stage
      <4>3. Fresh(p, s) BY <1>1, <4>2 DEF RefusalInv, Refusals
      <4> QED BY <3>3, <4>2, <4>3 DEF Fresh
    <3> QED BY <1>5, <3>2, <3>3, <3>4
  <2>5. ~setup'.faulty /\ ~Alive(p)' /\ Alive(o)' =>
          promised'[p] # None /\ \A s \in Ids(o) : view'[p][s].cause = "CONNECTION_CLOSED" => s > promised'[p]
    BY <1>1, <1>2, <1>3, <1>8, <2>4
  <2> QED BY <1>3, <2>2, <2>3, <2>4, <2>5 DEF Leaving
<1>16. Leaving(o, p)'
  <2> SUFFICES ASSUME WithinLimit PROVE Leaving(o, p)' BY DEF Leaving, WithinLimit
  <2>1. Leaving(o, p) BY <1>1, LinkFacts
  <2>2. \A s \in Streams : isLive(o, s)' <=> isLive(o, s) BY <1>4 DEF isLive
  <2>3. Row(o, CONNECTION_LANE)' \subseteq Row(o, CONNECTION_LANE)
    <3>1. Tidy(chan[o], CONNECTION_LANE, out[o][CONNECTION_LANE]) BY <1>1, <1>7 DEF InOrder
    <3>2. Line(<< >>, CONNECTION_LANE, out[o][CONNECTION_LANE])
            \subseteq Line(chan[o], CONNECTION_LANE, out[o][CONNECTION_LANE])
      BY <3>1, LostLine
    <3> QED BY <1>1, <1>3, <3>2 DEF Row
  <2>4. /\ phase'[o] \in {"open", "draining", "flushing", "closing", "dead"}
        /\ phase'[o] \in {"draining", "flushing", "closing"} => promised'[o] # None
        /\ phase'[o] = "open" => promised'[o] = None
        /\ \A x \in Row(o, CONNECTION_LANE)' : promised'[o] # None /\ x.frame.last = promised'[o]
    BY <1>2, <1>3, <2>1, <2>3 DEF Leaving
  <2>5. /\ ~setup'.faulty /\ phase'[o] \in {"flushing", "closing"} =>
              \A s \in Streams : isLive(o, s)' => view'[o][s].opening /\ s > promised'[o]
        /\ ~setup'.faulty /\ phase'[o] = "closing" =>
              \A l \in Lanes : out'[o][l] # << >> => l \in Ids(p) /\ l > promised'[o]
    BY <1>2, <1>3, <1>4, <2>1, <2>2 DEF Leaving
  <2>6. ~setup'.faulty => \A s \in Streams :
            view'[o][s].cause = "CONNECTION_CLOSED" => s \notin Ids(o) /\ view'[o][s].handler = "none"
    BY <1>2, <1>4, <2>1 DEF Leaving
  <2> QED BY <1>3, <2>4, <2>5, <2>6 DEF Leaving
<1> QED BY <1>1, <1>10, <1>11, <1>12, <1>13, <1>14, <1>15, <1>16 DEF LinkInv, InOrder

LEMMA SocketClosedLinks ==
  ASSUME RefusalInv, LinkInv, Shape', NEW p \in Peers, SocketClosed(p)
  PROVE  LinkInv'
<1> DEFINE o == Other(p)
<1>1. o \in Peers /\ phase[p] \in {"closing", "failed"} /\ Die(p) BY PeerFacts DEF SocketClosed
<1>2. Alive(p) BY <1>1 DEF Alive
<1>3. WithinLimit => phase[p] = "closing" BY <1>1, LinkFacts DEF Leaving
<1> QED BY <1>1, <1>2, <1>3, DieLinks

LEMMA SocketLostLinks ==
  ASSUME RefusalInv, LinkInv, Shape', NEW p \in Peers, SocketLost(p)
  PROVE  LinkInv'
<1> DEFINE o == Other(p)
<1>1. /\ o \in Peers /\ phase[p] # "dead" /\ Die(p)
      /\ (phase[o] = "dead" /\ (chan[o] = << >> \/ ~Reading(p))) \/ setup.faulty
  BY PeerFacts DEF SocketLost
<1>2. Alive(p) BY <1>1 DEF Alive
<1>3. WithinLimit => Reading(p) BY <1>1, LinkFacts DEF Leaving, Reading
<1>4. WithinLimit /\ ~setup.faulty => ~Alive(o) /\ chan[o] = << >> BY <1>1, <1>3 DEF Alive
<1> QED BY <1>1, <1>2, <1>4, DieLinks

-----------------------------------------------------------------------------
(* The invariant holds in every reachable state.                           *)

LEMMA LinkStarts == Init => LinkInv
<1> SUFFICES ASSUME Init PROVE LinkInv OBVIOUS
<1>1. /\ setup \in Setups
      /\ \A q \in Peers : /\ Other(q) \in Peers /\ phase[q] = "open" /\ next[q] = FirstId(q) /\ high[q] = 0
                          /\ promised[q] = None /\ allowed[q] = None /\ chan[q] = << >>
                          /\ \A s \in Streams : view[q][s] = NoStream
                          /\ \A l \in Lanes : out[q][l] = << >>
  BY PeerFacts DEF Init
<1>2. /\ NoStream.state = "idle" /\ NoStream.cause = "none" /\ NoStream.handler = "none" /\ ~NoStream.opening
      /\ NoStream.sent = 0 /\ NoStream.got = 0 /\ ~NoStream.ran
  BY DEF NoStream
<1>3. Shape BY RefusalStarts DEF RefusalInv
<1>4. \A l : Tidy(<< >>, l, << >>) /\ Line(<< >>, l, << >>) = {}
  BY DEF Tidy, Follow, WellFormed, Line, Written, Waiting
<1>5. \A q \in Peers, l \in Lanes : Row(q, l) = {} /\ InOrder(q, l) BY <1>1, <1>4 DEF Row, InOrder
<1>6. ASSUME NEW q \in Peers, NEW p \in Peers, p = Other(q), NEW s \in Streams PROVE Link(q, p, s)
  <2>1. /\ ~AnyOn(q, s) /\ ~OpenOn(q, s) /\ ~FirstOn(q, s) /\ ~LastOn(q, s) /\ ~DataOn(q, s)
        /\ ~ResetOn(q, s) /\ ~EndsOn(q, s) /\ ~EndOn(q, s) /\ InOrder(q, s)
    BY <1>5, LinkType, <1>3 DEF AnyOn, OpenOn, FirstOn, LastOn, DataOn, ResetOn, EndsOn, EndOn
  <2>2. s \in Nat /\ s > 0 /\ PaidOn(q, s) = 0 BY <1>3, <2>1, LinkType
  <2>3. ~isLive(q, s) /\ ~isLive(p, s) BY <1>1, <1>2 DEF isLive, Live
  <2>4. s \in Ids(q) => ~(s < next[q])
    BY <1>1, ConnectionAssumption DEF Ids, FirstId
  <2>5. Stage(q, s) BY <1>1, <1>2, <2>3, <2>4, <2>2, PeerFacts DEF Stage, FirstId, Alive
  <2>6. Lines(q, s) BY <2>1 DEF Lines, InOrder
  <2>7. Opening(q, p, s) BY <2>1, <2>3, <2>4 DEF Opening
  <2>8. Ends(q, p, s) BY <1>1, <1>2, <2>1 DEF Ends, Heard, Ended
  <2>9. Counts(q, p, s) BY <1>1, <1>2, <2>1 DEF Counts, Heard, MayEnd
  <2>10. Closes(q, p, s) BY <1>1, <1>2, <2>2 DEF Closes, Refused, Cut
  <2> QED BY <2>5, <2>6, <2>7, <2>8, <2>9, <2>10 DEF Link
<1>7. ASSUME NEW q \in Peers, NEW p \in Peers, p = Other(q)
      PROVE  Numbers(q, p) /\ InTurn(q) /\ Leaving(q, p) /\ Deaths(q)
  <2>1. Numbers(q, p)
    <3>1. FirstId(q) \in {1, 2} BY DEF FirstId
    <3>2. next[q] = FirstId(q) + 2 * 0 BY <1>1, <3>1
    <3> QED BY <1>1, <3>1, <3>2 DEF Numbers
  <2>2. InTurn(q) BY <1>1 DEF InTurn
  <2>3. Leaving(q, p)
    <3>1. ~AnyOn(q, CONNECTION_LANE) /\ Row(q, CONNECTION_LANE) = {} BY <1>5, PeerFacts DEF AnyOn
    <3> QED BY <1>1, <1>2, <3>1 DEF Leaving, Alive
  <2>4. Deaths(q) BY <1>1, <1>2 DEF Deaths, Alive
  <2> QED BY <2>1, <2>2, <2>3, <2>4
<1> QED BY <1>1, <1>5, <1>6, <1>7, PeerFacts DEF LinkInv, InOrder

LEMMA StutterLinks == ASSUME RefusalInv, LinkInv, Shape', UNCHANGED vars PROVE LinkInv'
<1>1. /\ Shape /\ UNCHANGED <<phase, next, high, view, promised, allowed, out, chan, setup>>
      /\ SameLives
  BY DEF RefusalInv, vars, SameLives, Alive
<1>2. ASSUME NEW q \in Peers, NEW l \in Lanes PROVE Kept(q, l) /\ Row(q, l)' = Row(q, l)
  BY <1>1, LinkFacts, KeptStill
<1>3. ASSUME NEW q \in Peers, NEW s \in Streams PROVE Link(q, Other(q), s)'
  <2>1. s \in Lanes /\ Other(q) \in Peers BY PeerFacts
  <2>2. Link(q, Other(q), s) /\ Kept(q, s) BY <1>2, <2>1, LinkFacts
  <2>3. Speaks(q, s)' => Speaks(q, s) BY <1>1, StillSpeaks
  <2> QED BY <1>1, <2>1, <2>2, <2>3, Bystander
<1>4. ASSUME NEW q \in Peers
      PROVE  /\ Numbers(q, Other(q))' /\ InTurn(q)' /\ Leaving(q, Other(q))' /\ Deaths(q)'
             /\ InOrder(q, CONNECTION_LANE)'
  <2>1. Numbers(q, Other(q))' BY <1>1, LinkFacts DEF Numbers
  <2>2. InTurn(q)' BY <1>1, LinkFacts DEF InTurn
  <2>3. Deaths(q)' BY <1>1, LinkFacts DEF Deaths, Alive
  <2>4. CONNECTION_LANE \in Lanes /\ Other(q) \in Peers BY PeerFacts
  <2>5. Leaving(q, Other(q))'
    <3>1. Alive(Other(q))' <=> Alive(Other(q)) BY <1>1 DEF Alive
    <3>2. \A s \in Streams : isLive(Other(q), s)' => isLive(Other(q), s) BY <1>1 DEF isLive
    <3> QED BY <1>1, <1>2, <2>4, <3>1, <3>2, SameLeaving
  <2> QED BY <1>2, <2>1, <2>2, <2>3, <2>4, <2>5 DEF Kept
<1> QED BY <1>3, <1>4 DEF LinkInv, InOrder

LEMMA LinkStep == RefusalInv /\ LinkInv /\ [Next]_vars => LinkInv'
<1> SUFFICES ASSUME RefusalInv, LinkInv, [Next]_vars PROVE LinkInv' OBVIOUS
<1>1. Shape' BY RefusalStep DEF RefusalInv
<1>2. CASE UNCHANGED vars BY <1>1, <1>2, StutterLinks
<1>3. CASE Next
  <2>1. PICK p \in Peers :
           \/ Open(p) \/ Close(p) \/ ReadLoop(p)
           \/ StreamsDrained(p) \/ Flushed(p) \/ SocketClosed(p) \/ SocketLost(p)
           \/ \E s \in Streams : Send(p, s) \/ Reset(p, s) \/ HandlerStarts(p, s) \/ HandlerEnds(p, s)
           \/ \E l \in Lanes : Write(p, l)
    BY <1>3 DEF Next
  <2>2. CASE Open(p) BY <1>1, <2>2, OpenLinks
  <2>3. CASE Close(p) BY <1>1, <2>3, CloseLinks
  <2>4. CASE ReadLoop(p)
    BY <1>1, <2>4, OpenNotNewLinks, OpenOverLimitLinks, OpenTakenLinks, OpenContinuedLinks,
       StreamFrameNotLiveLinks, ResetArrivesLinks, DataArrivesLinks, GoawayArrivesLinks DEF ReadLoop
  <2>5. CASE StreamsDrained(p) BY <1>1, <2>5, StreamsDrainedLinks
  <2>6. CASE Flushed(p) BY <1>1, <2>6, FlushedLinks
  <2>7. CASE SocketClosed(p) BY <1>1, <2>7, SocketClosedLinks
  <2>8. CASE SocketLost(p) BY <1>1, <2>8, SocketLostLinks
  <2>9. ASSUME NEW s \in Streams, Send(p, s) \/ Reset(p, s) \/ HandlerStarts(p, s) \/ HandlerEnds(p, s)
        PROVE  LinkInv'
    BY <1>1, <2>9, SendLinks, ResetLinks, HandlerStartsLinks, HandlerReturnsLinks, HandlerRaisesLinks DEF HandlerEnds
  <2>10. ASSUME NEW l \in Lanes, Write(p, l) PROVE LinkInv' BY <1>1, <2>10, WriteLinks
  <2> QED BY <2>1, <2>2, <2>3, <2>4, <2>5, <2>6, <2>7, <2>8, <2>9, <2>10
<1> QED BY <1>2, <1>3

LEMMA LinkSafe == Spec => [](RefusalInv /\ LinkInv)
BY RefusalStarts, RefusalStep, LinkStarts, LinkStep, PTL DEF Spec

-----------------------------------------------------------------------------
(* What the invariant says of the two peers.                               *)

(* A stream that is live for q, with nothing of it queued or on the way,   *)
(* is live for p as well, and each has heard the end the other has sent.   *)
LEMMA QuietSide ==
  ASSUME RefusalInv, LinkInv, NEW q \in Peers, NEW p \in Peers, p = Other(q), NEW s \in Streams,
         Alive(q), Alive(p), ~AnyOn(q, s), ~AnyOn(p, s), isLive(q, s)
  PROVE  /\ isLive(p, s)
         /\ view[p][s].state = "half_closed_local" => view[q][s].state = "half_closed_remote"
         /\ view[p][s].state = "half_closed_remote" => view[q][s].state = "half_closed_local"
<1> DEFINE u == view[q][s]
           v == view[p][s]
<1>1. q = Other(p) /\ (s \in Ids(p) <=> s \notin Ids(q)) /\ Shape /\ s \in Nat /\ high[p] \in Nat
  BY PeerFacts, LinkType DEF RefusalInv
<1>2. Link(q, p, s) /\ Link(p, q, s) BY <1>1, LinkFacts
<1>3. ~FirstOn(q, s) /\ ~LastOn(p, s) /\ ~ResetOn(p, s) /\ ~EndOn(p, s) BY OnFacts
<1>4. Hears(q, s) /\ Speaks(p, s) BY DEF Hears, Speaks
<1>5. v.state \in {"idle", "open", "half_closed_local", "half_closed_remote", "closed"} BY <1>1, <1>2, SideFacts
<1>6. u.state \in {"open", "half_closed_local", "half_closed_remote"} BY LiveFacts
<1>7. Ended(v) => u.state = "half_closed_remote" BY <1>2, <1>3, <1>4 DEF Link, Ends
<1>8. Heard(v) => u.state \in {"half_closed_local", "closed"} BY <1>2 DEF Link, Ends
<1>9. v.state # "idle"
  <2> SUFFICES ASSUME v.state = "idle" PROVE FALSE OBVIOUS
  <2>1. CASE s \in Ids(p)
    <3>1. s >= next[p] /\ s <= high[q]
      BY <1>1, <1>2, <1>6, <2>1, SideFacts DEF RefusalInv, Refusals, Fresh
    <3>2. high[q] < next[p] /\ next[p] \in Nat /\ high[q] \in Nat BY <1>1, <2>1, IdFacts
    <3> QED BY <1>1, <3>1, <3>2
  <2>2. CASE s \in Ids(q) /\ s > high[p]
    <3>1. s < next[q] BY <1>1, <1>2, <1>6, <2>2, LinkType DEF Link, Stage
    <3> QED BY <1>2, <1>3, <2>2, <3>1 DEF Link, Opening
  <2>3. CASE s \in Ids(q) /\ s <= high[p]
    <3>1. Refused(p, s) BY <1>1, <2>3 DEF Refused
    <3> QED BY <1>1, <1>2, <1>3, <1>4, <2>3, <3>1 DEF Link, Closes
  <2> QED BY <1>1, <2>1, <2>2, <2>3
<1>10. v.state # "closed"
  <2> SUFFICES ASSUME v.state = "closed" PROVE FALSE OBVIOUS
  <2>1. CASE v.cause = "normal" BY <1>7, <1>8, <2>1 DEF Ended, Heard
  <2>2. CASE v.cause # "normal"
    <3>1. s \in Ids(p) /\ (u.opening \/ s > high[q]) BY <1>2, <1>3, <1>4, <2>2 DEF Cut, Link, Closes
    <3>2. s < next[p] BY <1>1, <1>2, <3>1, LinkType DEF Link, Stage
    <3> QED BY <1>1, <1>2, <1>3, <1>4, <3>1, <3>2 DEF Link, Opening
  <2> QED BY <2>1, <2>2
<1>11. isLive(p, s) BY <1>5, <1>9, <1>10 DEF isLive, Live
<1> QED BY <1>6, <1>7, <1>8, <1>11 DEF Ended, Heard

LEMMA QuietFacts ==
  ASSUME NEW s, Quiet(s), NEW q \in Peers
  PROVE  Alive(q) /\ ~AnyOn(q, s)
<1>1. out[q][s] = << >> /\ (\A i \in DOMAIN chan[q] : chan[q][i].lane # s) /\ phase[q] # "dead" BY DEF Quiet
<1>2. Row(q, s) = {} BY <1>1 DEF Row, Line, Written, Waiting
<1> QED BY <1>1, <1>2 DEF Alive, AnyOn

LEMMA LinkAgrees == RefusalInv /\ LinkInv => Agreement
<1> SUFFICES ASSUME RefusalInv, LinkInv, NEW s \in Streams, Quiet(s)
             PROVE  view["dialer"][s].state \in Mirror(view["acceptor"][s].state)
  BY DEF Agreement
<1> DEFINE d == view["dialer"][s]
           a == view["acceptor"][s]
<1>1. /\ "dialer" \in Peers /\ "acceptor" \in Peers
      /\ Other("dialer") = "acceptor" /\ Other("acceptor") = "dialer"
  BY DEF Peers, Other
<1>2. /\ Alive("dialer") /\ ~AnyOn("dialer", s) /\ Alive("acceptor") /\ ~AnyOn("acceptor", s)
  BY <1>1, QuietFacts
<1>3. isLive("dialer", s) =>
         /\ isLive("acceptor", s)
         /\ a.state = "half_closed_local" => d.state = "half_closed_remote"
         /\ a.state = "half_closed_remote" => d.state = "half_closed_local"
  BY <1>1, <1>2, QuietSide
<1>4. isLive("acceptor", s) =>
         /\ isLive("dialer", s)
         /\ d.state = "half_closed_local" => a.state = "half_closed_remote"
         /\ d.state = "half_closed_remote" => a.state = "half_closed_local"
  BY <1>1, <1>2, QuietSide
<1>5. a.state \in Live \cup {"idle", "closed"} /\ d.state \in Live \cup {"idle", "closed"}
  BY <1>1, LinkType DEF RefusalInv
<1> QED BY <1>3, <1>4, <1>5 DEF isLive, Live, Mirror

LEMMA LinkDelivers == LinkInv => DeliveredAll
<1> SUFFICES ASSUME LinkInv, NEW p \in Peers, NEW s \in Streams, view[p][s].cause = "normal"
             PROVE  view[p][s].got = view[Other(p)][s].sent
  BY DEF DeliveredAll
<1>1. Link(Other(p), p, s) BY PeerFacts, LinkFacts
<1> QED BY <1>1 DEF Link, Counts, Heard

LEMMA LinkAccusesNoStream ==
  LinkInv => \A p \in Peers, s \in Streams : view[p][s].cause # "PROTOCOL_ERROR"
BY LinkFacts DEF Link, Stage

LEMMA LinkAccusesNobody == LinkInv /\ WithinLimit => NoProtocolError
BY LinkFacts, LinkAccusesNoStream DEF Leaving, NoProtocolError

LEMMA LinkIsGraceful == LinkInv /\ WithinLimit => Graceful
BY LinkFacts DEF Leaving, Graceful

-----------------------------------------------------------------------------
(* When nothing of a stream is queued or on the way both peers have the    *)
(* same idea of it, whatever ends, resets, refusals and goaways crossed:   *)
(* Stream.localEnd, Stream.remoteEnd, Stream.fail and Peer.onStreamFrame   *)
(* never leave a stream live on one side only.                             *)
THEOREM PeersAgree == Spec => []Agreement
BY LinkSafe, LinkAgrees, PTL

(* A stream that closes normally has delivered every payload the other     *)
(* side sent on it: closeNormally needs the `end` of that side, which      *)
(* comes behind its payloads and is discarded with them by                 *)
(* Peer.enqueueReset.                                                      *)
THEOREM NothingIsLost == Spec => []DeliveredAll
BY LinkSafe, LinkDelivers, PTL

(* A stream never fails with PROTOCOL_ERROR, under any limit: no `data`    *)
(* reaches Peer.onData after the end of its side.                          *)
THEOREM NoStreamIsAccused ==
  Spec => [](\A p \in Peers, s \in Streams : view[p][s].cause # "PROTOCOL_ERROR")
BY LinkSafe, LinkAccusesNoStream, PTL

(* Two peers that follow the protocol never see a protocol error, as long  *)
(* as no `open` that is cut into fragments is refused for the limit:       *)
(* Peer.admitRemoteOpen and Peer.onStreamFrame tell what is late from what *)
(* is illegal.  Without the hypothesis the run ConnectionRefusedOpen       *)
(* violates it.                                                            *)
THEOREM NobodyIsAccused == ASSUME WithinLimit PROVE Spec => []NoProtocolError
BY LinkSafe, LinkAccusesNobody, PTL

(* close() loses nothing that was begun: with a socket that does not fail  *)
(* and a drain that ends, Peer.die cuts no stream the application opened   *)
(* or was given.                                                           *)
THEOREM CloseIsGraceful == ASSUME WithinLimit PROVE Spec => []Graceful
BY LinkSafe, LinkIsGraceful, PTL
=============================================================================
