----------------------------- MODULE Connection -----------------------------
(* Two muxws peers on one established socket: ts/peer.ts and the stream    *)
(* states of ts/stream.ts, from `open()` to the close of the socket.       *)
(*                                                                         *)
(* Each peer runs a read loop, a write loop and its handlers.              *)
(* What a peer enqueues waits on the lane of its stream (module Lane, the  *)
(* promise of the writer that SendPath states and Writer implements); the  *)
(* write loop takes the fragments of the lanes in any fair order and the   *)
(* socket delivers them in the order they were written.                    *)
(*                                                                         *)
(* Payloads, headers and trailers are abstracted to whether a frame has a  *)
(* payload and whether it ends its side.  Only `open` frames are cut into  *)
(* fragments: a fragmented `data` differs from a whole one only in the     *)
(* buffer it waits in.  Both peers follow the protocol.                    *)
(***************************************************************************)
EXTENDS Lane, FiniteSets
LOCAL INSTANCE FiniteSetsExt

CONSTANTS
    DialerOpens, AcceptorOpens, \* most streams each peer opens
    Limit,       \* maxConcurrentStreams
    Serving,     \* the peers with an onStream handler
    MaxFrags,    \* most fragments an `open` is cut into
    MaxData,     \* most payloads one side sends on one stream after the open
    Setups,      \* what the applications and the socket do, see Setup
    None         \* no goaway

Peers == {"dialer", "acceptor"}

(* A setup: the peers whose application opens streams, those whose         *)
(* application calls close(), a bound on the payloads sent after the opens *)
(* and whether the socket may die and a drain run into its deadline.       *)
Setup == [openers : SUBSET Peers, closers : SUBSET Peers, payloads : Nat, faulty : BOOLEAN]

Other(p) == IF p = "dialer" THEN "acceptor" ELSE "dialer"
CONNECTION_LANE == 0

(* Ids a peer opens: odd for the dialer, even for the acceptor.            *)
Ids(p) == IF p = "dialer" THEN {2 * i - 1 : i \in 1 .. DialerOpens}
                          ELSE {2 * i : i \in 1 .. AcceptorOpens}
FirstId(p) == IF p = "dialer" THEN 1 ELSE 2
Streams == Ids("dialer") \cup Ids("acceptor")
Lanes == Streams \cup {CONNECTION_LANE}

ResetCode == {"REFUSED", "CANCELLED", "APPLICATION_ERROR", "PROTOCOL_ERROR"}
Live == {"open", "half_closed_local", "half_closed_remote"}
Handler == {"none", "scheduled", "running", "returned", "raised", "cancelled"}

ASSUME ConnectionAssumption ==
    /\ DialerOpens \in Nat /\ AcceptorOpens \in Nat
    /\ Limit \in Nat \ {0} /\ MaxFrags \in Nat \ {0}
    /\ MaxData \in Nat
    /\ Serving \subseteq Peers /\ Setups \subseteq Setup
    /\ None \notin Nat

(* Frames; a field a type does not use holds a fixed value.                *)
OpenFrame(frags, end) ==
    [type |-> "open", frags |-> frags, payload |-> TRUE, end |-> end, code |-> "none", last |-> 0]
DataFrame(payload, end) ==
    [type |-> "data", frags |-> 1, payload |-> payload, end |-> end, code |-> "none", last |-> 0]
ResetFrame(code) ==
    [type |-> "reset", frags |-> 1, payload |-> FALSE, end |-> FALSE, code |-> code, last |-> 0]
GoawayFrame(last) ==
    [type |-> "goaway", frags |-> 1, payload |-> FALSE, end |-> FALSE, code |-> "none", last |-> last]

-----------------------------------------------------------------------------
VARIABLES
    phase,    \* "open"; in close() "draining", "flushing" and "closing"; in
              \* failConnection "failing" and "failed"; "dead"
    next,     \* Peer.nextId
    high,     \* Peer.highestRemoteOpen
    view,     \* view[p][s]: the Stream object of s at peer p
    promised, \* last_stream of the goaway the peer sent, or None
    allowed,  \* last_stream of the goaway the peer received, or None
    out,      \* out[p][l]: what waits on a lane of the send path
    chan,     \* chan[p]: fragments p has written and the other has not read
    setup     \* chosen once

vars == <<phase, next, high, view, promised, allowed, out, chan, setup>>

(* A Stream: its state, whether its opening payload is incomplete, how it  *)
(* ended, its handler and whether that ran, payloads sent and got.         *)
NoStream == [state |-> "idle", opening |-> FALSE, cause |-> "none", handler |-> "none",
             ran |-> FALSE, sent |-> 0, got |-> 0]

View == [state : Live \cup {"idle", "closed"}, opening : BOOLEAN,
         cause : ResetCode \cup {"none", "normal", "CONNECTION_CLOSED"},
         handler : Handler, ran : BOOLEAN, sent : 0 .. MaxData, got : 0 .. MaxData]

Frame == [type : {"open", "data", "reset", "goaway"}, frags : 1 .. MaxFrags, payload : BOOLEAN,
          end : BOOLEAN, code : ResetCode \cup {"none"}, last : Nat]

TypeOK ==
    /\ phase \in [Peers -> {"open", "draining", "flushing", "closing", "failing", "failed", "dead"}]
    /\ next \in [Peers -> Nat \ {0}]
    /\ high \in [Peers -> Streams \cup {0}]
    /\ view \in [Peers -> [Streams -> View]]
    /\ promised \in [Peers -> Nat \cup {None}] /\ allowed \in [Peers -> Nat \cup {None}]
    /\ out \in [Peers -> [Lanes -> Seq([frame : Frame, next : 1 .. MaxFrags])]]
    /\ chan \in [Peers -> Seq([lane : Lanes, frame : Frame, idx : 1 .. MaxFrags])]
    /\ setup \in Setups

Init ==
    /\ phase = [p \in Peers |-> "open"]
    /\ next = [p \in Peers |-> FirstId(p)]
    /\ high = [p \in Peers |-> 0]
    /\ view = [p \in Peers |-> [s \in Streams |-> NoStream]]
    /\ promised = [p \in Peers |-> None] /\ allowed = [p \in Peers |-> None]
    /\ out = [p \in Peers |-> [l \in Lanes |-> << >>]]
    /\ chan = [p \in Peers |-> << >>]
    /\ setup \in Setups

-----------------------------------------------------------------------------
(* What happens to a Stream.                                               *)

(* Stream.fail aborts the controller of the handler: one not yet begun     *)
(* never will be, one that runs goes on and finds a closed stream.         *)
Failed(v, code) ==
    IF v.state = "closed" THEN v
    ELSE [v EXCEPT !.state = "closed", !.cause = code,
                   !.handler = IF @ = "scheduled" THEN "cancelled" ELSE @]

(* Fault: a stream this peer ends is closed at once.                       *)
LocallyEndedCloses(v) == [v EXCEPT !.state = "closed", !.cause = "normal"]

(* Stream.localEnd and Stream.remoteEnd, through closeNormally.            *)
LocallyEnded(v) ==
    IF v.state = "half_closed_remote" THEN [v EXCEPT !.state = "closed", !.cause = "normal"]
    ELSE [v EXCEPT !.state = "half_closed_local"]

RemotelyEnded(v) ==
    IF v.state = "half_closed_local" THEN [v EXCEPT !.state = "closed", !.cause = "normal"]
    ELSE [v EXCEPT !.state = "half_closed_remote"]

isLive(p, s) == view[p][s].state \in Live
SetView(p, s, v) == view' = [view EXCEPT ![p][s] = v]

(* Peer.enqueue, and Peer.enqueueReset which discards the lane first.      *)
Enqueue(p, lane, frame) == out' = [out EXCEPT ![p][lane] = Put(@, frame)]
EnqueueReset(p, s, code) == out' = [out EXCEPT ![p][s] = Put(Keep(@), ResetFrame(code))]

(* The application holds the Stream object: it opened it, or its handler   *)
(* was given it.                                                           *)
Holds(p, s) == s \in Ids(p) \/ view[p][s].handler \in {"running", "returned"}

-----------------------------------------------------------------------------
(* The application.                                                        *)

(* The bound on payloads is not yet reached.                               *)
MayPay ==
    FoldSet(LAMBDA x, n : n + view[x[1]][x[2]].sent, 0, Peers \X Streams)
        < setup.payloads

(* Peer.throwIfUnopenable and Peer.allocateAndEnqueue.                     *)
Open(p) ==
    /\ phase[p] # "dead" /\ allowed[p] = None /\ promised[p] = None
    /\ next[p] \in Ids(p) /\ p \in setup.openers
    /\ \E frags \in 1 .. MaxFrags, end \in BOOLEAN :
          /\ Enqueue(p, next[p], OpenFrame(frags, end))
          /\ SetView(p, next[p], [NoStream EXCEPT !.state = IF end THEN "half_closed_local" ELSE "open"])
    /\ next' = [next EXCEPT ![p] = @ + 2]
    /\ UNCHANGED <<phase, high, promised, allowed, chan, setup>>

(* Stream.send and Stream.end.                                             *)
Send(p, s) ==
    /\ phase[p] # "dead" /\ Holds(p, s)
    /\ view[p][s].state \in {"open", "half_closed_remote"}
    /\ \E payload, end \in BOOLEAN :
          /\ payload \/ end
          /\ payload => view[p][s].sent < MaxData /\ MayPay
          /\ Enqueue(p, s, DataFrame(payload, end))
          /\ LET v == IF payload THEN [view[p][s] EXCEPT !.sent = @ + 1] ELSE view[p][s]
             IN SetView(p, s, IF end THEN LocallyEnded(v) ELSE v)
    /\ UNCHANGED <<phase, next, high, promised, allowed, chan, setup>>

(* Stream.reset by the application: cancel(), a deadline, a cancelled      *)
(* await.                                                                  *)
Reset(p, s) ==
    /\ phase[p] # "dead" /\ Holds(p, s) /\ isLive(p, s)
    /\ EnqueueReset(p, s, "CANCELLED")
    /\ SetView(p, s, Failed(view[p][s], "CANCELLED"))
    /\ UNCHANGED <<phase, next, high, promised, allowed, chan, setup>>

(* Peer.runHandler: its first step in a microtask, its return and its      *)
(* failure.                                                                *)
HandlerStarts(p, s) ==
    /\ view[p][s].handler = "scheduled"
    /\ SetView(p, s, [view[p][s] EXCEPT !.handler = "running", !.ran = TRUE])
    /\ UNCHANGED <<phase, next, high, promised, allowed, out, chan, setup>>

(* Fault: the implicit end is not sent.                                    *)
HandlerReturnsSilently(p, s) ==
    /\ view[p][s].handler = "running"
    /\ LET v == [view[p][s] EXCEPT !.handler = "returned"]
       IN SetView(p, s, IF v.state \in {"open", "half_closed_remote"} THEN LocallyEnded(v) ELSE v)
    /\ UNCHANGED <<phase, next, high, promised, allowed, out, chan, setup>>

HandlerReturns(p, s) ==
    /\ view[p][s].handler = "running"
    /\ LET v == [view[p][s] EXCEPT !.handler = "returned"]
       IN IF v.state \in {"open", "half_closed_remote"}
          THEN Enqueue(p, s, DataFrame(FALSE, TRUE)) /\ SetView(p, s, LocallyEnded(v))
          ELSE SetView(p, s, v) /\ UNCHANGED out
    /\ UNCHANGED <<phase, next, high, promised, allowed, chan, setup>>

(* Fault: a failed handler is reported as REFUSED.                         *)
HandlerRaisesRefused(p, s) ==
    /\ view[p][s].handler = "running"
    /\ IF isLive(p, s) THEN Enqueue(p, s, ResetFrame("REFUSED")) ELSE UNCHANGED out
    /\ SetView(p, s, Failed([view[p][s] EXCEPT !.handler = "raised"], "REFUSED"))
    /\ UNCHANGED <<phase, next, high, promised, allowed, chan, setup>>

HandlerRaises(p, s) ==
    /\ view[p][s].handler = "running"
    /\ IF isLive(p, s) THEN Enqueue(p, s, ResetFrame("APPLICATION_ERROR")) ELSE UNCHANGED out
    /\ SetView(p, s, Failed([view[p][s] EXCEPT !.handler = "raised"], "APPLICATION_ERROR"))
    /\ UNCHANGED <<phase, next, high, promised, allowed, chan, setup>>

-----------------------------------------------------------------------------
(* The read loop.                                                          *)

Reading(p) == phase[p] \in {"open", "draining", "flushing", "closing"}
Incoming(p) == Head(chan[Other(p)])

Reads(p, type) ==
    /\ Reading(p) /\ chan[Other(p)] # << >>
    /\ Incoming(p).frame.type = type
    /\ chan' = [chan EXCEPT ![Other(p)] = Tail(@)]

(* Peer.failConnection, up to its first await.                             *)
FailConnection(p) ==
    /\ phase' = [phase EXCEPT ![p] = "failing"]
    /\ promised' = [promised EXCEPT ![p] = high[p]]
    /\ Enqueue(p, CONNECTION_LANE, GoawayFrame(high[p]))

(* Peer.startHandler on the completely opened stream `v`.                  *)
StartHandler(p, s, v) ==
    IF promised[p] # None \/ p \notin Serving
    THEN Enqueue(p, s, ResetFrame("REFUSED")) /\ SetView(p, s, Failed(v, "REFUSED"))
    ELSE SetView(p, s, [v EXCEPT !.handler = "scheduled"]) /\ UNCHANGED out

RemoteStreamCount(p) == Cardinality({s \in Streams \ Ids(p) : isLive(p, s)})

(* A later fragment of an `open` that is being reassembled.                *)
Continues(p) ==
    LET s == Incoming(p).lane
    IN isLive(p, s) /\ view[p][s].opening /\ Incoming(p).frame.frags > 1

(* Peer.admitRemoteOpen finds the id is not a new one.                     *)
OpenNotNew(p) ==
    /\ Reads(p, "open") /\ ~Continues(p)
    /\ Incoming(p).lane <= high[p]
    /\ FailConnection(p)
    /\ UNCHANGED <<next, high, view, allowed, setup>>

(* Peer.onOpenFrame refuses the stream: the concurrency limit is reached.  *)
OpenOverLimit(p) ==
    LET s == Incoming(p).lane
    IN /\ Reads(p, "open") /\ ~Continues(p)
       /\ s > high[p] /\ RemoteStreamCount(p) >= Limit
       /\ high' = [high EXCEPT ![p] = s]
       /\ Enqueue(p, s, ResetFrame("REFUSED"))
       /\ UNCHANGED <<phase, next, view, promised, allowed, setup>>

(* Peer.onOpenFrame takes the stream.                                      *)
OpenTaken(p) ==
    LET s == Incoming(p).lane
        whole == Incoming(p).frame.frags = 1
        v == [NoStream EXCEPT !.state = IF whole /\ Incoming(p).frame.end
                                        THEN "half_closed_remote" ELSE "open",
                              !.opening = ~whole]
    IN /\ Reads(p, "open") /\ ~Continues(p)
       /\ s > high[p] /\ RemoteStreamCount(p) < Limit
       /\ high' = [high EXCEPT ![p] = s]
       /\ IF whole THEN StartHandler(p, s, v) ELSE SetView(p, s, v) /\ UNCHANGED out
       /\ UNCHANGED <<phase, next, promised, allowed, setup>>

(* Peer.continueOpen.                                                      *)
OpenContinued(p) ==
    LET s == Incoming(p).lane
        complete == Incoming(p).idx = Incoming(p).frame.frags
        v == [view[p][s] EXCEPT !.opening = FALSE,
                                !.state = IF Incoming(p).frame.end THEN "half_closed_remote" ELSE @]
    IN /\ Reads(p, "open") /\ Continues(p)
       /\ IF complete THEN StartHandler(p, s, v) ELSE UNCHANGED <<view, out>>
       /\ UNCHANGED <<phase, next, high, promised, allowed, setup>>

(* Fault: one mark for both parities.                                      *)
HighWaterOfRemote(p, s) == high[p]

(* The mark of Peer.onStreamFrame: the highest id opened so far by the     *)
(* peer whose parity the stream has.                                       *)
HighWater(p, s) == IF s \in Ids(p) THEN next[p] - 2 ELSE high[p]

(* Peer.onStreamFrame on an id that is not live.                           *)
StreamFrameNotLive(p) ==
    LET s == Incoming(p).lane
    IN /\ Reads(p, "data") \/ Reads(p, "reset")
       /\ ~isLive(p, s)
       /\ IF s > HighWater(p, s) THEN FailConnection(p) ELSE UNCHANGED <<phase, promised, out>>
       /\ UNCHANGED <<next, high, view, allowed, setup>>

ResetArrives(p) ==
    LET s == Incoming(p).lane
    IN /\ Reads(p, "reset") /\ isLive(p, s)
       /\ out' = [out EXCEPT ![p][s] = Keep(@)]
       /\ SetView(p, s, Failed(view[p][s], Incoming(p).frame.code))
       /\ UNCHANGED <<phase, next, high, promised, allowed, setup>>

(* Peer.onData.                                                            *)
DataArrives(p) ==
    LET s == Incoming(p).lane
        f == Incoming(p).frame
        v == IF f.payload THEN [view[p][s] EXCEPT !.got = @ + 1] ELSE view[p][s]
    IN /\ Reads(p, "data") /\ isLive(p, s)
       /\ IF v.state = "half_closed_remote"
          THEN EnqueueReset(p, s, "PROTOCOL_ERROR") /\ SetView(p, s, Failed(view[p][s], "PROTOCOL_ERROR"))
          ELSE SetView(p, s, IF f.end THEN RemotelyEnded(v) ELSE v) /\ UNCHANGED out
       /\ UNCHANGED <<phase, next, high, promised, allowed, setup>>

(* Peer.onGoaway fails every local stream above last_stream.               *)
GoawayArrives(p) ==
    /\ Reads(p, "goaway")
    /\ allowed' = [allowed EXCEPT ![p] = Incoming(p).frame.last]
    /\ view' = [view EXCEPT ![p] = [s \in Streams |->
                   IF s \in Ids(p) /\ isLive(p, s) /\ s > Incoming(p).frame.last
                   THEN Failed(@[s], "REFUSED") ELSE @[s]]]
    /\ UNCHANGED <<phase, next, high, promised, out, setup>>

-----------------------------------------------------------------------------
(* The write loop: the next fragment of a lane goes to the socket.         *)
Write(p, l) ==
    /\ phase[p] # "dead" /\ phase[Other(p)] # "dead"
    /\ out[p][l] # << >>
    /\ HoldsUnsentOpen(out[p][l]) => \A m \in Ids(p) : m < l => ~HoldsUnsentOpen(out[p][m])
    /\ LET fragment == First(out[p][l])
       IN chan' = [chan EXCEPT ![p] = Append(@, [lane |-> l, frame |-> fragment.frame, idx |-> fragment.idx])]
    /\ out' = [out EXCEPT ![p][l] = Rest(@)]
    /\ UNCHANGED <<phase, next, high, view, promised, allowed, setup>>

-----------------------------------------------------------------------------
(* The end of the connection.                                              *)

(* Peer.close up to its drain, and Peer.sendGoaway.                        *)
Close(p) ==
    /\ p \in setup.closers /\ phase[p] = "open"
    /\ phase' = [phase EXCEPT ![p] = "draining"]
    /\ promised' = [promised EXCEPT ![p] = high[p]]
    /\ Enqueue(p, CONNECTION_LANE, GoawayFrame(high[p]))
    /\ UNCHANGED <<next, high, view, allowed, chan, setup>>

(* Peer.drain: no stream is live; what is queued still has to be sent.     *)
StreamsDrained(p) ==
    /\ phase[p] = "draining"
    /\ \A s \in Streams : ~isLive(p, s)
    /\ phase' = [phase EXCEPT ![p] = "flushing"]
    /\ UNCHANGED <<next, high, view, promised, allowed, out, chan, setup>>

(* Fault: only the goaway has to be sent.                                  *)
GoawaySent(p) == out[p][CONNECTION_LANE] = << >>

AllSent(p) == \A l \in Lanes : out[p][l] = << >>

(* Peer.die with the close of the socket: every live stream fails, and     *)
(* nothing more is read from the other peer.                               *)
Die(p) ==
    /\ phase' = [phase EXCEPT ![p] = "dead"]
    /\ view' = [view EXCEPT ![p] = [s \in Streams |->
                   IF isLive(p, s) THEN Failed(@[s], "CONNECTION_CLOSED") ELSE @[s]]]
    /\ out' = [out EXCEPT ![p] = [l \in Lanes |-> << >>]]
    /\ chan' = [chan EXCEPT ![Other(p)] = << >>]
    /\ UNCHANGED <<next, high, promised, allowed, setup>>

(* Peer.drainOutbound returns: everything is sent, or the deadline         *)
(* passed, in either wait of the drain.                                    *)
Flushed(p) ==
    /\ \/ phase[p] \in {"flushing", "failing"} /\ (AllSent(p) \/ setup.faulty)
       \/ phase[p] = "draining" /\ setup.faulty
    /\ phase' = [phase EXCEPT ![p] = IF @ = "failing" THEN "failed" ELSE "closing"]
    /\ UNCHANGED <<next, high, view, promised, allowed, out, chan, setup>>

(* socket.close returns.                                                   *)
SocketClosed(p) == phase[p] \in {"closing", "failed"} /\ Die(p)

(* The other peer closed and all it wrote has been read, or the socket is  *)
(* lost with what was on the way.                                          *)
SocketLost(p) ==
    /\ phase[p] # "dead"
    /\ \/ phase[Other(p)] = "dead" /\ (chan[Other(p)] = << >> \/ ~Reading(p))
       \/ setup.faulty
    /\ Die(p)

ReadLoop(p) ==
    \/ OpenNotNew(p) \/ OpenOverLimit(p) \/ OpenTaken(p) \/ OpenContinued(p)
    \/ StreamFrameNotLive(p) \/ ResetArrives(p) \/ DataArrives(p) \/ GoawayArrives(p)

HandlerEnds(p, s) == HandlerReturns(p, s) \/ HandlerRaises(p, s)

Next == \E p \in Peers :
    \/ Open(p) \/ Close(p) \/ ReadLoop(p)
    \/ StreamsDrained(p) \/ Flushed(p) \/ SocketClosed(p) \/ SocketLost(p)
    \/ \E s \in Streams : Send(p, s) \/ Reset(p, s) \/ HandlerStarts(p, s) \/ HandlerEnds(p, s)
    \/ \E l \in Lanes : Write(p, l)

Spec == Init /\ [][Next]_vars

(* The event loop runs what can run; the writer serves each lane           *)
(* in turn (RoundRobin of Writer); a handler returns or raises; a drain    *)
(* ends.  Nothing else is promised: no application has to send or close.   *)
Fairness == \A p \in Peers :
    /\ WF_vars(ReadLoop(p)) /\ WF_vars(StreamsDrained(p)) /\ WF_vars(Flushed(p))
    /\ WF_vars(SocketClosed(p)) /\ WF_vars(SocketLost(p))
    /\ \A s \in Streams : WF_vars(HandlerStarts(p, s)) /\ WF_vars(HandlerEnds(p, s))
    /\ \A l \in Lanes : WF_vars(Write(p, l))

FairSpec == Spec /\ Fairness

-----------------------------------------------------------------------------
(* Two peers that follow the protocol never see a protocol error: neither  *)
(* peer's late frames, refusals or resets look illegal to the other, for   *)
(* the connection or for a stream (WSM-STM-002, WSM-STM-020, WSM-STM-024). *)
NoProtocolError ==
    \A p \in Peers :
        /\ phase[p] \notin {"failing", "failed"}
        /\ \A s \in Streams : view[p][s].cause # "PROTOCOL_ERROR"

(* A stream whose opener is told REFUSED, by a reset or by a goaway, never *)
(* reached the other peer's handler: it is safe to retry (WSM-STM-036,     *)
(* WSM-CON-023, WSM-INV-008).                                              *)
RefusedNeverRan ==
    \A p \in Peers : \A s \in Ids(p) :
        view[p][s].cause = "REFUSED" => ~view[Other(p)][s].ran

(* When nothing of a stream is queued or on the way, both peers have the   *)
(* same idea of it: what one has ended the other has seen the end of, and  *)
(* a stream closed for one is not live for the other (WSM-STM-012).        *)
Quiet(s) ==
    \A p \in Peers :
        /\ phase[p] \in {"open", "draining", "flushing"}
        /\ out[p][s] = << >> /\ out[p][CONNECTION_LANE] = << >>
        /\ \A i \in DOMAIN chan[p] : chan[p][i].lane \notin {s, CONNECTION_LANE}

Mirror(state) ==
    CASE state = "half_closed_local" -> {"half_closed_remote"}
      [] state = "half_closed_remote" -> {"half_closed_local"}
      [] state = "open" -> {"open"}
      [] OTHER -> {"idle", "closed"}

Agreement ==
    \A s \in Streams : Quiet(s) =>
        view["dialer"][s].state \in Mirror(view["acceptor"][s].state)

(* A stream that closes normally has delivered every payload the other     *)
(* side sent on it, whatever resets and refusals crossed it.               *)
DeliveredAll ==
    \A p \in Peers, s \in Streams :
        view[p][s].cause = "normal" => view[p][s].got = view[Other(p)][s].sent

(* close() loses nothing that was begun: without a lost socket or a passed *)
(* deadline every stream the application has opened or was given ends with *)
(* an answer, a reset or, if the closing peer never processed it, REFUSED; *)
(* none is cut by the close of the socket (WSM-CON-023, WSM-CON-024).      *)
Graceful ==
    ~setup.faulty =>
        \A p \in Peers, s \in Streams :
            view[p][s].cause = "CONNECTION_CLOSED" => s \notin Ids(p) /\ view[p][s].handler = "none"

(* A caller that has sent its request gets an answer or an error and never *)
(* waits for ever, through refusals, goaways, resets and the loss of the   *)
(* socket (WSM-INV-011).                                                   *)
Answered ==
    \A p \in Peers : \A s \in Ids(p) :
        view[p][s].state = "half_closed_local" ~> view[p][s].state = "closed"
=============================================================================
