------------------------------ MODULE Inbound -------------------------------
(***************************************************************************)
(* From the socket to the consumer of one stream: the remote sends frames  *)
(* of the stream, an adapter (Adapter.tla) delivers them to the read loop  *)
(* (ts/peer.ts), the read loop to the stream, and the stream to whoever    *)
(* consumes it (Consumer.tla).  The socket is closed by either side or     *)
(* lost anywhere on the way.                                               *)
(***************************************************************************)
EXTENDS Adapter, Consumer

CONSTANT MaxWire        \* bound: messages on the wire and in the inbox

ASSUME MaxWireAssumption == MaxWire \in Nat

VARIABLES
    sent,       \* payloads the remote has sent
    remoteOver, \* the remote has ended or reset the stream
    cut         \* the socket was lost, or this peer closed it

line == <<sent, remoteOver, cut>>
inboundVars == <<vars, adapter, line>>

Data(n, end) == [type |-> "data", n |-> n, end |-> end]     \* 0: no payload
ResetMessage == [type |-> "reset"]

InboundInit ==
    /\ Init /\ AdapterInit
    /\ sent = 0 /\ remoteOver = FALSE /\ cut = FALSE

----------------------------------------------------------------------------
RemoteSendsData ==
    /\ ~remoteOver /\ Len(wire) + Len(inbox) < MaxWire
    /\ \E payload, end \in BOOLEAN :
          /\ payload => sent < MaxPayloads
          /\ sent' = IF payload THEN sent + 1 ELSE sent
          /\ remoteOver' = end
          /\ RemoteSends(Data(IF payload THEN sent' ELSE 0, end))
    /\ UNCHANGED <<vars, cut>>

RemoteSendsReset ==
    /\ ~remoteOver /\ Len(wire) + Len(inbox) < MaxWire
    /\ RemoteSends(ResetMessage)
    /\ remoteOver' = TRUE
    /\ UNCHANGED <<vars, sent, cut>>

RemoteClosesSocket == RemoteCloses /\ UNCHANGED <<vars, line>>

MessageEvent == Message /\ UNCHANGED <<vars, line>>

SocketCloseEvent == CloseEvent /\ UNCHANGED <<vars, line>>

SocketIsLost ==
    /\ Lost
    /\ cut' = TRUE
    /\ UNCHANGED <<vars, sent, remoteOver>>

\* close(), or a heartbeat or a send that failed: die() and then the close of
\* the socket, in one turn.  The read loop goes on until it is told.
PeerCloses ==
    /\ SocketLost
    /\ LocalClose
    /\ cut' = TRUE
    /\ UNCHANGED <<sent, remoteOver>>

----------------------------------------------------------------------------
(* The read loop: a message is dispatched, and receive() is called again.  *)

\* A frame of a stream that is closed is a late frame, ignored.
ReadsLate ==
    /\ hand \notin {Waiting, Closed, Left}
    /\ state = "closed"
    /\ Receive
    /\ UNCHANGED <<vars, platform, failure, line>>

ReadsData ==
    /\ hand.type = "data"
    /\ OnData(hand.n # 0, hand.end)
    /\ Receive
    /\ UNCHANGED <<platform, failure, line>>

ReadsReset ==
    /\ hand.type = "reset"
    /\ RemoteResets
    /\ Receive
    /\ UNCHANGED <<platform, failure, line>>

\* Fault: die() of a peer that is dead fails the stream again.
ReadsCloseAgain ==
    /\ hand = Closed
    /\ Fail("CONNECTION_CLOSED") /\ hasASocket' = FALSE
    /\ UNCHANGED <<shape, arrived, remoteEnded, resets, claims, consumer>>
    /\ hand' = Left
    /\ UNCHANGED <<platform, inbox, failure, line>>

\* receive() rejects: die(), a no-op on a peer that is dead, and the end.
ReadsClose ==
    /\ hand = Closed
    /\ IF hasASocket THEN SocketLost ELSE UNCHANGED vars
    /\ hand' = Left
    /\ UNCHANGED <<platform, inbox, failure, line>>

ReadLoop == ReadsLate \/ ReadsData \/ ReadsReset \/ ReadsClose

----------------------------------------------------------------------------
\* A timer fires when no reaction is due, that of the read loop included.
Timer == Deadline /\ hand \in {Waiting, Left} /\ UNCHANGED <<adapter, line>>

Application ==
    /\ \/ LocalEnd \/ Cancel \/ Await \/ AwaitAgain \/ AwaitAborted \/ Abort \/ Iterate \/ Body
    /\ UNCHANGED <<adapter, line>>

Consumes == Reaction /\ UNCHANGED <<adapter, line>>

InboundNext ==
    \/ RemoteSendsData \/ RemoteSendsReset \/ RemoteClosesSocket
    \/ MessageEvent \/ SocketCloseEvent \/ SocketIsLost \/ PeerCloses
    \/ ReadLoop
    \/ Timer \/ Application \/ Consumes

\* Promise reactions run; nothing is assumed of the network or of the remote.
Fairness == WF_inboundVars(ReadLoop) /\ WF_inboundVars(Consumes)

InboundSpec == InboundInit /\ [][InboundNext]_inboundVars /\ Fairness

----------------------------------------------------------------------------
(* Properties.                                                             *)

\* What a live stream has still to be given, in the order it will be.
Ahead == (IF hand = Waiting THEN <<>> ELSE <<hand>>) \o inbox \o wire

HasPayload(message) == message.type = "data" /\ message.n # 0
Numbers == {Ahead[i].n : i \in {j \in 1 .. Len(Ahead) : HasPayload(Ahead[j])}}

(* Between the remote and a live stream no payload is lost, repeated or    *)
(* overtaken, on any of the three adapters, whatever waits where; only a   *)
(* loss of the socket drops a tail.  A stream that fails because the       *)
(* remote closed the socket was given all that the remote sent before:     *)
(* receive() tells of the close after the last message of the inbox.       *)
(* (receive(), onMessage(), deliver(), put(), readLoop())                  *)
NothingSkipped ==
    /\ state # "closed" =>
          /\ \A i, j \in 1 .. Len(Ahead) :
                i < j /\ HasPayload(Ahead[i]) /\ HasPayload(Ahead[j]) => Ahead[i].n < Ahead[j].n
          /\ Numbers \subseteq arrived + 1 .. sent
          /\ \A n \in Numbers : arrived + 1 .. n \subseteq Numbers
          /\ ~cut => Numbers = arrived + 1 .. sent
    /\ closeCause = "CONNECTION_CLOSED" /\ ~cut => arrived = sent

(* A socket that has closed leaves nobody waiting: the pending receive()   *)
(* rejects, the read loop marks the peer dead, the stream fails, and the   *)
(* consumer that waits on it, in any shape, is told (WSM-INV-011).         *)
LossReachesTheConsumer == failure ~> (pc # "waiting")

(* What the read loop does to a stream is what Consumer.tla lets a remote  *)
(* do: no message reaches a stream that has been told of its end.          *)
ImplementsConsumer == Spec

(* From the remote's send to the application: no payload is lost, repeated *)
(* or overtaken in the adapter, the stream or its iterator.                *)
DeliveredInOrder == EveryPayloadInOrder /\ NothingSkipped

(* The end of a stream is told once to everyone it concerns: to whoever    *)
(* waits, by the answer or the iterator, or else to the hook.              *)
EverybodyIsTold == NobodyWaits /\ FailureIsTold
=============================================================================
