------------------------------ MODULE Adapter -------------------------------
(***************************************************************************)
(* A socket adapter (ts/transports): the events of a platform's socket on  *)
(* one side, receive() and close() of the peer on the other.  `kind` is    *)
(* BrowserSocket, WsSocket or one end of a memoryPair().                   *)
(*                                                                         *)
(* The peer has one read loop per socket, so at most one receive() is      *)
(* pending.  The promise it was given is `hand`: Waiting while it is not   *)
(* settled, then a message or Closed until the read loop takes it.         *)
(***************************************************************************)
EXTENDS Naturals, Sequences

VARIABLES
    kind,       \* chosen once
    ready,      \* the platform's socket: "open", "closing" or "closed"
    wire,       \* what the platform has yet to deliver, in order
    inbox,      \* messages that came while no receive() was pending
    failure,    \* the adapter has been told of the close
    hand

platform == <<kind, ready, wire>>
adapter == <<kind, ready, wire, inbox, failure, hand>>

Kinds == {"browser", "ws", "memory"}
Waiting == [type |-> "waiting"]
Closed == [type |-> "closed"]       \* receive() rejects with ConnectionClosed
Left == [type |-> "left"]           \* the read loop has returned
CloseFrame == [type |-> "close frame"]

\* The socket is open, and serve() has called receive().
AdapterInit ==
    /\ kind \in Kinds /\ ready = "open"
    /\ wire = <<>> /\ inbox = <<>>
    /\ failure = FALSE /\ hand = Waiting

\* A message, or the END of a MemorySocket, goes to the pending receive().
Put(item) ==
    IF hand = Waiting
    THEN hand' = item /\ UNCHANGED inbox
    ELSE inbox' = Append(inbox, item) /\ UNCHANGED hand

\* Fault: a socket that has closed answers before the messages it left.
ReceiveFailsFirst ==
    IF failure THEN hand' = Closed /\ UNCHANGED inbox
    ELSE IF inbox # <<>> THEN hand' = Head(inbox) /\ inbox' = Tail(inbox)
    ELSE hand' = Waiting /\ UNCHANGED inbox

\* receive(), called by the read loop as soon as it has handled a message.
Receive ==
    IF inbox # <<>>
    THEN hand' = Head(inbox) /\ inbox' = Tail(inbox)
    ELSE hand' = (IF failure THEN Closed ELSE Waiting) /\ UNCHANGED inbox

\* Fault: the close is recorded for the next receive(), the pending one stays.
ToldOfCloseLater == failure' = TRUE /\ UNCHANGED <<inbox, hand>>

\* settleClosed() or die(): the pending receive() rejects, the inbox remains.
ToldOfClose ==
    /\ failure' = TRUE
    /\ hand' = IF hand = Waiting THEN Closed ELSE hand
    /\ UNCHANGED inbox

----------------------------------------------------------------------------
(* The remote and the network.                                             *)

\* A memory pair has no wire: the sender puts into the other end's inbox.
RemoteSends(message) ==
    /\ ready # "closed"
    /\ \A i \in 1 .. Len(wire) : wire[i] # CloseFrame
    /\ IF kind = "memory"
       THEN Put(message) /\ UNCHANGED <<platform, failure>>
       ELSE /\ wire' = Append(wire, message)
            /\ UNCHANGED <<kind, ready, inbox, failure, hand>>

\* The other end of a memory pair closes this one too; END stays behind what
\* it sent before.
RemoteCloses ==
    /\ ready # "closed"
    /\ \A i \in 1 .. Len(wire) : wire[i] # CloseFrame
    /\ IF kind = "memory"
       THEN /\ failure' = TRUE /\ ready' = "closed" /\ Put(Closed)
            /\ UNCHANGED <<kind, wire>>
       ELSE /\ wire' = Append(wire, CloseFrame)
            /\ UNCHANGED <<kind, ready, inbox, failure, hand>>

\* A message event.  A browser fires none once close() was called; `ws` emits
\* what it still reads until the close frame of the remote.
Message ==
    /\ wire # <<>> /\ Head(wire) # CloseFrame
    /\ wire' = Tail(wire)
    /\ IF kind = "browser" /\ ready = "closing"
       THEN UNCHANGED <<inbox, hand>>
       ELSE Put(Head(wire))
    /\ UNCHANGED <<kind, ready, failure>>

\* The close event, after a closing handshake.
CloseEvent ==
    /\ wire # <<>> /\ Head(wire) = CloseFrame
    /\ wire' = <<>> /\ ready' = "closed"
    /\ ToldOfClose
    /\ UNCHANGED kind

\* The socket is lost with whatever was on the wire: an error event of `ws`,
\* and a close event with 1006.
Lost ==
    /\ kind # "memory" /\ ready # "closed"
    /\ wire' = <<>> /\ ready' = "closed"
    /\ ToldOfClose
    /\ UNCHANGED kind

----------------------------------------------------------------------------
\* close(), by the peer.  Of BrowserSocket and WsSocket the close event comes later.
LocalClose ==
    CASE ready = "closed" -> UNCHANGED adapter
      [] ready # "closed" /\ kind = "memory" ->
            /\ failure' = TRUE /\ ready' = "closed" /\ Put(Closed)
            /\ UNCHANGED <<kind, wire>>
      [] OTHER ->
            /\ ready' = "closing"
            /\ UNCHANGED <<kind, wire, inbox, failure, hand>>
=============================================================================
