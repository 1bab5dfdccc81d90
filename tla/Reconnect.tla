----------------------------- MODULE Reconnect -----------------------------
(* The dialer's reconnect helper: `ConnectionLoop` and `Heartbeat` of      *)
(* ts/reconnect.ts, with the parts of ts/peer.ts they drive: `serve`,      *)
(* `die`, `adoptSocket`, `notifyClose` and `close`.  A peer without the    *)
(* helper, an acceptor's, has the same close().                            *)
(*                                                                         *)
(* The supervisor (`loop`), the read loop of the current socket (`serve`), *)
(* the heartbeats and one call of close() share the peer.  Each action is  *)
(* what one of them does up to an await that an event has to settle.  What *)
(* an await continues with in the same turn of the event loop is part of   *)
(* the action: a WebSocket reports each message and its close in turns of  *)
(* their own.                                                              *)
(*                                                                         *)
(* Streams are abstracted to whether an application stream is live; of the *)
(* frames only the `goaway` and the hello are seen; delays are not         *)
(* modelled.                                                               *)
(***************************************************************************)
EXTENDS Naturals, Sequences

CONSTANTS
    Setups,      \* the peers considered, see Setup
    Unlimited,   \* maxAttempts = null
    MaxLosses,   \* bound on the sockets lost, whoever finds it out
    MaxFailures  \* bound on the failed attempts in a row

(* Whether the peer has the helper, as a dialer has; Hello.configured; and *)
(* Reconnect.maxAttempts.                                                  *)
Setup == [helper : BOOLEAN, hello : BOOLEAN, cap : Nat \cup {Unlimited}]

ASSUME ReconnectAssumption ==
    /\ Setups \subseteq Setup /\ Unlimited \notin Nat
    /\ MaxLosses \in Nat /\ MaxFailures \in Nat

VARIABLES
    setup,      \* chosen once
    loop,       \* establish() and then supervise(); "absent" without helper
    stopped,    \* ConnectionLoop.stopped
    attempts,   \* AttemptCounter.value
    hearts,     \* the runs of Heartbeat.run that have not returned
    serve,      \* Peer.serve(): "reading", "failing" in failConnection,
                \* "stopping" in stopWriter, "done"
    socket,     \* number of the socket on the peer
    conn,       \* that socket: "open", "closing" once this side closed it
                \* (it still delivers messages), "closed"
    isOpen,     \* Peer.open_
    established,\* Peer.established
    willRetry,  \* Peer.willRetry
    final,      \* Peer.finalClose is set
    hello,      \* the hello stream of this socket
    goaway,     \* Peer.goaway.sent
    live,       \* an application stream is in Peer.liveStreams
    closing,    \* the call of Peer.close()
    reports,    \* history: the calls of the onClose handlers
    losses      \* history: sockets lost

loopVars == <<setup, loop, stopped, attempts>>
socketVars == <<serve, socket, conn>>
peerVars == <<isOpen, established, willRetry, final>>
streamVars == <<hello, goaway, live>>
vars == <<loopVars, hearts, socketVars, peerVars, streamVars, closing, reports, losses>>

Heart(n) == [socket |-> n, pinging |-> FALSE, stopped |-> FALSE]
Cause == {"lost", "no_pong", "hello", "protocol", "gave_up", "closed"}

TypeOK ==
    /\ setup \in Setups
    /\ loop \in {"establish", "raising", "raised", "serving", "backoff", "dialling", "hello",
                 "failing", "leaving", "ended", "absent"}
    /\ attempts \in Nat /\ (setup.cap # Unlimited => attempts <= setup.cap)
    /\ socket \in Nat \ {0} /\ losses \in Nat
    /\ hearts \subseteq [socket : Nat \ {0}, pinging : BOOLEAN, stopped : BOOLEAN]
    /\ serve \in {"reading", "failing", "stopping", "done"}
    /\ conn \in {"open", "closing", "closed"}
    /\ hello \in {"none", "sent", "acknowledged", "failed"}
    /\ closing \in {"none", "called", "draining", "closing", "done"}
    /\ {stopped, isOpen, established, willRetry, final, goaway, live} \subseteq BOOLEAN
    /\ reports \in Seq([retry : BOOLEAN, cause : Cause])

(* shouldRetry of ts/reconnect.ts.                                         *)
ShouldRetry(n) == setup.cap = Unlimited \/ n < setup.cap

(* connect() has dialled: ConnectionLoop.establish up to the await of the  *)
(* hello, or without one up to the supervisor's first await.  The          *)
(* application of an acceptor runs serve() itself.                         *)
Init ==
    /\ setup \in Setups
    /\ loop = IF ~setup.helper THEN "absent" ELSE IF setup.hello THEN "establish" ELSE "serving"
    /\ hearts = IF loop = "serving" THEN {Heart(1)} ELSE {}
    /\ hello = IF loop = "establish" THEN "sent" ELSE "none"
    /\ established = (loop # "establish")
    /\ willRetry = (loop = "serving" /\ ShouldRetry(0))
    /\ stopped = FALSE /\ attempts = 0
    /\ serve = "reading" /\ socket = 1 /\ conn = "open"
    /\ isOpen = TRUE /\ final = FALSE
    /\ goaway = FALSE /\ live = FALSE
    /\ closing = "none" /\ reports = << >> /\ losses = 0

-----------------------------------------------------------------------------
(* The peer.                                                               *)

(* Peer.isOpen.                                                            *)
IsOpen == isOpen /\ established

(* Peer.notifyClose.  The application's handlers are registered once the   *)
(* first connection is established.                                        *)
NotifyClose(retry, cause) ==
    IF final /\ ~retry THEN UNCHANGED <<reports, final>>
    ELSE /\ final' = (final \/ ~retry)
         /\ reports' = IF loop = "establish" THEN reports
                       ELSE Append(reports, [retry |-> retry, cause |-> cause])

(* Peer.die up to its report.                                              *)
FailStreams ==
    /\ isOpen' = FALSE
    /\ live' = (live /\ ~isOpen)
    /\ hello' = IF isOpen /\ hello = "sent" THEN "failed" ELSE hello

(* Fault: a dead peer dies again.                                          *)
DieAgain(cause) == FailStreams /\ NotifyClose(willRetry, cause)

(* Peer.die: a second death is a no-op.                                    *)
Die(cause) ==
    /\ FailStreams
    /\ IF isOpen THEN NotifyClose(willRetry, cause) ELSE UNCHANGED <<reports, final>>

(* Peer.closeSocketLocally.                                                *)
CloseSocketLocally == conn' = IF conn = "open" THEN "closing" ELSE conn

(* Peer.open by the application.                                           *)
Open ==
    /\ IsOpen /\ ~goaway /\ ~live
    /\ live' = TRUE
    /\ UNCHANGED <<loopVars, hearts, socketVars, peerVars, hello, goaway, closing, reports, losses>>

Reads == serve = "reading" /\ conn # "closed"

(* Peer.onOpenFrame takes a stream of the other peer, dead or not: only    *)
(* the goaway makes it refuse.                                             *)
RemoteOpens ==
    /\ Reads /\ ~goaway /\ ~live
    /\ live' = TRUE
    /\ UNCHANGED <<loopVars, hearts, socketVars, peerVars, hello, goaway, closing, reports, losses>>

(* The application's stream ends, by a frame or by its own last call.      *)
StreamEnds ==
    /\ Reads /\ live
    /\ live' = FALSE
    /\ UNCHANGED <<loopVars, hearts, socketVars, peerVars, hello, goaway, closing, reports, losses>>

(* The network or the other peer closes the socket, or the close this side *)
(* began completes.                                                        *)
SocketLost ==
    /\ conn = "open" /\ losses < MaxLosses
    /\ conn' = "closed" /\ losses' = losses + 1
    /\ UNCHANGED <<loopVars, hearts, serve, socket, peerVars, streamVars, closing, reports>>

SocketCloses ==
    /\ conn = "closing"
    /\ conn' = "closed"
    /\ UNCHANGED <<loopVars, hearts, serve, socket, peerVars, streamVars, closing, reports, losses>>

(* Peer.readLoop: `receive` rejects, and the peer dies.                    *)
ReceiveRejects ==
    /\ serve = "reading" /\ conn = "closed"
    /\ Die("lost")
    /\ serve' = "stopping"
    /\ UNCHANGED <<loopVars, hearts, socket, conn, established, willRetry, goaway, closing, losses>>

(* Peer.failConnection and failInternal: the read loop sends a goaway and  *)
(* drains; then it closes the socket and returns.                          *)
FailConnection ==
    /\ Reads /\ isOpen /\ losses < MaxLosses
    /\ serve' = "failing" /\ goaway' = TRUE /\ losses' = losses + 1
    /\ UNCHANGED <<loopVars, hearts, socket, conn, peerVars, hello, live, closing, reports>>

ConnectionFailed ==
    /\ serve = "failing"
    /\ serve' = "stopping"
    /\ CloseSocketLocally
    /\ Die("protocol")
    /\ UNCHANGED <<loopVars, hearts, socket, established, willRetry, goaway, closing, losses>>

(* Peer.serve returns when the writer is stopped.                          *)
ServeReturns ==
    /\ serve = "stopping"
    /\ serve' = "done"
    /\ UNCHANGED <<loopVars, hearts, socket, conn, peerVars, streamVars, closing, reports, losses>>

-----------------------------------------------------------------------------
(* Heartbeat.run.                                                          *)

HeartbeatSleeps(h) ==
    /\ ~h.pinging /\ ~h.stopped /\ IsOpen
    /\ hearts' = (hearts \ {h}) \cup {[h EXCEPT !.pinging = TRUE]}
    /\ UNCHANGED <<loopVars, socketVars, peerVars, streamVars, closing, reports, losses>>

HeartbeatReturns(h) ==
    /\ ~h.pinging /\ (h.stopped \/ ~IsOpen)
    /\ hearts' = hearts \ {h}
    /\ UNCHANGED <<loopVars, socketVars, peerVars, streamVars, closing, reports, losses>>

Pong(h) ==
    /\ h.pinging /\ h.socket = socket /\ isOpen /\ Reads
    /\ hearts' = (hearts \ {h}) \cup {[h EXCEPT !.pinging = FALSE]}
    /\ UNCHANGED <<loopVars, socketVars, peerVars, streamVars, closing, reports, losses>>

(* Fault: `stopped` is not read again after the ping.                      *)
PingRejectsUnstopped(h) ==
    /\ h.pinging /\ (isOpen => losses < MaxLosses)
    /\ hearts' = hearts \ {h}
    /\ Die("no_pong") /\ CloseSocketLocally
    /\ losses' = IF isOpen THEN losses + 1 ELSE losses
    /\ UNCHANGED <<loopVars, serve, socket, established, willRetry, goaway, closing>>

(* The ping rejects: its deadline passed, or the peer died meanwhile.  The *)
(* flag is read again, and the socket of that moment is declared dead.     *)
PingRejects(h) ==
    /\ h.pinging
    /\ hearts' = hearts \ {h}
    /\ IF h.stopped THEN UNCHANGED <<socketVars, peerVars, streamVars, reports, losses>>
       ELSE /\ isOpen => losses < MaxLosses
            /\ Die("no_pong") /\ CloseSocketLocally
            /\ losses' = IF isOpen THEN losses + 1 ELSE losses
            /\ UNCHANGED <<serve, socket, established, willRetry, goaway>>
    /\ UNCHANGED <<loopVars, closing>>

(* Heartbeat.stop, by ConnectionLoop.stopHeartbeat or stop.                *)
StopHeartbeat == hearts' = {[h EXCEPT !.stopped = TRUE] : h \in hearts}
StartHeartbeat(n) == hearts' = hearts \cup {Heart(n)}

-----------------------------------------------------------------------------
(* ConnectionLoop.                                                         *)

(* ConnectionLoop.giveUp.                                                  *)
GiveUp == willRetry' = FALSE /\ NotifyClose(FALSE, "gave_up")

(* Fault: the helper gives up without a report.                            *)
NextAttemptOrSilence(n) ==
    /\ attempts' = n
    /\ loop' = IF ~stopped /\ ShouldRetry(n) THEN "backoff" ELSE "ended"
    /\ UNCHANGED <<willRetry, reports, final>>

(* supervise and redial before an attempt, `n` having failed.              *)
NextAttempt(n) ==
    /\ attempts' = n
    /\ IF ~stopped /\ ShouldRetry(n)
       THEN loop' = "backoff" /\ UNCHANGED <<willRetry, reports, final>>
       ELSE /\ loop' = "ended"
            /\ IF stopped THEN UNCHANGED <<willRetry, reports, final>> ELSE GiveUp

(* The supervisor's await of serve() returns.                              *)
SocketDied ==
    /\ loop = "serving" /\ serve = "done"
    /\ StopHeartbeat
    /\ NextAttempt(attempts)
    /\ UNCHANGED <<setup, stopped, socketVars, isOpen, established, streamVars, closing, losses>>

BackoffEnds ==
    /\ loop = "backoff"
    /\ loop' = IF stopped THEN "ended" ELSE "dialling"
    /\ UNCHANGED <<setup, stopped, attempts, hearts, socketVars, peerVars, streamVars, closing,
                   reports, losses>>

DialFails ==
    /\ loop = "dialling" /\ attempts < MaxFailures
    /\ NextAttempt(attempts + 1)
    /\ UNCHANGED <<setup, stopped, hearts, socketVars, isOpen, established, streamVars, closing,
                   losses>>

(* Peer.adoptSocket, and startServing.                                     *)
AdoptSocket ==
    /\ socket' = socket + 1 /\ conn' = "open" /\ serve' = "reading"
    /\ isOpen' = TRUE
    /\ goaway' = FALSE /\ live' = FALSE

(* Fault: the socket of a dial that outlasts stop() is adopted.            *)
DialsAnyway ==
    /\ loop = "dialling"
    /\ AdoptSocket
    /\ IF setup.hello
       THEN /\ loop' = "hello" /\ hello' = "sent" /\ established' = FALSE
            /\ willRetry' = ShouldRetry(attempts + 1)
            /\ UNCHANGED <<attempts, hearts>>
       ELSE /\ loop' = "serving" /\ hello' = "none" /\ established' = TRUE
            /\ willRetry' = ShouldRetry(0) /\ attempts' = 0
            /\ StartHeartbeat(socket + 1)
    /\ UNCHANGED <<setup, stopped, final, closing, reports, losses>>

(* Fault: a socket is enough to start the backoff over.                    *)
DialResets ==
    /\ loop = "dialling" /\ ~stopped /\ setup.hello
    /\ AdoptSocket
    /\ loop' = "hello" /\ hello' = "sent" /\ established' = FALSE
    /\ willRetry' = ShouldRetry(1) /\ attempts' = 0
    /\ UNCHANGED <<setup, stopped, hearts, final, closing, reports, losses>>

(* The dial returns a socket: redial up to the await of the hello, or      *)
(* without one to the end.  A dial cannot be cancelled, so its socket is   *)
(* closed when stop() was called meanwhile.                                *)
Dials ==
    /\ loop = "dialling"
    /\ IF stopped
       THEN /\ loop' = "ended"
            /\ UNCHANGED <<attempts, hearts, socketVars, isOpen, established, willRetry, streamVars>>
       ELSE /\ AdoptSocket
            /\ IF setup.hello
               THEN /\ loop' = "hello" /\ hello' = "sent" /\ established' = FALSE
                    /\ willRetry' = ShouldRetry(attempts + 1)
                    /\ UNCHANGED <<attempts, hearts>>
               ELSE /\ loop' = "serving" /\ hello' = "none" /\ established' = TRUE
                    /\ willRetry' = ShouldRetry(0) /\ attempts' = 0
                    /\ StartHeartbeat(socket + 1)
    /\ UNCHANGED <<setup, stopped, final, closing, reports, losses>>

(* Fault: `willRetry` keeps the value it has for the attempt.              *)
AcknowledgedForgetsRetry ==
    /\ hello = "sent" /\ Reads /\ isOpen
    /\ hello' = "acknowledged"
    /\ IF stopped
       THEN /\ loop' = "leaving" /\ CloseSocketLocally
            /\ UNCHANGED <<attempts, hearts, established, willRetry>>
       ELSE /\ loop' = "serving" /\ established' = TRUE
            /\ attempts' = 0 /\ willRetry' = IF loop = "establish" THEN ShouldRetry(0) ELSE willRetry
            /\ StartHeartbeat(socket) /\ UNCHANGED conn
    /\ UNCHANGED <<setup, stopped, serve, socket, isOpen, final, goaway, live, closing, reports, losses>>

(* The acceptor's handler ends the hello stream: the rest of establish, of *)
(* dialAndEstablish and of start, or the rest of redial.                   *)
HelloAcknowledged ==
    /\ hello = "sent" /\ Reads /\ isOpen
    /\ hello' = "acknowledged"
    /\ IF stopped
       THEN /\ loop' = "leaving" /\ CloseSocketLocally
            /\ UNCHANGED <<attempts, hearts, established, willRetry>>
       ELSE /\ loop' = "serving" /\ established' = TRUE
            /\ attempts' = 0 /\ willRetry' = ShouldRetry(0)
            /\ StartHeartbeat(socket) /\ UNCHANGED conn
    /\ UNCHANGED <<setup, stopped, serve, socket, isOpen, final, goaway, live, closing, reports, losses>>

(* The hello is refused, its socket died, or its deadline passed: the      *)
(* catch of establish, which reports nothing, and that of redial.          *)
HelloFails ==
    /\ \/ loop = "establish" /\ hello \in {"sent", "failed"} /\ loop' = "raising"
          /\ FailStreams /\ UNCHANGED <<reports, final>>
       \/ loop = "hello" /\ hello \in {"sent", "failed"} /\ loop' = "failing"
          /\ (hello = "sent" => attempts < MaxFailures)
          /\ Die("hello")
    /\ CloseSocketLocally
    /\ UNCHANGED <<setup, stopped, attempts, hearts, serve, socket, established, willRetry, goaway,
                   closing, losses>>

(* Fault: the read loop of the abandoned socket is not awaited.            *)
AbandonedAtOnce ==
    /\ \/ loop = "raising" /\ loop' = "raised" /\ UNCHANGED <<attempts, willRetry, reports, final>>
       \/ loop = "leaving" /\ loop' = "ended" /\ UNCHANGED <<attempts, willRetry, reports, final>>
       \/ loop = "failing" /\ NextAttempt(attempts + 1)
    /\ UNCHANGED <<setup, stopped, hearts, socketVars, isOpen, established, streamVars, closing, losses>>

(* ConnectionLoop.abandonSocket has awaited the read loop.                 *)
Abandoned ==
    /\ serve = "done"
    /\ \/ loop = "raising" /\ loop' = "raised" /\ UNCHANGED <<attempts, willRetry, reports, final>>
       \/ loop = "leaving" /\ loop' = "ended" /\ UNCHANGED <<attempts, willRetry, reports, final>>
       \/ loop = "failing" /\ NextAttempt(attempts + 1)
    /\ UNCHANGED <<setup, stopped, hearts, socketVars, isOpen, established, streamVars, closing, losses>>

-----------------------------------------------------------------------------
(* Peer.close.                                                             *)

(* close() and ConnectionLoop.stop up to the await of the latter.          *)
Close ==
    /\ closing = "none" /\ loop \notin {"establish", "raising", "raised"}
    /\ closing' = "called"
    /\ willRetry' = FALSE /\ stopped' = (loop # "absent")
    /\ StopHeartbeat
    /\ UNCHANGED <<setup, loop, attempts, socketVars, isOpen, established, final, streamVars,
                   reports, losses>>

(* close() up to its drain, or to its end on a peer without a socket.      *)
SendGoaway ==
    /\ closing = "called"
    /\ IF isOpen THEN closing' = "draining" /\ goaway' = TRUE /\ UNCHANGED <<reports, final>>
       ELSE closing' = "done" /\ NotifyClose(FALSE, "closed") /\ UNCHANGED goaway
    /\ UNCHANGED <<loopVars, hearts, socketVars, isOpen, established, willRetry, hello, live, losses>>

(* Fault: the drain waits as long as the streams take.                     *)
DrainWaits ==
    /\ closing = "draining" /\ ~live /\ hello # "sent"
    /\ closing' = "closing"
    /\ CloseSocketLocally
    /\ UNCHANGED <<loopVars, hearts, serve, socket, peerVars, streamVars, reports, losses>>

(* Peer.drain ends, with its streams or with its deadline, and close()     *)
(* closes the socket.                                                      *)
Drained ==
    /\ closing = "draining"
    /\ closing' = "closing"
    /\ CloseSocketLocally
    /\ UNCHANGED <<loopVars, hearts, serve, socket, peerVars, streamVars, reports, losses>>

CloseReturns ==
    /\ closing = "closing"
    /\ closing' = "done"
    /\ Die("closed")
    /\ UNCHANGED <<loopVars, hearts, socketVars, established, willRetry, goaway, losses>>

-----------------------------------------------------------------------------
Supervise == SocketDied \/ BackoffEnds \/ DialFails \/ Dials \/ HelloFails \/ Abandoned
Serve == ReceiveRejects \/ ConnectionFailed \/ ServeReturns
Heartbeats == \E h \in hearts :
    HeartbeatSleeps(h) \/ HeartbeatReturns(h) \/ Pong(h) \/ PingRejects(h)
Closes == SendGoaway \/ Drained \/ CloseReturns

Next ==
    \/ Open \/ RemoteOpens \/ StreamEnds \/ HelloAcknowledged
    \/ SocketLost \/ SocketCloses \/ FailConnection
    \/ Heartbeats \/ Close \/ Serve \/ Supervise \/ Closes

Spec == Init /\ [][Next]_vars

(* The event loop runs what can run; a socket this side closed ends; a     *)
(* sleep, a dial, a hello and the drain of close() have deadlines.         *)
FairSpec ==
    Spec /\ WF_vars(Serve) /\ WF_vars(Supervise) /\ WF_vars(Closes) /\ WF_vars(SocketCloses)

-----------------------------------------------------------------------------
(* Each socket that is lost is reported to the application once, whichever *)
(* of the read loop, the heartbeat, a failed hello and a protocol error    *)
(* finds it first: when the helper is about to dial again, every socket so *)
(* far has one report; a connect() that rejects reports none (WSM-RCN-040, *)
(* WSM-RCN-006).                                                           *)
OncePerLoss ==
    /\ loop \in {"backoff", "dialling"} /\ ~final => Len(reports) = socket
    /\ loop \in {"raising", "raised"} => reports = << >>

(* `willRetry` is false once and for all: after that report the helper     *)
(* takes no further socket, whichever of the read loop, the heartbeat, the *)
(* hello and close() comes first ("MUST never dial again", WSM-RCN-044).   *)
FinalIsFinal == [][ final => socket' = socket ]_vars

(* When close() returns nothing is left behind: this side has closed the   *)
(* socket, the peer is dead and the application has had its final close    *)
(* (WSM-RCN-040, WSM-RCN-046).                                             *)
CloseIsComplete == closing = "done" => conn # "open" /\ ~isOpen /\ final

(* A heartbeat that may still act is that of the current socket: that of a *)
(* lost one never declares its replacement dead.                           *)
HeartbeatOnItsSocket == \A h \in hearts : ~h.stopped => h.socket = socket

(* A close() is not reported as a missed pong, however long its drain is   *)
(* (comment of Heartbeat.run; WSM-RCN-011, WSM-RCN-040).                   *)
CloseIsNoMissedPong ==
    [][ closing # "none" /\ reports' # reports => reports'[Len(reports')].cause # "no_pong" ]_vars

(* The backoff starts over only when the acceptor acknowledged the hello   *)
(* on the socket of that attempt (WSM-RCN-004, WSM-INV-012).               *)
ResetOnlyWhenEstablished ==
    [][ attempts' < attempts => established' /\ (setup.hello => hello' = "acknowledged") ]_vars

(* A socket is adopted only when the read loop of the last one has ended:  *)
(* its stopWriter would stop the writer of the new one (comment of         *)
(* abandonSocket).                                                         *)
ReadLoopGone == [][ socket' # socket => serve = "done" ]_vars

(* A peer between sockets gets another socket or the final close, never    *)
(* neither: `willRetry` true is kept (WSM-RCN-040, WSM-RCN-044).           *)
Between == ~isOpen /\ reports # << >> /\ ~final
NeverStuckBetweenSockets == Between ~> ~Between

(* close() returns, whatever the helper was doing when it was called, and  *)
(* then the helper ends and its socket is closed.                          *)
CloseEnds ==
    closing # "none" ~> closing = "done" /\ loop \in {"ended", "absent"} /\ conn = "closed"

(* "`Peer` survives a reconnect; `Stream` objects do not. Any stream held  *)
(* across one is already closed" (SPEC.md, WSM-RCN-032): no stream is live *)
(* when a socket is adopted.                                               *)
NoStreamSurvives == [][ socket' # socket => ~live ]_vars

(* Nothing of a connection outlives it: no heartbeat runs for a socket     *)
(* that is gone, and nothing at all once the peer is closed.               *)
NothingOutlives == HeartbeatOnItsSocket /\ CloseIsComplete
=============================================================================
