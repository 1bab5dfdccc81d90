-------------------------- MODULE ReconnectProofs ---------------------------
(***************************************************************************)
(* Proofs about Reconnect.tla, for every set of setups, every cap of the   *)
(* attempts and any number of sockets: each loss is reported once and the  *)
(* final one last, nothing of a connection outlives it, and the backoff    *)
(* starts over only on an established connection.                          *)
(*                                                                         *)
(* ReconnectInv is the invariant.  Its heart is RetryFits: a final report  *)
(* leaves a peer that is dead and does not retry, and a helper between two *)
(* sockets retries unless it was stopped.  That rests on when willRetry is *)
(* decided (for the attempt that is under way), on SocketFits (a dead      *)
(* peer's read loop is past its reads, and over before the next dial) and  *)
(* on HelloFits (an acknowledgement finds a living peer in its hello).     *)
(***************************************************************************)
EXTENDS Reconnect, SequenceTheorems, TLAPS

Before == {"establish", "raising", "raised"}
Sockets == {"backoff", "dialling"}

StopFits ==
    /\ stopped <=> closing # "none" /\ loop # "absent"
    /\ closing # "none" => ~willRetry /\ loop \notin Before

HelloFits == hello = "sent" => isOpen /\ loop \in {"establish", "hello"}

SocketFits ==
    /\ isOpen => serve \in {"reading", "failing"}
    /\ ~isOpen => conn # "open"
    /\ loop \in Sockets => serve = "done"

RetryFits ==
    /\ final => ~isOpen /\ ~willRetry
    /\ loop = "serving" => attempts = 0
    /\ loop \in {"backoff", "dialling", "hello", "failing"} => ShouldRetry(attempts)
    /\ closing = "none" =>
         /\ loop = "serving" => (willRetry <=> ShouldRetry(0))
         /\ loop \in {"hello", "failing"} => (willRetry <=> ShouldRetry(attempts + 1))
         /\ loop \in Sockets => willRetry

HeartFits ==
    \A h \in hearts : ~h.stopped => h.socket = socket /\ loop = "serving" /\ closing = "none"

CloseFits ==
    /\ closing = "closing" => conn # "open"
    /\ closing \in {"draining", "closing"} /\ ~isOpen => final
    /\ closing = "done" => ~isOpen /\ final

ReportFits ==
    /\ loop \in Before => reports = <<>>
    /\ loop = "establish" => socket = 1
    /\ loop \in {"raising", "raised"} => ~isOpen
    /\ loop \notin Before /\ ~final => Len(reports) = IF isOpen THEN socket - 1 ELSE socket

Fits == StopFits /\ HelloFits /\ SocketFits /\ RetryFits /\ HeartFits /\ CloseFits /\ ReportFits
ReconnectInv == TypeOK /\ Fits

----------------------------------------------------------------------------
(* What TypeOK says of each variable.                                      *)

Report == [retry : BOOLEAN, cause : Cause]
HeartType == [socket : Nat \ {0}, pinging : BOOLEAN, stopped : BOOLEAN]

LEMMA Booleans ==
    ASSUME TypeOK
    PROVE  /\ stopped \in BOOLEAN /\ isOpen \in BOOLEAN /\ established \in BOOLEAN
           /\ willRetry \in BOOLEAN /\ final \in BOOLEAN /\ goaway \in BOOLEAN /\ live \in BOOLEAN
BY DEF TypeOK

LEMMA Others ==
    ASSUME TypeOK
    PROVE  /\ setup \in Setups
           /\ attempts \in Nat /\ (setup.cap # Unlimited => attempts <= setup.cap)
           /\ socket \in Nat /\ socket # 0 /\ losses \in Nat
           /\ hearts \subseteq HeartType
           /\ reports \in Seq(Report)
           /\ Len(reports) \in Nat
BY LenProperties DEF TypeOK, Report, HeartType

(* What NotifyClose does to the two variables it writes.                   *)
LEMMA NotifyStep ==
    ASSUME TypeOK, NEW retry \in BOOLEAN, NEW cause \in Cause, NotifyClose(retry, cause)
    PROVE  /\ reports' \in Seq(Report)
           /\ final' \in BOOLEAN
           /\ ~retry => final'
           /\ final => final'
           /\ retry => (final' <=> final)
           /\ loop = "establish" => reports' = reports
           /\ loop # "establish" /\ ~final => Len(reports') = Len(reports) + 1
           /\ reports' = reports \/ reports'[Len(reports')].cause = cause
<1>1. final \in BOOLEAN /\ reports \in Seq(Report) /\ Len(reports) \in Nat BY Booleans, Others
<1> DEFINE r == [retry |-> retry, cause |-> cause]
<1>2. r \in Report BY DEF Report
<1>3. /\ Append(reports, r) \in Seq(Report)
      /\ Len(Append(reports, r)) = Len(reports) + 1
      /\ Append(reports, r)[Len(reports) + 1] = r
  BY <1>1, <1>2, AppendProperties
<1>4. r.cause = cause OBVIOUS
<1> HIDE DEF r
<1>5. CASE final /\ ~retry
  <2>1. reports' = reports /\ final' = final BY <1>5 DEF NotifyClose
  <2> QED BY <2>1, <1>1, <1>5
<1>6. CASE ~(final /\ ~retry)
  <2>1. final' = (final \/ ~retry) BY <1>6 DEF NotifyClose
  <2>2. reports' = IF loop = "establish" THEN reports ELSE Append(reports, r)
    BY <1>6 DEF NotifyClose, r
  <2>3. /\ final' \in BOOLEAN /\ (~retry => final') /\ (final => final') /\ (retry => (final' <=> final))
    BY Zenon, <2>1
  <2>4. CASE loop = "establish" BY <2>2, <2>3, <2>4, <1>1
  <2>5. CASE loop # "establish"
    <3>1. reports' = Append(reports, r) BY <2>2, <2>5
    <3> QED BY <3>1, <2>3, <2>5, <1>3, <1>4
  <2> QED BY <2>4, <2>5
<1> QED BY <1>5, <1>6

(* Peer.die.                                                               *)
LEMMA DieStep ==
    ASSUME TypeOK, HelloFits, RetryFits, NEW cause \in Cause, Die(cause)
    PROVE  /\ isOpen' \in BOOLEAN /\ ~isOpen'
           /\ live' \in BOOLEAN
           /\ hello' \in {"none", "sent", "acknowledged", "failed"} /\ hello' # "sent"
           /\ final' \in BOOLEAN
           /\ reports' \in Seq(Report)
           /\ isOpen => (final' <=> ~willRetry)
           /\ ~isOpen => final' = final /\ reports' = reports
           /\ final' => ~willRetry
           /\ loop = "establish" => reports' = reports
           /\ isOpen /\ loop # "establish" => Len(reports') = Len(reports) + 1
           /\ reports' = reports \/ reports'[Len(reports')].cause = cause
<1>1. /\ isOpen \in BOOLEAN /\ live \in BOOLEAN /\ willRetry \in BOOLEAN /\ final \in BOOLEAN
  BY Booleans
<1>2. reports \in Seq(Report) BY Others
<1>3. hello \in {"none", "sent", "acknowledged", "failed"} BY DEF TypeOK
<1>4. isOpen' = FALSE BY DEF Die, FailStreams
<1>5. isOpen' \in BOOLEAN /\ ~isOpen' BY Zenon, <1>4
<1>6. live' \in BOOLEAN
  <2>1. live' = (live /\ ~isOpen) BY DEF Die, FailStreams
  <2> QED BY Zenon, <2>1
<1>7. hello' \in {"none", "sent", "acknowledged", "failed"} /\ hello' # "sent"
  <2>1. hello' = IF isOpen /\ hello = "sent" THEN "failed" ELSE hello BY DEF Die, FailStreams
  <2> QED BY <2>1, <1>3 DEF HelloFits
<1>8. final => ~isOpen /\ ~willRetry BY DEF RetryFits
<1>9. CASE isOpen
  <2>1. NotifyClose(willRetry, cause) BY <1>9 DEF Die
  <2>2. /\ reports' \in Seq(Report)
        /\ final' \in BOOLEAN
        /\ ~willRetry => final'
        /\ willRetry => (final' <=> final)
        /\ loop = "establish" => reports' = reports
        /\ loop # "establish" /\ ~final => Len(reports') = Len(reports) + 1
        /\ reports' = reports \/ reports'[Len(reports')].cause = cause
    BY <2>1, <1>1, NotifyStep
  <2> QED BY <2>2, <1>5, <1>6, <1>7, <1>8, <1>9
<1>10. CASE ~isOpen
  <2>1. reports' = reports /\ final' = final BY <1>10 DEF Die
  <2> QED BY <2>1, <1>1, <1>2, <1>5, <1>6, <1>7, <1>8, <1>10
<1> QED BY <1>9, <1>10

(* A final close on a peer that has none left (giveUp, close).             *)
LEMMA FinalStep ==
    ASSUME TypeOK, ~isOpen, NEW cause \in Cause, NotifyClose(FALSE, cause)
    PROVE  reports' \in Seq(Report) /\ final' \in BOOLEAN /\ final'
BY NotifyStep

----------------------------------------------------------------------------
LEMMA ReconnectInit == Init => ReconnectInv
<1> SUFFICES ASSUME Init PROVE ReconnectInv OBVIOUS
<1>1. /\ setup \in Setups /\ attempts = 0 /\ socket = 1 /\ losses = 0 /\ serve = "reading"
      /\ conn = "open" /\ closing = "none" /\ reports = <<>>
      /\ loop \in {"absent", "establish", "serving"}
      /\ hearts = IF loop = "serving" THEN {Heart(1)} ELSE {}
      /\ hello = IF loop = "establish" THEN "sent" ELSE "none"
  BY DEF Init
<1>2. /\ stopped = FALSE /\ isOpen = TRUE /\ final = FALSE /\ goaway = FALSE /\ live = FALSE
      /\ established = (loop # "establish")
      /\ willRetry = (loop = "serving" /\ ShouldRetry(0))
  BY DEF Init
<1>3. /\ stopped \in BOOLEAN /\ isOpen \in BOOLEAN /\ final \in BOOLEAN /\ goaway \in BOOLEAN
      /\ live \in BOOLEAN /\ established \in BOOLEAN /\ willRetry \in BOOLEAN
      /\ ~stopped /\ isOpen /\ ~final
      /\ willRetry <=> (loop = "serving" /\ ShouldRetry(0))
  BY Zenon, <1>2
<1>4. Heart(1).socket = 1 /\ Heart(1) \in HeartType BY DEF Heart, HeartType
<1>5. TypeOK
  <2>1. hearts \subseteq HeartType BY <1>1, <1>4
  <2>2. setup.cap # Unlimited => attempts <= setup.cap
    <3>1. setup \in Setup BY <1>1, ReconnectAssumption DEF ReconnectAssumption
    <3>2. setup.cap \in Nat \cup {Unlimited} BY <3>1 DEF Setup
    <3> QED BY <3>2, <1>1
  <2>3. {stopped, isOpen, established, willRetry, final, goaway, live} \subseteq BOOLEAN
    BY Zenon, <1>3
  <2>4. reports \in Seq([retry : BOOLEAN, cause : Cause]) BY <1>1
  <2> QED BY <1>1, <2>1, <2>2, <2>3, <2>4 DEF TypeOK, HeartType
<1>6. Fits
  <2>1. StopFits BY <1>1, <1>3 DEF StopFits
  <2>2. HelloFits BY <1>1, <1>3 DEF HelloFits
  <2>3. SocketFits BY <1>1, <1>3 DEF SocketFits, Sockets
  <2>4. RetryFits BY <1>1, <1>3 DEF RetryFits, Sockets
  <2>5. HeartFits BY <1>1, <1>4 DEF HeartFits
  <2>6. CloseFits BY <1>1 DEF CloseFits
  <2>7. ReportFits BY <1>1, <1>3 DEF ReportFits, Before
  <2> QED BY <2>1, <2>2, <2>3, <2>4, <2>5, <2>6, <2>7 DEF Fits
<1> QED BY <1>5, <1>6 DEF ReconnectInv

----------------------------------------------------------------------------
(* One lemma for each action, or for actions that touch the same.          *)

(* Streams come and go, and the socket is lost or its close completes.     *)
LEMMA StreamStep ==
    ASSUME ReconnectInv, Open \/ RemoteOpens \/ StreamEnds
    PROVE  ReconnectInv'
<1>1. /\ UNCHANGED <<loopVars, hearts, socketVars, peerVars, hello, goaway, closing, reports, losses>>
      /\ live' = TRUE \/ live' = FALSE
  BY DEF Open, RemoteOpens, StreamEnds
<1>2. live' \in BOOLEAN BY Zenon, <1>1
<1> QED
  BY <1>1, <1>2 DEF ReconnectInv, TypeOK, Fits, StopFits, HelloFits, SocketFits, RetryFits, HeartFits,
     CloseFits, ReportFits, ShouldRetry, loopVars, socketVars, peerVars

LEMMA SocketStep ==
    ASSUME ReconnectInv, SocketLost \/ SocketCloses
    PROVE  ReconnectInv'
<1>1. /\ UNCHANGED <<loopVars, hearts, serve, socket, peerVars, streamVars, closing, reports>>
      /\ conn' = "closed"
      /\ losses' = losses + 1 \/ losses' = losses
  BY DEF SocketLost, SocketCloses
<1>2. losses' \in Nat BY <1>1, Others DEF ReconnectInv
<1> QED
  BY <1>1, <1>2 DEF ReconnectInv, TypeOK, Fits, StopFits, HelloFits, SocketFits, RetryFits, HeartFits,
     CloseFits, ReportFits, ShouldRetry, loopVars, peerVars, streamVars

(* The read loop and the protocol error: ReceiveRejects, ConnectionFailed. *)
LEMMA ReadLoopDies ==
    ASSUME ReconnectInv, ReceiveRejects \/ ConnectionFailed
    PROVE  ReconnectInv'
<1>0. TypeOK /\ HelloFits /\ RetryFits BY DEF ReconnectInv, Fits
<1>1. /\ serve' = "stopping"
      /\ UNCHANGED <<loopVars, hearts, socket, established, willRetry, goaway, closing, losses>>
  BY DEF ReceiveRejects, ConnectionFailed
<1>2. conn' \in {"open", "closing", "closed"} /\ conn' # "open"
  BY <1>0 DEF ReceiveRejects, ConnectionFailed, CloseSocketLocally, TypeOK
<1>3. PICK cause \in Cause : Die(cause) BY DEF ReceiveRejects, ConnectionFailed, Cause
<1>4. /\ isOpen' \in BOOLEAN /\ ~isOpen'
      /\ live' \in BOOLEAN
      /\ hello' \in {"none", "sent", "acknowledged", "failed"} /\ hello' # "sent"
      /\ final' \in BOOLEAN
      /\ reports' \in Seq(Report)
      /\ isOpen => (final' <=> ~willRetry)
      /\ ~isOpen => final' = final /\ reports' = reports
      /\ final' => ~willRetry
      /\ loop = "establish" => reports' = reports
      /\ isOpen /\ loop # "establish" => Len(reports') = Len(reports) + 1
  BY <1>0, <1>3, DieStep
<1>5. TypeOK' BY <1>0, <1>1, <1>2, <1>4 DEF TypeOK, Report, loopVars
<1>6. socket \in Nat /\ Len(reports) \in Nat /\ loop \notin Sockets
  BY <1>0, Others DEF ReconnectInv, Fits, SocketFits, ReceiveRejects, ConnectionFailed
<1>7. /\ StopFits' /\ HelloFits' /\ SocketFits' /\ RetryFits' /\ HeartFits'
  BY <1>1, <1>2, <1>4, <1>6 DEF ReconnectInv, Fits, StopFits, HelloFits, SocketFits, RetryFits,
     HeartFits, ShouldRetry, loopVars
<1>8. CloseFits' BY <1>1, <1>2, <1>4 DEF ReconnectInv, Fits, CloseFits, StopFits
<1>9. ReportFits' BY <1>1, <1>4, <1>6 DEF ReconnectInv, Fits, ReportFits, Before, RetryFits, loopVars
<1> QED BY <1>5, <1>7, <1>8, <1>9 DEF ReconnectInv, Fits

LEMMA FailConnectionStep ==
    ASSUME ReconnectInv, FailConnection
    PROVE  ReconnectInv'
<1>1. /\ serve = "reading" /\ serve' = "failing" /\ goaway' = TRUE /\ losses' = losses + 1
      /\ UNCHANGED <<loopVars, hearts, socket, conn, peerVars, hello, live, closing, reports>>
  BY DEF FailConnection, Reads
<1>2. losses' \in Nat BY <1>1, Others DEF ReconnectInv
<1>3. goaway' \in BOOLEAN BY Zenon, <1>1
<1> QED
  BY <1>1, <1>2, <1>3 DEF ReconnectInv, TypeOK, Fits, StopFits, HelloFits, SocketFits, RetryFits,
     HeartFits, CloseFits, ReportFits, ShouldRetry, Sockets, loopVars, peerVars

LEMMA ServeReturnsStep ==
    ASSUME ReconnectInv, ServeReturns
    PROVE  ReconnectInv'
<1>1. /\ serve = "stopping" /\ serve' = "done"
      /\ UNCHANGED <<loopVars, hearts, socket, conn, peerVars, streamVars, closing, reports, losses>>
  BY DEF ServeReturns
<1> QED
  BY <1>1 DEF ReconnectInv, TypeOK, Fits, StopFits, HelloFits, SocketFits, RetryFits,
     HeartFits, CloseFits, ReportFits, ShouldRetry, Sockets, loopVars, peerVars, streamVars

----------------------------------------------------------------------------
(* The heartbeats.                                                         *)

(* A heartbeat that goes on keeps its socket and its flag.                 *)
LEMMA BeatsOn ==
    ASSUME ReconnectInv, NEW h \in hearts,
           HeartbeatSleeps(h) \/ HeartbeatReturns(h) \/ Pong(h)
    PROVE  ReconnectInv'
<1>1. UNCHANGED <<loopVars, socketVars, peerVars, streamVars, closing, reports, losses>>
  BY DEF HeartbeatSleeps, HeartbeatReturns, Pong
<1>2. h \in HeartType /\ hearts \subseteq HeartType BY Others DEF ReconnectInv
<1>3. ASSUME NEW p \in BOOLEAN
      PROVE  /\ [h EXCEPT !.pinging = p] \in HeartType
             /\ [h EXCEPT !.pinging = p].stopped = h.stopped
             /\ [h EXCEPT !.pinging = p].socket = h.socket
  BY <1>2 DEF HeartType
<1>4. \/ hearts' = hearts \ {h}
      \/ \E p \in BOOLEAN : hearts' = (hearts \ {h}) \cup {[h EXCEPT !.pinging = p]}
  BY DEF HeartbeatSleeps, HeartbeatReturns, Pong
<1>5. hearts' \subseteq HeartType BY <1>2, <1>3, <1>4
<1>6. HeartFits'
  <2>1. \A g \in hearts : ~g.stopped => g.socket = socket /\ loop = "serving" /\ closing = "none"
    BY DEF ReconnectInv, Fits, HeartFits
  <2>2. \A g \in hearts' : ~g.stopped => g.socket = socket /\ loop = "serving" /\ closing = "none"
    BY <2>1, <1>3, <1>4
  <2> QED BY <2>2, <1>1 DEF HeartFits, loopVars, socketVars
<1> QED
  BY <1>1, <1>5, <1>6 DEF ReconnectInv, TypeOK, HeartType, Fits, StopFits, HelloFits, SocketFits,
     RetryFits, CloseFits, ReportFits, ShouldRetry, loopVars, socketVars, peerVars, streamVars

LEMMA PingRejectsStep ==
    ASSUME ReconnectInv, NEW h \in hearts, PingRejects(h)
    PROVE  ReconnectInv'
<1>0. TypeOK /\ HelloFits /\ RetryFits /\ HeartFits BY DEF ReconnectInv, Fits
<1>1. hearts' = hearts \ {h} /\ UNCHANGED <<loopVars, closing>> BY DEF PingRejects
<1>2. hearts' \subseteq HeartType BY <1>0, <1>1, Others
<1>3. CASE h.stopped
  <2>1. UNCHANGED <<socketVars, peerVars, streamVars, reports, losses>> BY <1>3 DEF PingRejects
  <2> QED
    BY <1>1, <1>2, <2>1 DEF ReconnectInv, TypeOK, HeartType, Fits, StopFits, HelloFits, SocketFits,
       RetryFits, HeartFits, CloseFits, ReportFits, ShouldRetry, loopVars, socketVars, peerVars, streamVars
<1>4. CASE ~h.stopped
  <2>1. /\ Die("no_pong") /\ CloseSocketLocally
        /\ losses' = IF isOpen THEN losses + 1 ELSE losses
        /\ UNCHANGED <<serve, socket, established, willRetry, goaway>>
    BY <1>4 DEF PingRejects
  <2>2. "no_pong" \in Cause BY DEF Cause
  <2>3. /\ isOpen' \in BOOLEAN /\ ~isOpen'
        /\ live' \in BOOLEAN
        /\ hello' \in {"none", "sent", "acknowledged", "failed"} /\ hello' # "sent"
        /\ final' \in BOOLEAN
        /\ reports' \in Seq(Report)
        /\ isOpen => (final' <=> ~willRetry)
        /\ ~isOpen => final' = final /\ reports' = reports
        /\ final' => ~willRetry
        /\ isOpen /\ loop # "establish" => Len(reports') = Len(reports) + 1
    BY <1>0, <2>1, <2>2, DieStep
  <2>4. loop = "serving" /\ closing = "none" BY <1>0, <1>4 DEF HeartFits
  <2>5. conn' \in {"open", "closing", "closed"} /\ conn' # "open"
    BY <1>0, <2>1 DEF CloseSocketLocally, TypeOK
  <2>6. losses' \in Nat /\ socket \in Nat /\ Len(reports) \in Nat BY <1>0, <2>1, Others
  <2>7. TypeOK' BY <1>0, <1>1, <1>2, <2>1, <2>3, <2>5, <2>6 DEF TypeOK, Report, HeartType, loopVars
  <2>8. StopFits' /\ HelloFits' /\ SocketFits' /\ RetryFits' /\ HeartFits' /\ CloseFits'
    BY <1>1, <2>1, <2>3, <2>4, <2>5 DEF ReconnectInv, Fits, StopFits, HelloFits, SocketFits, RetryFits,
       HeartFits, CloseFits, ShouldRetry, Sockets, Before, loopVars
  <2>9. ReportFits'
    BY <1>1, <2>1, <2>3, <2>4, <2>6 DEF ReconnectInv, Fits, ReportFits, RetryFits, Before, loopVars
  <2> QED BY <2>7, <2>8, <2>9 DEF ReconnectInv, Fits
<1> QED BY <1>3, <1>4

(* Heartbeat.stop on all of them.                                          *)
LEMMA StopHeartbeatStep ==
    ASSUME TypeOK, StopHeartbeat
    PROVE  hearts' \subseteq HeartType /\ \A h \in hearts' : h.stopped
<1>1. hearts \subseteq HeartType BY Others
<1>2. \A h \in HeartType : [h EXCEPT !.stopped = TRUE] \in HeartType /\ [h EXCEPT !.stopped = TRUE].stopped
  BY DEF HeartType
<1> QED BY <1>1, <1>2 DEF StopHeartbeat

LEMMA StartHeartbeatStep ==
    ASSUME TypeOK, NEW n \in Nat, n # 0, StartHeartbeat(n)
    PROVE  /\ hearts' \subseteq HeartType
           /\ \A h \in hearts' : h \in hearts \/ h.socket = n
<1>1. Heart(n) \in HeartType /\ Heart(n).socket = n BY DEF Heart, HeartType
<1> QED BY <1>1, Others DEF StartHeartbeat

----------------------------------------------------------------------------
(* The supervisor.                                                         *)

(* The helper goes on only unstopped and within the cap; what it reports   *)
(* otherwise is final.                                                     *)
LEMMA NextAttemptStep ==
    ASSUME TypeOK, ~isOpen, NEW n \in Nat, NextAttempt(n)
    PROVE  /\ attempts' = n
           /\ willRetry' \in BOOLEAN /\ final' \in BOOLEAN /\ reports' \in Seq(Report)
           /\ \/ /\ loop' = "backoff" /\ ~stopped /\ ShouldRetry(n)
                 /\ UNCHANGED <<willRetry, reports, final>>
              \/ loop' = "ended" /\ stopped /\ UNCHANGED <<willRetry, reports, final>>
              \/ loop' = "ended" /\ ~stopped /\ ~willRetry' /\ final'
<1>1. willRetry \in BOOLEAN /\ final \in BOOLEAN /\ reports \in Seq(Report) BY Booleans, Others
<1>2. attempts' = n BY DEF NextAttempt
<1>3. CASE ~stopped /\ ShouldRetry(n)
  <2>1. loop' = "backoff" /\ UNCHANGED <<willRetry, reports, final>> BY <1>3 DEF NextAttempt
  <2> QED BY <2>1, <1>1, <1>2, <1>3
<1>4. CASE stopped
  <2>1. loop' = "ended" /\ UNCHANGED <<willRetry, reports, final>> BY <1>4 DEF NextAttempt
  <2> QED BY <2>1, <1>1, <1>2, <1>4
<1>5. CASE ~stopped /\ ~ShouldRetry(n)
  <2>1. loop' = "ended" /\ GiveUp BY <1>5 DEF NextAttempt
  <2>2. willRetry' = FALSE /\ NotifyClose(FALSE, "gave_up") BY <2>1 DEF GiveUp
  <2>3. willRetry' \in BOOLEAN /\ ~willRetry' BY Zenon, <2>2
  <2>4. "gave_up" \in Cause BY DEF Cause
  <2>5. reports' \in Seq(Report) /\ final' \in BOOLEAN /\ final' BY <2>2, <2>4, FinalStep
  <2> QED BY <2>1, <2>3, <2>5, <1>2, <1>5
<1> QED BY <1>3, <1>4, <1>5

(* An attempt within the cap may be counted.                               *)
LEMMA CapHolds ==
    ASSUME TypeOK, NEW n \in Nat, ShouldRetry(n)
    PROVE  setup.cap # Unlimited => n <= setup.cap /\ n + 1 <= setup.cap
<1>1. setup \in Setup BY Others, ReconnectAssumption DEF ReconnectAssumption
<1>2. setup.cap \in Nat \cup {Unlimited} BY <1>1 DEF Setup
<1> QED BY <1>2 DEF ShouldRetry

(* The common end of SocketDied, DialFails and Abandoned: the last socket  *)
(* is dead and read to its end, and another attempt is due or not.         *)
LEMMA AttemptStep ==
    ASSUME ReconnectInv, NEW n \in Nat, NextAttempt(n),
           loop \in {"serving", "dialling", "failing"}, serve = "done",
           setup.cap # Unlimited => n <= setup.cap,
           loop # "dialling" /\ ~stopped => (willRetry <=> ShouldRetry(n)),
           hearts' \subseteq HeartType, \A h \in hearts' : h.stopped,
           UNCHANGED <<setup, stopped, socketVars, isOpen, established, streamVars, closing, losses>>
    PROVE  ReconnectInv'
<1>0. TypeOK BY DEF ReconnectInv
<1>1. UNCHANGED <<setup, stopped, serve, socket, conn, isOpen, established, hello, goaway, live,
                  closing, losses>>
  BY DEF socketVars, streamVars
<1>2. ~isOpen BY DEF ReconnectInv, Fits, SocketFits
<1>3. /\ attempts' = n
      /\ willRetry' \in BOOLEAN /\ final' \in BOOLEAN /\ reports' \in Seq(Report)
      /\ \/ /\ loop' = "backoff" /\ ~stopped /\ ShouldRetry(n)
            /\ UNCHANGED <<willRetry, reports, final>>
         \/ loop' = "ended" /\ stopped /\ UNCHANGED <<willRetry, reports, final>>
         \/ loop' = "ended" /\ ~stopped /\ ~willRetry' /\ final'
  BY <1>0, <1>2, NextAttemptStep
<1>4. closing = "none" <=> ~stopped BY DEF ReconnectInv, Fits, StopFits
<1>5. TypeOK' BY <1>0, <1>1, <1>3 DEF TypeOK, HeartType, Report
<1>6. StopFits' BY <1>1, <1>3, <1>4 DEF ReconnectInv, Fits, StopFits, Before
<1>7. HelloFits' BY <1>1, <1>2 DEF ReconnectInv, Fits, HelloFits
<1>8. SocketFits' BY <1>1, <1>2 DEF ReconnectInv, Fits, SocketFits
<1>9. ShouldRetry(n)' = ShouldRetry(n) BY <1>1 DEF ShouldRetry
<1>10. RetryFits'
  <2>1. final' => ~isOpen' /\ ~willRetry'
    <3>1. final => ~willRetry BY DEF ReconnectInv, Fits, RetryFits
    <3>2. final' => ~willRetry' BY <1>3, <3>1
    <3>3. ~isOpen' BY <1>1, <1>2
    <3> QED BY <3>2, <3>3
  <2>2. loop' = "backoff" => ShouldRetry(attempts)'
    BY <1>1, <1>3 DEF ShouldRetry
  <2>3. loop' = "backoff" => willRetry'
    BY <1>3, <1>4 DEF ReconnectInv, Fits, RetryFits, Sockets
  <2>4. loop' \in {"backoff", "ended"} BY <1>3
  <2> QED BY <2>1, <2>2, <2>3, <2>4 DEF RetryFits, Sockets
<1>11. HeartFits' BY DEF HeartFits
<1>12. CloseFits'
  <2>1. final => final' BY <1>3
  <2> QED BY <1>1, <2>1 DEF ReconnectInv, Fits, CloseFits
<1>13. ReportFits'
  <2>1. loop \notin Before /\ loop' \notin Before
        /\ loop' \notin {"establish", "raising", "raised"}
    BY <1>3 DEF Before
  <2>2. ~final' => ~final /\ reports' = reports BY <1>3
  <2> QED BY <1>1, <2>1, <2>2 DEF ReconnectInv, Fits, ReportFits
<1> QED BY <1>5, <1>6, <1>7, <1>8, <1>10, <1>11, <1>12, <1>13 DEF ReconnectInv, Fits

LEMMA SocketDiedStep == ASSUME ReconnectInv, SocketDied PROVE ReconnectInv'
<1>0. TypeOK BY DEF ReconnectInv
<1>1. /\ loop = "serving" /\ serve = "done" /\ StopHeartbeat /\ NextAttempt(attempts)
      /\ UNCHANGED <<setup, stopped, socketVars, isOpen, established, streamVars, closing, losses>>
  BY DEF SocketDied
<1>2. attempts \in Nat /\ (setup.cap # Unlimited => attempts <= setup.cap) BY <1>0, Others
<1>3. hearts' \subseteq HeartType /\ \A h \in hearts' : h.stopped BY <1>0, <1>1, StopHeartbeatStep
<1>4. ~stopped => (willRetry <=> ShouldRetry(attempts))
  BY <1>1 DEF ReconnectInv, Fits, StopFits, RetryFits
<1> QED BY <1>1, <1>2, <1>3, <1>4, AttemptStep

(* Outside "serving" every heartbeat has been stopped.                     *)
LEMMA OthersStopped ==
    ASSUME ReconnectInv, loop # "serving"
    PROVE  hearts \subseteq HeartType /\ \A h \in hearts : h.stopped
BY Others DEF ReconnectInv, Fits, HeartFits

LEMMA DialFailsStep == ASSUME ReconnectInv, DialFails PROVE ReconnectInv'
<1>0. TypeOK BY DEF ReconnectInv
<1>1. /\ loop = "dialling" /\ NextAttempt(attempts + 1)
      /\ UNCHANGED <<setup, stopped, hearts, socketVars, isOpen, established, streamVars, closing, losses>>
  BY DEF DialFails
<1>2. attempts \in Nat /\ attempts + 1 \in Nat BY <1>0, Others
<1>3. ShouldRetry(attempts) /\ serve = "done"
  BY <1>1 DEF ReconnectInv, Fits, RetryFits, SocketFits, Sockets
<1>4. setup.cap # Unlimited => attempts + 1 <= setup.cap BY <1>0, <1>2, <1>3, CapHolds
<1>5. hearts' \subseteq HeartType /\ \A h \in hearts' : h.stopped BY <1>1, OthersStopped
<1> QED BY <1>1, <1>2, <1>3, <1>4, <1>5, AttemptStep

LEMMA AbandonedStep == ASSUME ReconnectInv, Abandoned PROVE ReconnectInv'
<1>0. TypeOK BY DEF ReconnectInv
<1>1. /\ serve = "done"
      /\ UNCHANGED <<setup, stopped, hearts, socketVars, isOpen, established, streamVars, closing, losses>>
  BY DEF Abandoned
<1>2. CASE loop = "failing" /\ NextAttempt(attempts + 1)
  <2>1. attempts \in Nat /\ attempts + 1 \in Nat BY <1>0, Others
  <2>2. ShouldRetry(attempts) /\ (~stopped => (willRetry <=> ShouldRetry(attempts + 1)))
    BY <1>2 DEF ReconnectInv, Fits, RetryFits, StopFits
  <2>3. setup.cap # Unlimited => attempts + 1 <= setup.cap BY <1>0, <2>1, <2>2, CapHolds
  <2>4. hearts' \subseteq HeartType /\ \A h \in hearts' : h.stopped BY <1>1, <1>2, OthersStopped
  <2> QED BY <1>1, <1>2, <2>1, <2>2, <2>3, <2>4, AttemptStep
<1>3. CASE /\ \/ loop = "raising" /\ loop' = "raised"
              \/ loop = "leaving" /\ loop' = "ended"
           /\ UNCHANGED <<attempts, willRetry, reports, final>>
  <2>1. hearts \subseteq HeartType /\ \A h \in hearts : h.stopped BY <1>3, OthersStopped
  <2> QED
    BY <1>1, <1>3, <2>1 DEF ReconnectInv, TypeOK, Fits, StopFits, HelloFits, SocketFits, RetryFits,
       HeartFits, CloseFits, ReportFits, ShouldRetry, Sockets, Before, socketVars, streamVars
<1> QED BY <1>2, <1>3 DEF Abandoned

LEMMA BackoffEndsStep == ASSUME ReconnectInv, BackoffEnds PROVE ReconnectInv'
<1>1. /\ loop = "backoff"
      /\ \/ stopped /\ loop' = "ended"
         \/ ~stopped /\ loop' = "dialling"
      /\ UNCHANGED <<setup, stopped, attempts, hearts, socketVars, peerVars, streamVars, closing,
                     reports, losses>>
  BY DEF BackoffEnds
<1> QED
  BY <1>1 DEF ReconnectInv, TypeOK, Fits, StopFits, HelloFits, SocketFits, RetryFits,
     HeartFits, CloseFits, ReportFits, ShouldRetry, Sockets, Before, socketVars, peerVars, streamVars

(* A socket is adopted, with or without a hello.                           *)
LEMMA DialsStep == ASSUME ReconnectInv, Dials PROVE ReconnectInv'
<1>0. TypeOK /\ Fits BY DEF ReconnectInv
<1>1. loop = "dialling" /\ UNCHANGED <<setup, stopped, final, closing, reports, losses>>
  BY DEF Dials
<1>2. CASE stopped
  <2>1. /\ loop' = "ended"
        /\ UNCHANGED <<attempts, hearts, socketVars, isOpen, established, willRetry, streamVars>>
    BY <1>2 DEF Dials
  <2> QED
    BY <1>1, <2>1 DEF ReconnectInv, TypeOK, Fits, StopFits, HelloFits, SocketFits, RetryFits,
       HeartFits, CloseFits, ReportFits, ShouldRetry, Sockets, Before, socketVars, streamVars
<1>3. CASE ~stopped
  <2>1. /\ socket' = socket + 1 /\ conn' = "open" /\ serve' = "reading"
        /\ isOpen' = TRUE /\ goaway' = FALSE /\ live' = FALSE
    BY <1>3 DEF Dials, AdoptSocket
  <2>2. isOpen' \in BOOLEAN /\ isOpen' /\ goaway' \in BOOLEAN /\ live' \in BOOLEAN
    BY Zenon, <2>1
  <2>3. /\ closing = "none" /\ serve = "done" /\ ~isOpen /\ willRetry /\ ~final
        /\ ShouldRetry(attempts)
    BY <1>0, <1>1, <1>3 DEF Fits, StopFits, SocketFits, RetryFits, Sockets
  <2>4. /\ hearts \subseteq HeartType /\ \A h \in hearts : h.stopped
    BY <1>1, OthersStopped
  <2>5. /\ socket \in Nat /\ socket # 0 /\ attempts \in Nat /\ Len(reports) = socket
        /\ (setup.cap # Unlimited => attempts <= setup.cap)
    BY <1>0, <1>1, <2>3, Others DEF Fits, ReportFits, Before
  <2>6. socket + 1 \in Nat /\ socket + 1 # 0 /\ Len(reports) = (socket + 1) - 1 BY <2>5
  <2>7. StopFits' BY <1>0, <1>1, <1>3, <2>3 DEF Fits, StopFits
  <2>8. SocketFits' /\ CloseFits'
    <3>1. loop' \notin Sockets BY <1>3 DEF Dials, Sockets
    <3> QED BY <3>1, <1>1, <2>1, <2>2, <2>3 DEF SocketFits, CloseFits
  <2>9. ReportFits'
    <3>1. loop' \notin Before BY <1>3 DEF Dials, Before
    <3> QED BY <3>1, <1>1, <2>1, <2>2, <2>6 DEF ReportFits, Before
  <2>10. CASE setup.hello
    <3>1. /\ loop' = "hello" /\ hello' = "sent" /\ established' = FALSE
          /\ willRetry' = ShouldRetry(attempts + 1)
          /\ attempts' = attempts /\ hearts' = hearts
      BY <1>3, <2>10 DEF Dials
    <3>2. /\ established' \in BOOLEAN /\ willRetry' \in BOOLEAN
          /\ willRetry' <=> ShouldRetry(attempts + 1)
      BY Zenon, <3>1 DEF ShouldRetry
    <3>3. TypeOK' BY <1>0, <1>1, <2>1, <2>2, <2>4, <2>6, <3>1, <3>2 DEF TypeOK, HeartType
    <3>4. HelloFits' BY <2>2, <3>1 DEF HelloFits
    <3>5. RetryFits'
      <4>1. ShouldRetry(attempts)' /\ (willRetry' <=> ShouldRetry(attempts + 1)')
        BY <1>1, <2>3, <3>1, <3>2 DEF ShouldRetry
      <4> QED BY <4>1, <1>1, <2>3, <3>1 DEF RetryFits, Sockets
    <3>6. HeartFits' BY <2>4, <3>1 DEF HeartFits
    <3> QED BY <2>7, <2>8, <2>9, <3>3, <3>4, <3>5, <3>6 DEF ReconnectInv, Fits
  <2>11. CASE ~setup.hello
    <3>1. /\ loop' = "serving" /\ hello' = "none" /\ established' = TRUE
          /\ willRetry' = ShouldRetry(0) /\ attempts' = 0
          /\ StartHeartbeat(socket + 1)
      BY <1>3, <2>11 DEF Dials
    <3>2. established' \in BOOLEAN /\ willRetry' \in BOOLEAN /\ (willRetry' <=> ShouldRetry(0))
      BY Zenon, <3>1 DEF ShouldRetry
    <3>3. /\ hearts' \subseteq HeartType
          /\ \A h \in hearts' : h \in hearts \/ h.socket = socket + 1
      BY <1>0, <2>6, <3>1, StartHeartbeatStep
    <3>4. setup.cap # Unlimited => 0 <= setup.cap
      BY <1>0, <2>3, <2>5, CapHolds, ReconnectAssumption, Others DEF ReconnectAssumption, Setup
    <3>5. TypeOK' BY <1>0, <1>1, <2>1, <2>2, <2>6, <3>1, <3>2, <3>3, <3>4 DEF TypeOK, HeartType
    <3>6. HelloFits' BY <3>1 DEF HelloFits
    <3>7. RetryFits'
      <4>1. willRetry' <=> ShouldRetry(0)' BY <1>1, <3>2 DEF ShouldRetry
      <4> QED BY <4>1, <1>1, <2>3, <3>1 DEF RetryFits, Sockets
    <3>8. HeartFits' BY <1>1, <2>1, <2>3, <2>4, <3>1, <3>3 DEF HeartFits
    <3> QED BY <2>7, <2>8, <2>9, <3>5, <3>6, <3>7, <3>8 DEF ReconnectInv, Fits
  <2> QED BY <2>10, <2>11
<1> QED BY <1>2, <1>3

LEMMA HelloAcknowledgedStep == ASSUME ReconnectInv, HelloAcknowledged PROVE ReconnectInv'
<1>0. TypeOK /\ Fits BY DEF ReconnectInv
<1>1. /\ hello = "sent" /\ isOpen /\ hello' = "acknowledged"
      /\ UNCHANGED <<setup, stopped, serve, socket, isOpen, final, goaway, live, closing, reports, losses>>
  BY DEF HelloAcknowledged
<1>2. loop \in {"establish", "hello"} /\ ~final
  BY <1>0, <1>1 DEF Fits, HelloFits, RetryFits
<1>3. /\ socket \in Nat /\ socket # 0
      /\ Len(reports) = socket - 1
  BY <1>0, <1>1, <1>2, Others DEF Fits, ReportFits, Before
<1>4. CASE stopped
  <2>1. loop' = "leaving" /\ CloseSocketLocally /\ UNCHANGED <<attempts, hearts, established, willRetry>>
    BY <1>4 DEF HelloAcknowledged
  <2>2. conn' \in {"open", "closing", "closed"} /\ conn' # "open"
    BY <1>0, <2>1 DEF CloseSocketLocally, TypeOK
  <2>3. hearts \subseteq HeartType /\ \A h \in hearts : h.stopped BY <1>2, OthersStopped
  <2> QED
    BY <1>1, <1>2, <1>3, <2>1, <2>2, <2>3 DEF ReconnectInv, TypeOK, Fits, StopFits, HelloFits,
       SocketFits, RetryFits, HeartFits, CloseFits, ReportFits, ShouldRetry, Sockets, Before
<1>5. CASE ~stopped
  <2>1. /\ loop' = "serving" /\ established' = TRUE
        /\ attempts' = 0 /\ willRetry' = ShouldRetry(0)
        /\ StartHeartbeat(socket) /\ conn' = conn
    BY <1>5 DEF HelloAcknowledged
  <2>2. established' \in BOOLEAN /\ willRetry' \in BOOLEAN /\ (willRetry' <=> ShouldRetry(0))
    BY Zenon, <2>1 DEF ShouldRetry
  <2>3. closing = "none" BY <1>0, <1>2, <1>5 DEF Fits, StopFits
  <2>4. hearts \subseteq HeartType /\ \A h \in hearts : h.stopped BY <1>2, OthersStopped
  <2>5. hearts' \subseteq HeartType /\ \A h \in hearts' : h \in hearts \/ h.socket = socket
    BY <1>0, <1>3, <2>1, StartHeartbeatStep
  <2>6. setup.cap # Unlimited => 0 <= setup.cap
    BY <1>0, ReconnectAssumption, Others DEF ReconnectAssumption, Setup
  <2>7. TypeOK' BY <1>0, <1>1, <2>1, <2>2, <2>5, <2>6 DEF TypeOK, HeartType
  <2>8. StopFits' /\ HelloFits' /\ SocketFits' /\ CloseFits' /\ ReportFits'
    BY <1>0, <1>1, <1>2, <1>3, <1>5, <2>1, <2>3 DEF Fits, StopFits, HelloFits, SocketFits, CloseFits,
       ReportFits, Sockets, Before
  <2>9. RetryFits'
    <3>1. willRetry' <=> ShouldRetry(0)' BY <1>1, <2>2 DEF ShouldRetry
    <3>2. ~final' BY <1>1, <1>2
    <3> QED BY <3>1, <3>2, <2>1 DEF RetryFits, Sockets
  <2>10. HeartFits' BY <1>1, <2>1, <2>3, <2>4, <2>5 DEF HeartFits
  <2> QED BY <2>7, <2>8, <2>9, <2>10 DEF ReconnectInv, Fits
<1> QED BY <1>4, <1>5

(* The catch of establish() and that of redial().                          *)
LEMMA HelloFailsStep == ASSUME ReconnectInv, HelloFails PROVE ReconnectInv'
<1>0. TypeOK /\ Fits BY DEF ReconnectInv
<1>1. /\ CloseSocketLocally
      /\ UNCHANGED <<setup, stopped, attempts, hearts, serve, socket, established, willRetry, goaway,
                     closing, losses>>
  BY DEF HelloFails
<1>2. conn' \in {"open", "closing", "closed"} /\ conn' # "open"
  BY <1>0, <1>1 DEF CloseSocketLocally, TypeOK
<1>3. socket \in Nat /\ Len(reports) \in Nat /\ reports \in Seq(Report) BY <1>0, Others
<1>4. CASE loop = "establish"
  <2>1. loop' = "raising" /\ FailStreams /\ reports' = reports /\ final' = final
    BY <1>4 DEF HelloFails
  <2>2. isOpen' \in BOOLEAN /\ ~isOpen' /\ live' \in BOOLEAN
    <3>1. isOpen' = FALSE /\ live' = (live /\ ~isOpen) BY <2>1 DEF FailStreams
    <3> QED BY Zenon, <3>1
  <2>3. hello' \in {"none", "sent", "acknowledged", "failed"} /\ hello' # "sent"
    <3>1. hello' = IF isOpen /\ hello = "sent" THEN "failed" ELSE hello BY <2>1 DEF FailStreams
    <3> QED BY <3>1, <1>0 DEF TypeOK, Fits, HelloFits
  <2>4. hearts \subseteq HeartType /\ \A h \in hearts : h.stopped BY <1>4, OthersStopped
  <2>5. TypeOK' BY <1>0, <1>1, <1>2, <2>1, <2>2, <2>3 DEF TypeOK
  <2>6. closing = "none" BY <1>0, <1>4 DEF Fits, StopFits, Before
  <2>7. StopFits' /\ HelloFits' /\ SocketFits' /\ CloseFits' /\ ReportFits'
    BY <1>0, <1>1, <1>2, <1>4, <2>1, <2>2, <2>3, <2>6 DEF Fits, StopFits, HelloFits, SocketFits,
       CloseFits, ReportFits, Sockets, Before
  <2>8. RetryFits'
    BY <1>0, <1>1, <2>1, <2>2 DEF Fits, RetryFits, Sockets
  <2>9. HeartFits' BY <1>1, <2>4 DEF HeartFits
  <2> QED BY <2>5, <2>7, <2>8, <2>9 DEF ReconnectInv, Fits
<1>5. CASE loop = "hello"
  <2>1. loop' = "failing" /\ Die("hello") BY <1>5 DEF HelloFails
  <2>2. "hello" \in Cause /\ HelloFits /\ RetryFits BY <1>0 DEF Cause, Fits
  <2>3. /\ isOpen' \in BOOLEAN /\ ~isOpen'
        /\ live' \in BOOLEAN
        /\ hello' \in {"none", "sent", "acknowledged", "failed"} /\ hello' # "sent"
        /\ final' \in BOOLEAN
        /\ reports' \in Seq(Report)
        /\ isOpen => (final' <=> ~willRetry)
        /\ ~isOpen => final' = final /\ reports' = reports
        /\ final' => ~willRetry
        /\ isOpen /\ loop # "establish" => Len(reports') = Len(reports) + 1
    BY <1>0, <2>1, <2>2, DieStep
  <2>4. hearts \subseteq HeartType /\ \A h \in hearts : h.stopped BY <1>5, OthersStopped
  <2>5. TypeOK' BY <1>0, <1>1, <1>2, <2>1, <2>3 DEF TypeOK, Report
  <2>6. StopFits' /\ HelloFits' /\ SocketFits'
    BY <1>0, <1>1, <1>2, <1>5, <2>1, <2>3 DEF Fits, StopFits, HelloFits, SocketFits, Sockets, Before
  <2>7. CloseFits'
    BY <1>0, <1>1, <1>2, <2>3 DEF Fits, StopFits, CloseFits
  <2>8. ReportFits'
    BY <1>0, <1>1, <1>3, <1>5, <2>1, <2>3 DEF Fits, ReportFits, RetryFits, Before
  <2>9. RetryFits'
    BY <1>0, <1>1, <1>5, <2>1, <2>3 DEF Fits, RetryFits, ShouldRetry, Sockets
  <2>10. HeartFits' BY <1>1, <2>4 DEF HeartFits
  <2> QED BY <2>5, <2>6, <2>7, <2>8, <2>9, <2>10 DEF ReconnectInv, Fits
<1> QED BY <1>4, <1>5 DEF HelloFails

----------------------------------------------------------------------------
(* close().                                                                *)

LEMMA CloseStep == ASSUME ReconnectInv, Close PROVE ReconnectInv'
<1>0. TypeOK /\ Fits BY DEF ReconnectInv
<1>1. /\ closing = "none" /\ loop \notin Before /\ closing' = "called"
      /\ willRetry' = FALSE /\ stopped' = (loop # "absent")
      /\ StopHeartbeat
      /\ UNCHANGED <<setup, loop, attempts, socketVars, isOpen, established, final, streamVars,
                     reports, losses>>
  BY DEF Close, Before
<1>2. willRetry' \in BOOLEAN /\ ~willRetry' /\ stopped' \in BOOLEAN /\ (stopped' <=> loop # "absent")
  BY Zenon, <1>1
<1>3. hearts' \subseteq HeartType /\ \A h \in hearts' : h.stopped BY <1>0, <1>1, StopHeartbeatStep
<1>4. TypeOK' BY <1>0, <1>1, <1>2, <1>3 DEF TypeOK, HeartType, socketVars, streamVars
<1>5. StopFits' /\ HelloFits' /\ SocketFits' /\ HeartFits' /\ CloseFits' /\ ReportFits'
  BY <1>0, <1>1, <1>2, <1>3 DEF Fits, StopFits, HelloFits, SocketFits, HeartFits, CloseFits,
     ReportFits, Sockets, Before, socketVars, streamVars
<1>6. RetryFits'
  <2>1. final' => ~isOpen' BY <1>0, <1>1 DEF Fits, RetryFits
  <2> QED BY <1>0, <1>1, <1>2, <2>1 DEF Fits, RetryFits, ShouldRetry
<1> QED BY <1>4, <1>5, <1>6 DEF ReconnectInv, Fits

LEMMA SendGoawayStep == ASSUME ReconnectInv, SendGoaway PROVE ReconnectInv'
<1>0. TypeOK /\ Fits BY DEF ReconnectInv
<1>1. /\ closing = "called"
      /\ UNCHANGED <<loopVars, hearts, socketVars, isOpen, established, willRetry, hello, live, losses>>
  BY DEF SendGoaway
<1>2. CASE isOpen
  <2>1. closing' = "draining" /\ goaway' = TRUE /\ reports' = reports /\ final' = final
    BY <1>2 DEF SendGoaway
  <2>2. goaway' \in BOOLEAN BY Zenon, <2>1
  <2> QED
    BY <1>1, <1>2, <2>1, <2>2 DEF ReconnectInv, TypeOK, Fits, StopFits, HelloFits, SocketFits, RetryFits,
       HeartFits, CloseFits, ReportFits, ShouldRetry, loopVars, socketVars
<1>3. CASE ~isOpen
  <2>1. closing' = "done" /\ NotifyClose(FALSE, "closed") /\ goaway' = goaway
    BY <1>3 DEF SendGoaway
  <2>2. "closed" \in Cause BY DEF Cause
  <2>3. reports' \in Seq(Report) /\ final' \in BOOLEAN /\ final'
    BY <1>0, <1>3, <2>1, <2>2, FinalStep
  <2>4. TypeOK' BY <1>0, <1>1, <2>1, <2>3 DEF TypeOK, Report, loopVars, socketVars
  <2>5. ~willRetry /\ loop \notin Before BY <1>0, <1>1 DEF Fits, StopFits
  <2> QED
    BY <1>0, <1>1, <1>3, <2>1, <2>3, <2>4, <2>5 DEF ReconnectInv, Fits, StopFits, HelloFits, SocketFits,
       RetryFits, HeartFits, CloseFits, ReportFits, ShouldRetry, Before, loopVars, socketVars
<1> QED BY <1>2, <1>3

LEMMA DrainedStep == ASSUME ReconnectInv, Drained PROVE ReconnectInv'
<1>0. TypeOK BY DEF ReconnectInv
<1>1. /\ closing = "draining" /\ closing' = "closing" /\ CloseSocketLocally
      /\ UNCHANGED <<loopVars, hearts, serve, socket, peerVars, streamVars, reports, losses>>
  BY DEF Drained
<1>2. conn' \in {"open", "closing", "closed"} /\ conn' # "open"
  BY <1>0, <1>1 DEF CloseSocketLocally, TypeOK
<1> QED
  BY <1>1, <1>2 DEF ReconnectInv, TypeOK, Fits, StopFits, HelloFits, SocketFits, RetryFits,
     HeartFits, CloseFits, ReportFits, ShouldRetry, loopVars, peerVars, streamVars

LEMMA CloseReturnsStep == ASSUME ReconnectInv, CloseReturns PROVE ReconnectInv'
<1>0. TypeOK /\ Fits BY DEF ReconnectInv
<1>1. /\ closing = "closing" /\ closing' = "done" /\ Die("closed")
      /\ UNCHANGED <<loopVars, hearts, socketVars, established, willRetry, goaway, losses>>
  BY DEF CloseReturns
<1>2. "closed" \in Cause /\ HelloFits /\ RetryFits BY <1>0 DEF Cause, Fits
<1>3. /\ isOpen' \in BOOLEAN /\ ~isOpen'
      /\ live' \in BOOLEAN
      /\ hello' \in {"none", "sent", "acknowledged", "failed"} /\ hello' # "sent"
      /\ final' \in BOOLEAN
      /\ reports' \in Seq(Report)
      /\ isOpen => (final' <=> ~willRetry)
      /\ ~isOpen => final' = final /\ reports' = reports
      /\ final' => ~willRetry
  BY <1>0, <1>1, <1>2, DieStep
<1>4. ~willRetry /\ loop \notin Before /\ conn # "open"
  BY <1>0, <1>1 DEF Fits, StopFits, CloseFits
<1>5. final' BY <1>0, <1>1, <1>3, <1>4 DEF Fits, CloseFits
<1>6. TypeOK' BY <1>0, <1>1, <1>3 DEF TypeOK, Report, loopVars, socketVars
<1> QED
  BY <1>0, <1>1, <1>3, <1>4, <1>5, <1>6 DEF ReconnectInv, Fits, StopFits, HelloFits, SocketFits, RetryFits,
     HeartFits, CloseFits, ReportFits, ShouldRetry, Sockets, Before, loopVars, socketVars

----------------------------------------------------------------------------
LEMMA ReconnectNext == ReconnectInv /\ [Next]_vars => ReconnectInv'
<1> SUFFICES ASSUME ReconnectInv, [Next]_vars PROVE ReconnectInv' OBVIOUS
<1>1. CASE Open \/ RemoteOpens \/ StreamEnds BY <1>1, StreamStep
<1>2. CASE HelloAcknowledged BY <1>2, HelloAcknowledgedStep
<1>3. CASE SocketLost \/ SocketCloses BY <1>3, SocketStep
<1>4. CASE FailConnection BY <1>4, FailConnectionStep
<1>5. CASE Heartbeats BY <1>5, BeatsOn, PingRejectsStep DEF Heartbeats
<1>6. CASE Close BY <1>6, CloseStep
<1>7. CASE Serve BY <1>7, ReadLoopDies, ServeReturnsStep DEF Serve
<1>8. CASE Supervise
  BY <1>8, SocketDiedStep, BackoffEndsStep, DialFailsStep, DialsStep, HelloFailsStep, AbandonedStep
  DEF Supervise
<1>9. CASE Closes BY <1>9, SendGoawayStep, DrainedStep, CloseReturnsStep DEF Closes
<1>10. CASE UNCHANGED vars
  BY <1>10 DEF ReconnectInv, TypeOK, Fits, StopFits, HelloFits, SocketFits, RetryFits, HeartFits,
     CloseFits, ReportFits, ShouldRetry, vars, loopVars, socketVars, peerVars, streamVars
<1> QED BY <1>1, <1>2, <1>3, <1>4, <1>5, <1>6, <1>7, <1>8, <1>9, <1>10 DEF Next

LEMMA ReconnectAlways == Spec => []ReconnectInv
BY ReconnectInit, ReconnectNext, PTL DEF Spec

(* The only steps that take another socket.                                *)
LEMMA OnlyDialsAdopt ==
    ASSUME Next, socket' # socket
    PROVE  Dials /\ ~stopped
<1>1. CASE Dials BY <1>1 DEF Dials, socketVars
<1>2. CASE Heartbeats
  BY <1>2 DEF Heartbeats, HeartbeatSleeps, HeartbeatReturns, Pong, PingRejects, socketVars
<1>3. CASE Serve BY <1>3 DEF Serve, ReceiveRejects, ConnectionFailed, ServeReturns
<1>4. CASE Closes BY <1>4 DEF Closes, SendGoaway, Drained, CloseReturns, socketVars
<1>5. CASE SocketDied \/ BackoffEnds \/ DialFails \/ HelloFails \/ Abandoned
  BY <1>5 DEF SocketDied, BackoffEnds, DialFails, HelloFails, Abandoned, socketVars
<1>6. CASE Open \/ RemoteOpens \/ StreamEnds \/ HelloAcknowledged \/ SocketLost \/ SocketCloses
           \/ FailConnection \/ Close
  BY <1>6 DEF Open, RemoteOpens, StreamEnds, HelloAcknowledged, SocketLost, SocketCloses,
     FailConnection, Close, socketVars
<1> QED BY <1>1, <1>2, <1>3, <1>4, <1>5, <1>6 DEF Next, Supervise

----------------------------------------------------------------------------
(* The helper, the peer and the heartbeats keep their types, and the       *)
(* attempts never pass the cap.  (ConnectionLoop, Peer, Heartbeat)         *)
THEOREM ReconnectTypeCorrect == Spec => []TypeOK
<1>1. ReconnectInv => TypeOK BY DEF ReconnectInv
<1> QED BY <1>1, ReconnectAlways, PTL

(* When the helper is about to dial again, every socket so far has been    *)
(* reported lost exactly once, by whoever noticed first; a connect() that  *)
(* rejects has reported nothing.  (die, notifyClose, supervise, redial)    *)
THEOREM LossesAreReportedOnce == Spec => []OncePerLoss
<1>1. ReconnectInv => OncePerLoss
  <2> SUFFICES ASSUME ReconnectInv PROVE OncePerLoss OBVIOUS
  <2>1. loop \in Sockets => ~isOpen BY DEF ReconnectInv, Fits, SocketFits
  <2> QED BY <2>1 DEF ReconnectInv, Fits, ReportFits, OncePerLoss, Sockets, Before
<1> QED BY <1>1, ReconnectAlways, PTL

(* No heartbeat of a lost socket can declare its replacement dead, and     *)
(* close() returns only when socket, peer and helper are done for and the  *)
(* final close is reported.  (Heartbeat.stop, close, ConnectionLoop.stop)  *)
THEOREM NothingOutlivesItsSocket == Spec => []NothingOutlives
<1>1. ReconnectInv => NothingOutlives
  BY DEF ReconnectInv, Fits, HeartFits, CloseFits, SocketFits, NothingOutlives, HeartbeatOnItsSocket,
     CloseIsComplete
<1> QED BY <1>1, ReconnectAlways, PTL

(* After a close that is final no socket is taken, whichever of read loop, *)
(* heartbeat, hello and close() made it final.  (notifyClose, redial)      *)
THEOREM FinalReportIsFinal == Spec => FinalIsFinal
<1>1. ReconnectInv /\ [Next]_vars => [final => socket' = socket]_vars
  <2> SUFFICES ASSUME ReconnectInv, Next, final, socket' # socket PROVE FALSE OBVIOUS
  <2>1. Dials /\ ~stopped BY OnlyDialsAdopt
  <2>2. loop = "dialling" BY <2>1 DEF Dials
  <2> QED BY <2>1, <2>2 DEF ReconnectInv, Fits, StopFits, RetryFits, Sockets
<1> QED BY <1>1, ReconnectAlways, PTL DEF Spec, FinalIsFinal

(* A socket is adopted only when the read loop of the last has returned.   *)
(* (abandonSocket, adoptSocket)                                            *)
THEOREM OneReadLoop == Spec => ReadLoopGone
<1>1. ReconnectInv /\ [Next]_vars => [socket' # socket => serve = "done"]_vars
  <2> SUFFICES ASSUME ReconnectInv, Next, socket' # socket PROVE serve = "done" OBVIOUS
  <2>1. loop = "dialling" BY OnlyDialsAdopt DEF Dials
  <2> QED BY <2>1 DEF ReconnectInv, Fits, SocketFits, Sockets
<1> QED BY <1>1, ReconnectAlways, PTL DEF Spec, ReadLoopGone

(* What a close is put down to: after close() never to a missed pong.      *)
LEMMA Causes ==
    ASSUME ReconnectInv, Next, closing # "none", reports' # reports
    PROVE  reports'[Len(reports')].cause # "no_pong"
<1> DEFINE Told(cause) == reports'[Len(reports')].cause = cause
<1>0. TypeOK /\ HelloFits /\ RetryFits BY DEF ReconnectInv, Fits
<1>1. ASSUME NEW cause \in Cause, Die(cause) PROVE Told(cause)
  BY <1>0, <1>1, DieStep
<1>2. ASSUME NEW cause \in Cause, NotifyClose(FALSE, cause) PROVE Told(cause)
  BY <1>0, <1>2, NotifyStep
<1>3. /\ {"lost", "protocol", "hello", "closed", "gave_up"} \subseteq Cause
  BY DEF Cause
<1> HIDE DEF Told
<1>4. CASE Serve \/ Closes
  <2>1. \/ Die("lost") \/ Die("protocol") \/ Die("closed") \/ NotifyClose(FALSE, "closed")
    BY <1>4 DEF Serve, ReceiveRejects, ConnectionFailed, ServeReturns, Closes, SendGoaway, Drained,
       CloseReturns
  <2>2. Told("lost") \/ Told("protocol") \/ Told("closed") BY <2>1, <1>1, <1>2, <1>3
  <2> QED BY <2>2 DEF Told
<1>5. CASE Supervise
  <2>1. \/ GiveUp \/ Die("hello")
    BY <1>5 DEF Supervise, SocketDied, BackoffEnds, DialFails, Dials, HelloFails, Abandoned, NextAttempt
  <2>2. Told("gave_up") \/ Told("hello") BY <2>1, <1>1, <1>2, <1>3 DEF GiveUp
  <2> QED BY <2>2 DEF Told
<1>6. CASE Heartbeats
  <2>1. \A h \in hearts : h.stopped BY Booleans, Others, <1>0 DEF ReconnectInv, Fits, HeartFits, HeartType
  <2>2. reports' = reports
    BY <1>6, <2>1 DEF Heartbeats, HeartbeatSleeps, HeartbeatReturns, Pong, PingRejects
  <2> QED BY <2>2
<1>7. CASE Open \/ RemoteOpens \/ StreamEnds \/ HelloAcknowledged \/ SocketLost \/ SocketCloses
           \/ FailConnection \/ Close
  BY <1>7 DEF Open, RemoteOpens, StreamEnds, HelloAcknowledged, SocketLost, SocketCloses,
     FailConnection, Close
<1> QED BY <1>4, <1>5, <1>6, <1>7 DEF Next

(* A close() is never reported as a missed pong, however long it drains.   *)
(* (Heartbeat.run, Heartbeat.stop, close)                                  *)
THEOREM ClosesAreNoMissedPongs == Spec => CloseIsNoMissedPong
<1>1. ReconnectInv /\ [Next]_vars =>
        [closing # "none" /\ reports' # reports => reports'[Len(reports')].cause # "no_pong"]_vars
  BY Causes
<1> QED BY <1>1, ReconnectAlways, PTL DEF Spec, CloseIsNoMissedPong

(* The backoff starts over only on a connection that is established, which *)
(* with a hello takes its acknowledgement.  (redial, AttemptCounter)       *)
THEOREM BackoffStartsOver == Spec => ResetOnlyWhenEstablished
<1>1. ReconnectInv /\ [Next]_vars =>
        [attempts' < attempts => established' /\ (setup.hello => hello' = "acknowledged")]_vars
  <2> SUFFICES ASSUME ReconnectInv, Next, attempts' < attempts
               PROVE  established' /\ (setup.hello => hello' = "acknowledged")
    OBVIOUS
  <2>1. attempts \in Nat /\ attempts' # attempts /\ attempts' # attempts + 1
    BY Others DEF ReconnectInv
  <2>2. HelloAcknowledged \/ Dials
    <3>1. ~(Open \/ RemoteOpens \/ StreamEnds \/ SocketLost \/ SocketCloses \/ FailConnection \/ Close)
      BY <2>1 DEF Open, RemoteOpens, StreamEnds, SocketLost, SocketCloses, FailConnection, Close, loopVars
    <3>2. ~(Heartbeats \/ Serve \/ Closes)
      BY <2>1 DEF Heartbeats, HeartbeatSleeps, HeartbeatReturns, Pong, PingRejects, Serve, ReceiveRejects,
         ConnectionFailed, ServeReturns, Closes, SendGoaway, Drained, CloseReturns, loopVars
    <3>3. ~(SocketDied \/ BackoffEnds \/ DialFails \/ HelloFails \/ Abandoned)
      BY <2>1 DEF SocketDied, BackoffEnds, DialFails, HelloFails, Abandoned, NextAttempt
    <3> QED BY <3>1, <3>2, <3>3 DEF Next, Supervise
  <2>3. CASE HelloAcknowledged
    <3>1. established' = TRUE /\ hello' = "acknowledged" BY <2>1, <2>3 DEF HelloAcknowledged
    <3> QED BY <3>1
  <2>4. CASE Dials
    <3>1. established' = TRUE /\ ~setup.hello BY <2>1, <2>4 DEF Dials
    <3> QED BY <3>1
  <2> QED BY <2>2, <2>3, <2>4
<1> QED BY <1>1, ReconnectAlways, PTL DEF Spec, ResetOnlyWhenEstablished
=============================================================================
