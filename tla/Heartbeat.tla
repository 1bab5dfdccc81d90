----------------------------- MODULE Heartbeat ------------------------------
(***************************************************************************)
(* The heartbeat of one socket with a clock (ts/reconnect.ts), the pings   *)
(* it and the application have outstanding (ts/peer.ts, PingRegistry in    *)
(* ts/lifecycle.ts), and a remote that may fall silent without closing.    *)
(*                                                                         *)
(* Timers fire on their tick: the clock does not pass a timer that is due. *)
(* A frame may wait in the write queue and on the wire for any time.       *)
(***************************************************************************)
EXTENDS Naturals, Sequences

CONSTANTS
    Interval,       \* pingIntervalMs, in ticks
    HeartTimeout,   \* pingTimeoutMs of the helper
    PingTimeout,    \* timeoutMs of a ping() of the application
    MaxPings,       \* bound: nonces
    MaxTime         \* bound: ticks

ASSUME HeartbeatAssumption ==
    /\ Interval \in Nat \ {0} /\ HeartTimeout \in Nat \ {0} /\ PingTimeout \in Nat \ {0}
    /\ MaxPings \in Nat /\ MaxTime \in Nat

Nonces == 1 .. MaxPings

VARIABLES
    now,
    open,           \* Peer.open_
    lastActivity,   \* Peer.lastActivityMs
    lastFrame,      \* history: the last frame that is not the heartbeat's own ping
    (* The heartbeat. *)
    heart,          \* "sleeping", "pinging", "ended"
    wake,           \* when its sleep ends
    stopped,
    beat,           \* the nonce it waits for
    missed,         \* history: it declared the socket dead
    (* The pings. *)
    used,           \* nonces made so far
    pending,        \* keys of PingRegistry.pending
    pingStarted,    \* the map of start times, as a set of pairs
    deadline,       \* the timer of each ping
    result,         \* how the call ended
    (* The socket. *)
    queued,         \* pings not yet written
    toRemote, toUs,
    alive           \* the remote reads and answers

clockVars == <<now, lastActivity, lastFrame>>
heartVars == <<heart, wake, stopped, beat, missed>>
pingVars == <<used, pending, pingStarted, deadline, result>>
wireVars == <<queued, toRemote, toUs, alive>>
vars == <<open, clockVars, heartVars, pingVars, wireVars>>

TypeOK ==
    /\ now \in 0 .. MaxTime
    /\ open \in BOOLEAN /\ stopped \in BOOLEAN /\ missed \in BOOLEAN /\ alive \in BOOLEAN
    /\ lastActivity \in 0 .. now /\ lastFrame \in 0 .. lastActivity
    /\ heart \in {"sleeping", "pinging", "ended"}
    /\ wake \in 0 .. MaxTime + Interval
    /\ beat \in 0 .. MaxPings
    /\ used \in 0 .. MaxPings
    /\ pending \subseteq Nonces
    /\ pingStarted \subseteq Nonces \X (0 .. now)
    /\ deadline \in [Nonces -> Nat]
    /\ result \in [Nonces -> {"unused", "waiting", "pong", "no pong", "lost"}]
    /\ queued \in Seq(Nonces) /\ toRemote \in Seq(Nonces) /\ toUs \in Seq(Nonces)

(* The socket is adopted and the heartbeat started: establishment counts   *)
(* as activity.                                                            *)
Init ==
    /\ now = 0 /\ lastActivity = 0 /\ lastFrame = 0
    /\ open = TRUE
    /\ heart = "sleeping" /\ wake = Interval /\ stopped = FALSE /\ beat = 0 /\ missed = FALSE
    /\ used = 0 /\ pending = {} /\ pingStarted = {}
    /\ deadline = [n \in Nonces |-> 0]
    /\ result = [n \in Nonces |-> "unused"]
    /\ queued = <<>> /\ toRemote = <<>> /\ toUs = <<>> /\ alive = TRUE

----------------------------------------------------------------------------
(* Time.                                                                   *)

HeartDue == heart = "sleeping" /\ (wake <= now \/ stopped \/ ~open)
Expired(n) == result[n] = "waiting" /\ deadline[n] <= now

Tick ==
    /\ now < MaxTime
    /\ ~HeartDue /\ \A n \in Nonces : ~Expired(n)
    /\ heart = "pinging" => result[beat] = "waiting"
    /\ now' = now + 1
    /\ UNCHANGED <<open, lastActivity, lastFrame, heartVars, pingVars, wireVars>>

(* A frame other than the heartbeat's ping is sent or received. *)
Stamp ==
    /\ lastActivity' = now
    /\ lastFrame' = now
    /\ UNCHANGED now

----------------------------------------------------------------------------
(* Pings.                                                                  *)

(* Peer.ping up to its wait. *)
Ping(timeout) ==
    /\ used < MaxPings
    /\ LET n == used + 1 IN
       /\ used' = n
       /\ pending' = pending \union {n}
       /\ pingStarted' = pingStarted \union {<<n, now>>}
       /\ deadline' = [deadline EXCEPT ![n] = now + timeout]
       /\ result' = [result EXCEPT ![n] = "waiting"]
       /\ queued' = Append(queued, n)
    /\ UNCHANGED <<toRemote, toUs, alive>>

AppPings ==
    /\ open
    /\ Ping(PingTimeout)
    /\ UNCHANGED <<open, clockVars, heartVars>>

Forget(n) == {s \in pingStarted : s[1] # n}

(* Fault: a ping that gives up leaves its start time behind. *)
GiveUpLeaks(n) ==
    /\ pending' = pending \ {n}
    /\ UNCHANGED pingStarted

(* PingRegistry.giveUp, and the entry of pingStarted. *)
GiveUp(n) ==
    /\ pending' = pending \ {n}
    /\ pingStarted' = Forget(n)

(* The deadline of a ping: this call fails, the connection stays. *)
PingExpires(n) ==
    /\ Expired(n)
    /\ GiveUp(n)
    /\ result' = [result EXCEPT ![n] = "no pong"]
    /\ deadline' = [deadline EXCEPT ![n] = 0]
    /\ UNCHANGED <<open, clockVars, heartVars, used, wireVars>>

(* Fault: a pong is matched by order, not by nonce. *)
AnsweredInOrder(n) == {m \in pending : \A k \in pending : m <= k}

(* PingRegistry.settle: the ping this nonce belongs to, if it still waits. *)
Answered(n) == pending \intersect {n}

(* onPong. *)
PongArrives ==
    /\ open /\ toUs # <<>>
    /\ LET n == Head(toUs) IN
       /\ pending' = pending \ Answered(n)
       /\ pingStarted' = {s \in pingStarted : s[1] \notin Answered(n)}
       /\ result' = [m \in Nonces |-> IF m \in Answered(n) THEN "pong" ELSE result[m]]
       /\ deadline' = [m \in Nonces |-> IF m \in Answered(n) THEN 0 ELSE deadline[m]]
    /\ toUs' = Tail(toUs)
    /\ Stamp
    /\ UNCHANGED <<open, heartVars, used, queued, toRemote, alive>>

(* Peer.die, as far as the pings go: all are rejected, none is written, and *)
(* what was on the wire goes with the socket.                              *)
Die ==
    /\ open' = FALSE
    /\ pending' = {} /\ pingStarted' = {}
    /\ result' = [n \in Nonces |-> IF result[n] = "waiting" THEN "lost" ELSE result[n]]
    /\ deadline' = [n \in Nonces |-> 0]
    /\ queued' = <<>> /\ toRemote' = <<>> /\ toUs' = <<>>
    /\ UNCHANGED <<used, alive>>

SocketLost ==
    /\ open
    /\ Die
    /\ UNCHANGED <<clockVars, heartVars>>

----------------------------------------------------------------------------
(* Traffic.                                                                *)

(* The write loop sends the ping at the head of the queue; only the        *)
(* heartbeat's own leaves lastFrame alone.                                 *)
Writes ==
    /\ open /\ queued # <<>>
    /\ queued' = Tail(queued)
    /\ toRemote' = IF alive THEN Append(toRemote, Head(queued)) ELSE toRemote
    /\ IF Head(queued) = beat
       THEN lastActivity' = now /\ UNCHANGED <<now, lastFrame>>
       ELSE Stamp
    /\ UNCHANGED <<open, heartVars, pingVars, toUs, alive>>

(* reportFrame for any other frame, sent or, from a living remote, received. *)
Traffic ==
    /\ open
    /\ Stamp
    /\ UNCHANGED <<open, heartVars, pingVars, wireVars>>

RemoteAnswers ==
    /\ alive /\ toRemote # <<>>
    /\ toRemote' = Tail(toRemote)
    /\ toUs' = Append(toUs, Head(toRemote))
    /\ UNCHANGED <<open, clockVars, heartVars, pingVars, queued, alive>>

(* What it has not read is never read. *)
FallsSilent ==
    /\ alive
    /\ alive' = FALSE /\ toRemote' = <<>>
    /\ UNCHANGED <<open, clockVars, heartVars, pingVars, queued, toUs>>

----------------------------------------------------------------------------
(* Heartbeat.run.                                                          *)

Idle == now - lastActivity

(* Fault: the whole interval is slept again after activity. *)
SleepAnew == wake' = now + Interval

Sleep == wake' = lastActivity + Interval

(* The head of the loop, after a sleep or an answered ping.                *)
Beat ==
    \/ /\ stopped \/ ~open
       /\ heart' = "ended"
       /\ UNCHANGED <<wake, beat, used, pending, pingStarted, deadline, result, queued>>
    \/ /\ ~stopped /\ open /\ Idle < Interval
       /\ Sleep
       /\ heart' = "sleeping"
       /\ UNCHANGED <<beat, used, pending, pingStarted, deadline, result, queued>>
    \/ /\ ~stopped /\ open /\ Idle >= Interval
       /\ Ping(HeartTimeout)
       /\ heart' = "pinging" /\ beat' = used + 1
       /\ UNCHANGED wake

HeartWakes ==
    /\ HeartDue
    /\ Beat
    /\ UNCHANGED <<open, clockVars, stopped, missed, toRemote, toUs, alive>>

PingAnswered ==
    /\ heart = "pinging" /\ result[beat] = "pong"
    /\ Beat
    /\ UNCHANGED <<open, clockVars, stopped, missed, toRemote, toUs, alive>>

(* The ping rejects: with its deadline, or because the socket is gone.     *)
(* stopped is read again, and die() is idempotent.                         *)
PingFails ==
    /\ heart = "pinging" /\ result[beat] \in {"no pong", "lost"}
    /\ heart' = "ended"
    /\ IF ~stopped /\ open THEN Die /\ missed' = TRUE
       ELSE UNCHANGED <<open, missed, pingVars, wireVars>>
    /\ UNCHANGED <<clockVars, wake, stopped, beat>>

Stop ==
    /\ ~stopped
    /\ stopped' = TRUE
    /\ UNCHANGED <<open, clockVars, heart, wake, beat, missed, pingVars, wireVars>>

Next ==
    \/ Tick \/ AppPings \/ PongArrives \/ SocketLost \/ Writes \/ Traffic
    \/ RemoteAnswers \/ FallsSilent \/ HeartWakes \/ PingAnswered \/ PingFails \/ Stop
    \/ \E n \in Nonces : PingExpires(n)

Spec == Init /\ [][Next]_vars

----------------------------------------------------------------------------
(* A connection never stays open longer than interval plus timeout after   *)
(* the last frame in either direction, whatever pings are outstanding,     *)
(* queued or late.  A pong is such a frame, and so is anything this peer   *)
(* sends: a peer that keeps sending to a silent remote is not covered.     *)
(* (WSM-RCN-011; Heartbeat.run, reportFrame)                               *)
DetectedInTime ==
    open /\ ~stopped => now <= lastFrame + Interval + HeartTimeout

(* The heartbeat declares a socket dead only if its own ping got no pong   *)
(* within the deadline; a pong of another ping does not save it and a late *)
(* one does not settle a later ping: what a ping returns is its own round  *)
(* trip.  (PingRegistry.settle, onPong, ping)                              *)
OwnPong ==
    [][\A n \in Nonces :
         /\ result[n] = "waiting" /\ result'[n] = "pong"
              => toUs # <<>> /\ Head(toUs) = n
         /\ ~missed /\ missed' => result[beat] = "no pong"
      ]_vars

(* The two maps of pings agree and hold exactly the calls that wait, each  *)
(* of which is settled by its deadline: nothing leaks for a ping that gave *)
(* up, was lost with the socket, or was answered late.                     *)
(* (ping, onPong, giveUp, failAll)                                         *)
PingsAccounted ==
    /\ pending = {n \in Nonces : result[n] = "waiting"}
    /\ pending = {s[1] : s \in pingStarted}
    /\ \A n \in pending : now <= deadline[n]
    /\ \A s \in pingStarted : deadline[s[1]] - s[2] \in {HeartTimeout, PingTimeout}
============================================================================
