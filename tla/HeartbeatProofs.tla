--------------------------- MODULE HeartbeatProofs --------------------------
(***************************************************************************)
(* Proofs about Heartbeat.tla, for every interval, deadline, number of     *)
(* pings and length of time: a silent socket is given up in time, a ping   *)
(* is answered by its own pong, and the books of the pings are exact.      *)
(*                                                                         *)
(* HeartInv is the invariant.  Books is PingsAccounted with what the later *)
(* nonces are; OneFrame says that a ping is in at most one place on its    *)
(* way; Timely relates the heartbeat's wake and deadline to the last frame *)
(* and rests on Own: only a ping that still waits can move lastActivity    *)
(* away from lastFrame.                                                    *)
(***************************************************************************)
EXTENDS Heartbeat, SequenceTheorems, TLAPS

Bound == lastFrame + Interval + HeartTimeout

Books ==
    /\ \A n \in Nonces : result[n] = "unused" <=> n > used
    /\ pending = {n \in Nonces : result[n] = "waiting"}
    /\ \A s \in pingStarted : s[1] \in pending
    /\ \A n \in pending : \E s \in pingStarted : s[1] = n
    /\ \A n \in pending : now <= deadline[n]
    /\ \A s \in pingStarted : deadline[s[1]] - s[2] \in {HeartTimeout, PingTimeout}
    /\ open => \A n \in Nonces : result[n] # "lost"

Below(q) == \A i \in 1 .. Len(q) : q[i] <= used
Apart(q, r) == \A i \in 1 .. Len(q), j \in 1 .. Len(r) : q[i] # r[j]
Once(q) == \A i, j \in 1 .. Len(q) : q[i] = q[j] => i = j
Within(n, q) == \E i \in 1 .. Len(q) : q[i] = n

OneFrame ==
    /\ Below(queued) /\ Below(toRemote) /\ Below(toUs)
    /\ Once(queued)
    /\ Apart(queued, toRemote) /\ Apart(queued, toUs)

Beating == open /\ ~stopped

Own ==
    /\ beat <= used
    /\ heart = "pinging" => beat \in Nonces /\ result[beat] # "unused"
    /\ Beating /\ (heart = "sleeping" \/ (heart = "pinging" /\ result[beat] = "pong"))
         => lastActivity = lastFrame /\ ~Within(beat, queued)

Timely ==
    /\ heart = "ended" => ~Beating
    /\ Beating /\ heart = "sleeping" => now <= wake /\ wake <= lastFrame + Interval
    /\ Beating /\ heart = "pinging" => now <= Bound
    /\ Beating /\ heart = "pinging" /\ result[beat] = "waiting" => deadline[beat] <= Bound
    /\ Beating /\ heart = "pinging" /\ result[beat] = "pong" => lastFrame = now

HeartInv == TypeOK /\ Books /\ OneFrame /\ Own /\ Timely

----------------------------------------------------------------------------
(* What TypeOK says of the numbers, the books and the queues.              *)
LEMMA TypeFacts ==
    ASSUME TypeOK
    PROVE  /\ used \in Nat /\ used <= MaxPings /\ now \in Nat /\ now <= MaxTime /\ beat \in Nat /\ wake \in Nat
        /\ lastActivity \in Nat /\ lastActivity <= now /\ lastFrame \in Nat /\ lastFrame <= lastActivity
        /\ Interval \in Nat /\ HeartTimeout \in Nat /\ PingTimeout \in Nat /\ MaxPings \in Nat /\ MaxTime \in Nat
        /\ HeartTimeout >= 1 /\ Interval >= 1
        /\ pending \subseteq Nonces /\ pingStarted \subseteq Nonces \X (0 .. now)
        /\ deadline \in [Nonces -> Nat]
        /\ result \in [Nonces -> {"unused", "waiting", "pong", "no pong", "lost"}]
        /\ queued \in Seq(Nonces) /\ toRemote \in Seq(Nonces) /\ toUs \in Seq(Nonces)
<1>1. /\ used \in 0 .. MaxPings /\ now \in 0 .. MaxTime /\ beat \in 0 .. MaxPings
      /\ wake \in 0 .. MaxTime + Interval
      /\ lastActivity \in 0 .. now /\ lastFrame \in 0 .. lastActivity
  BY DEF TypeOK
<1>2. /\ Interval \in Nat /\ HeartTimeout \in Nat /\ PingTimeout \in Nat /\ MaxPings \in Nat /\ MaxTime \in Nat
      /\ HeartTimeout >= 1 /\ Interval >= 1
  BY HeartbeatAssumption DEF HeartbeatAssumption
<1>3. /\ used \in Nat /\ used <= MaxPings /\ now \in Nat /\ now <= MaxTime /\ beat \in Nat /\ wake \in Nat
        /\ lastActivity \in Nat /\ lastActivity <= now /\ lastFrame \in Nat /\ lastFrame <= lastActivity
  BY <1>1, <1>2
<1>4. /\ pending \subseteq Nonces /\ pingStarted \subseteq Nonces \X (0 .. now)
        /\ deadline \in [Nonces -> Nat]
        /\ result \in [Nonces -> {"unused", "waiting", "pong", "no pong", "lost"}]
        /\ queued \in Seq(Nonces) /\ toRemote \in Seq(Nonces) /\ toUs \in Seq(Nonces)
  BY DEF TypeOK
<1> QED BY <1>2, <1>3, <1>4

----------------------------------------------------------------------------
(* Queues of nonces.                                                       *)

LEMMA TailOf ==
    ASSUME NEW q \in Seq(Nonces), q # <<>>
    PROVE  /\ Tail(q) \in Seq(Nonces) /\ Head(q) \in Nonces /\ Head(q) = q[1]
           /\ 1 \in 1 .. Len(q)
           /\ Len(Tail(q)) = Len(q) - 1
           /\ \A i \in 1 .. Len(Tail(q)) : Tail(q)[i] = q[i + 1] /\ i + 1 \in 1 .. Len(q)
OBVIOUS

LEMMA AppendOf ==
    ASSUME NEW q \in Seq(Nonces), NEW n \in Nonces
    PROVE  /\ Append(q, n) \in Seq(Nonces)
           /\ Len(Append(q, n)) = Len(q) + 1
           /\ \A i \in 1 .. Len(q) : Append(q, n)[i] = q[i] /\ i \in 1 .. Len(Append(q, n))
           /\ Append(q, n)[Len(q) + 1] = n
           /\ \A i \in 1 .. Len(Append(q, n)) : i \in 1 .. Len(q) \/ i = Len(q) + 1
OBVIOUS

(* What leaves a queue and joins another is still in one place.            *)
LEMMA TailKeeps ==
    ASSUME NEW q \in Seq(Nonces), NEW r \in Seq(Nonces), q # <<>>
    PROVE  /\ Below(q) => Below(Tail(q)) /\ Head(q) <= used
           /\ Once(q) => Once(Tail(q)) /\ ~Within(Head(q), Tail(q))
           /\ Apart(q, r) => Apart(Tail(q), r)
           /\ Apart(r, q) => Apart(r, Tail(q)) /\ ~Within(Head(q), r)
           /\ \A n : ~Within(n, q) => ~Within(n, Tail(q))
<1>1. \A i \in 1 .. Len(Tail(q)) : Tail(q)[i] = q[i + 1] /\ i + 1 \in 1 .. Len(q)
  BY TailOf
<1>2. Head(q) = q[1] /\ 1 \in 1 .. Len(q) /\ Len(Tail(q)) \in Nat BY TailOf
<1>3. Below(q) => Below(Tail(q)) /\ Head(q) <= used BY <1>1, <1>2 DEF Below
<1>4. Once(q) => Once(Tail(q)) BY <1>1, <1>2 DEF Once
<1>5. Once(q) => ~Within(Head(q), Tail(q)) BY <1>1, <1>2 DEF Once, Within
<1>6. Apart(q, r) => Apart(Tail(q), r) BY <1>1 DEF Apart
<1>7. Apart(r, q) => Apart(r, Tail(q)) BY <1>1 DEF Apart
<1>8. Apart(r, q) => ~Within(Head(q), r) BY <1>2 DEF Apart, Within
<1>9. \A n : ~Within(n, q) => ~Within(n, Tail(q)) BY <1>1 DEF Within
<1> QED BY <1>3, <1>4, <1>5, <1>6, <1>7, <1>8, <1>9

LEMMA AppendKeeps ==
    ASSUME NEW q \in Seq(Nonces), NEW r \in Seq(Nonces), NEW n \in Nonces
    PROVE  /\ Below(q) /\ n <= used => Below(Append(q, n))
           /\ Once(q) /\ ~Within(n, q) => Once(Append(q, n))
           /\ Apart(r, q) /\ ~Within(n, r) => Apart(r, Append(q, n))
           /\ Apart(q, r) /\ ~Within(n, r) => Apart(Append(q, n), r)
           /\ \A m : ~Within(m, q) /\ m # n => ~Within(m, Append(q, n))
<1>1. /\ \A i \in 1 .. Len(q) : Append(q, n)[i] = q[i]
      /\ Append(q, n)[Len(q) + 1] = n
      /\ \A i \in 1 .. Len(Append(q, n)) : i \in 1 .. Len(q) \/ i = Len(q) + 1
  BY AppendOf
<1>2. Below(q) /\ n <= used => Below(Append(q, n)) BY <1>1 DEF Below
<1>3. Once(q) /\ ~Within(n, q) => Once(Append(q, n))
  <2> SUFFICES ASSUME Once(q), ~Within(n, q),
                      NEW i \in 1 .. Len(Append(q, n)), NEW j \in 1 .. Len(Append(q, n)),
                      Append(q, n)[i] = Append(q, n)[j]
               PROVE  i = j
    BY DEF Once
  <2>1. CASE i \in 1 .. Len(q) /\ j \in 1 .. Len(q) BY <2>1, <1>1 DEF Once
  <2>2. CASE i \in 1 .. Len(q) /\ j = Len(q) + 1 BY <2>2, <1>1 DEF Within
  <2>3. CASE i = Len(q) + 1 /\ j \in 1 .. Len(q) BY <2>3, <1>1 DEF Within
  <2>4. CASE i = Len(q) + 1 /\ j = Len(q) + 1 BY <2>4
  <2> QED BY <2>1, <2>2, <2>3, <2>4, <1>1
<1>4. Apart(r, q) /\ ~Within(n, r) => Apart(r, Append(q, n)) BY <1>1 DEF Apart, Within
<1>5. Apart(q, r) /\ ~Within(n, r) => Apart(Append(q, n), r) BY <1>1 DEF Apart, Within
<1>6. \A m : ~Within(m, q) /\ m # n => ~Within(m, Append(q, n)) BY <1>1 DEF Within
<1> QED BY <1>2, <1>3, <1>4, <1>5, <1>6

LEMMA NewNonce ==
    ASSUME NEW q \in Seq(Nonces), NEW n \in Nat, Below(q), n > used, used \in Nat
    PROVE  ~Within(n, q)
<1> SUFFICES ASSUME NEW i \in 1 .. Len(q), q[i] = n PROVE FALSE BY DEF Within
<1>1. q[i] <= used BY DEF Below
<1> QED BY <1>1

LEMMA BelowGrows ==
    ASSUME NEW q \in Seq(Nonces), Below(q), used \in Nat, used' = used + 1
    PROVE  \A i \in 1 .. Len(q) : q[i] <= used'
<1> SUFFICES ASSUME NEW i \in 1 .. Len(q) PROVE q[i] <= used' OBVIOUS
<1>1. q[i] \in Nonces /\ q[i] <= used BY DEF Below
<1>2. q[i] \in Int BY <1>1 DEF Nonces
<1> QED BY <1>1, <1>2

LEMMA EmptyQueue ==
    /\ Below(<<>>) /\ Once(<<>>)
    /\ \A q \in Seq(Nonces) : Apart(<<>>, q) /\ Apart(q, <<>>)
    /\ \A n : ~Within(n, <<>>)
BY DEF Below, Once, Apart, Within

----------------------------------------------------------------------------
LEMMA HeartInit == Init => HeartInv
<1> SUFFICES ASSUME Init PROVE HeartInv OBVIOUS
<1>1. TypeOK
  <2>1. /\ now = 0 /\ lastActivity = 0 /\ lastFrame = 0 /\ wake = Interval /\ beat = 0 /\ used = 0
        /\ pending = {} /\ pingStarted = {} /\ queued = <<>> /\ toRemote = <<>> /\ toUs = <<>>
        /\ heart = "sleeping"
        /\ deadline = [n \in Nonces |-> 0]
        /\ result = [n \in Nonces |-> "unused"]
    BY DEF Init
  <2>2. open \in BOOLEAN /\ stopped \in BOOLEAN /\ missed \in BOOLEAN /\ alive \in BOOLEAN
    BY Zenon DEF Init
  <2>3. /\ now \in 0 .. MaxTime /\ used \in 0 .. MaxPings /\ beat \in 0 .. MaxPings
        /\ wake \in 0 .. MaxTime + Interval
        /\ lastActivity \in 0 .. now /\ lastFrame \in 0 .. lastActivity
    BY <2>1, HeartbeatAssumption DEF HeartbeatAssumption
  <2>4. /\ deadline \in [Nonces -> Nat]
        /\ result \in [Nonces -> {"unused", "waiting", "pong", "no pong", "lost"}]
        /\ queued \in Seq(Nonces) /\ toRemote \in Seq(Nonces) /\ toUs \in Seq(Nonces)
    BY <2>1
  <2> QED BY <2>1, <2>2, <2>3, <2>4 DEF TypeOK
<1>2. Books
  <2>1. \A n \in Nonces : result[n] = "unused" /\ n > used BY DEF Init, Nonces
  <2>2. pending = {} /\ pingStarted = {} BY DEF Init
  <2> QED BY <2>1, <2>2 DEF Books
<1>3. OneFrame
  <2>1. queued = <<>> /\ toRemote = <<>> /\ toUs = <<>> BY DEF Init
  <2>2. queued \in Seq(Nonces) /\ toRemote \in Seq(Nonces) /\ toUs \in Seq(Nonces)
    BY <1>1, TypeFacts
  <2>3. /\ Below(queued) /\ Below(toRemote) /\ Below(toUs) /\ Once(queued)
    BY <2>1, EmptyQueue
  <2>4. Apart(queued, toRemote) /\ Apart(queued, toUs)
    BY <2>1, <2>2, EmptyQueue
  <2> QED BY <2>3, <2>4 DEF OneFrame
<1>4. Own
  <2>1. queued = <<>> /\ beat = 0 /\ used = 0 /\ heart = "sleeping" /\ lastActivity = lastFrame BY DEF Init
  <2> QED BY <2>1, EmptyQueue DEF Own
<1>5. Timely
  <2>1. heart = "sleeping" /\ now = 0 /\ wake = Interval /\ lastFrame = 0 BY DEF Init
  <2> QED BY <2>1, HeartbeatAssumption DEF Timely, HeartbeatAssumption
<1> QED BY <1>1, <1>2, <1>3, <1>4, <1>5 DEF HeartInv

(* A new ping enters the books and the end of the queue.                   *)
LEMMA PingStep ==
    ASSUME HeartInv, NEW timeout \in {HeartTimeout, PingTimeout}, Ping(timeout),
           open, UNCHANGED <<now, open>>
    PROVE  /\ used' = used + 1 /\ used + 1 \in Nonces
           /\ pending' \subseteq Nonces /\ pingStarted' \subseteq Nonces \X (0 .. now')
           /\ deadline' \in [Nonces -> Nat]
           /\ result' \in [Nonces -> {"unused", "waiting", "pong", "no pong", "lost"}]
           /\ queued' \in Seq(Nonces)
           /\ result'[used + 1] = "waiting" /\ deadline'[used + 1] = now + timeout
           /\ \A n \in Nonces : n # used + 1 => result'[n] = result[n] /\ deadline'[n] = deadline[n]
           /\ \A n : ~Within(n, queued) /\ n # used + 1 => ~Within(n, queued')
           /\ Books' /\ OneFrame'
<1> DEFINE n == used + 1
<1>0. TypeOK /\ Books /\ OneFrame BY DEF HeartInv
<1>1. n \in Nonces /\ used' = n /\ n > used /\ n \in Nat
  <2>1. used \in Nat /\ MaxPings \in Nat BY <1>0, TypeFacts
  <2>2. used < MaxPings /\ used' = used + 1 BY DEF Ping
  <2> QED BY <2>1, <2>2 DEF Nonces
<1>2. /\ pending' = pending \union {n}
      /\ pingStarted' = pingStarted \union {<<n, now>>}
      /\ deadline' = [deadline EXCEPT ![n] = now + timeout]
      /\ result' = [result EXCEPT ![n] = "waiting"]
      /\ queued' = Append(queued, n) /\ toRemote' = toRemote /\ toUs' = toUs
  BY DEF Ping
<1>3. /\ pending' \subseteq Nonces /\ pingStarted' \subseteq Nonces \X (0 .. now')
      /\ deadline' \in [Nonces -> Nat]
      /\ result' \in [Nonces -> {"unused", "waiting", "pong", "no pong", "lost"}]
  <2>0. timeout \in Nat
    <3>1. HeartTimeout \in Nat /\ PingTimeout \in Nat BY <1>0, TypeFacts
    <3> QED BY <3>1
  <2>1. /\ now \in Nat /\ now' = now
        /\ pending \subseteq Nonces /\ pingStarted \subseteq Nonces \X (0 .. now)
        /\ deadline \in [Nonces -> Nat]
        /\ result \in [Nonces -> {"unused", "waiting", "pong", "no pong", "lost"}]
    BY <1>0, TypeFacts
  <2> HIDE DEF n
  <2>7. now \in Nat BY <2>1
  <2>2. now \in 0 .. now /\ now + timeout \in Nat BY <2>0, <2>7
  <2>3. pending' \subseteq Nonces BY <2>1, <1>1, <1>2
  <2>4. pingStarted' \subseteq Nonces \X (0 .. now')
    <3>1. pingStarted' = pingStarted \union {<<n, now>>} /\ now' = now BY <2>1, <1>2
    <3>2. pingStarted \subseteq Nonces \X (0 .. now) BY <2>1
    <3>3. <<n, now>> \in Nonces \X (0 .. now) BY <2>2, <1>1
    <3> QED BY <3>1, <3>2, <3>3
  <2>5. deadline' \in [Nonces -> Nat] BY <2>1, <2>2, <1>1, <1>2
  <2>6. result' \in [Nonces -> {"unused", "waiting", "pong", "no pong", "lost"}]
    BY <2>1, <1>1, <1>2
  <2> QED BY <2>3, <2>4, <2>5, <2>6
<1>4. /\ result'[n] = "waiting" /\ deadline'[n] = now + timeout
      /\ \A m \in Nonces : m # n => result'[m] = result[m] /\ deadline'[m] = deadline[m]
  <2>1. /\ deadline \in [Nonces -> Nat]
        /\ result \in [Nonces -> {"unused", "waiting", "pong", "no pong", "lost"}]
    BY <1>0, TypeFacts
  <2> QED BY <2>1, <1>1, <1>2
<1>5. queued \in Seq(Nonces) /\ toRemote \in Seq(Nonces) /\ toUs \in Seq(Nonces) /\ used \in Nat
  BY <1>0, TypeFacts
<1>6. queued' \in Seq(Nonces) BY <1>1, <1>2, <1>5, AppendOf
<1>7. \A m : ~Within(m, queued) /\ m # n => ~Within(m, queued')
  BY <1>1, <1>2, <1>5, AppendKeeps
<1>8. n \notin pending
  <2>1. result[n] = "unused" BY <1>0, <1>1 DEF Books
  <2> QED BY <2>1, <1>0, <1>1 DEF Books
<1>9. Books'
  <2>1. \A m \in Nonces : result'[m] = "unused" <=> m > used'
    <3> SUFFICES ASSUME NEW m \in Nonces PROVE result'[m] = "unused" <=> m > used' OBVIOUS
    <3>1. CASE m = n BY <3>1, <1>1, <1>4
    <3>2. CASE m # n
      <4>1. result[m] = "unused" <=> m > used BY <1>0 DEF Books
      <4>2. m > used <=> m > used + 1 BY <3>2, <1>5 DEF Nonces
      <4> QED BY <4>1, <4>2, <3>2, <1>1, <1>4
    <3> QED BY <3>1, <3>2
  <2>2. pending' = {m \in Nonces : result'[m] = "waiting"}
    BY <1>0, <1>1, <1>2, <1>4 DEF Books
  <2>3. \A s \in pingStarted' : s[1] \in pending'
    BY <1>0, <1>2 DEF Books
  <2>4. \A m \in pending' : \E s \in pingStarted' : s[1] = m
    <3>1. <<n, now>> \in pingStarted' /\ <<n, now>>[1] = n BY <1>2
    <3>2. \A m \in pending : \E s \in pingStarted' : s[1] = m BY <1>0, <1>2 DEF Books
    <3> QED BY <3>1, <3>2, <1>2
  <2>5. \A m \in pending' : now' <= deadline'[m]
    <3> SUFFICES ASSUME NEW m \in pending' PROVE now' <= deadline'[m] OBVIOUS
    <3>1. now \in Nat /\ m \in Nonces BY <1>0, <1>3, TypeFacts
    <3>2. CASE m = n
      <4>1. timeout \in Nat
        <5>1. HeartTimeout \in Nat /\ PingTimeout \in Nat BY <1>0, TypeFacts
        <5> QED BY <5>1
      <4> QED BY <4>1, <3>1, <3>2, <1>4
    <3>3. CASE m # n
      <4>1. m \in pending BY <3>3, <1>2
      <4> QED BY <4>1, <3>1, <3>3, <1>0, <1>4 DEF Books
    <3> QED BY <3>2, <3>3
  <2>6. \A s \in pingStarted' : deadline'[s[1]] - s[2] \in {HeartTimeout, PingTimeout}
    <3> SUFFICES ASSUME NEW s \in pingStarted' 
                 PROVE  deadline'[s[1]] - s[2] \in {HeartTimeout, PingTimeout}
      OBVIOUS
    <3>1. CASE s = <<n, now>>
      <4>1. s[1] = n /\ s[2] = now /\ now \in Nat BY <3>1, <1>0, TypeFacts
      <4>2. timeout \in Nat
        <5>1. HeartTimeout \in Nat /\ PingTimeout \in Nat BY <1>0, TypeFacts
        <5> QED BY <5>1
      <4>3. (now + timeout) - now = timeout BY <4>1, <4>2
      <4> QED BY <4>1, <4>3, <1>4
    <3>2. CASE s \in pingStarted
      <4>1. s[1] \in pending BY <3>2, <1>0 DEF Books
      <4>2. s[1] \in Nonces /\ s[1] # n BY <4>1, <1>0, <1>8, TypeFacts
      <4> QED BY <4>2, <3>2, <1>0, <1>4 DEF Books
    <3> QED BY <3>1, <3>2, <1>2
  <2>7. open' => \A m \in Nonces : result'[m] # "lost"
    BY <1>0, <1>1, <1>4 DEF Books
  <2> QED BY <2>1, <2>2, <2>3, <2>4, <2>5, <2>6, <2>7 DEF Books
<1>10. OneFrame'
  <2>1. ~Within(n, queued) /\ ~Within(n, toRemote) /\ ~Within(n, toUs)
    BY <1>0, <1>1, <1>5, NewNonce DEF OneFrame
  <2>3. Once(Append(queued, n)) /\ Apart(Append(queued, n), toRemote) /\ Apart(Append(queued, n), toUs)
    BY <2>1, <1>0, <1>1, <1>5, AppendKeeps DEF OneFrame
  <2>2. used' = used + 1 BY <1>1
  <2>4. Below(toRemote)' /\ Below(toUs)'
    BY <2>2, <1>0, <1>2, <1>5, BelowGrows DEF OneFrame, Below
  <2>5. Below(queued)'
    <3>1. \A i \in 1 .. Len(queued) : queued[i] <= used'
      BY <2>2, <1>0, <1>5, BelowGrows DEF OneFrame
    <3>2. n <= used' BY <1>1
    <3> HIDE DEF n
    <3> QED BY <3>1, <3>2, <1>1, <1>2, <1>5, AppendOf DEF Below
  <2> QED BY <2>3, <2>4, <2>5, <1>2 DEF OneFrame, Once, Apart
<1> QED BY <1>1, <1>3, <1>4, <1>6, <1>7, <1>9, <1>10

(* Nothing of the books is left when the peer dies.                        *)
LEMMA DieStep ==
    ASSUME HeartInv, Die
    PROVE  /\ ~open' /\ used' = used
           /\ pending' \subseteq Nonces /\ pingStarted' \subseteq Nonces \X (0 .. now')
           /\ deadline' \in [Nonces -> Nat]
           /\ result' \in [Nonces -> {"unused", "waiting", "pong", "no pong", "lost"}]
           /\ queued' \in Seq(Nonces) /\ toRemote' \in Seq(Nonces) /\ toUs' \in Seq(Nonces)
           /\ \A n \in Nonces : result[n] # "unused" => result'[n] # "unused"
           /\ Books' /\ OneFrame'
<1>0. TypeOK /\ Books /\ OneFrame BY DEF HeartInv
<1>1. /\ open' = FALSE /\ used' = used
      /\ pending' = {} /\ pingStarted' = {} /\ queued' = <<>> /\ toRemote' = <<>> /\ toUs' = <<>>
      /\ result' = [n \in Nonces |-> IF result[n] = "waiting" THEN "lost" ELSE result[n]]
      /\ deadline' = [n \in Nonces |-> 0]
  BY DEF Die
<1>2. result \in [Nonces -> {"unused", "waiting", "pong", "no pong", "lost"}]
  BY <1>0, TypeFacts
<1>3. /\ result' \in [Nonces -> {"unused", "waiting", "pong", "no pong", "lost"}]
      /\ \A n \in Nonces : result'[n] # "waiting" /\ (result'[n] = "unused" <=> result[n] = "unused")
  BY <1>1, <1>2
<1>4. /\ deadline' \in [Nonces -> Nat]
      /\ queued' \in Seq(Nonces) /\ toRemote' \in Seq(Nonces) /\ toUs' \in Seq(Nonces)
      /\ pending' \subseteq Nonces /\ pingStarted' \subseteq Nonces \X (0 .. now')
  BY <1>1
<1>5. Books'
  <2>1. \A n \in Nonces : result'[n] = "unused" <=> n > used'
    BY <1>0, <1>1, <1>3 DEF Books
  <2> QED BY <2>1, <1>1, <1>3 DEF Books
<1>6. OneFrame'
  <2>1. (Below(queued) /\ Below(toRemote) /\ Below(toUs) /\ Once(queued))'
    BY <1>1 DEF Below, Once
  <2>2. (Apart(queued, toRemote) /\ Apart(queued, toUs))'
    BY <1>1 DEF Apart
  <2> QED BY <2>1, <2>2 DEF OneFrame
<1> QED BY <1>1, <1>3, <1>4, <1>5, <1>6

LEMMA BooksKept ==
    ASSUME Books, UNCHANGED pingVars, UNCHANGED <<now, open>>
    PROVE  Books'
BY DEF Books, pingVars

LEMMA FrameKept ==
    ASSUME OneFrame, UNCHANGED <<used, queued, toRemote, toUs>>
    PROVE  OneFrame'
BY DEF OneFrame, Below, Once, Apart

----------------------------------------------------------------------------
(* One lemma for each action.                                              *)

LEMMA TickStep == ASSUME HeartInv, Tick PROVE HeartInv'
<1>0. TypeOK /\ Books /\ OneFrame /\ Own /\ Timely BY DEF HeartInv
<1>1. /\ now < MaxTime /\ now' = now + 1
      /\ UNCHANGED <<open, lastActivity, lastFrame, heart, wake, stopped, beat, missed>>
      /\ UNCHANGED pingVars /\ UNCHANGED <<queued, toRemote, toUs, alive>>
  BY DEF Tick, heartVars, wireVars
<1>2. /\ now \in Nat /\ MaxTime \in Nat /\ lastActivity \in Nat /\ lastActivity <= now
      /\ lastFrame \in Nat /\ lastFrame <= lastActivity /\ wake \in Nat
      /\ Interval \in Nat /\ HeartTimeout \in Nat
  BY <1>0, TypeFacts
<1>3. TypeOK'
  <2>1. now' \in 0 .. MaxTime /\ lastActivity' \in 0 .. now' /\ lastFrame' \in 0 .. lastActivity'
    BY <1>1, <1>2
  <2>2. pingStarted' \subseteq Nonces \X (0 .. now')
    <3>1. pingStarted \subseteq Nonces \X (0 .. now) BY <1>0, TypeFacts
    <3>2. 0 .. now \subseteq 0 .. now' BY <1>1, <1>2
    <3> QED BY <3>1, <3>2, <1>1 DEF pingVars
  <2> QED BY <2>1, <2>2, <1>0, <1>1 DEF TypeOK, pingVars
<1>4. Books'
  <2>1. \A n \in pending : now' <= deadline'[n]
    <3> SUFFICES ASSUME NEW n \in pending PROVE now' <= deadline'[n] OBVIOUS
    <3>1. n \in Nonces /\ deadline[n] \in Nat BY <1>0, TypeFacts
    <3>2. result[n] = "waiting" BY <1>0 DEF Books
    <3>3. ~(deadline[n] <= now) BY <3>1, <3>2 DEF Tick, Expired
    <3> QED BY <3>1, <3>3, <1>1, <1>2 DEF pingVars
  <2> QED BY <2>1, <1>0, <1>1 DEF Books, pingVars
<1>5. OneFrame' BY <1>0, <1>1, FrameKept DEF pingVars
<1>6. Own' BY <1>0, <1>1 DEF Own, Beating, Within, pingVars
<1>7. Timely'
  <2>1. heart = "ended" => ~Beating BY <1>0 DEF Timely
  <2>2. Beating /\ heart = "sleeping" => now' <= wake /\ wake <= lastFrame + Interval
    <3>1. Beating /\ heart = "sleeping" => ~(wake <= now) BY DEF Tick, HeartDue, Beating
    <3> QED BY <3>1, <1>0, <1>1, <1>2 DEF Timely
  <2>3. Beating /\ heart = "pinging" => result[beat] = "waiting" /\ now' <= deadline[beat] /\ deadline[beat] <= Bound
    <3> SUFFICES ASSUME Beating, heart = "pinging"
                 PROVE  result[beat] = "waiting" /\ now' <= deadline[beat] /\ deadline[beat] <= Bound
      OBVIOUS
    <3>1. result[beat] = "waiting" /\ beat \in Nonces BY <1>0 DEF Tick, Own
    <3>2. deadline[beat] \in Nat BY <3>1, <1>0, TypeFacts
    <3>3. ~(deadline[beat] <= now) BY <3>1 DEF Tick, Expired
    <3> QED BY <3>1, <3>2, <3>3, <1>0, <1>1, <1>2 DEF Timely
  <2>4. Beating' = Beating /\ Bound' = Bound BY <1>1 DEF Beating, Bound
  <2>5. Beating /\ heart = "pinging" => now' <= Bound
    <3> SUFFICES ASSUME Beating, heart = "pinging" PROVE now' <= Bound OBVIOUS
    <3>1. beat \in Nonces BY <1>0 DEF Own
    <3>2. deadline[beat] \in Nat BY <3>1, <1>0, TypeFacts
    <3> QED BY <3>2, <2>3, <1>1, <1>2 DEF Bound
  <2> QED BY <2>1, <2>2, <2>3, <2>4, <2>5, <1>1 DEF Timely, pingVars
<1> QED BY <1>3, <1>4, <1>5, <1>6, <1>7 DEF HeartInv

LEMMA AppPingsStep == ASSUME HeartInv, AppPings PROVE HeartInv'
<1>0. TypeOK /\ Books /\ OneFrame /\ Own /\ Timely BY DEF HeartInv
<1>1. /\ open /\ Ping(PingTimeout) /\ UNCHANGED <<now, open>>
      /\ UNCHANGED <<open, now, lastActivity, lastFrame, heart, wake, stopped, beat, missed>>
      /\ UNCHANGED <<toRemote, toUs, alive>>
  BY DEF AppPings, Ping, clockVars, heartVars
<1>2. /\ used' = used + 1 /\ used + 1 \in Nonces
      /\ pending' \subseteq Nonces /\ pingStarted' \subseteq Nonces \X (0 .. now')
      /\ deadline' \in [Nonces -> Nat]
      /\ result' \in [Nonces -> {"unused", "waiting", "pong", "no pong", "lost"}]
      /\ queued' \in Seq(Nonces)
      /\ \A n \in Nonces : n # used + 1 => result'[n] = result[n] /\ deadline'[n] = deadline[n]
      /\ \A n : ~Within(n, queued) /\ n # used + 1 => ~Within(n, queued')
      /\ Books' /\ OneFrame'
  BY <1>1, PingStep
<1>3. used \in Nat /\ beat \in Nat /\ beat <= used /\ beat # used + 1 /\ beat <= used'
  <2>1. used \in Nat /\ beat \in Nat BY <1>0, TypeFacts
  <2>2. beat <= used BY <1>0 DEF Own
  <2>3. used' = used + 1 BY <1>2
  <2> QED BY <2>1, <2>2, <2>3
<1>4. TypeOK'
  <2>1. used' \in 0 .. MaxPings
    <3>1. used' \in 1 .. MaxPings BY <1>2 DEF Nonces
    <3> QED BY <3>1
  <2> QED BY <2>1, <1>0, <1>1, <1>2 DEF TypeOK
<1>5. Own'
  <2>1. Beating' = Beating BY <1>1 DEF Beating
  <2>2. heart = "pinging" => beat \in Nonces /\ result'[beat] = result[beat]
    BY <1>0, <1>2, <1>3 DEF Own
  <2>3. ~Within(beat, queued) => ~Within(beat, queued)'
    BY <1>1, <1>2, <1>3 DEF Within
  <2> QED BY <2>1, <2>2, <2>3, <1>0, <1>1, <1>3 DEF Own
<1>6. Timely' BY <1>0, <1>1, <1>2, <1>3 DEF Timely, Own, Beating, Bound
<1> QED BY <1>2, <1>4, <1>5, <1>6 DEF HeartInv

LEMMA PongArrivesStep == ASSUME HeartInv, PongArrives PROVE HeartInv'
<1> DEFINE n == Head(toUs)
<1>0. TypeOK /\ Books /\ OneFrame /\ Own /\ Timely BY DEF HeartInv
<1>1. /\ toUs # <<>> /\ toUs' = Tail(toUs)
      /\ lastActivity' = now /\ lastFrame' = now
      /\ UNCHANGED <<now, open, heart, wake, stopped, beat, missed, used, queued, toRemote, alive>>
  BY DEF PongArrives, Stamp, heartVars
<1>2. /\ pending' = pending \ Answered(n)
      /\ pingStarted' = {s \in pingStarted : s[1] \notin Answered(n)}
      /\ result' = [m \in Nonces |-> IF m \in Answered(n) THEN "pong" ELSE result[m]]
      /\ deadline' = [m \in Nonces |-> IF m \in Answered(n) THEN 0 ELSE deadline[m]]
  BY DEF PongArrives
<1>3. /\ toUs \in Seq(Nonces) /\ queued \in Seq(Nonces) /\ toRemote \in Seq(Nonces)
      /\ pending \subseteq Nonces /\ pingStarted \subseteq Nonces \X (0 .. now)
      /\ deadline \in [Nonces -> Nat]
      /\ result \in [Nonces -> {"unused", "waiting", "pong", "no pong", "lost"}]
  BY <1>0, TypeFacts
<1>4. Answered(n) \subseteq pending /\ Answered(n) \subseteq {n} BY DEF Answered
<1>5. /\ now \in Nat /\ lastActivity <= now /\ lastFrame \in Nat /\ lastFrame <= now
      /\ lastActivity \in Nat /\ Interval \in Nat /\ HeartTimeout \in Nat
  <2>1. /\ now \in Nat /\ lastActivity <= now /\ lastFrame \in Nat /\ lastFrame <= lastActivity
        /\ lastActivity \in Nat /\ Interval \in Nat /\ HeartTimeout \in Nat
    BY <1>0, TypeFacts
  <2> QED BY <2>1
<1> HIDE DEF n
<1>6. /\ result' \in [Nonces -> {"unused", "waiting", "pong", "no pong", "lost"}]
      /\ \A m \in Nonces : m \in Answered(n) => result'[m] = "pong" /\ deadline'[m] = 0
      /\ \A m \in Nonces : m \notin Answered(n) => result'[m] = result[m] /\ deadline'[m] = deadline[m]
      /\ deadline' \in [Nonces -> Nat]
  BY <1>2, <1>3
<1>7. TypeOK'
  <2>1. lastActivity' \in 0 .. now' /\ lastFrame' \in 0 .. lastActivity' BY <1>1, <1>5
  <2>2. toUs' \in Seq(Nonces) BY <1>1, <1>3, TailOf
  <2>3. pending' \subseteq Nonces /\ pingStarted' \subseteq Nonces \X (0 .. now')
    BY <1>1, <1>2, <1>3
  <2> QED BY <2>1, <2>2, <2>3, <1>0, <1>1, <1>6 DEF TypeOK
<1>8. Books'
  <2>1. \A m \in Nonces : result'[m] = "unused" <=> m > used'
    <3>1. \A m \in Answered(n) : result[m] = "waiting" BY <1>0, <1>4 DEF Books
    <3> QED BY <3>1, <1>0, <1>1, <1>6 DEF Books
  <2>2. pending' = {m \in Nonces : result'[m] = "waiting"}
    BY <1>0, <1>2, <1>3, <1>6 DEF Books
  <2>3. \A s \in pingStarted' : s[1] \in pending'
    BY <1>0, <1>2 DEF Books
  <2>4. \A m \in pending' : \E s \in pingStarted' : s[1] = m
    BY <1>0, <1>2 DEF Books
  <2>5. \A m \in pending' : now' <= deadline'[m]
    BY <1>0, <1>1, <1>2, <1>3, <1>6 DEF Books
  <2>6. \A s \in pingStarted' : deadline'[s[1]] - s[2] \in {HeartTimeout, PingTimeout}
    BY <1>0, <1>2, <1>3, <1>6 DEF Books
  <2>7. open' => \A m \in Nonces : result'[m] # "lost"
    BY <1>0, <1>1, <1>6 DEF Books
  <2> QED BY <2>1, <2>2, <2>3, <2>4, <2>5, <2>6, <2>7 DEF Books
<1>9. OneFrame'
  <2>1. Below(Tail(toUs)) /\ Apart(queued, Tail(toUs))
    BY <1>0, <1>1, <1>3, TailKeeps DEF OneFrame
  <2> QED BY <2>1, <1>0, <1>1 DEF OneFrame, Below, Once, Apart
<1>10. Own'
  <2>1. ~Within(n, queued) BY <1>0, <1>1, <1>3, TailKeeps DEF OneFrame, n
  <2>2. heart = "pinging" => beat \in Nonces /\ result'[beat] # "unused"
    BY <1>0, <1>6 DEF Own
  <2>3. heart = "pinging" /\ result'[beat] = "pong" => result[beat] = "pong" \/ beat = n
    BY <2>2, <1>4, <1>6
  <2>4. Beating' = Beating /\ Within(beat, queued)' = Within(beat, queued)
    BY <1>1 DEF Beating, Within
  <2> QED BY <2>1, <2>2, <2>3, <2>4, <1>0, <1>1 DEF Own
<1>11. Timely'
  <2>1. Beating' = Beating /\ Bound' = now + Interval + HeartTimeout BY <1>1 DEF Beating, Bound
  <2>2. Bound <= Bound' /\ now <= Bound' /\ lastFrame + Interval <= now + Interval
    BY <2>1, <1>5 DEF Bound
  <2>3. heart = "pinging" /\ result'[beat] = "waiting"
          => beat \in Nonces /\ result[beat] = "waiting" /\ deadline'[beat] = deadline[beat]
    BY <1>0, <1>6 DEF Own
  <2>4. Beating /\ heart = "pinging" /\ result'[beat] = "waiting" => deadline'[beat] <= Bound'
    <3> SUFFICES ASSUME Beating, heart = "pinging", result'[beat] = "waiting"
                 PROVE  deadline'[beat] <= Bound'
      OBVIOUS
    <3>1. deadline'[beat] \in Nat /\ deadline'[beat] <= Bound BY <2>3, <1>0, <1>6 DEF Timely
    <3>2. Bound \in Nat /\ Bound' \in Nat BY <2>1, <1>5 DEF Bound
    <3> QED BY <3>1, <3>2, <2>2
  <2>5. Beating /\ heart = "sleeping" => now <= wake /\ wake <= now + Interval
    <3>1. wake \in Nat BY <1>0, TypeFacts
    <3> QED BY <3>1, <2>2, <1>0, <1>5 DEF Timely
  <2>6. heart = "ended" => ~Beating BY <1>0 DEF Timely
  <2> QED BY <2>1, <2>2, <2>4, <2>5, <2>6, <1>1 DEF Timely
<1> QED BY <1>7, <1>8, <1>9, <1>10, <1>11 DEF HeartInv

LEMMA SocketLostStep == ASSUME HeartInv, SocketLost PROVE HeartInv'
<1>0. TypeOK /\ Own BY DEF HeartInv
<1>1. Die /\ UNCHANGED <<now, lastActivity, lastFrame, heart, wake, stopped, beat, missed, alive>>
  BY DEF SocketLost, Die, clockVars, heartVars
<1>2. /\ ~open' /\ used' = used
      /\ pending' \subseteq Nonces /\ pingStarted' \subseteq Nonces \X (0 .. now')
      /\ deadline' \in [Nonces -> Nat]
      /\ result' \in [Nonces -> {"unused", "waiting", "pong", "no pong", "lost"}]
      /\ queued' \in Seq(Nonces) /\ toRemote' \in Seq(Nonces) /\ toUs' \in Seq(Nonces)
      /\ \A n \in Nonces : result[n] # "unused" => result'[n] # "unused"
      /\ Books' /\ OneFrame'
  BY <1>1, DieStep
<1>3. open' \in BOOLEAN BY <1>1 DEF Die
<1>4. TypeOK' BY <1>0, <1>1, <1>2, <1>3 DEF TypeOK
<1>5. ~Beating' BY <1>2 DEF Beating
<1>6. Own' BY <1>0, <1>1, <1>2, <1>5 DEF Own
<1>7. Timely' BY <1>5 DEF Timely
<1> QED BY <1>2, <1>4, <1>6, <1>7 DEF HeartInv

(* A frame later than the last one leaves every bound in place.            *)
LEMMA Later ==
    ASSUME NEW a \in Nat, NEW b \in Nat, a <= b
    PROVE  /\ a + Interval \in Nat /\ b + Interval \in Nat /\ a + Interval <= b + Interval
           /\ a + Interval + HeartTimeout \in Nat /\ b + Interval + HeartTimeout \in Nat
           /\ a + Interval + HeartTimeout <= b + Interval + HeartTimeout
<1>1. Interval \in Nat /\ HeartTimeout \in Nat BY HeartbeatAssumption DEF HeartbeatAssumption
<1> QED BY <1>1

LEMMA TimelyAfterFrame ==
    ASSUME TypeOK, Own, Timely,
           lastFrame' \in Nat, lastFrame <= lastFrame', lastFrame' <= now,
           UNCHANGED <<now, open, stopped, heart, wake, beat, result, deadline>>
    PROVE  Timely'
<1>1. /\ now \in Nat /\ lastFrame \in Nat /\ wake \in Nat /\ deadline \in [Nonces -> Nat]
  BY TypeFacts
<1>2. Beating' = Beating BY DEF Beating
<1>3. lastFrame + Interval \in Nat /\ lastFrame' + Interval \in Nat
      /\ lastFrame + Interval <= lastFrame' + Interval
  BY <1>1, Later
<1>4. Bound \in Nat /\ Bound' \in Nat /\ Bound <= Bound'
  <2>1. lastFrame + Interval + HeartTimeout \in Nat /\ lastFrame' + Interval + HeartTimeout \in Nat
        /\ lastFrame + Interval + HeartTimeout <= lastFrame' + Interval + HeartTimeout
    BY <1>1, Later
  <2> QED BY <2>1 DEF Bound
<1>5. Beating /\ heart = "sleeping" => now <= wake /\ wake <= lastFrame' + Interval
  <2>1. Beating /\ heart = "sleeping" => now <= wake /\ wake <= lastFrame + Interval
    BY DEF Timely
  <2> QED BY <2>1, <1>1, <1>3
<1>6. Beating /\ heart = "pinging" => now <= Bound'
  <2>1. Beating /\ heart = "pinging" => now <= Bound BY DEF Timely
  <2> QED BY <2>1, <1>1, <1>4
<1>7. Beating /\ heart = "pinging" /\ result[beat] = "waiting" => deadline[beat] <= Bound'
  <2> SUFFICES ASSUME Beating, heart = "pinging", result[beat] = "waiting"
               PROVE  deadline[beat] <= Bound'
    OBVIOUS
  <2>1. beat \in Nonces BY DEF Own
  <2>2. deadline[beat] \in Nat BY <2>1, <1>1
  <2>3. deadline[beat] <= Bound BY DEF Timely
  <2> QED BY <2>2, <2>3, <1>4
<1>8. Beating /\ heart = "pinging" /\ result[beat] = "pong" => lastFrame' = now
  <2>1. Beating /\ heart = "pinging" /\ result[beat] = "pong" => lastFrame = now BY DEF Timely
  <2> QED BY <2>1, <1>1
<1>9. heart = "ended" => ~Beating BY DEF Timely
<1> QED BY <1>2, <1>5, <1>6, <1>7, <1>8, <1>9 DEF Timely

LEMMA WritesStep == ASSUME HeartInv, Writes PROVE HeartInv'
<1> DEFINE n == Head(queued)
<1>0. TypeOK /\ Books /\ OneFrame /\ Own /\ Timely BY DEF HeartInv
<1>1. /\ queued # <<>> /\ queued' = Tail(queued)
      /\ toRemote' = Append(toRemote, n) \/ toRemote' = toRemote
      /\ lastActivity' = now
      /\ n = beat => lastFrame' = lastFrame
      /\ n # beat => lastFrame' = now
      /\ UNCHANGED <<now, open, heart, wake, stopped, beat, missed, toUs, alive>>
      /\ UNCHANGED pingVars
  BY DEF Writes, Stamp, heartVars
<1>2. queued \in Seq(Nonces) /\ toRemote \in Seq(Nonces) /\ toUs \in Seq(Nonces)
  BY <1>0, TypeFacts
<1>3. n \in Nonces /\ Tail(queued) \in Seq(Nonces) /\ Within(n, queued)
  BY <1>1, <1>2, TailOf DEF Within
<1>4. /\ Below(Tail(queued)) /\ n <= used /\ Once(Tail(queued)) /\ ~Within(n, Tail(queued))
      /\ Apart(Tail(queued), toRemote) /\ Apart(Tail(queued), toUs)
      /\ \A m : ~Within(m, queued) => ~Within(m, Tail(queued))
  BY <1>0, <1>1, <1>2, TailKeeps DEF OneFrame
<1>5. now \in Nat /\ lastFrame \in Nat /\ lastFrame <= now
  <2>1. now \in Nat /\ lastActivity <= now /\ lastFrame \in Nat /\ lastFrame <= lastActivity
        /\ lastActivity \in Nat
    BY <1>0, TypeFacts
  <2> QED BY <2>1
<1> HIDE DEF n
<1>6. lastFrame' \in Nat /\ lastFrame <= lastFrame' /\ lastFrame' <= now BY <1>1, <1>5
<1>7. TypeOK'
  <2>1. lastActivity' \in 0 .. now' /\ lastFrame' \in 0 .. lastActivity' BY <1>1, <1>5, <1>6
  <2>2. queued' \in Seq(Nonces) BY <1>1, <1>3
  <2>3. Append(toRemote, n) \in Seq(Nonces) BY <1>2, <1>3, AppendOf
  <2>4. toRemote' \in Seq(Nonces) BY <2>3, <1>1, <1>2
  <2> QED BY <2>1, <2>2, <2>4, <1>0, <1>1 DEF TypeOK, pingVars
<1>8. Books' BY <1>0, <1>1, BooksKept
<1>9. OneFrame'
  <2>1. Below(Append(toRemote, n)) /\ Apart(Tail(queued), Append(toRemote, n))
    BY <1>0, <1>2, <1>3, <1>4, AppendKeeps DEF OneFrame
  <2>2. used' = used BY <1>1 DEF pingVars
  <2> QED BY <2>1, <2>2, <1>0, <1>1, <1>4 DEF OneFrame, Below, Once, Apart
<1>10. Own'
  <2>1. Beating' = Beating /\ Within(beat, queued)' = Within(beat, Tail(queued)) /\ used' = used /\ result' = result
    BY <1>1 DEF Beating, Within, pingVars
  <2>2. ~Within(beat, queued) => n # beat BY <1>3
  <2> QED BY <2>1, <2>2, <1>0, <1>1, <1>4 DEF Own
<1>11. Timely' BY <1>0, <1>1, <1>6, TimelyAfterFrame DEF pingVars
<1> QED BY <1>7, <1>8, <1>9, <1>10, <1>11 DEF HeartInv

LEMMA TrafficStep == ASSUME HeartInv, Traffic PROVE HeartInv'
<1>0. TypeOK /\ Books /\ OneFrame /\ Own /\ Timely BY DEF HeartInv
<1>1. /\ lastActivity' = now /\ lastFrame' = now
      /\ UNCHANGED <<now, open, heart, wake, stopped, beat, missed>>
      /\ UNCHANGED pingVars /\ UNCHANGED <<queued, toRemote, toUs, alive>>
  BY DEF Traffic, Stamp, heartVars, wireVars
<1>2. now \in Nat /\ lastFrame <= now
  <2>1. now \in Nat /\ lastActivity <= now /\ lastFrame \in Nat /\ lastFrame <= lastActivity
        /\ lastActivity \in Nat
    BY <1>0, TypeFacts
  <2> QED BY <2>1
<1>3. TypeOK'
  <2>1. lastActivity' \in 0 .. now' /\ lastFrame' \in 0 .. lastActivity' BY <1>1, <1>2
  <2> QED BY <2>1, <1>0, <1>1 DEF TypeOK, pingVars
<1>4. Books' BY <1>0, <1>1, BooksKept
<1>5. OneFrame' BY <1>0, <1>1, FrameKept DEF pingVars
<1>6. Own' BY <1>0, <1>1 DEF Own, Beating, Within, pingVars
<1>7. lastFrame' \in Nat /\ lastFrame <= lastFrame' /\ lastFrame' <= now BY <1>1, <1>2
<1>8. Timely' BY <1>0, <1>1, <1>7, TimelyAfterFrame DEF pingVars
<1> QED BY <1>3, <1>4, <1>5, <1>6, <1>8 DEF HeartInv

LEMMA TimelyKept ==
    ASSUME Timely, UNCHANGED <<now, lastFrame, open, stopped, heart, wake, beat, result, deadline>>
    PROVE  Timely'
BY DEF Timely, Beating, Bound

LEMMA OwnKept ==
    ASSUME Own,
           UNCHANGED <<lastActivity, lastFrame, open, stopped, heart, beat, used, result, queued>>
    PROVE  Own'
BY DEF Own, Beating, Within

LEMMA RemoteAnswersStep == ASSUME HeartInv, RemoteAnswers PROVE HeartInv'
<1> DEFINE n == Head(toRemote)
<1>0. TypeOK /\ Books /\ OneFrame /\ Own /\ Timely BY DEF HeartInv
<1>1. /\ toRemote # <<>> /\ toRemote' = Tail(toRemote) /\ toUs' = Append(toUs, n)
      /\ UNCHANGED <<open, now, lastActivity, lastFrame, heart, wake, stopped, beat, missed>>
      /\ UNCHANGED pingVars /\ UNCHANGED <<queued, alive>>
  BY DEF RemoteAnswers, clockVars, heartVars
<1>2. queued \in Seq(Nonces) /\ toRemote \in Seq(Nonces) /\ toUs \in Seq(Nonces)
  BY <1>0, TypeFacts
<1>3. n \in Nonces /\ Tail(toRemote) \in Seq(Nonces) BY <1>1, <1>2, TailOf
<1>4. /\ Below(Tail(toRemote)) /\ n <= used
      /\ Apart(queued, Tail(toRemote)) /\ ~Within(n, queued)
  BY <1>0, <1>1, <1>2, TailKeeps DEF OneFrame
<1> HIDE DEF n
<1>5. /\ Below(Append(toUs, n)) /\ Apart(queued, Append(toUs, n)) /\ Append(toUs, n) \in Seq(Nonces)
  <2>1. Append(toUs, n) \in Seq(Nonces) BY <1>2, <1>3, AppendOf
  <2> QED BY <2>1, <1>0, <1>2, <1>3, <1>4, AppendKeeps DEF OneFrame
<1>6. TypeOK' BY <1>0, <1>1, <1>3, <1>5 DEF TypeOK, pingVars
<1>7. Books' BY <1>0, <1>1, BooksKept
<1>8. OneFrame'
  <2>1. used' = used BY <1>1 DEF pingVars
  <2> QED BY <2>1, <1>0, <1>1, <1>4, <1>5 DEF OneFrame, Below, Once, Apart
<1>9. Own' BY <1>0, <1>1, OwnKept DEF pingVars
<1>10. Timely' BY <1>0, <1>1, TimelyKept DEF pingVars
<1> QED BY <1>6, <1>7, <1>8, <1>9, <1>10 DEF HeartInv

LEMMA FallsSilentStep == ASSUME HeartInv, FallsSilent PROVE HeartInv'
<1>0. TypeOK /\ Books /\ OneFrame /\ Own /\ Timely BY DEF HeartInv
<1>1. /\ alive' = FALSE /\ toRemote' = <<>>
      /\ UNCHANGED <<open, now, lastActivity, lastFrame, heart, wake, stopped, beat, missed>>
      /\ UNCHANGED pingVars /\ UNCHANGED <<queued, toUs>>
  BY DEF FallsSilent, clockVars, heartVars
<1>2. toRemote' \in Seq(Nonces) BY <1>1
<1>3. TypeOK'
  <2>1. alive' \in BOOLEAN BY Zenon DEF FallsSilent
  <2> QED BY <2>1, <1>0, <1>1, <1>2 DEF TypeOK, pingVars
<1>4. Books' BY <1>0, <1>1, BooksKept
<1>5. OneFrame'
  <2>1. used' = used BY <1>1 DEF pingVars
  <2> QED BY <2>1, <1>0, <1>1 DEF OneFrame, Below, Once, Apart
<1>6. Own' BY <1>0, <1>1, OwnKept DEF pingVars
<1>7. Timely' BY <1>0, <1>1, TimelyKept DEF pingVars
<1> QED BY <1>3, <1>4, <1>5, <1>6, <1>7 DEF HeartInv

LEMMA StopStep == ASSUME HeartInv, Stop PROVE HeartInv'
<1>0. TypeOK /\ Books /\ OneFrame /\ Own BY DEF HeartInv
<1>1. /\ stopped' = TRUE
      /\ UNCHANGED <<open, now, lastActivity, lastFrame, heart, wake, beat, missed>>
      /\ UNCHANGED pingVars /\ UNCHANGED <<queued, toRemote, toUs, alive>>
  BY DEF Stop, clockVars, wireVars
<1>2. ~Beating' BY <1>1 DEF Beating
<1>3. TypeOK' BY <1>0, <1>1 DEF TypeOK, pingVars
<1>4. Books' BY <1>0, <1>1, BooksKept
<1>5. OneFrame' BY <1>0, <1>1, FrameKept DEF pingVars
<1>6. Own' BY <1>0, <1>1, <1>2 DEF Own, pingVars
<1>7. Timely' BY <1>2 DEF Timely
<1> QED BY <1>3, <1>4, <1>5, <1>6, <1>7 DEF HeartInv

(* The head of the heartbeat's loop, where it stands because its sleep or  *)
(* its ping is over.                                                       *)
LEMMA BeatStep ==
    ASSUME HeartInv, Beat,
           UNCHANGED <<open, now, lastActivity, lastFrame, stopped, missed, toRemote, toUs, alive>>,
           Beating => /\ now <= lastFrame + Interval
                      /\ lastActivity = lastFrame /\ ~Within(beat, queued)
    PROVE  HeartInv'
<1>0. TypeOK /\ Books /\ OneFrame /\ Own /\ Timely BY DEF HeartInv
<1>1. CASE /\ ~Beating /\ heart' = "ended"
           /\ UNCHANGED <<wake, beat, used, pending, pingStarted, deadline, result, queued>>
  <2>1. UNCHANGED pingVars BY <1>1 DEF pingVars
  <2>2. ~Beating' BY <1>1 DEF Beating
  <2>3. TypeOK' BY <1>0, <1>1 DEF TypeOK
  <2>4. Books' BY <1>0, <2>1, BooksKept
  <2>5. OneFrame' BY <1>0, <1>1, FrameKept
  <2>6. Own' BY <1>0, <1>1, <2>2 DEF Own
  <2>7. Timely' BY <2>2 DEF Timely
  <2> QED BY <2>3, <2>4, <2>5, <2>6, <2>7 DEF HeartInv
<1>2. CASE /\ Beating /\ Idle < Interval /\ Sleep /\ heart' = "sleeping"
           /\ UNCHANGED <<beat, used, pending, pingStarted, deadline, result, queued>>
  <2>1. UNCHANGED pingVars BY <1>2 DEF pingVars
  <2>2. /\ now \in Nat /\ now <= MaxTime /\ MaxTime \in Nat /\ Interval \in Nat
        /\ lastActivity \in Nat /\ lastActivity <= now
    BY <1>0, TypeFacts
  <2>3. now - lastActivity < Interval /\ wake' = lastActivity + Interval BY <1>2 DEF Idle, Sleep
  <2>4. wake' \in 0 .. MaxTime + Interval /\ now <= wake' BY <2>2, <2>3
  <2>5. Beating' = Beating /\ Within(beat, queued)' = Within(beat, queued)
    BY <1>2 DEF Beating, Within
  <2>6. TypeOK' BY <2>4, <1>0, <1>2 DEF TypeOK
  <2>7. Books' BY <1>0, <2>1, BooksKept
  <2>8. OneFrame' BY <1>0, <1>2, FrameKept
  <2>9. Own' BY <1>0, <1>2, <2>5 DEF Own
  <2>10. wake' <= lastFrame + Interval
    <3>1. lastActivity = lastFrame BY <1>2
    <3> QED BY <3>1, <2>2, <2>3
  <2>11. Timely' BY <1>2, <2>4, <2>10 DEF Timely
  <2> QED BY <2>6, <2>7, <2>8, <2>9, <2>11 DEF HeartInv
<1>3. CASE /\ Beating /\ Ping(HeartTimeout) /\ heart' = "pinging" /\ beat' = used + 1
           /\ UNCHANGED wake
  <2>1. open /\ UNCHANGED <<now, open>> BY <1>3 DEF Beating
  <2>2. /\ used' = used + 1 /\ used + 1 \in Nonces
        /\ pending' \subseteq Nonces /\ pingStarted' \subseteq Nonces \X (0 .. now')
        /\ deadline' \in [Nonces -> Nat]
        /\ result' \in [Nonces -> {"unused", "waiting", "pong", "no pong", "lost"}]
        /\ queued' \in Seq(Nonces)
        /\ result'[used + 1] = "waiting" /\ deadline'[used + 1] = now + HeartTimeout
        /\ Books' /\ OneFrame'
    BY <1>3, <2>1, PingStep
  <2>3. beat' \in Nonces /\ used' \in Nonces /\ beat' = used' BY <1>3, <2>2
  <2>4. result'[beat'] = "waiting" /\ deadline'[beat'] = now + HeartTimeout BY <1>3, <2>2
  <2>5. used' \in 0 .. MaxPings /\ beat' \in 0 .. MaxPings /\ beat' <= used'
    BY <2>3 DEF Nonces
  <2>6. TypeOK' BY <1>0, <1>3, <2>2, <2>5 DEF TypeOK
  <2>7. Own' BY <1>3, <2>3, <2>4, <2>5 DEF Own
  <2>8. now + HeartTimeout <= lastFrame + Interval + HeartTimeout
        /\ now <= lastFrame + Interval + HeartTimeout
    <3>1. now \in Nat /\ lastFrame \in Nat /\ Interval \in Nat /\ HeartTimeout \in Nat
      BY <1>0, TypeFacts
    <3>2. now <= lastFrame + Interval BY <1>3
    <3> QED BY <3>1, <3>2
  <2>9. now' <= Bound' /\ deadline'[beat'] <= Bound' BY <2>4, <2>8 DEF Bound
  <2>10. Timely' BY <1>3, <2>4, <2>9 DEF Timely
  <2> QED BY <2>2, <2>6, <2>7, <2>10 DEF HeartInv
<1> QED BY <1>1, <1>2, <1>3 DEF Beat, Beating

LEMMA HeartWakesStep == ASSUME HeartInv, HeartWakes PROVE HeartInv'
<1>0. TypeOK /\ Own /\ Timely BY DEF HeartInv
<1>1. /\ Beat
      /\ UNCHANGED <<open, now, lastActivity, lastFrame, stopped, missed, toRemote, toUs, alive>>
  BY DEF HeartWakes, clockVars
<1>2. heart = "sleeping" /\ (Beating => wake <= now) BY DEF HeartWakes, HeartDue, Beating
<1>3. Beating => now <= wake /\ wake <= lastFrame + Interval
  BY <1>0, <1>2 DEF Timely
<1>4. Beating => now <= lastFrame + Interval
  <2>1. now \in Nat /\ wake \in Nat /\ lastFrame \in Nat /\ Interval \in Nat
    BY <1>0, TypeFacts
  <2> QED BY <2>1, <1>3
<1>5. Beating => lastActivity = lastFrame /\ ~Within(beat, queued) BY <1>0, <1>2 DEF Own
<1> QED BY <1>1, <1>4, <1>5, BeatStep

LEMMA PingAnsweredStep == ASSUME HeartInv, PingAnswered PROVE HeartInv'
<1>0. TypeOK /\ Own /\ Timely BY DEF HeartInv
<1>1. /\ Beat
      /\ UNCHANGED <<open, now, lastActivity, lastFrame, stopped, missed, toRemote, toUs, alive>>
      /\ heart = "pinging" /\ result[beat] = "pong"
  BY DEF PingAnswered, clockVars
<1>2. Beating => lastFrame = now BY <1>0, <1>1 DEF Timely
<1>3. Beating => now <= lastFrame + Interval
  <2>1. now \in Nat /\ Interval \in Nat BY <1>0, TypeFacts
  <2> QED BY <2>1, <1>2
<1>4. Beating => lastActivity = lastFrame /\ ~Within(beat, queued) BY <1>0, <1>1 DEF Own
<1> QED BY <1>1, <1>3, <1>4, BeatStep

LEMMA PingFailsStep == ASSUME HeartInv, PingFails PROVE HeartInv'
<1>0. TypeOK /\ Books /\ OneFrame /\ Own BY DEF HeartInv
<1>1. heart' = "ended" /\ UNCHANGED <<now, lastActivity, lastFrame, wake, stopped, beat>>
  BY DEF PingFails, clockVars
<1>2. CASE Beating
  <2>1. Die /\ missed' = TRUE BY <1>2 DEF PingFails, Beating
  <2>2. /\ ~open' /\ used' = used
        /\ pending' \subseteq Nonces /\ pingStarted' \subseteq Nonces \X (0 .. now')
        /\ deadline' \in [Nonces -> Nat]
        /\ result' \in [Nonces -> {"unused", "waiting", "pong", "no pong", "lost"}]
        /\ queued' \in Seq(Nonces) /\ toRemote' \in Seq(Nonces) /\ toUs' \in Seq(Nonces)
        /\ Books' /\ OneFrame'
    BY <1>1, <2>1, DieStep
  <2>3. ~Beating' BY <2>2 DEF Beating
  <2>4. TypeOK'
    <3>1. alive' = alive BY <2>1 DEF Die
    <3>2. open' \in BOOLEAN BY <2>1 DEF Die
    <3>3. missed' \in BOOLEAN BY <2>1
    <3> QED BY <3>1, <3>2, <3>3, <1>0, <1>1, <2>2 DEF TypeOK
  <2>5. Own' BY <1>0, <1>1, <2>2 DEF Own
  <2>6. Timely' BY <2>3 DEF Timely
  <2> QED BY <2>2, <2>4, <2>5, <2>6 DEF HeartInv
<1>3. CASE ~Beating
  <2>1. UNCHANGED <<open, missed>> /\ UNCHANGED pingVars
        /\ UNCHANGED <<queued, toRemote, toUs, alive>>
    BY <1>3 DEF PingFails, Beating, wireVars
  <2>2. ~Beating' BY <1>1, <1>3, <2>1 DEF Beating
  <2>3. TypeOK' BY <1>0, <1>1, <2>1 DEF TypeOK, pingVars
  <2>4. Books' BY <1>0, <1>1, <2>1, BooksKept
  <2>5. OneFrame' BY <1>0, <2>1, FrameKept DEF pingVars
  <2>6. Own' BY <1>0, <1>1, <2>1 DEF Own, pingVars
  <2>7. Timely' BY <2>2 DEF Timely
  <2> QED BY <2>3, <2>4, <2>5, <2>6, <2>7 DEF HeartInv
<1> QED BY <1>2, <1>3

LEMMA PingExpiresStep ==
    ASSUME HeartInv, NEW n \in Nonces, PingExpires(n)
    PROVE  HeartInv'
<1>0. TypeOK /\ Books /\ OneFrame /\ Own /\ Timely BY DEF HeartInv
<1>1. /\ result[n] = "waiting"
      /\ pending' = pending \ {n} /\ pingStarted' = {s \in pingStarted : s[1] # n}
      /\ result' = [result EXCEPT ![n] = "no pong"]
      /\ deadline' = [deadline EXCEPT ![n] = 0]
      /\ UNCHANGED <<open, now, lastActivity, lastFrame, heart, wake, stopped, beat, missed, used>>
      /\ UNCHANGED <<queued, toRemote, toUs, alive>>
  BY DEF PingExpires, Expired, GiveUp, Forget, clockVars, heartVars, wireVars
<1>2. /\ pending \subseteq Nonces /\ pingStarted \subseteq Nonces \X (0 .. now)
      /\ deadline \in [Nonces -> Nat]
      /\ result \in [Nonces -> {"unused", "waiting", "pong", "no pong", "lost"}]
  BY <1>0, TypeFacts
<1>3. /\ result'[n] = "no pong"
      /\ \A m \in Nonces : m # n => result'[m] = result[m] /\ deadline'[m] = deadline[m]
      /\ deadline' \in [Nonces -> Nat]
      /\ result' \in [Nonces -> {"unused", "waiting", "pong", "no pong", "lost"}]
  BY <1>1, <1>2
<1>4. TypeOK'
  <2>1. pending' \subseteq Nonces /\ pingStarted' \subseteq Nonces \X (0 .. now') BY <1>1, <1>2
  <2> QED BY <2>1, <1>0, <1>1, <1>3 DEF TypeOK
<1>5. Books'
  <2>1. \A m \in Nonces : result'[m] = "unused" <=> m > used'
    <3>1. ~(n > used) BY <1>0, <1>1 DEF Books
    <3> QED BY <3>1, <1>0, <1>1, <1>3 DEF Books
  <2>2. pending' = {m \in Nonces : result'[m] = "waiting"} BY <1>0, <1>1, <1>3 DEF Books
  <2>3. \A s \in pingStarted' : s[1] \in pending' BY <1>0, <1>1 DEF Books
  <2>4. \A m \in pending' : \E s \in pingStarted' : s[1] = m BY <1>0, <1>1 DEF Books
  <2>5. \A m \in pending' : now' <= deadline'[m] BY <1>0, <1>1, <1>2, <1>3 DEF Books
  <2>6. \A s \in pingStarted' : deadline'[s[1]] - s[2] \in {HeartTimeout, PingTimeout}
    BY <1>0, <1>1, <1>2, <1>3 DEF Books
  <2>7. open' => \A m \in Nonces : result'[m] # "lost" BY <1>0, <1>1, <1>3 DEF Books
  <2> QED BY <2>1, <2>2, <2>3, <2>4, <2>5, <2>6, <2>7 DEF Books
<1>6. OneFrame' BY <1>0, <1>1, FrameKept
<1>7. heart = "pinging" =>
        /\ beat \in Nonces /\ result'[beat] # "unused"
        /\ result'[beat] = "pong" => result[beat] = "pong"
        /\ result'[beat] = "waiting" => result[beat] = "waiting" /\ deadline'[beat] = deadline[beat]
  BY <1>0, <1>3 DEF Own
<1>8. Own' BY <1>0, <1>1, <1>7 DEF Own, Beating, Within
<1>9. Timely' BY <1>0, <1>1, <1>7 DEF Timely, Beating, Bound
<1> QED BY <1>4, <1>5, <1>6, <1>8, <1>9 DEF HeartInv

LEMMA StutterStep == ASSUME HeartInv, UNCHANGED vars PROVE HeartInv'
<1>0. TypeOK /\ Books /\ OneFrame /\ Own /\ Timely BY DEF HeartInv
<1>1. /\ UNCHANGED <<open, now, lastActivity, lastFrame, heart, wake, stopped, beat, missed>>
      /\ UNCHANGED pingVars /\ UNCHANGED <<queued, toRemote, toUs, alive>>
  BY DEF vars, clockVars, heartVars, wireVars
<1>2. TypeOK' BY <1>0, <1>1 DEF TypeOK, pingVars
<1>3. Books' BY <1>0, <1>1, BooksKept
<1>4. OneFrame' BY <1>0, <1>1, FrameKept DEF pingVars
<1>5. Own' BY <1>0, <1>1, OwnKept DEF pingVars
<1>6. Timely' BY <1>0, <1>1, TimelyKept DEF pingVars
<1> QED BY <1>2, <1>3, <1>4, <1>5, <1>6 DEF HeartInv

LEMMA HeartNext == HeartInv /\ [Next]_vars => HeartInv'
<1> SUFFICES ASSUME HeartInv, [Next]_vars PROVE HeartInv' OBVIOUS
<1>1. CASE Tick BY <1>1, TickStep
<1>2. CASE AppPings BY <1>2, AppPingsStep
<1>3. CASE PongArrives BY <1>3, PongArrivesStep
<1>4. CASE SocketLost BY <1>4, SocketLostStep
<1>5. CASE Writes BY <1>5, WritesStep
<1>6. CASE Traffic BY <1>6, TrafficStep
<1>7. CASE RemoteAnswers BY <1>7, RemoteAnswersStep
<1>8. CASE FallsSilent BY <1>8, FallsSilentStep
<1>9. CASE HeartWakes BY <1>9, HeartWakesStep
<1>10. CASE PingAnswered BY <1>10, PingAnsweredStep
<1>11. CASE PingFails BY <1>11, PingFailsStep
<1>12. CASE Stop BY <1>12, StopStep
<1>13. CASE \E n \in Nonces : PingExpires(n) BY <1>13, PingExpiresStep
<1>14. CASE UNCHANGED vars BY <1>14, StutterStep
<1> QED
  BY <1>1, <1>2, <1>3, <1>4, <1>5, <1>6, <1>7, <1>8, <1>9, <1>10, <1>11, <1>12, <1>13, <1>14
  DEF Next

LEMMA HeartAlways == Spec => []HeartInv
BY HeartInit, HeartNext, PTL DEF Spec

----------------------------------------------------------------------------
(* The clock, the heartbeat, the pings and the queues keep their types.    *)
(* (Heartbeat, PingRegistry)                                               *)
THEOREM HeartbeatTypeCorrect == Spec => []TypeOK
<1>1. HeartInv => TypeOK BY DEF HeartInv
<1> QED BY <1>1, HeartAlways, PTL

(* Whatever pings are outstanding, queued or late, no connection is open   *)
(* and watched longer than interval plus timeout after the last frame.     *)
(* (Heartbeat.run, reportFrame)                                            *)
THEOREM DetectionIsTimely == Spec => []DetectedInTime
<1>1. HeartInv => DetectedInTime
  <2> SUFFICES ASSUME HeartInv, Beating PROVE now <= Bound
    BY DEF DetectedInTime, Beating, Bound
  <2>0. TypeOK /\ Timely BY DEF HeartInv
  <2>1. /\ now \in Nat /\ wake \in Nat /\ lastFrame \in Nat /\ Interval \in Nat /\ HeartTimeout \in Nat
    BY <2>0, TypeFacts
  <2>2. CASE heart = "sleeping"
    <3>1. now <= wake /\ wake <= lastFrame + Interval BY <2>0, <2>2 DEF Timely
    <3>2. now <= lastFrame + Interval + HeartTimeout BY <3>1, <2>1
    <3> QED BY <3>2 DEF Bound
  <2>3. CASE heart = "pinging" BY <2>0, <2>3 DEF Timely
  <2>4. heart # "ended" BY <2>0 DEF Timely
  <2>5. heart \in {"sleeping", "pinging", "ended"} BY <2>0 DEF TypeOK
  <2> QED BY <2>2, <2>3, <2>4, <2>5
<1> QED BY <1>1, HeartAlways, PTL

(* The two maps of pings agree, hold exactly the calls that wait, and none *)
(* waits past its deadline.  (ping, onPong, giveUp, failAll)               *)
THEOREM PingsAreAccounted == Spec => []PingsAccounted
<1>1. HeartInv => PingsAccounted
  <2> SUFFICES ASSUME Books PROVE PingsAccounted BY DEF HeartInv
  <2>1. pending = {s[1] : s \in pingStarted} BY DEF Books
  <2> QED BY <2>1 DEF Books, PingsAccounted
<1> QED BY <1>1, HeartAlways, PTL

(* A call of ping() returns on its own pong alone, and the heartbeat gives *)
(* the socket up only after its own ping ran into its deadline.            *)
(* (PingRegistry.settle, onPong, Heartbeat.run)                            *)
THEOREM PongIsOwn == Spec => OwnPong
<1> DEFINE Step == \A n \in Nonces :
                     /\ result[n] = "waiting" /\ result'[n] = "pong" => toUs # <<>> /\ Head(toUs) = n
                     /\ ~missed /\ missed' => result[beat] = "no pong"
<1>1. HeartInv /\ [Next]_vars => [Step]_vars
  <2> SUFFICES ASSUME HeartInv, Next PROVE Step OBVIOUS
  <2> SUFFICES ASSUME NEW n \in Nonces
               PROVE  /\ result[n] = "waiting" /\ result'[n] = "pong" => toUs # <<>> /\ Head(toUs) = n
                      /\ ~missed /\ missed' => result[beat] = "no pong"
    OBVIOUS
  <2>0. TypeOK /\ Books /\ Own BY DEF HeartInv
  <2>1. result \in [Nonces -> {"unused", "waiting", "pong", "no pong", "lost"}] BY <2>0, TypeFacts
  <2>2. ~missed /\ missed' => PingFails /\ ~stopped /\ open
    BY DEF Next, Tick, AppPings, PongArrives, SocketLost, Writes, Traffic, RemoteAnswers, FallsSilent,
           HeartWakes, PingAnswered, PingFails, Stop, PingExpires, heartVars
  <2>3. ~missed /\ missed' => result[beat] = "no pong"
    <3> SUFFICES ASSUME PingFails, open PROVE result[beat] = "no pong" BY <2>2
    <3>1. beat \in Nonces /\ result[beat] \in {"no pong", "lost"} BY <2>0 DEF PingFails, Own
    <3>2. result[beat] # "lost" BY <3>1, <2>0 DEF Books
    <3> QED BY <3>1, <3>2
  <2>4. result[n] = "waiting" /\ result'[n] = "pong" => PongArrives
    <3>1. UNCHANGED result \/ PongArrives \/ (\E t \in {HeartTimeout, PingTimeout} : Ping(t))
          \/ Die \/ (\E m \in Nonces : PingExpires(m))
      BY DEF Next, Tick, AppPings, SocketLost, Writes, Traffic, RemoteAnswers, FallsSilent,
             HeartWakes, PingAnswered, PingFails, Stop, Beat, pingVars
    <3>2. ASSUME NEW t \in {HeartTimeout, PingTimeout}, Ping(t)
          PROVE  result'[n] = "waiting" \/ result'[n] = result[n]
      BY <2>1, <3>2 DEF Ping
    <3>3. Die => result'[n] = "lost" \/ result'[n] = result[n] BY DEF Die
    <3>4. ASSUME NEW m \in Nonces, PingExpires(m)
          PROVE  result'[n] = "no pong" \/ result'[n] = result[n]
      BY <2>1, <3>4 DEF PingExpires
    <3> QED BY <3>1, <3>2, <3>3, <3>4
  <2>5. PongArrives /\ result[n] = "waiting" /\ result'[n] = "pong" => toUs # <<>> /\ Head(toUs) = n
    BY DEF PongArrives, Answered
  <2> QED BY <2>3, <2>4, <2>5
<1> QED BY <1>1, HeartAlways, PTL DEF Spec, OwnPong
=============================================================================
