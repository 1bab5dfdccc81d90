--------------------------- MODULE InboundProofs ----------------------------
(***************************************************************************)
(* Proofs about a stream on its consuming side, in three parts.            *)
(*                                                                         *)
(* Consumer.tla, for every number of payloads: a consumer of any shape is  *)
(* told of the end, one fitting reset goes out, and a settled answer       *)
(* stays.  ConsumerInv is the invariant; its parts say who may have        *)
(* claimed the stream and where that consumer stands, what the queue       *)
(* holds when nothing more can come, and what a cause of a close entails.  *)
(*                                                                         *)
(* Inbound.tla: whatever an adapter of any kind delivers, the stream       *)
(* behind the read loop takes only steps of Consumer.tla, so the promises  *)
(* of the first part hold from the socket on.  The invariant LineInv is    *)
(* the shape of what is on its way.                                        *)
(*                                                                         *)
(* DeliveredInOrder, for every adapter, shape of consumer and number of    *)
(* payloads and messages: OrderFits says it of the stream (what was taken, *)
(* what its queue holds and what has arrived make one row), RowFits of     *)
(* what is on the way, and EndFits where the close of a socket may stand   *)
(* among messages.                                                         *)
(***************************************************************************)
EXTENDS Inbound, SequenceTheorems, TLAPS

-----------------------------------------------------------------------------
(* The consumer of a stream.                                               *)

EndsIn(q) == \E i \in 1 .. Len(q) : q[i].kind # "payload"
HasFailure(q) == \E i \in 1 .. Len(q) : q[i] = Failure

ClaimFits ==
    /\ shape = "notify" => claim = "notify" /\ pc = "idle"
    /\ shape \in {"request", "requestWithDeadline"} => claim = "iterate" /\ pc \in {"waiting", "done"}
    /\ shape = "iterate" =>
          /\ pc \in {"idle", "waiting", "body", "done"}
          /\ claim = IF pc = "idle" THEN "none" ELSE "iterate"
    /\ shape \in {"await", "result"} =>
          /\ pc \in {"idle", "waiting", "abandoning", "done"}
          /\ claim = IF pc = "idle" THEN "none" ELSE "await"
    /\ shape = "unconsumed" => claim = "none" /\ pc = "idle"

AnswerFits ==
    /\ answer # Pending => answerRequested
    /\ answerRequested /\ Over => answer # Pending

QueueFits ==
    /\ shape \in Iterates /\ pc # "done" /\ Over => EndsIn(queue)
    /\ shape \notin Iterates /\ Over => queue # <<>>
    /\ HasFailure(queue) => closeCause \in Failures

CloseFits ==
    /\ ~hasASocket => state = "closed"
    /\ state = "half closed remote" => remoteEnded
    /\ state = "closed" => closed /\ headersSettled
    /\ closeCause \in Local => resets = <<closeCause>>
    /\ closeCause \notin Local => resets = <<>>

ReportFits ==
    /\ reported <= 1
    /\ closeCause \notin Failures => reported = 0
    /\ closeCause \in Failures /\ claim \in {"none", "notify"} => reported = 1
    /\ claim = "iterate" /\ shape # "iterate" => reported = 0

OutcomeFits ==
    /\ outcome \in {"aborted", "left", "tooMany"} => state = "closed"
    /\ shape \in {"iterate", "request"} /\ outcome = "failure" => closeCause \in Failures

ConsumerInv ==
    TypeOK /\ ClaimFits /\ AnswerFits /\ QueueFits /\ CloseFits /\ ReportFits /\ OutcomeFits

----------------------------------------------------------------------------
(* Facts about the queue.                                                  *)

LEMMA ItemFacts ==
    /\ END \in Items /\ Failure \in Items
    /\ \A n \in 1 .. MaxPayloads : Payload(n) \in Items
    /\ \A item \in Items : \/ item = END /\ item.kind = "end"
                           \/ item = Failure /\ item.kind = "failure"
                           \/ item.kind = "payload" /\ item.n \in 1 .. MaxPayloads /\ item = Payload(item.n)
    /\ \A item \in Items \cup {Empty} : item # Pending
<1>1. END.kind = "end" /\ Failure.kind = "failure" BY DEF END, Failure
<1>2. \A n \in 1 .. MaxPayloads : Payload(n).kind = "payload" /\ Payload(n).n = n BY DEF Payload
<1>3. Pending.kind = "pending" /\ Empty.kind = "empty" BY DEF Pending, Empty
<1> QED BY <1>1, <1>2, <1>3 DEF Items

LEMMA AppendFacts ==
    ASSUME NEW q \in Seq(Items), NEW item \in Items
    PROVE  /\ Append(q, item) \in Seq(Items)
           /\ Append(q, item) # <<>>
           /\ EndsIn(q) \/ item.kind # "payload" => EndsIn(Append(q, item))
           /\ HasFailure(Append(q, item)) => HasFailure(q) \/ item = Failure
<1> DEFINE longer == Append(q, item)
<1>1. /\ longer \in Seq(Items) /\ Len(longer) = Len(q) + 1 /\ longer # <<>>
      /\ \A i \in 1 .. Len(q) : longer[i] = q[i]
      /\ longer[Len(q) + 1] = item
  BY AppendProperties
<1>2. EndsIn(q) \/ item.kind # "payload" => EndsIn(longer)
  BY <1>1, Len(q) \in Nat DEF EndsIn
<1>3. HasFailure(longer) => HasFailure(q) \/ item = Failure
  BY <1>1, Len(q) \in Nat DEF HasFailure
<1> QED BY <1>1, <1>2, <1>3

LEMMA HeadFacts ==
    ASSUME NEW q \in Seq(Items), q # <<>>
    PROVE  /\ Head(q) \in Items /\ Tail(q) \in Seq(Items)
           /\ EndsIn(q) /\ Head(q).kind = "payload" => EndsIn(Tail(q))
           /\ HasFailure(Tail(q)) => HasFailure(q)
           /\ Head(q) = Failure => HasFailure(q)
<1>1. /\ Len(q) \in Nat /\ Len(q) >= 1
      /\ Head(q) = q[1] /\ Head(q) \in Items
      /\ Tail(q) \in Seq(Items) /\ Len(Tail(q)) = Len(q) - 1
      /\ \A i \in 1 .. Len(Tail(q)) : Tail(q)[i] = q[i + 1]
  BY HeadTailProperties, EmptySeq, LenProperties
<1>2. ASSUME EndsIn(q), Head(q).kind = "payload" PROVE EndsIn(Tail(q))
  <2>1. PICK i \in 1 .. Len(q) : q[i].kind # "payload" BY <1>2 DEF EndsIn
  <2>2. i # 1 BY <2>1, <1>1, <1>2
  <2>3. i - 1 \in 1 .. Len(Tail(q)) /\ Tail(q)[i - 1] = q[i] BY <2>1, <2>2, <1>1
  <2> QED BY <2>1, <2>3 DEF EndsIn
<1>3. HasFailure(Tail(q)) => HasFailure(q)
  BY <1>1 DEF HasFailure
<1>4. Head(q) = Failure => HasFailure(q)
  BY <1>1 DEF HasFailure
<1> QED BY <1>1, <1>2, <1>3, <1>4

----------------------------------------------------------------------------
(* The invariant.                                                          *)

LEMMA ConsumerInit == Init => ConsumerInv
<1> SUFFICES ASSUME Init PROVE ConsumerInv OBVIOUS
<1>1. queue = <<>> /\ resets = <<>> /\ got = <<>> BY DEF Init
<1>2. queue \in Seq(Items) /\ resets \in Seq(Local) /\ got \in Seq(1 .. MaxPayloads) BY <1>1
<1>3. ~EndsIn(queue) /\ ~HasFailure(queue) BY <1>1 DEF EndsIn, HasFailure
<1>4. TypeOK
  <2>1. arrived \in 0 .. MaxPayloads
    <3>1. arrived = 0 BY DEF Init
    <3> QED BY <3>1, MaxPayloadsAssumption DEF MaxPayloadsAssumption
  <2>2. state # "closed" /\ closeCause = "none" /\ answer = Pending BY DEF Init
  <2>3. /\ claim \in {"none", "iterate", "notify"} /\ answerRequested = FALSE
        /\ pc \in {"idle", "waiting"}
    BY DEF Init
  <2>4. reported \in Nat BY DEF Init
  <2>5. answerRequested = (claim = "await") BY <2>3
  <2>6. (state = "closed") = (closeCause # "none") BY <2>2
  <2>7. /\ shape \in Shapes /\ remoteEnded \in BOOLEAN /\ hasASocket \in BOOLEAN
        /\ state \in {"open", "half closed local"}
        /\ headersSettled \in BOOLEAN /\ closed \in BOOLEAN
        /\ outcome = "none"
    BY DEF Init
  <2> QED BY <1>2, <2>1, <2>2, <2>3, <2>4, <2>5, <2>6, <2>7 DEF TypeOK
<1>5. ClaimFits BY DEF Init, ClaimFits, OpensWithEnd, Shapes
<1>6. AnswerFits /\ QueueFits BY <1>3 DEF Init, AnswerFits, QueueFits, Over
<1>7. closeCause \notin Failures /\ closeCause \notin Local BY DEF Init, Failures, Local
<1>8. CloseFits BY <1>1, <1>7 DEF Init, CloseFits
<1>9. ReportFits
  <2>1. reported = 0 BY DEF Init
  <2>2. claim \in {"none", "notify"} => closeCause \notin Failures BY <1>7
  <2> QED BY <1>7, <2>1, <2>2 DEF ReportFits
<1>10. OutcomeFits BY DEF Init, OutcomeFits
<1> QED BY <1>4, <1>5, <1>6, <1>8, <1>9, <1>10 DEF ConsumerInv

(* The invariant's facts in the form the steps below use.                  *)
LEMMA Facts ==
    ASSUME ConsumerInv
    PROVE  /\ queue \in Seq(Items) /\ resets \in Seq(Local)
           /\ answerRequested <=> claim = "await"
           /\ answerRequested \in BOOLEAN
           /\ state = "closed" <=> closeCause # "none"
           /\ state # "closed" => /\ closeCause \notin Failures /\ closeCause \notin Local
                                  /\ hasASocket /\ resets = <<>> /\ reported = 0
                                  /\ ~HasFailure(queue)
           /\ answer # Pending => answerRequested
           /\ "normal" \notin Failures
<1>1. /\ queue \in Seq(Items) /\ resets \in Seq(Local)
      /\ answerRequested = (claim = "await")
      /\ (state = "closed") = (closeCause # "none")
  BY DEF ConsumerInv, TypeOK
<1>2. answerRequested \in BOOLEAN BY <1>1
<1>3. answer # Pending => answerRequested BY DEF ConsumerInv, AnswerFits
<1>4. "none" \notin Failures /\ "none" \notin Local /\ "normal" \notin Failures
  BY DEF Failures, Local
<1>5. ASSUME state # "closed"
      PROVE  /\ closeCause \notin Failures /\ closeCause \notin Local
             /\ hasASocket /\ resets = <<>> /\ reported = 0
             /\ ~HasFailure(queue)
  <2>1. closeCause \notin Failures /\ closeCause \notin Local BY <1>1, <1>4, <1>5
  <2>2. hasASocket /\ resets = <<>> BY <1>5, <2>1 DEF ConsumerInv, CloseFits
  <2>3. reported = 0 BY <2>1 DEF ConsumerInv, ReportFits
  <2>4. ~HasFailure(queue) BY <2>1 DEF ConsumerInv, QueueFits
  <2> QED BY <2>1, <2>2, <2>3, <2>4
<1> QED BY <1>1, <1>2, <1>3, <1>4, <1>5

Places == {"idle", "waiting", "body", "abandoning", "done"}
Outcomes == {"none", "value", "failure", "empty", "tooMany", "timeout", "aborted", "ended", "left"}

(* A live stream that fails keeps the invariant, wherever the consumer     *)
(* goes with it.                                                           *)
LEMMA FailInv ==
    ASSUME ConsumerInv, NEW code \in Failures, state # "closed", Fail(code),
           UNCHANGED <<shape, arrived, remoteEnded, claims, got>>,
           hasASocket' \in BOOLEAN,
           resets' = IF code \in Local THEN <<code>> ELSE <<>>,
           pc' \in Places, ClaimFits', outcome' \in Outcomes
    PROVE  ConsumerInv'
<1> DEFINE wanted == IF answerRequested /\ answer = Pending THEN Failure ELSE answer
<1>1. Failure \in Items /\ Failure.kind # "payload" /\ Failure # Pending
  BY ItemFacts DEF Failure, Pending
<1>2. queue' = Append(queue, Failure) BY DEF Fail
<1>3. queue' \in Seq(Items) /\ EndsIn(queue') /\ queue' # <<>>
  BY <1>1, <1>2, Facts, AppendFacts
<1>4. state' = "closed" /\ closeCause' = code /\ closed' = TRUE /\ headersSettled' = TRUE
  BY DEF Fail
<1>5. answer' = wanted BY DEF Fail, Settled
<1>6. shape' = shape /\ claim' = claim /\ answerRequested' = answerRequested
  BY DEF claims
<1>7. reported' = IF claim \in {"await", "iterate"} THEN 0 ELSE 1
  BY Facts DEF Fail, Reported
<1>8. code # "none" BY DEF Failures, Local
<1>9. TypeOK'
  <2>1. shape' \in Shapes /\ arrived' \in 0 .. MaxPayloads /\ remoteEnded' \in BOOLEAN
        /\ got' \in Seq(1 .. MaxPayloads)
        /\ claim' \in {"none", "await", "iterate", "notify"}
    BY <1>6 DEF ConsumerInv, TypeOK
  <2>2. closeCause' \in {"none", "normal"} \union Failures BY <1>4
  <2>3. (state' = "closed") = (closeCause' # "none") BY <1>4, <1>8
  <2>4. answerRequested' = (claim' = "await") BY <1>6 DEF ConsumerInv, TypeOK
  <2>5. answer' \in {Pending, Empty, Failure} \union {Payload(n) : n \in 1 .. MaxPayloads}
    <3>1. answer \in {Pending, Empty, Failure} \union {Payload(n) : n \in 1 .. MaxPayloads}
      BY DEF ConsumerInv, TypeOK
    <3> QED BY <3>1, <1>5
  <2>6. resets' \in Seq(Local) OBVIOUS
  <2>7. reported' \in Nat BY <1>7
  <2> QED BY <1>3, <1>4, <2>1, <2>2, <2>3, <2>4, <2>5, <2>6, <2>7 DEF TypeOK, Places, Outcomes
<1>10. AnswerFits'
  BY <1>1, <1>5, <1>6, Facts DEF AnswerFits
<1>11. QueueFits' BY <1>3, <1>4 DEF QueueFits
<1>12. CloseFits'
  BY <1>4 DEF CloseFits
<1>13. ReportFits'
  <2>1. claim = "iterate" => reported' = 0 BY <1>7
  <2>2. claim \in {"none", "notify"} => reported' = 1 BY <1>7
  <2>3. reported' <= 1 BY <1>7
  <2> QED BY <2>1, <2>2, <2>3, <1>4, <1>6 DEF ReportFits
<1>14. OutcomeFits' BY <1>4 DEF OutcomeFits
<1> QED BY <1>9, <1>10, <1>11, <1>12, <1>13, <1>14 DEF ConsumerInv

(* Steps of the consumer that leave the stream alone.                      *)
LEMMA CoreStays ==
    ASSUME ConsumerInv, UNCHANGED <<shape, remote, core>>,
           claim' \in {"none", "await", "iterate", "notify"},
           answerRequested' = (claim' = "await"),
           claim' = claim \/ (claim' = "iterate" /\ shape = "iterate"),
           got' \in Seq(1 .. MaxPayloads),
           pc' \in Places, ClaimFits', outcome' \in Outcomes,
           pc' # "done" => pc # "done" \/ shape \notin Iterates,
           outcome' \in {"aborted", "left", "tooMany"} => state = "closed",
           shape \in {"iterate", "request"} /\ outcome' = "failure" => closeCause \in Failures
    PROVE  ConsumerInv'
<1>1. /\ shape' = shape /\ arrived' = arrived /\ remoteEnded' = remoteEnded
      /\ hasASocket' = hasASocket /\ state' = state /\ closeCause' = closeCause
      /\ queue' = queue /\ answer' = answer /\ headersSettled' = headersSettled
      /\ closed' = closed /\ resets' = resets /\ reported' = reported
  BY DEF remote, core
<1>2. TypeOK'
  BY <1>1 DEF ConsumerInv, TypeOK, Places, Outcomes
<1>3. AnswerFits'
  <2>1. answerRequested' = answerRequested
    BY DEF ConsumerInv, TypeOK, ClaimFits
  <2>2. answer' = answer BY <1>1
  <2>3. Over' <=> Over BY <1>1 DEF Over
  <2>4. AnswerFits BY DEF ConsumerInv
  <2>5. answer' # Pending => answerRequested' BY <2>1, <2>2, <2>4 DEF AnswerFits
  <2>6. answerRequested' /\ Over' => answer' # Pending BY <2>1, <2>2, <2>3, <2>4 DEF AnswerFits
  <2> QED BY <2>5, <2>6 DEF AnswerFits
<1>4. QueueFits' BY <1>1 DEF ConsumerInv, QueueFits, Over
<1>5. CloseFits' BY <1>1 DEF ConsumerInv, CloseFits
<1>6. ReportFits'
  BY <1>1 DEF ConsumerInv, ReportFits
<1>7. OutcomeFits' BY <1>1 DEF OutcomeFits
<1> QED BY <1>2, <1>3, <1>4, <1>5, <1>6, <1>7 DEF ConsumerInv

(* Stream.reset, which does nothing to a stream that is closed.            *)
LEMMA ResetInv ==
    ASSUME ConsumerInv, NEW code \in Local, Reset(code),
           UNCHANGED <<shape, remote, claims, got>>,
           pc' \in Places, ClaimFits', outcome' \in Outcomes,
           pc' # "done" => pc # "done" \/ shape \notin Iterates,
           outcome' = "failure" => outcome = "failure"
    PROVE  ConsumerInv' /\ state' = "closed"
<1>1. CASE state = "closed"
  <2>1. UNCHANGED core BY <1>1 DEF Reset
  <2>2. claim' = claim /\ answerRequested' = answerRequested BY DEF claims
  <2>3. claim' \in {"none", "await", "iterate", "notify"} /\ answerRequested' = (claim' = "await")
        /\ got' \in Seq(1 .. MaxPayloads)
    BY <2>2 DEF ConsumerInv, TypeOK
  <2>4. shape \in {"iterate", "request"} /\ outcome' = "failure" => closeCause \in Failures
    BY DEF ConsumerInv, OutcomeFits
  <2>5. ConsumerInv' BY <1>1, <2>1, <2>2, <2>3, <2>4, CoreStays
  <2> QED BY <1>1, <2>1, <2>5 DEF core
<1>2. CASE state # "closed"
  <2>1. Fail(code) /\ resets' = Append(resets, code)
    BY <1>2, Facts DEF Reset
  <2>2. resets' = <<code>> BY <2>1, <1>2, Facts
  <2>3. hasASocket' \in BOOLEAN /\ code \in Failures
    BY DEF remote, ConsumerInv, TypeOK, Failures
  <2>4. ConsumerInv'
    BY <1>2, <2>1, <2>2, <2>3, FailInv DEF remote
  <2> QED BY <2>1, <2>4 DEF Fail
<1> QED BY <1>1, <1>2

----------------------------------------------------------------------------
(* Every step keeps the invariant.                                         *)

LEMMA OnDataInv ==
    ASSUME ConsumerInv, NEW payload \in BOOLEAN, NEW end \in BOOLEAN, OnData(payload, end)
    PROVE  ConsumerInv'
<1> DEFINE item == Payload(arrived + 1)
<1> DEFINE items == IF payload THEN Append(queue, item) ELSE queue
<1> DEFINE first == IF payload THEN Settled(item) ELSE answer
<1> DEFINE empty == IF payload THEN first ELSE Settled(Empty)
<1>1. /\ shape' = shape /\ hasASocket' = hasASocket /\ resets' = resets /\ reported' = reported
      /\ claim' = claim /\ answerRequested' = answerRequested
      /\ pc' = pc /\ got' = got /\ outcome' = outcome
  BY DEF OnData, claims, consumer
<1>2. state # "closed" BY DEF OnData
<1>3. /\ queue \in Seq(Items) /\ hasASocket /\ resets = <<>> /\ reported = 0
      /\ closeCause = "none" /\ ~HasFailure(queue)
  BY <1>2, Facts
<1>4. /\ arrived' \in 0 .. MaxPayloads /\ remoteEnded' \in BOOLEAN
      /\ payload => arrived + 1 \in 1 .. MaxPayloads
  <2>1. arrived \in 0 .. MaxPayloads /\ MaxPayloads \in Nat
    BY MaxPayloadsAssumption DEF ConsumerInv, TypeOK, MaxPayloadsAssumption
  <2>2. (payload => arrived < MaxPayloads) /\ remoteEnded' = end
        /\ arrived' = IF payload THEN arrived + 1 ELSE arrived
    BY DEF OnData
  <2>3. CASE payload BY <2>1, <2>2, <2>3
  <2>4. CASE ~payload BY <2>1, <2>2, <2>4
  <2> QED BY <2>3, <2>4
<1>5. payload => item \in Items /\ item # Failure /\ item # Pending
  BY <1>4, ItemFacts DEF Failure, Payload, Pending
<1>6. items \in Seq(Items) /\ ~HasFailure(items)
  BY <1>3, <1>5, AppendFacts
<1>7. END \in Items /\ END.kind # "payload" /\ END # Failure /\ Empty # Pending
  BY ItemFacts DEF END, Failure, Empty, Pending
<1>8. /\ Append(items, END) \in Seq(Items) /\ Append(items, END) # <<>>
      /\ EndsIn(Append(items, END)) /\ ~HasFailure(Append(items, END))
  BY <1>6, <1>7, AppendFacts
<1> DEFINE Answers == {Pending, Empty, Failure} \union {Payload(n) : n \in 1 .. MaxPayloads}
<1>9. answer \in Answers BY DEF ConsumerInv, TypeOK
<1>10. /\ first \in Answers /\ empty \in Answers
       /\ (first # Pending => answerRequested) /\ (empty # Pending => answerRequested)
       /\ (answerRequested => empty # Pending)
  BY <1>4, <1>5, <1>7, <1>9, Facts DEF Settled
<1>11. \/ /\ state' = state /\ closeCause' = "none" /\ queue' = items /\ answer' = first
          /\ closed' = closed
       \/ /\ state' = "closed" /\ closeCause' = "normal" /\ closed' = TRUE
          /\ queue' = Append(items, END) /\ answer' = empty
       \/ /\ state = "open" /\ state' = "half closed remote" /\ closeCause' = "none"
          /\ closed' = closed
          /\ queue' = Append(items, END) /\ answer' = empty
  BY <1>3 DEF OnData, CloseNormally
<1>12. headersSettled' = TRUE BY DEF OnData, CloseNormally
<1>13. state # "half closed remote"
  BY DEF OnData, ConsumerInv, CloseFits
<1>14. Over' => /\ end /\ queue' = Append(items, END) /\ answer' = empty
  BY <1>2, <1>11, <1>13 DEF Over, OnData, CloseNormally
<1>15. TypeOK'
  <2>1. /\ shape' \in Shapes /\ hasASocket' \in BOOLEAN
        /\ claim' \in {"none", "await", "iterate", "notify"}
        /\ resets' \in Seq(Local) /\ reported' \in Nat
        /\ pc' \in Places /\ outcome' \in Outcomes /\ got' \in Seq(1 .. MaxPayloads)
    BY <1>1 DEF ConsumerInv, TypeOK, Places, Outcomes
  <2>2. answerRequested' = (claim' = "await") BY <1>1 DEF ConsumerInv, TypeOK
  <2>3. /\ state' \in {"open", "half closed local", "half closed remote", "closed"}
        /\ closeCause' \in {"none", "normal"}
    BY <1>11 DEF ConsumerInv, TypeOK
  <2>4. (state' = "closed") = (closeCause' # "none") BY <1>2, <1>11
  <2>5. queue' \in Seq(Items) BY <1>6, <1>8, <1>11
  <2>6. answer' \in Answers BY <1>10, <1>11
  <2>7. closed' \in BOOLEAN /\ headersSettled' \in BOOLEAN
    BY <1>11, <1>12 DEF ConsumerInv, TypeOK
  <2> QED BY <1>4, <2>1, <2>2, <2>3, <2>4, <2>5, <2>6, <2>7 DEF TypeOK, Places, Outcomes
<1>16. ClaimFits' BY <1>1 DEF ConsumerInv, ClaimFits
<1>17. AnswerFits'
  <2>1. answer' = first \/ answer' = empty BY <1>11
  <2>2. answerRequested' = answerRequested BY <1>1
  <2>3. answer' # Pending => answerRequested' BY <1>10, <2>1, <2>2
  <2>4. answerRequested' /\ Over' => answer' # Pending BY <1>10, <1>14, <2>2
  <2> QED BY <2>3, <2>4 DEF AnswerFits
<1>18. QueueFits'
  <2>1. ~HasFailure(queue') BY <1>6, <1>8, <1>11
  <2>2. Over' => EndsIn(queue') /\ queue' # <<>> BY <1>8, <1>14
  <2> QED BY <2>1, <2>2 DEF QueueFits
<1>19. CloseFits'
  <2>1. closeCause' \notin Local BY <1>11 DEF Local
  <2>2. resets' = <<>> /\ hasASocket' = TRUE BY <1>1, <1>3 DEF ConsumerInv, TypeOK
  <2>3. state' = "closed" => closed' BY <1>2, <1>11
  <2>4. state' = "half closed remote" => remoteEnded'
    BY <1>13, <1>14 DEF OnData, Over
  <2> QED BY <1>12, <2>1, <2>2, <2>3, <2>4 DEF CloseFits
<1>20. closeCause' \notin Failures BY <1>11 DEF Failures, Local
<1>21. ReportFits' BY <1>1, <1>3, <1>20 DEF ReportFits
<1>22. OutcomeFits'
  <2>1. outcome \notin {"aborted", "left", "tooMany"} BY <1>2 DEF ConsumerInv, OutcomeFits
  <2>2. ~(shape \in {"iterate", "request"} /\ outcome = "failure")
    BY <1>3 DEF ConsumerInv, OutcomeFits, Failures, Local
  <2> QED BY <1>1, <2>1, <2>2 DEF OutcomeFits
<1> QED BY <1>15, <1>16, <1>17, <1>18, <1>19, <1>21, <1>22 DEF ConsumerInv

LEMMA LocalEndInv == ConsumerInv /\ LocalEnd => ConsumerInv'
<1> SUFFICES ASSUME ConsumerInv, LocalEnd PROVE ConsumerInv' OBVIOUS
<1>1. /\ shape' = shape /\ hasASocket' = hasASocket /\ resets' = resets /\ reported' = reported
      /\ claim' = claim /\ answerRequested' = answerRequested /\ arrived' = arrived
      /\ remoteEnded' = remoteEnded /\ pc' = pc /\ got' = got /\ outcome' = outcome
  BY DEF LocalEnd, claims, consumer, remote
<1>2. state # "closed" BY DEF LocalEnd
<1>3. /\ queue \in Seq(Items) /\ hasASocket /\ resets = <<>> /\ reported = 0
      /\ closeCause = "none" /\ ~HasFailure(queue)
  BY <1>2, Facts
<1>4. \/ /\ state = "open" /\ state' = "half closed local" /\ closeCause' = "none"
         /\ queue' = queue /\ answer' = answer
      \/ /\ state = "half closed remote" /\ state' = "closed" /\ closeCause' = "normal"
         /\ queue' = Append(queue, END) /\ answer' = Settled(Empty)
  BY <1>3 DEF LocalEnd, CloseNormally
<1>5. END \in Items /\ END.kind # "payload" /\ END # Failure /\ Empty # Pending
  BY ItemFacts DEF END, Failure, Empty, Pending
<1>6. /\ Append(queue, END) \in Seq(Items) /\ Append(queue, END) # <<>>
      /\ EndsIn(Append(queue, END)) /\ ~HasFailure(Append(queue, END))
  BY <1>3, <1>5, AppendFacts
<1>7. state' = "closed" => closed' /\ headersSettled'
  BY <1>2, <1>4 DEF LocalEnd, CloseNormally
<1> DEFINE Answers == {Pending, Empty, Failure} \union {Payload(n) : n \in 1 .. MaxPayloads}
<1>8. answer' \in Answers /\ (answer' # Pending => answerRequested)
      /\ (answer # Pending => answer' = answer)
  <2>1. answer \in Answers BY DEF ConsumerInv, TypeOK
  <2> QED BY <1>4, <2>1, Facts DEF Settled
<1>9. TypeOK'
  <2>1. /\ shape' \in Shapes /\ hasASocket' \in BOOLEAN /\ remoteEnded' \in BOOLEAN
        /\ arrived' \in 0 .. MaxPayloads
        /\ claim' \in {"none", "await", "iterate", "notify"}
        /\ resets' \in Seq(Local) /\ reported' \in Nat
        /\ pc' \in Places /\ outcome' \in Outcomes /\ got' \in Seq(1 .. MaxPayloads)
    BY <1>1 DEF ConsumerInv, TypeOK, Places, Outcomes
  <2>2. answerRequested' = (claim' = "await") BY <1>1 DEF ConsumerInv, TypeOK
  <2>3. /\ state' \in {"open", "half closed local", "half closed remote", "closed"}
        /\ closeCause' \in {"none", "normal"}
        /\ (state' = "closed") = (closeCause' # "none")
    BY <1>4
  <2>4. queue' \in Seq(Items) BY <1>3, <1>4, <1>6
  <2>5. closed' \in BOOLEAN /\ headersSettled' \in BOOLEAN
    BY DEF LocalEnd, CloseNormally, ConsumerInv, TypeOK
  <2> QED BY <1>8, <2>1, <2>2, <2>3, <2>4, <2>5 DEF TypeOK, Places, Outcomes
<1>10. ClaimFits' BY <1>1 DEF ConsumerInv, ClaimFits
<1>11. Over' => queue' = Append(queue, END) /\ answer' = Settled(Empty) BY <1>4 DEF Over
<1>12. AnswerFits'
  <2>1. answerRequested' = answerRequested BY <1>1
  <2>2. answer' # Pending => answerRequested' BY <1>8, <2>1
  <2>3. answerRequested' /\ Over' => answer' # Pending BY <1>5, <1>11, <2>1 DEF Settled
  <2> QED BY <2>2, <2>3 DEF AnswerFits
<1>13. QueueFits'
  <2>1. ~HasFailure(queue') BY <1>3, <1>4, <1>6
  <2>2. Over' => EndsIn(queue') /\ queue' # <<>> BY <1>6, <1>11
  <2> QED BY <2>1, <2>2 DEF QueueFits
<1>14. CloseFits'
  <2>1. closeCause' \notin Local BY <1>4 DEF Local
  <2>2. resets' = <<>> /\ hasASocket' = TRUE BY <1>1, <1>3 DEF ConsumerInv, TypeOK
  <2>3. state' # "half closed remote" BY <1>4
  <2> QED BY <1>7, <2>1, <2>2, <2>3 DEF CloseFits
<1>15. closeCause' \notin Failures BY <1>4 DEF Failures, Local
<1>16. ReportFits' BY <1>1, <1>3, <1>15 DEF ReportFits
<1>17. OutcomeFits'
  <2>1. outcome \notin {"aborted", "left", "tooMany"} BY <1>2 DEF ConsumerInv, OutcomeFits
  <2>2. ~(shape \in {"iterate", "request"} /\ outcome = "failure")
    BY <1>3 DEF ConsumerInv, OutcomeFits, Failures, Local
  <2> QED BY <1>1, <2>1, <2>2 DEF OutcomeFits
<1> QED BY <1>9, <1>10, <1>12, <1>13, <1>14, <1>16, <1>17 DEF ConsumerInv

(* The first await, however late it comes.                                 *)
LEMMA CurrentAnswerFacts ==
    ASSUME ConsumerInv, shape \notin Iterates
    PROVE  /\ CurrentAnswer \in {Pending, Empty, Failure} \union {Payload(n) : n \in 1 .. MaxPayloads}
           /\ Over => CurrentAnswer # Pending
<1>1. queue \in Seq(Items) /\ (Over => queue # <<>>)
  BY DEF ConsumerInv, TypeOK, QueueFits
<1>2. queue # <<>> => Head(queue) \in Items BY <1>1, HeadFacts
<1>3. Failure # Pending /\ Empty # Pending BY DEF Failure, Empty, Pending
<1>4. \A item \in Items : item # Pending /\ (item = END \/ item = Failure \/ \E n \in 1 .. MaxPayloads : item = Payload(n))
  BY ItemFacts DEF Items
<1> QED BY <1>1, <1>2, <1>3, <1>4 DEF CurrentAnswer

LEMMA AwaitInv ==
    ASSUME ConsumerInv, shape \in {"await", "result"},
           claim' = "await", answerRequested' = TRUE,
           answer' = IF answerRequested THEN answer ELSE CurrentAnswer,
           pc' \in {"waiting", "abandoning"},
           UNCHANGED <<shape, remote, state, closeCause, queue, headersSettled, closed,
                       resets, reported, got, outcome>>
    PROVE  ConsumerInv'
<1>1. /\ shape' = shape /\ arrived' = arrived /\ remoteEnded' = remoteEnded
      /\ hasASocket' = hasASocket /\ state' = state /\ closeCause' = closeCause
      /\ queue' = queue /\ headersSettled' = headersSettled
      /\ closed' = closed /\ resets' = resets /\ reported' = reported
      /\ got' = got /\ outcome' = outcome
  BY DEF remote
<1> DEFINE Answers == {Pending, Empty, Failure} \union {Payload(n) : n \in 1 .. MaxPayloads}
<1>2. shape \notin Iterates BY DEF Iterates
<1>3. answer' \in Answers
  <2>1. answer \in Answers BY DEF ConsumerInv, TypeOK
  <2> QED BY <1>2, <2>1, CurrentAnswerFacts
<1>4. TypeOK'
  <2>1. (state' = "closed") = (closeCause' # "none") /\ answerRequested' = (claim' = "await")
    BY <1>1 DEF ConsumerInv, TypeOK
  <2> QED BY <1>1, <1>3, <2>1 DEF ConsumerInv, TypeOK
<1>5. ClaimFits' BY <1>1 DEF ClaimFits
<1>6. Over' <=> Over BY <1>1 DEF Over
<1>7. AnswerFits'
  <2>1. answerRequested /\ Over => answer # Pending BY DEF ConsumerInv, AnswerFits
  <2>2. Over => answer' # Pending BY <1>2, <2>1, CurrentAnswerFacts
  <2> QED BY <1>6, <2>2 DEF AnswerFits
<1>8. QueueFits' BY <1>1, <1>2, <1>6 DEF ConsumerInv, QueueFits
<1>9. CloseFits'
  <2>1. CloseFits BY DEF ConsumerInv
  <2> QED BY ONLY <1>1, <2>1 DEF CloseFits
<1>10. ReportFits'
  BY <1>1 DEF ConsumerInv, ReportFits
<1>11. OutcomeFits' BY <1>1 DEF ConsumerInv, OutcomeFits
<1> QED BY <1>4, <1>5, <1>7, <1>8, <1>9, <1>10, <1>11 DEF ConsumerInv

LEMMA TakesOneInv ==
    ASSUME ConsumerInv, shape \in Iterates, pc = "waiting", queue # <<>>,
           queue' = Tail(queue),
           UNCHANGED <<shape, remote, claims, state, closeCause, answer, headersSettled,
                       closed, resets, reported>>,
           got' \in Seq(1 .. MaxPayloads), pc' \in Places, ClaimFits',
           pc' # "done" => Head(queue).kind = "payload",
           \/ outcome' \in {outcome, "ended", "empty", "value"}
           \/ outcome' = "failure" /\ Head(queue) = Failure
    PROVE  ConsumerInv'
<1>1. /\ shape' = shape /\ arrived' = arrived /\ remoteEnded' = remoteEnded
      /\ hasASocket' = hasASocket /\ state' = state /\ closeCause' = closeCause
      /\ answer' = answer /\ headersSettled' = headersSettled
      /\ closed' = closed /\ resets' = resets /\ reported' = reported
      /\ claim' = claim /\ answerRequested' = answerRequested
  BY DEF remote, claims
<1>2. /\ queue' \in Seq(Items)
      /\ EndsIn(queue) /\ Head(queue).kind = "payload" => EndsIn(queue')
      /\ HasFailure(queue') => HasFailure(queue)
      /\ Head(queue) = Failure => HasFailure(queue)
  BY HeadFacts, Facts
<1>3. TypeOK'
  <2>1. (state' = "closed") = (closeCause' # "none") /\ answerRequested' = (claim' = "await")
    BY <1>1 DEF ConsumerInv, TypeOK
  <2>2. outcome' \in Outcomes BY DEF Outcomes, ConsumerInv, TypeOK
  <2> QED BY <1>1, <1>2, <2>1, <2>2 DEF ConsumerInv, TypeOK, Places, Outcomes
<1>4. Over' <=> Over BY <1>1 DEF Over
<1>5. AnswerFits'
  <2>1. AnswerFits BY DEF ConsumerInv
  <2>2. answer' # Pending => answerRequested' BY ONLY <1>1, <2>1 DEF AnswerFits
  <2>3. answerRequested' /\ Over' => answer' # Pending BY ONLY <1>1, <1>4, <2>1 DEF AnswerFits
  <2> QED BY <2>2, <2>3 DEF AnswerFits
<1>6. QueueFits'
  <2>1. Over => EndsIn(queue) BY DEF ConsumerInv, QueueFits
  <2>2. HasFailure(queue) => closeCause \in Failures BY DEF ConsumerInv, QueueFits
  <2>3. pc' # "done" /\ Over' => EndsIn(queue') BY <1>2, <1>4, <2>1
  <2>4. HasFailure(queue') => closeCause' \in Failures BY <1>1, <1>2, <2>2
  <2> QED BY <1>1, <2>3, <2>4 DEF QueueFits
<1>7. CloseFits'
  <2>1. CloseFits BY DEF ConsumerInv
  <2> QED BY ONLY <1>1, <2>1 DEF CloseFits
<1>8. ReportFits'
  <2>1. ReportFits BY DEF ConsumerInv
  <2> QED BY ONLY <1>1, <2>1 DEF ReportFits
<1>9. OutcomeFits'
  <2>1. Head(queue) = Failure => closeCause \in Failures
    BY <1>2 DEF ConsumerInv, QueueFits
  <2>2. OutcomeFits BY DEF ConsumerInv
  <2> QED BY <1>1, <2>1, <2>2 DEF OutcomeFits
<1> QED BY <1>3, <1>5, <1>6, <1>7, <1>8, <1>9 DEF ConsumerInv

LEMMA TakeInv == ConsumerInv /\ Take => ConsumerInv'
<1> SUFFICES ASSUME ConsumerInv, Take PROVE ConsumerInv' OBVIOUS
<1> DEFINE item == Head(queue)
<1>1. /\ shape \in Iterates /\ pc = "waiting" /\ queue # <<>>
      /\ UNCHANGED <<shape, remote, claims>>
  BY DEF Take
<1>2. item \in Items /\ got \in Seq(1 .. MaxPayloads)
  BY <1>1, Facts, HeadFacts DEF ConsumerInv, TypeOK
<1>3. claim' = claim /\ shape' = shape BY <1>1 DEF claims
<1>4. ClaimFits BY DEF ConsumerInv
<1>5. pc' = "done" => ClaimFits'
  BY <1>1, <1>3, <1>4 DEF ClaimFits, Iterates
<1>6. END.kind # "payload" /\ Failure.kind # "payload" BY DEF END, Failure
<1>7. CASE item.kind = "payload" /\ ~PayloadRefused
  <2>1. /\ queue' = Tail(queue) /\ got' = Append(got, item.n)
        /\ pc' = (IF shape = "iterate" THEN "body" ELSE "waiting")
        /\ UNCHANGED <<state, closeCause, answer, headersSettled, closed, resets, reported, outcome>>
    BY <1>6, <1>7 DEF Take
  <2>2. got' \in Seq(1 .. MaxPayloads) BY <1>2, <1>7, <2>1, ItemFacts DEF END, Failure
  <2>3. ClaimFits' BY <1>1, <1>3, <1>4, <2>1 DEF ClaimFits, Iterates
  <2>4. pc' \in Places BY <2>1 DEF Places
  <2>5. UNCHANGED <<shape, remote, claims, state, closeCause, answer, headersSettled,
                      closed, resets, reported>>
    BY <1>1, <2>1
  <2>6. /\ pc' # "done" => Head(queue).kind = "payload"
        /\ \/ outcome' \in {outcome, "ended", "empty", "value"}
           \/ outcome' = "failure" /\ Head(queue) = Failure
    BY <1>7, <2>1
  <2> QED BY <1>1, <2>1, <2>2, <2>3, <2>4, <2>5, <2>6, TakesOneInv
<1>8. CASE item.kind = "payload" /\ PayloadRefused
  <2>1. Reset("PROTOCOL_ERROR") /\ pc' = "done" /\ outcome' = "tooMany" /\ got' = got
    BY <1>6, <1>8 DEF Take
  <2>2. "PROTOCOL_ERROR" \in Local /\ pc' \in Places /\ outcome' \in Outcomes
    BY <2>1 DEF Local, Places, Outcomes
  <2> QED BY <1>1, <1>5, <2>1, <2>2, ResetInv
<1>9. CASE item = END
  <2>1. /\ queue' = Tail(queue) /\ pc' = "done" /\ got' = got
        /\ outcome' \in {"ended", "empty", "value"}
        /\ UNCHANGED <<state, closeCause, answer, headersSettled, closed, resets, reported>>
    BY <1>6, <1>9 DEF Take, END, Failure
  <2>2. pc' \in Places /\ got' \in Seq(1 .. MaxPayloads) BY <1>2, <2>1 DEF Places
  <2>3. UNCHANGED <<shape, remote, claims, state, closeCause, answer, headersSettled,
                      closed, resets, reported>>
    BY <1>1, <2>1
  <2>4. /\ pc' # "done" => Head(queue).kind = "payload"
        /\ \/ outcome' \in {outcome, "ended", "empty", "value"}
           \/ outcome' = "failure" /\ Head(queue) = Failure
    BY <2>1
  <2>5. ClaimFits' BY <1>5, <2>1
  <2> QED BY <1>1, <2>1, <2>2, <2>3, <2>4, <2>5, TakesOneInv
<1>10. CASE item = Failure
  <2>1. /\ queue' = Tail(queue) /\ pc' = "done" /\ got' = got /\ outcome' = "failure"
        /\ UNCHANGED <<state, closeCause, answer, headersSettled, closed, resets, reported>>
    BY <1>6, <1>10 DEF Take, END, Failure
  <2>2. pc' \in Places BY <2>1 DEF Places
  <2> QED BY <1>1, <1>2, <1>5, <1>10, <2>1, <2>2, TakesOneInv
<1> QED BY <1>2, <1>7, <1>8, <1>9, <1>10, ItemFacts

(* Steps that only move the consumer, or fail the stream.                  *)
LEMMA AnsweredInv == ConsumerInv /\ (Answered \/ AwaitAgain \/ Abort \/ Iterate) => ConsumerInv'
<1> SUFFICES ASSUME ConsumerInv, Answered \/ AwaitAgain \/ Abort \/ Iterate PROVE ConsumerInv'
  OBVIOUS
<1>1. UNCHANGED <<shape, remote, core>>
  BY DEF Answered, AwaitAgain, Abort, Iterate
<1>2. shape' = shape BY <1>1
<1>3. CASE Iterate
  <2>1. /\ shape = "iterate" /\ pc = "idle" /\ claim' = "iterate" /\ pc' = "waiting"
        /\ got' = got /\ outcome' = outcome /\ answerRequested' = answerRequested
    BY <1>3 DEF Iterate
  <2>2. claim = "none" BY <2>1 DEF ConsumerInv, ClaimFits
  <2>3. answerRequested' = (claim' = "await") BY <2>1, <2>2, Facts
  <2>4. ClaimFits' BY <1>2, <2>1 DEF ClaimFits
  <2>5. got' \in Seq(1 .. MaxPayloads) /\ outcome' \in Outcomes /\ pc' \in Places
    BY <2>1 DEF ConsumerInv, TypeOK, Places, Outcomes
  <2>6. OutcomeFits BY DEF ConsumerInv
  <2>7. /\ outcome' \in {"aborted", "left", "tooMany"} => state = "closed"
        /\ shape \in {"iterate", "request"} /\ outcome' = "failure" => closeCause \in Failures
    BY <2>1, <2>6 DEF OutcomeFits
  <2>8. pc' # "done" => pc # "done" \/ shape \notin Iterates BY <2>1
  <2> QED BY <1>1, <2>1, <2>3, <2>4, <2>5, <2>7, <2>8, CoreStays
<1>4. CASE Answered
  <2>1. /\ shape \in {"await", "result"} /\ pc = "waiting" /\ pc' = "done" /\ answer # Pending
        /\ claim' = claim /\ answerRequested' = answerRequested
    BY <1>4 DEF Answered, claims
  <2>2. \/ answer = Empty \/ answer = Failure
        \/ \E n \in 1 .. MaxPayloads : answer = Payload(n)
    BY <2>1 DEF ConsumerInv, TypeOK
  <2>3. /\ Empty.kind = "empty" /\ Failure.kind = "failure"
        /\ \A n \in 1 .. MaxPayloads : Payload(n).kind = "payload" /\ Payload(n).n = n
    BY DEF Empty, Failure, Payload
  <2>4. Empty # Failure BY <2>3
  <2>5. got' \in Seq(1 .. MaxPayloads) /\ outcome' \in {"value", "failure", "empty"}
    <3>1. CASE answer = Empty \/ answer = Failure
      <4>1. answer.kind # "payload" BY <2>3, <3>1
      <4>2. got' = <<>> BY <1>4, <4>1 DEF Answered
      <4>3. outcome' \in {"failure", "empty"} BY <1>4, <2>4, <3>1, <4>1 DEF Answered
      <4> QED BY <4>2, <4>3
    <3>2. CASE \E n \in 1 .. MaxPayloads : answer = Payload(n)
      <4>1. PICK n \in 1 .. MaxPayloads : answer = Payload(n) BY <3>2
      <4>2. answer.kind = "payload" /\ answer.n = n BY <2>3, <4>1
      <4>3. answer # Failure /\ answer # Empty BY <2>3, <4>2
      <4>4. got' = <<n>> BY <1>4, <4>2 DEF Answered
      <4>5. outcome' = "value" BY <1>4, <4>2, <4>3 DEF Answered
      <4> QED BY <4>4, <4>5
    <3> QED BY <2>2, <3>1, <3>2
  <2>6. claim' \in {"none", "await", "iterate", "notify"} /\ answerRequested' = (claim' = "await")
    BY <2>1 DEF ConsumerInv, TypeOK
  <2>7. ClaimFits' BY <1>2, <2>1 DEF ConsumerInv, ClaimFits
  <2>8. outcome' \in Outcomes /\ pc' \in Places BY <2>1, <2>5 DEF Places, Outcomes
  <2>9. shape \notin {"iterate", "request"} /\ shape \notin Iterates BY <2>1 DEF Iterates
  <2> QED BY <1>1, <2>1, <2>5, <2>6, <2>7, <2>8, <2>9, CoreStays
<1>5. CASE AwaitAgain \/ Abort
  <2>1. /\ shape \in {"await", "result"} /\ pc \in {"waiting", "done"}
        /\ pc' \in {"waiting", "abandoning"}
        /\ claim' = claim /\ answerRequested' = answerRequested
        /\ outcome' = outcome /\ got' = got
    BY <1>5 DEF AwaitAgain, Abort, claims
  <2>2. /\ claim' \in {"none", "await", "iterate", "notify"} /\ answerRequested' = (claim' = "await")
        /\ got' \in Seq(1 .. MaxPayloads) /\ outcome' \in Outcomes /\ pc' \in Places
    BY <2>1 DEF ConsumerInv, TypeOK, Places, Outcomes
  <2>3. ClaimFits' BY <1>2, <2>1 DEF ConsumerInv, ClaimFits
  <2>4. shape \notin {"iterate", "request"} /\ shape \notin Iterates BY <2>1 DEF Iterates
  <2>5. outcome' \in {"aborted", "left", "tooMany"} => state = "closed"
    BY <2>1 DEF ConsumerInv, OutcomeFits
  <2> QED BY <1>1, <2>1, <2>2, <2>3, <2>4, <2>5, CoreStays
<1> QED BY <1>3, <1>4, <1>5

(* The consumer leaves, or is told that its time is over.                  *)
LEMMA LeavesInv ==
    ASSUME ConsumerInv, NEW code \in Local, Reset(code),
           UNCHANGED <<shape, remote, claims, got>>,
           shape # "notify", shape # "unconsumed", pc # "idle",
           pc' = "done", outcome' \in {"left", "timeout", "aborted"}
    PROVE  ConsumerInv' /\ state' = "closed"
<1>1. shape' = shape /\ claim' = claim BY DEF claims
<1>2. shape \in Shapes /\ ClaimFits BY DEF ConsumerInv, TypeOK
<1>3. ClaimFits' BY <1>1, <1>2 DEF ClaimFits, Shapes
<1>4. pc' \in Places /\ outcome' \in Outcomes BY DEF Places, Outcomes
<1>5. (pc' # "done" => pc # "done" \/ shape \notin Iterates) /\ (outcome' = "failure" => outcome = "failure")
  OBVIOUS
<1> QED BY <1>3, <1>4, <1>5, ResetInv

LEMMA AbandonInv == ConsumerInv /\ Abandon => ConsumerInv'
<1> SUFFICES ASSUME ConsumerInv, Abandon PROVE ConsumerInv' OBVIOUS
<1>1. /\ pc = "abandoning" /\ Reset("CANCELLED") /\ pc' = "done" /\ outcome' = "aborted"
      /\ UNCHANGED <<shape, remote, claims, got>>
  BY DEF Abandon
<1>2. shape \notin {"notify", "unconsumed"} BY <1>1 DEF ConsumerInv, ClaimFits
<1>3. "CANCELLED" \in Local BY DEF Local
<1> QED BY <1>1, <1>2, <1>3, LeavesInv

LEMMA DeadlineInv == ConsumerInv /\ Deadline => ConsumerInv'
<1> SUFFICES ASSUME ConsumerInv, Deadline PROVE ConsumerInv' OBVIOUS
<1>1. /\ shape \in {"result", "requestWithDeadline"} /\ pc = "waiting" /\ Reset("TIMEOUT")
      /\ pc' = "done" /\ outcome' = "timeout"
      /\ UNCHANGED <<shape, remote, claims, got>>
  BY DEF Deadline, Expires
<1>2. "TIMEOUT" \in Local BY DEF Local
<1> QED BY <1>1, <1>2, LeavesInv

LEMMA BodyInv == ConsumerInv /\ Body => ConsumerInv'
<1> SUFFICES ASSUME ConsumerInv, Body PROVE ConsumerInv' OBVIOUS
<1>1. pc = "body" /\ UNCHANGED <<shape, remote, claims, got>> BY DEF Body
<1>2. shape' = shape /\ claim' = claim /\ answerRequested' = answerRequested /\ got' = got
  BY <1>1 DEF claims
<1>3. shape = "iterate" /\ claim = "iterate"
  BY <1>1 DEF ConsumerInv, ClaimFits, TypeOK, Shapes
<1>4. CASE pc' = "waiting" /\ UNCHANGED <<core, outcome>>
  <2>1. ClaimFits' BY <1>2, <1>3, <1>4 DEF ClaimFits
  <2>2. UNCHANGED <<shape, remote, core>> BY <1>1, <1>4
  <2>3. /\ claim' \in {"none", "await", "iterate", "notify"} /\ answerRequested' = (claim' = "await")
        /\ got' \in Seq(1 .. MaxPayloads) /\ pc' \in Places /\ outcome' \in Outcomes
    BY <1>2, <1>4 DEF ConsumerInv, TypeOK, Places, Outcomes
  <2>4. OutcomeFits /\ outcome' = outcome BY <1>4 DEF ConsumerInv
  <2>5. /\ outcome' \in {"aborted", "left", "tooMany"} => state = "closed"
        /\ shape \in {"iterate", "request"} /\ outcome' = "failure" => closeCause \in Failures
    BY <2>4 DEF OutcomeFits
  <2>6. pc' # "done" => pc # "done" \/ shape \notin Iterates BY <1>1
  <2> QED BY <1>2, <2>1, <2>2, <2>3, <2>5, <2>6, CoreStays
<1>5. CASE Reset("CANCELLED") /\ pc' = "done" /\ outcome' = "left"
  <2>1. "CANCELLED" \in Local BY DEF Local
  <2> QED BY <1>1, <1>3, <1>5, <2>1, LeavesInv
<1> QED BY <1>4, <1>5 DEF Body

LEMMA CancelInv == ConsumerInv /\ Cancel => ConsumerInv'
<1> SUFFICES ASSUME ConsumerInv, Cancel PROVE ConsumerInv' OBVIOUS
<1>1. Reset("CANCELLED") /\ UNCHANGED <<shape, remote, claims, consumer>>
  BY DEF Cancel
<1>2. shape' = shape /\ claim' = claim /\ pc' = pc /\ outcome' = outcome /\ got' = got
  BY <1>1 DEF claims, consumer
<1>3. ClaimFits' BY <1>2 DEF ConsumerInv, ClaimFits
<1>4. pc' \in Places /\ outcome' \in Outcomes
  BY <1>2 DEF ConsumerInv, TypeOK, Places, Outcomes
<1>5. "CANCELLED" \in Local BY DEF Local
<1>6. UNCHANGED <<shape, remote, claims, got>> BY <1>1, <1>2
<1>7. /\ pc' # "done" => pc # "done" \/ shape \notin Iterates
      /\ outcome' = "failure" => outcome = "failure"
  BY <1>2
<1> QED BY <1>1, <1>3, <1>4, <1>5, <1>6, <1>7, ResetInv

(* The remote resets, or the socket is lost.                               *)
LEMMA RemoteFailsInv == ConsumerInv /\ (RemoteResets \/ SocketLost) => ConsumerInv'
<1> SUFFICES ASSUME ConsumerInv, RemoteResets \/ SocketLost PROVE ConsumerInv' OBVIOUS
<1>1. /\ shape' = shape /\ arrived' = arrived /\ remoteEnded' = remoteEnded
      /\ claim' = claim /\ answerRequested' = answerRequested
      /\ pc' = pc /\ outcome' = outcome /\ got' = got
      /\ UNCHANGED claims
  BY DEF RemoteResets, SocketLost, remote, claims, consumer
<1>2. hasASocket' \in BOOLEAN
  BY DEF RemoteResets, SocketLost, remote, ConsumerInv, TypeOK
<1>3. ClaimFits' BY <1>1 DEF ConsumerInv, ClaimFits
<1>4. /\ pc' \in Places /\ outcome' \in Outcomes
  BY <1>1 DEF ConsumerInv, TypeOK, Places, Outcomes
<1>5. UNCHANGED <<shape, arrived, remoteEnded, claims, got>> BY <1>1
<1>6. CASE state # "closed"
  <2>1. PICK code \in Failures \ Local : Fail(code) /\ resets' = resets
    BY <1>6 DEF RemoteResets, SocketLost, Failures, Local
  <2>2. resets' = IF code \in Local THEN <<code>> ELSE <<>> BY <1>6, <2>1, Facts
  <2>3. code \in Failures BY <2>1
  <2> QED BY <1>2, <1>3, <1>4, <1>5, <1>6, <2>1, <2>2, <2>3, FailInv
<1>7. CASE state = "closed"
  <2>1. UNCHANGED core /\ SocketLost BY <1>7 DEF RemoteResets, SocketLost
  <2>2. /\ state' = state /\ closeCause' = closeCause
        /\ queue' = queue /\ answer' = answer /\ headersSettled' = headersSettled
        /\ closed' = closed /\ resets' = resets /\ reported' = reported
    BY <2>1 DEF core
  <2>3. TypeOK'
    <3>1. (state' = "closed") = (closeCause' # "none") /\ answerRequested' = (claim' = "await")
      BY <1>1, <2>2 DEF ConsumerInv, TypeOK
    <3>2. /\ shape' \in Shapes /\ arrived' \in 0 .. MaxPayloads /\ remoteEnded' \in BOOLEAN
          /\ state' = "closed" /\ closeCause' \in {"none", "normal"} \union Failures
          /\ queue' \in Seq(Items) /\ claim' \in {"none", "await", "iterate", "notify"}
      BY <1>1, <1>7, <2>2 DEF ConsumerInv, TypeOK
    <3>3. /\ answer' \in {Pending, Empty, Failure} \union {Payload(n) : n \in 1 .. MaxPayloads}
          /\ headersSettled' \in BOOLEAN /\ closed' \in BOOLEAN
          /\ resets' \in Seq(Local) /\ reported' \in Nat
      BY <2>2 DEF ConsumerInv, TypeOK
    <3>4. pc' \in Places /\ got' \in Seq(1 .. MaxPayloads) /\ outcome' \in Outcomes
      BY <1>1 DEF ConsumerInv, TypeOK, Places, Outcomes
    <3> QED BY <1>2, <3>1, <3>2, <3>3, <3>4 DEF TypeOK, Places, Outcomes
  <2>4. Over' <=> Over BY <2>2 DEF Over
  <2>5. AnswerFits'
    <3>1. AnswerFits BY DEF ConsumerInv
    <3>2. answer' # Pending => answerRequested' BY ONLY <1>1, <2>2, <3>1 DEF AnswerFits
    <3>3. answerRequested' /\ Over' => answer' # Pending
      BY ONLY <1>1, <2>2, <2>4, <3>1 DEF AnswerFits
    <3> QED BY <3>2, <3>3 DEF AnswerFits
  <2>6. QueueFits' BY <1>1, <2>2, <2>4 DEF ConsumerInv, QueueFits
  <2>7. CloseFits'
    <3>1. CloseFits BY DEF ConsumerInv
    <3> QED BY <1>1, <1>7, <2>2, <3>1 DEF CloseFits
  <2>8. ReportFits'
    <3>1. ReportFits BY DEF ConsumerInv
    <3> QED BY ONLY <1>1, <2>2, <3>1 DEF ReportFits
  <2>9. OutcomeFits' BY <1>1, <2>2 DEF ConsumerInv, OutcomeFits
  <2> QED BY <2>3, <2>5, <2>6, <2>7, <2>8, <2>9, <1>3 DEF ConsumerInv
<1> QED BY <1>6, <1>7

LEMMA ConsumerNext == ConsumerInv /\ [Next]_vars => ConsumerInv'
<1> SUFFICES ASSUME ConsumerInv, [Next]_vars PROVE ConsumerInv' OBVIOUS
<1>1. ASSUME NEW payload \in BOOLEAN, NEW end \in BOOLEAN, OnData(payload, end) PROVE ConsumerInv'
  BY <1>1, OnDataInv
<1>2. CASE Await \/ AwaitAborted
  <2>1. /\ shape \in {"await", "result"}
        /\ claim' = "await" /\ answerRequested' = TRUE
        /\ answer' = IF answerRequested THEN answer ELSE CurrentAnswer
        /\ pc' \in {"waiting", "abandoning"}
        /\ UNCHANGED <<shape, remote, state, closeCause, queue, headersSettled, closed,
                       resets, reported, got, outcome>>
    BY <1>2 DEF Await, AwaitAborted
  <2> QED BY <2>1, AwaitInv
<1>3. CASE UNCHANGED vars
  <2>1. UNCHANGED <<shape, remote, core>> /\ claim' = claim /\ answerRequested' = answerRequested
        /\ pc' = pc /\ got' = got /\ outcome' = outcome /\ shape' = shape
    BY <1>3 DEF vars, claims, consumer
  <2>2. ClaimFits' BY <2>1 DEF ConsumerInv, ClaimFits
  <2>3. /\ claim' \in {"none", "await", "iterate", "notify"} /\ answerRequested' = (claim' = "await")
        /\ got' \in Seq(1 .. MaxPayloads) /\ pc' \in Places /\ outcome' \in Outcomes
    BY <2>1 DEF ConsumerInv, TypeOK, Places, Outcomes
  <2>4. OutcomeFits BY DEF ConsumerInv
  <2>5. /\ outcome' \in {"aborted", "left", "tooMany"} => state = "closed"
        /\ shape \in {"iterate", "request"} /\ outcome' = "failure" => closeCause \in Failures
        /\ pc' # "done" => pc # "done" \/ shape \notin Iterates
    BY <2>1, <2>4 DEF OutcomeFits
  <2> QED BY <2>1, <2>2, <2>3, <2>5, CoreStays
<1>4. CASE RemoteResets \/ SocketLost BY <1>4, RemoteFailsInv
<1>5. CASE LocalEnd BY <1>5, LocalEndInv
<1>6. CASE Cancel BY <1>6, CancelInv
<1>7. CASE Answered \/ AwaitAgain \/ Abort \/ Iterate BY <1>7, AnsweredInv
<1>8. CASE Body BY <1>8, BodyInv
<1>9. CASE Deadline BY <1>9, DeadlineInv
<1>10. CASE Abandon BY <1>10, AbandonInv
<1>11. CASE Take BY <1>11, TakeInv
<1> QED BY <1>1, <1>2, <1>3, <1>4, <1>5, <1>6, <1>7, <1>8, <1>9, <1>10, <1>11 DEF Next, Reaction

----------------------------------------------------------------------------
(* What the invariant says of every consumer.                              *)

LEMMA InvNobodyWaits == ConsumerInv => NobodyWaits
<1> SUFFICES ASSUME ConsumerInv PROVE NobodyWaits OBVIOUS
<1>1. answerRequested /\ Over => answer # Pending BY DEF ConsumerInv, AnswerFits
<1>2. shape \in Iterates /\ pc # "done" /\ Over => EndsIn(queue) BY DEF ConsumerInv, QueueFits
<1>3. state = "closed" => closed /\ headersSettled BY DEF ConsumerInv, CloseFits
<1> QED BY <1>1, <1>2, <1>3 DEF NobodyWaits, EndsIn

LEMMA InvFailureIsTold == ConsumerInv => FailureIsTold
<1> SUFFICES ASSUME ConsumerInv PROVE FailureIsTold OBVIOUS
<1>1. ReportFits /\ ClaimFits /\ OutcomeFits BY DEF ConsumerInv
<1>2. reported \in Nat BY DEF ConsumerInv, TypeOK
<1>3. CASE shape = "notify"
  <2>1. claim = "notify" BY <1>1, <1>3 DEF ClaimFits
  <2> QED BY <1>1, <1>2, <1>3, <2>1 DEF FailureIsTold, ReportFits, OutcomeFits
<1>4. CASE shape \in {"request", "requestWithDeadline"}
  <2>1. claim = "iterate" BY <1>1, <1>4 DEF ClaimFits
  <2> QED BY <1>1, <1>2, <1>4, <2>1 DEF FailureIsTold, ReportFits, OutcomeFits
<1>5. CASE shape \notin {"notify", "request", "requestWithDeadline"}
  BY <1>1, <1>2, <1>5 DEF FailureIsTold, ReportFits, OutcomeFits
<1> QED BY <1>3, <1>4, <1>5

LEMMA InvOneFittingReset == ConsumerInv => OneFittingReset
<1> SUFFICES ASSUME ConsumerInv PROVE OneFittingReset OBVIOUS
<1>1. CloseFits /\ OutcomeFits BY DEF ConsumerInv
<1>2. "none" \notin Local /\ "normal" \notin Local /\ "remote reset" \notin Local
      /\ "CONNECTION_CLOSED" \notin Local
  BY DEF Local
<1>3. /\ closeCause \in Local => resets = <<closeCause>>
      /\ closeCause \notin Local => resets = <<>>
  BY ONLY <1>1, Zenon DEF CloseFits
<1>4. resets \in Seq(Local) BY Facts
<1>5. Len(resets) <= 1
  <2>1. CASE closeCause \in Local
    <3>1. Len(<<closeCause>>) = 1 OBVIOUS
    <3> QED BY <1>3, <2>1, <3>1
  <2>2. CASE closeCause \notin Local BY <1>3, <1>4, <2>2, EmptySeq
  <2> QED BY <2>1, <2>2
<1>6. closeCause \in {"none", "normal", "remote reset", "CONNECTION_CLOSED"} => resets = <<>>
  BY <1>2, <1>3
<1>7. outcome \in {"aborted", "left", "tooMany"} => state = "closed"
  BY <1>1 DEF OutcomeFits
<1> QED BY <1>3, <1>5, <1>6, <1>7 DEF OneFittingReset

(* A settled answer stays, and only a deadline raises a timeout, on a      *)
(* stream that it resets with TIMEOUT.                                     *)
StaysSettled == answer # Pending => answer' = answer
TimeoutIsSent ==
    outcome # "timeout" /\ outcome' = "timeout"
       => resets' = Append(resets, "TIMEOUT") /\ closeCause' = "TIMEOUT"

LEMMA StepStaysSettled == ConsumerInv /\ [Next]_vars => StaysSettled
<1> SUFFICES ASSUME ConsumerInv, [Next]_vars, answer # Pending PROVE answer' = answer
  BY DEF StaysSettled
<1>1. answerRequested BY Facts
<1>2. ASSUME NEW with PROVE Settled(with) = answer BY DEF Settled
<1>3. ASSUME NEW code, Fail(code) PROVE answer' = answer BY <1>2, <1>3 DEF Fail
<1>4. ASSUME NEW code, Reset(code) PROVE answer' = answer BY <1>3, <1>4 DEF Reset, core
<1>5. ASSUME NEW payload, NEW end, OnData(payload, end) PROVE answer' = answer
  BY <1>2, <1>5 DEF OnData
<1>6. CASE RemoteResets \/ SocketLost BY <1>3, <1>6 DEF RemoteResets, SocketLost, core
<1>7. CASE LocalEnd BY <1>2, <1>7 DEF LocalEnd
<1>8. CASE Cancel \/ Abandon \/ Deadline
  BY <1>4, <1>8 DEF Cancel, Abandon, Deadline, Expires
<1>9. CASE Await \/ AwaitAborted BY <1>1, <1>9 DEF Await, AwaitAborted
<1>10. CASE Answered \/ AwaitAgain \/ Abort \/ Iterate
  BY <1>10 DEF Answered, AwaitAgain, Abort, Iterate, core
<1>11. CASE Body BY <1>4, <1>11 DEF Body, core
<1>12. CASE Take BY <1>4, <1>12 DEF Take
<1>13. CASE UNCHANGED vars BY <1>13 DEF vars, core
<1> QED BY <1>5, <1>6, <1>7, <1>8, <1>9, <1>10, <1>11, <1>12, <1>13 DEF Next, Reaction

LEMMA StepTimeoutIsSent == ConsumerInv /\ [Next]_vars => TimeoutIsSent
<1> SUFFICES ASSUME ConsumerInv, [Next]_vars, outcome # "timeout", outcome' = "timeout"
             PROVE  resets' = Append(resets, "TIMEOUT") /\ closeCause' = "TIMEOUT"
  BY DEF TimeoutIsSent
<1>1. Deadline
  <2>1. ~Answered
    <3> SUFFICES ASSUME Answered PROVE FALSE OBVIOUS
    <3>1. \/ answer = Empty \/ answer = Failure
          \/ \E n \in 1 .. MaxPayloads : answer = Payload(n)
      BY DEF ConsumerInv, TypeOK, Answered
    <3>2. /\ Empty.kind = "empty" /\ Failure.kind = "failure"
          /\ \A n \in 1 .. MaxPayloads : Payload(n).kind = "payload"
      BY DEF Empty, Failure, Payload
    <3>3. CASE answer = Empty BY <3>2, <3>3 DEF Answered
    <3>4. CASE answer = Failure BY <3>2, <3>4 DEF Answered
    <3>5. CASE answer.kind = "payload" BY <3>5 DEF Answered
    <3> QED BY <3>1, <3>2, <3>3, <3>4, <3>5
  <2>2. outcome' # outcome OBVIOUS
  <2>3. ~(\E payload, end \in BOOLEAN : OnData(payload, end))
    BY <2>2 DEF OnData, consumer
  <2>4. ~RemoteResets /\ ~SocketLost /\ ~LocalEnd /\ ~Cancel
    BY <2>2 DEF RemoteResets, SocketLost, LocalEnd, Cancel, consumer
  <2>5. ~Await /\ ~AwaitAgain /\ ~AwaitAborted /\ ~Abort /\ ~Iterate
    BY <2>2 DEF Await, AwaitAgain, AwaitAborted, Abort, Iterate
  <2>6. ~Body /\ ~Abandon BY <2>2 DEF Body, Abandon
  <2>7. ~Take BY <2>2 DEF Take
  <2>8. ~UNCHANGED vars BY <2>2 DEF vars, consumer
  <2> QED BY <2>1, <2>3, <2>4, <2>5, <2>6, <2>7, <2>8 DEF Next, Reaction
<1>2. state # "closed"
  <2> SUFFICES ASSUME state = "closed" PROVE FALSE OBVIOUS
  <2>1. Over BY DEF Over
  <2>2. pc = "waiting" /\ Quiescent BY <1>1 DEF Deadline
  <2>3. CASE shape = "result"
    <3>1. claim = "await" BY <2>2, <2>3 DEF ConsumerInv, ClaimFits
    <3>2. answer # Pending BY <2>1, <3>1, Facts DEF ConsumerInv, AnswerFits
    <3> QED BY <2>2, <2>3, <3>2 DEF Quiescent, Iterates
  <2>4. CASE shape = "requestWithDeadline"
    <3>1. EndsIn(queue) BY <2>1, <2>2, <2>4 DEF ConsumerInv, QueueFits, Iterates
    <3>2. queue # <<>> BY <3>1 DEF EndsIn
    <3> QED BY <2>2, <2>4, <3>2 DEF Quiescent, Iterates
  <2> QED BY <1>1, <2>3, <2>4 DEF Deadline
<1>3. Reset("TIMEOUT") BY <1>1 DEF Deadline, Expires
<1> QED BY <1>2, <1>3, Facts DEF Reset, Fail

----------------------------------------------------------------------------
(* Type correctness of a consumer of any shape. *)
THEOREM ConsumerTypeCorrect == Spec => []TypeOK
<1>1. ConsumerInv => TypeOK BY DEF ConsumerInv
<1> QED BY <1>1, ConsumerInit, ConsumerNext, PTL DEF Spec

(* Whoever waits on a stream that is over finds its end, and a failure is  *)
(* told to the consumer or the hook, never both: for any number of         *)
(* payloads and any order of remote, socket and application.               *)
THEOREM ConsumerIsTold == Spec => [](NobodyWaits /\ FailureIsTold)
<1> QED
  BY InvNobodyWaits, InvFailureIsTold, ConsumerInit, ConsumerNext, PTL DEF Spec

(* One reset at most, and the one the consumer's fate calls for. *)
THEOREM ResetFits == Spec => []OneFittingReset
<1> QED BY InvOneFittingReset, ConsumerInit, ConsumerNext, PTL DEF Spec

(* A settled answer never changes, and a timeout that is raised was sent. *)
THEOREM AnswerStays == Spec => AnswerIsFinal
<1>1. ConsumerInv /\ [Next]_vars
        => [/\ answer # Pending => answer' = answer
            /\ outcome # "timeout" /\ outcome' = "timeout"
                 => resets' = Append(resets, "TIMEOUT") /\ closeCause' = "TIMEOUT"]_vars
  BY StepStaysSettled, StepTimeoutIsSent DEF StaysSettled, TimeoutIsSent
<1> QED BY <1>1, ConsumerInit, ConsumerNext, PTL DEF Spec, AnswerIsFinal

-----------------------------------------------------------------------------
(* From the socket on: the refinement of Consumer.                         *)

Messages == {Data(n, end) : n \in Nat, end \in BOOLEAN} \union {ResetMessage}

LineInv ==
    /\ wire \in Seq(Messages \union {CloseFrame})
    /\ inbox \in Seq(Messages \union {Closed})
    /\ hand \in Messages \union {Waiting, Closed, Left}
    /\ sent \in Nat

LEMMA TypeFacts ==
    /\ \A n \in Nat, end \in BOOLEAN : Data(n, end).type = "data" /\ Data(n, end).end = end
    /\ ResetMessage.type = "reset" /\ CloseFrame.type = "close frame"
    /\ Waiting.type = "waiting" /\ Closed.type = "closed" /\ Left.type = "left"
BY DEF Data, ResetMessage, CloseFrame, Waiting, Closed, Left

LEMMA DataEnds ==
    ASSUME NEW m \in Messages \union {Waiting, Closed, Left}, m.type = "data"
    PROVE  m.end \in BOOLEAN
<1>1. m \notin {ResetMessage, Waiting, Closed, Left} BY TypeFacts
<1>2. PICK n \in Nat, end \in BOOLEAN : m = Data(n, end) BY <1>1 DEF Messages
<1> QED BY <1>2, TypeFacts

LEMMA PutKeeps ==
    ASSUME LineInv, NEW item \in Messages \union {Closed}, Put(item)
    PROVE  inbox' \in Seq(Messages \union {Closed}) /\ hand' \in Messages \union {Waiting, Closed, Left}
BY AppendProperties DEF LineInv, Put

LEMMA ReceiveKeeps ==
    ASSUME LineInv, Receive
    PROVE  inbox' \in Seq(Messages \union {Closed}) /\ hand' \in Messages \union {Waiting, Closed, Left}
<1>1. CASE inbox = <<>> BY <1>1 DEF LineInv, Receive
<1>2. CASE inbox # <<>>
  <2>1. Head(inbox) \in Messages \union {Closed} /\ Tail(inbox) \in Seq(Messages \union {Closed})
    BY <1>2, HeadTailProperties DEF LineInv
  <2> QED BY <1>2, <2>1 DEF Receive
<1> QED BY <1>1, <1>2

LEMMA ToldKeeps ==
    ASSUME LineInv, ToldOfClose
    PROVE  inbox' \in Seq(Messages \union {Closed}) /\ hand' \in Messages \union {Waiting, Closed, Left}
BY DEF LineInv, ToldOfClose

LEMMA LineInit == InboundInit => LineInv
BY DEF InboundInit, AdapterInit, LineInv

----------------------------------------------------------------------------
(* The steps of the network and of the adapter.                            *)

LEMMA SendsKeeps ==
    ASSUME LineInv, NEW message \in Messages, RemoteSends(message)
    PROVE  /\ wire' \in Seq(Messages \union {CloseFrame})
           /\ inbox' \in Seq(Messages \union {Closed})
           /\ hand' \in Messages \union {Waiting, Closed, Left}
<1>1. CASE kind = "memory"
  <2>1. Put(message) /\ wire' = wire BY <1>1 DEF RemoteSends, platform
  <2> QED BY <2>1, PutKeeps DEF LineInv
<1>2. CASE kind # "memory"
  <2>1. wire' = Append(wire, message) /\ inbox' = inbox /\ hand' = hand
    BY <1>2 DEF RemoteSends
  <2> QED BY <2>1, AppendProperties DEF LineInv
<1> QED BY <1>1, <1>2

LEMMA SocketKeeps ==
    ASSUME LineInv, sent' = sent,
           RemoteCloses \/ Message \/ CloseEvent \/ Lost \/ LocalClose
    PROVE  LineInv'
<1>1. CASE RemoteCloses
  <2>1. CASE kind = "memory"
    <3>1. Put(Closed) /\ wire' = wire BY <1>1, <2>1 DEF RemoteCloses
    <3> QED BY <3>1, PutKeeps DEF LineInv
  <2>2. CASE kind # "memory"
    <3>1. wire' = Append(wire, CloseFrame) /\ inbox' = inbox /\ hand' = hand
      BY <1>1, <2>2 DEF RemoteCloses
    <3> QED BY <3>1, AppendProperties DEF LineInv
  <2> QED BY <2>1, <2>2
<1>2. CASE Message
  <2>1. /\ Head(wire) \in Messages /\ Tail(wire) \in Seq(Messages \union {CloseFrame})
        /\ wire' = Tail(wire)
    BY <1>2, HeadTailProperties DEF LineInv, Message
  <2>2. Put(Head(wire)) \/ (inbox' = inbox /\ hand' = hand) BY <1>2 DEF Message
  <2> QED BY <2>1, <2>2, PutKeeps DEF LineInv
<1>3. CASE CloseEvent BY <1>3, ToldKeeps DEF LineInv, CloseEvent
<1>4. CASE Lost BY <1>4, ToldKeeps DEF LineInv, Lost
<1>5. CASE LocalClose
  <2>1. CASE ready # "closed" /\ kind = "memory"
    <3>1. Put(Closed) /\ wire' = wire BY <1>5, <2>1 DEF LocalClose
    <3> QED BY <3>1, PutKeeps DEF LineInv
  <2>2. CASE ~(ready # "closed" /\ kind = "memory")
    <3>1. wire' = wire /\ inbox' = inbox /\ hand' = hand
      BY <1>5, <2>2 DEF LocalClose, adapter
    <3> QED BY <3>1 DEF LineInv
  <2> QED BY <2>1, <2>2
<1> QED BY <1>1, <1>2, <1>3, <1>4, <1>5

(* The read loop: what it hands to the stream is a step of the stream.     *)
LEMMA ReadLoopStep == LineInv /\ ReadLoop => LineInv' /\ [Next]_vars
<1> SUFFICES ASSUME LineInv, ReadLoop PROVE LineInv' /\ [Next]_vars OBVIOUS
<1>1. CASE ReadsLate
  <2>1. Receive /\ UNCHANGED vars /\ wire' = wire /\ sent' = sent
    BY <1>1 DEF ReadsLate, platform, line
  <2> QED BY <2>1, ReceiveKeeps DEF LineInv
<1>2. CASE ReadsData
  <2>1. /\ hand.type = "data" /\ OnData(hand.n # 0, hand.end)
        /\ Receive /\ wire' = wire /\ sent' = sent
    BY <1>2 DEF ReadsData, platform, line
  <2>2. hand.end \in BOOLEAN BY <2>1, DataEnds DEF LineInv
  <2>3. (hand.n # 0) \in BOOLEAN OBVIOUS
  <2>4. Next BY <2>1, <2>2, <2>3 DEF Next
  <2> QED BY <2>1, <2>4, ReceiveKeeps DEF LineInv
<1>3. CASE ReadsReset
  <2>1. RemoteResets /\ Receive /\ wire' = wire /\ sent' = sent
    BY <1>3 DEF ReadsReset, platform, line
  <2> QED BY <2>1, ReceiveKeeps DEF LineInv, Next
<1>4. CASE ReadsClose
  <2>1. /\ SocketLost \/ UNCHANGED vars
        /\ hand' = Left /\ wire' = wire /\ inbox' = inbox /\ sent' = sent
    BY <1>4 DEF ReadsClose, platform, line
  <2>2. LineInv' BY <2>1 DEF LineInv
  <2> QED BY <2>1, <2>2 DEF Next
<1> QED BY <1>1, <1>2, <1>3, <1>4 DEF ReadLoop

LEMMA InboundStep == LineInv /\ [InboundNext]_inboundVars => LineInv' /\ [Next]_vars
<1> SUFFICES ASSUME LineInv, [InboundNext]_inboundVars PROVE LineInv' /\ [Next]_vars OBVIOUS
<1>1. CASE RemoteSendsData
  <2>1. PICK payload \in BOOLEAN, end \in BOOLEAN :
          /\ sent' = IF payload THEN sent + 1 ELSE sent
          /\ RemoteSends(Data(IF payload THEN sent' ELSE 0, end))
    BY <1>1 DEF RemoteSendsData
  <2>2. sent' \in Nat /\ UNCHANGED vars BY <1>1, <2>1 DEF LineInv, RemoteSendsData
  <2>3. Data(IF payload THEN sent' ELSE 0, end) \in Messages BY <2>2 DEF Messages
  <2> QED BY <2>1, <2>2, <2>3, SendsKeeps DEF LineInv
<1>2. CASE RemoteSendsReset
  <2>1. ResetMessage \in Messages BY DEF Messages
  <2>2. RemoteSends(ResetMessage) /\ sent' = sent /\ UNCHANGED vars
    BY <1>2 DEF RemoteSendsReset
  <2> QED BY <2>1, <2>2, SendsKeeps DEF LineInv
<1>3. CASE RemoteClosesSocket \/ MessageEvent \/ SocketCloseEvent \/ SocketIsLost
  <2>1. sent' = sent /\ UNCHANGED vars
    BY <1>3 DEF RemoteClosesSocket, MessageEvent, SocketCloseEvent, SocketIsLost, line
  <2> QED BY <1>3, <2>1, SocketKeeps DEF RemoteClosesSocket, MessageEvent, SocketCloseEvent, SocketIsLost
<1>4. CASE PeerCloses
  <2>1. SocketLost /\ LocalClose /\ sent' = sent BY <1>4 DEF PeerCloses
  <2>2. LineInv' BY <2>1, SocketKeeps
  <2> QED BY <2>1, <2>2 DEF Next
<1>5. CASE ReadLoop BY <1>5, ReadLoopStep
<1>6. CASE Timer \/ Application \/ Consumes
  <2>1. wire' = wire /\ inbox' = inbox /\ hand' = hand /\ sent' = sent
    BY <1>6 DEF Timer, Application, Consumes, adapter, line
  <2>2. Next BY <1>6 DEF Timer, Application, Consumes, Next
  <2> QED BY <2>1, <2>2 DEF LineInv
<1>7. CASE UNCHANGED inboundVars
  <2>1. UNCHANGED vars /\ wire' = wire /\ inbox' = inbox /\ hand' = hand /\ sent' = sent
    BY <1>7 DEF inboundVars, adapter, line
  <2> QED BY <2>1 DEF LineInv
<1> QED BY <1>1, <1>2, <1>3, <1>4, <1>5, <1>6, <1>7 DEF InboundNext

----------------------------------------------------------------------------
(* What comes through the adapters is a behaviour of Consumer.tla. *)
THEOREM InboundImplements == InboundSpec => ImplementsConsumer
<1>1. InboundInit => Init BY DEF InboundInit
<1> QED BY <1>1, LineInit, InboundStep, PTL DEF InboundSpec, ImplementsConsumer, Spec

(* From the socket on, the end of a stream is told to everyone it          *)
(* concerns, and to nobody twice.                                          *)
THEOREM InboundIsTold == InboundSpec => []EverybodyIsTold
<1>1. NobodyWaits /\ FailureIsTold <=> EverybodyIsTold BY DEF EverybodyIsTold
<1> QED BY <1>1, InboundImplements, ConsumerIsTold, PTL DEF ImplementsConsumer

(* From the socket on, one reset at most, and the fitting one. *)
THEOREM InboundResetFits == InboundSpec => []OneFittingReset
BY InboundImplements, ResetFits, PTL DEF ImplementsConsumer

(* From the socket on, a settled answer stays. *)
THEOREM InboundAnswerStays == InboundSpec => AnswerIsFinal
BY InboundImplements, AnswerStays, PTL DEF ImplementsConsumer

-----------------------------------------------------------------------------
(* The order of payloads.                                                  *)

(* A consumer still looks at the queue. *)
Reading == shape \in Iterates => pc # "done"
Taken == IF shape \in Iterates THEN Len(got) ELSE 0

(* Taken, queued, nothing else: the queue goes on where the consumer       *)
(* stands, and its other items come after the last payload.                *)
QueueInRow ==
    /\ Taken <= arrived /\ arrived <= Taken + Len(queue)
    /\ ~Over => arrived = Taken + Len(queue)
    /\ \A i \in 1 .. Len(queue) :
          IF Taken + i <= arrived THEN queue[i] = Payload(Taken + i)
          ELSE queue[i].kind # "payload" /\ (queue[i] = END => remoteEnded)

AnswerIsFirst ==
    /\ answer.kind = "payload" => answer.n = 1
    /\ answerRequested /\ answer = Pending => arrived = 0

EndIsLast ==
    /\ outcome \in {"ended", "value"} /\ shape \in Iterates
         => remoteEnded /\ Len(got) = arrived /\ pc = "done"
    /\ outcome = "value" => Len(got) = 1
    /\ shape \in {"request", "requestWithDeadline"} => Len(got) <= 1

GotInRow == \A i \in 1 .. Len(got) : got[i] = i

OrderFits == GotInRow /\ (Reading => QueueInRow) /\ AnswerIsFirst /\ EndIsLast

LEMMA OrderFacts ==
    ASSUME ConsumerInv
    PROVE  /\ arrived \in Nat /\ got \in Seq(1 .. MaxPayloads) /\ Len(got) \in Nat /\ Taken \in Nat
           /\ queue \in Seq(Items) /\ Len(queue) \in Nat
<1>1. arrived \in 0 .. MaxPayloads /\ got \in Seq(1 .. MaxPayloads) /\ queue \in Seq(Items)
  BY DEF ConsumerInv, TypeOK
<1>2. Len(got) \in Nat /\ Len(queue) \in Nat BY <1>1, LenProperties
<1> QED BY <1>1, <1>2 DEF Taken

LEMMA PayloadFacts ==
    /\ \A n \in Nat : Payload(n).kind = "payload" /\ Payload(n).n = n
    /\ END.kind = "end" /\ Failure.kind = "failure" /\ Pending.kind = "pending" /\ Empty.kind = "empty"
    /\ \A n \in Nat : Payload(n) \notin {Pending, Empty, Failure, END}
BY DEF Payload, END, Failure, Pending, Empty

(* Steps that give the consumer nothing: the queue stays, or learns of an  *)
(* end or a failure.                                                       *)
LEMMA OrderKept ==
    ASSUME ConsumerInv, OrderFits,
           shape' = shape, arrived' = arrived, remoteEnded' = remoteEnded, got' = got,
           \/ queue' = queue
           \/ Over' /\ \E item \in Items : /\ item.kind # "payload" /\ (item = END => remoteEnded)
                                           /\ queue' = Append(queue, item),
           Over => Over', Reading' => Reading,
           answer' = answer \/ answer' \in {Failure, Empty},
           answerRequested' /\ answer' = Pending => answerRequested /\ answer = Pending,
           outcome' \in {"ended", "value"} => outcome' = outcome /\ (shape \in Iterates => pc' = pc)
    PROVE  OrderFits'
<1>1. Taken' = Taken BY DEF Taken
<1>2. GotInRow' BY DEF OrderFits, GotInRow
<1>3. Reading' => QueueInRow'
  <2> SUFFICES ASSUME Reading' PROVE QueueInRow' OBVIOUS
  <2>1. QueueInRow BY DEF OrderFits
  <2>2. CASE queue' = queue BY <1>1, <2>1, <2>2 DEF QueueInRow
  <2>3. CASE queue' # queue
    <3>1. Over' BY <2>3
    <3>2. PICK item \in Items : /\ item.kind # "payload" /\ (item = END => remoteEnded)
                               /\ queue' = Append(queue, item)
      BY <2>3
    <3>3. /\ Len(queue') = Len(queue) + 1 /\ queue'[Len(queue) + 1] = item
          /\ \A i \in 1 .. Len(queue) : queue'[i] = queue[i]
      BY <3>2, AppendProperties, OrderFacts
    <3>4. Taken' <= arrived' /\ arrived' <= Taken' + Len(queue')
      BY <1>1, <2>1, <3>3, OrderFacts DEF QueueInRow
    <3>5. ASSUME NEW i \in 1 .. Len(queue')
          PROVE  IF Taken' + i <= arrived' THEN queue'[i] = Payload(Taken' + i)
                 ELSE queue'[i].kind # "payload" /\ (queue'[i] = END => remoteEnded')
      <4>1. CASE i = Len(queue) + 1
        <5>1. ~(Taken + i <= arrived) BY <2>1, <4>1, OrderFacts DEF QueueInRow
        <5> QED BY <1>1, <3>2, <3>3, <4>1, <5>1
      <4>2. CASE i # Len(queue) + 1
        <5>1. i \in 1 .. Len(queue) BY <3>3, <4>2, OrderFacts
        <5> QED BY <1>1, <2>1, <3>3, <5>1 DEF QueueInRow
      <4> QED BY <4>1, <4>2
    <3> QED BY <3>1, <3>4, <3>5 DEF QueueInRow
  <2> QED BY <2>2, <2>3
<1>4. AnswerIsFirst' BY PayloadFacts DEF OrderFits, AnswerIsFirst
<1>5. EndIsLast' BY DEF OrderFits, EndIsLast
<1> QED BY <1>2, <1>3, <1>4, <1>5 DEF OrderFits
----------------------------------------------------------------------------
(* The steps of the stream and of its consumer.                            *)

LEMMA OrderInit == Init => OrderFits
<1> SUFFICES ASSUME Init PROVE OrderFits OBVIOUS
<1>1. arrived = 0 /\ got = <<>> /\ queue = <<>> /\ answer = Pending /\ outcome = "none" BY DEF Init
<1>2. Len(got) = 0 /\ Len(queue) = 0 BY <1>1
<1>3. Taken = 0 BY <1>2 DEF Taken
<1>4. GotInRow BY <1>2 DEF GotInRow
<1>5. QueueInRow BY <1>1, <1>2, <1>3 DEF QueueInRow
<1>6. AnswerIsFirst BY <1>1, PayloadFacts DEF AnswerIsFirst
<1>7. EndIsLast BY <1>1, <1>2 DEF EndIsLast
<1> QED BY <1>4, <1>5, <1>6, <1>7 DEF OrderFits

(* A failure of the stream. *)
LEMMA OrderFail ==
    ASSUME ConsumerInv, OrderFits, NEW code, Fail(code),
           shape' = shape, arrived' = arrived, remoteEnded' = remoteEnded, got' = got,
           answerRequested' = answerRequested, Reading' => Reading,
           outcome' \in {"ended", "value"} => outcome' = outcome /\ (shape \in Iterates => pc' = pc)
    PROVE  OrderFits'
<1>1. queue' = Append(queue, Failure) /\ state' = "closed" BY DEF Fail
<1>2. answer' = IF answerRequested /\ answer = Pending THEN Failure ELSE answer BY DEF Fail, Settled
<1>3. Failure \in Items /\ Failure.kind # "payload" /\ Failure # END /\ Failure # Pending
  BY ItemFacts, PayloadFacts
<1>4. Over' BY <1>1 DEF Over
<1>5. Over' /\ \E item \in Items : /\ item.kind # "payload" /\ (item = END => remoteEnded)
                                   /\ queue' = Append(queue, item)
  BY <1>1, <1>3, <1>4
<1>6. answer' = answer \/ answer' \in {Failure, Empty} BY <1>2
<1>7. answerRequested' /\ answer' = Pending => answerRequested /\ answer = Pending BY <1>2, <1>3
<1> QED BY <1>4, <1>5, <1>6, <1>7, OrderKept

LEMMA OrderCore ==
    ASSUME ConsumerInv, OrderFits, UNCHANGED <<shape, remote, core>>, got' = got,
           answerRequested' = answerRequested, Reading' => Reading,
           outcome' \in {"ended", "value"} => outcome' = outcome /\ (shape \in Iterates => pc' = pc)
    PROVE  OrderFits'
<1>1. /\ shape' = shape /\ arrived' = arrived /\ remoteEnded' = remoteEnded
      /\ queue' = queue /\ answer' = answer /\ state' = state
  BY DEF remote, core
<1>2. Over => Over' BY <1>1 DEF Over
<1> QED BY <1>1, <1>2, OrderKept

LEMMA OrderReset ==
    ASSUME ConsumerInv, OrderFits, NEW code, Reset(code), UNCHANGED <<shape, remote, claims, got>>,
           Reading' => Reading,
           outcome' \in {"ended", "value"} => outcome' = outcome /\ (shape \in Iterates => pc' = pc)
    PROVE  OrderFits'
<1>1. answerRequested' = answerRequested /\ arrived' = arrived /\ remoteEnded' = remoteEnded
  BY DEF claims, remote
<1>2. CASE state = "closed"
  <2>1. UNCHANGED core BY <1>2 DEF Reset
  <2> QED BY <1>1, <2>1, OrderCore
<1>3. CASE state # "closed"
  <2>1. Fail(code) BY <1>3 DEF Reset
  <2> QED BY <1>1, <2>1, OrderFail
<1> QED BY <1>2, <1>3

LEMMA OrderOnData ==
    ASSUME ConsumerInv, OrderFits, NEW payload \in BOOLEAN, NEW end \in BOOLEAN, OnData(payload, end)
    PROVE  OrderFits'
<1> DEFINE item == Payload(arrived + 1)
<1> DEFINE items == IF payload THEN Append(queue, item) ELSE queue
<1> DEFINE first == IF payload THEN Settled(item) ELSE answer
<1> DEFINE empty == IF payload THEN first ELSE Settled(Empty)
<1>1. /\ shape' = shape /\ answerRequested' = answerRequested
      /\ pc' = pc /\ got' = got /\ outcome' = outcome
      /\ arrived' = (IF payload THEN arrived + 1 ELSE arrived) /\ remoteEnded' = end /\ ~remoteEnded
      /\ payload => arrived < MaxPayloads
  BY DEF OnData, claims, consumer
<1>2. state # "closed" /\ state # "half closed remote"
  BY DEF OnData, ConsumerInv, CloseFits
<1>3. ~Over BY <1>2 DEF Over
<1>4. payload => item \in Items /\ item.kind = "payload" /\ item.n = arrived + 1
  <2>1. MaxPayloads \in Nat BY MaxPayloadsAssumption DEF MaxPayloadsAssumption
  <2>2. payload => arrived + 1 \in 1 .. MaxPayloads BY <1>1, <2>1, OrderFacts
  <2>3. arrived + 1 \in Nat BY OrderFacts
  <2> QED BY <2>2, <2>3, ItemFacts, PayloadFacts
<1>5. \/ queue' = items /\ answer' = first /\ state' = state
      \/ end /\ queue' = Append(items, END) /\ answer' = empty
  BY DEF OnData, CloseNormally
<1>6. Taken' = Taken /\ Taken \in Nat /\ Len(queue) \in Nat /\ arrived \in Nat
  BY <1>1, OrderFacts DEF Taken
<1>7. items \in Seq(Items) /\ Len(items) = Len(queue) + (IF payload THEN 1 ELSE 0)
      /\ (\A i \in 1 .. Len(queue) : items[i] = queue[i])
      /\ (payload => items[Len(queue) + 1] = item)
  BY <1>4, AppendProperties, OrderFacts
<1>8. ASSUME Reading' PROVE QueueInRow'
  <2>1. Reading BY <1>1, <1>8 DEF Reading
  <2>2. QueueInRow /\ arrived = Taken + Len(queue) BY <1>3, <2>1 DEF OrderFits, QueueInRow
  <2>3. arrived' = Taken + Len(items) /\ arrived' \in Nat BY <1>1, <1>6, <1>7, <2>2
  <2>4. \A i \in 1 .. Len(items) : items[i] = Payload(Taken + i)
    <3> TAKE i \in 1 .. Len(items)
    <3>1. CASE i \in 1 .. Len(queue) BY <1>6, <1>7, <2>2, <3>1 DEF QueueInRow
    <3>2. CASE i \notin 1 .. Len(queue)
      <4>1. payload /\ i = Len(queue) + 1 BY <1>6, <1>7, <3>2
      <4> QED BY <1>6, <1>7, <2>2, <4>1
    <3> QED BY <3>1, <3>2
  <2>5. CASE queue' = items
    <3>1. ~Over' => arrived' = Taken' + Len(queue') BY <1>6, <2>3, <2>5
    <3>2. Taken' <= arrived' /\ arrived' <= Taken' + Len(queue') BY <1>6, <1>7, <2>3, <2>5
    <3>3. \A i \in 1 .. Len(queue') : Taken' + i <= arrived' /\ queue'[i] = Payload(Taken' + i)
      BY <1>6, <1>7, <2>3, <2>4, <2>5
    <3> QED BY <3>1, <3>2, <3>3 DEF QueueInRow
  <2>6. CASE end /\ queue' = Append(items, END) /\ state' # state
    <3>1. /\ Len(queue') = Len(items) + 1 /\ queue'[Len(items) + 1] = END
          /\ \A i \in 1 .. Len(items) : queue'[i] = items[i]
      BY <1>7, <2>6, AppendProperties, ItemFacts
    <3>2. Over'
      <4>1. state' \in {"closed", "half closed remote"} BY <2>6 DEF OnData, CloseNormally
      <4> QED BY <4>1 DEF Over
    <3>3. Taken' <= arrived' /\ arrived' <= Taken' + Len(queue') BY <1>6, <1>7, <2>3, <3>1
    <3>4. ASSUME NEW i \in 1 .. Len(queue')
          PROVE  IF Taken' + i <= arrived' THEN queue'[i] = Payload(Taken' + i)
                 ELSE queue'[i].kind # "payload" /\ (queue'[i] = END => remoteEnded')
      <4>1. CASE i = Len(items) + 1
        <5>1. ~(Taken' + i <= arrived') BY <1>6, <1>7, <2>3, <4>1
        <5>2. remoteEnded' BY <1>1, <2>6
        <5> QED BY <3>1, <4>1, <5>1, <5>2, PayloadFacts
      <4>2. CASE i # Len(items) + 1
        <5>1. i \in 1 .. Len(items) /\ Taken' + i <= arrived' BY <1>6, <1>7, <2>3, <3>1, <4>2
        <5> QED BY <1>6, <2>4, <3>1, <5>1
      <4> QED BY <4>1, <4>2
    <3> QED BY <3>2, <3>3, <3>4 DEF QueueInRow
  <2>7. queue' = items \/ (end /\ queue' = Append(items, END) /\ state' # state)
    BY <1>2 DEF OnData, CloseNormally
  <2> QED BY <2>5, <2>6, <2>7
<1>9. AnswerIsFirst'
  <2>1. first = (IF payload /\ answerRequested /\ answer = Pending THEN item ELSE answer) BY DEF Settled
  <2>2. answer' = first \/ answer' = Empty BY <1>5 DEF Settled
  <2>3. AnswerIsFirst BY DEF OrderFits
  <2>4. first.kind = "payload" => first.n = 1 BY <1>4, <1>6, <2>1, <2>3 DEF AnswerIsFirst
  <2>5. answer'.kind = "payload" => answer'.n = 1 BY <2>2, <2>4, PayloadFacts
  <2>6. Empty # Pending BY PayloadFacts
  <2>7. payload => item # Pending BY <1>4, PayloadFacts
  <2>8. answerRequested' /\ answer' = Pending => arrived' = 0
    BY <1>1, <2>1, <2>2, <2>3, <2>6, <2>7 DEF AnswerIsFirst
  <2> QED BY <2>5, <2>8 DEF AnswerIsFirst
<1>10. GotInRow' BY <1>1 DEF OrderFits, GotInRow
<1>11. EndIsLast' BY <1>1 DEF OrderFits, EndIsLast
<1> QED BY <1>8, <1>9, <1>10, <1>11 DEF OrderFits

LEMMA OrderLocalEnd == ConsumerInv /\ OrderFits /\ LocalEnd => OrderFits'
<1> SUFFICES ASSUME ConsumerInv, OrderFits, LocalEnd PROVE OrderFits' OBVIOUS
<1>1. /\ shape' = shape /\ arrived' = arrived /\ remoteEnded' = remoteEnded /\ got' = got
      /\ answerRequested' = answerRequested /\ pc' = pc /\ outcome' = outcome
  BY DEF LocalEnd, claims, consumer, remote
<1>2. Reading' => Reading BY <1>1 DEF Reading
<1>3. CASE state = "open"
  <2>1. queue' = queue /\ answer' = answer BY <1>3 DEF LocalEnd
  <2>2. ~Over BY <1>3 DEF Over
  <2> QED BY <1>1, <1>2, <2>1, <2>2, OrderKept
<1>4. CASE state = "half closed remote"
  <2>1. queue' = Append(queue, END) /\ state' = "closed" /\ answer' = Settled(Empty)
    BY <1>4 DEF LocalEnd, CloseNormally
  <2>2. Over' BY <2>1 DEF Over
  <2>3. END \in Items /\ END.kind # "payload" /\ Empty # Pending BY ItemFacts, PayloadFacts
  <2>4. remoteEnded BY <1>4 DEF ConsumerInv, CloseFits
  <2>5. Over' /\ \E item \in Items : /\ item.kind # "payload" /\ (item = END => remoteEnded)
                                     /\ queue' = Append(queue, item)
    BY <2>1, <2>2, <2>3, <2>4
  <2>6. /\ answer' = answer \/ answer' \in {Failure, Empty}
        /\ answerRequested' /\ answer' = Pending => answerRequested /\ answer = Pending
    BY <1>1, <2>1, <2>3 DEF Settled
  <2> QED BY <1>1, <1>2, <2>2, <2>5, <2>6, OrderKept
<1> QED BY <1>3, <1>4 DEF LocalEnd

(* The first await, whenever it comes. *)
LEMMA OrderAwait ==
    ASSUME ConsumerInv, OrderFits, shape \in {"await", "result"},
           answerRequested' = TRUE,
           answer' = IF answerRequested THEN answer ELSE CurrentAnswer,
           UNCHANGED <<shape, remote, state, closeCause, queue, headersSettled, closed,
                       resets, reported, got, outcome>>
    PROVE  OrderFits'
<1>1. /\ shape' = shape /\ arrived' = arrived /\ remoteEnded' = remoteEnded /\ got' = got
      /\ queue' = queue /\ state' = state /\ outcome' = outcome
  BY DEF remote
<1>2. shape \notin Iterates BY DEF Iterates
<1>3. Reading /\ Taken = 0 /\ Taken' = 0 BY <1>1, <1>2 DEF Reading, Taken
<1>4. QueueInRow BY <1>3 DEF OrderFits
<1>5. QueueInRow' BY <1>1, <1>3, <1>4 DEF QueueInRow, Over
<1>6. CASE answerRequested
  <2>1. answer' = answer BY <1>6
  <2>2. AnswerIsFirst' BY <1>1, <1>6, <2>1 DEF OrderFits, AnswerIsFirst
  <2>3. GotInRow /\ EndIsLast BY DEF OrderFits
  <2>4. GotInRow' BY <1>1, <2>3 DEF GotInRow
  <2>5. outcome' = "value" => Len(got') = 1 BY <1>1, <2>3 DEF EndIsLast
  <2>6. shape' \notin Iterates BY <1>1, <1>2
  <2>7. shape' \notin {"request", "requestWithDeadline"} BY <2>6 DEF Iterates
  <2>8. EndIsLast' BY <2>5, <2>6, <2>7 DEF EndIsLast
  <2> QED BY <1>5, <2>2, <2>4, <2>8, <2>3 DEF OrderFits
<1>7. CASE ~answerRequested
  <2>1. answer' = CurrentAnswer BY <1>7
  <2>2. ASSUME queue = <<>> PROVE AnswerIsFirst'
    <3>1. Len(queue) = 0 BY <2>2
    <3>2. arrived = 0 BY <1>3, <1>4, <3>1, OrderFacts DEF QueueInRow
    <3>3. answer' \in {Failure, Pending} BY <2>1, <2>2 DEF CurrentAnswer
    <3>4. answer'.kind # "payload" BY <3>3, PayloadFacts
    <3>5. arrived' = 0 BY <1>1, <3>2
    <3> QED BY <3>4, <3>5 DEF AnswerIsFirst
  <2>3. ASSUME queue # <<>> PROVE AnswerIsFirst'
    <3>1. Head(queue) = queue[1] /\ 1 \in 1 .. Len(queue) /\ queue[1] \in Items
      BY <2>3, OrderFacts, EmptySeq
    <3>2. answer' \in {Failure, Empty, queue[1]} BY <2>1, <2>3, <3>1 DEF CurrentAnswer
    <3>3. queue[1].kind = "payload" => queue[1] = Payload(1)
      BY <1>3, <1>4, <3>1 DEF QueueInRow
    <3>4. queue[1] # Pending BY <3>1, ItemFacts
    <3>5. answer' # Pending BY <3>2, <3>4, PayloadFacts
    <3>6. answer'.kind = "payload" => answer'.n = 1 BY <3>2, <3>3, PayloadFacts
    <3> QED BY <3>5, <3>6 DEF AnswerIsFirst
  <2>4. AnswerIsFirst' BY <2>2, <2>3
  <2>5. GotInRow' /\ EndIsLast'
    <3>1. GotInRow /\ EndIsLast BY DEF OrderFits
    <3>2. GotInRow' BY <1>1, <3>1 DEF GotInRow
    <3>3. outcome' = "value" => Len(got') = 1 BY <1>1, <3>1 DEF EndIsLast
    <3>4. shape' \notin Iterates BY <1>1, <1>2
    <3>5. shape' \notin {"request", "requestWithDeadline"} BY <3>4 DEF Iterates
    <3> QED BY <3>2, <3>3, <3>4, <3>5 DEF EndIsLast
  <2> QED BY <1>5, <2>4, <2>5 DEF OrderFits
<1> QED BY <1>6, <1>7

LEMMA OrderAnswered == ConsumerInv /\ OrderFits /\ Answered => OrderFits'
<1> SUFFICES ASSUME ConsumerInv, OrderFits, Answered PROVE OrderFits' OBVIOUS
<1>1. /\ shape' = shape /\ arrived' = arrived /\ remoteEnded' = remoteEnded /\ state' = state
      /\ queue' = queue /\ answer' = answer /\ answerRequested' = answerRequested
      /\ shape \in {"await", "result"} /\ answer # Pending
  BY DEF Answered, core, remote, claims
<1>2. shape \notin Iterates /\ shape \notin {"request", "requestWithDeadline"} BY <1>1 DEF Iterates
<1>3. Reading /\ Taken = 0 /\ Taken' = 0 BY <1>1, <1>2 DEF Reading, Taken
<1>4. QueueInRow BY <1>3 DEF OrderFits
<1>5. QueueInRow' BY <1>1, <1>3, <1>4 DEF QueueInRow, Over
<1>6. AnswerIsFirst BY DEF OrderFits
<1>7. AnswerIsFirst' BY <1>1, <1>6 DEF AnswerIsFirst
<1>8. CASE answer.kind = "payload"
  <2>1. got' = <<1>>
    <3>1. answer.n = 1 BY <1>6, <1>8 DEF AnswerIsFirst
    <3>2. got' = <<answer.n>> BY <1>8 DEF Answered
    <3> QED BY <3>1, <3>2
  <2>2. Len(got') = 1 /\ got'[1] = 1 BY <2>1
  <2>3. GotInRow' BY <2>2 DEF GotInRow
  <2>4. EndIsLast' BY <1>1, <1>2, <2>2 DEF EndIsLast
  <2> QED BY <1>5, <1>7, <2>3, <2>4 DEF OrderFits
<1>9. CASE answer.kind # "payload"
  <2>1. answer \in {Empty, Failure}
    <3>1. \A n \in 1 .. MaxPayloads : Payload(n).kind = "payload"
      BY DEF Payload
    <3>2. answer \in {Pending, Empty, Failure} \union {Payload(n) : n \in 1 .. MaxPayloads}
      BY DEF ConsumerInv, TypeOK
    <3> QED BY <1>1, <1>9, <3>1, <3>2
  <2>2. got' = <<>> BY <1>9 DEF Answered
  <2>3. outcome' \in {"failure", "empty"} BY <1>9, <2>1 DEF Answered
  <2>4. Len(got') = 0 BY <2>2
  <2>5. GotInRow' BY <2>4 DEF GotInRow
  <2>6. EndIsLast' BY <1>1, <1>2, <2>3 DEF EndIsLast
  <2> QED BY <1>5, <1>7, <2>5, <2>6 DEF OrderFits
<1> QED BY <1>8, <1>9

LEMMA OrderTake == ConsumerInv /\ OrderFits /\ Take => OrderFits'
<1> SUFFICES ASSUME ConsumerInv, OrderFits, Take PROVE OrderFits' OBVIOUS
<1> DEFINE item == Head(queue)
<1>1. /\ shape \in Iterates /\ pc = "waiting" /\ queue # <<>>
      /\ UNCHANGED <<shape, remote, claims>>
  BY DEF Take
<1>2. /\ shape' = shape /\ arrived' = arrived /\ remoteEnded' = remoteEnded
      /\ answerRequested' = answerRequested
  BY <1>1 DEF remote, claims
<1>3. /\ item = queue[1] /\ 1 \in 1 .. Len(queue) /\ item \in Items
      /\ Len(Tail(queue)) = Len(queue) - 1
      /\ \A i \in 1 .. Len(Tail(queue)) : Tail(queue)[i] = queue[i + 1]
  BY <1>1, OrderFacts, EmptySeq, HeadTailProperties
<1>4. Reading /\ Taken = Len(got) /\ Taken' = Len(got') BY <1>1, <1>2 DEF Reading, Taken
<1>5. QueueInRow BY <1>4 DEF OrderFits
<1>6. END.kind # "payload" /\ Failure.kind # "payload" BY PayloadFacts
<1>7. CASE item.kind = "payload" /\ ~PayloadRefused
  <2>1. /\ queue' = Tail(queue) /\ got' = Append(got, item.n) /\ answer' = answer
        /\ state' = state /\ outcome' = outcome /\ pc' \in {"body", "waiting"}
    BY <1>6, <1>7 DEF Take
  <2>2. Len(got) + 1 <= arrived /\ item.n = Len(got) + 1
    BY <1>3, <1>4, <1>5, <1>7, OrderFacts, PayloadFacts DEF QueueInRow
  <2>3. /\ Len(got') = Len(got) + 1 /\ got'[Len(got) + 1] = item.n
        /\ \A i \in 1 .. Len(got) : got'[i] = got[i]
    <3>1. item.n \in Nat BY <2>2, OrderFacts
    <3>2. got \in Seq(Nat) BY OrderFacts, SeqMonotonic, 1 .. MaxPayloads \subseteq Nat
    <3> QED BY <2>1, <3>1, <3>2, AppendProperties
  <2>4. GotInRow' BY <2>2, <2>3, OrderFacts DEF OrderFits, GotInRow
  <2>5. QueueInRow'
    <3>1. Len(queue') = Len(queue) - 1 /\ Taken' = Taken + 1 BY <1>3, <1>4, <2>1, <2>3
    <3>2. Taken' <= arrived' /\ arrived' <= Taken' + Len(queue')
      BY <1>2, <1>4, <1>5, <2>2, <3>1, OrderFacts DEF QueueInRow
    <3>3. Over' <=> Over BY <2>1 DEF Over
    <3>4. ~Over' => arrived' = Taken' + Len(queue')
      BY <1>2, <1>5, <3>1, <3>3, OrderFacts DEF QueueInRow
    <3>5. ASSUME NEW i \in 1 .. Len(queue')
          PROVE  IF Taken' + i <= arrived' THEN queue'[i] = Payload(Taken' + i)
                 ELSE queue'[i].kind # "payload" /\ (queue'[i] = END => remoteEnded')
      <4>1. i + 1 \in 1 .. Len(queue) /\ queue'[i] = queue[i + 1] BY <1>3, <2>1, <3>1, OrderFacts
      <4>2. Taken' + i = Taken + (i + 1) BY <3>1, OrderFacts
      <4> QED BY <1>2, <1>5, <4>1, <4>2 DEF QueueInRow
    <3> QED BY <3>2, <3>4, <3>5 DEF QueueInRow
  <2>6. AnswerIsFirst' BY <1>2, <2>1 DEF OrderFits, AnswerIsFirst
  <2>7. EndIsLast'
    <3>1. outcome \notin {"ended", "value"} BY <1>1 DEF OrderFits, EndIsLast
    <3>2. shape \in {"request", "requestWithDeadline"} => Len(got') <= 1
      <4>1. shape \in {"request", "requestWithDeadline"} => got = <<>>
        BY <1>7 DEF PayloadRefused
      <4> QED BY <2>3, <4>1
    <3> QED BY <1>2, <2>1, <3>1, <3>2 DEF EndIsLast
  <2> QED BY <2>4, <2>5, <2>6, <2>7 DEF OrderFits
<1>8. CASE item.kind = "payload" /\ PayloadRefused
  <2>1. Reset("PROTOCOL_ERROR") /\ pc' = "done" /\ outcome' = "tooMany" /\ got' = got
    BY <1>6, <1>8 DEF Take
  <2>2. UNCHANGED <<shape, remote, claims, got>> BY <1>1, <2>1
  <2> QED BY <1>4, <2>1, <2>2, OrderReset
<1>9. CASE item \in {END, Failure}
  <2>1. /\ got' = got /\ answer' = answer /\ pc' = "done"
        /\ \/ item = Failure /\ outcome' = "failure"
           \/ item = END /\ outcome' = (IF shape = "iterate" THEN "ended"
                                        ELSE IF got = <<>> THEN "empty" ELSE "value")
    BY <1>6, <1>9 DEF Take, END, Failure
  <2>2. ~Reading' BY <1>1, <1>2, <2>1 DEF Reading
  <2>3. GotInRow' BY <2>1 DEF OrderFits, GotInRow
  <2>4. AnswerIsFirst' BY <1>2, <2>1 DEF OrderFits, AnswerIsFirst
  <2>5. item = END => remoteEnded /\ Len(got) = arrived
    <3> SUFFICES ASSUME item = END PROVE remoteEnded /\ Len(got) = arrived OBVIOUS
    <3>1. queue[1] = END BY <1>3
    <3>2. ~(Taken + 1 <= arrived) /\ remoteEnded
      BY <1>3, <1>4, <1>5, <3>1, OrderFacts, PayloadFacts DEF QueueInRow
    <3> QED BY <1>4, <1>5, <3>2, OrderFacts DEF QueueInRow
  <2>6. shape \in {"request", "requestWithDeadline"} => Len(got) <= 1
    BY DEF OrderFits, EndIsLast
  <2>7. outcome' = "value" => Len(got) = 1
    <3> SUFFICES ASSUME outcome' = "value" PROVE Len(got) = 1 OBVIOUS
    <3>1. shape \in {"request", "requestWithDeadline"} /\ got # <<>>
      BY <1>1, <2>1 DEF Iterates
    <3>2. Len(got) # 0 BY <3>1, OrderFacts, EmptySeq
    <3>3. Len(got) \in Nat BY OrderFacts
    <3>4. Len(got) <= 1 BY <2>6, <3>1
    <3>5. \A n \in Nat : n # 0 /\ n <= 1 => n = 1 OBVIOUS
    <3> QED BY ONLY <3>2, <3>3, <3>4, <3>5, Zenon
  <2>8. outcome' \in {"ended", "value"} => item = END BY <2>1
  <2>9. EndIsLast' BY <1>2, <2>1, <2>5, <2>6, <2>7, <2>8 DEF EndIsLast
  <2> QED BY <2>2, <2>3, <2>4, <2>9 DEF OrderFits
<1> QED BY <1>3, <1>7, <1>8, <1>9, ItemFacts

LEMMA OrderNext == ConsumerInv /\ OrderFits /\ [Next]_vars => OrderFits'
<1> SUFFICES ASSUME ConsumerInv, OrderFits, [Next]_vars PROVE OrderFits' OBVIOUS
<1>1. ASSUME NEW payload \in BOOLEAN, NEW end \in BOOLEAN, OnData(payload, end) PROVE OrderFits'
  BY <1>1, OrderOnData
<1>2. CASE RemoteResets
  <2>1. /\ Fail("remote reset") /\ UNCHANGED <<shape, remote, claims, consumer>> BY <1>2 DEF RemoteResets
  <2>2. /\ shape' = shape /\ arrived' = arrived /\ remoteEnded' = remoteEnded /\ got' = got
        /\ answerRequested' = answerRequested /\ pc' = pc /\ outcome' = outcome
    BY <2>1 DEF remote, claims, consumer
  <2> QED BY <2>1, <2>2, OrderFail DEF Reading
<1>3. CASE SocketLost
  <2>1. /\ shape' = shape /\ arrived' = arrived /\ remoteEnded' = remoteEnded /\ got' = got
        /\ answerRequested' = answerRequested /\ pc' = pc /\ outcome' = outcome
    BY <1>3 DEF SocketLost, remote, claims, consumer
  <2>2. CASE state = "closed"
    <3>1. UNCHANGED core BY <1>3, <2>2 DEF SocketLost
    <3>2. queue' = queue /\ answer' = answer /\ state' = state BY <3>1 DEF core
    <3>3. Over => Over' BY <3>2 DEF Over
    <3>4. Reading' => Reading BY <2>1 DEF Reading
    <3> QED BY <2>1, <3>2, <3>3, <3>4, OrderKept
  <2>3. CASE state # "closed"
    <3>1. Fail("CONNECTION_CLOSED") BY <1>3, <2>3 DEF SocketLost
    <3> QED BY <2>1, <3>1, OrderFail DEF Reading
  <2> QED BY <2>2, <2>3
<1>4. CASE LocalEnd BY <1>4, OrderLocalEnd
<1>5. CASE Cancel
  <2>1. Reset("CANCELLED") /\ UNCHANGED <<shape, remote, claims, consumer>> BY <1>5 DEF Cancel
  <2>2. pc' = pc /\ got' = got /\ outcome' = outcome /\ shape' = shape
    BY <2>1 DEF consumer
  <2> QED BY <2>1, <2>2, OrderReset DEF Reading
<1>6. CASE Await \/ AwaitAborted
  <2>1. /\ shape \in {"await", "result"}
        /\ answerRequested' = TRUE
        /\ answer' = IF answerRequested THEN answer ELSE CurrentAnswer
        /\ UNCHANGED <<shape, remote, state, closeCause, queue, headersSettled, closed,
                       resets, reported, got, outcome>>
    BY <1>6 DEF Await, AwaitAborted
  <2> QED BY <2>1, OrderAwait
<1>7. CASE Answered BY <1>7, OrderAnswered
<1>8. CASE AwaitAgain \/ Abort \/ Iterate \/ (Body /\ pc' = "waiting")
  <2>1. /\ UNCHANGED <<shape, remote, core>> /\ answerRequested' = answerRequested
        /\ got' = got /\ outcome' = outcome
    BY <1>8 DEF AwaitAgain, Abort, Iterate, Body, claims
  <2>2. shape \notin Iterates \/ pc \in {"idle", "body"}
    BY <1>8 DEF AwaitAgain, Abort, Iterate, Body, Iterates
  <2>3. Reading BY <2>2 DEF Reading
  <2>4. outcome \in {"ended", "value"} => shape \notin Iterates
    BY <2>2 DEF OrderFits, EndIsLast
  <2> QED BY <2>1, <2>3, <2>4, OrderCore
<1>9. CASE Body /\ pc' # "waiting"
  <2>1. /\ Reset("CANCELLED") /\ outcome' = "left" /\ UNCHANGED <<shape, remote, claims, got>>
        /\ pc = "body"
    BY <1>9 DEF Body
  <2>2. Reading BY <2>1 DEF Reading
  <2> QED BY <2>1, <2>2, OrderReset
<1>10. CASE Abandon
  <2>1. /\ Reset("CANCELLED") /\ outcome' = "aborted" /\ UNCHANGED <<shape, remote, claims, got>>
        /\ pc = "abandoning"
    BY <1>10 DEF Abandon
  <2>2. Reading BY <2>1 DEF Reading
  <2> QED BY <2>1, <2>2, OrderReset
<1>11. CASE Deadline
  <2>1. /\ Reset("TIMEOUT") /\ outcome' = "timeout" /\ UNCHANGED <<shape, remote, claims, got>>
        /\ pc = "waiting"
    BY <1>11 DEF Deadline, Expires
  <2>2. Reading BY <2>1 DEF Reading
  <2> QED BY <2>1, <2>2, OrderReset
<1>12. CASE Take BY <1>12, OrderTake
<1>13. CASE UNCHANGED vars
  <2>1. UNCHANGED <<shape, remote, core>> /\ answerRequested' = answerRequested
        /\ got' = got /\ pc' = pc /\ outcome' = outcome /\ shape' = shape
    BY <1>13 DEF vars, claims, consumer
  <2> QED BY <2>1, OrderCore DEF Reading
<1> QED BY <1>1, <1>2, <1>3, <1>4, <1>5, <1>6, <1>7, <1>8, <1>9, <1>10, <1>11, <1>12, <1>13
     DEF Next, Reaction

LEMMA InvPayloadInOrder == OrderFits => EveryPayloadInOrder
BY DEF OrderFits, GotInRow, EndIsLast, EveryPayloadInOrder

----------------------------------------------------------------------------
(* What is on the way.                                                     *)

(* w carries the payloads after a, in their order and none left out; all   *)
(* up to s if it is full.                                                  *)
Carries(w, i, n) == HasPayload(w[i]) /\ w[i].n = n

Row(w, a, s, full) ==
    /\ a \in Nat /\ s \in Nat /\ a <= s
    /\ \A i \in 1 .. Len(w) : HasPayload(w[i]) => w[i].n \in a + 1 .. s
    /\ \A i, j \in 1 .. Len(w) : i < j /\ HasPayload(w[i]) /\ HasPayload(w[j]) => w[i].n < w[j].n
    /\ \A i \in 1 .. Len(w) : HasPayload(w[i]) =>
          \A m \in a + 1 .. s : m < w[i].n => \E j \in 1 .. Len(w) : Carries(w, j, m)
    /\ full => \A m \in a + 1 .. s : \E j \in 1 .. Len(w) : Carries(w, j, m)

(* A live stream will be given everything after what it has.               *)
RowFits == state # "closed" => Row(Ahead, arrived, sent, ~cut)

(* A close is the last of whatever it waits in, and nothing follows it.    *)
EndFits ==
    /\ hand \in {Waiting, Closed, Left} => inbox = <<>>
    /\ hand = Waiting => ~failure
    /\ hand \in {Closed, Left} => failure
    /\ \A i \in 1 .. Len(inbox) : inbox[i] = Closed => i = Len(inbox) /\ failure
    /\ \A i \in 1 .. Len(wire) : wire[i] = CloseFrame => i = Len(wire)
    /\ failure => ready = "closed" /\ wire = <<>>
    /\ kind = "memory" => wire = <<>>

(* Where a socket that closes or was cut leaves the peer and the stream.   *)
LossFits ==
    /\ ready = "closing" => ~hasASocket
    /\ cut => ~hasASocket \/ ready = "closed"
    /\ hand = Left => ~hasASocket
    /\ closeCause = "CONNECTION_CLOSED" => ~hasASocket
    /\ closeCause = "CONNECTION_CLOSED" /\ ~cut => arrived = sent /\ ready = "closed"

DeliveryInv == ConsumerInv /\ LineInv /\ OrderFits /\ RowFits /\ EndFits /\ LossFits

LEMMA RowAppend ==
    ASSUME NEW S, NEW w \in Seq(S), NEW m \in S, NEW a, NEW s, NEW full, Row(w, a, s, full), ~HasPayload(m)
    PROVE  Row(Append(w, m), a, s, full)
<1> DEFINE v == Append(w, m)
<1>1. /\ Len(w) \in Nat /\ Len(v) = Len(w) + 1 /\ v[Len(w) + 1] = m
      /\ \A i \in 1 .. Len(w) : i \in 1 .. Len(v) /\ v[i] = w[i]
  BY AppendProperties, LenProperties
<1>2. \A i \in 1 .. Len(v) : HasPayload(v[i]) => i \in 1 .. Len(w) /\ v[i] = w[i] BY <1>1
<1>3. \A i \in 1 .. Len(w) : \A n : Carries(w, i, n) => Carries(v, i, n) BY <1>1 DEF Carries
<1> HIDE DEF v
<1>4. a \in Nat /\ s \in Nat /\ a <= s BY DEF Row
<1>5. \A i \in 1 .. Len(v) : HasPayload(v[i]) => v[i].n \in a + 1 .. s BY <1>2 DEF Row
<1>6. \A i, j \in 1 .. Len(v) : i < j /\ HasPayload(v[i]) /\ HasPayload(v[j]) => v[i].n < v[j].n
  BY <1>2 DEF Row
<1>7. ASSUME NEW i \in 1 .. Len(v), HasPayload(v[i]), NEW k \in a + 1 .. s, k < v[i].n
      PROVE  \E j \in 1 .. Len(v) : Carries(v, j, k)
  <2>1. i \in 1 .. Len(w) /\ v[i] = w[i] BY <1>2, <1>7
  <2>2. PICK j \in 1 .. Len(w) : Carries(w, j, k) BY <1>7, <2>1 DEF Row
  <2> QED BY <1>1, <1>3, <2>2
<1>8. ASSUME full, NEW k \in a + 1 .. s PROVE \E j \in 1 .. Len(v) : Carries(v, j, k)
  <2>1. PICK j \in 1 .. Len(w) : Carries(w, j, k) BY <1>8 DEF Row
  <2> QED BY <1>1, <1>3, <2>1
<1>9. Row(v, a, s, full) BY <1>4, <1>5, <1>6, <1>7, <1>8 DEF Row
<1> QED BY <1>9 DEF v

(* The remote sends the next payload. *)
LEMMA RowGrows ==
    ASSUME NEW S, NEW w \in Seq(S), NEW m \in S, NEW a, NEW s, Row(w, a, s, TRUE),
           HasPayload(m), m.n = s + 1
    PROVE  Row(Append(w, m), a, s + 1, TRUE)
<1> DEFINE v == Append(w, m)
<1>1. /\ Len(w) \in Nat /\ Len(v) = Len(w) + 1 /\ v[Len(w) + 1] = m
      /\ \A i \in 1 .. Len(w) : i \in 1 .. Len(v) /\ v[i] = w[i]
  BY AppendProperties, LenProperties
<1>2. Len(v) \in 1 .. Len(v) /\ v[Len(v)] = m BY <1>1
<1>3. \A i \in 1 .. Len(v) : i = Len(v) \/ (i \in 1 .. Len(w) /\ v[i] = w[i]) BY <1>1
<1>4. \A i \in 1 .. Len(w) : \A n : Carries(w, i, n) => Carries(v, i, n) BY <1>1 DEF Carries
<1> HIDE DEF v
<1>5. a \in Nat /\ s \in Nat /\ a <= s BY DEF Row
<1>6. \A i \in 1 .. Len(v) : HasPayload(v[i]) => v[i].n \in a + 1 .. s + 1
  BY <1>2, <1>3, <1>5 DEF Row
<1>7. ASSUME NEW i \in 1 .. Len(v), NEW j \in 1 .. Len(v), i < j, HasPayload(v[i]), HasPayload(v[j])
      PROVE  v[i].n < v[j].n
  <2>1. i \in 1 .. Len(w) /\ v[i] = w[i] BY <1>1, <1>3, <1>7
  <2>2. v[i].n \in a + 1 .. s BY <1>7, <2>1 DEF Row
  <2>3. CASE j = Len(v) BY <1>2, <1>5, <2>2, <2>3
  <2>4. CASE j # Len(v) BY <1>3, <1>7, <2>1, <2>4 DEF Row
  <2> QED BY <2>3, <2>4
<1>8. ASSUME NEW k \in a + 1 .. s + 1 PROVE \E j \in 1 .. Len(v) : Carries(v, j, k)
  <2>1. CASE k = s + 1 BY <1>2, <2>1 DEF Carries
  <2>2. CASE k # s + 1
    <3>1. k \in a + 1 .. s BY <1>5, <2>2
    <3>2. PICK j \in 1 .. Len(w) : Carries(w, j, k) BY <3>1 DEF Row
    <3> QED BY <1>1, <1>4, <3>2
  <2> QED BY <2>1, <2>2
<1>9. s + 1 \in Nat /\ a <= s + 1 BY <1>5
<1>10. Row(v, a, s + 1, TRUE) BY <1>5, <1>6, <1>7, <1>8, <1>9 DEF Row
<1> QED BY <1>10 DEF v

(* A tail is lost; without payloads in it nothing is missing. *)
LEMMA RowPrefix ==
    ASSUME NEW v, NEW w, NEW a, NEW s, NEW full, Row(w, a, s, TRUE) \/ Row(w, a, s, FALSE),
           Len(v) \in Nat, Len(w) \in Nat, Len(v) <= Len(w), \A i \in 1 .. Len(v) : v[i] = w[i],
           full => /\ Row(w, a, s, TRUE)
                   /\ \A i \in 1 .. Len(w) : i > Len(v) => ~HasPayload(w[i])
    PROVE  Row(v, a, s, full)
<1>1. \A i \in 1 .. Len(v) : i \in 1 .. Len(w) /\ v[i] = w[i] OBVIOUS
<1>2. Row(w, a, s, FALSE) BY DEF Row
<1>3. a \in Nat /\ s \in Nat /\ a <= s BY <1>2 DEF Row
<1>4. \A i \in 1 .. Len(v) : HasPayload(v[i]) => v[i].n \in a + 1 .. s BY <1>1, <1>2 DEF Row
<1>5. \A i, j \in 1 .. Len(v) : i < j /\ HasPayload(v[i]) /\ HasPayload(v[j]) => v[i].n < v[j].n
  BY <1>1, <1>2 DEF Row
<1>6. ASSUME NEW i \in 1 .. Len(v), HasPayload(v[i]), NEW k \in a + 1 .. s, k < v[i].n
      PROVE  \E j \in 1 .. Len(v) : Carries(v, j, k)
  <2>1. i \in 1 .. Len(w) /\ v[i] = w[i] BY <1>1
  <2>2. PICK j \in 1 .. Len(w) : Carries(w, j, k) BY <1>2, <1>6, <2>1 DEF Row
  <2>3. HasPayload(w[j]) /\ w[j].n = k BY <2>2 DEF Carries
  <2>4. w[i].n \in a + 1 .. s BY <1>2, <1>6, <2>1 DEF Row
  <2>5. j # i BY <1>3, <1>6, <2>1, <2>3, <2>4
  <2>6. ~(i < j)
    <3> SUFFICES ASSUME i < j PROVE FALSE OBVIOUS
    <3>1. w[i].n < w[j].n BY <1>2, <1>6, <2>1, <2>3 DEF Row
    <3> QED BY <1>3, <1>6, <2>1, <2>3, <2>4, <3>1
  <2>7. j \in 1 .. Len(v) BY <2>5, <2>6
  <2> QED BY <1>1, <2>3, <2>7 DEF Carries
<1>7. ASSUME full, NEW k \in a + 1 .. s PROVE \E j \in 1 .. Len(v) : Carries(v, j, k)
  <2>1. PICK j \in 1 .. Len(w) : Carries(w, j, k) BY <1>7 DEF Row
  <2>2. HasPayload(w[j]) /\ w[j].n = k BY <2>1 DEF Carries
  <2>3. j \in 1 .. Len(v) BY <1>7, <2>2
  <2> QED BY <1>1, <2>2, <2>3 DEF Carries
<1> QED BY <1>3, <1>4, <1>5, <1>6, <1>7 DEF Row

(* The first message of a row is taken. *)
LEMMA RowTakes ==
    ASSUME NEW S, NEW w \in Seq(S), w # <<>>, NEW a, NEW s, NEW full, Row(w, a, s, full)
    PROVE  /\ HasPayload(w[1]) => w[1].n = a + 1 /\ a < s /\ Row(Tail(w), a + 1, s, full)
           /\ ~HasPayload(w[1]) => Row(Tail(w), a, s, full)
<1> DEFINE v == Tail(w)
<1>1. /\ Len(w) \in Nat /\ Len(w) >= 1 /\ Len(v) = Len(w) - 1
      /\ \A i \in 1 .. Len(v) : v[i] = w[i + 1]
  BY EmptySeq, HeadTailProperties, LenProperties
<1>2. \A i \in 1 .. Len(v) : i + 1 \in 1 .. Len(w) /\ i + 1 # 1 /\ v[i] = w[i + 1] BY <1>1
<1>3. \A j \in 1 .. Len(w) : \A n : j # 1 /\ Carries(w, j, n) => j - 1 \in 1 .. Len(v) /\ Carries(v, j - 1, n)
  <2> SUFFICES ASSUME NEW j \in 1 .. Len(w), NEW n, j # 1, Carries(w, j, n)
               PROVE  j - 1 \in 1 .. Len(v) /\ Carries(v, j - 1, n)
    OBVIOUS
  <2>1. j - 1 \in 1 .. Len(v) /\ (j - 1) + 1 = j BY <1>1
  <2>2. v[j - 1] = w[j] BY <1>1, <2>1
  <2> QED BY <2>1, <2>2 DEF Carries
<1> HIDE DEF v
<1>4. a \in Nat /\ s \in Nat /\ a <= s BY DEF Row
<1>5. 1 \in 1 .. Len(w) BY <1>1
<1>6. \A i, j \in 1 .. Len(v) : i < j /\ HasPayload(v[i]) /\ HasPayload(v[j]) => v[i].n < v[j].n
  <2> SUFFICES ASSUME NEW i \in 1 .. Len(v), NEW j \in 1 .. Len(v), i < j,
                      HasPayload(v[i]), HasPayload(v[j])
               PROVE  v[i].n < v[j].n
    OBVIOUS
  <2>1. i + 1 < j + 1 BY <1>1
  <2> QED BY <1>2, <2>1 DEF Row
<1>7. ASSUME HasPayload(w[1]) PROVE w[1].n = a + 1 /\ a < s /\ Row(v, a + 1, s, full)
  <2>1. w[1].n \in a + 1 .. s BY <1>5, <1>7 DEF Row
  <2>2. w[1].n = a + 1
    <3> SUFFICES ASSUME w[1].n # a + 1 PROVE FALSE OBVIOUS
    <3>1. a + 1 \in a + 1 .. s /\ a + 1 < w[1].n BY <1>4, <2>1
    <3>2. PICK j \in 1 .. Len(w) : Carries(w, j, a + 1) BY <1>5, <1>7, <3>1 DEF Row
    <3>3. HasPayload(w[j]) /\ w[j].n = a + 1 BY <3>2 DEF Carries
    <3>4. 1 < j BY <1>1, <3>1, <3>3
    <3>5. w[1].n < w[j].n BY <1>5, <1>7, <3>3, <3>4 DEF Row
    <3> QED BY <1>4, <2>1, <3>1, <3>3, <3>5
  <2>3. a < s /\ a + 1 \in Nat /\ a + 1 <= s BY <1>4, <2>1
  <2>4. ASSUME NEW i \in 1 .. Len(v), HasPayload(v[i]) PROVE v[i].n \in (a + 1) + 1 .. s
    <3>1. v[i] = w[i + 1] /\ i + 1 \in 1 .. Len(w) /\ 1 < i + 1 BY <1>1, <1>2
    <3>2. w[1].n < w[i + 1].n BY <1>5, <1>7, <2>4, <3>1 DEF Row
    <3>3. w[i + 1].n \in a + 1 .. s BY <2>4, <3>1 DEF Row
    <3> QED BY <1>4, <2>2, <3>1, <3>2, <3>3
  <2>5. ASSUME NEW k \in (a + 1) + 1 .. s, \E j \in 1 .. Len(w) : Carries(w, j, k)
        PROVE  \E j \in 1 .. Len(v) : Carries(v, j, k)
    <3>1. PICK j \in 1 .. Len(w) : Carries(w, j, k) BY <2>5
    <3>2. j # 1 BY <1>4, <2>2, <3>1 DEF Carries
    <3> QED BY <1>3, <3>1, <3>2
  <2>6. \A k \in (a + 1) + 1 .. s : k \in a + 1 .. s BY <1>4
  <2>7. ASSUME NEW i \in 1 .. Len(v), HasPayload(v[i]), NEW k \in (a + 1) + 1 .. s, k < v[i].n
        PROVE  \E j \in 1 .. Len(v) : Carries(v, j, k)
    <3>1. v[i] = w[i + 1] /\ i + 1 \in 1 .. Len(w) BY <1>2
    <3>2. \E j \in 1 .. Len(w) : Carries(w, j, k) BY <2>6, <2>7, <3>1 DEF Row
    <3> QED BY <2>5, <3>2
  <2>8. ASSUME full, NEW k \in (a + 1) + 1 .. s PROVE \E j \in 1 .. Len(v) : Carries(v, j, k)
    <3>1. \E j \in 1 .. Len(w) : Carries(w, j, k) BY <2>6, <2>8 DEF Row
    <3> QED BY <2>5, <3>1
  <2>9. Row(v, a + 1, s, full) BY <1>4, <1>6, <2>3, <2>4, <2>7, <2>8 DEF Row
  <2> QED BY <2>2, <2>3, <2>9
<1>8. ASSUME ~HasPayload(w[1]) PROVE Row(v, a, s, full)
  <2>1. \A i \in 1 .. Len(v) : HasPayload(v[i]) => v[i].n \in a + 1 .. s BY <1>2 DEF Row
  <2>2. ASSUME NEW k, \E j \in 1 .. Len(w) : Carries(w, j, k)
        PROVE  \E j \in 1 .. Len(v) : Carries(v, j, k)
    <3>1. PICK j \in 1 .. Len(w) : Carries(w, j, k) BY <2>2
    <3>2. j # 1 BY <1>8, <3>1 DEF Carries
    <3> QED BY <1>3, <3>1, <3>2
  <2>3. ASSUME NEW i \in 1 .. Len(v), HasPayload(v[i]), NEW k \in a + 1 .. s, k < v[i].n
        PROVE  \E j \in 1 .. Len(v) : Carries(v, j, k)
    <3>1. v[i] = w[i + 1] /\ i + 1 \in 1 .. Len(w) BY <1>2
    <3>2. \E j \in 1 .. Len(w) : Carries(w, j, k) BY <2>3, <3>1 DEF Row
    <3> QED BY <2>2, <3>2
  <2>4. ASSUME full, NEW k \in a + 1 .. s PROVE \E j \in 1 .. Len(v) : Carries(v, j, k)
    <3>1. \E j \in 1 .. Len(w) : Carries(w, j, k) BY <2>4 DEF Row
    <3> QED BY <2>2, <3>1
  <2> QED BY <1>4, <1>6, <2>1, <2>3, <2>4 DEF Row
<1> QED BY <1>7, <1>8 DEF v
----------------------------------------------------------------------------
(* What each step does to what is on the way.                              *)

Things == Messages \union {CloseFrame, Waiting, Closed, Left}
InHand == IF hand = Waiting THEN <<>> ELSE <<hand>>
Here == InHand \o inbox

LEMMA NoPayload == \A m \in {CloseFrame, Waiting, Closed, Left, ResetMessage} : ~HasPayload(m)
BY TypeFacts DEF HasPayload

LEMMA ThingsDiffer ==
    /\ Waiting \notin {Closed, Left, CloseFrame} /\ Closed \notin {Left, CloseFrame}
    /\ \A m \in Messages : m \notin {Waiting, Closed, Left, CloseFrame}
<1>1. ASSUME NEW m \in Messages PROVE m.type \in {"data", "reset"}
  <2>1. CASE m = ResetMessage BY <2>1, TypeFacts
  <2>2. CASE m # ResetMessage
    <3>1. PICK n \in Nat, end \in BOOLEAN : m = Data(n, end) BY <2>2 DEF Messages
    <3> QED BY <3>1, TypeFacts
  <2> QED BY <2>1, <2>2
<1> QED BY <1>1, TypeFacts

LEMMA WayFacts ==
    ASSUME LineInv
    PROVE  /\ inbox \in Seq(Things) /\ wire \in Seq(Things) /\ hand \in Things
           /\ InHand \in Seq(Things) /\ Here \in Seq(Things) /\ Ahead \in Seq(Things)
           /\ Ahead = Here \o wire
<1>1. inbox \in Seq(Things) /\ wire \in Seq(Things) /\ hand \in Things
  BY SeqMonotonic DEF LineInv, Things
<1>2. InHand \in Seq(Things) BY <1>1 DEF InHand
<1>3. Ahead = Here \o wire BY DEF Ahead, Here, InHand
<1> QED BY <1>1, <1>2, <1>3, ConcatProperties DEF Here

(* Put hands a message over at the end of the row. *)
LEMMA PutHere ==
    ASSUME LineInv, EndFits, NEW m \in Messages \union {Closed}, Put(m)
    PROVE  /\ Here' = Append(Here, m)
           /\ hand' # Waiting
<1>1. m \in Things /\ m # Waiting BY ThingsDiffer DEF Things
<1>2. CASE hand = Waiting
  <2>1. inbox = <<>> /\ hand' = m /\ inbox' = inbox BY <1>2 DEF EndFits, Put
  <2>2. InHand = <<>> /\ InHand' = <<m>> BY <1>1, <1>2, <2>1 DEF InHand
  <2>3. Here = <<>> BY <2>1, <2>2 DEF Here
  <2>4. Here' = <<m>>
    <3>1. Here' = <<m>> \o <<>> BY <2>1, <2>2 DEF Here
    <3>2. <<m>> \in Seq(Things) BY <1>1
    <3> QED BY <3>1, <3>2, ConcatEmptySeq
  <2>5. Append(<<>>, m) = <<m>> OBVIOUS
  <2> QED BY <1>1, <2>1, <2>3, <2>4, <2>5
<1>3. CASE hand # Waiting
  <2>1. inbox' = Append(inbox, m) /\ hand' = hand BY <1>3 DEF Put
  <2>2. InHand' = InHand BY <2>1 DEF InHand
  <2>3. <<m>> \in Seq(Things) BY <1>1
  <2>4. Here' = InHand \o (inbox \o <<m>>) BY <1>1, <2>1, <2>2, WayFacts, AppendIsConcat DEF Here
  <2>5. (InHand \o inbox) \o <<m>> = InHand \o (inbox \o <<m>>)
    <3>1. InHand \in Seq(Things) /\ inbox \in Seq(Things) BY WayFacts
    <3> QED BY <2>3, <3>1, ConcatAssociative
  <2>6. Append(Here, m) = Here \o <<m>> BY <1>1, WayFacts, AppendIsConcat
  <2> QED BY <1>3, <2>1, <2>4, <2>5, <2>6 DEF Here
<1> QED BY <1>2, <1>3

LEMMA ToldHere ==
    ASSUME LineInv, EndFits, ToldOfClose
    PROVE  Here' = Here \/ Here' = Append(Here, Closed)
<1>1. CASE hand = Waiting
  <2>1. inbox = <<>> /\ hand' = Closed /\ inbox' = inbox BY <1>1 DEF EndFits, ToldOfClose
  <2>2. InHand = <<>> /\ InHand' = <<Closed>> BY <1>1, <2>1, ThingsDiffer DEF InHand
  <2>3. Closed \in Things BY DEF Things
  <2>4. Here = <<>> /\ Here' = <<Closed>>
    BY <2>1, <2>2, <2>3, ConcatEmptySeq, EmptySeq, <<Closed>> \in Seq(Things) DEF Here
  <2> QED BY <2>3, <2>4
<1>2. CASE hand # Waiting
  <2>1. hand' = hand /\ inbox' = inbox BY <1>2 DEF ToldOfClose
  <2> QED BY <2>1 DEF Here, InHand
<1> QED BY <1>1, <1>2

LEMMA HeadAndTail ==
    ASSUME NEW q \in Seq(Things), q # <<>>
    PROVE  <<Head(q)>> \o Tail(q) = q
<1>1. /\ Head(q) \in Things /\ Tail(q) \in Seq(Things) /\ Len(Tail(q)) = Len(q) - 1
      /\ Len(q) \in Nat /\ Len(q) >= 1 /\ Head(q) = q[1]
      /\ \A i \in 1 .. Len(Tail(q)) : Tail(q)[i] = q[i + 1]
  BY HeadTailProperties, EmptySeq, LenProperties
<1>2. <<Head(q)>> \in Seq(Things) /\ Len(<<Head(q)>>) = 1 /\ <<Head(q)>>[1] = q[1]
  BY <1>1
<1> DEFINE all == <<Head(q)>> \o Tail(q)
<1>3. /\ all \in Seq(Things) /\ Len(all) = Len(q)
      /\ \A i \in 1 .. Len(q) : all[i] = IF i <= 1 THEN <<Head(q)>>[i] ELSE Tail(q)[i - 1]
  BY <1>1, <1>2, ConcatProperties
<1>4. \A i \in 1 .. Len(all) : all[i] = q[i]
  <2> TAKE i \in 1 .. Len(all)
  <2>1. CASE i = 1 BY <1>2, <1>3, <2>1
  <2>2. CASE i # 1
    <3>1. i - 1 \in 1 .. Len(Tail(q)) /\ (i - 1) + 1 = i /\ ~(i <= 1) BY <1>1, <1>3, <2>2
    <3> QED BY <1>1, <1>3, <3>1
  <2> QED BY <2>1, <2>2
<1> QED BY <1>3, <1>4, SeqEqual

(* receive() takes the first of the row, and may find the close behind it. *)
LEMMA ReceiveAhead ==
    ASSUME LineInv, EndFits, Receive, wire' = wire, hand \notin {Waiting, Closed, Left}
    PROVE  /\ Ahead # <<>> /\ Ahead[1] = hand
           /\ Ahead' = Tail(Ahead) \/ Ahead' = Append(Tail(Ahead), Closed)
<1>1. InHand = <<hand>> BY DEF InHand
<1>2. /\ InHand \in Seq(Things) /\ inbox \in Seq(Things) /\ wire \in Seq(Things)
      /\ Ahead = (InHand \o inbox) \o wire
  BY WayFacts DEF Here
<1>3. inbox \o wire \in Seq(Things) BY <1>2, ConcatProperties
<1>4. Ahead = <<hand>> \o (inbox \o wire) BY <1>1, <1>2, ConcatAssociative
<1>5. Len(<<hand>>) = 1 /\ <<hand>>[1] = hand /\ <<hand>> \in Seq(Things) BY <1>1, <1>2
<1> DEFINE rest == inbox \o wire
<1>6. /\ Ahead \in Seq(Things) /\ Len(rest) \in Nat /\ Len(Ahead) = 1 + Len(rest)
      /\ \A i \in 1 .. 1 + Len(rest) : Ahead[i] = IF i <= 1 THEN <<hand>>[i] ELSE rest[i - 1]
  BY <1>3, <1>4, <1>5, ConcatProperties, LenProperties
<1>7. Ahead # <<>> /\ Ahead[1] = hand
  <2>1. Ahead # <<>> BY <1>6, EmptySeq
  <2>2. 1 \in 1 .. 1 + Len(rest) BY <1>6
  <2> QED BY <1>5, <1>6, <2>1, <2>2
<1>8. Tail(Ahead) = rest
  <2>1. /\ Tail(Ahead) \in Seq(Things) /\ Len(Tail(Ahead)) = Len(rest)
        /\ \A i \in 1 .. Len(rest) : Tail(Ahead)[i] = Ahead[i + 1]
    BY <1>6, <1>7, HeadTailProperties
  <2>2. \A i \in 1 .. Len(rest) : Ahead[i + 1] = rest[i]
    <3> TAKE i \in 1 .. Len(rest)
    <3>1. i + 1 \in 1 .. 1 + Len(rest) /\ ~(i + 1 <= 1) /\ (i + 1) - 1 = i BY <1>6
    <3> QED BY <1>6, <3>1
  <2>3. \A i \in 1 .. Len(Tail(Ahead)) : Tail(Ahead)[i] = rest[i] BY <2>1, <2>2
  <2> QED BY <1>3, <2>1, <2>3, SeqEqual
<1> HIDE DEF rest
<1>9. CASE inbox = <<>>
  <2>1. inbox' = <<>> /\ hand' = IF failure THEN Closed ELSE Waiting BY <1>9 DEF Receive
  <2>2. rest = wire BY <1>2, <1>9, ConcatEmptySeq DEF rest
  <2>3. CASE ~failure
    <3>1. InHand' = <<>> BY <2>1, <2>3 DEF InHand
    <3>2. Ahead' = (<<>> \o <<>>) \o wire BY <2>1, <3>1 DEF Ahead, InHand
    <3>3. <<>> \o <<>> = <<>> BY EmptySeq, ConcatEmptySeq
    <3> QED BY <1>2, <1>7, <1>8, <2>2, <3>2, <3>3, ConcatEmptySeq
  <2>4. CASE failure
    <3>1. hand' = Closed /\ wire = <<>> BY <2>1, <2>4 DEF EndFits
    <3>2. Ahead' = (<<Closed>> \o <<>>) \o <<>>
      BY <2>1, <3>1, ThingsDiffer DEF Ahead
    <3>3. Closed \in Things /\ <<Closed>> \in Seq(Things) BY DEF Things
    <3>4. Ahead' = <<Closed>> BY <3>2, <3>3, ConcatEmptySeq
    <3>5. Tail(Ahead) = <<>> BY <1>8, <2>2, <3>1
    <3>6. Append(<<>>, Closed) = <<Closed>> OBVIOUS
    <3> QED BY <1>7, <3>4, <3>5, <3>6
  <2> QED BY <2>3, <2>4
<1>10. CASE inbox # <<>>
  <2>1. hand' = Head(inbox) /\ inbox' = Tail(inbox) BY <1>10 DEF Receive
  <2>2. Head(inbox) \in Messages \union {Closed} BY <1>10, HeadTailProperties DEF LineInv
  <2>3. InHand' = <<Head(inbox)>> BY <2>1, <2>2, ThingsDiffer DEF InHand
  <2>4. <<Head(inbox)>> \o Tail(inbox) = inbox BY <1>2, <1>10, HeadAndTail
  <2>5. Ahead' = (InHand' \o inbox') \o wire' BY DEF Ahead, InHand
  <2>6. Ahead' = rest BY <2>1, <2>3, <2>4, <2>5 DEF rest
  <2> QED BY <1>7, <1>8, <2>6
<1> QED BY <1>9, <1>10
----------------------------------------------------------------------------
(* Where a close may stand among messages.                                 *)

Last(q, c) == \A i \in 1 .. Len(q) : q[i] = c => i = Len(q)
Never(q, c) == \A i \in 1 .. Len(q) : q[i] # c

LEMMA AppendLast ==
    ASSUME NEW S, NEW q \in Seq(S), NEW x \in S, NEW c, Never(q, c)
    PROVE  Last(Append(q, x), c) /\ (x # c => Never(Append(q, x), c))
<1>1. /\ Len(q) \in Nat /\ Len(Append(q, x)) = Len(q) + 1 /\ Append(q, x)[Len(q) + 1] = x
      /\ \A i \in 1 .. Len(q) : Append(q, x)[i] = q[i]
  BY AppendProperties, LenProperties
<1>2. \A i \in 1 .. Len(Append(q, x)) : i = Len(q) + 1 \/ i \in 1 .. Len(q) BY <1>1
<1> QED BY <1>1, <1>2 DEF Last, Never

LEMMA TailLast ==
    ASSUME NEW S, NEW q \in Seq(S), q # <<>>, NEW c, Last(q, c)
    PROVE  /\ Last(Tail(q), c) /\ (Never(q, c) => Never(Tail(q), c))
           /\ Head(q) = c => Tail(q) = <<>>
<1> DEFINE t == Tail(q)
<1>1. /\ Len(q) \in Nat /\ Len(q) >= 1 /\ Len(t) = Len(q) - 1 /\ t \in Seq(S)
      /\ \A i \in 1 .. Len(t) : t[i] = q[i + 1]
      /\ Head(q) = q[1]
  BY EmptySeq, HeadTailProperties, LenProperties
<1> HIDE DEF t
<1>2. \A i \in 1 .. Len(t) : i + 1 \in 1 .. Len(q) /\ t[i] = q[i + 1] BY <1>1
<1>3. Last(t, c)
  <2> SUFFICES ASSUME NEW i \in 1 .. Len(t), t[i] = c PROVE i = Len(t)
    BY DEF Last
  <2>1. i + 1 = Len(q) BY <1>2 DEF Last
  <2> QED BY <1>1, <2>1
<1>4. Never(q, c) => Never(t, c) BY <1>2 DEF Never
<1>5. Head(q) = c => t = <<>>
  <2> SUFFICES ASSUME Head(q) = c PROVE t = <<>> OBVIOUS
  <2>1. 1 \in 1 .. Len(q) /\ q[1] = c BY <1>1
  <2>2. Len(q) = 1 BY <2>1 DEF Last
  <2>3. Len(t) = 0 BY <1>1, <2>2
  <2> QED BY <1>1, <2>3, EmptySeq
<1> QED BY <1>3, <1>4, <1>5 DEF t

LEMMA EndFacts ==
    /\ EndFits <=> /\ hand \in {Waiting, Closed, Left} => inbox = <<>>
                   /\ hand = Waiting => ~failure
                   /\ hand \in {Closed, Left} => failure
                   /\ Last(inbox, Closed) /\ (~failure => Never(inbox, Closed))
                   /\ Last(wire, CloseFrame)
                   /\ failure => ready = "closed" /\ wire = <<>>
                   /\ kind = "memory" => wire = <<>>
    /\ Never(<<>>, Closed) /\ Last(<<>>, Closed) /\ Last(<<>>, CloseFrame)
BY DEF EndFits, Last, Never

LEMMA EndFactsNext ==
    EndFits' <=> /\ hand' \in {Waiting, Closed, Left} => inbox' = <<>>
                 /\ hand' = Waiting => ~failure'
                 /\ hand' \in {Closed, Left} => failure'
                 /\ Last(inbox', Closed) /\ (~failure' => Never(inbox', Closed))
                 /\ Last(wire', CloseFrame)
                 /\ failure' => ready' = "closed" /\ wire' = <<>>
                 /\ kind' = "memory" => wire' = <<>>
BY DEF EndFits, Last, Never

LEMMA EndPut ==
    ASSUME LineInv, EndFits, NEW m \in Messages \union {Closed}, Put(m), ~failure,
           kind' = kind, Last(wire', CloseFrame), wire = <<>> => wire' = <<>>,
           failure' => wire' = <<>> /\ ready' = "closed",
           m = Closed <=> failure'
    PROVE  EndFits' /\ hand' # Left
<1>1. ~(hand \in {Closed, Left}) /\ Never(inbox, Closed) BY EndFacts
<1>2. inbox \in Seq(Things) /\ m \in Things BY WayFacts DEF Things
<1>3. m \notin {Waiting, Left} BY ThingsDiffer
<1>4. Last(wire', CloseFrame) /\ (kind' = "memory" => wire' = <<>>) BY EndFacts
<1>5. failure' => ready' = "closed" /\ wire' = <<>> OBVIOUS
<1>6. CASE hand = Waiting
  <2>1. inbox = <<>> /\ inbox' = <<>> /\ hand' = m BY <1>6 DEF EndFits, Put
  <2> QED BY <1>3, <1>4, <1>5, <2>1, EndFacts, EndFactsNext
<1>7. CASE hand # Waiting
  <2>1. inbox' = Append(inbox, m) /\ hand' = hand BY <1>7 DEF Put
  <2>2. Last(inbox', Closed) /\ (m # Closed => Never(inbox', Closed)) BY <1>1, <1>2, <2>1, AppendLast
  <2> QED BY <1>1, <1>4, <1>5, <1>7, <2>1, <2>2, EndFactsNext
<1> QED BY <1>6, <1>7

LEMMA EndTold ==
    ASSUME LineInv, EndFits, ToldOfClose, kind' = kind, wire' = <<>>, ready' = "closed"
    PROVE  EndFits'
<1>1. Last(inbox, Closed) BY EndFacts
<1>2. hand = Waiting => inbox = <<>> BY DEF EndFits
<1>3. failure' /\ inbox' = inbox /\ hand' = IF hand = Waiting THEN Closed ELSE hand BY DEF ToldOfClose
<1>4. hand' \in {Waiting, Closed, Left} => inbox' = <<>> BY <1>2, <1>3 DEF EndFits
<1>5. hand' # Waiting BY <1>3, ThingsDiffer
<1> QED BY <1>1, <1>3, <1>4, <1>5, EndFacts, EndFactsNext

LEMMA EndReceive ==
    ASSUME LineInv, EndFits, Receive, UNCHANGED <<platform, failure>>, hand \notin {Waiting, Closed, Left}
    PROVE  EndFits'
<1>1. kind' = kind /\ ready' = ready /\ wire' = wire /\ failure' = failure BY DEF platform
<1>2. /\ Last(inbox, Closed) /\ (~failure => Never(inbox, Closed)) /\ Last(wire', CloseFrame)
      /\ failure' => ready' = "closed" /\ wire' = <<>>
      /\ kind' = "memory" => wire' = <<>>
  BY <1>1, EndFacts
<1>3. CASE inbox = <<>>
  <2>1. inbox' = <<>> /\ hand' = IF failure THEN Closed ELSE Waiting BY <1>3 DEF Receive
  <2> QED BY <1>1, <1>2, <2>1, ThingsDiffer, EndFacts, EndFactsNext
<1>4. CASE inbox # <<>>
  <2>1. hand' = Head(inbox) /\ inbox' = Tail(inbox) BY <1>4 DEF Receive
  <2>2. Last(inbox', Closed) /\ (~failure => Never(inbox', Closed)) /\ (hand' = Closed => inbox' = <<>>)
    BY <1>2, <1>4, <2>1, WayFacts, TailLast
  <2>3. hand' \in Messages \union {Closed} BY <1>4, <2>1, HeadTailProperties DEF LineInv
  <2>4. hand' = Closed => failure
    <3>1. 1 \in 1 .. Len(inbox) /\ hand' = inbox[1] BY <1>4, <2>1, WayFacts, EmptySeq
    <3> QED BY <1>2, <3>1 DEF Never
  <2>5. hand' \notin {Waiting, Left} BY <2>3, ThingsDiffer
  <2> QED BY <1>1, <1>2, <2>2, <2>4, <2>5, EndFactsNext
<1> QED BY <1>3, <1>4

LEMMA MemoryPuts ==
    ASSUME LineInv, EndFits, NEW m \in Messages \union {Closed}, Put(m), ~failure,
           kind = "memory", wire' = wire, kind' = kind,
           failure' => ready' = "closed", m = Closed <=> failure'
    PROVE  EndFits' /\ Ahead' = Append(Ahead, m) /\ hand' # Left
<1>1. wire = <<>> /\ wire' = <<>> BY DEF EndFits
<1>2. EndFits' /\ hand' # Left BY <1>1, EndPut, EndFacts
<1>3. Here' = Append(Here, m) BY PutHere
<1>4. Ahead = Here BY <1>1, WayFacts, ConcatEmptySeq
<1>5. m \in Things BY DEF Things
<1>6. Ahead' = Here' \o wire' BY DEF Ahead, Here, InHand
<1>7. Here' \in Seq(Things) BY <1>3, <1>5, WayFacts, AppendProperties
<1>8. Ahead' = Here' BY <1>1, <1>6, <1>7, ConcatEmptySeq
<1> QED BY <1>2, <1>3, <1>4, <1>8

LEMMA WireGrows ==
    ASSUME LineInv, EndFits, NEW m \in Messages \union {CloseFrame}, ~failure, Never(wire, CloseFrame),
           kind # "memory", wire' = Append(wire, m), UNCHANGED <<kind, ready, inbox, failure, hand>>
    PROVE  EndFits' /\ Ahead' = Append(Ahead, m)
<1>1. m \in Things BY DEF Things
<1>2. Last(wire', CloseFrame) BY <1>1, WayFacts, AppendLast
<1>3. EndFits' BY <1>2, EndFacts, EndFactsNext
<1>4. Ahead' = Here \o Append(wire, m) BY DEF Ahead, Here, InHand
<1>5. Append(wire, m) = wire \o <<m>> /\ Append(Ahead, m) = Ahead \o <<m>>
  BY <1>1, WayFacts, AppendIsConcat
<1>6. Here \in Seq(Things) /\ wire \in Seq(Things) /\ <<m>> \in Seq(Things) BY <1>1, WayFacts
<1>7. (Here \o wire) \o <<m>> = Here \o (wire \o <<m>>) BY <1>6, ConcatAssociative
<1> QED BY <1>3, <1>4, <1>5, <1>7, WayFacts

LEMMA SendsAhead ==
    ASSUME LineInv, EndFits, NEW m \in Messages, RemoteSends(m)
    PROVE  /\ EndFits' /\ Ahead' = Append(Ahead, m)
           /\ ready # "closed" /\ ready' = ready /\ (hand' = Left => hand = Left)
<1>1. ready # "closed" /\ ready' = ready BY DEF RemoteSends, platform
<1>2. ~failure BY <1>1 DEF EndFits
<1>3. Never(wire, CloseFrame) BY DEF RemoteSends, Never
<1>4. CASE kind = "memory"
  <2>1. Put(m) /\ wire' = wire /\ kind' = kind /\ failure' = failure
    BY <1>4 DEF RemoteSends, platform
  <2>2. m # Closed BY ThingsDiffer
  <2> QED BY <1>1, <1>2, <1>4, <2>1, <2>2, MemoryPuts
<1>5. CASE kind # "memory"
  <2>1. wire' = Append(wire, m) /\ UNCHANGED <<kind, ready, inbox, failure, hand>>
    BY <1>5 DEF RemoteSends
  <2> QED BY <1>1, <1>2, <1>3, <1>5, <2>1, WireGrows
<1> QED BY <1>4, <1>5

LEMMA ClosesAhead ==
    ASSUME LineInv, EndFits, RemoteCloses
    PROVE  /\ EndFits' /\ (Ahead' = Append(Ahead, Closed) \/ Ahead' = Append(Ahead, CloseFrame))
           /\ ready # "closed" /\ ready' \in {ready, "closed"} /\ (hand' = Left => hand = Left)
<1>1. ready # "closed" /\ ready' \in {ready, "closed"} BY DEF RemoteCloses
<1>2. ~failure BY <1>1 DEF EndFits
<1>3. Never(wire, CloseFrame) BY DEF RemoteCloses, Never
<1>4. CASE kind = "memory"
  <2>1. failure' = TRUE /\ ready' = "closed" /\ Put(Closed) /\ wire' = wire /\ kind' = kind
    BY <1>4 DEF RemoteCloses
  <2> QED BY <1>1, <1>2, <1>4, <2>1, MemoryPuts
<1>5. CASE kind # "memory"
  <2>1. wire' = Append(wire, CloseFrame) /\ UNCHANGED <<kind, ready, inbox, failure, hand>>
    BY <1>5 DEF RemoteCloses
  <2> QED BY <1>1, <1>2, <1>3, <1>5, <2>1, WireGrows
<1> QED BY <1>4, <1>5

(* A message event moves the head of the wire; only a page that has called *)
(* close() drops it.                                                       *)
LEMMA MessageAhead ==
    ASSUME LineInv, EndFits, Message
    PROVE  /\ EndFits' /\ (ready = "closing" \/ Ahead' = Ahead)
           /\ ready' = ready /\ (hand' = Left => hand = Left)
<1> DEFINE m == Head(wire)
<1>1. wire # <<>> /\ m # CloseFrame /\ wire' = Tail(wire) /\ kind' = kind /\ ready' = ready /\ failure' = failure
  BY DEF Message
<1>2. m \in Messages /\ Tail(wire) \in Seq(Things)
  BY <1>1, HeadTailProperties, WayFacts DEF LineInv
<1>3. ~failure /\ kind # "memory" BY <1>1 DEF EndFits
<1>4. Last(wire', CloseFrame) BY <1>1, WayFacts, EndFacts, TailLast
<1>5. CASE kind = "browser" /\ ready = "closing"
  <2>1. inbox' = inbox /\ hand' = hand BY <1>5 DEF Message
  <2> QED BY <1>1, <1>3, <1>4, <1>5, <2>1, EndFacts, EndFactsNext
<1>6. CASE ~(kind = "browser" /\ ready = "closing")
  <2>1. Put(m) BY <1>6 DEF Message
  <2>2. m # Closed BY <1>2, ThingsDiffer
  <2>3. EndFits' /\ hand' # Left BY <1>1, <1>2, <1>3, <1>4, <2>1, <2>2, EndPut
  <2>4. Here' = Append(Here, m) BY <1>2, <2>1, PutHere
  <2>5. m \in Things /\ <<m>> \in Seq(Things) BY <1>2 DEF Things
  <2>6. Append(Here, m) = Here \o <<m>> BY <2>5, WayFacts, AppendIsConcat
  <2>7. Ahead' = (Here \o <<m>>) \o Tail(wire) BY <1>1, <2>4, <2>6 DEF Ahead, Here, InHand
  <2>8. Here \in Seq(Things) BY WayFacts
  <2>9. (Here \o <<m>>) \o Tail(wire) = Here \o (<<m>> \o Tail(wire))
    BY <1>2, <2>5, <2>8, ConcatAssociative
  <2>10. <<m>> \o Tail(wire) = wire BY <1>1, WayFacts, HeadAndTail
  <2> QED BY <1>1, <2>3, <2>7, <2>9, <2>10, WayFacts
<1> QED BY <1>5, <1>6

----------------------------------------------------------------------------
(* Every step keeps the invariant.                                         *)

LEMMA LiveSocket ==
    ASSUME ConsumerInv, LossFits, state # "closed"
    PROVE  hasASocket /\ ready # "closing" /\ (ready # "closed" => ~cut) /\ closeCause = "none" /\ hand # Left
<1>1. hasASocket BY DEF ConsumerInv, CloseFits
<1>2. closeCause = "none" BY DEF ConsumerInv, TypeOK
<1> QED BY <1>1, <1>2 DEF LossFits

LEMMA RowFull ==
    ASSUME NEW w, NEW a, NEW s, NEW full
    PROVE  /\ Row(w, a, s, full) /\ full => Row(w, a, s, TRUE)
           /\ Row(w, a, s, TRUE) => Row(w, a, s, full)
           /\ Row(w, a, s, full) => Row(w, a, s, FALSE)
BY DEF Row

LEMMA DataIsMessage ==
    ASSUME NEW n \in Nat, NEW end \in BOOLEAN
    PROVE  Data(n, end) \in Messages
BY DEF Messages

LEMMA NewStep ==
    ASSUME DeliveryInv, RemoteSendsData \/ RemoteSendsReset
    PROVE  RowFits' /\ EndFits' /\ LossFits'
<1>1. /\ LineInv /\ EndFits /\ LossFits /\ ConsumerInv /\ RowFits BY DEF DeliveryInv
<1>2. /\ state' = state /\ hasASocket' = hasASocket /\ closeCause' = closeCause
      /\ arrived' = arrived /\ cut' = cut
  BY DEF RemoteSendsData, RemoteSendsReset, vars, core, remote
<1>3. ResetMessage \in Messages /\ sent \in Nat BY <1>1 DEF Messages, LineInv
<1>4. ASSUME NEW m \in Messages, RemoteSends(m),
             \/ ~HasPayload(m) /\ sent' = sent
             \/ HasPayload(m) /\ m.n = sent + 1 /\ sent' = sent + 1
      PROVE  RowFits' /\ EndFits' /\ LossFits'
  <2>1. /\ EndFits' /\ Ahead' = Append(Ahead, m)
        /\ ready # "closed" /\ ready' = ready /\ (hand' = Left => hand = Left)
    BY <1>1, <1>4, SendsAhead
  <2>2. m \in Things /\ Ahead \in Seq(Things) BY <1>1, WayFacts DEF Things
  <2>3. ASSUME state # "closed" PROVE Row(Ahead', arrived', sent', ~cut')
    <3>1. ~cut /\ Row(Ahead, arrived, sent, ~cut) BY <1>1, <2>1, <2>3, LiveSocket DEF RowFits
    <3>2. Row(Ahead, arrived, sent, TRUE) BY <3>1, RowFull
    <3>3. Row(Append(Ahead, m), arrived, sent', TRUE) BY <1>4, <2>2, <3>2, RowAppend, RowGrows
    <3>4. Row(Append(Ahead, m), arrived, sent', ~cut') BY <3>3, RowFull
    <3> QED BY <1>2, <2>1, <3>4
  <2>4. RowFits' BY <1>2, <2>3 DEF RowFits
  <2>5. LossFits' BY <1>1, <1>2, <2>1 DEF LossFits
  <2> QED BY <2>1, <2>4, <2>5
<1>5. CASE RemoteSendsData
  <2>1. PICK payload \in BOOLEAN, end \in BOOLEAN :
          /\ sent' = IF payload THEN sent + 1 ELSE sent
          /\ RemoteSends(Data(IF payload THEN sent' ELSE 0, end))
    BY <1>5 DEF RemoteSendsData
  <2>2. CASE payload
    <3>1. sent' = sent + 1 /\ RemoteSends(Data(sent + 1, end)) BY <2>1, <2>2
    <3>2. Data(sent + 1, end) \in Messages
      <4>1. sent + 1 \in Nat BY <1>3
      <4> QED BY <4>1, DataIsMessage
    <3>3. Data(sent + 1, end).type = "data" /\ Data(sent + 1, end).n = sent + 1 BY DEF Data
    <3>4. HasPayload(Data(sent + 1, end)) BY <1>3, <3>3 DEF HasPayload
    <3> QED BY <1>4, <3>1, <3>2, <3>3, <3>4
  <2>3. CASE ~payload
    <3>1. sent' = sent /\ RemoteSends(Data(0, end)) BY <2>1, <2>3
    <3>2. Data(0, end) \in Messages BY DEF Messages
    <3>3. ~HasPayload(Data(0, end)) BY DEF HasPayload, Data
    <3> QED BY <1>4, <3>1, <3>2, <3>3
  <2> QED BY <2>2, <2>3
<1>6. CASE RemoteSendsReset
  <2>1. RemoteSends(ResetMessage) /\ sent' = sent BY <1>6 DEF RemoteSendsReset
  <2> QED BY <1>3, <1>4, <2>1, NoPayload
<1> QED BY <1>5, <1>6

LEMMA SocketStep ==
    ASSUME DeliveryInv, RemoteClosesSocket \/ MessageEvent
    PROVE  RowFits' /\ EndFits' /\ LossFits'
<1>1. /\ LineInv /\ EndFits /\ LossFits /\ ConsumerInv /\ RowFits BY DEF DeliveryInv
<1>2. /\ state' = state /\ hasASocket' = hasASocket /\ closeCause' = closeCause
      /\ arrived' = arrived /\ sent' = sent /\ cut' = cut
  BY DEF RemoteClosesSocket, MessageEvent, vars, core, remote, line
<1>3. CASE RemoteClosesSocket
  <2>1. /\ EndFits' /\ (Ahead' = Append(Ahead, Closed) \/ Ahead' = Append(Ahead, CloseFrame))
        /\ ready # "closed" /\ ready' \in {ready, "closed"} /\ (hand' = Left => hand = Left)
    BY <1>1, <1>3, ClosesAhead DEF RemoteClosesSocket
  <2>2. Closed \in Things /\ CloseFrame \in Things /\ ~HasPayload(Closed) /\ ~HasPayload(CloseFrame)
    BY NoPayload DEF Things
  <2>3. ASSUME state # "closed" PROVE Row(Ahead', arrived', sent', ~cut')
    <3>1. Row(Ahead, arrived, sent, ~cut) BY <1>1, <2>3 DEF RowFits
    <3>2. Row(Ahead', arrived, sent, ~cut) BY <1>1, <2>1, <2>2, <3>1, WayFacts, RowAppend
    <3> QED BY <1>2, <3>2
  <2>4. RowFits' BY <1>2, <2>3 DEF RowFits
  <2>5. LossFits' BY <1>1, <1>2, <2>1 DEF LossFits
  <2> QED BY <2>1, <2>4, <2>5
<1>4. CASE MessageEvent
  <2>1. /\ EndFits' /\ (ready = "closing" \/ Ahead' = Ahead)
        /\ ready' = ready /\ (hand' = Left => hand = Left)
    BY <1>1, <1>4, MessageAhead DEF MessageEvent
  <2>2. ASSUME state # "closed" PROVE Row(Ahead', arrived', sent', ~cut')
    <3>1. Row(Ahead, arrived, sent, ~cut) /\ Ahead' = Ahead
      BY <1>1, <2>1, <2>2, LiveSocket DEF RowFits
    <3> QED BY <1>2, <3>1
  <2>3. RowFits' BY <1>2, <2>2 DEF RowFits
  <2>4. LossFits' BY <1>1, <1>2, <2>1 DEF LossFits
  <2> QED BY <2>1, <2>3, <2>4
<1> QED BY <1>3, <1>4

(* The socket is told of its close; after a loss a tail is missing. *)
LEMMA CloseStep ==
    ASSUME DeliveryInv, SocketCloseEvent \/ SocketIsLost
    PROVE  RowFits' /\ EndFits' /\ LossFits'
<1>1. /\ LineInv /\ EndFits /\ LossFits /\ ConsumerInv /\ RowFits BY DEF DeliveryInv
<1>2. /\ state' = state /\ hasASocket' = hasASocket /\ closeCause' = closeCause
      /\ arrived' = arrived /\ sent' = sent
  BY DEF SocketCloseEvent, SocketIsLost, vars, core, remote, line, Lost
<1>3. /\ ToldOfClose /\ kind' = kind /\ wire' = <<>> /\ ready' = "closed"
  BY DEF SocketCloseEvent, SocketIsLost, CloseEvent, Lost
<1>4. EndFits' BY <1>1, <1>3, EndTold
<1>5. hand' = Left => hand = Left BY <1>3, ThingsDiffer DEF ToldOfClose
<1>6. \/ cut' = TRUE
      \/ cut' = cut /\ wire # <<>> /\ Head(wire) = CloseFrame
  BY DEF SocketCloseEvent, SocketIsLost, CloseEvent, line
<1>7. ASSUME state # "closed" PROVE Row(Ahead', arrived', sent', ~cut')
  <2>1. Row(Ahead, arrived, sent, ~cut) BY <1>1, <1>7 DEF RowFits
  <2>2. Here \in Seq(Things) /\ wire \in Seq(Things) /\ Ahead = Here \o wire BY <1>1, WayFacts
  <2>3. /\ Len(Here) \in Nat /\ Len(wire) \in Nat /\ Len(Ahead) = Len(Here) + Len(wire)
        /\ \A i \in 1 .. Len(Here) + Len(wire) :
              Ahead[i] = IF i <= Len(Here) THEN Here[i] ELSE wire[i - Len(Here)]
    BY <2>2, ConcatProperties, LenProperties
  <2>4. \A i \in 1 .. Len(Here) : Here[i] = Ahead[i]
    <3> TAKE i \in 1 .. Len(Here)
    <3>1. i \in 1 .. Len(Here) + Len(wire) /\ i <= Len(Here) BY <2>3
    <3> QED BY <2>3, <3>1
  <2>5. ASSUME ~cut' PROVE \A i \in 1 .. Len(Ahead) : i > Len(Here) => ~HasPayload(Ahead[i])
    <3>1. wire # <<>> /\ Head(wire) = CloseFrame BY <1>6, <2>5
    <3>2. Tail(wire) = <<>> /\ wire[1] = CloseFrame /\ Len(wire) = 1
      <4>1. Tail(wire) = <<>> BY <1>1, <2>2, <3>1, EndFacts, TailLast
      <4>2. Len(Tail(wire)) = Len(wire) - 1 BY <2>2, <3>1, HeadTailProperties
      <4>7. Len(<<>>) = 0 OBVIOUS
      <4>3. Len(Tail(wire)) = 0 BY ONLY <4>1, <4>7, Zenon
      <4>4. Len(wire) - 1 = 0 BY <4>2, <4>3
      <4>5. Head(wire) = wire[1] BY <2>2, <3>1
      <4> QED BY <2>3, <3>1, <4>1, <4>4, <4>5
    <3> TAKE i \in 1 .. Len(Ahead)
    <3> HAVE i > Len(Here)
    <3>3. i - Len(Here) = 1 /\ ~(i <= Len(Here)) /\ i \in 1 .. Len(Here) + Len(wire) BY <2>3, <3>2
    <3>4. Ahead[i] = CloseFrame BY <2>3, <3>2, <3>3
    <3> QED BY <3>4, NoPayload
  <2>6. Row(Ahead, arrived, sent, FALSE) BY <2>1, RowFull
  <2>7. ASSUME ~cut' PROVE Row(Ahead, arrived, sent, TRUE)
    <3>1. ~cut BY <1>6, <2>7
    <3> QED BY <2>1, <3>1, RowFull
  <2>8. Len(Here) <= Len(Ahead) /\ Len(Ahead) \in Nat BY <2>3
  <2>9. Row(Here, arrived, sent, ~cut') BY <2>3, <2>4, <2>5, <2>6, <2>7, <2>8, RowPrefix
  <2>10. Closed \in Things /\ ~HasPayload(Closed) BY NoPayload DEF Things
  <2>11. Row(Append(Here, Closed), arrived, sent, ~cut') BY <2>2, <2>9, <2>10, RowAppend
  <2>12. Ahead' = Here \/ Ahead' = Append(Here, Closed)
    <3>1. Here' = Here \/ Here' = Append(Here, Closed) BY <1>1, <1>3, ToldHere
    <3>4. Append(Here, Closed) \in Seq(Things) BY <2>2, <2>10, AppendProperties
    <3>2. Here' \in Seq(Things) BY ONLY <2>2, <3>1, <3>4, Zenon
    <3>3. Ahead' = Here' \o <<>> BY <1>3 DEF Ahead, Here, InHand
    <3> QED BY <3>1, <3>2, <3>3, ConcatEmptySeq
  <2> QED BY <1>2, <2>9, <2>11, <2>12
<1>8. RowFits' BY <1>2, <1>7 DEF RowFits
<1>9. LossFits' BY <1>1, <1>2, <1>3, <1>5, <1>6 DEF LossFits
<1> QED BY <1>4, <1>8, <1>9

LEMMA PeerClosesStep ==
    ASSUME DeliveryInv, PeerCloses
    PROVE  RowFits' /\ EndFits' /\ LossFits'
<1>1. /\ LineInv /\ EndFits /\ LossFits /\ ConsumerInv BY DEF DeliveryInv
<1>2. hasASocket' = FALSE /\ cut' = TRUE /\ LocalClose BY DEF PeerCloses, SocketLost
<1>3. state' = "closed"
  <2>1. state = "closed" => state' = "closed" BY DEF PeerCloses, SocketLost, core
  <2>2. state # "closed" => state' = "closed" BY DEF PeerCloses, SocketLost, Fail
  <2> QED BY <2>1, <2>2
<1>4. RowFits' BY <1>3 DEF RowFits
<1>5. LossFits' BY <1>2 DEF LossFits
<1>6. EndFits'
  <2>1. CASE ready = "closed"
    <3>1. UNCHANGED adapter BY <1>2, <2>1 DEF LocalClose
    <3>2. kind' = kind /\ ready' = ready /\ wire' = wire /\ inbox' = inbox /\ failure' = failure /\ hand' = hand
      BY <3>1 DEF adapter
    <3> QED BY <1>1, <3>2, EndFacts, EndFactsNext
  <2>2. CASE ready # "closed" /\ kind = "memory"
    <3>1. failure' = TRUE /\ ready' = "closed" /\ Put(Closed) /\ kind' = kind /\ wire' = wire
      BY <1>2, <2>2 DEF LocalClose
    <3>2. ~failure BY <1>1, <2>2 DEF EndFits
    <3> QED BY <1>1, <2>2, <3>1, <3>2, MemoryPuts
  <2>3. CASE ready # "closed" /\ kind # "memory"
    <3>1. kind' = kind /\ wire' = wire /\ inbox' = inbox /\ failure' = failure /\ hand' = hand
      BY <1>2, <2>3 DEF LocalClose
    <3>2. ~failure BY <1>1, <2>3 DEF EndFits
    <3> QED BY <1>1, <2>3, <3>1, <3>2, EndFacts, EndFactsNext
  <2> QED BY <2>1, <2>2, <2>3
<1> QED BY <1>4, <1>5, <1>6

LEMMA ReadStep ==
    ASSUME DeliveryInv, ReadLoop
    PROVE  RowFits' /\ EndFits' /\ LossFits'
<1>1. /\ LineInv /\ EndFits /\ LossFits /\ ConsumerInv /\ RowFits BY DEF DeliveryInv
<1>2. ASSUME Receive, UNCHANGED <<platform, failure, line>>, hand \notin {Waiting, Closed, Left}
      PROVE  /\ EndFits' /\ ready' = ready /\ sent' = sent /\ cut' = cut /\ hand' # Left
             /\ Ahead # <<>> /\ Ahead[1] = hand
             /\ Ahead' = Tail(Ahead) \/ Ahead' = Append(Tail(Ahead), Closed)
  <2>1. ready' = ready /\ wire' = wire /\ sent' = sent /\ cut' = cut BY <1>2 DEF platform, line
  <2>2. EndFits' BY <1>1, <1>2, EndReceive
  <2>3. hand' # Left
    <3>1. CASE inbox = <<>>
      <4>1. hand' \in {Closed, Waiting} BY <1>2, <3>1 DEF Receive
      <4> QED BY <4>1, ThingsDiffer
    <3>2. CASE inbox # <<>>
      <4>1. hand' \in Messages \union {Closed}
        BY <1>1, <1>2, <3>2, HeadTailProperties DEF Receive, LineInv
      <4> QED BY <4>1, ThingsDiffer
    <3> QED BY <3>1, <3>2
  <2> QED BY <1>1, <1>2, <2>1, <2>2, <2>3, ReceiveAhead
<1>3. CASE ReadsLate
  <2>1. /\ hand \notin {Waiting, Closed, Left} /\ state = "closed"
        /\ Receive /\ UNCHANGED <<platform, failure, line>>
        /\ state' = state /\ hasASocket' = hasASocket /\ closeCause' = closeCause /\ arrived' = arrived
    BY <1>3 DEF ReadsLate, vars, core, remote
  <2>2. EndFits' /\ ready' = ready /\ sent' = sent /\ cut' = cut /\ hand' # Left BY <1>2, <2>1
  <2>3. RowFits' BY <2>1 DEF RowFits
  <2>4. LossFits' BY <1>1, <2>1, <2>2 DEF LossFits
  <2> QED BY <2>2, <2>3, <2>4
<1>4. CASE ReadsData
  <2>1. /\ hand.type = "data" /\ Receive /\ UNCHANGED <<platform, failure, line>>
        /\ state # "closed" /\ hasASocket' = hasASocket
        /\ arrived' = IF hand.n # 0 THEN arrived + 1 ELSE arrived
    BY <1>4 DEF ReadsData, OnData
  <2>2. closeCause' \in {"none", "normal"}
    BY <1>1, <1>4, <2>1, LiveSocket DEF ReadsData, OnData, CloseNormally
  <2>3. hand \notin {Waiting, Closed, Left} BY <2>1, TypeFacts
  <2>4. /\ EndFits' /\ ready' = ready /\ sent' = sent /\ cut' = cut /\ hand' # Left
        /\ Ahead # <<>> /\ Ahead[1] = hand
        /\ Ahead' = Tail(Ahead) \/ Ahead' = Append(Tail(Ahead), Closed)
    BY <1>2, <2>1, <2>3
  <2>5. Row(Ahead, arrived, sent, ~cut) /\ Ahead \in Seq(Things) BY <1>1, <2>1, WayFacts DEF RowFits
  <2>6. HasPayload(Ahead[1]) <=> hand.n # 0 BY <2>1, <2>4 DEF HasPayload
  <2>7. Row(Tail(Ahead), arrived', sent, ~cut) BY <2>1, <2>4, <2>5, <2>6, RowTakes
  <2>8. Row(Append(Tail(Ahead), Closed), arrived', sent, ~cut)
    <3>1. Closed \in Things /\ ~HasPayload(Closed) BY NoPayload DEF Things
    <3>2. Tail(Ahead) \in Seq(Things) BY <2>4, <2>5, HeadTailProperties
    <3> QED BY <2>7, <3>1, <3>2, RowAppend
  <2>9. Row(Ahead', arrived', sent', ~cut') BY <2>4, <2>7, <2>8
  <2>10. RowFits' BY <2>9 DEF RowFits
  <2>11. LossFits' BY <1>1, <2>1, <2>2, <2>4 DEF LossFits
  <2> QED BY <2>4, <2>10, <2>11
<1>5. CASE ReadsReset
  <2>1. /\ hand.type = "reset" /\ Receive /\ UNCHANGED <<platform, failure, line>>
        /\ hasASocket' = hasASocket /\ state' = "closed" /\ closeCause' = "remote reset"
    BY <1>5 DEF ReadsReset, RemoteResets, Fail, remote
  <2>2. hand \notin {Waiting, Closed, Left} BY <2>1, TypeFacts
  <2>3. EndFits' /\ ready' = ready /\ sent' = sent /\ cut' = cut /\ hand' # Left BY <1>2, <2>1, <2>2
  <2>4. RowFits' BY <2>1 DEF RowFits
  <2>5. LossFits' BY <1>1, <2>1, <2>3 DEF LossFits
  <2> QED BY <2>3, <2>4, <2>5
<1>6. CASE ReadsClose
  <2>1. /\ hand = Closed /\ hand' = Left /\ inbox' = inbox /\ failure' = failure
        /\ kind' = kind /\ ready' = ready /\ wire' = wire /\ sent' = sent /\ cut' = cut
    BY <1>6 DEF ReadsClose, platform, line
  <2>2. inbox = <<>> /\ failure /\ ready = "closed" /\ wire = <<>> BY <1>1, <2>1 DEF EndFits
  <2>3. EndFits' BY <1>1, <2>1, <2>2, ThingsDiffer, EndFacts, EndFactsNext
  <2>4. arrived' = arrived BY <1>6 DEF ReadsClose, SocketLost, vars, remote
  <2>5. ~hasASocket' /\ state' = "closed"
    <3>1. ~hasASocket => state = "closed" BY <1>1 DEF ConsumerInv, CloseFits
    <3>2. CASE hasASocket
      <4>1. SocketLost BY <1>6, <3>2 DEF ReadsClose
      <4> QED BY <4>1 DEF SocketLost, Fail, core
    <3>3. CASE ~hasASocket
      <4>1. UNCHANGED vars BY <1>6, <3>3 DEF ReadsClose
      <4> QED BY <3>1, <3>3, <4>1 DEF vars, core, remote
    <3> QED BY <3>2, <3>3
  <2>6. closeCause' = "CONNECTION_CLOSED" /\ ~cut => arrived = sent
    <3>1. CASE state = "closed"
      <4>1. closeCause' = closeCause BY <1>6, <3>1 DEF ReadsClose, SocketLost, vars, core
      <4> QED BY <1>1, <4>1 DEF LossFits
    <3>2. CASE state # "closed" /\ ~cut
      <4>1. Row(Ahead, arrived, sent, TRUE) BY <1>1, <3>2, RowFull DEF RowFits
      <4>2. Ahead = <<Closed>>
        <5>1. Ahead = (<<Closed>> \o <<>>) \o <<>> BY <2>1, <2>2, ThingsDiffer DEF Ahead
        <5>2. <<Closed>> \in Seq({Closed}) OBVIOUS
        <5> QED BY <5>1, <5>2, ConcatEmptySeq
      <4>3. \A j \in 1 .. Len(Ahead) : ~HasPayload(Ahead[j]) BY <4>2, NoPayload
      <4>4. \A m \in arrived + 1 .. sent : FALSE BY <4>1, <4>3 DEF Row, Carries
      <4>5. arrived \in Nat /\ sent \in Nat /\ arrived <= sent BY <4>1 DEF Row
      <4>6. arrived < sent => arrived + 1 \in arrived + 1 .. sent BY <4>5
      <4> QED BY <4>4, <4>5, <4>6
    <3> QED BY <3>1, <3>2
  <2>7. RowFits' BY <2>5 DEF RowFits
  <2>8. LossFits' BY <2>1, <2>2, <2>4, <2>5, <2>6 DEF LossFits
  <2> QED BY <2>3, <2>7, <2>8
<1> QED BY <1>3, <1>4, <1>5, <1>6 DEF ReadLoop

(* Whatever the application and the consumer do. *)
LEMMA OwnStep ==
    ASSUME ConsumerInv, LocalEnd \/ Cancel \/ Await \/ AwaitAgain \/ AwaitAborted \/ Abort \/ Iterate
                        \/ Body \/ Deadline \/ Reaction
    PROVE  /\ arrived' = arrived /\ hasASocket' = hasASocket
           /\ state' # "closed" => state # "closed"
           /\ closeCause' = closeCause \/ closeCause' # "CONNECTION_CLOSED"
<1>1. arrived' = arrived /\ hasASocket' = hasASocket
  BY DEF LocalEnd, Cancel, Await, AwaitAgain, AwaitAborted, Abort, Iterate, Body, Deadline,
         Reaction, Answered, Abandon, Take, remote
<1>2. ASSUME NEW code \in Local, Reset(code)
      PROVE  /\ state' = "closed" /\ (closeCause' = closeCause \/ closeCause' # "CONNECTION_CLOSED")
  <2>1. CASE state = "closed"
    <3>1. state' = state /\ closeCause' = closeCause BY <1>2, <2>1 DEF Reset, core
    <3> QED BY <2>1, <3>1
  <2>2. CASE state # "closed"
    <3>1. Fail(code) BY <1>2, <2>2 DEF Reset
    <3>2. state' = "closed" /\ closeCause' = code BY <3>1 DEF Fail
    <3> QED BY <3>2 DEF Local
  <2> QED BY <2>1, <2>2
<1>3. \/ state' = state /\ closeCause' = closeCause
      \/ \E code \in Local : Reset(code)
      \/ LocalEnd
  <2>1. CASE Cancel BY <2>1 DEF Cancel, Local
  <2>2. CASE Await \/ AwaitAgain \/ AwaitAborted \/ Abort \/ Iterate \/ Answered
    BY <2>2 DEF Await, AwaitAgain, AwaitAborted, Abort, Iterate, Answered, core
  <2>3. CASE Body BY <2>3 DEF Body, core, Local
  <2>4. CASE Deadline BY <2>4 DEF Deadline, Expires, Local
  <2>5. CASE Abandon BY <2>5 DEF Abandon, Local
  <2>6. CASE Take BY <2>6 DEF Take, Local
  <2> QED BY <2>1, <2>2, <2>3, <2>4, <2>5, <2>6 DEF Reaction
<1>4. CASE LocalEnd
  <2>1. state # "closed" /\ (closeCause' = closeCause \/ closeCause' = "normal")
    BY <1>4 DEF LocalEnd, CloseNormally
  <2> QED BY <1>1, <2>1
<1> QED BY <1>1, <1>2, <1>3, <1>4

LEMMA OtherStep ==
    ASSUME DeliveryInv, Timer \/ Application \/ Consumes \/ UNCHANGED inboundVars
    PROVE  RowFits' /\ EndFits' /\ LossFits'
<1>1. /\ LineInv /\ EndFits /\ LossFits /\ ConsumerInv /\ RowFits BY DEF DeliveryInv
<1>2. /\ kind' = kind /\ ready' = ready /\ wire' = wire /\ inbox' = inbox
      /\ failure' = failure /\ hand' = hand /\ sent' = sent /\ cut' = cut
  BY DEF Timer, Application, Consumes, inboundVars, adapter, line
<1>3. /\ arrived' = arrived /\ hasASocket' = hasASocket
      /\ state' # "closed" => state # "closed"
      /\ closeCause' = closeCause \/ closeCause' # "CONNECTION_CLOSED"
  <2>1. CASE UNCHANGED inboundVars BY <2>1 DEF inboundVars, vars, core, remote
  <2>2. CASE Timer \/ Application \/ Consumes
    BY <1>1, <2>2, OwnStep DEF Timer, Application, Consumes
  <2> QED BY <2>1, <2>2
<1>4. Ahead' = Ahead BY <1>2 DEF Ahead
<1>5. RowFits' BY <1>1, <1>2, <1>3, <1>4 DEF RowFits
<1>6. EndFits' BY <1>1, <1>2, EndFacts, EndFactsNext
<1>7. LossFits' BY <1>1, <1>2, <1>3 DEF LossFits
<1> QED BY <1>5, <1>6, <1>7

LEMMA DeliveryNext == DeliveryInv /\ [InboundNext]_inboundVars => DeliveryInv'
<1> SUFFICES ASSUME DeliveryInv, [InboundNext]_inboundVars PROVE DeliveryInv' OBVIOUS
<1>1. LineInv' /\ [Next]_vars BY InboundStep DEF DeliveryInv
<1>2. ConsumerInv' /\ OrderFits' BY <1>1, ConsumerNext, OrderNext DEF DeliveryInv
<1>3. RowFits' /\ EndFits' /\ LossFits'
  BY NewStep, SocketStep, CloseStep, PeerClosesStep, ReadStep, OtherStep DEF InboundNext
<1> QED BY <1>1, <1>2, <1>3 DEF DeliveryInv

LEMMA DeliveryInit == InboundInit => DeliveryInv
<1> SUFFICES ASSUME InboundInit PROVE DeliveryInv OBVIOUS
<1>1. ConsumerInv /\ LineInv /\ OrderFits
  BY ConsumerInit, LineInit, OrderInit DEF InboundInit
<1>2. /\ hand = Waiting /\ inbox = <<>> /\ wire = <<>> /\ failure = FALSE /\ ready = "open"
      /\ sent = 0 /\ cut = FALSE /\ arrived = 0 /\ hasASocket = TRUE /\ closeCause = "none"
  BY DEF InboundInit, AdapterInit, Init
<1>3. Ahead = <<>>
  <2>1. Ahead = (<<>> \o <<>>) \o <<>> BY <1>2 DEF Ahead
  <2> QED BY <2>1, EmptySeq, ConcatEmptySeq
<1>4. Len(Ahead) = 0 BY <1>3
<1>5. Row(Ahead, arrived, sent, ~cut) BY <1>2, <1>4 DEF Row
<1>6. EndFits BY <1>2, ThingsDiffer, EndFacts
<1>7. LossFits BY <1>2, ThingsDiffer DEF LossFits
<1> QED BY <1>1, <1>5, <1>6, <1>7 DEF DeliveryInv, RowFits

LEMMA InvNothingSkipped == DeliveryInv => NothingSkipped
<1> SUFFICES ASSUME DeliveryInv PROVE NothingSkipped OBVIOUS
<1>1. closeCause = "CONNECTION_CLOSED" /\ ~cut => arrived = sent BY DEF DeliveryInv, LossFits
<1>2. ASSUME state # "closed"
      PROVE  /\ \A i, j \in 1 .. Len(Ahead) :
                   i < j /\ HasPayload(Ahead[i]) /\ HasPayload(Ahead[j]) => Ahead[i].n < Ahead[j].n
             /\ Numbers \subseteq arrived + 1 .. sent
             /\ \A n \in Numbers : arrived + 1 .. n \subseteq Numbers
             /\ ~cut => Numbers = arrived + 1 .. sent
  <2>1. Row(Ahead, arrived, sent, ~cut) BY <1>2 DEF DeliveryInv, RowFits
  <2>2. arrived \in Nat /\ sent \in Nat BY <2>1 DEF Row
  <2>3. \A i, j \in 1 .. Len(Ahead) :
           i < j /\ HasPayload(Ahead[i]) /\ HasPayload(Ahead[j]) => Ahead[i].n < Ahead[j].n
    BY <2>1 DEF Row
  <2>4. \A n \in Numbers : \E i \in 1 .. Len(Ahead) : HasPayload(Ahead[i]) /\ Ahead[i].n = n
    BY DEF Numbers
  <2>5. \A n : (\E i \in 1 .. Len(Ahead) : Carries(Ahead, i, n)) => n \in Numbers
    BY DEF Numbers, Carries
  <2>6. Numbers \subseteq arrived + 1 .. sent BY <2>1, <2>4 DEF Row
  <2>7. ASSUME NEW n \in Numbers, NEW k \in arrived + 1 .. n PROVE k \in Numbers
    <3>1. PICK i \in 1 .. Len(Ahead) : HasPayload(Ahead[i]) /\ Ahead[i].n = n BY <2>4
    <3>2. n \in arrived + 1 .. sent BY <2>6
    <3>3. CASE k = n BY <3>3
    <3>4. CASE k # n
      <4>1. k < n /\ k \in arrived + 1 .. sent BY <2>2, <3>2, <3>4
      <4>2. \E j \in 1 .. Len(Ahead) : Carries(Ahead, j, k) BY <2>1, <3>1, <4>1 DEF Row
      <4> QED BY <2>5, <4>2
    <3> QED BY <3>3, <3>4
  <2>8. ASSUME ~cut PROVE arrived + 1 .. sent \subseteq Numbers
    <3>1. \A m \in arrived + 1 .. sent : \E j \in 1 .. Len(Ahead) : Carries(Ahead, j, m)
      BY <2>1, <2>8 DEF Row
    <3> QED BY <2>5, <3>1
  <2> QED BY <2>3, <2>6, <2>7, <2>8
<1> QED BY <1>1, <1>2 DEF NothingSkipped

----------------------------------------------------------------------------
(* From the remote's send to the application no payload is lost, repeated  *)
(* or overtaken, on any adapter and for any consumer; only a loss of the   *)
(* socket drops a tail.  (receive, put, readLoop, acceptPayload, iterate)  *)
THEOREM PayloadsInOrder == InboundSpec => []DeliveredInOrder
<1>1. DeliveryInv => DeliveredInOrder
  BY InvNothingSkipped, InvPayloadInOrder DEF DeliveryInv, DeliveredInOrder
<1> QED BY <1>1, DeliveryInit, DeliveryNext, PTL DEF InboundSpec
=============================================================================
