------------------------------ MODULE Consumer ------------------------------
(***************************************************************************)
(* The consuming side of one stream that this peer opened (ts/stream.ts):  *)
(* the memoized answer, the queue of the iterator, request() with its      *)
(* collector (ts/peer.ts), deadlines and abort signals, against a remote   *)
(* that sends payloads, ends or resets, and a socket that may be lost.     *)
(*                                                                         *)
(* A JavaScript timer fires only when no promise reaction is left to run,  *)
(* so Deadline asks for Quiescent and includes the reaction it causes.  An *)
(* abort signal is called from application code, which may be a reaction   *)
(* itself: Abort and Abandon are two steps.                                *)
(***************************************************************************)
EXTENDS Naturals, Sequences

CONSTANTS
    MaxPayloads     \* how many payloads the remote may send

ASSUME MaxPayloadsAssumption == MaxPayloads \in Nat

(* How the application uses the stream.  "await" and "result" may be used  *)
(* again once they are settled; "request" is open, iterate and collect.    *)
Shapes == {"await", "result", "iterate", "request", "requestWithDeadline",
           "notify", "unconsumed"}

(* Codes of a failure: resets this side sends, a reset of the remote, and  *)
(* CONNECTION_CLOSED, which never goes on the wire.                        *)
Local == {"TIMEOUT", "CANCELLED", "PROTOCOL_ERROR"}
Failures == Local \union {"remote reset", "CONNECTION_CLOSED"}

VARIABLES
    shape,          \* chosen once
    (* The remote and the socket. *)
    arrived,        \* payloads that have arrived
    remoteEnded,    \* an end has arrived
    hasASocket,
    (* The stream. *)
    state,          \* as in StreamState
    closeCause,
    queue,          \* PayloadQueue
    claim,
    answerRequested,
    answer,         \* what the memoized promise is settled with
    headersSettled, \* replyHeadersArrived is resolved
    closed,         \* `closed` is resolved and `signal` aborted
    (* What leaves this side. *)
    resets,         \* codes of the resets enqueued
    reported,       \* failures passed to the hook onStreamError
    (* The consumer. *)
    pc,
    got,            \* payloads it was given
    outcome         \* how its wait ended

remote == <<arrived, remoteEnded, hasASocket>>
core == <<state, closeCause, queue, answer, headersSettled, closed, resets, reported>>
claims == <<claim, answerRequested>>
consumer == <<pc, got, outcome>>
vars == <<shape, remote, core, claims, consumer>>

----------------------------------------------------------------------------
Payload(n) == [kind |-> "payload", n |-> n]
END == [kind |-> "end", n |-> 0]
Failure == [kind |-> "failure", n |-> 0]
Items == {END, Failure} \union {Payload(n) : n \in 1 .. MaxPayloads}

Pending == [kind |-> "pending", n |-> 0]
Empty == [kind |-> "empty", n |-> 0]        \* ProtocolError: ended without a payload

TypeOK ==
    /\ shape \in Shapes
    /\ arrived \in 0 .. MaxPayloads
    /\ remoteEnded \in BOOLEAN /\ hasASocket \in BOOLEAN
    /\ state \in {"open", "half closed local", "half closed remote", "closed"}
    /\ closeCause \in {"none", "normal"} \union Failures
    /\ (state = "closed") = (closeCause # "none")
    /\ queue \in Seq(Items)
    /\ claim \in {"none", "await", "iterate", "notify"}
    /\ answerRequested = (claim = "await")
    /\ answer \in {Pending, Empty, Failure} \union {Payload(n) : n \in 1 .. MaxPayloads}
    /\ headersSettled \in BOOLEAN /\ closed \in BOOLEAN
    /\ resets \in Seq(Local)
    /\ reported \in Nat
    /\ pc \in {"idle", "waiting", "body", "abandoning", "done"}
    /\ got \in Seq(1 .. MaxPayloads)
    /\ outcome \in {"none", "value", "failure", "empty", "tooMany", "timeout",
                    "aborted", "ended", "left"}

OpensWithEnd == {"request", "requestWithDeadline", "notify"}

(* Peer.open, and for request() and notify() what follows it in the same   *)
(* turn: the claim, and the collector's first wait.                        *)
Init ==
    /\ shape \in Shapes
    /\ arrived = 0 /\ remoteEnded = FALSE /\ hasASocket = TRUE
    /\ state \in {"open", "half closed local"}
    /\ shape \in OpensWithEnd => state = "half closed local"
    /\ closeCause = "none" /\ queue = <<>>
    /\ claim = IF shape = "notify" THEN "notify"
               ELSE IF shape \in OpensWithEnd THEN "iterate" ELSE "none"
    /\ answerRequested = FALSE /\ answer = Pending
    /\ headersSettled = FALSE /\ closed = FALSE
    /\ resets = <<>> /\ reported = 0
    /\ pc = IF claim = "iterate" THEN "waiting" ELSE "idle"
    /\ got = <<>> /\ outcome = "none"

----------------------------------------------------------------------------
(* Fault: a later payload or failure settles the promise again. *)
SettledAgain(with) == IF answerRequested THEN with ELSE answer

(* settleAnswer, rejectAnswer: once, and only if somebody asked.           *)
Settled(with) == IF answerRequested /\ answer = Pending THEN with ELSE answer

(* reportUnconsumed: the consumer of a claimed stream raises the failure.  *)
Reported == IF claim \in {"await", "iterate"} THEN reported ELSE reported + 1

(* Stream.fail with what it calls: the queue gets the failure, a requested *)
(* answer is rejected, the gates open, an unconsumed failure is reported.  *)
Fail(code) ==
    /\ state' = "closed"
    /\ closeCause' = code
    /\ queue' = Append(queue, Failure)
    /\ answer' = Settled(Failure)
    /\ headersSettled' = TRUE
    /\ closed' = TRUE
    /\ reported' = Reported

(* Stream.reset, a no-op once the stream is closed. *)
Reset(code) ==
    IF state = "closed" THEN UNCHANGED core
    ELSE /\ resets' = IF hasASocket THEN Append(resets, code) ELSE resets
         /\ Fail(code)

(* closeNormally: both sides have ended. *)
CloseNormally(items) ==
    /\ state' = "closed"
    /\ closeCause' = "normal"
    /\ queue' = Append(items, END)
    /\ headersSettled' = TRUE
    /\ closed' = TRUE

----------------------------------------------------------------------------
(* The remote: only frames of a live stream reach it.                      *)

(* onData: one frame carries a payload, the end, both, or headers alone;   *)
(* it is the remote's word on the headers (noteRemoteFrame).               *)
OnData(payload, end) ==
    /\ state # "closed" /\ ~remoteEnded /\ hasASocket
    /\ payload => arrived < MaxPayloads
    /\ arrived' = IF payload THEN arrived + 1 ELSE arrived
    /\ remoteEnded' = end
    /\ LET items == IF payload THEN Append(queue, Payload(arrived + 1)) ELSE queue
           first == IF payload THEN Settled(Payload(arrived + 1)) ELSE answer
           empty == IF payload THEN first ELSE Settled(Empty)
       IN  \/ /\ ~end
              /\ queue' = items /\ answer' = first
              /\ headersSettled' = TRUE
              /\ UNCHANGED <<state, closeCause, closed>>
           \/ /\ end /\ state = "half closed local"
              /\ CloseNormally(items) /\ answer' = empty
           \/ /\ end /\ state = "open"
              /\ state' = "half closed remote"
              /\ queue' = Append(items, END) /\ answer' = empty
              /\ headersSettled' = TRUE
              /\ UNCHANGED <<closeCause, closed>>
    /\ UNCHANGED <<shape, hasASocket, resets, reported, claims, consumer>>

RemoteResets ==
    /\ state # "closed" /\ hasASocket
    /\ Fail("remote reset")
    /\ UNCHANGED <<shape, remote, resets, claims, consumer>>

(* Peer.die fails every live stream. *)
SocketLost ==
    /\ hasASocket
    /\ hasASocket' = FALSE
    /\ IF state = "closed" THEN UNCHANGED core
       ELSE Fail("CONNECTION_CLOSED") /\ UNCHANGED resets
    /\ UNCHANGED <<shape, arrived, remoteEnded, claims, consumer>>

----------------------------------------------------------------------------
(* The application, beside its consumer.                                   *)

(* end(): this side has nothing more to send. *)
LocalEnd ==
    /\ state \in {"open", "half closed remote"}
    /\ \/ /\ state = "open"
          /\ state' = "half closed local"
          /\ UNCHANGED <<closeCause, queue, answer, headersSettled, closed>>
       \/ /\ state = "half closed remote"
          /\ CloseNormally(queue) /\ answer' = Settled(Empty)
    /\ UNCHANGED <<shape, remote, resets, reported, claims, consumer>>

(* cancel(), by another task that holds the stream. *)
Cancel ==
    /\ shape \notin OpensWithEnd
    /\ state # "closed"
    /\ Reset("CANCELLED")
    /\ UNCHANGED <<shape, remote, claims, consumer>>

----------------------------------------------------------------------------
(* await and result().                                                     *)

(* Fault: an end that has arrived does not settle the first await. *)
CurrentAnswerIgnoresEnd ==
    IF closeCause \in Failures THEN Failure
    ELSE IF queue = <<>> \/ Head(queue) = END THEN Pending ELSE Head(queue)

(* resolveFromCurrentState: the first await may come late. *)
CurrentAnswer ==
    IF closeCause \in Failures THEN Failure
    ELSE IF queue = <<>> THEN Pending
    ELSE IF Head(queue) = END THEN Empty ELSE Head(queue)

(* then() and result(): the claim, and the memoized promise. *)
Await ==
    /\ shape \in {"await", "result"} /\ pc = "idle"
    /\ claim' = "await"
    /\ answerRequested' = TRUE
    /\ answer' = IF answerRequested THEN answer ELSE CurrentAnswer
    /\ pc' = "waiting"
    /\ UNCHANGED <<shape, remote, state, closeCause, queue, headersSettled, closed,
                   resets, reported, got, outcome>>

Answered ==
    /\ shape \in {"await", "result"} /\ pc = "waiting" /\ answer # Pending
    /\ pc' = "done"
    /\ got' = IF answer.kind = "payload" THEN <<answer.n>> ELSE <<>>
    /\ outcome' = CASE answer.kind = "payload" -> "value"
                    [] answer = Failure -> "failure"
                    [] answer = Empty -> "empty"
    /\ UNCHANGED <<shape, remote, core, claims>>

(* A second await of the same stream. *)
AwaitAgain ==
    /\ shape \in {"await", "result"} /\ pc = "done"
    /\ pc' = "waiting"
    /\ UNCHANGED <<shape, remote, core, claims, got, outcome>>

(* result() with a signal that was aborted before: the race is not held,   *)
(* whatever the answer is.                                                 *)
AwaitAborted ==
    /\ shape = "result" /\ pc \in {"idle", "done"}
    /\ claim' = "await"
    /\ answerRequested' = TRUE
    /\ answer' = IF answerRequested THEN answer ELSE CurrentAnswer
    /\ pc' = "abandoning"
    /\ UNCHANGED <<shape, remote, state, closeCause, queue, headersSettled, closed,
                   resets, reported, got, outcome>>

(* waitGuarded: the signal fires while the race is open; if the answer is  *)
(* settled the race is decided, even before the consumer runs.             *)
Abort ==
    /\ shape = "result" /\ pc = "waiting" /\ answer = Pending
    /\ pc' = "abandoning"
    /\ UNCHANGED <<shape, remote, core, claims, got, outcome>>

Abandon ==
    /\ pc = "abandoning"
    /\ Reset("CANCELLED")
    /\ pc' = "done" /\ outcome' = "aborted"
    /\ UNCHANGED <<shape, remote, claims, got>>

----------------------------------------------------------------------------
(* Iteration, and the collector of request().                              *)

Iterates == {"iterate", "request", "requestWithDeadline"}

Iterate ==
    /\ shape = "iterate" /\ pc = "idle"
    /\ claim' = "iterate" /\ pc' = "waiting"
    /\ UNCHANGED <<shape, remote, core, answerRequested, got, outcome>>

PayloadRefused == shape # "iterate" /\ got # <<>>

(* The generator takes the next item; a payload goes to the loop body, or  *)
(* to the collector, which takes one and refuses a second.  (The refused   *)
(* one stays in the queue, which nobody reads any more.)                   *)
Take ==
    /\ shape \in Iterates /\ pc = "waiting" /\ queue # <<>>
    /\ LET item == Head(queue) IN
          \/ /\ item.kind = "payload" /\ ~PayloadRefused
             /\ queue' = Tail(queue)
             /\ got' = Append(got, item.n)
             /\ pc' = IF shape = "iterate" THEN "body" ELSE "waiting"
             /\ UNCHANGED <<state, closeCause, answer, headersSettled, closed, resets,
                            reported, outcome>>
          \/ /\ item.kind = "payload" /\ PayloadRefused
             /\ Reset("PROTOCOL_ERROR")
             /\ pc' = "done" /\ outcome' = "tooMany"
             /\ UNCHANGED got
          \/ /\ item = END
             /\ queue' = Tail(queue)
             /\ pc' = "done"
             /\ outcome' = IF shape = "iterate" THEN "ended"
                           ELSE IF got = <<>> THEN "empty" ELSE "value"
             /\ UNCHANGED <<state, closeCause, answer, headersSettled, closed, resets,
                            reported, got>>
          \/ /\ item = Failure
             /\ queue' = Tail(queue)
             /\ pc' = "done" /\ outcome' = "failure"
             /\ UNCHANGED <<state, closeCause, answer, headersSettled, closed, resets,
                            reported, got>>
    /\ UNCHANGED <<shape, remote, claims>>

(* The loop body ends, or leaves the loop: the generator's `finally`.      *)
Body ==
    /\ pc = "body"
    /\ \/ /\ pc' = "waiting" /\ UNCHANGED <<core, outcome>>
       \/ /\ Reset("CANCELLED")
          /\ pc' = "done" /\ outcome' = "left"
    /\ UNCHANGED <<shape, remote, claims, got>>

----------------------------------------------------------------------------
(* A promise reaction that moves the consumer is due. *)
Quiescent ==
    /\ pc # "abandoning"
    /\ pc = "waiting" => IF shape \in Iterates THEN queue = <<>> ELSE answer = Pending

(* Fault: the caller is told, the remote is not. *)
ExpiresLocally(code) == Fail(code) /\ UNCHANGED resets

Expires(code) == Reset(code)

(* The timer of result() or request() fires: the remote is told TIMEOUT    *)
(* before the caller is.                                                   *)
Deadline ==
    /\ shape \in {"result", "requestWithDeadline"} /\ pc = "waiting"
    /\ Quiescent
    /\ Expires("TIMEOUT")
    /\ pc' = "done" /\ outcome' = "timeout"
    /\ UNCHANGED <<shape, remote, claims, got>>

Reaction == Answered \/ Abandon \/ Take

Next ==
    \/ \E payload, end \in BOOLEAN : OnData(payload, end)
    \/ RemoteResets \/ SocketLost \/ LocalEnd \/ Cancel
    \/ Await \/ AwaitAgain \/ AwaitAborted \/ Abort \/ Iterate \/ Body \/ Deadline
    \/ Reaction

Spec == Init /\ [][Next]_vars

----------------------------------------------------------------------------
Over == state \in {"half closed remote", "closed"}

(* Nobody waits for what cannot come: once the remote has ended or the     *)
(* stream is closed, however that happened and whenever the consumer came, *)
(* the answer is settled and an iterator finds its END or its failure; and *)
(* a closed stream has resolved `closed` and `replyHeadersArrived`.        *)
(* (WSM-INV-011; Stream.fail, remoteEnd, closeNormally,                    *)
(* resolveFromCurrentState)                                                *)
NobodyWaits ==
    /\ answerRequested /\ Over => answer # Pending
    /\ shape \in Iterates /\ pc \in {"idle", "waiting", "body"} /\ Over
         => \E i \in 1 .. Len(queue) : queue[i].kind # "payload"
    /\ state = "closed" => closed /\ headersSettled

(* A consumer gets the payloads of the remote in their order, each once.   *)
(* await yields the first one; an iterator that ends, or a request that    *)
(* returns, had all of them, and a request exactly one.                    *)
(* (acceptPayload, iterate, collect)                                       *)
EveryPayloadInOrder ==
    /\ \A i \in 1 .. Len(got) : got[i] = i
    /\ outcome \in {"ended", "value"} /\ shape \in Iterates
         => remoteEnded /\ Len(got) = arrived
    /\ outcome = "value" => Len(got) = 1

(* One reset per stream at most, none for a stream that closed normally,   *)
(* and the one the consumer's fate calls for: a passed deadline is always  *)
(* TIMEOUT on the wire, never the CANCELLED of an abandoned iterator, and  *)
(* a consumer that leaves tells the remote unless the stream was over.     *)
(* (Stream.reset, waitGuarded, collectUnary, abandon, iterate)             *)
OneFittingReset ==
    /\ Len(resets) <= 1
    /\ closeCause \in {"none", "normal", "remote reset", "CONNECTION_CLOSED"} => resets = <<>>
    /\ closeCause \in Local => resets = <<closeCause>>
    /\ outcome \in {"aborted", "left", "tooMany"} => state = "closed"

(* A promise that was handed out is not taken back: once settled, the      *)
(* answer never changes, so every await of the stream gets the same one,   *)
(* and a timeout, once raised, was the reset the remote was sent.          *)
(* (memoizedAnswer, settleAnswer, waitGuarded)                             *)
AnswerIsFinal ==
    [][/\ answer # Pending => answer' = answer
       /\ outcome # "timeout" /\ outcome' = "timeout"
            => resets' = Append(resets, "TIMEOUT") /\ closeCause' = "TIMEOUT"
      ]_vars

(* A failed stream tells exactly one party: its consumer if one had        *)
(* claimed it, else the hook; never both, and the hook never twice.        *)
(* (reportUnconsumed)                                                      *)
FailureIsTold ==
    /\ reported <= 1
    /\ reported = 1 => closeCause \in Failures
    /\ closeCause \in Failures /\ claim \in {"none", "notify"} => reported = 1
    /\ shape \in {"request", "requestWithDeadline", "notify"}
         => (reported = 1) = (shape = "notify" /\ closeCause \in Failures)
    /\ shape \in {"iterate", "request"} /\ outcome = "failure" => closeCause \in Failures
============================================================================
