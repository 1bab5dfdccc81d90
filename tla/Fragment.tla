------------------------------ MODULE Fragment ------------------------------
(***************************************************************************)
(* Fragmentation on one stream: the generator iterFragments, from which    *)
(* the writer pulls one frame at a time (ts/fragment.ts), the wire, and    *)
(* the receiving peer with its two caps and its Assembler (ts/peer.ts).    *)
(*                                                                         *)
(* The stream carries one or two payloads.  The first frame of the stream  *)
(* carries the headers, the last one the end with the trailers.  An        *)
(* encoded payload is a sequence of bytes, of which only the kind counts:  *)
(* "plain", "quoted" (a byte the codec escapes inside the fragment field,  *)
(* so it costs two), and "lead"/"cont" of a multi-byte codepoint.  A       *)
(* fragment carries the places of its bytes, so that a byte lost, doubled  *)
(* or moved shows.  Sizes are scaled down; the bounds are named in Setup.  *)
(***************************************************************************)
EXTENDS Integers, Sequences, FiniteSets, FiniteSetsExt

CONSTANTS
    Setups,         \* the streams considered, each a Setup
    Reserve         \* scaled: the 512 bytes of reservation(cap)

(* A stream: the encoded payloads; whether the codec is textual; whether   *)
(* the first payload rides an open; the cap of the sender, the frame and   *)
(* payload caps of the receiver; what headers, end with trailers, the      *)
(* `more` flag and the rest of the envelope add to a message.              *)
Setup == [payloads : Seq(Seq({"plain", "quoted", "lead", "cont"})),
          text : BOOLEAN, opens : BOOLEAN,
          cap : Nat, maxFrame : Nat, maxPayload : Nat,
          headers : Nat, trailers : Nat, more : Nat, envelope : Nat]

ASSUME SetupsAssumption == Setups \subseteq Setup /\ Reserve \in Nat

VARIABLES
    setup,
    current,    \* the payload the generator works on
    position,   \* bytes of it already yielded
    emitted,    \* fragments of it already yielded
    sender,     \* the stream at the sender
    wire,       \* frames to the receiver
    back,       \* resets to the sender
    stream,     \* the stream at the receiver
    opening,    \* its open is still being reassembled
    parts,      \* what its assembler holds
    received    \* the payloads handed to the application

vars == <<setup, current, position, emitted, sender, wire, back, stream,
          opening, parts, received>>

----------------------------------------------------------------------------
(* The splitter, a pure function of frame, cap and codec.                  *)

Bytes(k) == setup.payloads[k]
Total(k) == Len(Bytes(k))
IsContinuation(k, i) == Bytes(k)[i] = "cont"

(* What `count` bytes after `start` cost inside a fragment field.          *)
Cost(k, start, count) ==
    count + Cardinality({i \in (start + 1) .. (start + count) : Bytes(k)[i] = "quoted"})

Reservation == IF Reserve < setup.cap \div 2 THEN Reserve ELSE setup.cap \div 2
Budget == IF setup.cap - Reservation > 1 THEN setup.cap - Reservation ELSE 1

IsFirst(k, first) == k = 1 /\ first
IsLast(k, last) == k = Len(setup.payloads) /\ last

(* The encoded length of a message.                                        *)
Size(k, first, last, content) ==
    setup.envelope + content
        + (IF IsFirst(k, first) THEN setup.headers ELSE 0)
        + (IF IsLast(k, last) THEN setup.trailers ELSE 0)
        + (IF last THEN 0 ELSE setup.more)

WholeSize(k) == Size(k, TRUE, TRUE, Total(k))
FragmentSize(k, first, last, start, count) == Size(k, first, last, Cost(k, start, count))
Fits(k, first, last, start, count) == FragmentSize(k, first, last, start, count) <= setup.cap

Frame(k, whole, first, last, start, count) ==
    [type |-> IF k = 1 /\ setup.opens THEN "open" ELSE "data",
     whole |-> whole, payload |-> k, start |-> start, count |-> count,
     headers |-> IsFirst(k, first) /\ setup.headers > 0,
     end |-> IsLast(k, last), more |-> ~last,
     size |-> IF whole THEN WholeSize(k) ELSE FragmentSize(k, first, last, start, count)]

(* Fault: a cut may fall inside a codepoint. *)
BoundaryAnywhere(k, start, limit) ==
    (IF start + limit < Total(k) THEN start + limit ELSE Total(k)) - start

(* The largest cut at or before start + limit that the codec can represent: *)
(* it moves back to the start of the codepoint it falls into.               *)
BoundaryWithin(k, start, limit) ==
    LET cut == IF start + limit < Total(k) THEN start + limit ELSE Total(k)
        ok(c) == ~setup.text \/ c = start \/ c = Total(k) \/ ~IsContinuation(k, c + 1)
    IN  Max({c \in start .. cut : ok(c)}) - start

(* The width of the byte or codepoint at `start`. *)
FirstUnitWidth(k, start) ==
    IF setup.text
    THEN Min({w \in 1 .. Total(k) - start :
                 start + w = Total(k) \/ ~IsContinuation(k, start + w + 1)})
    ELSE 1

UnitsWithinBudget(k, start) ==
    LET count == BoundaryWithin(k, start, Budget)
    IN  IF count = 0 THEN FirstUnitWidth(k, start) ELSE count

(* What a bisection keeps: the byte limits still open, the best so far.     *)
Search == [low : Nat \ {0}, high : Nat, best : Nat]

(* The largest slice whose message stays under the cap: a bisection of byte *)
(* limits, each floored to a boundary.  0 when not even one unit fits.      *)
LargestFittingCount(k, start, ceiling, first) ==
    LET middle(s) == (s.low + s.high) \div 2
        count(s) == BoundaryWithin(k, start, middle(s))
        bisect[s \in Search] ==
            IF s.low > s.high THEN s.best
            ELSE IF Fits(k, first, FALSE, start, count(s))
                 THEN bisect[[low |-> middle(s) + 1, high |-> s.high, best |-> count(s)]]
                 ELSE bisect[[low |-> s.low, high |-> middle(s) - 1, best |-> s.best]]
    IN  bisect[[low |-> 1, high |-> ceiling, best |-> 0]]

(* The slice of the next middle fragment, verified and split again.        *)
MiddleCount(k, start, first) ==
    LET count == UnitsWithinBudget(k, start)
    IN  IF Fits(k, first, FALSE, start, count) THEN count
        ELSE LargestFittingCount(k, start, count, first)

(* The remainder can go as the closing fragment: measured only when it is  *)
(* itself no longer than the cap.                                          *)
Closes(k, start, first) ==
    /\ Total(k) - start <= setup.cap
    /\ Fits(k, first, TRUE, start, Total(k) - start)

----------------------------------------------------------------------------
TypeOK ==
    /\ setup \in Setups
    /\ current \in 1 .. Len(setup.payloads) + 1
    /\ position \in 0 .. (IF current > Len(setup.payloads) THEN 0 ELSE Total(current))
    /\ emitted <= position
    /\ sender \in {"open", "ended", "unencodable", "reset"}
    /\ \A i \in 1 .. Len(wire) : wire[i].type \in {"open", "data", "reset"}
    /\ back \in Seq({"PAYLOAD_TOO_LARGE", "PROTOCOL_ERROR", "CANCELLED"})
    /\ stream \in {"none", "open", "ended", "closed", "connection failed"}
    /\ opening \in BOOLEAN /\ (opening => setup.opens)
    /\ \A i \in 1 .. Len(parts) : parts[i] \in (1 .. Len(setup.payloads)) \X Nat
    /\ Len(received) <= Len(setup.payloads)

Init ==
    /\ setup \in Setups
    /\ current = 1 /\ position = 0 /\ emitted = 0
    /\ sender = "open" /\ wire = <<>> /\ back = <<>>
    /\ stream = IF setup.opens THEN "none" ELSE "open"
    /\ opening = FALSE /\ parts = <<>> /\ received = <<>>

----------------------------------------------------------------------------
(* The sender: the write loop pulls the next frame of the lane, one at a   *)
(* time, so a reset falls between any two fragments.                       *)

Finish ==
    /\ current' = current + 1
    /\ position' = 0
    /\ emitted' = 0
    /\ sender' = IF current = Len(setup.payloads) THEN "ended" ELSE "open"

Yield(frame) == wire' = Append(wire, frame)

Pulls == sender = "open" /\ current <= Len(setup.payloads)

SendWhole ==
    /\ Pulls /\ emitted = 0
    /\ WholeSize(current) <= setup.cap
    /\ Yield(Frame(current, TRUE, TRUE, TRUE, 0, Total(current)))
    /\ Finish
    /\ UNCHANGED <<setup, back, stream, opening, parts, received>>

(* A payload that does not go whole, past the closing check. *)
Splits == Pulls /\ (emitted = 0 => WholeSize(current) > setup.cap)

SendClosing ==
    /\ Splits
    /\ Closes(current, position, emitted = 0)
    /\ Yield(Frame(current, FALSE, emitted = 0, TRUE, position, Total(current) - position))
    /\ Finish
    /\ UNCHANGED <<setup, back, stream, opening, parts, received>>

Advance(count) == position' = position + count

SendMiddle ==
    /\ Splits
    /\ ~Closes(current, position, emitted = 0)
    /\ position < Total(current)
    /\ LET count == MiddleCount(current, position, emitted = 0) IN
       /\ count > 0
       /\ Yield(Frame(current, FALSE, emitted = 0, FALSE, position, count))
       /\ Advance(count)
    /\ emitted' = emitted + 1
    /\ UNCHANGED <<setup, current, sender, back, stream, opening, parts, received>>

(* closingFloorError: the closing envelope alone is too much; floorError:  *)
(* not even one unit fits.                                                 *)
AtFloor == position < Total(current) => MiddleCount(current, position, emitted = 0) = 0

(* failLane: a reset, unless nothing of the open was sliced. *)
Refuses ==
    /\ Splits
    /\ ~Closes(current, position, emitted = 0)
    /\ AtFloor
    /\ sender' = "unencodable"
    /\ wire' = IF setup.opens /\ current = 1 /\ emitted = 0 THEN wire
               ELSE Append(wire, [type |-> "reset", size |-> 0])
    /\ UNCHANGED <<setup, current, position, emitted, back, stream, opening, parts, received>>

(* The application resets the stream: the rest of the payload is dropped.  *)
(* (An open of which nothing was sent is Writer's subject.)                *)
SenderResets ==
    /\ sender \in {"open", "ended"}
    /\ setup.opens => emitted > 0 \/ current > 1
    /\ sender' = "reset"
    /\ wire' = Append(wire, [type |-> "reset", size |-> 0])
    /\ UNCHANGED <<setup, current, position, emitted, back, stream, opening, parts, received>>

(* A reset of the receiver: StreamQueue.discard, Stream.fail. *)
SenderIsReset ==
    /\ back # <<>>
    /\ back' = Tail(back)
    /\ sender' = IF sender \in {"open", "ended"} THEN "reset" ELSE sender
    /\ UNCHANGED <<setup, current, position, emitted, wire, stream, opening, parts, received>>

----------------------------------------------------------------------------
(* The receiver: the read loop handles the frame at the head of the wire.  *)

(* Stream.fail: the partial buffer goes with the stream. *)
Reset(code) ==
    /\ back' = Append(back, code)
    /\ stream' = "closed"
    /\ opening' = FALSE
    /\ parts' = <<>>
    /\ UNCHANGED received

Ignore == UNCHANGED <<back, stream, opening, parts, received>>

FailConnection ==
    /\ stream' = "connection failed"
    /\ parts' = <<>>
    /\ opening' = FALSE
    /\ UNCHANGED <<back, received>>

Places(frame) == [i \in 1 .. frame.count |-> <<frame.payload, frame.start + i>>]

(* Fault: the payloads already handed on still count. *)
WithinPayloadCapOfStream(frame) ==
    Len(parts) + frame.count + (IF received = <<>> THEN 0 ELSE Len(received[1])) <= setup.maxPayload

WithinPayloadCap(frame) == Len(parts) + frame.count <= setup.maxPayload

State(frame) == IF frame.end THEN "ended" ELSE "open"

(* withinPayloadCap and reassemble: a fragment joins the buffer; the last  *)
(* one hands the payload on.                                               *)
Feed(frame) ==
    \/ /\ ~WithinPayloadCap(frame)
       /\ Reset("PAYLOAD_TOO_LARGE")
    \/ /\ WithinPayloadCap(frame)
       /\ LET joined == parts \o Places(frame) IN
          IF frame.more
          THEN /\ parts' = joined
               /\ opening' = (frame.type = "open")
               /\ stream' = IF stream = "none" THEN "open" ELSE stream
               /\ UNCHANGED <<back, received>>
          ELSE /\ parts' = <<>>
               /\ received' = Append(received, joined)
               /\ opening' = FALSE
               /\ stream' = State(frame)
               /\ UNCHANGED back

(* A payload that came whole: no payload cap applies to it. *)
Accept(frame) ==
    /\ received' = Append(received, Places(frame))
    /\ stream' = State(frame)
    /\ UNCHANGED <<back, opening, parts>>

(* withinFrameCap refuses the message: it resets the live stream, names    *)
(* the id of an open that never became one, and leaves a closed stream be. *)
OverCap(frame) ==
    \/ /\ frame.type = "open" /\ stream = "closed"      \* admitRemoteOpen: not a new id
       /\ FailConnection
    \/ /\ frame.type = "data" /\ stream = "closed"
       /\ Ignore
    \/ /\ stream # "closed"
       /\ Reset("PAYLOAD_TOO_LARGE")

OnOpen(frame) ==
    \/ /\ stream = "closed" /\ FailConnection           \* admitRemoteOpen: not a new id
    \/ /\ stream = "none" /\ frame.whole /\ Accept(frame)
    \/ /\ (stream = "none" \/ opening) /\ ~frame.whole /\ Feed(frame)

OnData(frame) ==
    \/ /\ stream = "closed" /\ Ignore                   \* below the high-water mark
    \/ /\ stream = "open"
       /\ frame.whole /\ parts = <<>> /\ Accept(frame)
    \/ /\ stream = "open"
       /\ ~frame.whole /\ (frame.headers => received = <<>> /\ parts = <<>>)
       /\ Feed(frame)
    \/ /\ \/ stream = "ended"                           \* WSM-STM-020
          \/ stream = "open" /\ frame.whole /\ parts # <<>>     \* WSM-FRG-033
          \/ stream = "open" /\ frame.headers           \* WSM-FRM-016
             /\ (received # <<>> \/ parts # <<>>)
       /\ Reset("PROTOCOL_ERROR")

OnReset ==
    /\ stream' = IF stream = "none" THEN "none" ELSE "closed"
    /\ opening' = FALSE
    /\ parts' = <<>>
    /\ UNCHANGED <<back, received>>

Receive ==
    /\ wire # <<>> /\ stream # "connection failed"
    /\ wire' = Tail(wire)
    /\ LET frame == Head(wire) IN
       \/ frame.type = "reset" /\ OnReset
       \/ frame.type # "reset" /\ frame.size > setup.maxFrame /\ OverCap(frame)
       \/ frame.type = "open" /\ frame.size <= setup.maxFrame /\ OnOpen(frame)
       \/ frame.type = "data" /\ frame.size <= setup.maxFrame /\ OnData(frame)
    /\ UNCHANGED <<setup, current, position, emitted, sender>>

(* The receiving application gives the stream up. *)
ReceiverResets ==
    /\ stream \in {"open", "ended"} /\ ~opening
    /\ Reset("CANCELLED")
    /\ UNCHANGED <<setup, current, position, emitted, sender, wire>>

----------------------------------------------------------------------------
WriteLoop == SendWhole \/ SendClosing \/ SendMiddle \/ Refuses

Next == WriteLoop \/ SenderResets \/ SenderIsReset \/ Receive \/ ReceiverResets

Spec == Init /\ [][Next]_vars

----------------------------------------------------------------------------
(* What the wire may carry, whatever the payload and the envelopes: no     *)
(* message above the cap, no middle fragment without bytes, no codepoint   *)
(* cut, and no middle fragment that could have taken one unit more within  *)
(* its budget: both implementations must cut at the same places.           *)
(* (iterFragments, largestFittingCount, boundaryWithin)                    *)
WellCut ==
    \A i \in {j \in 1 .. Len(wire) : wire[j].type # "reset"} :
        LET f == wire[i]
            end == f.start + f.count
            more == f.count + FirstUnitWidth(f.payload, end)
        IN  /\ f.size <= setup.cap
            /\ setup.text /\ end < Total(f.payload) => ~IsContinuation(f.payload, end + 1)
            /\ f.more => /\ f.count > 0
                         /\ \/ end = Total(f.payload)
                            \/ more > Budget
                            \/ ~Fits(f.payload, f.start = 0, FALSE, f.start, more)

(* Some way to cut payload k into non-empty middle fragments and a closing *)
(* one, each under the cap.                                                *)
Splittable(k) ==
    LET ends == {c \in 1 .. Total(k) :
                    ~setup.text \/ c = Total(k) \/ ~IsContinuation(k, c + 1)}
    IN  \E cuts \in SUBSET ends :
            \A start \in cuts \union {0} :
                LET later == {c \in cuts : c > start}
                    last == later = {}
                    end == IF last THEN Total(k) ELSE Min(later)
                IN  Fits(k, start = 0, last, start, end - start)

(* The splitter gives a payload up only when no split of it exists, however *)
(* far it has come: cutting greedily never loses a payload that could go.   *)
(* (floorError, closingFloorError, failLane)                                *)
RefusesOnlyHopeless == sender = "unencodable" => ~Splittable(current)

(* What the application gets is what was sent: whole payloads, every byte  *)
(* once and in its place, and all of them before the end of the stream.    *)
(* (Assembler.feed, iterFragments)                                         *)
Reassembled ==
    /\ \A k \in 1 .. Len(received) : received[k] = [i \in 1 .. Total(k) |-> <<k, i>>]
    /\ stream = "ended" => Len(received) = Len(setup.payloads)

(* The receiver refuses this sender, whose every frame is legal, only for  *)
(* a size: a payload above its cap or a message above its frame cap.  It   *)
(* never accuses it of a protocol error, and the connection falls only for *)
(* what follows a refused fragmented open, the case ConnectionRefusedOpen  *)
(* shows.  (withinFrameCap, withinPayloadCap, onData)                      *)
JustRefusals ==
    LET tooLarge == setup.cap > setup.maxFrame
                    \/ \E k \in 1 .. Len(setup.payloads) : Total(k) > setup.maxPayload
    IN  /\ \A i \in 1 .. Len(back) :
               back[i] # "CANCELLED" => back[i] = "PAYLOAD_TOO_LARGE" /\ tooLarge
        /\ stream = "connection failed" => setup.opens /\ tooLarge

(* The receiver never buffers more than its limit, and nothing for a       *)
(* stream that is over.  (withinPayloadCap, Stream.fail, Assembler.reset)  *)
BufferBounded ==
    /\ Len(parts) <= setup.maxPayload
    /\ stream \in {"closed", "ended"} => parts = <<>>

(* What the splitter sends is legal and nothing it could send is refused.  *)
FragmentsFit == WellCut /\ RefusesOnlyHopeless

(* What the receiver makes of it is exact, within its bounds, and blames   *)
(* the sender for nothing but a size.                                      *)
ReceiverIsFair == Reassembled /\ JustRefusals /\ BufferBounded
============================================================================
