# muxws: models and proofs

muxws multiplexes independent streams over one WebSocket. This directory holds TLA+ models of its
TypeScript implementation (`ts/`), of the two TypeScript halves of its demo, the TLC runs that check
them on small instances, and TLAPS proofs. Every definition is translated from the code;
`PROJECT.json` maps each one to its lines. Paths below are relative to the repository.

## 1. The system

A *peer* is one end of a connection. The *dialer* opens streams with odd ids, the *acceptor* with even
ones. A stream is opened by an `open` frame, carries `data` frames in both directions, and ends when
both sides have sent `end`, when either sends `reset`, or when the socket dies. `goaway` announces that
a peer is closing. A payload larger than the frame cap travels as fragments, interleaved with the
fragments of other streams.

| component | state | operations | modelled in |
|---|---|---|---|
| `writer.ts`: `StreamQueue`, `Writer` | one queue per lane (waiting frames, one prepared fragment, fragment iterator), the rotation, gates wake and idle, stopped | `enqueue`, `nextFrame`, `advance`, `discard`, `discardAll`, `stop`, `waitIdle` | `Writer` |
| `peer.ts`, write loop | the fragment awaited on the socket | `runWriter`, `failLane`, `failUnsendable`, `drainOutbound` | `Writer` |
| `peer.ts`, streams | next id, high-water marks, live map, goaway flags | `open`, `readLoop` and its handlers, `startHandler`, `runHandler`, `close`, `drain`, `failConnection`, `die` | `Connection` |
| `stream.ts`, states | state, close cause, handler signal | `send`, `end`, `reset`, `fail`, local and remote end | `Connection` |
| `stream.ts`, consumption; `request()` | claim, memoized answer, inbound queue | `then`, `result`, iteration, `cancel`, `notify`, `request` | `Consumer`, `Inbound` |
| `transports/*.ts` | the platform's socket, inbox, pending `receive()` | message and close events, `receive`, `close` | `Adapter`, `Inbound` |
| `fragment.ts`, caps of `peer.ts` | position of the splitter, parts of the assembler | `iterFragments`, `feed`, `withinFrameCap`, `withinPayloadCap` | `Fragment` |
| `reconnect.ts`: `ConnectionLoop` | attempt counter, stopped, supervisor, read loop, heartbeats | `establish`, `supervise`, `redial`, `performHello`, `abandonSocket`, `giveUp`, `stop` | `Reconnect` |
| `reconnect.ts`: `Heartbeat`; `PingRegistry` of `lifecycle.ts` | last activity, nonces waiting, their start times | `run`, `ping`, `onPong`, `settle`, `giveUp`, `failAll` | `Heartbeat` |
| `registry.ts` | index by tag, reverse map, hooked peers | `register`, `deregister`, `peersFor` | `Registry` |
| `subprotocol.ts`, `origin.ts`, `node.ts` | none that outlives a handshake | hooks of a `ws` server, `accept`, dialing, origin policies | `Handshake` |
| `demo/backend_node` | boards, killers, tags of peers | hello, board, forget, kill | `Market` |
| `demo/frontend/src/muxws.ts` | the page's store | ticks, selection, large payloads, interval, loss | `Dashboard` |
| `frames.ts`, `codec.ts`, `msgpack.ts`, `errors.ts`, `conf.ts`, `observability.ts` | none | conversions, classes, logging | no |
| `muxws/`, `demo/backend_python` | the same components in Python | | no |
| `interop/`, `conformance/`, `docs/`, `scripts/` | test drivers and build scripts | | no |

**How they interact.** Everything runs on one JavaScript event loop; code between two `await`s is
atomic, and promise reactions run before the next timer or socket event. Per connection there are a read
loop (`serve`), a write loop, the handlers and the application's own calls, all sharing the `Peer`.
Streams and the peer enqueue on the `Writer`; the write loop takes fragments from it and awaits the
socket; the read loop awaits the adapter, changes streams, starts handlers and enqueues resets. Socket
death (`die`) can come from the read loop, the write loop, the heartbeat, `close()` or the helper. A
dialer's reconnect helper starts the read loop and the heartbeat of each socket and puts a new socket on
the same `Peer` object. An acceptor's peers are found through the registry, which forgets them through
their close handlers.

**What is hard here.** A reset overtaking its own `open`; a codec that refuses a payload after its
stream has gone; frames of one side crossing resets, refusals and goaways of the other; `close()`
waiting for two different things while streams end and begin; five places that can declare a socket
dead and must report it once; nothing can be cancelled, so every continuation must notice that what it
waited for has been undone; a consumer that comes before, while or after what it consumes arrives; a
close behind messages that nobody has read yet; sizes that must fit after escaping and never divide a
character; a page whose requests overlap and fail in the middle. The list, with lines and the properties
aimed at each, is under `hazards` in `PROJECT.json`.

**What makes each component correct.**
- Writer: lanes leave in order and whole, `open` first and `reset` last, opens in id order, lanes in
  turn, the idle gate truthful, the loop never asleep on work.
- Two peers: peers that follow the protocol never see a protocol error; REFUSED means never run; both
  ends agree; nothing is lost on a stream that closes normally; `close()` cuts nothing; requests end.
- Consumption: payloads in order, each once; one answer, which stays; one reset, which says why; nobody
  waits for a stream that is over.
- Reconnect and heartbeat: each loss is reported once, the final one last; nothing outlives its socket;
  `close()` returns; backoff starts over only on an established connection; silence is noticed in time.
- Fragmentation: what fits is sent in frames that fit; what arrives is what was sent, within the limit.
- Registry, handshake and demo: lookups exact, no trace of the dead, both ends of a handshake of one
  mind, a page that shows what is.

## 2. Modules

| module | what it is |
|---|---|
| `Writer` | the send path of one peer, in detail |
| `Lane`, `SendPath` | the abstract send path: each lane a plain queue, with the promises other code relies on |
| `MCWriter` | instances of `Writer`, and the refinement mapping to `SendPath` |
| `WriterProofs` | theorems about `Writer`: types, `open` first, order, turns, wake-ups, failure reports, and the refinement of `SendPath` |
| `Connection`, `MCConnection` | two peers, their streams and the socket between them, on top of `Lane` |
| `ConnectionProofs` | theorems about `Connection`: refusals, agreement, delivery, no accusation, graceful closing |
| `Consumer` | the consuming side of one stream against an abstract remote |
| `Adapter` | the receiving half of a socket adapter |
| `Inbound` | `Adapter`, the read loop and `Consumer` composed; implements `Consumer` |
| `InboundProofs` | theorems about `Consumer` and `Inbound`: the consumer's promises, that refinement, the order of payloads |
| `Fragment`, `MCFragment` | splitter, wire and receiver of one stream |
| `FragmentProofs` | theorems about `Fragment`: what the splitter sends and gives up, what the receiver makes of it |
| `Reconnect`, `MCReconnect` | the dialer's helper, read loops, heartbeats and `close()` over successive sockets |
| `ReconnectProofs` | theorems about `Reconnect` |
| `Heartbeat` | one socket's heartbeat and pings, with a clock |
| `HeartbeatProofs` | theorems about `Heartbeat` |
| `Registry`, `Handshake` | operators: the registry's operations on its state, the decisions of a handshake |
| `Market`, `MCMarket` | an acceptor process that composes the two with the demo's service |
| `MarketProofs` | theorems about `Market`: registry, deaths, kills, handshakes |
| `Dashboard`, `MCDashboard` | the store of the demo page |
| `DashboardProofs` | theorems about `Dashboard` |

An operator whose comment begins with "Fault" is a plausible bug in the operator after it. It is not
part of any specification: it shows that the property named with it in `PROJECT.json` (`mutants`)
notices that bug.

### Writer and SendPath

`queues[l]` is the `StreamQueue` of lane `l` (a missing one is empty), `order` the rotation, `wake`,
`idle` and `stopped` the gates and the flag. `loop` says where the write loop is and `inhand` the
fragment whose send is awaited. Of the peer there are the live map (`live`, and `ended` for streams that
may not send any more), the id allocation and the death of the peer. A payload is the number of fragments
it is cut into and the slice the codec refuses, if any. Each action is the code between two awaits:
`NextFrame` is `nextFrame` with the rotation it turns and every lane it retires, `Sent` is the return of
the send with `advance`, and both include the whole of `failLane` when a slice is refused. `wire`,
`opens`, `enqueued` and `behind` are history. The goaway flags and the close that follows the last id are
left out: they only remove behaviours of the send path, on which a goaway is a `Control` frame. The
remote is free: it may accept, end or reset any stream whose id it has seen.

`SendPath` states what the rest of a peer may assume: frames are appended to a lane and leave whole and
in order; a discard keeps the `open` nothing of which was sent; nothing else starts a lane of a local
stream; a lane the codec fails gets a `reset` only if the remote can know the stream; opens leave in id
order. `MCWriter!ImplementsSendPath` maps a queue to its prepared fragment, the rest of the payload in
the iterator, and the waiting frames. `Connection` uses exactly these queues (`Lane`) for both peers, and
its `Write` has the guard of `SendPath!MaySend`.

### Connection

`view[p][s]` is the `Stream` object of stream `s` at peer `p`: state, whether the opening payload is
incomplete, close cause, handler, payloads sent and received. `phase[p]` follows `close()` (draining,
flushing, closing) and `failConnection` (failing, failed) through their awaits. Each read-loop action is
the dispatch of one frame with everything it calls; a handler is started in a reaction of its own
(`HandlerStarts`), and a signal that is aborted before keeps it from running. Frames already written stay
readable after the other peer closes; in a faulty setup the socket may drop them. Both peers follow the
protocol, which is the point of `NoProtocolError`: whatever looks illegal would be the implementation's
own doing.

### Consumer, Adapter, Inbound

`Consumer` is one stream this peer opened and one way of consuming it (`shape`): `await`, `result` with a
deadline or a signal, iteration, `request` with and without a deadline, `notify`, or nothing. `claim`,
`answer`, `queue` and `resets` are the stream's, `pc` and `outcome` the consumer's. The first await may
come at any time (`resolveFromCurrentState`). A JavaScript timer fires only when no promise reaction is
left, so `Deadline` asks for `Quiescent`; an abort signal may fire inside a reaction, so `Abort` does
not. `request` with a deadline leaves its collector running: what it does after the deadline is part of
the model, and `OneFittingReset` is about it.

`Adapter` has the three adapters as `kind`s, which differ in when `receive()` learns of a close and in
what a local close drops. Messages that are neither text nor an ArrayBuffer cannot reach a peer and are
left out; there is one read loop per socket, hence at most one pending `receive()`. `Inbound` puts the
remote's sends before the adapter and the read loop behind it, in place of `Consumer`'s free remote.
`ImplementsConsumer` is `Consumer!Spec` under the identity mapping.

### Fragment

`setup` is a stream: its payloads as sequences of bytes of four kinds (plain, escaped to two, first and
further bytes of a codepoint), the codec, both caps and the sizes of the envelope and of headers and
trailers. The generator is stepped as the writer pulls it, so a payload may fail after fragments of it
have left. A fragment carries the places of its bytes, which is what makes a lost, repeated or moved
byte visible. `Splittable` is the reference definition: some set of cuts gives only frames that fit.
A payload that needs no fragments is not subject to the payload cap, as in the code.

### Reconnect and Heartbeat

`Reconnect` is one dialer over successive sockets, or an acceptor's peer, which has one socket, no helper
and the `loop` "absent". `loop` is `establish` and then `supervise` at each of its awaits, `serve` the
read loop, `closing` one call of `close()` at each of its awaits. A heartbeat that was stopped while its
ping was out stays until the ping settles, and may find another socket then. Delays are arbitrary. A
WebSocket reports each message and its close in turns of their own, so the reactions to the hello's
acknowledgement have run before the socket is seen to die: `FinalIsFinal` rests on this, and a
`MemorySocket`, which the helper is not used with, would not give it.

`Heartbeat` adds the clock to one socket: `now`, `lastFrame`, pings with deadlines, frames that wait in
the write queue and on the wire for any time, and a remote that may fall silent. Timers fire on their
tick.

### Registry, Handshake, Market, Dashboard

`Registry` and `Handshake` are operators on a registry and on one request. `Market` gives them a
process: a dial chooses a server configuration and a request, the hooks and `accept()` decide, the
dialer learns what it can, and an accepted peer may send hellos. A step is one turn of the event loop;
`die()` runs the close handlers inside it. A peer may be dead while its read loop still delivers what
`ws` had buffered (`broken`), which is how a hello reaches a dead peer. A peer's close handlers are a
set, `"registry"` and `"board"`: a hello installs them in that order, and one that is installed twice does
nothing the second time. A kill closes the peers registered when it was asked for, one after another in
the order of their ids.

`DialsAssumption` says what reaches the server of a dial (`Honest`): the muxws entry comes first and the
application's own entries are not muxws entries; a browser sends the origin of its page and addresses a
host, and a proxy that rewrites the `Host` header names a host other than the page's and forwards the
addressed one. It also says that a page has the scheme of the address it dials. The code does not see to
that: `SameOrigin` compares host and port, reads a host without a port by the page's scheme, and knows
nothing of its own.

`Dashboard` is the page: the board's rows with their animation frame, a selection with its quote and
history, depth and export with their shared probe, and requests for another tick interval whose replies
overtake each other. Intervals are milliseconds here; the page keeps seconds. `crossed` remembers that
calls overlapped which the page does not keep apart (section 4).

## 3. Runs

All constants are in the `.cfg` files. Deadlock checking is off everywhere: a connection that has closed
stops, and bounded behaviours run out of frames.

| run | question | bounds |
|---|---|---|
| `WriterOrder` | order, turns, idleness and wake-ups under every interleaving with a codec that refuses nothing | own ids 1 and 3, 4 frames of up to 2 fragments |
| `WriterRefusal` | a codec that may refuse any slice: `open` first, `reset` last, failure reported, `SendPath`; a drain ends | own id 1 and a remote stream 2, 3 frames of up to 2 fragments |
| `ConnectionStreams` | payloads, goaway, deadlines and loss: no accusation, nothing lost or cut, every request ends | one stream each way; three setups (below) |
| `ConnectionRefusals` | fragmented opens against the limit and a closing acceptor | two streams, limit 1 |
| `ReconnectHelper` | reports, what outlives a socket, the counter, progress and the end of `close()` | acceptor, and dialer with and without a hello and with a cap of 0, 1, 2 or no cap; 2 losses, 2 failures |
| `FragmentSplits` | the splitter and the receiver | payloads of up to 4 units, two payloads against limits; 4752 streams |
| `InboundShapes` | every way of consuming behind every adapter | 3 payloads, 2 messages on the way |
| `HeartbeatClock` | detection, and the pings' books | interval 3, timeouts 2 and 3, 3 pings, 10 ticks |
| `MarketService` | handshakes, registry, kills | 2 peers, 8 servers, 2 hellos, a killer each |
| `DashboardPage` | the page's store | five setups, each with one part of the page happening often |
| `ConnectionRefusedOpen`, `ReconnectOrphan` | section 4 | as `ConnectionRefusals`; one dialer |

**Why the bounds are enough.** The writer's hazards need two lanes and a third frame to disturb them; two
fragments tell first, last, sliced and unsliced apart. Between peers, two streams against a limit of one
produce every refusal, and one stream each way every crossing of the two directions. The setups of
`ConnectionStreams` split what does not interact: `Closing` has two payloads, which tell a lost one
from a late one; `Crossing` streams in both directions; `Lossy` a socket that dies and a drain that runs
into its deadline. In the helper, three sockets make a report, a counter or a heartbeat of an earlier
socket visible on a later one. For a consumer, a third payload is the first that meets a consumer which
has already taken one while another waits. A cap of 8 bytes with an envelope of 1 leaves one to seven
bytes to a fragment, so that the reservation, the second split and both floors bite. Ten ticks are two
idle intervals with their timeouts. Two peers are what one lookup, one kill or one death can confuse.
`MaxFrames`, `MaxData`, `DialerOpens`, `AcceptorOpens`, `MaxLosses`, `MaxFailures`, `MaxPayloads`,
`MaxWire`, `MaxPings`, `MaxTime`, `MaxHellos` and the counts in `Dashboard!Setups` bound the behaviours
and appear in guards only.

`TypeOK` of `Writer`, `Consumer`, `Fragment`, `Heartbeat`, `Reconnect` and `Market` are proved (section
5). That of `Connection` documents the types; it holds on the instances of its runs, whose configurations
list only the properties a reader may doubt.

**Fairness.** `Writer!FairSpec`: the write loop runs when it can, and the send returns or throws.
`Connection!Fairness`: both read loops, each lane of the writer (which `RotationIsFair` justifies),
handlers (which return or throw), the two waits of `close()`, of which the first has a deadline in the
code, and the close of the socket. `Reconnect!FairSpec`: the read loop, the supervisor and `close()` run
when they can, a closed socket tells its read loop; sleeps, dials and hellos end, since a hello has a
deadline and a drain too, and a dial is assumed to. `Inbound`: the promise reactions of the read loop
and of the consumer run; nothing is assumed of the network, the remote or the application. `Dashboard`:
the backend answers, its histories end and the poll's timer fires; the animation frame has no fairness,
because a hidden tab has none. No fairness is assumed of an application that uses the library: it may
never send, close or reset.

## 4. Findings

Runs with `expect: violation` show where the code and a document of the repository disagree; quotations
are in `PROJECT.json`.

1. `ConnectionRefusedOpen`: an `open` in several fragments that is refused for the concurrency limit ends
   the connection with PROTOCOL_ERROR when its next fragment arrives. The limit is not announced, so a
   correct opener runs into it. The same follows a fragmented `open` that is refused for the size of its
   payload (`Fragment!JustRefusals` names this case).
2. `ReconnectOrphan`: an `open` that was received before the peer died but is dispatched afterwards makes
   a stream on the dead peer. Nothing fails it, and when the helper adopts the next socket it is dropped
   from the live map, still open.

Because of 1, `NoProtocolError` passes only where the limit is not reached.

The models also contain, without a run of their own:
- A payload the codec refuses after its stream has left the live map ends the connection with 1011
  (`Writer!FailLane`), as the comment of `failLane` says.
- A stream that the `last_stream` of a goaway covers is refused if its fragmented open completes after
  the goaway (`startHandler`). `SPEC.md` 586 to 595 can be read either way.
- Sending counts as activity, so a peer that keeps sending to a silent remote pings only when it pauses;
  `DetectedInTime` counts from the last frame in either direction.
- On the demo page, selections that overlap leave two history streams, of which the first is never
  cancelled and both fill the same list; a depth beside an export loses its probe to whichever ends
  first, and the other is reported as failed. `PageIsConsistent` excepts exactly these two cases
  (`crossed`). An animation frame scheduled before a loss clears `stale` on a disconnected page,
  although a comment (`demo/frontend/src/muxws.ts` 142) says it lasts until the next connection's first
  repaint. `onReconnected()` resets `boardOpened` after streams of the new board were counted; that
  counter is not modelled.

## 5. Proofs

For every value of the constants that satisfies the modules' assumptions, which every run of those
modules evaluates: `WriterAssumption`, `ConnectionAssumption`, `MaxPayloadsAssumption`,
`MaxWireAssumption`, `SetupsAssumption`, `HeartbeatAssumption`, `ReconnectAssumption`,
`RegistryAssumption`, `MarketAssumption`, `DialsAssumption` and `DefaultAssumption`. Two theorems have a
hypothesis more, `WithinLimit` (below).

| theorem | statement |
|---|---|
| `WriterTypeCorrect` | `Spec => []TypeOK`: the loop is sending exactly when a fragment is in hand, only live streams have ended |
| `OpenIsFirst` | `Spec => []OpenFirst` |
| `ResetEndsTheLane` | `Spec => []ResetIsLast` |
| `FramesStayInOrder` | `Spec => []WireInOrder` |
| `EveryLaneHasItsTurn` | `Spec => []RotationIsFair` |
| `AllWorkIsRemembered` | `Spec => []NoWorkForgotten` |
| `FailureReachesTheRemote` | `Spec => FailureIsReported` |
| `WriterImplementsSendPath` | `Spec => ImplementsSendPath` |
| `RefusalIsSafeToRetry` | `Spec => []RefusedNeverRan` |
| `PeersAgree` | `Spec => []Agreement` |
| `NothingIsLost` | `Spec => []DeliveredAll` |
| `NoStreamIsAccused` | `Spec =>` no stream ever ends as a protocol error: the half of `NoProtocolError` about streams |
| `NobodyIsAccused` | `WithinLimit` implies `Spec => []NoProtocolError` |
| `CloseIsGraceful` | `WithinLimit` implies `Spec => []Graceful` |
| `ConsumerTypeCorrect` | `Spec => []TypeOK` |
| `ConsumerIsTold` | `Spec => [](NobodyWaits /\ FailureIsTold)` |
| `ResetFits` | `Spec => []OneFittingReset` |
| `AnswerStays` | `Spec => AnswerIsFinal` |
| `InboundImplements` | `InboundSpec => ImplementsConsumer` |
| `InboundIsTold`, `InboundResetFits`, `InboundAnswerStays` | the same promises for the composition |
| `PayloadsInOrder` | `InboundSpec => []DeliveredInOrder` |
| `FragmentTypeCorrect` | `Spec => []TypeOK` |
| `FragmentsAreLegal` | `Spec => []FragmentsFit` |
| `ReceiverIsExact` | `Spec => []ReceiverIsFair` |
| `HeartbeatTypeCorrect` | `Spec => []TypeOK` |
| `DetectionIsTimely` | `Spec => []DetectedInTime` |
| `PingsAreAccounted` | `Spec => []PingsAccounted` |
| `PongIsOwn` | `Spec => OwnPong` |
| `ReconnectTypeCorrect` | `Spec => []TypeOK`: attempts never pass the cap |
| `LossesAreReportedOnce` | `Spec => []OncePerLoss` |
| `NothingOutlivesItsSocket` | `Spec => []NothingOutlives` |
| `FinalReportIsFinal` | `Spec => FinalIsFinal` |
| `OneReadLoop` | `Spec => ReadLoopGone` |
| `ClosesAreNoMissedPongs` | `Spec => CloseIsNoMissedPong` |
| `BackoffStartsOver` | `Spec => ResetOnlyWhenEstablished` |
| `TypeCorrect` (`MarketProofs`) | `Spec => []TypeOK`: no tag has an empty bucket |
| `LookupsAreExact` | `Spec => []LookupIsExact` |
| `TheDeadAreGone` | `Spec => []DeadIsGone` |
| `KillsAreExact` | `Spec => []KillIsExact` |
| `HandshakesAreSound` | `Spec => []HandshakeSound` |
| `ThePageIsConsistent` | `Spec => []PageIsConsistent` |
| `NoTickIsLost` | `Spec => []TicksAreShownOrCounted` |

**Writer.** `OpenFirst` speaks of `wire` and is not inductive: it depends on what is still queued. The
invariant `OpenInv` adds `LaneInv` for each local stream. `Fresh`: an id not yet allocated has no work,
no stream and no history. `OpenWaits`: until something of the stream has left, nothing of it is sliced,
the head of its waiting frames, if any, is its open, and a live stream has not lost it. `HandedOver`: the
fragment in the loop's hand counts as handed over, which matters when the adapter throws and a reset is
enqueued. One step per action, on lemmas about the queue operators (`Prepare`, `NextSlice`, `Drop`, the
rotation), about `die`, `failLane` and retirement, and `LaneKept` for steps that leave a lane alone.

**Writer, order.** The other promises follow from what a step may do to one lane. `LaneMove` lists it:
nothing, empty the lane, discard all but an unsent open, gain a frame, replace what waits by a reset, fail
the lane, emit the fragment in hand, or prepare the next one. Each action is shown once to be such a move
on every lane; after that few proofs look at the actions again. `Row` reads wire, prepared fragment, the payload
being cut and the waiting frames as one row: neighbours go on from each other or are cut short by a reset,
a reset is the last, an open stands only at the head. It needs `BaseInv`, which adds to `OpenInv` that ids
the remote has not used and the lanes of a dead peer are empty. `ResetIsLast` and the order within a lane
are about that row (`OrderlyInv`). Turns, ids and sleep are about the rotation, whose moves `OrderMove`
describes in the same way: some lanes leave, others join at the end, and the lane just served goes behind.
`SendInv` adds to `OrderlyInv` that the rotation names a lane at most once and every lane with work
(`InRotation`), that unsent opens stand in it by id (`OpensInv`), that a lane which was overtaken once is
ahead of the one that did it (`TurnInv`), and what the gates say (`WaitInv`). For the refinement a step is, seen by
`SendPath`, either a death, which clears all lanes, or a lawful step of a single one (`Lawful`: it loses
without sending only what it may lose); `LaneOf` turns each move into the abstract one.

**Connection, refusals.** Who sees REFUSED has read a reset or a goaway that crossed any number of frames, so the
invariant `RefusalInv` speaks of every frame on its way. `Never`: a peer has not run the handler of a
stream and never will, because it has passed the id or has promised its last one. `Fits`: what a frame,
queued or written and not yet read, will mean when it is read; a refusal, and a goaway for the ids above
its own, mean `Never`. `Fresh`: a stream not yet opened, or whose opening is not complete, has no handler.
`Never` is stable under what a step may do to a peer (`PeerMove`) and to a stream (`StreamMove`), so each
action has to show only these and the fit of the frame it adds. Nothing is assumed of the limit, the
number of streams or the setups.

**Connection, the two ends of a stream.** The other four properties compare two peers between which
frames are on their way, so their invariant `LinkInv` reads what one peer has written and what still waits
on a lane as one `Row`. `Tidy` says which rows there are: the fragments of an `open` first and in order,
nothing but a reset after the end of a side, nothing at all after a reset. Then, for each stream and each
direction: `Stage` (which states of the `Stream` object go together), `Lines` (what a row implies about
its writer), `Opening` (the `open` is read in its turn, and its last fragment or a reset is still to come
while it is incomplete), `Ends` (a side that has ended has its end in the row or heard by the other),
`Counts` (payloads got and payloads in the row are the payloads sent) and `Closes` (a stream that is cut
while the other end still hears it has a reset in the row, unless its opener was told by a goaway that it
is refused before it was open at the other end).
For each peer: `Numbers` (ids and high-water marks), `InTurn` (`open` frames leave by id, which `Writer`
proves of itself as `WireInOrder`), `Leaving` (the goaway and what `close()` has waited for) and `Deaths`.
`Agreement` is `Ends` and `Closes` of an empty row, `DeliveredAll` is `Counts` of a heard end. A step
changes a row in one of few ways (nothing, one frame more, an item discarded, all but the unsent `open`
discarded, a fragment written, a fragment read), each with its own lemmas; the actions are shown to be
one of them.

`WithinLimit` is `MaxFrags = 1`, or a limit that neither peer's number of streams passes. Without it a
fragmented `open` that is refused for the limit makes the next fragment of the same `open` look like a
protocol error, and the connection that fails then cuts every other stream: finding 1, and the run
`ConnectionRefusedOpen`. The first attempt to prove `NoProtocolError` failed in exactly this case. The
clauses of `LinkInv` that need the hypothesis carry it, so that `PeersAgree`, `NothingIsLost` and
`NoStreamIsAccused` hold without it.

**Consumer.** What a waiting consumer is told depends on who may have claimed the stream, on what the
queue holds and on why the stream closed. `ConsumerInv` has a part for each: `ClaimFits` (which consumer
stands where under which claim), `AnswerFits` (a requested answer is settled once the stream is over),
`QueueFits` (an iterator's queue holds its end or its failure once nothing more can come, and a failure
only if there was one), `CloseFits` (the reset that left is the cause of the close), `ReportFits` (the
hook was told exactly of what no consumer had claimed) and `OutcomeFits`. The four theorems follow from
it without looking at the actions again, `AnswerStays` from each action's effect on the answer.

**Inbound.** A step of the adapter or of the remote leaves the stream alone; a step of the read loop is
a step of `Consumer`'s remote if the message in the read loop's hand has the shape the action needs. The
invariant `LineInv` says this of the wire, the inbox and the hand, on top of what the adapter keeps of
them. The promises of `Consumer` then hold of the composition through the refinement.

**Delivery.** `DeliveredInOrder` speaks of two halves of a payload's way and neither half is inductive
alone. `OrderFits` follows the half inside the stream: what was taken, what the iterator's queue holds and
what has arrived make one row of numbers, and an end or a failure in the queue stands behind the last
payload. `RowFits` follows the half before it: what is in the read loop's hand, the inbox and the wire
carries the payloads after `arrived`, rising and without a gap, up to `sent` unless the socket was cut.
A close takes part of that row away, so two more parts say where it may stand: `EndFits` (behind every
message of the wire, and behind an inbox that nothing can join any more) and `LossFits` (a socket that is
closing or was cut has left the peer, or its read loop is about to hear of it). The rest are lemmas about
rows: appended to, cut short, or read from the head. All four parts held on the instance of
`InboundShapes` before they were proved.

**Fragment.** `FragmentsFit` and `ReceiverIsFair` speak of frames that are already cut and of parts that
are already received, and each needs the generator's place in between. `FragInv` has three parts.
`OnTheWire`: every frame is `Sound` (under the cap, cut where the codec may cut, and, unless it is the
last, `Filled`, without room for one unit more), and the frames are a chain, each going on where the one
before it ended and the last where the generator stands. `Receiving`: the receiver holds whole payloads
and the beginning of one, and the head of the chain goes on exactly there. `Blaming`: a reset or a failure
has a cap below what is sent as its reason. The bytes of a received payload are then those of a chain
without gaps.

That a frame is `Filled` rests on `LargestFittingCount`. The size of a slice rises with its width, so
over all byte limits "fits" turns from true to false once, and the bisection must end at the last true
one. Its recursion is a function on a record of `low`, `high` and `best`. `Found` is its closed form, the
largest limit between `low` and `high` that fits: a function with this value satisfies the recursion
(`FoundUp`, `FoundDown`), and two functions that satisfy it agree, since a search of least width on which
they differ does not exist. `RefusesOnlyHopeless` is the statement that cutting greedily is optimal. The
generator gives up where not one unit more fits in a middle fragment, or where the closing one does not fit
even when empty. Suppose there is a way to cut the payload, and look at the piece of it in which the
generator stands (`GreedyGoesOn`): what is left of that piece fits, because the piece fits whole, so either
the rest fits as the closing fragment or one unit fits as a middle one, and the generator goes on.

**Heartbeat.** `HeartInv` joins the types with four parts. `Books`: both maps of pings hold exactly the
calls that wait, none of them past its deadline. `OneFrame`: a ping is in at most one place on its way
(write queue, wire, the remote's answer). `Own`: the heartbeat waits on a ping of its own. `Timely`: only
a ping that still waits can set the last activity apart from the last frame, and the next wake-up, or the
deadline of the heartbeat's ping, is bounded by that frame. `DetectedInTime` is the conclusion of
`Timely`, and is not inductive without the bound on the wake-up.

**Reconnect.** `ReconnectInv` says which combinations of the helper, the read loop, the heartbeats,
`close()` and the reports can meet: `StopFits`, `HelloFits`, `SocketFits`, `RetryFits`, `HeartFits`,
`CloseFits`, `ReportFits`. The core is `RetryFits`: a report that is final leaves a dead peer that will
not retry, and a helper between two sockets will retry unless it was stopped. Each action is shown to
keep the parts on lemmas about `die`, the adoption of a socket and the stop of a heartbeat. The invariant
held on the instance of `ReconnectHelper` before it was proved.

**Market.** `Faithful` says that the registry's index and its reverse map are two views of one relation
and that no bucket is empty; both operations keep it. `MarketInv` joins it with `Settled` (only an open
connection has anything of the service, and until it is closed its close handlers cover all it has, which
is why a hello that comes after the death must not register), `Indexed` (a registered peer is indexed by
its present tags), `Chased` (a peer that was asked to be killed is dead or still in its killer's list) and
`Agreed` (a handshake that is not over stands where its dial puts it). A handshake is a function of the
dial and the server, so `HandshakeSound` is that plus two lemmas: both ends reach the same end, and
`SameOrigin` admits the pages it should, both from `Honest`. The attempt to prove `TypeOK` showed that its
clause on the buckets had been parsed as `SUBSET (Peers \ {{}})`, which allows an empty one; it now says
what was meant, and holds.

**Dashboard.** `PageInv` says what the page's flags know of the calls under way: `CallsFit` and `Linked`
(a disconnected page has none), `Drawn` (the last tick is in a row or waits for a scheduled frame),
`Selection` and `Payloads` (while nothing overlapped there is one quote or one history, of the selected
symbol, at most one export, and one payload for the probe). Beside it stands `Counted`, the account of
the ticks: those received are those painted, those coalesced and the symbols with one pending. The ticks
received are a set of pairs, so that the account is about cardinalities, to which one tick adds one, and no
sum over the symbols has to be unfolded.

**Induction.** The library's induction theorems take a predicate as a parameter and cannot be applied
here. Where a number is counted (ticks, payloads of a row, quoted bytes) the definitions use the
cardinality of a set, about which the library has facts without a parameter. The one recursive function
that is proved about, the bisection, has a closed form and a least counterexample (`LeastExists`, from
`WFMin`) in place of an induction.

**Only model-checked:** liveness (`DrainReturns`, `Answered`, `NeverStuckBetweenSockets`, `CloseEnds`,
`LossReachesTheConsumer`, `IntervalConverges`), because the prover has no support for fairness and
ENABLED. Every invariant and every action property that a run checks is proved.

## 6. Not modelled

- Bytes, codecs and frames as values (`frames.ts`, `codec.ts`, `msgpack.ts`): conversions without state.
  What others need of them is a slice that may be refused and the width of an escaped byte.
- Headers and trailers beyond their sizes, interceptors, observers, logging, errors' texts.
- Undecodable messages and frames of peers that break the protocol: the paths to `failConnection` that
  no muxws peer takes.
- The close that the last id of the id space starts. It is an ordinary `close()`, which `Connection`
  allows at any time.
- Backoff delays and jitter; URL parsing, Unix sockets and options of `ws`; sending through an adapter.
- The demo's random walk and statistics, and the page's diagnostics.
- The Python implementation. It has the same structure and wire protocol, but its tasks are cancelled
  where the TypeScript code reads flags, so nothing here may be carried over unseen.
- Interop runners, conformance vectors, the documentation checker and packaging scripts.

## 7. Plan

Done: `Writer` with `SendPath`; `Connection`; `Reconnect`; `Consumer`, `Adapter` and `Inbound`;
`Fragment`; `Heartbeat`; `Registry`, `Handshake` and `Market`; `Dashboard`; the proofs of section 5, which
cover all their safety properties.

Left:
1. The exhaustion of ids in `Connection`: the last id starts a close in the background, while streams are
   live and the application may call `close()` as well.
2. Data in fragments between two peers, which is `Fragment` on each lane of `Connection`. Its proofs could
   use the chain of frames (`OnTheWire`) beside the row of a lane (`Tidy`).
3. That `Connection` uses its lanes as `SendPath` allows is now by construction (`Lane`, `MaySend`); a
   refinement that a run checks would say it of `Connection` itself.

## 8. Running

    tlc -config WriterOrder.cfg MCWriter
    tlc -config InboundShapes.cfg Inbound
    tlapm WriterProofs.tla
    tlapm ConnectionProofs.tla
    tlapm FragmentProofs.tla
    tlapm InboundProofs.tla
    tlapm MarketProofs.tla
    tlapm ReconnectProofs.tla
