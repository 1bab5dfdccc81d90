----------------------------- MODULE Dashboard ------------------------------
(***************************************************************************)
(* The store of the demo page (demo/frontend/src/muxws.ts): one peer that  *)
(* reconnects, the board the backend pushes, and what the reader asks for: *)
(* a quote and a history per selection, a large payload, another tick      *)
(* interval; beside them the polls of a timer.                             *)
(*                                                                         *)
(* A step is a task of the page's event loop with the promise reactions it *)
(* causes: a connection that is lost fails every stream and every request, *)
(* and their catch blocks run, before another task does.  Replies may      *)
(* overtake each other, as the writer's rotation lets them.                *)
(***************************************************************************)
EXTENDS Integers, FiniteSets

CONSTANTS
    Symbols,
    Intervals,      \* tick intervals the reader may ask for
    Default,        \* the interval of a backend that has just started
    Setups          \* bounds: how often each thing may happen, and whether
                    \* the timer of the polls fires while it does

ASSUME DefaultAssumption == Default \in Intervals

VARIABLES
    left,           \* what may still happen, from one of Setups
    (* The library and the backend. *)
    link,           \* "hello" until it is acknowledged, "up", "draining" from the
                    \* backend's goaway on, "down", or "gone"
    interval,       \* the backend's tick interval
    calls,          \* requests and pings in flight: [id, kind, phase, value]
    histories,      \* history streams whose loop runs: [id, symbol]
    nextId,
    (* The store. *)
    connection,
    board,          \* symbols whose onPushedStream() loop runs: boardLive
    stale,
    pending,        \* symbol -> newest row not rendered, or 0
    rows,           \* symbol -> row rendered, or 0
    coalesced,
    flushScheduled,
    selected,
    historyStream,  \* id, or None
    historyState,
    points,         \* the symbols of which store.history holds points
    exportState,
    probe,          \* id of the stream it counts, or None
    rtt,            \* rttMs is shown
    tickInterval,
    (* For the properties. *)
    ticks,          \* symbol -> rows received
    painted,        \* rows rendered
    crossed         \* calls overlapped: {} or some of {"select", "fragmented"}

backend == <<link, interval>>
boardVars == <<board, stale, pending, rows, coalesced, flushScheduled, ticks, painted>>
historyVars == <<histories, selected, historyStream, historyState, points>>
payloadVars == <<exportState, probe>>
vars == <<left, backend, calls, nextId, connection, boardVars, historyVars, payloadVars,
          rtt, tickInterval, crossed>>

None == 0
NoSymbol == "none"

Init ==
    /\ left \in Setups
    /\ link = "hello" /\ interval = Default
    /\ calls = {} /\ nextId = 1
    /\ connection = "connecting"
    /\ board = {} /\ stale = FALSE
    /\ pending = [s \in Symbols |-> 0] /\ rows = [s \in Symbols |-> 0]
    /\ coalesced = 0 /\ flushScheduled = FALSE
    /\ ticks = [s \in Symbols |-> 0] /\ painted = 0
    /\ histories = {} /\ selected = NoSymbol
    /\ historyStream = None /\ historyState = "idle" /\ points = {}
    /\ exportState = "idle" /\ probe = None
    /\ rtt = FALSE /\ tickInterval = Default
    /\ crossed = {}

Spend(what) == left[what] > 0 /\ left' = [left EXCEPT ![what] = @ - 1]

Call(kind, value) == [id |-> nextId, kind |-> kind, phase |-> "sent", value |-> value]
InFlight(kind) == {c \in calls : c.kind = kind}
Fragmented == InFlight("export") \cup InFlight("depth")
Connected == link \in {"up", "draining"}
HasPeer == nextId > 1   \* connect() has resolved

----------------------------------------------------------------------------
(* The connection.                                                         *)

\* start() after connect(), or onReconnected(): both ask for the stats.
Established ==
    /\ link = "hello"
    /\ link' = "up" /\ connection' = "live"
    /\ calls' = calls \cup {Call("stats", Default)} /\ nextId' = nextId + 1
    /\ UNCHANGED <<left, interval, boardVars, historyVars, payloadVars, rtt, tickInterval, crossed>>

\* Rates that had reached the backend are applied, or it has started afresh.
BackendAfterLoss == {interval, Default} \cup {c.value : c \in {c \in InFlight("rate") : c.phase = "sent"}}

\* Every loop and every request in flight fails.  A select() that waited for
\* its quote goes on to open its history, and cannot.
Fails ==
    /\ calls' = {} /\ histories' = {} /\ board' = {}
    /\ historyStream' = None
    /\ historyState' = IF histories # {} \/ InFlight("quote") # {} THEN "lost" ELSE historyState
    /\ probe' = None
    /\ exportState' = IF InFlight("export") # {} THEN "failed" ELSE exportState

\* The first connection is not retried, and onConnectionClose() is not called.
ConnectFails ==
    /\ link = "hello" /\ connection = "connecting"
    /\ Fails
    /\ link' = "gone" /\ connection' = "failed"
    /\ UNCHANGED <<left, interval, nextId, stale, pending, rows, coalesced, flushScheduled, ticks,
                   painted, selected, points, rtt, tickInterval, crossed>>

\* die(), onConnectionClose(), and the reactions of what failed.
Lose ==
    /\ link \in {"hello", "up", "draining"} /\ connection # "connecting"
    /\ Spend("losses")
    /\ Fails
    /\ \E willRetry \in BOOLEAN :
          /\ link' = IF willRetry THEN "down" ELSE "gone"
          /\ connection' = IF willRetry THEN "reconnecting" ELSE "failed"
    /\ interval' \in BackendAfterLoss
    /\ stale' = TRUE /\ rtt' = FALSE
    /\ UNCHANGED <<nextId, pending, rows, coalesced, flushScheduled, ticks, painted,
                   selected, points, tickInterval, crossed>>

\* The backend closes: no stream can be opened, the open ones go on.
GoawayArrives ==
    /\ link = "up"
    /\ link' = "draining"
    /\ UNCHANGED <<left, interval, calls, nextId, connection, boardVars, historyVars, payloadVars,
                   rtt, tickInterval, crossed>>

Redial ==
    /\ link = "down"
    /\ link' = "hello"
    /\ UNCHANGED <<left, interval, calls, nextId, connection, boardVars, historyVars, payloadVars,
                   rtt, tickInterval, crossed>>

----------------------------------------------------------------------------
(* The board.  The backend opens it before it acknowledges the hello.      *)

OnPushedStream(s) ==
    /\ link \in {"hello", "up"} /\ s \notin board
    /\ board' = board \cup {s}
    /\ UNCHANGED <<left, backend, calls, nextId, connection, stale, pending, rows, coalesced,
                   flushScheduled, ticks, painted, historyVars, payloadVars, rtt, tickInterval, crossed>>

\* The backend cancels a board stream before it closes the connection.
BoardStreamReset(s) ==
    /\ s \in board
    /\ board' = board \ {s}
    /\ UNCHANGED <<left, backend, calls, nextId, connection, stale, pending, rows, coalesced,
                   flushScheduled, ticks, painted, historyVars, payloadVars, rtt, tickInterval, crossed>>

ScheduleFlush == flushScheduled' = TRUE

ApplyTick(s) ==
    /\ s \in board
    /\ Spend("ticks")
    /\ ticks' = [ticks EXCEPT ![s] = @ + 1]
    /\ coalesced' = IF pending[s] # 0 THEN coalesced + 1 ELSE coalesced
    /\ pending' = [pending EXCEPT ![s] = ticks[s] + 1]
    /\ ScheduleFlush
    /\ UNCHANGED <<backend, calls, nextId, connection, board, stale, rows, painted, historyVars,
                   payloadVars, rtt, tickInterval, crossed>>

\* Fault: a row that is there already is not rendered again.
RenderedOnce(s) == IF rows[s] = 0 THEN pending[s] ELSE rows[s]

Rendered(s) == IF pending[s] = 0 THEN rows[s] ELSE pending[s]

\* The symbols the next frame renders: the keys of `pending`.
Undrawn == {s \in Symbols : pending[s] # 0}

\* The animation frame.  A hidden tab has none: there is no fairness for it.
Flush ==
    /\ flushScheduled
    /\ flushScheduled' = FALSE
    /\ rows' = [s \in Symbols |-> Rendered(s)]
    /\ pending' = [s \in Symbols |-> 0]
    /\ painted' = painted + Cardinality(Undrawn)
    /\ stale' = (stale /\ Undrawn = {})
    /\ UNCHANGED <<left, backend, calls, nextId, connection, board, coalesced, ticks,
                   historyVars, payloadVars, rtt, tickInterval, crossed>>

----------------------------------------------------------------------------
(* The selection.                                                          *)

\* Fault: the history that is open goes on beside the next one.
CancelsNothing(id) == histories

Cancels(id) == {h \in histories : h.id # id}

\* select() up to its await: the open history is cancelled, and its loop
\* ends before or after the store is reset; the stats and the quote are asked
\* for.  Where no stream can be opened both fail, and so does the history.
Select(s) ==
    /\ Spend("selects")
    /\ historyStream' = None
    /\ histories' = Cancels(historyStream)
    /\ selected' = s /\ points' = {}
    /\ nextId' = IF HasPeer THEN nextId + 1 ELSE nextId
    /\ \/ /\ link = "up"
          /\ calls' = calls \cup {Call("quote", s)}
                           \cup {[Call("stats", Default) EXCEPT !.id = -nextId] : h \in histories \ histories'}
          /\ historyState' \in {"idle"} \cup {"cancelled" : h \in histories \ histories'}
       \/ /\ link # "up"
          /\ historyState' = IF HasPeer THEN "lost" ELSE "idle"
          /\ UNCHANGED calls
    /\ crossed' = IF InFlight("quote") # {} THEN crossed \cup {"select"}
                  ELSE IF histories' = {} THEN crossed \ {"select"} ELSE crossed
    /\ UNCHANGED <<backend, connection, boardVars, payloadVars, rtt, tickInterval>>

\* The quote has come, and streamHistory() opens a stream under the same id.
StreamHistory(call) ==
    /\ call \in InFlight("quote")
    /\ calls' = calls \ {call}
    /\ \/ /\ link = "up"
          /\ histories' = histories \cup {[id |-> call.id, symbol |-> call.value]}
          /\ historyStream' = call.id /\ historyState' = "loading"
       \/ /\ link = "draining"
          /\ historyState' = "lost"
          /\ UNCHANGED <<histories, historyStream>>
    /\ UNCHANGED <<left, backend, nextId, connection, boardVars, selected, points, payloadVars,
                   rtt, tickInterval, crossed>>

HistoryPoint(h) ==
    /\ h \in histories
    /\ points' = points \cup {h.symbol}
    /\ UNCHANGED <<left, backend, calls, nextId, connection, boardVars, histories, selected,
                   historyStream, historyState, payloadVars, rtt, tickInterval, crossed>>

HistoryEnds(h) ==
    /\ h \in histories
    /\ histories' = histories \ {h}
    /\ historyState' \in {"done", "lost"}
    /\ historyStream' = IF historyStream = h.id THEN None ELSE historyStream
    /\ UNCHANGED <<left, backend, calls, nextId, connection, boardVars, selected, points,
                   payloadVars, rtt, tickInterval, crossed>>

----------------------------------------------------------------------------
(* Large payloads: one probe for both kinds.                               *)

\* fragmented() up to its await.
Fragments(kind) ==
    /\ nextId' = nextId + 1
    /\ calls' = calls \cup {Call(kind, None)}
    /\ probe' = nextId
    /\ crossed' = IF Fragmented # {} THEN crossed \cup {"fragmented"} ELSE crossed \ {"fragmented"}

\* runExport(), whose button is busy while it runs.
RunExport ==
    /\ link = "up" /\ exportState # "running"
    /\ selected # NoSymbol \/ \E s \in Symbols : rows[s] # 0
    /\ Spend("payloads")
    /\ exportState' = "running"
    /\ Fragments("export")
    /\ UNCHANGED <<backend, connection, boardVars, historyVars, rtt, tickInterval>>

\* open() throws.
ExportFails ==
    /\ link # "up" /\ HasPeer /\ exportState \notin {"running", "failed"}
    /\ exportState' = "failed"
    /\ UNCHANGED <<left, backend, calls, nextId, connection, boardVars, historyVars, probe,
                   rtt, tickInterval, crossed>>

LoadDepth ==
    /\ link = "up" /\ connection = "live" /\ selected # NoSymbol
    /\ Spend("payloads")
    /\ Fragments("depth")
    /\ UNCHANGED <<backend, connection, boardVars, historyVars, exportState, rtt, tickInterval>>

ProbeEnds == probe' = None

\* The payload has come.  Without a probe the report cannot be made: the
\* other call has cleared it, and this one raises.
PayloadArrives(call) ==
    /\ call \in Fragmented
    /\ calls' = calls \ {call}
    /\ exportState' = IF call.kind = "depth" THEN exportState
                      ELSE IF probe = None THEN "failed" ELSE "done"
    /\ ProbeEnds
    /\ UNCHANGED <<left, backend, nextId, connection, boardVars, historyVars, rtt, tickInterval, crossed>>

----------------------------------------------------------------------------
(* The tick interval, and the polls.                                       *)

SetTickInterval ==
    /\ link = "up"
    /\ Spend("rates")
    /\ \E v \in Intervals : calls' = calls \cup {Call("rate", v)}
    /\ nextId' = nextId + 1
    /\ UNCHANGED <<backend, connection, boardVars, historyVars, payloadVars, rtt, tickInterval, crossed>>

\* sampleDiagnostics(): refreshStats() and samplePing().  Bound: one of each.
\* The id is the smallest that is free, so that the polls have no end.
Poll ==
    /\ left.polls /\ link = "up" /\ InFlight("stats") = {} /\ InFlight("ping") = {}
    /\ calls' = calls \cup {[Call("stats", Default) EXCEPT !.id = None], [Call("ping", None) EXCEPT !.id = None]}
    /\ UNCHANGED <<left, backend, nextId, connection, boardVars, historyVars, payloadVars, rtt,
                   tickInterval, crossed>>

\* The backend's rate() and stats().
BackendAnswers(call) ==
    /\ call \in calls /\ call.phase = "sent" /\ call.kind \in {"rate", "stats"}
    /\ interval' = IF call.kind = "rate" THEN call.value ELSE interval
    /\ calls' = (calls \ {call}) \cup
                {[call EXCEPT !.phase = "answered", !.value = IF call.kind = "rate" THEN @ ELSE interval]}
    /\ UNCHANGED <<left, link, nextId, connection, boardVars, historyVars, payloadVars, rtt,
                   tickInterval, crossed>>

\* Fault: only the reader's own requests set the interval that is shown.
ShownOfRate(call) == IF call.kind = "rate" THEN call.value ELSE tickInterval

Shown(call) == call.value

AnswerArrives(call) ==
    /\ call \in calls /\ call.phase = "answered"
    /\ calls' = calls \ {call}
    /\ tickInterval' = Shown(call)
    /\ UNCHANGED <<left, backend, nextId, connection, boardVars, historyVars, payloadVars, rtt, crossed>>

PongArrives(call) ==
    /\ call \in InFlight("ping")
    /\ calls' = calls \ {call}
    /\ rtt' = TRUE
    /\ UNCHANGED <<left, backend, nextId, connection, boardVars, historyVars, payloadVars,
                   tickInterval, crossed>>

----------------------------------------------------------------------------
Replies == \E call \in calls : \/ StreamHistory(call) \/ PayloadArrives(call)
                               \/ BackendAnswers(call) \/ AnswerArrives(call) \/ PongArrives(call)

Streams == \E h \in histories : HistoryEnds(h)

Next ==
    \/ Established \/ ConnectFails \/ GoawayArrives \/ Lose \/ Redial \/ Flush
    \/ \E s \in Symbols : OnPushedStream(s) \/ BoardStreamReset(s) \/ ApplyTick(s) \/ Select(s)
    \/ RunExport \/ ExportFails \/ LoadDepth \/ SetTickInterval \/ Poll
    \/ \E h \in histories : HistoryPoint(h)
    \/ Streams \/ Replies

\* The backend answers, its histories end, and the timer of the polls fires.
Fairness ==
    /\ WF_vars(Replies) /\ WF_vars(Streams)
    /\ WF_vars(Poll)

Spec == Init /\ [][Next]_vars /\ Fairness

----------------------------------------------------------------------------
(* Properties.                                                             *)

(* What was received last of a symbol is rendered, or pending with an       *)
(* animation frame scheduled for it (applyTick(), scheduleFlush()).        *)
LastTickIsShown ==
    /\ \A s \in Symbols : ticks[s] = IF pending[s] # 0 THEN pending[s] ELSE rows[s]
    /\ Undrawn # {} => flushScheduled

\* Every tick there was, by its symbol and its number.
Received == UNION {{s} \X (1 .. ticks[s]) : s \in Symbols}

(* No tick is lost between the socket and the screen: the last is shown,   *)
(* and every one is rendered, pending or counted as coalesced, across the  *)
(* losses of the connection (applyTick(), scheduleFlush()).                *)
TicksAreShownOrCounted ==
    /\ LastTickIsShown
    /\ coalesced + painted + Cardinality(Undrawn) = Cardinality(Received)

(* What the page shows as under way is under way, also when calls overlap  *)
(* or the connection is lost in the middle: a history that loads has its   *)
(* loop, the stream kept for cancelling is one that runs, an export that   *)
(* runs waits for its payload, the probe counts a payload that is awaited, *)
(* and a round trip time is of this connection.                            *)
NothingLingers ==
    /\ historyState = "loading" => histories # {}
    /\ historyStream # None => historyStream \in {h.id : h \in histories}
    /\ (exportState = "running") = (InFlight("export") # {})
    /\ probe # None => probe \in {c.id : c \in Fragmented}
    /\ rtt => Connected

(* One request at a time gets what it asked for: the points that are shown *)
(* are of the selected symbol, whose history the next selection cancels,   *)
(* and a payload that arrives is reported.  Selections that overlap, and a *)
(* depth beside an export, lose this (see README.md): the condition says   *)
(* exactly that.  (select(), fragmented())                                 *)
OneAtATime ==
    /\ "select" \notin crossed =>
          /\ points \subseteq {selected}
          /\ \A h \in histories : h.id = historyStream
    /\ "fragmented" \notin crossed => \A c \in Fragmented : probe = c.id

(* A connection that stays up shows the backend's tick interval in the     *)
(* end: after requests for a rate whose replies were lost or overtaken by  *)
(* older ones, and after a backend that started afresh (setTickInterval(), *)
(* refreshStats()).                                                        *)
IntervalConverges == <>[](link = "up") => <>[](tickInterval = interval)

(* The page tells the truth about its requests, and each gets its own.     *)
PageIsConsistent == NothingLingers /\ OneAtATime
=============================================================================
