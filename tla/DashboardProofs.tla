--------------------------- MODULE DashboardProofs ---------------------------
(***************************************************************************)
(* Theorems about the page's store, for every set of symbols and intervals *)
(* and every setup.                                                        *)
(*                                                                         *)
(* The page's variables fall into parts that few actions touch: what is    *)
(* open (Linked), the board (Drawn), the selection (Selection) and the     *)
(* large payloads (Payloads).  PageInv is their conjunction; beside it     *)
(* stands the account of the ticks (Counted), which two actions move.      *)
(***************************************************************************)
EXTENDS Dashboard, FiniteSetTheorems, TLAPS

Waiting == {"stats", "rate"}

CallsFit ==
    \A c \in calls : /\ c = [id |-> c.id, kind |-> c.kind, phase |-> c.phase, value |-> c.value]
                     /\ c.phase = "answered" => c.kind \in Waiting

Linked == /\ rtt => Connected
          /\ ~Connected => calls = {}

Drawn ==
    /\ ticks \in [Symbols -> Nat] /\ pending \in [Symbols -> Nat] /\ rows \in [Symbols -> Nat]
    /\ LastTickIsShown

(* Without an overlap there is one quote awaited or one history open, and  *)
(* it is of the selected symbol.                                           *)
Selection ==
    /\ historyState = "loading" => histories # {}
    /\ historyStream # None => historyStream \in {h.id : h \in histories}
    /\ \A h \in histories : h = [id |-> h.id, symbol |-> h.symbol]
    /\ "select" \notin crossed =>
          /\ points \subseteq {selected}
          /\ \A h \in histories : h.id = historyStream /\ h.symbol = selected
          /\ \A c \in InFlight("quote") : c.value = selected /\ histories = {}
          /\ \A c, d \in InFlight("quote") : c = d

(* One export at most is awaited, and without an overlap one payload.      *)
Payloads ==
    /\ (exportState = "running") = (InFlight("export") # {})
    /\ \A c, d \in InFlight("export") : c = d
    /\ probe # None => probe \in {c.id : c \in Fragmented}
    /\ "fragmented" \notin crossed => /\ \A c \in Fragmented : probe = c.id
                                      /\ \A c, d \in Fragmented : c = d

PageInv == CallsFit /\ Linked /\ Drawn /\ Selection /\ Payloads

LEMMA PageInit == Init => PageInv
<1> SUFFICES ASSUME Init PROVE PageInv OBVIOUS
<1>1. CallsFit /\ Linked BY DEF Init, CallsFit, Linked
<1>2. Drawn BY DEF Init, Drawn, LastTickIsShown, Undrawn
<1>3. Selection BY DEF Init, Selection, InFlight
<1>4. Payloads BY DEF Init, Payloads, InFlight, Fragmented
<1> QED BY <1>1, <1>2, <1>3, <1>4 DEF PageInv

-----------------------------------------------------------------------------
(* What leaves a part alone.                                               *)

LEMMA CallFacts ==
  ASSUME NEW kind, NEW value
  PROVE  LET c == Call(kind, value)
         IN  /\ c = [id |-> c.id, kind |-> c.kind, phase |-> c.phase, value |-> c.value]
             /\ c.id = nextId /\ c.kind = kind /\ c.phase = "sent" /\ c.value = value
BY DEF Call

LEMMA DrawnKeeps ==
  ASSUME Drawn, UNCHANGED <<pending, rows, flushScheduled, ticks>>
  PROVE  Drawn'
BY DEF Drawn, LastTickIsShown, Undrawn

LEMMA SelectionKeeps ==
  ASSUME Selection, UNCHANGED <<histories, selected, historyStream, historyState, points>>,
         InFlight("quote")' = InFlight("quote"), "select" \in crossed' <=> "select" \in crossed
  PROVE  Selection'
BY DEF Selection

LEMMA PayloadsKeep ==
  ASSUME Payloads, UNCHANGED <<exportState, probe>>,
         InFlight("export")' = InFlight("export"), InFlight("depth")' = InFlight("depth"),
         "fragmented" \in crossed' <=> "fragmented" \in crossed
  PROVE  Payloads'
<1>1. Fragmented' = Fragmented BY DEF Fragmented
<1> QED BY <1>1 DEF Payloads

(* Some calls of other kinds go and come.                                  *)
LEMMA InFlightKeeps ==
  ASSUME NEW kind, NEW gone, NEW new, calls' = (calls \ gone) \cup new,
         \A c \in gone \cup new : c.kind # kind
  PROVE  InFlight(kind)' = InFlight(kind)
BY DEF InFlight

LEMMA AllFail ==
  ASSUME PageInv, Fails, crossed' = crossed, UNCHANGED <<selected, points>>
  PROVE  CallsFit' /\ Selection' /\ Payloads'
<1>1. calls' = {} /\ histories' = {} /\ historyStream' = None /\ probe' = None BY DEF Fails
<1>2. InFlight("quote")' = {} /\ InFlight("export")' = {} /\ Fragmented' = {}
  BY <1>1 DEF InFlight, Fragmented
<1>3. historyState' # "loading" BY DEF Fails, PageInv, Selection
<1>4. exportState' # "running" BY DEF Fails, PageInv, Payloads
<1>5. CallsFit' BY <1>1 DEF CallsFit
<1>6. Selection' BY <1>1, <1>2, <1>3 DEF PageInv, Selection
<1>7. Payloads' BY <1>1, <1>2, <1>4 DEF Payloads
<1> QED BY <1>5, <1>6, <1>7

-----------------------------------------------------------------------------
(* The connection and the board.                                           *)

LEMMA EstablishedKeeps == ASSUME PageInv, Established PROVE PageInv'
<1> DEFINE new == Call("stats", Default)
<1>1. /\ link = "hello" /\ link' = "up" /\ calls' = calls \cup {new}
      /\ UNCHANGED <<left, interval, boardVars, historyVars, payloadVars, rtt, tickInterval, crossed>>
  BY DEF Established
<1>2. /\ new = [id |-> new.id, kind |-> new.kind, phase |-> new.phase, value |-> new.value]
      /\ new.kind = "stats" /\ new.phase = "sent"
  BY CallFacts
<1> HIDE DEF new
<1>3. \A kind : kind # "stats" => InFlight(kind)' = InFlight(kind) BY <1>1, <1>2 DEF InFlight
<1>4. CallsFit' BY <1>1, <1>2 DEF PageInv, CallsFit
<1>5. Linked' BY <1>1 DEF PageInv, Linked, Connected
<1>6. Drawn' BY <1>1, DrawnKeeps DEF PageInv, boardVars
<1>7. Selection' BY <1>1, <1>3, SelectionKeeps DEF PageInv, historyVars
<1>8. Payloads' BY <1>1, <1>3, PayloadsKeep DEF PageInv, payloadVars
<1> QED BY <1>4, <1>5, <1>6, <1>7, <1>8 DEF PageInv

LEMMA LosesKeeps == ASSUME PageInv, ConnectFails \/ Lose PROVE PageInv'
<1>1. /\ Fails /\ crossed' = crossed
      /\ UNCHANGED <<pending, rows, flushScheduled, ticks, selected, points>>
      /\ link' \notin {"up", "draining"}
  BY DEF ConnectFails, Lose
<1>2. ~rtt'
  <2>1. CASE ConnectFails BY <2>1 DEF ConnectFails, PageInv, Linked, Connected
  <2>2. CASE Lose BY <2>2 DEF Lose
  <2> QED BY <2>1, <2>2
<1>3. calls' = {} BY <1>1 DEF Fails
<1>4. Linked' BY <1>2, <1>3 DEF Linked
<1>5. Drawn' BY <1>1, DrawnKeeps DEF PageInv
<1> QED BY <1>1, <1>4, <1>5, AllFail DEF PageInv

(* Nothing of what is asked for changes.                                   *)
LEMMA AsideKeeps ==
  ASSUME PageInv, Drawn', UNCHANGED <<calls, rtt, crossed, historyVars, payloadVars>>,
         Connected' <=> Connected
  PROVE  PageInv'
<1>1. InFlight("quote")' = InFlight("quote") /\ InFlight("export")' = InFlight("export")
      /\ InFlight("depth")' = InFlight("depth")
  BY DEF InFlight
<1>2. CallsFit' /\ Linked' BY DEF PageInv, CallsFit, Linked
<1>3. Selection' BY <1>1, SelectionKeeps DEF PageInv, historyVars
<1>4. Payloads' BY <1>1, PayloadsKeep DEF PageInv, payloadVars
<1> QED BY <1>2, <1>3, <1>4 DEF PageInv

LEMMA GoawayKeeps == ASSUME PageInv, GoawayArrives \/ Redial PROVE PageInv'
<1>1. /\ UNCHANGED <<calls, rtt, crossed, boardVars, historyVars, payloadVars>>
      /\ \/ link = "up" /\ link' = "draining"
         \/ link = "down" /\ link' = "hello"
  BY DEF GoawayArrives, Redial
<1>2. Connected' <=> Connected BY <1>1 DEF Connected
<1>3. Drawn' BY <1>1, DrawnKeeps DEF PageInv, boardVars
<1> QED BY <1>1, <1>2, <1>3, AsideKeeps

LEMMA BoardKeeps ==
  ASSUME PageInv, NEW s \in Symbols, OnPushedStream(s) \/ BoardStreamReset(s)
  PROVE  PageInv'
<1>1. /\ UNCHANGED <<link, calls, rtt, crossed, historyVars, payloadVars>>
      /\ UNCHANGED <<pending, rows, flushScheduled, ticks>>
  BY DEF OnPushedStream, BoardStreamReset, backend
<1>2. Drawn' BY <1>1, DrawnKeeps DEF PageInv
<1>3. Connected' <=> Connected BY <1>1 DEF Connected
<1> QED BY <1>1, <1>2, <1>3, AsideKeeps

LEMMA ApplyTickKeeps == ASSUME PageInv, NEW s \in Symbols, ApplyTick(s) PROVE PageInv'
<1>1. /\ UNCHANGED <<link, calls, rtt, crossed, historyVars, payloadVars, rows>>
      /\ ticks' = [ticks EXCEPT ![s] = @ + 1] /\ pending' = [pending EXCEPT ![s] = ticks[s] + 1]
      /\ flushScheduled' = TRUE
  BY DEF ApplyTick, ScheduleFlush, backend
<1>2. Drawn'
  <2>1. /\ ticks' \in [Symbols -> Nat] /\ pending' \in [Symbols -> Nat] /\ rows' \in [Symbols -> Nat]
    BY <1>1 DEF PageInv, Drawn
  <2>2. \A t \in Symbols : ticks'[t] = IF pending'[t] # 0 THEN pending'[t] ELSE rows'[t]
    BY <1>1 DEF PageInv, Drawn, LastTickIsShown
  <2> QED BY <1>1, <2>1, <2>2 DEF Drawn, LastTickIsShown
<1>3. Connected' <=> Connected BY <1>1 DEF Connected
<1> QED BY <1>1, <1>2, <1>3, AsideKeeps

LEMMA FlushKeeps == ASSUME PageInv, Flush PROVE PageInv'
<1>1. /\ UNCHANGED <<link, calls, rtt, crossed, historyVars, payloadVars, ticks>>
      /\ rows' = [s \in Symbols |-> Rendered(s)] /\ pending' = [s \in Symbols |-> 0]
  BY DEF Flush, backend
<1>2. Drawn' BY <1>1 DEF PageInv, Drawn, LastTickIsShown, Rendered, Undrawn
<1>3. Connected' <=> Connected BY <1>1 DEF Connected
<1> QED BY <1>1, <1>2, <1>3, AsideKeeps

-----------------------------------------------------------------------------
(* The selection.                                                          *)

LEMMA SelectKeeps == ASSUME PageInv, NEW s \in Symbols, Select(s) PROVE PageInv'
<1> DEFINE quote == Call("quote", s)
           stats == {[Call("stats", Default) EXCEPT !.id = -nextId] : h \in histories \ histories'}
<1>1. /\ histories' = {h \in histories : h.id # historyStream} /\ historyStream' = None
      /\ selected' = s /\ points' = {}
      /\ crossed' = IF InFlight("quote") # {} THEN crossed \cup {"select"}
                    ELSE IF histories' = {} THEN crossed \ {"select"} ELSE crossed
      /\ UNCHANGED <<backend, connection, boardVars, payloadVars, rtt, tickInterval>>
      /\ \/ link = "up" /\ calls' = calls \cup {quote} \cup stats
         \/ link # "up" /\ calls' = calls
  BY DEF Select, Cancels
<1>2. historyState' # "loading" BY DEF Select
<1>3. /\ quote = [id |-> quote.id, kind |-> quote.kind, phase |-> quote.phase, value |-> quote.value]
      /\ quote.kind = "quote" /\ quote.phase = "sent" /\ quote.value = s
  BY CallFacts
<1>4. \A c \in stats : /\ c = [id |-> c.id, kind |-> c.kind, phase |-> c.phase, value |-> c.value]
                       /\ c.kind = "stats" /\ c.phase = "sent"
  BY DEF Call
<1> HIDE DEF quote, stats
<1>5. \A kind : kind \notin {"quote", "stats"} => InFlight(kind)' = InFlight(kind)
  BY <1>1, <1>3, <1>4 DEF InFlight
<1>6. InFlight("quote")' = InFlight("quote") \/ InFlight("quote")' = InFlight("quote") \cup {quote}
  BY <1>1, <1>3, <1>4 DEF InFlight
<1>7. CallsFit' BY <1>1, <1>3, <1>4 DEF PageInv, CallsFit
<1>8. Linked' BY <1>1 DEF PageInv, Linked, Connected, backend
<1>9. Drawn' BY <1>1, DrawnKeeps DEF PageInv, boardVars
<1>10. Selection'
  <2>1. ASSUME "select" \notin crossed'
        PROVE  histories' = {} /\ InFlight("quote") = {}
    <3>1. InFlight("quote") = {} BY <1>1, <2>1
    <3>2. CASE "select" \in crossed BY <1>1, <2>1, <3>1, <3>2
    <3>3. CASE "select" \notin crossed
      <4>1. \A h \in histories : h.id = historyStream BY <3>3 DEF PageInv, Selection
      <4> QED BY <1>1, <3>1, <4>1
    <3> QED BY <3>1, <3>2, <3>3
  <2>2. ASSUME "select" \notin crossed'
        PROVE  /\ \A c \in InFlight("quote")' : c.value = s
               /\ \A c, d \in InFlight("quote")' : c = d
    BY <1>3, <1>6, <2>1, <2>2
  <2>3. \A h \in histories' : h = [id |-> h.id, symbol |-> h.symbol] BY <1>1 DEF PageInv, Selection
  <2> QED BY <1>1, <1>2, <2>1, <2>2, <2>3 DEF Selection
<1>11. Payloads' BY <1>1, <1>5, PayloadsKeep DEF PageInv, payloadVars
<1> QED BY <1>7, <1>8, <1>9, <1>10, <1>11 DEF PageInv

LEMMA StreamHistoryKeeps == ASSUME PageInv, NEW call \in calls, StreamHistory(call) PROVE PageInv'
<1> DEFINE new == [id |-> call.id, symbol |-> call.value]
<1>1. /\ call.kind = "quote" /\ calls' = calls \ {call}
      /\ UNCHANGED <<left, backend, nextId, connection, boardVars, selected, points, payloadVars,
                     rtt, tickInterval, crossed>>
      /\ \/ histories' = histories \cup {new} /\ historyStream' = new.id
         \/ historyState' = "lost" /\ UNCHANGED <<histories, historyStream>>
  BY DEF StreamHistory, InFlight
<1>2. new.id = call.id /\ new.symbol = call.value OBVIOUS
<1> HIDE DEF new
<1>3. \A kind : kind # "quote" => InFlight(kind)' = InFlight(kind) BY <1>1 DEF InFlight
<1>4. InFlight("quote")' = InFlight("quote") \ {call} /\ call \in InFlight("quote") BY <1>1 DEF InFlight
<1>5. CallsFit' BY <1>1 DEF PageInv, CallsFit
<1>6. Linked' BY <1>1 DEF PageInv, Linked, Connected, backend
<1>7. Drawn' BY <1>1, DrawnKeeps DEF PageInv, boardVars
<1>8. Selection'
  <2>1. ASSUME "select" \notin crossed
        PROVE  InFlight("quote")' = {} /\ histories = {} /\ call.value = selected
    BY <1>4, <2>1 DEF PageInv, Selection
  <2>2. \A h \in histories' : h = [id |-> h.id, symbol |-> h.symbol]
    <3>1. new = [id |-> new.id, symbol |-> new.symbol] BY DEF new
    <3> QED BY <1>1, <3>1 DEF PageInv, Selection
  <2>3. /\ historyState' = "loading" => histories' # {}
        /\ historyStream' # None => historyStream' \in {h.id : h \in histories'}
    BY <1>1 DEF PageInv, Selection
  <2>4. ASSUME "select" \notin crossed'
        PROVE  /\ points' \subseteq {selected'}
               /\ \A h \in histories' : h.id = historyStream' /\ h.symbol = selected'
               /\ InFlight("quote")' = {}
    BY <1>1, <1>2, <2>1, <2>4 DEF PageInv, Selection
  <2> QED BY <2>2, <2>3, <2>4 DEF Selection
<1>9. Payloads' BY <1>1, <1>3, PayloadsKeep DEF PageInv, payloadVars
<1> QED BY <1>5, <1>6, <1>7, <1>8, <1>9 DEF PageInv

(* A history that goes on or ends.                                         *)
LEMMA HistoryKeeps ==
  ASSUME PageInv, NEW h \in histories, HistoryPoint(h) \/ HistoryEnds(h)
  PROVE  PageInv'
<1>1. /\ UNCHANGED <<left, backend, calls, nextId, connection, boardVars, selected, payloadVars,
                     rtt, tickInterval, crossed>>
      /\ \/ /\ points' = points \cup {h.symbol}
            /\ UNCHANGED <<histories, historyStream, historyState>>
         \/ /\ histories' = histories \ {h} /\ historyState' \in {"done", "lost"} /\ points' = points
            /\ historyStream' = IF historyStream = h.id THEN None ELSE historyStream
  BY DEF HistoryPoint, HistoryEnds
<1>2. InFlight("quote")' = InFlight("quote") /\ InFlight("export")' = InFlight("export")
      /\ InFlight("depth")' = InFlight("depth")
  BY <1>1 DEF InFlight
<1>3. CallsFit' BY <1>1 DEF PageInv, CallsFit
<1>4. Linked' BY <1>1 DEF PageInv, Linked, Connected, backend
<1>5. Drawn' BY <1>1, DrawnKeeps DEF PageInv, boardVars
<1>6. Selection'
  <2>1. historyState' = "loading" => histories' # {} BY <1>1 DEF PageInv, Selection
  <2>2. historyStream' # None => historyStream' \in {g.id : g \in histories'}
    BY <1>1 DEF PageInv, Selection
  <2>3. ASSUME "select" \notin crossed'
        PROVE  /\ points' \subseteq {selected'}
               /\ \A g \in histories' : g.id = historyStream' /\ g.symbol = selected'
               /\ \A c \in InFlight("quote")' : c.value = selected' /\ histories' = {}
               /\ \A c, d \in InFlight("quote")' : c = d
    <3>1. /\ "select" \notin crossed /\ points \subseteq {selected}
          /\ \A g \in histories : g.id = historyStream /\ g.symbol = selected
          /\ InFlight("quote") = {}
      BY <1>1, <2>3 DEF PageInv, Selection
    <3>2. points' \subseteq {selected} BY <1>1, <3>1
    <3>3. ASSUME NEW g \in histories' PROVE g.id = historyStream' /\ g.symbol = selected
      <4>1. CASE UNCHANGED <<histories, historyStream>> BY <3>1, <3>3, <4>1
      <4>2. CASE histories' = histories \ {h}
        <5>1. g \in histories /\ g # h BY <3>3, <4>2
        <5>2. g.id = h.id /\ g.symbol = h.symbol BY <3>1, <5>1
        <5>3. g = [id |-> g.id, symbol |-> g.symbol] /\ h = [id |-> h.id, symbol |-> h.symbol]
          BY <5>1 DEF PageInv, Selection
        <5> QED BY <5>1, <5>2, <5>3
      <4> QED BY <1>1, <4>1, <4>2
    <3> QED BY <1>1, <1>2, <3>1, <3>2, <3>3
  <2>4. \A g \in histories' : g = [id |-> g.id, symbol |-> g.symbol] BY <1>1 DEF PageInv, Selection
  <2> QED BY <2>1, <2>2, <2>3, <2>4 DEF Selection
<1>7. Payloads' BY <1>1, <1>2, PayloadsKeep DEF PageInv, payloadVars
<1> QED BY <1>3, <1>4, <1>5, <1>6, <1>7 DEF PageInv

-----------------------------------------------------------------------------
(* Large payloads.                                                         *)

(* One more payload is asked for: an export only while none runs.          *)
LEMMA FragmentsKeeps ==
  ASSUME PageInv, NEW kind \in {"export", "depth"}, Fragments(kind), link = "up",
         UNCHANGED <<backend, boardVars, historyVars, rtt>>,
         kind = "export" => exportState # "running" /\ exportState' = "running",
         kind = "depth" => exportState' = exportState
  PROVE  PageInv'
<1> DEFINE new == Call(kind, None)
<1>1. /\ calls' = calls \cup {new} /\ probe' = nextId
      /\ crossed' = IF Fragmented # {} THEN crossed \cup {"fragmented"} ELSE crossed \ {"fragmented"}
  BY DEF Fragments
<1>2. /\ new = [id |-> new.id, kind |-> new.kind, phase |-> new.phase, value |-> new.value]
      /\ new.kind = kind /\ new.phase = "sent" /\ new.id = nextId
  BY CallFacts
<1> HIDE DEF new
<1>3. InFlight("quote")' = InFlight("quote") BY <1>1, <1>2 DEF InFlight
<1>4. /\ InFlight("export")' = InFlight("export") \cup (IF kind = "export" THEN {new} ELSE {})
      /\ InFlight("depth")' = InFlight("depth") \cup (IF kind = "depth" THEN {new} ELSE {})
  BY <1>1, <1>2 DEF InFlight
<1>5. Fragmented' = Fragmented \cup {new} BY <1>4 DEF Fragmented
<1>6. CallsFit' BY <1>1, <1>2 DEF PageInv, CallsFit
<1>7. Linked' BY DEF PageInv, Linked, Connected, backend
<1>8. Drawn' BY DrawnKeeps DEF PageInv, boardVars
<1>9. Selection' BY <1>1, <1>3, SelectionKeeps DEF PageInv, historyVars
<1>10. Payloads'
  <2>1. (exportState' = "running") = (InFlight("export")' # {}) /\ \A c, d \in InFlight("export")' : c = d
    <3>1. CASE kind = "export"
      <4>1. InFlight("export") = {} BY <3>1 DEF PageInv, Payloads
      <4> QED BY <1>4, <3>1, <4>1
    <3>2. CASE kind = "depth"
      <4>1. InFlight("export")' = InFlight("export") BY <1>4, <3>2
      <4> QED BY <3>2, <4>1 DEF PageInv, Payloads
    <3> QED BY <3>1, <3>2
  <2>2. probe' \in {c.id : c \in Fragmented'} BY <1>1, <1>2, <1>5
  <2>3. ASSUME "fragmented" \notin crossed' PROVE Fragmented' = {new} BY <1>1, <1>5, <2>3
  <2> QED BY <1>1, <1>2, <2>1, <2>2, <2>3 DEF Payloads
<1> QED BY <1>6, <1>7, <1>8, <1>9, <1>10 DEF PageInv

LEMMA RunExportKeeps == ASSUME PageInv, RunExport PROVE PageInv'
BY FragmentsKeeps DEF RunExport

LEMMA LoadDepthKeeps == ASSUME PageInv, LoadDepth PROVE PageInv'
BY FragmentsKeeps DEF LoadDepth

LEMMA ExportFailsKeeps == ASSUME PageInv, ExportFails PROVE PageInv'
<1>1. /\ exportState # "running" /\ exportState' = "failed"
      /\ UNCHANGED <<backend, calls, boardVars, historyVars, probe, rtt, crossed>>
  BY DEF ExportFails
<1>2. \A kind : InFlight(kind)' = InFlight(kind) BY <1>1 DEF InFlight
<1>3. Fragmented' = Fragmented BY <1>2 DEF Fragmented
<1>4. CallsFit' /\ Linked' BY <1>1 DEF PageInv, CallsFit, Linked, Connected, backend
<1>5. Drawn' BY <1>1, DrawnKeeps DEF PageInv, boardVars
<1>6. Selection' BY <1>1, <1>2, SelectionKeeps DEF PageInv, historyVars
<1>7. Payloads' BY <1>1, <1>2, <1>3 DEF PageInv, Payloads
<1> QED BY <1>4, <1>5, <1>6, <1>7 DEF PageInv

LEMMA PayloadArrivesKeeps == ASSUME PageInv, NEW call \in calls, PayloadArrives(call) PROVE PageInv'
<1>1. /\ call \in Fragmented /\ calls' = calls \ {call} /\ probe' = None
      /\ exportState' = IF call.kind = "depth" THEN exportState
                        ELSE IF probe = None THEN "failed" ELSE "done"
      /\ UNCHANGED <<backend, boardVars, historyVars, rtt, crossed>>
  BY DEF PayloadArrives, ProbeEnds
<1>2. \A kind : InFlight(kind)' = InFlight(kind) \ {call} BY <1>1 DEF InFlight
<1>3. call.kind \in {"export", "depth"} /\ call \in InFlight(call.kind)
  BY <1>1 DEF Fragmented, InFlight
<1>4. InFlight("quote")' = InFlight("quote") BY <1>2, <1>3 DEF InFlight
<1>5. Fragmented' = Fragmented \ {call} BY <1>2 DEF Fragmented
<1>6. CallsFit' /\ Linked' BY <1>1 DEF PageInv, CallsFit, Linked, Connected, backend
<1>7. Drawn' BY <1>1, DrawnKeeps DEF PageInv, boardVars
<1>8. Selection' BY <1>1, <1>4, SelectionKeeps DEF PageInv, historyVars
<1>9. Payloads'
  <2>1. (exportState' = "running") = (InFlight("export")' # {})
    <3>1. CASE call.kind = "depth"
      <4>1. InFlight("export")' = InFlight("export") BY <1>2, <3>1 DEF InFlight
      <4> QED BY <1>1, <3>1, <4>1 DEF PageInv, Payloads
    <3>2. CASE call.kind = "export"
      <4>1. InFlight("export")' = {} BY <1>2, <1>3, <3>2 DEF PageInv, Payloads
      <4> QED BY <1>1, <3>2, <4>1
    <3> QED BY <1>3, <3>1, <3>2
  <2>2. \A c, d \in InFlight("export")' : c = d BY <1>2 DEF PageInv, Payloads
  <2>3. ASSUME "fragmented" \notin crossed' PROVE Fragmented' = {}
    BY <1>1, <1>5, <2>3 DEF PageInv, Payloads
  <2> QED BY <1>1, <2>1, <2>2, <2>3 DEF Payloads
<1> QED BY <1>6, <1>7, <1>8, <1>9 DEF PageInv

-----------------------------------------------------------------------------
(* The tick interval and the polls: calls the page shows nothing of.       *)

LEMMA OthersKeep ==
  ASSUME PageInv, NEW gone, NEW new, calls' = (calls \ gone) \cup new,
         \A c \in gone \cap calls : c.kind \notin {"quote", "export", "depth"},
         \A c \in new : /\ c = [id |-> c.id, kind |-> c.kind, phase |-> c.phase, value |-> c.value]
                        /\ c.kind \notin {"quote", "export", "depth"}
                        /\ c.phase = "answered" => c.kind \in Waiting,
         UNCHANGED <<link, boardVars, historyVars, payloadVars, crossed>>,
         rtt' => Connected, ~Connected => new = {}
  PROVE  PageInv'
<1>1. InFlight("quote")' = InFlight("quote") /\ InFlight("export")' = InFlight("export")
      /\ InFlight("depth")' = InFlight("depth")
  BY DEF InFlight
<1>2. CallsFit' BY DEF PageInv, CallsFit
<1>3. Linked'
  <2>1. Connected' = Connected BY DEF Connected
  <2> QED BY <2>1 DEF PageInv, Linked
<1>4. Drawn' BY DrawnKeeps DEF PageInv, boardVars
<1>5. Selection' BY <1>1, SelectionKeeps DEF PageInv, historyVars
<1>6. Payloads' BY <1>1, PayloadsKeep DEF PageInv, payloadVars
<1> QED BY <1>2, <1>3, <1>4, <1>5, <1>6 DEF PageInv

LEMMA SetTickIntervalKeeps == ASSUME PageInv, SetTickInterval PROVE PageInv'
<1>1. PICK v \in Intervals : calls' = calls \cup {Call("rate", v)} BY DEF SetTickInterval
<1> DEFINE new == {Call("rate", v)}
<1>2. /\ link = "up" /\ UNCHANGED <<link, boardVars, historyVars, payloadVars, rtt, crossed>>
  BY DEF SetTickInterval, backend
<1>3. \A c \in new : /\ c = [id |-> c.id, kind |-> c.kind, phase |-> c.phase, value |-> c.value]
                     /\ c.kind = "rate" /\ c.phase = "sent"
  BY CallFacts
<1>4. calls' = (calls \ {}) \cup new BY <1>1
<1> HIDE DEF new
<1>5. Connected BY <1>2 DEF Connected
<1> QED BY <1>2, <1>3, <1>4, <1>5, OthersKeep

LEMMA PollKeeps == ASSUME PageInv, Poll PROVE PageInv'
<1> DEFINE new == {[Call("stats", Default) EXCEPT !.id = None], [Call("ping", None) EXCEPT !.id = None]}
<1>1. /\ link = "up" /\ UNCHANGED <<link, boardVars, historyVars, payloadVars, rtt, crossed>>
  BY DEF Poll, backend
<1>2. \A c \in new : /\ c = [id |-> c.id, kind |-> c.kind, phase |-> c.phase, value |-> c.value]
                     /\ c.kind \in {"stats", "ping"} /\ c.phase = "sent"
  BY DEF Call
<1>3. calls' = (calls \ {}) \cup new BY DEF Poll
<1> HIDE DEF new
<1>4. Connected BY <1>1 DEF Connected
<1> QED BY <1>1, <1>2, <1>3, <1>4, OthersKeep

LEMMA RecordFacts ==
  ASSUME NEW c, c = [id |-> c.id, kind |-> c.kind, phase |-> c.phase, value |-> c.value], NEW v
  PROVE  LET d == [c EXCEPT !.phase = "answered", !.value = v]
         IN  d = [id |-> d.id, kind |-> d.kind, phase |-> d.phase, value |-> d.value] /\ d.kind = c.kind
<1> DEFINE d == [c EXCEPT !.phase = "answered", !.value = v]
<1>1. DOMAIN c = {"id", "kind", "phase", "value"}
  <2>1. DOMAIN [id |-> c.id, kind |-> c.kind, phase |-> c.phase, value |-> c.value]
          = {"id", "kind", "phase", "value"}
    OBVIOUS
  <2> QED BY <2>1
<1>2. d = [x \in {"id", "kind", "phase", "value"} |-> d[x]] /\ d.kind = c.kind BY <1>1
<1> HIDE DEF d
<1>3. d = [id |-> d.id, kind |-> d.kind, phase |-> d.phase, value |-> d.value] BY <1>2
<1> QED BY <1>2, <1>3 DEF d

LEMMA BackendAnswersKeeps == ASSUME PageInv, NEW call \in calls, BackendAnswers(call) PROVE PageInv'
<1>1. PICK v : calls' = (calls \ {call}) \cup {[call EXCEPT !.phase = "answered", !.value = v]}
  BY DEF BackendAnswers
<1> DEFINE new == {[call EXCEPT !.phase = "answered", !.value = v]}
<1>2. /\ call.kind \in Waiting
      /\ UNCHANGED <<link, boardVars, historyVars, payloadVars, rtt, crossed>>
  BY DEF BackendAnswers, Waiting
<1>3. \A c \in new : /\ c = [id |-> c.id, kind |-> c.kind, phase |-> c.phase, value |-> c.value]
                     /\ c.kind = call.kind
  <2>1. call = [id |-> call.id, kind |-> call.kind, phase |-> call.phase, value |-> call.value]
    BY DEF PageInv, CallsFit
  <2> DEFINE d == [call EXCEPT !.phase = "answered", !.value = v]
  <2>2. d = [id |-> d.id, kind |-> d.kind, phase |-> d.phase, value |-> d.value] /\ d.kind = call.kind
    BY <2>1, RecordFacts
  <2>3. \A c \in new : c = d OBVIOUS
  <2> HIDE DEF d, new
  <2> QED BY <2>2, <2>3
<1>4. calls' = (calls \ {call}) \cup new BY <1>1
<1> HIDE DEF new
<1>5. Connected BY DEF PageInv, Linked
<1>6. call.kind \notin {"quote", "export", "depth"} BY <1>2 DEF Waiting
<1> QED BY <1>2, <1>3, <1>4, <1>5, <1>6, OthersKeep

LEMMA AnswersKeep ==
  ASSUME PageInv, NEW call \in calls, AnswerArrives(call) \/ PongArrives(call)
  PROVE  PageInv'
<1>0. PICK gone, new : gone = {call} /\ new = {} OBVIOUS
<1>1. /\ call.kind \in Waiting \cup {"ping"} /\ calls' = (calls \ gone) \cup new
      /\ UNCHANGED <<link, boardVars, historyVars, payloadVars, crossed>>
  BY <1>0 DEF AnswerArrives, PongArrives, InFlight, PageInv, CallsFit, backend
<1>2. Connected BY DEF PageInv, Linked
<1>3. /\ \A c \in gone \cap calls : c.kind \notin {"quote", "export", "depth"}
      /\ \A c \in new : /\ c = [id |-> c.id, kind |-> c.kind, phase |-> c.phase, value |-> c.value]
                        /\ c.kind \notin {"quote", "export", "depth"}
                        /\ c.phase = "answered" => c.kind \in Waiting
  BY <1>0, <1>1 DEF Waiting
<1>4. (rtt' => Connected) /\ (~Connected => new = {}) BY <1>2
<1> QED BY <1>1, <1>3, <1>4, OthersKeep

-----------------------------------------------------------------------------
LEMMA PageStep == PageInv /\ [Next]_vars => PageInv'
<1> SUFFICES ASSUME PageInv, [Next]_vars PROVE PageInv' OBVIOUS
<1>1. ASSUME Established PROVE PageInv' BY <1>1, EstablishedKeeps
<1>2. ASSUME ConnectFails \/ Lose PROVE PageInv' BY <1>2, LosesKeeps
<1>3. ASSUME GoawayArrives \/ Redial PROVE PageInv' BY <1>3, GoawayKeeps
<1>4. ASSUME Flush PROVE PageInv' BY <1>4, FlushKeeps
<1>5. ASSUME NEW s \in Symbols, OnPushedStream(s) \/ BoardStreamReset(s) PROVE PageInv'
  BY <1>5, BoardKeeps
<1>6. ASSUME NEW s \in Symbols, ApplyTick(s) PROVE PageInv' BY <1>6, ApplyTickKeeps
<1>7. ASSUME NEW s \in Symbols, Select(s) PROVE PageInv' BY <1>7, SelectKeeps
<1>8. ASSUME RunExport PROVE PageInv' BY <1>8, RunExportKeeps
<1>9. ASSUME ExportFails PROVE PageInv' BY <1>9, ExportFailsKeeps
<1>10. ASSUME LoadDepth PROVE PageInv' BY <1>10, LoadDepthKeeps
<1>11. ASSUME SetTickInterval PROVE PageInv' BY <1>11, SetTickIntervalKeeps
<1>12. ASSUME Poll PROVE PageInv' BY <1>12, PollKeeps
<1>13. ASSUME NEW h \in histories, HistoryPoint(h) \/ HistoryEnds(h) PROVE PageInv'
  BY <1>13, HistoryKeeps
<1>14. ASSUME NEW call \in calls, StreamHistory(call) PROVE PageInv' BY <1>14, StreamHistoryKeeps
<1>15. ASSUME NEW call \in calls, PayloadArrives(call) PROVE PageInv' BY <1>15, PayloadArrivesKeeps
<1>16. ASSUME NEW call \in calls, BackendAnswers(call) PROVE PageInv' BY <1>16, BackendAnswersKeeps
<1>17. ASSUME NEW call \in calls, AnswerArrives(call) \/ PongArrives(call) PROVE PageInv'
  BY <1>17, AnswersKeep
<1>18. ASSUME UNCHANGED vars PROVE PageInv'
  <2>1. UNCHANGED <<link, calls, rtt, crossed, historyVars, payloadVars>>
        /\ UNCHANGED <<pending, rows, flushScheduled, ticks>>
    BY <1>18 DEF vars, backend, boardVars
  <2>2. Drawn' BY <2>1, DrawnKeeps DEF PageInv
  <2>3. Connected' <=> Connected BY <2>1 DEF Connected
  <2> QED BY <2>1, <2>2, <2>3, AsideKeeps
<1> QED BY <1>1, <1>2, <1>3, <1>4, <1>5, <1>6, <1>7, <1>8, <1>9, <1>10, <1>11, <1>12, <1>13, <1>14,
           <1>15, <1>16, <1>17, <1>18
        DEF Next, Replies, Streams

LEMMA PageHolds == Spec => []PageInv
BY PageInit, PageStep, PTL DEF Spec

-----------------------------------------------------------------------------
(* The account of the ticks.                                               *)

Counted ==
    /\ coalesced \in Nat /\ painted \in Nat
    /\ IsFiniteSet(Undrawn) /\ IsFiniteSet(Received)
    /\ coalesced + painted + Cardinality(Undrawn) = Cardinality(Received)

LEMMA CountedInit == Init => Counted
<1> SUFFICES ASSUME Init PROVE Counted OBVIOUS
<1>1. coalesced = 0 /\ painted = 0 BY DEF Init
<1>2. Undrawn = {} BY DEF Init, Undrawn
<1>3. Received = {}
  <2>1. \A s \in Symbols : 1 .. ticks[s] = {} BY DEF Init
  <2> QED BY <2>1 DEF Received
<1>4. IsFiniteSet({}) /\ Cardinality({}) = 0 BY FS_EmptySet
<1> QED BY <1>1, <1>2, <1>3, <1>4 DEF Counted

LEMMA CountedStays ==
  ASSUME Counted, UNCHANGED <<pending, coalesced, ticks, painted>>
  PROVE  Counted'
<1>1. Undrawn' = Undrawn /\ Received' = Received BY DEF Undrawn, Received
<1> QED BY <1>1 DEF Counted

(* One tick more is received, and its symbol becomes pending, or was       *)
(* pending and the row that waited is counted.                             *)
LEMMA ApplyTickCounts ==
  ASSUME Drawn, Counted, NEW s \in Symbols, ApplyTick(s)
  PROVE  Counted'
<1> DEFINE new == <<s, ticks[s] + 1>>
<1>1. /\ ticks' = [ticks EXCEPT ![s] = @ + 1] /\ pending' = [pending EXCEPT ![s] = ticks[s] + 1]
      /\ coalesced' = IF s \in Undrawn THEN coalesced + 1 ELSE coalesced
      /\ painted' = painted
  BY DEF ApplyTick, Undrawn
<1>2. ticks \in [Symbols -> Nat] /\ pending \in [Symbols -> Nat] BY DEF Drawn
<1>3. Undrawn' = Undrawn \cup {s}
  <2>1. ticks[s] + 1 # 0 BY <1>2
  <2> QED BY <1>1, <1>2, <2>1 DEF Undrawn
<1>4. Received' = Received \cup {new} /\ new \notin Received
  <2>1. \A t \in Symbols : ticks'[t] = IF t = s THEN ticks[s] + 1 ELSE ticks[t] BY <1>1, <1>2
  <2>2. 1 .. ticks[s] + 1 = (1 .. ticks[s]) \cup {ticks[s] + 1} /\ ticks[s] + 1 \notin 1 .. ticks[s]
    <3>1. ticks[s] \in Nat BY <1>2
    <3> QED BY <3>1
  <2>3. {s} \X (1 .. ticks[s] + 1) = ({s} \X (1 .. ticks[s])) \cup {new} BY <2>2
  <2>4. \A t \in Symbols : {t} \X (1 .. ticks'[t])
                           = IF t = s THEN ({t} \X (1 .. ticks[t])) \cup {new} ELSE {t} \X (1 .. ticks[t])
    BY <2>1, <2>3
  <2>5. \A t \in Symbols : new \notin {t} \X (1 .. ticks[t]) BY <2>2
  <2> HIDE DEF new
  <2> DEFINE of(t) == {t} \X (1 .. ticks[t])
             ofNew(t) == {t} \X (1 .. ticks'[t])
  <2>6. Received = UNION {of(t) : t \in Symbols} /\ Received' = UNION {ofNew(t) : t \in Symbols}
    BY DEF Received
  <2>7. \A t \in Symbols : ofNew(t) = IF t = s THEN of(t) \cup {new} ELSE of(t) BY <2>4
  <2>8. \A t \in Symbols : new \notin of(t) BY <2>5
  <2> HIDE DEF of, ofNew
  <2>9. ofNew(s) = of(s) \cup {new} BY <2>7
  <2> QED BY <2>6, <2>7, <2>8, <2>9
<1> HIDE DEF new
<1>5. IsFiniteSet(Undrawn) /\ IsFiniteSet(Received) BY DEF Counted
<1>6. /\ IsFiniteSet(Undrawn')
      /\ Cardinality(Undrawn') = IF s \in Undrawn THEN Cardinality(Undrawn) ELSE Cardinality(Undrawn) + 1
  BY <1>3, <1>5, FS_AddElement
<1>7. IsFiniteSet(Received') /\ Cardinality(Received') = Cardinality(Received) + 1
  BY <1>4, <1>5, FS_AddElement
<1>8. Cardinality(Undrawn) \in Nat /\ Cardinality(Received) \in Nat BY <1>5, FS_CardinalityType
<1> QED BY <1>1, <1>6, <1>7, <1>8 DEF Counted

(* All that was pending is rendered.                                       *)
LEMMA FlushCounts ==
  ASSUME Drawn, Counted, Flush
  PROVE  Counted'
<1>1. /\ painted' = painted + Cardinality(Undrawn) /\ coalesced' = coalesced /\ ticks' = ticks
      /\ pending' = [s \in Symbols |-> 0]
  BY DEF Flush
<1>2. Undrawn' = {} BY <1>1 DEF Undrawn
<1>3. Received' = Received BY <1>1 DEF Received
<1>4. IsFiniteSet({}) /\ Cardinality({}) = 0 BY FS_EmptySet
<1>5. Cardinality(Undrawn) \in Nat BY FS_CardinalityType DEF Counted
<1> QED BY <1>1, <1>2, <1>3, <1>4, <1>5 DEF Counted

LEMMA CountedStep == Drawn /\ Counted /\ [Next]_vars => Counted'
<1> SUFFICES ASSUME Drawn, Counted, [Next]_vars PROVE Counted' OBVIOUS
<1>1. ASSUME NEW s \in Symbols, ApplyTick(s) PROVE Counted' BY <1>1, ApplyTickCounts
<1>2. ASSUME Flush PROVE Counted' BY <1>2, FlushCounts
<1>3. ASSUME Established \/ ConnectFails \/ GoawayArrives \/ Lose \/ Redial PROVE Counted'
  BY <1>3, CountedStays DEF Established, ConnectFails, GoawayArrives, Lose, Redial, boardVars
<1>4. ASSUME NEW s \in Symbols, OnPushedStream(s) \/ BoardStreamReset(s) \/ Select(s) PROVE Counted'
  BY <1>4, CountedStays DEF OnPushedStream, BoardStreamReset, Select, boardVars
<1>5. ASSUME RunExport \/ ExportFails \/ LoadDepth \/ SetTickInterval \/ Poll PROVE Counted'
  BY <1>5, CountedStays DEF RunExport, ExportFails, LoadDepth, SetTickInterval, Poll, boardVars
<1>6. ASSUME NEW h \in histories, HistoryPoint(h) \/ HistoryEnds(h) PROVE Counted'
  BY <1>6, CountedStays DEF HistoryPoint, HistoryEnds, boardVars
<1>7. ASSUME NEW call \in calls,
             \/ StreamHistory(call) \/ PayloadArrives(call)
             \/ BackendAnswers(call) \/ AnswerArrives(call) \/ PongArrives(call)
      PROVE  Counted'
  BY <1>7, CountedStays
     DEF StreamHistory, PayloadArrives, BackendAnswers, AnswerArrives, PongArrives, boardVars
<1>8. ASSUME UNCHANGED vars PROVE Counted' BY <1>8, CountedStays DEF vars, boardVars
<1> QED BY <1>1, <1>2, <1>3, <1>4, <1>5, <1>6, <1>7, <1>8 DEF Next, Replies, Streams

-----------------------------------------------------------------------------
(* The theorems.                                                           *)

(* What the page shows as under way is under way, also when calls overlap  *)
(* or the connection is lost in the middle; and one request at a time gets *)
(* what it asked for (select(), streamHistory(), fragmented(),             *)
(* onConnectionClose()).                                                   *)
THEOREM ThePageIsConsistent == Spec => []PageIsConsistent
<1>1. PageInv => PageIsConsistent
  <2> SUFFICES ASSUME PageInv PROVE NothingLingers /\ OneAtATime BY DEF PageIsConsistent
  <2>1. NothingLingers BY DEF NothingLingers, PageInv, Linked, Selection, Payloads
  <2>2. OneAtATime BY DEF OneAtATime, PageInv, Selection, Payloads
  <2> QED BY <2>1, <2>2
<1> QED BY <1>1, PageHolds, PTL

(* No tick is lost between the socket and the screen: the last of every    *)
(* symbol is rendered, or pending with an animation frame scheduled for    *)
(* it, and each one received is rendered, pending or counted as coalesced, *)
(* across the losses of the connection (applyTick(), scheduleFlush()).     *)
THEOREM NoTickIsLost == Spec => []TicksAreShownOrCounted
<1>1. PageInv => Drawn BY DEF PageInv
<1>2. Drawn /\ Counted => TicksAreShownOrCounted BY DEF Drawn, Counted, TicksAreShownOrCounted
<1> QED BY <1>1, <1>2, PageHolds, CountedInit, CountedStep, PTL DEF Spec
=============================================================================
