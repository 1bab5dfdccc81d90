----------------------------- MODULE Handshake ------------------------------
(***************************************************************************)
(* How a connection is agreed on: the subprotocol a dialer offers and an   *)
(* acceptor selects (ts/subprotocol.ts), the two hooks a `ws` server       *)
(* installs and what accept() checks on the open socket (ts/node.ts), and  *)
(* the origin policies (ts/origin.ts).  Everything here is a function of   *)
(* one request and the two configurations; Market.tla gives them states.   *)
(*                                                                         *)
(* A request is what reaches the server: the offered subprotocols, whether *)
(* its path is the server's, and the headers an origin policy reads.  A    *)
(* server is [hooks, settings, codec, policy]: the hooks installed on the  *)
(* `ws` server, the codec the hooks read from the settings, the codec      *)
(* accept() was given, and the origin policy.                              *)
(***************************************************************************)
EXTENDS Naturals, Sequences

----------------------------------------------------------------------------
(* The subprotocol.  An entry is a generation and a codec; generation 0    *)
(* stands for an application's own entry, which carries no muxws prefix.   *)

PREFIX == 1
Entry(codec) == [generation |-> PREFIX, codec |-> codec]
NoEntry == [generation |-> 0, codec |-> "none"]
Token == [generation |-> 0, codec |-> "token"]

Offer(codec, extra) == <<Entry(codec)>> \o extra

FindOffer(offered) ==
    LET muxws == {i \in DOMAIN offered : offered[i].generation = PREFIX}
    IN  IF muxws = {} THEN NoEntry
        ELSE offered[CHOOSE i \in muxws : \A j \in muxws : i <= j]

Select(offered, configured) ==
    IF FindOffer(offered) = Entry(configured) THEN Entry(configured) ELSE NoEntry

----------------------------------------------------------------------------
(* The upgrade on the server.  Without the handleProtocols hook `ws`       *)
(* selects the first entry; a selection of nothing is still answered 101.  *)
(* A server that is not of this package ("own") may select any entry, here *)
(* the last.                                                               *)

ShouldHandle(server, request) ==
    /\ request.path
    /\ "refuse" \in server.hooks => Select(request.offered, server.settings) # NoEntry

HandleProtocols(server, request) ==
    IF "select" \in server.hooks THEN Select(request.offered, server.settings)
    ELSE IF request.offered = <<>> THEN NoEntry
    ELSE IF "own" \in server.hooks THEN request.offered[Len(request.offered)]
    ELSE Head(request.offered)

Response(server, request) ==
    IF ShouldHandle(server, request)
    THEN [status |-> 101, selected |-> HandleProtocols(server, request)]
    ELSE [status |-> 400, selected |-> NoEntry]

----------------------------------------------------------------------------
(* The dialer.  WsEvent is what the `ws` client emits for a response:      *)
(* a 101 whose selection was not offered, or that selects nothing, aborts. *)

WsEvent(request, response) ==
    IF response.status # 101 THEN "unexpected-response"
    ELSE IF response.selected \in {request.offered[i] : i \in DOMAIN request.offered}
         THEN "open" ELSE "error"

\* Fault: the selection read from the 101 is not looked at when `ws` aborts.
DialWsByStatus(codec, request, response) ==
    LET event == WsEvent(request, response)
    IN  IF event = "open" THEN IF response.selected = Entry(codec) THEN "adapter" ELSE "CodecMismatch"
        ELSE IF response.status = 400 THEN "CodecMismatch" ELSE "Error"

\* What dialWs() ends with: "adapter", "CodecMismatch" or "Error".
DialWs(codec, request, response) ==
    LET event == WsEvent(request, response)
        upgraded == response.status = 101
    IN  CASE event = "open" ->
                 IF response.selected = Entry(codec) THEN "adapter" ELSE "CodecMismatch"
          [] event = "error" ->
                 IF upgraded /\ response.selected # Entry(codec) THEN "CodecMismatch" ELSE "Error"
          [] OTHER -> IF response.status = 400 THEN "CodecMismatch" ELSE "Error"

\* A browser refuses a selection that was not offered, and opens a socket with
\* none; of a refused upgrade it shows no more than that it was closed.
BrowserEvent(request, response) ==
    IF /\ response.status = 101
       /\ response.selected \in {NoEntry} \cup {request.offered[i] : i \in DOMAIN request.offered}
    THEN "open" ELSE "close"

\* BrowserSocket.connect(): a socket that never opened is a CodecMismatch too.
DialBrowser(codec, request, response) ==
    IF BrowserEvent(request, response) = "open" /\ response.selected = Entry(codec)
    THEN "adapter" ELSE "CodecMismatch"

----------------------------------------------------------------------------
(* The origin policies.  A header is the sequence of its values.  An       *)
(* origin is [scheme, host, port], its port explicit; the authority of a   *)
(* host header is [host, port], with port 0 when it names none.            *)

DefaultPort(scheme) == IF scheme = "https" THEN 443 ELSE 80
IsOrigin(value) == value.scheme \in {"http", "https"}

\* The request's single origin, as a set of at most one.
SingleOrigin(request) ==
    IF Len(request.origin) = 1 /\ IsOrigin(Head(request.origin)) THEN {Head(request.origin)} ELSE {}

RequestHost(policy, request) ==
    IF policy.trustForwardedHost /\ request.forwarded # <<>> THEN {Head(request.forwarded)}
    ELSE IF Len(request.host) = 1 THEN {Head(request.host)} ELSE {}

SameOriginAllows(policy, request) ==
    \E origin \in SingleOrigin(request) :
        \/ origin \in policy.also
        \/ \E host \in RequestHost(policy, request) :
              /\ host.host = origin.host
              /\ (IF host.port = 0 THEN DefaultPort(origin.scheme) ELSE host.port) = origin.port

\* compilePolicy(): no policy allows everything.
Allows(policy, request) ==
    CASE policy.kind = "none" -> TRUE
      [] policy.kind = "same" -> SameOriginAllows(policy, request)
      [] policy.kind = "exact" -> \E origin \in SingleOrigin(request) : origin \in policy.also
      [] policy.kind = "function" ->  \* here: no origin, or one of `also`
             /\ Len(request.origin) <= 1
             /\ \A i \in DOMAIN request.origin : request.origin[i] \in policy.also

\* What accept() does with the socket of an upgrade answered 101.
Accept(server, request, selected) ==
    IF ~Allows(server.policy, request) THEN "OriginRefused"
    ELSE IF selected # Entry(server.codec) THEN "CodecMismatch"
    ELSE "peer"
=============================================================================
