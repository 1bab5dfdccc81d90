------------------------------- MODULE Market -------------------------------
(***************************************************************************)
(* An acceptor process with a registry: connections that are refused or    *)
(* become peers (ts/node.ts with the hooks of Handshake.tla), the read     *)
(* loop's end that forgets a peer (demo/backend_node/main.ts), and the     *)
(* service on the peers (demo/backend_node/handlers.ts): a hello tags and  *)
(* registers its peer (Registry.tla) and starts its board, one pushed      *)
(* stream per symbol whose generator loops until the board stops; a kill   *)
(* closes every peer registered when it was asked for.                     *)
(*                                                                         *)
(* A turn of the event loop is a step.  What a turn calls synchronously is *)
(* one step with it: the close handlers of a peer run inside die(), and    *)
(* hello() runs to its reply.  A peer may be dead while its read loop      *)
(* still delivers what `ws` had buffered ("broken": the write loop's send  *)
(* failed), so a hello can still arrive for it.                            *)
(***************************************************************************)
EXTENDS Registry, Handshake

CONSTANTS Symbols,    \* the market's symbols
          Servers,    \* the servers dialed: see Handshake.tla
          Dials,      \* what dialers send: [by, codec, request, page, addressed]
          Greetings,  \* the tags of a hello
          Lookups,    \* what the registry is asked for
          MaxHellos,  \* bound: the hellos of one peer
          Killers     \* bound: one kill request each

ASSUME MarketAssumption ==
    /\ IsFiniteSet(Peers) /\ Peers \subseteq Nat /\ MaxHellos \in Nat
    /\ Greetings \subseteq Tags
    /\ \A wanted \in Lookups : DOMAIN wanted \subseteq Keys

Origin == [scheme : STRING, host : STRING, port : Nat]
Authority == [host : STRING, port : Nat]
Offered == Seq([generation : Nat, codec : STRING])

\* A host header that names the address of an origin.
Names(header, origin) ==
    /\ header.host = origin.host
    /\ origin.port = IF header.port = 0 THEN DefaultPort(origin.scheme) ELSE header.port

(* What reaches the server of a dial.  The muxws entry is offered first     *)
(* and the application's entries are not muxws entries (offer()).  A        *)
(* browser sends the origin of its page, if one at all, and the host it     *)
(* addressed, which a proxy keeps or replaces by a name of its own and      *)
(* forwards.  A page has the scheme of the address: SameOrigin does not     *)
(* compare schemes, and reads a host without a port by the page's.          *)
Honest(d) ==
    LET request == d.request
    IN  /\ request.offered \in Offered /\ request.offered # <<>>
        /\ Head(request.offered) = Entry(d.codec)
        /\ \A i \in 2 .. Len(request.offered) :
              request.offered[i].generation # PREFIX /\ request.offered[i] # NoEntry
        /\ d.page \in Origin /\ d.addressed \in Origin /\ IsOrigin(d.addressed)
        /\ IsOrigin(d.page) => d.page.scheme = d.addressed.scheme
        /\ request.origin \in Seq(Origin)
        /\ Len(request.origin) = 1 => request.origin = <<d.page>>
        /\ request.host \in Seq(Authority) /\ Len(request.host) = 1
        /\ request.forwarded \in Seq(Authority)
        /\ IF request.forwarded = <<>> THEN Names(Head(request.host), d.addressed)
           ELSE /\ Names(Head(request.forwarded), d.addressed)
                /\ Head(request.host).host # d.page.host

(* SameOrigin throws for an `also` that is not a list of origins.           *)
ASSUME DialsAssumption ==
    /\ \A d \in Dials : Honest(d)
    /\ \A server \in Servers : \A origin \in server.policy.also : IsOrigin(origin)

VARIABLES dial,      \* peer -> what its dialer sent to which server, until it is served
          dialer,    \* peer -> where its dialer is
          conn,      \* peer -> where its connection is, at this process
          hellos,    \* peer -> the hellos received
          tags,      \* peer -> its tags
          service,   \* [registry, handlers, boards, live]: see EmptyService
          gens,      \* peer -> the symbols whose generator is running
          killers,   \* killer -> the peers it still has to close, in order
          asked      \* killer -> the peers it was asked to close

vars == <<dial, dialer, conn, hellos, tags, service, gens, killers, asked>>

Dead == {"broken", "ended", "over"}
NoDial == [codec |-> "none"]

To(server, d) == [by |-> d.by, codec |-> d.codec, page |-> d.page, addressed |-> d.addressed,
                  request |-> d.request, server |-> server]

(* handlers: the peer's onClose handlers, "registry" and "board", which do *)
(* the same however often they are installed; boards: the peers with a     *)
(* board; live: the board's streams not closed.                            *)
EmptyService == [registry |-> EmptyRegistry,
                 handlers |-> [p \in Peers |-> {}],
                 boards   |-> {},
                 live     |-> [p \in Peers |-> {}]]

Init == /\ dial = [p \in Peers |-> NoDial]
        /\ dialer = [p \in Peers |-> "none"]
        /\ conn = [p \in Peers |-> "none"]
        /\ hellos = [p \in Peers |-> 0]
        /\ tags = [p \in Peers |-> [key \in Keys |-> Absent]]
        /\ service = EmptyService
        /\ gens = [p \in Peers |-> {}]
        /\ killers = [k \in Killers |-> <<>>]
        /\ asked = [k \in Killers |-> {}]

----------------------------------------------------------------------------
(* The connection until it is served.                                      *)

Dial(p) ==
    /\ conn[p] = "none"
    /\ \A q \in Peers : q < p => conn[q] \notin {"none", "dialed", "accepted", "refused"}
    /\ \E d \in Dials, server \in Servers :
          dial' = [dial EXCEPT ![p] = To(server, d)]
    /\ conn' = [conn EXCEPT ![p] = "dialed"]
    /\ dialer' = [dialer EXCEPT ![p] = "waiting"]
    /\ UNCHANGED <<hellos, tags, service, gens, killers, asked>>

\* `ws` answers the upgrade and emits "connection" in one turn: accept() too.
Upgrade(p) ==
    LET response == Response(dial[p].server, dial[p].request)
    IN  /\ conn[p] = "dialed"
        /\ conn' = [conn EXCEPT ![p] =
                       IF response.status # 101 THEN "refused"
                       ELSE IF Accept(dial[p].server, dial[p].request, response.selected) = "peer"
                            THEN "accepted" ELSE "refused"]
        /\ UNCHANGED <<dial, dialer, hellos, tags, service, gens, killers, asked>>

\* The response reaches the dialer.
Answer(p) ==
    /\ dialer[p] = "waiting" /\ conn[p] # "dialed"
    /\ LET response == Response(dial[p].server, dial[p].request)
       IN  dialer' = [dialer EXCEPT ![p] =
                         IF dial[p].by = "browser"
                         THEN DialBrowser(dial[p].codec, dial[p].request, response)
                         ELSE DialWs(dial[p].codec, dial[p].request, response)]
    /\ UNCHANGED <<dial, conn, hellos, tags, service, gens, killers, asked>>

\* serveConnection(): the handler is installed, and serve() reads from now on,
\* until the socket closes: at once for a dialer that has given up.
Serve(p) ==
    /\ conn[p] = "accepted" /\ dialer[p] # "waiting"
    /\ conn' = [conn EXCEPT ![p] = IF dialer[p] = "adapter" THEN "open" ELSE "over"]
    /\ dial' = [dial EXCEPT ![p] = NoDial]
    /\ dialer' = [dialer EXCEPT ![p] = "none"]
    /\ UNCHANGED <<hellos, tags, service, gens, killers, asked>>

\* serve() has swallowed the refusal; the socket is closed at both ends.
Refused(p) ==
    /\ conn[p] = "refused" /\ dialer[p] # "waiting"
    /\ conn' = [conn EXCEPT ![p] = "over"]
    /\ dial' = [dial EXCEPT ![p] = NoDial]
    /\ dialer' = [dialer EXCEPT ![p] = "none"]
    /\ UNCHANGED <<hellos, tags, service, gens, killers, asked>>

----------------------------------------------------------------------------
(* The service, as functions of its state that one turn composes.          *)

\* forget(): the board's streams are cancelled at once, its generators later.
Forget(s, p) ==
    [s EXCEPT !.boards = @ \ {p},
              !.live[p] = IF p \in s.boards THEN {} ELSE @,
              !.registry = Deregister(@, p)]

CallHandler(s, p, handler) ==
    IF handler = "board" THEN Forget(s, p) ELSE [s EXCEPT !.registry = Deregister(@, p)]

\* Fault: a handler installed on a closed peer waits for the next close.
OnCloseLater(s, p, handler, dead) == [s EXCEPT !.handlers[p] = @ \cup {handler}]

\* peer.onClose(): on a peer already closed for good the handler runs at once.
OnClose(s, p, handler, dead) ==
    LET added == [s EXCEPT !.handlers[p] = @ \cup {handler}]
    IN  IF dead THEN CallHandler(added, p, handler) ELSE added

\* registry.register() and the hook it installs once per peer.
RegisterPeer(s, p, newTags, dead) ==
    LET registered == [s EXCEPT !.registry = Register(@, p, newTags)]
    IN  IF p \in s.registry.hooked THEN registered ELSE OnClose(registered, p, "registry", dead)

\* open() throws on a dead peer: its board has no streams.
StartBoard(s, p, dead) ==
    IF p \in s.boards
    THEN s
    ELSE OnClose([s EXCEPT !.boards = @ \cup {p},
                           !.live[p] = IF dead THEN {} ELSE Symbols], p, "board", dead)

Called(s, p, handler) == IF handler \in s.handlers[p] THEN CallHandler(s, p, handler) ELSE s

\* die(): the live streams fail, then the close handlers run: the registry's,
\* which a hello installs first, and the board's.
Die(s, p) == Called(Called([s EXCEPT !.live[p] = {}], p, "registry"), p, "board")

----------------------------------------------------------------------------
(* The actions of a served peer.                                           *)

Hello(p) ==
    /\ conn[p] \in {"open", "broken"}
    /\ hellos[p] < MaxHellos
    /\ \E greeting \in Greetings :
          LET newTags == [key \in Keys |-> IF greeting[key] = Absent THEN tags[p][key] ELSE greeting[key]]
              dead == conn[p] \in Dead
              started == StartBoard(RegisterPeer(service, p, newTags, dead), p, dead)
          IN  /\ tags' = [tags EXCEPT ![p] = newTags]
              /\ service' = started
              /\ gens' = [gens EXCEPT ![p] = @ \cup (started.live[p] \ service.live[p])]
    /\ hellos' = [hellos EXCEPT ![p] = @ + 1]
    /\ UNCHANGED <<dial, dialer, conn, killers, asked>>

\* The dialer ends or refuses one of the board's streams.
StreamReset(p, symbol) ==
    /\ conn[p] \in {"open", "draining"} /\ symbol \in service.live[p]
    /\ service' = [service EXCEPT !.live[p] = @ \ {symbol}]
    /\ UNCHANGED <<dial, dialer, conn, hellos, tags, gens, killers, asked>>

\* pushTicks() wakes and finds its board stopped or its stream closed: the
\* finally block cancels the stream.
GeneratorEnds(p, symbol) ==
    /\ symbol \in gens[p]
    /\ p \notin service.boards \/ symbol \notin service.live[p]
    /\ gens' = [gens EXCEPT ![p] = @ \ {symbol}]
    /\ service' = [service EXCEPT !.live[p] = @ \ {symbol}]
    /\ UNCHANGED <<dial, dialer, conn, hellos, tags, killers, asked>>

\* The socket is lost, or the write loop's send fails while reads go on.
Lose(p) ==
    /\ conn[p] \in {"open", "draining"}
    /\ \E fate \in {"ended", "broken"} : conn' = [conn EXCEPT ![p] = fate]
    /\ service' = Die(service, p)
    /\ UNCHANGED <<dial, dialer, hellos, tags, gens, killers, asked>>

ReadsEnd(p) ==
    /\ conn[p] = "broken"
    /\ conn' = [conn EXCEPT ![p] = "ended"]
    /\ UNCHANGED <<dial, dialer, hellos, tags, service, gens, killers, asked>>

\* The finally block of serveConnection().
ServeReturns(p) ==
    /\ conn[p] = "ended"
    /\ conn' = [conn EXCEPT ![p] = "over"]
    /\ service' = Forget(service, p)
    /\ UNCHANGED <<dial, dialer, hellos, tags, gens, killers, asked>>

----------------------------------------------------------------------------
(* The kill.                                                               *)

\* kill(): the snapshot of the registry, sorted by id.
Kill(k) ==
    LET peers == PeersFor(service.registry, <<>>)
    IN  /\ asked[k] = {} /\ peers # {}
        /\ \E queue \in [1 .. Cardinality(peers) -> peers] :
              /\ \A i, j \in DOMAIN queue : i < j => queue[i] < queue[j]
              /\ Range(queue) = peers
              /\ killers' = [killers EXCEPT ![k] = queue]
        /\ asked' = [asked EXCEPT ![k] = peers]
        /\ UNCHANGED <<dial, dialer, conn, hellos, tags, service, gens>>

\* closeEveryPeer() turns to its next peer: forget() and then close(), which
\* sends the goaway and drains.
KillTurns(k) ==
    LET p == Head(killers[k])
    IN  /\ killers[k] # <<>> /\ conn[p] = "open"
        /\ service' = Forget(service, p)
        /\ conn' = [conn EXCEPT ![p] = "draining"]
        /\ UNCHANGED <<dial, dialer, hellos, tags, gens, killers, asked>>

\* The drain of a close() is over, by itself or at its deadline.
CloseEnds(p) ==
    /\ conn[p] = "draining"
    /\ conn' = [conn EXCEPT ![p] = "ended"]
    /\ service' = Die(service, p)
    /\ UNCHANGED <<dial, dialer, hellos, tags, gens, killers, asked>>

\* Fault: a peer found dead at its turn ends the loop.
KillStopsAtDead(k) ==
    /\ killers[k] # <<>> /\ conn[Head(killers[k])] \in Dead
    /\ service' = Forget(service, Head(killers[k]))
    /\ killers' = [killers EXCEPT ![k] = IF conn[Head(@)] = "broken" THEN <<>> ELSE Tail(@)]
    /\ UNCHANGED <<dial, dialer, conn, hellos, tags, gens, asked>>

\* close() has returned, or the peer was gone when its turn came: the next.
KillGoesOn(k) ==
    /\ killers[k] # <<>> /\ conn[Head(killers[k])] \in Dead
    /\ service' = Forget(service, Head(killers[k]))
    /\ killers' = [killers EXCEPT ![k] = Tail(@)]
    /\ UNCHANGED <<dial, dialer, conn, hellos, tags, gens, asked>>

----------------------------------------------------------------------------
Next == \/ \E p \in Peers : \/ Dial(p) \/ Upgrade(p) \/ Answer(p) \/ Serve(p) \/ Refused(p)
                            \/ Hello(p) \/ Lose(p) \/ ReadsEnd(p) \/ ServeReturns(p) \/ CloseEnds(p)
                            \/ \E symbol \in Symbols : StreamReset(p, symbol) \/ GeneratorEnds(p, symbol)
        \/ \E k \in Killers : Kill(k) \/ KillTurns(k) \/ KillGoesOn(k)

Spec == Init /\ [][Next]_vars

----------------------------------------------------------------------------
(* Properties.                                                             *)

\* The three structures of the registry have their types, and what one peer
\* holds of the service is of that peer.
TypeOK ==
    /\ DOMAIN service.registry.entries \subseteq Peers
    /\ DOMAIN service.registry.index \subseteq Keys \X Values
    /\ \A bucket \in DOMAIN service.registry.index :
          service.registry.index[bucket] \in (SUBSET Peers) \ {{}}
    /\ service.boards \subseteq Peers
    /\ service.live \in [Peers -> SUBSET Symbols]
    /\ gens \in [Peers -> SUBSET Symbols]
    /\ tags \in [Peers -> Tags]

(* The two ends of a handshake end it alike.  A peer that accept() returned *)
(* has at the other end a dialer that offered its codec and holds an open   *)
(* socket.  A dialer that is refused, by a status, by the selection of      *)
(* nothing or of another entry, learns it as CodecMismatch and never as an  *)
(* error of the socket: on any server with one of the hooks whose accept()  *)
(* has the codec of the settings (dialWs(), BrowserSocket.connect(),        *)
(* handleProtocols(), accept()).                                           *)
EndsAgree ==
    \A p \in Peers : conn[p] \in {"accepted", "refused"} /\ dialer[p] # "waiting" =>
        LET server == dial[p].server
        IN  /\ conn[p] = "accepted" => dialer[p] = "adapter" /\ dial[p].codec = server.codec
            /\ (/\ conn[p] = "refused" /\ Allows(server.policy, dial[p].request)
                /\ server.hooks \cap {"select", "refuse"} # {} /\ server.settings = server.codec)
               => dialer[p] = "CodecMismatch"
            /\ dialer[p] # "Error"

(* Under SameOrigin a connection is served exactly to the pages of the      *)
(* host and port that were addressed and to those of `also`, whatever a     *)
(* proxy does to the Host header, provided that the policy is told of a     *)
(* proxy that rewrites it (accept(), SameOrigin).                           *)
PagesOfItsHost ==
    \A p \in Peers : conn[p] \in {"accepted", "refused"} /\ dial[p].server.policy.kind = "same" =>
        LET policy == dial[p].server.policy
            own == dial[p].page \in policy.also \cup {dial[p].addressed}
            proxyKnown == dial[p].request.forwarded = <<>> \/ policy.trustForwardedHost
        IN  /\ conn[p] = "accepted" => own
            /\ own /\ proxyKnown /\ Len(dial[p].request.origin) = 1 =>
                  Accept(dial[p].server, dial[p].request, NoEntry) # "OriginRefused"

(* A lookup answers with exactly the peers whose tags, when they were last *)
(* registered, match every key: nothing remains of an earlier register(),  *)
(* whatever was registered, forgotten and closed since (ts/registry.ts).   *)
LookupIsExact ==
    \A wanted \in Lookups :
        PeersFor(service.registry, wanted) =
            {p \in DOMAIN service.registry.entries : \A key \in DOMAIN wanted :
                tags[p][key] = wanted[key] /\ IsIndexable(wanted[key])}

(* A peer that is closed is in no lookup, has no board and no open stream: *)
(* also when its hello came after its death, when its close handlers had   *)
(* run already (register() and startBoard() on a closed peer).             *)
DeadIsGone ==
    \A p \in Peers : conn[p] \in Dead =>
        /\ p \notin PeersFor(service.registry, <<>>)
        /\ p \notin service.boards
        /\ service.live[p] = {}

(* The close of a kill never waits for the board, whose streams do not end *)
(* by themselves: none is live when the drain starts and none is opened    *)
(* while it lasts (closeEveryPeer()).                                      *)
KillSparesTheDrain ==
    \A p \in Peers : conn[p] = "draining" => service.live[p] = {} /\ p \notin service.boards

(* A kill misses no peer it was asked to close: each is closed, or still to *)
(* be reached by the loop, whatever was lost, killed by another kill or     *)
(* refused while the loop waited for the one before (closeEveryPeer()).     *)
KillMissesNone ==
    \A k \in Killers : \A p \in asked[k] :
        conn[p] \in Dead \/ p \in {killers[k][i] : i \in DOMAIN killers[k]}

(* Origin and subprotocol at once: a page of this host gets the codec it   *)
(* offered or learns why not, and no other page gets anything.             *)
HandshakeSound == EndsAgree /\ PagesOfItsHost

(* A kill closes all that it was asked to close, each without its drain    *)
(* window running out on the board (closeEveryPeer()).                     *)
KillIsExact == KillSparesTheDrain /\ KillMissesNone
=============================================================================
