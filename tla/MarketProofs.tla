---------------------------- MODULE MarketProofs ----------------------------
(***************************************************************************)
(* Theorems about an acceptor process, for every set of peers, tags,       *)
(* symbols, servers and kills.                                             *)
(*                                                                         *)
(* The registry comes first: its operations keep the index and the reverse *)
(* map two views of one relation (Faithful).  MarketInv then says what a   *)
(* peer has of the service wherever its connection is.                     *)
(***************************************************************************)
EXTENDS Market, FiniteSetTheorems, SequenceTheorems, TLAPS

-----------------------------------------------------------------------------
(* The registry.                                                           *)

Buckets == Keys \X Values
Registries == [index : UNION {[D -> SUBSET Peers] : D \in SUBSET Buckets},
               entries : UNION {[D -> SUBSET Buckets] : D \in SUBSET Peers},
               hooked : SUBSET Peers]

(* A bucket holds exactly the peers whose entries name it, and is dropped   *)
(* with the last of them.                                                  *)
Faithful(r) ==
    /\ \A bucket \in Buckets :
          Holders(r.index, bucket) = {p \in DOMAIN r.entries : bucket \in r.entries[p]}
    /\ \A bucket \in DOMAIN r.index : r.index[bucket] # {}

LEMMA RegistryType ==
  ASSUME NEW r \in Registries
  PROVE  /\ DOMAIN r.entries \subseteq Peers /\ r.entries \in [DOMAIN r.entries -> SUBSET Buckets]
         /\ DOMAIN r.index \subseteq Buckets /\ r.index \in [DOMAIN r.index -> SUBSET Peers]
         /\ r.hooked \subseteq Peers
         /\ r = [index |-> r.index, entries |-> r.entries, hooked |-> r.hooked]
<1>1. PICK D \in SUBSET Buckets : r.index \in [D -> SUBSET Peers] BY DEF Registries
<1>2. PICK E \in SUBSET Peers : r.entries \in [E -> SUBSET Buckets] BY DEF Registries
<1> QED BY <1>1, <1>2 DEF Registries

LEMMA MakeRegistry ==
  ASSUME NEW D \in SUBSET Buckets, NEW i \in [D -> SUBSET Peers],
         NEW E \in SUBSET Peers, NEW e \in [E -> SUBSET Buckets], NEW h \in SUBSET Peers
  PROVE  [index |-> i, entries |-> e, hooked |-> h] \in Registries
BY DEF Registries

LEMMA EmptyFacts == EmptyRegistry \in Registries /\ Faithful(EmptyRegistry)
                    /\ DOMAIN EmptyRegistry.entries = {} /\ EmptyRegistry.hooked = {}
<1>1. << >> \in [{} -> SUBSET Peers] /\ << >> \in [{} -> SUBSET Buckets] /\ DOMAIN << >> = {} OBVIOUS
<1>2. EmptyRegistry \in Registries BY <1>1, MakeRegistry DEF EmptyRegistry
<1> QED BY <1>1, <1>2 DEF EmptyRegistry, Faithful, Holders

LEMMA EntriesFacts ==
  ASSUME NEW tag \in Tags
  PROVE  /\ Entries(tag) \subseteq Buckets
         /\ \A key \in Keys, value \in Values : <<key, value>> \in Entries(tag) <=> tag[key] = value
BY DEF Entries, Buckets, IsIndexable, Tags

(* Deregister takes a peer out of every bucket, and a bucket with nobody   *)
(* left goes.                                                              *)
LEMMA DeregisterFacts ==
  ASSUME NEW r \in Registries, Faithful(r), NEW peer \in Peers
  PROVE  /\ Deregister(r, peer) \in Registries /\ Faithful(Deregister(r, peer))
         /\ DOMAIN Deregister(r, peer).entries = DOMAIN r.entries \ {peer}
         /\ \A p \in DOMAIN r.entries \ {peer} : Deregister(r, peer).entries[p] = r.entries[p]
         /\ Deregister(r, peer).hooked = r.hooked
<1>1. CASE peer \notin DOMAIN r.entries BY <1>1 DEF Deregister
<1>2. CASE peer \in DOMAIN r.entries
  <2> DEFINE e == [p \in DOMAIN r.entries \ {peer} |-> r.entries[p]]
             left(b) == r.index[b] \ (IF b \in r.entries[peer] THEN {peer} ELSE {})
             D == {b \in DOMAIN r.index : left(b) # {}}
             i == [b \in D |-> left(b)]
  <2>1. /\ DOMAIN r.entries \subseteq Peers /\ r.entries \in [DOMAIN r.entries -> SUBSET Buckets]
        /\ DOMAIN r.index \subseteq Buckets /\ r.index \in [DOMAIN r.index -> SUBSET Peers]
        /\ r.hooked \subseteq Peers
        /\ r = [index |-> r.index, entries |-> r.entries, hooked |-> r.hooked]
    BY RegistryType
  <2>2. Deregister(r, peer) = [index |-> i, entries |-> e, hooked |-> r.hooked]
    <3> DEFINE all == [b \in DOMAIN r.index |-> left(b)]
    <3>1. Pruned(all) = i BY DEF Pruned, Restrict
    <3>2. Restrict(r.entries, DOMAIN r.entries \ {peer}) = e BY DEF Restrict
    <3>3. Deregister(r, peer) =
            [r EXCEPT !.entries = Restrict(r.entries, DOMAIN r.entries \ {peer}), !.index = Pruned(all)]
      BY <1>2 DEF Deregister
    <3> HIDE DEF all, i, e
    <3> QED BY <2>1, <3>1, <3>2, <3>3
  <2>3. e \in [DOMAIN r.entries \ {peer} -> SUBSET Buckets] /\ DOMAIN r.entries \ {peer} \subseteq Peers
    BY <2>1
  <2>4. i \in [D -> SUBSET Peers] /\ D \subseteq Buckets BY <2>1
  <2> DEFINE d == [index |-> i, entries |-> e, hooked |-> r.hooked]
  <2>5. d \in Registries BY <2>1, <2>3, <2>4, MakeRegistry
  <2>6. \A b \in Buckets : Holders(i, b) = Holders(r.index, b) \ (IF b \in r.entries[peer] THEN {peer} ELSE {})
    BY DEF Holders
  <2>7. Faithful(d)
    <3> SUFFICES ASSUME NEW b \in Buckets
                 PROVE  Holders(i, b) = {p \in DOMAIN e : b \in e[p]}
      <4>1. \A b \in DOMAIN i : i[b] # {} OBVIOUS
      <4> QED BY <4>1 DEF Faithful
    <3>1. Holders(r.index, b) = {p \in DOMAIN r.entries : b \in r.entries[p]} BY DEF Faithful
    <3> QED BY <1>2, <2>6, <3>1
  <2> QED BY <2>2, <2>5, <2>7
<1> QED BY <1>1, <1>2

(* Register forgets the old entries of the peer and indexes the new tags.  *)
LEMMA RegisterFacts ==
  ASSUME NEW r \in Registries, Faithful(r), NEW peer \in Peers, NEW tag \in Tags
  PROVE  /\ Register(r, peer, tag) \in Registries /\ Faithful(Register(r, peer, tag))
         /\ DOMAIN Register(r, peer, tag).entries = DOMAIN r.entries \cup {peer}
         /\ Register(r, peer, tag).entries[peer] = Entries(tag)
         /\ \A p \in DOMAIN r.entries \ {peer} : Register(r, peer, tag).entries[p] = r.entries[p]
         /\ Register(r, peer, tag).hooked = r.hooked \cup {peer}
<1> DEFINE w == Deregister(r, peer)
           wanted == Entries(tag)
           E == DOMAIN w.entries \cup {peer}
           D == DOMAIN w.index \cup wanted
           e == [p \in E |-> IF p = peer THEN wanted ELSE w.entries[p]]
           i == [b \in D |-> Holders(w.index, b) \cup (IF b \in wanted THEN {peer} ELSE {})]
           d == [index |-> i, entries |-> e, hooked |-> w.hooked \cup {peer}]
<1>1. /\ w \in Registries /\ Faithful(w) /\ DOMAIN w.entries = DOMAIN r.entries \ {peer}
      /\ \A p \in DOMAIN r.entries \ {peer} : w.entries[p] = r.entries[p]
      /\ w.hooked = r.hooked
  BY DeregisterFacts
<1>2. Register(r, peer, tag) = d BY DEF Register
<1> HIDE DEF w
<1>3. /\ DOMAIN w.entries \subseteq Peers /\ w.entries \in [DOMAIN w.entries -> SUBSET Buckets]
      /\ DOMAIN w.index \subseteq Buckets /\ w.index \in [DOMAIN w.index -> SUBSET Peers]
      /\ w.hooked \subseteq Peers
  BY <1>1, RegistryType
<1>4. wanted \subseteq Buckets BY EntriesFacts
<1> HIDE DEF wanted
<1>5. e \in [E -> SUBSET Buckets] /\ E \subseteq Peers BY <1>3, <1>4
<1>6. i \in [D -> SUBSET Peers] /\ D \subseteq Buckets BY <1>3, <1>4 DEF Holders
<1>7. d \in Registries BY <1>3, <1>5, <1>6, MakeRegistry
<1>8. \A b \in Buckets : Holders(i, b) = Holders(w.index, b) \cup (IF b \in wanted THEN {peer} ELSE {})
  BY DEF Holders
<1>9. Faithful(d)
  <2> SUFFICES ASSUME NEW b \in Buckets
               PROVE  Holders(i, b) = {p \in DOMAIN e : b \in e[p]}
    <3>1. \A b \in DOMAIN i : i[b] # {}
      <4>1. \A b \in DOMAIN w.index : w.index[b] # {} BY <1>1 DEF Faithful
      <4> QED BY <4>1 DEF Holders
    <3> QED BY <3>1 DEF Faithful
  <2>1. Holders(w.index, b) = {p \in DOMAIN w.entries : b \in w.entries[p]} BY <1>1 DEF Faithful
  <2>2. peer \notin DOMAIN w.entries BY <1>1
  <2> QED BY <1>8, <2>1, <2>2
<1>10. /\ d.entries = e /\ d.hooked = r.hooked \cup {peer} /\ E = DOMAIN r.entries \cup {peer}
       /\ e[peer] = Entries(tag) /\ \A p \in DOMAIN r.entries \ {peer} : e[p] = r.entries[p]
  BY <1>1 DEF wanted
<1> HIDE DEF d, e
<1>11. DOMAIN e = E BY DEF e
<1> QED BY <1>2, <1>7, <1>9, <1>10, <1>11

(* Lookups.                                                                *)
LEMMA LookupFacts ==
  ASSUME NEW r \in Registries, Faithful(r), NEW tag \in [Peers -> Tags],
         \A p \in DOMAIN r.entries : r.entries[p] = Entries(tag[p]),
         NEW wanted, DOMAIN wanted \subseteq Keys
  PROVE  PeersFor(r, wanted) = {p \in DOMAIN r.entries : \A key \in DOMAIN wanted :
                                   tag[p][key] = wanted[key] /\ IsIndexable(wanted[key])}
<1>1. DOMAIN r.entries \subseteq Peers BY RegistryType
<1>2. CASE DOMAIN wanted = {} BY <1>2 DEF PeersFor
<1>3. CASE DOMAIN wanted # {}
  <2>1. ASSUME NEW p \in Peers, NEW key \in DOMAIN wanted, IsIndexable(wanted[key])
        PROVE  p \in Holders(r.index, <<key, wanted[key]>>)
               <=> p \in DOMAIN r.entries /\ tag[p][key] = wanted[key]
    <3>1. key \in Keys /\ wanted[key] \in Values BY <2>1 DEF IsIndexable
    <3>2. <<key, wanted[key]>> \in Buckets BY <3>1 DEF Buckets
    <3>3. Holders(r.index, <<key, wanted[key]>>)
            = {q \in DOMAIN r.entries : <<key, wanted[key]>> \in r.entries[q]}
      BY <3>2 DEF Faithful
    <3>4. tag[p] \in Tags OBVIOUS
    <3>5. <<key, wanted[key]>> \in Entries(tag[p]) <=> tag[p][key] = wanted[key]
      BY <3>1, <3>4, EntriesFacts
    <3> QED BY <3>3, <3>5
  <2>2. PeersFor(r, wanted) = {p \in Peers : \A key \in DOMAIN wanted :
             IsIndexable(wanted[key]) /\ p \in Holders(r.index, <<key, wanted[key]>>)}
    BY <1>3 DEF PeersFor
  <2>3. PICK some : some \in DOMAIN wanted BY <1>3
  <2>4. ASSUME NEW p \in Peers
        PROVE  (\A key \in DOMAIN wanted : IsIndexable(wanted[key]) /\ p \in Holders(r.index, <<key, wanted[key]>>))
               <=> p \in DOMAIN r.entries /\ \A key \in DOMAIN wanted :
                       tag[p][key] = wanted[key] /\ IsIndexable(wanted[key])
    BY <2>1, <2>3
  <2> HIDE DEF Faithful
  <2> QED BY <1>1, <2>2, <2>4
<1> QED BY <1>2, <1>3

-----------------------------------------------------------------------------
(* The service.                                                            *)

Services == [registry : Registries, handlers : [Peers -> SUBSET {"registry", "board"}],
             boards : SUBSET Peers, live : [Peers -> SUBSET Symbols]]

Registered(s) == DOMAIN s.registry.entries

(* A turn that works on peer p: what the service has of the others stays.  *)
Only(s, t, p) ==
    /\ t \in Services /\ Faithful(t.registry)
    /\ \A q \in Peers \ {p} :
          /\ q \in Registered(t) <=> q \in Registered(s)
          /\ q \in Registered(s) => t.registry.entries[q] = s.registry.entries[q]
          /\ q \in t.registry.hooked <=> q \in s.registry.hooked
          /\ t.handlers[q] = s.handlers[q]
          /\ q \in t.boards <=> q \in s.boards
          /\ t.live[q] = s.live[q]

(* The service has nothing of a peer.                                      *)
Gone(s, p) == p \notin Registered(s) /\ p \notin s.boards /\ s.live[p] = {}

(* What the service has of a peer its close handlers will take away.       *)
Covered(s, p) ==
    /\ p \in Registered(s) => p \in s.registry.hooked
    /\ p \in s.registry.hooked => "registry" \in s.handlers[p]
    /\ p \in s.boards => "board" \in s.handlers[p]
    /\ s.live[p] # {} => p \in s.boards

LEMMA OnlyChains ==
  ASSUME NEW s, NEW t, NEW u, NEW p \in Peers, Only(s, t, p), Only(t, u, p)
  PROVE  Only(s, u, p)
BY DEF Only

LEMMA ForgetFacts ==
  ASSUME NEW s \in Services, Faithful(s.registry), NEW p \in Peers
  PROVE  /\ Only(s, Forget(s, p), p)
         /\ p \notin Registered(Forget(s, p)) /\ p \notin Forget(s, p).boards
         /\ Forget(s, p).live[p] = IF p \in s.boards THEN {} ELSE s.live[p]
         /\ Forget(s, p).handlers = s.handlers /\ Forget(s, p).registry.hooked = s.registry.hooked
<1> DEFINE r == Deregister(s.registry, p)
<1>1. s.registry \in Registries BY DEF Services
<1>2. /\ r \in Registries /\ Faithful(r)
      /\ DOMAIN r.entries = DOMAIN s.registry.entries \ {p}
      /\ \A q \in DOMAIN s.registry.entries \ {p} : r.entries[q] = s.registry.entries[q]
      /\ r.hooked = s.registry.hooked
  BY <1>1, DeregisterFacts
<1>3. Forget(s, p) = [s EXCEPT !.boards = s.boards \ {p},
                               !.live[p] = IF p \in s.boards THEN {} ELSE s.live[p],
                               !.registry = r]
  BY DEF Forget
<1> HIDE DEF r
<1> DEFINE t == Forget(s, p)
<1>4. /\ t \in Services /\ t.registry = r /\ t.handlers = s.handlers /\ t.boards = s.boards \ {p}
      /\ t.live[p] = IF p \in s.boards THEN {} ELSE s.live[p]
      /\ \A q \in Peers \ {p} : t.live[q] = s.live[q]
  <2> DEFINE left == IF p \in s.boards THEN {} ELSE s.live[p]
             live == [s.live EXCEPT ![p] = left]
  <2>1. /\ live \in [Peers -> SUBSET Symbols] /\ live[p] = left
        /\ \A q \in Peers \ {p} : live[q] = s.live[q]
    BY DEF Services
  <2>2. t = [s EXCEPT !.boards = s.boards \ {p}, !.live = live, !.registry = r] BY <1>3
  <2> HIDE DEF live, left
  <2>3. t = [registry |-> r, handlers |-> s.handlers, boards |-> s.boards \ {p}, live |-> live]
    <3>1. s = [registry |-> s.registry, handlers |-> s.handlers, boards |-> s.boards, live |-> s.live]
      BY DEF Services
    <3> HIDE DEF t
    <3> QED BY <2>2, <3>1
  <2> HIDE DEF t
  <2>4. s.handlers \in [Peers -> SUBSET {"registry", "board"}] /\ s.boards \ {p} \in SUBSET Peers
    BY DEF Services
  <2>5. t \in Services BY <1>2, <2>1, <2>3, <2>4 DEF Services
  <2> QED BY <2>1, <2>3, <2>5 DEF left
<1> HIDE DEF t
<1>5. Only(s, t, p) BY <1>2, <1>4 DEF Only, Registered
<1> QED BY <1>2, <1>4, <1>5 DEF t, Registered

LEMMA CallHandlerFacts ==
  ASSUME NEW s \in Services, Faithful(s.registry), NEW p \in Peers, NEW handler \in {"registry", "board"}
  PROVE  /\ Only(s, CallHandler(s, p, handler), p) /\ p \notin Registered(CallHandler(s, p, handler))
         /\ CallHandler(s, p, handler).handlers = s.handlers
         /\ CallHandler(s, p, handler).registry.hooked = s.registry.hooked
         /\ IF handler = "board"
            THEN /\ p \notin CallHandler(s, p, handler).boards
                 /\ CallHandler(s, p, handler).live[p] = IF p \in s.boards THEN {} ELSE s.live[p]
            ELSE /\ CallHandler(s, p, handler).boards = s.boards
                 /\ CallHandler(s, p, handler).live = s.live
<1>1. CASE handler = "board" BY <1>1, ForgetFacts DEF CallHandler
<1>2. CASE handler = "registry"
  <2> DEFINE r == Deregister(s.registry, p)
             t == [s EXCEPT !.registry = r]
  <2>1. s.registry \in Registries BY DEF Services
  <2>2. /\ r \in Registries /\ Faithful(r)
        /\ DOMAIN r.entries = DOMAIN s.registry.entries \ {p}
        /\ \A q \in DOMAIN s.registry.entries \ {p} : r.entries[q] = s.registry.entries[q]
        /\ r.hooked = s.registry.hooked
    BY <2>1, DeregisterFacts
  <2>3. CallHandler(s, p, handler) = t BY <1>2 DEF CallHandler
  <2> HIDE DEF r
  <2>4. /\ t \in Services /\ t.registry = r /\ t.handlers = s.handlers /\ t.boards = s.boards
        /\ t.live = s.live
    BY <2>2 DEF Services
  <2> HIDE DEF t
  <2>5. Only(s, t, p) BY <2>2, <2>4 DEF Only, Registered
  <2> QED BY <1>2, <2>2, <2>3, <2>4, <2>5 DEF Registered
<1> QED BY <1>1, <1>2

LEMMA OnClosedFacts ==
  ASSUME NEW s \in Services, Faithful(s.registry), NEW p \in Peers, NEW handler \in {"registry", "board"}
  PROVE  LET t == OnClose(s, p, handler, FALSE)
         IN  /\ Only(s, t, p) /\ t.registry = s.registry /\ t.boards = s.boards /\ t.live = s.live
             /\ t.handlers[p] = s.handlers[p] \cup {handler}
<1> DEFINE t == [s EXCEPT !.handlers[p] = @ \cup {handler}]
<1>1. OnClose(s, p, handler, FALSE) = t BY DEF OnClose
<1>2. /\ t \in Services /\ t.registry = s.registry /\ t.boards = s.boards /\ t.live = s.live
      /\ t.handlers[p] = s.handlers[p] \cup {handler}
      /\ \A q \in Peers \ {p} : t.handlers[q] = s.handlers[q]
  BY DEF Services
<1> HIDE DEF t
<1>3. Only(s, t, p) BY <1>2 DEF Only, Registered
<1> QED BY <1>1, <1>2, <1>3

LEMMA OnDeadFacts ==
  ASSUME NEW s \in Services, Faithful(s.registry), NEW p \in Peers, NEW handler \in {"registry", "board"}
  PROVE  LET t == OnClose(s, p, handler, TRUE)
         IN  /\ Only(s, t, p) /\ p \notin Registered(t)
             /\ IF handler = "board"
                THEN p \notin t.boards /\ t.live[p] = IF p \in s.boards THEN {} ELSE s.live[p]
                ELSE t.boards = s.boards /\ t.live = s.live
<1> DEFINE a == OnClose(s, p, handler, FALSE)
<1>1. /\ Only(s, a, p) /\ a.registry = s.registry /\ a.boards = s.boards /\ a.live = s.live
  BY OnClosedFacts
<1>2. OnClose(s, p, handler, TRUE) = CallHandler(a, p, handler) BY DEF OnClose
<1>3. a \in Services /\ Faithful(a.registry) BY <1>1 DEF Only
<1> HIDE DEF a
<1> DEFINE t == CallHandler(a, p, handler)
<1>4. /\ Only(a, t, p) /\ p \notin Registered(t)
      /\ IF handler = "board"
         THEN p \notin t.boards /\ t.live[p] = IF p \in a.boards THEN {} ELSE a.live[p]
         ELSE t.boards = a.boards /\ t.live = a.live
  BY <1>3, CallHandlerFacts
<1> HIDE DEF t
<1>5. Only(s, t, p) BY <1>1, <1>4, OnlyChains
<1> QED BY <1>1, <1>2, <1>4, <1>5 DEF t

(* die() leaves nothing of a peer whose handlers cover what it has.        *)
LEMMA DieFacts ==
  ASSUME NEW s \in Services, Faithful(s.registry), NEW p \in Peers
  PROVE  /\ Only(s, Die(s, p), p)
         /\ Covered(s, p) \/ Gone(s, p) => Gone(Die(s, p), p)
<1> DEFINE a == [s EXCEPT !.live[p] = {}]
           b == Called(a, p, "registry")
           c == Called(b, p, "board")
<1>1. Die(s, p) = c BY DEF Die
<1>2. /\ a \in Services /\ a.registry = s.registry /\ a.handlers = s.handlers /\ a.boards = s.boards
      /\ a.live[p] = {} /\ \A q \in Peers \ {p} : a.live[q] = s.live[q]
  BY DEF Services
<1> HIDE DEF a
<1>3. Only(s, a, p) BY <1>2 DEF Only, Registered
<1>4. /\ Only(a, b, p) /\ b.handlers = a.handlers /\ b.boards = a.boards /\ b.live = a.live
      /\ "registry" \in a.handlers[p] \/ p \notin Registered(a) => p \notin Registered(b)
  <2>1. CASE "registry" \in a.handlers[p] BY <1>2, <2>1, CallHandlerFacts DEF Called
  <2>2. CASE "registry" \notin a.handlers[p] BY <1>2, <2>2 DEF Called, Only, Registered
  <2> QED BY <2>1, <2>2
<1>5. b \in Services /\ Faithful(b.registry) BY <1>4 DEF Only
<1> HIDE DEF b
<1>6. /\ Only(b, c, p)
      /\ p \notin Registered(b) => p \notin Registered(c)
      /\ "board" \in b.handlers[p] \/ p \notin b.boards => p \notin c.boards
      /\ b.live[p] = {} => c.live[p] = {}
  <2>1. CASE "board" \in b.handlers[p] BY <1>5, <2>1, CallHandlerFacts DEF Called
  <2>2. CASE "board" \notin b.handlers[p] BY <1>5, <2>2 DEF Called, Only, Registered
  <2> QED BY <2>1, <2>2
<1> HIDE DEF c
<1>7. Only(s, c, p) BY <1>3, <1>4, <1>6, OnlyChains
<1>8. Covered(s, p) \/ Gone(s, p) => Gone(c, p)
  BY <1>2, <1>4, <1>6 DEF Covered, Gone, Registered
<1> QED BY <1>1, <1>7, <1>8

(* A hello: register() and the board.                                      *)
LEMMA HelloFacts ==
  ASSUME NEW s \in Services, Faithful(s.registry), NEW p \in Peers, NEW tag \in Tags, NEW dead \in BOOLEAN,
         IF dead THEN Gone(s, p) ELSE Covered(s, p)
  PROVE  LET t == StartBoard(RegisterPeer(s, p, tag, dead), p, dead)
         IN  /\ Only(s, t, p)
             /\ IF dead THEN Gone(t, p) ELSE Covered(t, p)
             /\ p \in Registered(t) => t.registry.entries[p] = Entries(tag)
<1> DEFINE n == Register(s.registry, p, tag)
           a == [s EXCEPT !.registry = n]
           b == RegisterPeer(s, p, tag, dead)
           t == StartBoard(b, p, dead)
<1>1. s.registry \in Registries BY DEF Services
<1>2. /\ n \in Registries /\ Faithful(n)
      /\ DOMAIN n.entries = DOMAIN s.registry.entries \cup {p}
      /\ n.entries[p] = Entries(tag)
      /\ \A q \in DOMAIN s.registry.entries \ {p} : n.entries[q] = s.registry.entries[q]
      /\ n.hooked = s.registry.hooked \cup {p}
  BY <1>1, RegisterFacts
<1>3. b = IF p \in s.registry.hooked THEN a ELSE OnClose(a, p, "registry", dead) BY DEF RegisterPeer
<1> HIDE DEF n
<1>4. a \in Services /\ a.registry = n /\ a.handlers = s.handlers /\ a.boards = s.boards /\ a.live = s.live
  BY <1>2 DEF Services
<1> HIDE DEF a
<1>5. Only(s, a, p) BY <1>2, <1>4 DEF Only, Registered
<1>6. Faithful(a.registry) BY <1>2, <1>4
<1>7. CASE ~dead
  <2>1. /\ Only(a, b, p) /\ b.registry = n /\ b.boards = s.boards /\ b.live = s.live
        /\ "registry" \in b.handlers[p] /\ s.handlers[p] \subseteq b.handlers[p]
    <3>1. CASE p \in s.registry.hooked
      <4>1. b = a BY <1>3, <3>1
      <4>2. "registry" \in s.handlers[p] BY <1>7, <3>1 DEF Covered
      <4> HIDE DEF b
      <4> QED BY <1>4, <1>6, <4>1, <4>2 DEF Only, Registered
    <3>2. CASE p \notin s.registry.hooked
      <4>1. b = OnClose(a, p, "registry", FALSE) BY <1>3, <1>7, <3>2
      <4> HIDE DEF b
      <4> QED BY <1>4, <1>6, <4>1, OnClosedFacts
    <3> QED BY <3>1, <3>2
  <2>2. b \in Services /\ Faithful(b.registry) BY <2>1 DEF Only
  <2> HIDE DEF b
  <2>3. /\ Only(b, t, p) /\ t.registry = n
        /\ s.handlers[p] \subseteq t.handlers[p] /\ "registry" \in t.handlers[p]
        /\ p \in t.boards /\ "board" \in t.handlers[p]
    <3>1. CASE p \in b.boards
      <4>1. t = b BY <3>1 DEF StartBoard
      <4>2. "board" \in s.handlers[p] BY <1>7, <2>1, <3>1 DEF Covered
      <4> HIDE DEF t
      <4> QED BY <2>1, <2>2, <3>1, <4>1, <4>2 DEF Only, Registered
    <3>2. CASE p \notin b.boards
      <4> DEFINE c == [b EXCEPT !.boards = b.boards \cup {p}, !.live[p] = Symbols]
      <4>1. t = OnClose(c, p, "board", FALSE) BY <1>7, <3>2 DEF StartBoard
      <4>2. /\ c \in Services /\ c.registry = b.registry /\ c.handlers = b.handlers
            /\ c.boards = b.boards \cup {p} /\ \A q \in Peers \ {p} : c.live[q] = b.live[q]
        BY <2>2 DEF Services
      <4> HIDE DEF c, t
      <4>3. Only(b, c, p) BY <2>2, <4>2 DEF Only, Registered
      <4>4. Faithful(c.registry) BY <2>2, <4>2
      <4>5. /\ Only(c, t, p) /\ t.registry = c.registry /\ t.boards = c.boards
            /\ t.handlers[p] = c.handlers[p] \cup {"board"}
        BY <4>1, <4>2, <4>4, OnClosedFacts
      <4>6. Only(b, t, p) BY <4>3, <4>5, OnlyChains
      <4> QED BY <2>1, <4>2, <4>5, <4>6
    <3> QED BY <3>1, <3>2
  <2> HIDE DEF t
  <2>4. Only(s, t, p) BY <1>5, <2>1, <2>3, OnlyChains
  <2>5. Covered(t, p) BY <1>2, <2>3 DEF Covered, Registered
  <2> QED BY <1>2, <1>7, <2>3, <2>4, <2>5 DEF t, b
<1>8. CASE dead
  <2>1. Only(a, b, p) /\ b.boards = s.boards /\ b.live = s.live
    <3>1. CASE p \in s.registry.hooked
      <4>1. b = a BY <1>3, <3>1
      <4> HIDE DEF b
      <4> QED BY <1>4, <1>6, <4>1 DEF Only, Registered
    <3>2. CASE p \notin s.registry.hooked
      <4>1. b = OnClose(a, p, "registry", TRUE) BY <1>3, <1>8, <3>2
      <4> HIDE DEF b
      <4> QED BY <1>4, <1>6, <4>1, OnDeadFacts
    <3> QED BY <3>1, <3>2
  <2>2. b \in Services /\ Faithful(b.registry) BY <2>1 DEF Only
  <2>3. p \notin b.boards BY <1>8, <2>1 DEF Gone
  <2> HIDE DEF b
  <2> DEFINE c == [b EXCEPT !.boards = b.boards \cup {p}, !.live[p] = {}]
  <2>4. t = OnClose(c, p, "board", TRUE) BY <1>8, <2>3 DEF StartBoard
  <2>5. /\ c \in Services /\ c.registry = b.registry /\ c.handlers = b.handlers /\ c.live[p] = {}
        /\ c.boards = b.boards \cup {p} /\ \A q \in Peers \ {p} : c.live[q] = b.live[q]
    BY <2>2 DEF Services
  <2> HIDE DEF c, t
  <2>6. Only(b, c, p) BY <2>2, <2>5 DEF Only, Registered
  <2>7. Faithful(c.registry) BY <2>2, <2>5
  <2>8. Only(c, t, p) /\ p \notin Registered(t) /\ p \notin t.boards /\ t.live[p] = {}
    BY <2>4, <2>5, <2>7, OnDeadFacts
  <2>9. Only(s, t, p)
    <3>1. Only(s, b, p) BY <1>5, <2>1, OnlyChains
    <3>2. Only(b, t, p) BY <2>6, <2>8, OnlyChains
    <3> QED BY <3>1, <3>2, OnlyChains
  <2> QED BY <1>8, <2>8, <2>9 DEF Gone, t, b
<1> QED BY <1>7, <1>8

-----------------------------------------------------------------------------
(* The handshake, as a function of what a dialer sent to a server.         *)

Upgraded(x) ==
    LET response == Response(x.server, x.request)
    IN  response.status = 101 /\ Accept(x.server, x.request, response.selected) = "peer"

Learns(x) ==
    LET response == Response(x.server, x.request)
    IN  IF x.by = "browser" THEN DialBrowser(x.codec, x.request, response)
        ELSE DialWs(x.codec, x.request, response)

LEMMA EntryIsOne ==
  ASSUME NEW a, NEW b
  PROVE  /\ Entry(a) = Entry(b) <=> a = b
         /\ Entry(a) # NoEntry /\ Entry(a).generation = PREFIX /\ NoEntry.generation # PREFIX
<1>1. Entry(a).codec = a /\ Entry(b).codec = b /\ Entry(a).generation = 1 BY DEF Entry, PREFIX
<1>2. NoEntry.generation = 0 BY DEF NoEntry
<1> QED BY <1>1, <1>2 DEF PREFIX

(* The dialer's own entry is the first, and the only one of the prefix.    *)
LEMMA OfferFacts ==
  ASSUME NEW d, Honest(d)
  PROVE  /\ FindOffer(d.request.offered) = Entry(d.codec)
         /\ Entry(d.codec) \in {d.request.offered[i] : i \in DOMAIN d.request.offered}
         /\ d.request.offered # << >> /\ Head(d.request.offered) = Entry(d.codec)
         /\ d.request.offered[Len(d.request.offered)].generation = PREFIX
            => d.request.offered[Len(d.request.offered)] = Entry(d.codec)
         /\ NoEntry \notin {d.request.offered[i] : i \in DOMAIN d.request.offered}
<1> DEFINE offered == d.request.offered
           muxws == {i \in DOMAIN offered : offered[i].generation = PREFIX}
<1>1. /\ offered \in Seq([generation : Nat, codec : STRING]) /\ offered # << >>
      /\ Head(offered) = Entry(d.codec)
      /\ \A i \in 2 .. Len(offered) : offered[i].generation # PREFIX /\ offered[i] # NoEntry
  BY DEF Honest, Offered
<1> HIDE DEF offered
<1>2. /\ DOMAIN offered = 1 .. Len(offered) /\ Len(offered) \in Nat /\ Len(offered) >= 1
      /\ 1 \in DOMAIN offered /\ offered[1] = Entry(d.codec)
  BY <1>1
<1>3. 1 \in muxws /\ muxws = {1} BY <1>1, <1>2, EntryIsOne
<1>4. FindOffer(offered) = offered[CHOOSE i \in muxws : \A j \in muxws : i <= j]
  BY <1>3 DEF FindOffer
<1>5. (CHOOSE i \in muxws : \A j \in muxws : i <= j) = 1 BY <1>3
<1> HIDE DEF muxws
<1>6. FindOffer(offered) = Entry(d.codec) BY <1>2, <1>4, <1>5
<1>7. Len(offered) = 1 \/ Len(offered) \in 2 .. Len(offered) BY <1>2
<1>8. \A i \in DOMAIN offered : offered[i] # NoEntry BY <1>1, <1>2, EntryIsOne
<1> QED BY <1>1, <1>2, <1>6, <1>7, <1>8 DEF offered

(* What a server that is not the application's own selects is the dialer's *)
(* entry or none.                                                          *)
LEMMA SelectedFacts ==
  ASSUME NEW d, Honest(d), NEW server,
         Response(server, d.request).status = 101
  PROVE  /\ Response(server, d.request).selected.generation = PREFIX
            => Response(server, d.request).selected = Entry(d.codec)
         /\ /\ Response(server, d.request).selected = Entry(d.codec)
            /\ server.hooks \cap {"select", "refuse"} # {}
            => d.codec = server.settings
<1> DEFINE request == d.request
           selected == Response(server, request).selected
<1>1. ShouldHandle(server, request) /\ selected = HandleProtocols(server, request)
  BY DEF Response
<1>2. /\ FindOffer(request.offered) = Entry(d.codec) /\ request.offered # << >>
      /\ Head(request.offered) = Entry(d.codec)
      /\ request.offered[Len(request.offered)].generation = PREFIX
         => request.offered[Len(request.offered)] = Entry(d.codec)
  BY OfferFacts
<1>3. Select(request.offered, server.settings)
        = IF Entry(d.codec) = Entry(server.settings) THEN Entry(server.settings) ELSE NoEntry
  BY <1>2 DEF Select
<1> HIDE DEF request
<1>4. selected.generation = PREFIX => selected = Entry(d.codec)
  <2>1. CASE "select" \in server.hooks
    <3>1. selected = Select(request.offered, server.settings) BY <1>1, <2>1 DEF HandleProtocols
    <3> HIDE DEF selected
    <3> QED BY <1>3, <3>1, EntryIsOne
  <2>2. CASE "select" \notin server.hooks
    <3>1. selected \in {request.offered[Len(request.offered)], Head(request.offered)}
      BY <1>1, <1>2, <2>2 DEF HandleProtocols
    <3> HIDE DEF selected
    <3> QED BY <1>2, <3>1
  <2> QED BY <2>1, <2>2
<1>5. selected = Entry(d.codec) /\ server.hooks \cap {"select", "refuse"} # {} => d.codec = server.settings
  <2>1. CASE "select" \in server.hooks
    <3>1. selected = Select(request.offered, server.settings) BY <1>1, <2>1 DEF HandleProtocols
    <3> HIDE DEF selected
    <3> QED BY <1>3, <3>1, EntryIsOne
  <2>2. CASE "refuse" \in server.hooks
    <3>1. Select(request.offered, server.settings) # NoEntry BY <1>1, <2>2 DEF ShouldHandle
    <3> QED BY <1>3, <3>1, EntryIsOne
  <2> QED BY <2>1, <2>2
<1> QED BY <1>4, <1>5 DEF request

LEMMA EndsLemma ==
  ASSUME NEW d, Honest(d), NEW server
  PROVE  LET x == To(server, d)
         IN  /\ Upgraded(x) => Learns(x) = "adapter" /\ d.codec = server.codec
             /\ (/\ ~Upgraded(x) /\ Allows(server.policy, d.request)
                 /\ server.hooks \cap {"select", "refuse"} # {} /\ server.settings = server.codec)
                => Learns(x) = "CodecMismatch"
             /\ Learns(x) # "Error"
<1> DEFINE x == To(server, d)
           response == Response(server, d.request)
           entries == {d.request.offered[i] : i \in DOMAIN d.request.offered}
<1>1. /\ x.by = d.by /\ x.codec = d.codec /\ x.request = d.request /\ x.server = server
  BY DEF To
<1>2. Entry(d.codec) \in entries /\ NoEntry \notin entries BY OfferFacts
<1>3. \/ response.status = 101
      \/ response.status = 400 /\ response.selected = NoEntry
  BY DEF Response
<1>4. Learns(x) = IF d.by = "browser" THEN DialBrowser(d.codec, d.request, response)
                  ELSE DialWs(d.codec, d.request, response)
  BY <1>1 DEF Learns
<1>5. Upgraded(x) <=> response.status = 101 /\ Accept(server, d.request, response.selected) = "peer"
  BY <1>1 DEF Upgraded
<1>6. ASSUME response.status = 101
      PROVE  /\ response.selected.generation = PREFIX => response.selected = Entry(d.codec)
             /\ response.selected = Entry(d.codec) /\ server.hooks \cap {"select", "refuse"} # {}
                => d.codec = server.settings
  <2>1. Response(server, d.request).status = 101 BY <1>6
  <2> HIDE DEF response
  <2>2. response.selected.generation = PREFIX => response.selected = Entry(d.codec)
    BY <2>1, SelectedFacts DEF response
  <2>3. response.selected = Entry(d.codec) /\ server.hooks \cap {"select", "refuse"} # {}
        => d.codec = server.settings
    BY <2>1, SelectedFacts DEF response
  <2> QED BY <2>2, <2>3
<1> HIDE DEF x, response, entries
<1>7. DialBrowser(d.codec, d.request, response) =
        IF response.status = 101 /\ response.selected = Entry(d.codec) THEN "adapter" ELSE "CodecMismatch"
  BY <1>2 DEF DialBrowser, BrowserEvent, entries
<1>8. DialWs(d.codec, d.request, response) =
        IF response.status = 101 /\ response.selected = Entry(d.codec) THEN "adapter" ELSE "CodecMismatch"
  <2>1. CASE response.status = 400
    <3>1. WsEvent(d.request, response) = "unexpected-response" BY <2>1 DEF WsEvent
    <3> QED BY <2>1, <3>1 DEF DialWs
  <2>2. CASE response.status = 101 /\ response.selected \in entries
    <3>1. WsEvent(d.request, response) = "open" BY <2>2 DEF WsEvent, entries
    <3> QED BY <2>2, <3>1 DEF DialWs
  <2>3. CASE response.status = 101 /\ response.selected \notin entries
    <3>1. WsEvent(d.request, response) = "error" BY <2>3 DEF WsEvent, entries
    <3> QED BY <1>2, <2>3, <3>1 DEF DialWs
  <2> QED BY <1>3, <2>1, <2>2, <2>3
<1>9. Learns(x) = IF response.status = 101 /\ response.selected = Entry(d.codec)
                  THEN "adapter" ELSE "CodecMismatch"
  BY <1>4, <1>7, <1>8
<1>10. ASSUME Upgraded(x) PROVE Learns(x) = "adapter" /\ d.codec = server.codec
  <2>1. response.status = 101 /\ response.selected = Entry(server.codec) BY <1>5, <1>10 DEF Accept
  <2> QED BY <1>6, <1>9, <2>1, EntryIsOne
<1>11. ASSUME ~Upgraded(x), Allows(server.policy, d.request), server.settings = server.codec,
              server.hooks \cap {"select", "refuse"} # {}
       PROVE  Learns(x) = "CodecMismatch"
  <2>1. SUFFICES ASSUME response.status = 101, response.selected = Entry(d.codec) PROVE FALSE BY <1>9
  <2>2. d.codec = server.codec BY <1>6, <1>11, <2>1
  <2> QED BY <1>5, <1>11, <2>1, <2>2 DEF Accept
<1> QED BY <1>9, <1>10, <1>11 DEF x

LEMMA PagesLemma ==
  ASSUME NEW d \in Dials, NEW server \in Servers, server.policy.kind = "same"
  PROVE  LET policy == server.policy
             own == d.page \in policy.also \cup {d.addressed}
             proxyKnown == d.request.forwarded = << >> \/ policy.trustForwardedHost
         IN  /\ Allows(policy, d.request) => own
             /\ own /\ proxyKnown /\ Len(d.request.origin) = 1 => Allows(policy, d.request)
<1> DEFINE policy == server.policy
           request == d.request
           page == d.page
           address == d.addressed
           own == page \in policy.also \cup {address}
           proxyKnown == request.forwarded = << >> \/ policy.trustForwardedHost
<1>1. /\ page \in Origin /\ address \in Origin /\ IsOrigin(address)
      /\ IsOrigin(page) => page.scheme = address.scheme
      /\ request.origin \in Seq(Origin)
      /\ Len(request.origin) = 1 => request.origin = <<page>>
      /\ request.host \in Seq(Authority) /\ Len(request.host) = 1
      /\ request.forwarded \in Seq(Authority)
      /\ IF request.forwarded = << >> THEN Names(Head(request.host), address)
         ELSE Names(Head(request.forwarded), address) /\ Head(request.host).host # page.host
  BY DialsAssumption DEF Honest
<1>2. \A origin \in policy.also : IsOrigin(origin) BY DialsAssumption
<1>3. Allows(policy, request) <=> SameOriginAllows(policy, request) BY DEF Allows
<1>4. SingleOrigin(request) = IF Len(request.origin) = 1 /\ IsOrigin(page) THEN {page} ELSE {}
  <2>1. CASE Len(request.origin) = 1
    <3>1. Head(request.origin) = page
      <4> HIDE DEF page
      <4> QED BY <1>1, <2>1
    <3> QED BY <2>1, <3>1, Zenon DEF SingleOrigin
  <2>2. CASE Len(request.origin) # 1 BY <2>2, Zenon DEF SingleOrigin
  <2> QED BY <2>1, <2>2
<1>5. \A host \in RequestHost(policy, request) :
         /\ host = Head(request.forwarded) /\ request.forwarded # << >>
         \/ host = Head(request.host)
  BY DEF RequestHost
<1>6. proxyKnown => \E host \in RequestHost(policy, request) : Names(host, address)
  BY <1>1 DEF RequestHost
<1> DEFINE Match(host) == /\ host.host = page.host
                          /\ (IF host.port = 0 THEN DefaultPort(page.scheme) ELSE host.port) = page.port
<1>7. SameOriginAllows(policy, request) <=>
        /\ Len(request.origin) = 1 /\ IsOrigin(page)
        /\ page \in policy.also \/ \E host \in RequestHost(policy, request) : Match(host)
  BY <1>4 DEF SameOriginAllows
<1>8. page = address <=> /\ page.scheme = address.scheme /\ page.host = address.host
                         /\ page.port = address.port
  BY <1>1 DEF Origin
<1> HIDE DEF policy, request, page, address
<1>9. ASSUME SameOriginAllows(policy, request) PROVE own
  <2>1. CASE page \in policy.also BY <2>1
  <2>2. CASE page \notin policy.also
    <3>1. PICK host \in RequestHost(policy, request) : Match(host) BY <1>7, <1>9, <2>2
    <3>2. Names(host, address) BY <1>1, <1>5, <3>1
    <3>3. page.scheme = address.scheme BY <1>1, <1>7, <1>9
    <3> QED BY <1>8, <3>1, <3>2, <3>3 DEF Names
  <2> QED BY <2>1, <2>2
<1>10. ASSUME own, proxyKnown, Len(request.origin) = 1 PROVE SameOriginAllows(policy, request)
  <2>1. CASE page \in policy.also BY <1>2, <1>7, <1>10, <2>1
  <2>2. CASE page = address
    <3>1. PICK host \in RequestHost(policy, request) : Names(host, address) BY <1>6, <1>10
    <3>2. Match(host) BY <2>2, <3>1 DEF Names
    <3> QED BY <1>1, <1>7, <1>10, <2>2, <3>1, <3>2
  <2> QED BY <1>10, <2>1, <2>2
<1> QED BY <1>3, <1>9, <1>10 DEF policy, request, page, address

-----------------------------------------------------------------------------
(* The invariant.                                                          *)

Conns == {"none", "dialed", "accepted", "refused", "open", "draining"} \cup Dead
Closing == {"draining"} \cup Dead

MarketTypes ==
    /\ dial = [p \in Peers |-> dial[p]] /\ dialer = [p \in Peers |-> dialer[p]]
    /\ conn \in [Peers -> Conns] /\ tags \in [Peers -> Tags]
    /\ gens \in [Peers -> SUBSET Symbols]
    /\ killers \in [Killers -> Seq(Peers)] /\ asked \in [Killers -> SUBSET Peers]
    /\ service \in Services /\ Faithful(service.registry)

(* Only an open connection has anything of the service, and until it is    *)
(* closed its close handlers take away all of it.                          *)
Settled ==
    \A p \in Peers : /\ conn[p] # "open" => Gone(service, p)
                     /\ conn[p] \notin Closing => Covered(service, p)

Indexed == \A p \in Registered(service) : service.registry.entries[p] = Entries(tags[p])

Chased ==
    \A k \in Killers : \A p \in asked[k] : conn[p] \in Dead \/ p \in Range(killers[k])

(* A handshake that is not over stands where its dial puts it.             *)
Agreed ==
    \A p \in Peers :
        /\ conn[p] \in {"dialed", "accepted", "refused"} =>
              \E d \in Dials, server \in Servers : dial[p] = To(server, d)
        /\ conn[p] = "dialed" => dialer[p] = "waiting"
        /\ conn[p] \in {"accepted", "refused"} =>
              /\ conn[p] = "accepted" <=> Upgraded(dial[p])
              /\ dialer[p] \in {"waiting", Learns(dial[p])}

MarketInv == MarketTypes /\ Settled /\ Indexed /\ Chased /\ Agreed

LEMMA MarketInit == Init => MarketInv
<1> SUFFICES ASSUME Init PROVE MarketInv OBVIOUS
<1>1. /\ EmptyRegistry \in Registries /\ Faithful(EmptyRegistry)
      /\ DOMAIN EmptyRegistry.entries = {} /\ EmptyRegistry.hooked = {}
  BY EmptyFacts
<1>2. /\ service.registry = EmptyRegistry /\ service.handlers = [p \in Peers |-> {}]
      /\ service.boards = {} /\ service.live = [p \in Peers |-> {}]
      /\ service = [registry |-> service.registry, handlers |-> service.handlers,
                    boards |-> service.boards, live |-> service.live]
  BY DEF Init, EmptyService
<1>3. service \in Services BY <1>1, <1>2 DEF Services
<1>4. tags \in [Peers -> Tags] BY DEF Init, Tags
<1>5. /\ conn = [p \in Peers |-> "none"] /\ gens = [p \in Peers |-> {}]
      /\ dial = [p \in Peers |-> NoDial] /\ dialer = [p \in Peers |-> "none"]
      /\ killers = [k \in Killers |-> << >>] /\ asked = [k \in Killers |-> {}]
  BY DEF Init
<1>6. MarketTypes BY <1>1, <1>2, <1>3, <1>4, <1>5 DEF MarketTypes, Conns
<1>7. Settled BY <1>1, <1>2, <1>5 DEF Settled, Gone, Covered, Registered
<1>8. Indexed BY <1>1, <1>2 DEF Indexed, Registered
<1>9. Chased /\ Agreed BY <1>5 DEF Chased, Agreed
<1> QED BY <1>6, <1>7, <1>8, <1>9 DEF MarketInv

(* A step of one peer, as its service sees it.                             *)
LEMMA TurnKeeps ==
  ASSUME MarketTypes, Settled, Indexed, NEW p \in Peers, Only(service, service', p),
         \A q \in Peers \ {p} : conn'[q] = conn[q] /\ tags'[q] = tags[q],
         conn'[p] # "open" => Gone(service', p),
         conn'[p] \notin Closing => Covered(service', p),
         p \in Registered(service') => service'.registry.entries[p] = Entries(tags'[p])
  PROVE  service' \in Services /\ Faithful(service'.registry) /\ Settled' /\ Indexed'
<1>1. service' \in Services /\ Faithful(service'.registry) BY DEF Only
<1>2. Settled'
  <2> SUFFICES ASSUME NEW q \in Peers \ {p}
               PROVE  /\ conn'[q] # "open" => Gone(service', q)
                      /\ conn'[q] \notin Closing => Covered(service', q)
    BY DEF Settled
  <2>1. /\ q \in Registered(service') <=> q \in Registered(service)
        /\ q \in service'.registry.hooked <=> q \in service.registry.hooked
        /\ service'.handlers[q] = service.handlers[q]
        /\ q \in service'.boards <=> q \in service.boards
        /\ service'.live[q] = service.live[q]
    BY DEF Only
  <2> QED BY <2>1 DEF Settled, Gone, Covered
<1>3. Indexed'
  <2>1. Registered(service') \subseteq Peers
    <3>1. service'.registry \in Registries BY <1>1 DEF Services
    <3> QED BY <3>1, RegistryType DEF Registered
  <2> SUFFICES ASSUME NEW q \in Registered(service'), q # p
               PROVE  service'.registry.entries[q] = Entries(tags'[q])
    BY DEF Indexed
  <2>2. q \in Registered(service) /\ service'.registry.entries[q] = service.registry.entries[q]
    BY <2>1 DEF Only
  <2> QED BY <2>1, <2>2 DEF Indexed
<1> QED BY <1>1, <1>2, <1>3

(* A step that leaves the service alone.                                   *)
LEMMA QuietKeeps ==
  ASSUME MarketTypes, Settled, Indexed, NEW p \in Peers, service' = service,
         \A q \in Peers \ {p} : conn'[q] = conn[q], tags' = tags,
         conn'[p] # "open" => Gone(service, p),
         conn'[p] \notin Closing => Covered(service, p)
  PROVE  Settled' /\ Indexed'
BY DEF Settled, Indexed, MarketTypes

(* The dead stay dead, so the chase goes on.                               *)
LEMMA ChaseKeeps ==
  ASSUME Chased, UNCHANGED <<killers, asked>>, NEW p,
         MarketTypes, \A q \in Peers \ {p} : conn'[q] = conn[q],
         conn[p] \in Dead => conn'[p] \in Dead
  PROVE  Chased'
<1> SUFFICES ASSUME NEW k \in Killers, NEW q \in asked[k], conn'[q] \notin Dead
             PROVE  q \in Range(killers[k])
  BY DEF Chased
<1>1. q \in Peers BY DEF MarketTypes
<1>2. conn[q] \notin Dead BY <1>1
<1> QED BY <1>2 DEF Chased

(* Past the handshake nothing is agreed on any more.                       *)
LEMMA AgreementKeeps ==
  ASSUME Agreed, MarketTypes, NEW p \in Peers, UNCHANGED <<dial, dialer>>,
         \A q \in Peers \ {p} : conn'[q] = conn[q],
         conn'[p] \notin {"dialed", "accepted", "refused"}
  PROVE  Agreed'
<1> SUFFICES ASSUME NEW q \in Peers
             PROVE  /\ conn'[q] \in {"dialed", "accepted", "refused"} =>
                          \E d \in Dials, server \in Servers : dial[q] = To(server, d)
                    /\ conn'[q] = "dialed" => dialer[q] = "waiting"
                    /\ conn'[q] \in {"accepted", "refused"} =>
                          /\ conn'[q] = "accepted" <=> Upgraded(dial[q])
                          /\ dialer[q] \in {"waiting", Learns(dial[q])}
  BY DEF Agreed
<1>1. CASE q = p BY <1>1
<1>2. CASE q # p BY <1>2 DEF Agreed
<1> QED BY <1>1, <1>2

-----------------------------------------------------------------------------
(* The actions until a connection is served.                               *)

(* A step of one handshake.                                                *)
LEMMA HandshakeStep ==
  ASSUME MarketInv, NEW p \in Peers, NEW c \in Conns, NEW x, NEW l,
         UNCHANGED <<hellos, tags, service, gens, killers, asked>>,
         conn' = [conn EXCEPT ![p] = c],
         dial' = [dial EXCEPT ![p] = x], dialer' = [dialer EXCEPT ![p] = l],
         conn[p] \notin Closing, c # "open" => Gone(service, p), c \notin Closing => Covered(service, p),
         c \in {"dialed", "accepted", "refused"} =>
              \E d \in Dials, server \in Servers : x = To(server, d),
         c = "dialed" => l = "waiting",
         c \in {"accepted", "refused"} =>
              (c = "accepted" <=> Upgraded(x)) /\ l \in {"waiting", Learns(x)}
  PROVE  MarketInv'
<1> USE DEF MarketInv
<1>1. /\ conn' \in [Peers -> Conns] /\ conn'[p] = c
      /\ dial' = [q \in Peers |-> dial'[q]] /\ dialer' = [q \in Peers |-> dialer'[q]]
      /\ dial'[p] = x /\ dialer'[p] = l
      /\ \A q \in Peers \ {p} : conn'[q] = conn[q] /\ dial'[q] = dial[q] /\ dialer'[q] = dialer[q]
  BY DEF MarketTypes
<1>2. MarketTypes' BY <1>1 DEF MarketTypes
<1>3. Settled' /\ Indexed' BY <1>1, QuietKeeps
<1>4. Chased' BY <1>1, ChaseKeeps DEF Closing
<1>5. Agreed'
  <2> SUFFICES ASSUME NEW q \in Peers
               PROVE  /\ conn'[q] \in {"dialed", "accepted", "refused"} =>
                            \E d \in Dials, server \in Servers : dial'[q] = To(server, d)
                      /\ conn'[q] = "dialed" => dialer'[q] = "waiting"
                      /\ conn'[q] \in {"accepted", "refused"} =>
                            /\ conn'[q] = "accepted" <=> Upgraded(dial'[q])
                            /\ dialer'[q] \in {"waiting", Learns(dial'[q])}
    BY DEF Agreed
  <2>1. CASE q = p
    <3>1. conn'[q] = c /\ dial'[q] = x /\ dialer'[q] = l BY <1>1, <2>1
    <3> QED BY <3>1
  <2>2. CASE q # p
    <3>1. conn'[q] = conn[q] /\ dial'[q] = dial[q] /\ dialer'[q] = dialer[q] BY <1>1, <2>2
    <3> QED BY <3>1 DEF Agreed
  <2> QED BY <2>1, <2>2
<1> QED BY <1>2, <1>3, <1>4, <1>5

LEMMA DialKeeps ==
  ASSUME MarketInv, NEW p \in Peers, Dial(p)
  PROVE  MarketInv'
<1>1. PICK d \in Dials, server \in Servers : dial' = [dial EXCEPT ![p] = To(server, d)] BY DEF Dial
<1> DEFINE x == To(server, d)
<1>2. /\ conn[p] = "none" /\ conn' = [conn EXCEPT ![p] = "dialed"]
      /\ dialer' = [dialer EXCEPT ![p] = "waiting"]
      /\ UNCHANGED <<hellos, tags, service, gens, killers, asked>>
  BY DEF Dial
<1>3. Gone(service, p) /\ Covered(service, p) BY <1>2 DEF MarketInv, Settled, Closing, Dead
<1>4. \E e \in Dials, s \in Servers : x = To(s, e) OBVIOUS
<1> HIDE DEF x
<1>5. dial' = [dial EXCEPT ![p] = x] BY <1>1 DEF x
<1> QED BY <1>2, <1>3, <1>4, <1>5, HandshakeStep DEF Conns, Closing, Dead

LEMMA UpgradeKeeps ==
  ASSUME MarketInv, NEW p \in Peers, Upgrade(p)
  PROVE  MarketInv'
<1> DEFINE c == IF Upgraded(dial[p]) THEN "accepted" ELSE "refused"
           x == dial[p]
           l == dialer[p]
<1>1. conn[p] = "dialed" /\ UNCHANGED <<dial, dialer, hellos, tags, service, gens, killers, asked>>
  BY DEF Upgrade
<1>2. conn' = [conn EXCEPT ![p] = c] BY DEF Upgrade, Upgraded
<1>3. Gone(service, p) /\ Covered(service, p) BY <1>1 DEF MarketInv, Settled, Closing, Dead
<1>4. l = "waiting" /\ \E d \in Dials, server \in Servers : x = To(server, d)
  BY <1>1 DEF MarketInv, Agreed
<1>5. c \in {"accepted", "refused"} /\ (c = "accepted" <=> Upgraded(x)) OBVIOUS
<1>6. dial' = [dial EXCEPT ![p] = x] /\ dialer' = [dialer EXCEPT ![p] = l]
  <2>1. dial = [q \in Peers |-> dial[q]] /\ dialer = [q \in Peers |-> dialer[q]]
    BY DEF MarketInv, MarketTypes
  <2> QED BY <1>1, <2>1
<1> HIDE DEF c, x, l
<1> QED BY <1>1, <1>2, <1>3, <1>4, <1>5, <1>6, HandshakeStep DEF Conns, Closing, Dead

LEMMA AnswerKeeps ==
  ASSUME MarketInv, NEW p \in Peers, Answer(p)
  PROVE  MarketInv'
<1>1. /\ dialer[p] = "waiting" /\ conn[p] # "dialed"
      /\ UNCHANGED <<dial, conn, hellos, tags, service, gens, killers, asked>>
  BY DEF Answer
<1>2. dialer' = [dialer EXCEPT ![p] = Learns(dial[p])] BY DEF Answer, Learns
<1>3. dialer = [q \in Peers |-> dialer[q]] /\ dialer' = [q \in Peers |-> dialer'[q]]
  BY <1>2 DEF MarketInv, MarketTypes
<1>4. MarketTypes' /\ Settled' /\ Indexed' /\ Chased'
  BY <1>1, <1>2, <1>3 DEF MarketInv, MarketTypes, Settled, Indexed, Chased
<1>5. Agreed'
  <2> SUFFICES ASSUME NEW q \in Peers
               PROVE  /\ conn[q] \in {"dialed", "accepted", "refused"} =>
                            \E d \in Dials, server \in Servers : dial[q] = To(server, d)
                      /\ conn[q] = "dialed" => dialer'[q] = "waiting"
                      /\ conn[q] \in {"accepted", "refused"} =>
                            /\ conn[q] = "accepted" <=> Upgraded(dial[q])
                            /\ dialer'[q] \in {"waiting", Learns(dial[q])}
    BY <1>1 DEF Agreed
  <2>1. dialer'[q] = IF q = p THEN Learns(dial[q]) ELSE dialer[q] BY <1>2, <1>3
  <2> QED BY <1>1, <2>1 DEF MarketInv, Agreed
<1> QED BY <1>4, <1>5 DEF MarketInv

LEMMA ServeKeeps ==
  ASSUME MarketInv, NEW p \in Peers, Serve(p) \/ Refused(p)
  PROVE  MarketInv'
<1> DEFINE c == IF conn[p] = "accepted" /\ dialer[p] = "adapter" THEN "open" ELSE "over"
<1>1. /\ conn[p] \in {"accepted", "refused"} /\ conn' = [conn EXCEPT ![p] = c]
      /\ dial' = [dial EXCEPT ![p] = NoDial] /\ dialer' = [dialer EXCEPT ![p] = "none"]
      /\ UNCHANGED <<hellos, tags, service, gens, killers, asked>>
  BY DEF Serve, Refused
<1>2. c \in {"open", "over"} OBVIOUS
<1> HIDE DEF c
<1>3. Gone(service, p) /\ Covered(service, p) BY <1>1 DEF MarketInv, Settled, Closing, Dead
<1> QED BY <1>1, <1>2, <1>3, HandshakeStep DEF Conns, Closing, Dead

-----------------------------------------------------------------------------
(* The actions of a served peer.                                           *)

(* A step past the handshake that works on one peer's part of the service. *)
LEMMA ServedStep ==
  ASSUME MarketInv, NEW p \in Peers, NEW c \in Conns, UNCHANGED <<dial, dialer, killers, asked>>,
         conn' = [conn EXCEPT ![p] = c], conn[p] \in {"open"} \cup Closing, c \in {"open"} \cup Closing,
         conn[p] \in Dead => c \in Dead,
         tags' \in [Peers -> Tags], \A q \in Peers \ {p} : tags'[q] = tags[q],
         gens' \in [Peers -> SUBSET Symbols],
         Only(service, service', p),
         c # "open" => Gone(service', p), c = "open" => Covered(service', p),
         p \in Registered(service') => service'.registry.entries[p] = Entries(tags'[p])
  PROVE  MarketInv'
<1>1. conn' \in [Peers -> Conns] /\ conn'[p] = c /\ \A q \in Peers \ {p} : conn'[q] = conn[q]
  BY DEF MarketInv, MarketTypes
<1>2. service' \in Services /\ Faithful(service'.registry) /\ Settled' /\ Indexed'
  BY <1>1, TurnKeeps DEF MarketInv
<1>3. MarketTypes' BY <1>1, <1>2 DEF MarketInv, MarketTypes
<1>4. Chased' BY <1>1, ChaseKeeps DEF MarketInv
<1>5. Agreed' BY <1>1, AgreementKeeps DEF MarketInv, Closing, Dead
<1> QED BY <1>2, <1>3, <1>4, <1>5 DEF MarketInv

(* What the actions read of the invariant.                                 *)
LEMMA PeerFacts ==
  ASSUME MarketInv, NEW p \in Peers
  PROVE  /\ service \in Services /\ Faithful(service.registry)
         /\ conn[p] # "open" => Gone(service, p)
         /\ conn[p] = "open" => Covered(service, p)
         /\ tags \in [Peers -> Tags] /\ gens \in [Peers -> SUBSET Symbols]
         /\ conn \in [Peers -> Conns] /\ conn = [conn EXCEPT ![p] = conn[p]]
         /\ p \in Registered(service) => service.registry.entries[p] = Entries(tags[p])
BY DEF MarketInv, MarketTypes, Settled, Indexed, Closing, Dead

LEMMA HelloKeeps ==
  ASSUME MarketInv, NEW p \in Peers, Hello(p)
  PROVE  MarketInv'
<1>1. PICK greeting \in Greetings :
        LET newTags == [key \in Keys |-> IF greeting[key] = Absent THEN tags[p][key] ELSE greeting[key]]
            dead == conn[p] \in Dead
            started == StartBoard(RegisterPeer(service, p, newTags, dead), p, dead)
        IN  /\ tags' = [tags EXCEPT ![p] = newTags]
            /\ service' = started
            /\ gens' = [gens EXCEPT ![p] = @ \cup (started.live[p] \ service.live[p])]
  BY DEF Hello
<1> DEFINE newTags == [key \in Keys |-> IF greeting[key] = Absent THEN tags[p][key] ELSE greeting[key]]
           dead == conn[p] \in Dead
           t == StartBoard(RegisterPeer(service, p, newTags, dead), p, dead)
<1>2. conn[p] \in {"open", "broken"} /\ UNCHANGED <<dial, dialer, conn, killers, asked>> BY DEF Hello
<1>3. /\ service \in Services /\ Faithful(service.registry)
      /\ conn[p] # "open" => Gone(service, p)
      /\ conn[p] = "open" => Covered(service, p)
      /\ tags \in [Peers -> Tags] /\ gens \in [Peers -> SUBSET Symbols]
      /\ conn \in [Peers -> Conns] /\ conn = [conn EXCEPT ![p] = conn[p]]
  BY PeerFacts
<1>4. newTags \in Tags
  <2>1. greeting \in Tags /\ tags[p] \in Tags BY <1>3, MarketAssumption
  <2> QED BY <2>1 DEF Tags
<1>5. dead \in BOOLEAN /\ (dead <=> conn[p] # "open") BY <1>2 DEF Dead
<1>6. tags' = [tags EXCEPT ![p] = newTags] /\ service' = t
      /\ gens' = [gens EXCEPT ![p] = @ \cup (t.live[p] \ service.live[p])]
  BY <1>1
<1> HIDE DEF newTags, dead
<1>7. IF dead THEN Gone(service, p) ELSE Covered(service, p) BY <1>3, <1>5
<1>8. /\ Only(service, t, p)
      /\ IF dead THEN Gone(t, p) ELSE Covered(t, p)
      /\ p \in Registered(t) => t.registry.entries[p] = Entries(newTags)
  BY <1>3, <1>4, <1>5, <1>7, HelloFacts
<1> HIDE DEF t
<1>9. t \in Services BY <1>8 DEF Only
<1>10. /\ tags' \in [Peers -> Tags] /\ tags'[p] = newTags /\ \A q \in Peers \ {p} : tags'[q] = tags[q]
  BY <1>3, <1>4, <1>6
<1>11. gens' \in [Peers -> SUBSET Symbols]
  <2>1. t.live[p] \subseteq Symbols BY <1>9 DEF Services
  <2> QED BY <1>3, <1>6, <2>1
<1>12. conn[p] \in {"open"} \cup Closing /\ conn[p] \in Conns BY <1>2 DEF Closing, Dead, Conns
<1>13. Only(service, service', p) BY <1>6, <1>8
<1>14. /\ conn[p] # "open" => Gone(service', p)
       /\ conn[p] = "open" => Covered(service', p)
       /\ p \in Registered(service') => service'.registry.entries[p] = Entries(tags'[p])
  BY <1>5, <1>6, <1>8, <1>10
<1>15. conn' = [conn EXCEPT ![p] = conn[p]] BY <1>2, <1>3
<1> QED BY <1>2, <1>10, <1>11, <1>12, <1>13, <1>14, <1>15, ServedStep

(* Streams of the board that end.                                          *)
LEMMA LiveFacts ==
  ASSUME NEW s \in Services, Faithful(s.registry), NEW p \in Peers, NEW S
  PROVE  LET t == [s EXCEPT !.live[p] = @ \ S]
         IN  /\ Only(s, t, p) /\ t.registry = s.registry
             /\ Gone(s, p) => Gone(t, p)
             /\ Covered(s, p) => Covered(t, p)
<1> DEFINE t == [s EXCEPT !.live[p] = @ \ S]
<1>1. /\ t \in Services /\ t.registry = s.registry /\ t.handlers = s.handlers /\ t.boards = s.boards
      /\ t.live[p] = s.live[p] \ S /\ \A q \in Peers \ {p} : t.live[q] = s.live[q]
  BY DEF Services
<1> HIDE DEF t
<1>2. Only(s, t, p) BY <1>1 DEF Only, Registered
<1>3. (Gone(s, p) => Gone(t, p)) /\ (Covered(s, p) => Covered(t, p))
  BY <1>1 DEF Gone, Covered, Registered
<1> QED BY <1>1, <1>2, <1>3 DEF t

LEMMA StreamResetKeeps ==
  ASSUME MarketInv, NEW p \in Peers, NEW symbol \in Symbols, StreamReset(p, symbol)
  PROVE  MarketInv'
<1> DEFINE t == [service EXCEPT !.live[p] = @ \ {symbol}]
<1>1. /\ conn[p] \in {"open", "draining"} /\ service' = t
      /\ UNCHANGED <<dial, dialer, conn, hellos, tags, gens, killers, asked>>
  BY DEF StreamReset
<1>2. /\ service \in Services /\ Faithful(service.registry)
      /\ conn[p] # "open" => Gone(service, p)
      /\ conn[p] = "open" => Covered(service, p)
      /\ tags \in [Peers -> Tags] /\ gens \in [Peers -> SUBSET Symbols]
      /\ conn = [conn EXCEPT ![p] = conn[p]]
      /\ p \in Registered(service) => service.registry.entries[p] = Entries(tags[p])
  BY PeerFacts
<1>3. /\ Only(service, t, p) /\ t.registry = service.registry
      /\ Gone(service, p) => Gone(t, p)
      /\ Covered(service, p) => Covered(t, p)
  BY <1>2, LiveFacts
<1> HIDE DEF t
<1>4. conn[p] \in {"open"} \cup Closing /\ conn[p] \in Conns BY <1>1 DEF Closing, Conns
<1>5. /\ Only(service, service', p)
      /\ conn[p] # "open" => Gone(service', p)
      /\ conn[p] = "open" => Covered(service', p)
      /\ p \in Registered(service') => service'.registry.entries[p] = Entries(tags'[p])
  BY <1>1, <1>2, <1>3 DEF Registered
<1>6. conn' = [conn EXCEPT ![p] = conn[p]] /\ tags' = tags /\ gens' = gens BY <1>1, <1>2
<1> QED BY <1>1, <1>2, <1>4, <1>5, <1>6, ServedStep

(* A generator may end at any time: also after its connection.             *)
LEMMA GeneratorEndsKeeps ==
  ASSUME MarketInv, NEW p \in Peers, NEW symbol \in Symbols, GeneratorEnds(p, symbol)
  PROVE  MarketInv'
<1> DEFINE t == [service EXCEPT !.live[p] = @ \ {symbol}]
<1>1. /\ service' = t /\ gens' = [gens EXCEPT ![p] = @ \ {symbol}]
      /\ UNCHANGED <<dial, dialer, conn, hellos, tags, killers, asked>>
  BY DEF GeneratorEnds
<1>2. /\ service \in Services /\ Faithful(service.registry)
      /\ gens \in [Peers -> SUBSET Symbols]
      /\ p \in Registered(service) => service.registry.entries[p] = Entries(tags[p])
  BY PeerFacts
<1>3. /\ Only(service, t, p) /\ t.registry = service.registry
      /\ Gone(service, p) => Gone(t, p)
      /\ Covered(service, p) => Covered(t, p)
  BY <1>2, LiveFacts
<1> HIDE DEF t
<1>4. /\ conn[p] # "open" => Gone(service', p)
      /\ conn[p] \notin Closing => Covered(service', p)
  BY <1>1, <1>3 DEF MarketInv, Settled
<1>5. service' \in Services /\ Faithful(service'.registry) /\ Settled' /\ Indexed'
  <2>1. Only(service, service', p) BY <1>1, <1>3
  <2>2. p \in Registered(service') => service'.registry.entries[p] = Entries(tags'[p])
    BY <1>1, <1>2, <1>3 DEF Registered
  <2> QED BY <1>1, <1>4, <2>1, <2>2, TurnKeeps DEF MarketInv
<1>6. gens' \in [Peers -> SUBSET Symbols] BY <1>1, <1>2
<1>7. MarketTypes' BY <1>1, <1>5, <1>6 DEF MarketInv, MarketTypes
<1>8. Chased' /\ Agreed' BY <1>1 DEF MarketInv, Chased, Agreed
<1> QED BY <1>5, <1>7, <1>8 DEF MarketInv

(* The end of a peer: its connection is lost or its close() is over.       *)
LEMMA DiesKeeps ==
  ASSUME MarketInv, NEW p \in Peers, Lose(p) \/ CloseEnds(p)
  PROVE  MarketInv'
<1> DEFINE t == Die(service, p)
<1>1. PICK c \in {"ended", "broken"} : conn' = [conn EXCEPT ![p] = c] BY DEF Lose, CloseEnds
<1>2. /\ conn[p] \in {"open", "draining"} /\ service' = t
      /\ UNCHANGED <<dial, dialer, hellos, tags, gens, killers, asked>>
  BY DEF Lose, CloseEnds
<1>3. /\ service \in Services /\ Faithful(service.registry)
      /\ conn[p] # "open" => Gone(service, p)
      /\ conn[p] = "open" => Covered(service, p)
      /\ tags \in [Peers -> Tags] /\ gens \in [Peers -> SUBSET Symbols]
  BY PeerFacts
<1>4. Only(service, t, p) /\ Gone(t, p) BY <1>3, DieFacts
<1> HIDE DEF t
<1>5. /\ Only(service, service', p) /\ Gone(service', p) /\ p \notin Registered(service')
  BY <1>2, <1>4 DEF Gone
<1>6. c \in Conns /\ c \in {"open"} \cup Closing /\ c \in Dead /\ c # "open"
      /\ conn[p] \in {"open"} \cup Closing
  BY <1>2 DEF Conns, Closing, Dead
<1> QED BY <1>1, <1>2, <1>3, <1>5, <1>6, ServedStep

LEMMA ReadsEndKeeps ==
  ASSUME MarketInv, NEW p \in Peers, ReadsEnd(p)
  PROVE  MarketInv'
<1>1. /\ conn[p] = "broken" /\ conn' = [conn EXCEPT ![p] = "ended"]
      /\ UNCHANGED <<dial, dialer, hellos, tags, service, gens, killers, asked>>
  BY DEF ReadsEnd
<1>2. /\ service \in Services /\ Faithful(service.registry) /\ Gone(service, p)
      /\ tags \in [Peers -> Tags] /\ gens \in [Peers -> SUBSET Symbols]
  BY <1>1, PeerFacts
<1>3. Only(service, service', p) /\ Gone(service', p) /\ p \notin Registered(service')
  BY <1>1, <1>2 DEF Only, Gone
<1> QED BY <1>1, <1>2, <1>3, ServedStep DEF Conns, Closing, Dead

LEMMA ServeReturnsKeeps ==
  ASSUME MarketInv, NEW p \in Peers, ServeReturns(p)
  PROVE  MarketInv'
<1>1. /\ conn[p] = "ended" /\ conn' = [conn EXCEPT ![p] = "over"] /\ service' = Forget(service, p)
      /\ UNCHANGED <<dial, dialer, hellos, tags, gens, killers, asked>>
  BY DEF ServeReturns
<1>2. /\ service \in Services /\ Faithful(service.registry) /\ Gone(service, p)
      /\ tags \in [Peers -> Tags] /\ gens \in [Peers -> SUBSET Symbols]
  BY <1>1, PeerFacts
<1>3. Only(service, service', p) /\ Gone(service', p) /\ p \notin Registered(service')
  BY <1>1, <1>2, ForgetFacts DEF Gone
<1> QED BY <1>1, <1>2, <1>3, ServedStep DEF Conns, Closing, Dead

-----------------------------------------------------------------------------
(* The kill.                                                               *)

LEMMA RestFacts ==
  ASSUME NEW S, NEW queue \in Seq(S), queue # << >>
  PROVE  /\ Head(queue) \in S /\ Tail(queue) \in Seq(S)
         /\ \A x \in Range(queue) : x = Head(queue) \/ x \in Range(Tail(queue))
<1>1. /\ Len(queue) \in Nat /\ Len(queue) > 0 /\ DOMAIN queue = 1 .. Len(queue)
      /\ Head(queue) = queue[1] /\ queue[1] \in S /\ Tail(queue) \in Seq(S)
      /\ Len(Tail(queue)) = Len(queue) - 1 /\ DOMAIN Tail(queue) = 1 .. Len(Tail(queue))
      /\ \A i \in 1 .. Len(queue) - 1 : Tail(queue)[i] = queue[i + 1]
  OBVIOUS
<1>2. ASSUME NEW x \in Range(queue), x # Head(queue) PROVE x \in Range(Tail(queue))
  <2>1. PICK i \in 1 .. Len(queue) : queue[i] = x BY <1>1 DEF Range
  <2>2. i # 1 BY <1>1, <1>2, <2>1
  <2>3. i - 1 \in 1 .. Len(queue) - 1 BY <1>1, <2>1, <2>2
  <2>4. Tail(queue)[i - 1] = x BY <1>1, <2>1, <2>3
  <2> QED BY <1>1, <2>3, <2>4 DEF Range
<1> QED BY <1>1, <1>2

LEMMA KillKeeps ==
  ASSUME MarketInv, NEW k \in Killers, Kill(k)
  PROVE  MarketInv'
<1> DEFINE peers == PeersFor(service.registry, << >>)
<1>1. /\ asked' = [asked EXCEPT ![k] = peers]
      /\ UNCHANGED <<dial, dialer, conn, hellos, tags, service, gens>>
  BY DEF Kill
<1>2. PICK queue \in [1 .. Cardinality(peers) -> peers] :
        Range(queue) = peers /\ killers' = [killers EXCEPT ![k] = queue]
  BY DEF Kill
<1>3. peers \subseteq Peers
  <2>1. service.registry \in Registries BY DEF MarketInv, MarketTypes, Services
  <2>2. peers = DOMAIN service.registry.entries BY DEF PeersFor
  <2> QED BY <2>1, <2>2, RegistryType
<1> HIDE DEF peers
<1>4. Cardinality(peers) \in Nat BY <1>3, MarketAssumption, FS_Subset, FS_CardinalityType
<1>5. queue \in Seq(Peers) BY <1>2, <1>3, <1>4
<1>6. MarketTypes' BY <1>1, <1>2, <1>3, <1>5 DEF MarketInv, MarketTypes
<1>7. Chased'
  <2> SUFFICES ASSUME NEW l \in Killers, NEW q \in asked'[l], conn[q] \notin Dead
               PROVE  q \in Range(killers'[l])
    BY <1>1 DEF Chased
  <2>1. CASE l = k
    <3>1. asked'[l] = peers /\ killers'[l] = queue BY <1>1, <1>2, <2>1 DEF MarketInv, MarketTypes
    <3> QED BY <1>2, <3>1
  <2>2. CASE l # k
    <3>1. asked'[l] = asked[l] /\ killers'[l] = killers[l] BY <1>1, <1>2, <2>2 DEF MarketInv, MarketTypes
    <3> QED BY <3>1 DEF MarketInv, Chased
  <2> QED BY <2>1, <2>2
<1>8. Settled' /\ Indexed' /\ Agreed' BY <1>1 DEF MarketInv, Settled, Indexed, Agreed
<1> QED BY <1>6, <1>7, <1>8 DEF MarketInv

(* At its turn the board goes before the drain starts.                     *)
LEMMA KillTurnsKeeps ==
  ASSUME MarketInv, NEW k \in Killers, KillTurns(k)
  PROVE  MarketInv'
<1>1. killers[k] \in Seq(Peers) /\ killers[k] # << >> BY DEF KillTurns, MarketInv, MarketTypes
<1>2. PICK p \in Peers : p = Head(killers[k]) BY <1>1, RestFacts
<1>3. /\ conn[p] = "open" /\ service' = Forget(service, p) /\ conn' = [conn EXCEPT ![p] = "draining"]
      /\ UNCHANGED <<dial, dialer, hellos, tags, gens, killers, asked>>
  BY <1>2 DEF KillTurns
<1>4. /\ service \in Services /\ Faithful(service.registry) /\ Covered(service, p)
      /\ tags \in [Peers -> Tags] /\ gens \in [Peers -> SUBSET Symbols]
  BY <1>3, PeerFacts
<1>5. Only(service, service', p) /\ Gone(service', p) /\ p \notin Registered(service')
  BY <1>3, <1>4, ForgetFacts DEF Gone, Covered
<1> QED BY <1>3, <1>4, <1>5, ServedStep DEF Conns, Closing, Dead

LEMMA KillGoesOnKeeps ==
  ASSUME MarketInv, NEW k \in Killers, KillGoesOn(k)
  PROVE  MarketInv'
<1>1. killers[k] \in Seq(Peers) /\ killers[k] # << >> BY DEF KillGoesOn, MarketInv, MarketTypes
<1>2. /\ Head(killers[k]) \in Peers /\ Tail(killers[k]) \in Seq(Peers)
      /\ \A x \in Range(killers[k]) : x = Head(killers[k]) \/ x \in Range(Tail(killers[k]))
  BY <1>1, RestFacts
<1>3. PICK p \in Peers : p = Head(killers[k]) BY <1>2
<1>4. /\ conn[p] \in Dead /\ service' = Forget(service, p)
      /\ killers' = [killers EXCEPT ![k] = Tail(killers[k])]
      /\ UNCHANGED <<dial, dialer, conn, hellos, tags, gens, asked>>
  BY <1>3 DEF KillGoesOn
<1>5. /\ service \in Services /\ Faithful(service.registry) /\ Gone(service, p)
  BY <1>4, PeerFacts DEF Dead
<1>6. Only(service, service', p) /\ Gone(service', p) /\ p \notin Registered(service')
  BY <1>4, <1>5, ForgetFacts DEF Gone
<1>7. service' \in Services /\ Faithful(service'.registry) /\ Settled' /\ Indexed'
  <2>1. conn'[p] \in Closing BY <1>4 DEF Closing
  <2> QED BY <1>4, <1>6, <2>1, TurnKeeps DEF MarketInv
<1>8. MarketTypes' BY <1>2, <1>4, <1>7 DEF MarketInv, MarketTypes
<1>9. Chased'
  <2> SUFFICES ASSUME NEW l \in Killers, NEW q \in asked[l], conn[q] \notin Dead
               PROVE  q \in Range(killers'[l])
    BY <1>4 DEF Chased
  <2>1. q \in Range(killers[l]) BY DEF MarketInv, Chased
  <2>2. CASE l = k
    <3>1. killers'[l] = Tail(killers[k]) BY <1>4, <2>2 DEF MarketInv, MarketTypes
    <3> QED BY <1>2, <1>3, <1>4, <2>1, <2>2, <3>1
  <2>3. CASE l # k
    <3>1. killers'[l] = killers[l] BY <1>4, <2>3 DEF MarketInv, MarketTypes
    <3> QED BY <2>1, <3>1
  <2> QED BY <2>2, <2>3
<1>10. Agreed' BY <1>4 DEF MarketInv, Agreed
<1> QED BY <1>7, <1>8, <1>9, <1>10 DEF MarketInv

LEMMA MarketStep == MarketInv /\ [Next]_vars => MarketInv'
<1> SUFFICES ASSUME MarketInv, [Next]_vars PROVE MarketInv' OBVIOUS
<1>1. ASSUME NEW p \in Peers, Dial(p) PROVE MarketInv' BY <1>1, DialKeeps
<1>2. ASSUME NEW p \in Peers, Upgrade(p) PROVE MarketInv' BY <1>2, UpgradeKeeps
<1>3. ASSUME NEW p \in Peers, Answer(p) PROVE MarketInv' BY <1>3, AnswerKeeps
<1>4. ASSUME NEW p \in Peers, Serve(p) \/ Refused(p) PROVE MarketInv' BY <1>4, ServeKeeps
<1>5. ASSUME NEW p \in Peers, Hello(p) PROVE MarketInv' BY <1>5, HelloKeeps
<1>6. ASSUME NEW p \in Peers, Lose(p) \/ CloseEnds(p) PROVE MarketInv' BY <1>6, DiesKeeps
<1>7. ASSUME NEW p \in Peers, ReadsEnd(p) PROVE MarketInv' BY <1>7, ReadsEndKeeps
<1>8. ASSUME NEW p \in Peers, ServeReturns(p) PROVE MarketInv' BY <1>8, ServeReturnsKeeps
<1>9. ASSUME NEW p \in Peers, NEW symbol \in Symbols, StreamReset(p, symbol) PROVE MarketInv'
  BY <1>9, StreamResetKeeps
<1>10. ASSUME NEW p \in Peers, NEW symbol \in Symbols, GeneratorEnds(p, symbol) PROVE MarketInv'
  BY <1>10, GeneratorEndsKeeps
<1>11. ASSUME NEW k \in Killers, Kill(k) PROVE MarketInv' BY <1>11, KillKeeps
<1>12. ASSUME NEW k \in Killers, KillTurns(k) PROVE MarketInv' BY <1>12, KillTurnsKeeps
<1>13. ASSUME NEW k \in Killers, KillGoesOn(k) PROVE MarketInv' BY <1>13, KillGoesOnKeeps
<1>14. CASE UNCHANGED vars
  BY <1>14 DEF vars, MarketInv, MarketTypes, Settled, Indexed, Chased, Agreed
<1> QED BY <1>1, <1>2, <1>3, <1>4, <1>5, <1>6, <1>7, <1>8, <1>9, <1>10, <1>11, <1>12, <1>13, <1>14
        DEF Next

LEMMA MarketHolds == Spec => []MarketInv
BY MarketInit, MarketStep, PTL DEF Spec

-----------------------------------------------------------------------------
(* The theorems.                                                           *)

(* The structures of the process stay well formed: in particular no empty  *)
(* bucket of the registry is kept (ts/registry.ts, handlers.ts).           *)
THEOREM TypeCorrect == Spec => []TypeOK
<1>1. MarketInv => TypeOK
  <2> SUFFICES ASSUME MarketInv PROVE TypeOK OBVIOUS
  <2>1. service.registry \in Registries /\ Faithful(service.registry) /\ service \in Services
    BY DEF MarketInv, MarketTypes, Services
  <2>2. /\ DOMAIN service.registry.entries \subseteq Peers
        /\ DOMAIN service.registry.index \subseteq Keys \X Values
        /\ service.registry.index \in [DOMAIN service.registry.index -> SUBSET Peers]
    BY <2>1, RegistryType DEF Buckets
  <2>3. \A bucket \in DOMAIN service.registry.index :
           service.registry.index[bucket] \in (SUBSET Peers) \ {{}}
    BY <2>1, <2>2 DEF Faithful
  <2>4. service.boards \subseteq Peers /\ service.live \in [Peers -> SUBSET Symbols]
    BY <2>1 DEF Services
  <2> QED BY <2>2, <2>3, <2>4 DEF TypeOK, MarketInv, MarketTypes
<1> QED BY <1>1, MarketHolds, PTL

(* A lookup answers with exactly the peers whose tags, when they were last *)
(* registered, match every key, whatever was registered, forgotten and     *)
(* closed since (ts/registry.ts): index and reverse map are two views of   *)
(* one relation, and the reverse map has the entries of the last tags.     *)
THEOREM LookupsAreExact == Spec => []LookupIsExact
<1>1. MarketInv => LookupIsExact
  <2> SUFFICES ASSUME MarketInv, NEW wanted \in Lookups
               PROVE  PeersFor(service.registry, wanted) =
                        {p \in DOMAIN service.registry.entries : \A key \in DOMAIN wanted :
                            tags[p][key] = wanted[key] /\ IsIndexable(wanted[key])}
    BY DEF LookupIsExact
  <2>1. service.registry \in Registries /\ Faithful(service.registry) /\ tags \in [Peers -> Tags]
    BY DEF MarketInv, MarketTypes, Services
  <2>2. \A p \in DOMAIN service.registry.entries : service.registry.entries[p] = Entries(tags[p])
    BY DEF MarketInv, Indexed, Registered
  <2>3. DOMAIN wanted \subseteq Keys BY MarketAssumption
  <2> QED BY <2>1, <2>2, <2>3, LookupFacts
<1> QED BY <1>1, MarketHolds, PTL

(* A closed peer is in no lookup, has no board and no open stream, also    *)
(* when its hello came after its death (register() and startBoard() on a   *)
(* closed peer, onClose()).                                                *)
THEOREM TheDeadAreGone == Spec => []DeadIsGone
<1>1. MarketInv => DeadIsGone
  <2> SUFFICES ASSUME MarketInv, NEW p \in Peers, conn[p] \in Dead
               PROVE  /\ p \notin PeersFor(service.registry, << >>)
                      /\ p \notin service.boards /\ service.live[p] = {}
    BY DEF DeadIsGone
  <2>1. Gone(service, p) BY PeerFacts DEF Dead
  <2> QED BY <2>1 DEF Gone, Registered, PeersFor
<1> QED BY <1>1, MarketHolds, PTL

(* A kill closes all that it was asked to close, and none of its closes    *)
(* waits for the board (closeEveryPeer()).                                 *)
THEOREM KillsAreExact == Spec => []KillIsExact
<1>1. MarketInv => KillIsExact
  <2> SUFFICES ASSUME MarketInv PROVE KillSparesTheDrain /\ KillMissesNone BY DEF KillIsExact
  <2>1. KillSparesTheDrain BY DEF KillSparesTheDrain, MarketInv, Settled, Gone
  <2>2. KillMissesNone BY DEF KillMissesNone, MarketInv, Chased, Range
  <2> QED BY <2>1, <2>2
<1> QED BY <1>1, MarketHolds, PTL

(* The two ends of a handshake end it alike, and under SameOrigin exactly  *)
(* the pages of the addressed host and of `also` are served: for every     *)
(* request an honest dialer sends, through whatever proxy, and every       *)
(* server (dialWs(), BrowserSocket.connect(), handleProtocols(), accept(), *)
(* SameOrigin).                                                            *)
THEOREM HandshakesAreSound == Spec => []HandshakeSound
<1>1. MarketInv => HandshakeSound
  <2> SUFFICES ASSUME MarketInv, NEW p \in Peers, conn[p] \in {"accepted", "refused"}
               PROVE  /\ dialer[p] # "waiting" =>
                            LET server == dial[p].server
                            IN  /\ conn[p] = "accepted" => dialer[p] = "adapter" /\ dial[p].codec = server.codec
                                /\ (/\ conn[p] = "refused" /\ Allows(server.policy, dial[p].request)
                                    /\ server.hooks \cap {"select", "refuse"} # {}
                                    /\ server.settings = server.codec)
                                   => dialer[p] = "CodecMismatch"
                                /\ dialer[p] # "Error"
                      /\ dial[p].server.policy.kind = "same" =>
                            LET policy == dial[p].server.policy
                                own == dial[p].page \in policy.also \cup {dial[p].addressed}
                                proxyKnown == dial[p].request.forwarded = << >> \/ policy.trustForwardedHost
                            IN  /\ conn[p] = "accepted" => own
                                /\ own /\ proxyKnown /\ Len(dial[p].request.origin) = 1 =>
                                      Accept(dial[p].server, dial[p].request, NoEntry) # "OriginRefused"
    BY DEF HandshakeSound, EndsAgree, PagesOfItsHost
  <2>1. PICK d \in Dials, server \in Servers : dial[p] = To(server, d) BY DEF MarketInv, Agreed
  <2>2. /\ conn[p] = "accepted" <=> Upgraded(dial[p])
        /\ dialer[p] \in {"waiting", Learns(dial[p])}
    BY DEF MarketInv, Agreed
  <2>3. /\ dial[p].server = server /\ dial[p].codec = d.codec /\ dial[p].request = d.request
        /\ dial[p].page = d.page /\ dial[p].addressed = d.addressed
    BY <2>1 DEF To
  <2>4. Honest(d) BY DialsAssumption
  <2>5. /\ Upgraded(dial[p]) => Learns(dial[p]) = "adapter" /\ d.codec = server.codec
        /\ (/\ ~Upgraded(dial[p]) /\ Allows(server.policy, d.request)
            /\ server.hooks \cap {"select", "refuse"} # {} /\ server.settings = server.codec)
           => Learns(dial[p]) = "CodecMismatch"
        /\ Learns(dial[p]) # "Error"
    BY <2>1, <2>4, EndsLemma
  <2>6. ASSUME dialer[p] # "waiting"
        PROVE  /\ conn[p] = "accepted" => dialer[p] = "adapter" /\ d.codec = server.codec
               /\ (/\ conn[p] = "refused" /\ Allows(server.policy, d.request)
                   /\ server.hooks \cap {"select", "refuse"} # {} /\ server.settings = server.codec)
                  => dialer[p] = "CodecMismatch"
               /\ dialer[p] # "Error"
    BY <2>2, <2>5, <2>6
  <2>7. ASSUME server.policy.kind = "same"
        PROVE  /\ conn[p] = "accepted" => d.page \in server.policy.also \cup {d.addressed}
               /\ /\ d.page \in server.policy.also \cup {d.addressed}
                  /\ d.request.forwarded = << >> \/ server.policy.trustForwardedHost
                  /\ Len(d.request.origin) = 1
                  => Accept(server, d.request, NoEntry) # "OriginRefused"
    <3>1. Upgraded(dial[p]) => Allows(server.policy, d.request)
      BY <2>3 DEF Upgraded, Accept
    <3>2. Allows(server.policy, d.request) => Accept(server, d.request, NoEntry) # "OriginRefused"
      BY DEF Accept
    <3> QED BY <2>2, <2>7, <3>1, <3>2, PagesLemma
  <2> QED BY <2>3, <2>6, <2>7
<1> QED BY <1>1, MarketHolds, PTL
=============================================================================
