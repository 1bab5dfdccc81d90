------------------------------ MODULE MCMarket ------------------------------
(***************************************************************************)
(* The acceptor's instances: eight configurations of the server, dialers   *)
(* of both codecs from two hosts through three kinds of proxy, and the     *)
(* hellos of two peers.                                                    *)
(***************************************************************************)
EXTENDS Market

Own(port) == [scheme |-> "https", host |-> "own", port |-> port]
Other == [scheme |-> "https", host |-> "other", port |-> 443]
Null == [scheme |-> "null", host |-> "none", port |-> 0]

NoPolicy == [kind |-> "none", also |-> {}, trustForwardedHost |-> FALSE]
Same(also, trust) == [kind |-> "same", also |-> also, trustForwardedHost |-> trust]
Exact(also) == [kind |-> "exact", also |-> also, trustForwardedHost |-> FALSE]

Server(hooks, codec, policy) ==
    [hooks |-> hooks, settings |-> "json", codec |-> codec, policy |-> policy]

MCServers == {Server({"select", "refuse"}, "json", NoPolicy),
              Server({"select"}, "json", Same({}, FALSE)),
              Server({"select", "refuse"}, "json", Same({}, TRUE)),
              Server({}, "json", Same({Other}, FALSE)),
              Server({"select"}, "msgpack", Exact({Own(443)})),
              Server({"select"}, "json", [Exact({Own(443)}) EXCEPT !.kind = "function"]),
              Server({"own"}, "json", NoPolicy),
              Server({}, "msgpack", NoPolicy)}

\* What a proxy leaves of the host that was addressed, "own" at 443.
Proxied(proxy) ==
    CASE proxy = "none"     -> [host |-> <<[host |-> "own", port |-> 0]>>, forwarded |-> <<>>]
      [] proxy = "forwards" -> [host |-> <<[host |-> "upstream", port |-> 8000]>>,
                                forwarded |-> <<[host |-> "own", port |-> 443]>>]

Request(offered, origin, proxy, path) ==
    [offered |-> offered, path |-> path, origin |-> origin,
     host |-> Proxied(proxy).host, forwarded |-> Proxied(proxy).forwarded]

MCDials ==
    {[by |-> by, codec |-> codec, page |-> page, addressed |-> Own(443),
      request |-> Request(Offer(codec, extra), <<page>>, proxy, TRUE)] :
         by \in {"ws", "browser"}, codec \in {"json", "msgpack"}, page \in {Own(443), Own(8443), Other, Null},
         extra \in {<<>>, <<Token>>}, proxy \in {"none", "forwards"}}
    \cup
    {[by |-> "ws", codec |-> "json", page |-> Own(443), addressed |-> Own(443),
      request |-> Request(Offer("json", <<>>), origin, "none", path)] :
         origin \in {<<>>, <<Own(443), Other>>}, path \in BOOLEAN}

MCGreetings == {[app |-> "a", tab |-> "t"], [app |-> Object, tab |-> Absent]}
MCLookups == {<<>>, [app |-> "a"], [app |-> "a", tab |-> "t"], [app |-> Object], [tab |-> "t"]}
=============================================================================
