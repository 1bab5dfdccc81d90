------------------------------ MODULE Registry ------------------------------
(***************************************************************************)
(* `PeerRegistry` (ts/registry.ts): peers found by the values of their     *)
(* tags.  The registry keeps three structures, here the fields of one      *)
(* record so that a caller can apply several operations in one turn of the *)
(* event loop:                                                             *)
(*   index    the buckets: (key, value) -> the peers under it; the two     *)
(*            levels of Map are one function on pairs, and a bucket that   *)
(*            empties leaves its domain                                    *)
(*   entries  the reverse map: peer -> the pairs it is indexed under       *)
(*   hooked   the peers on which a close hook was ever installed           *)
(* Every operation of the class is synchronous.  The close hook itself is  *)
(* the caller's: only the peer knows when it runs.                         *)
(***************************************************************************)
EXTENDS Naturals, FiniteSets, Functions

CONSTANTS Peers,   \* the peers of the process
          Keys,    \* tag names
          Values,  \* tag values usable as lookup values
          Object,  \* a tag value that is not: an object, an array, null
          Absent   \* no such tag

ASSUME RegistryAssumption == Object \notin Values /\ Absent \notin Values /\ Object # Absent

Tags == [Keys -> Values \cup {Object, Absent}]

EmptyRegistry == [index |-> <<>>, entries |-> <<>>, hooked |-> {}]

IsIndexable(value) == value \in Values

\* What register() indexes of a peer's tags.
Entries(tags) == {<<key, tags[key]>> : key \in {k \in Keys : IsIndexable(tags[k])}}

\* Without the buckets that are empty.
Pruned(index) == Restrict(index, {bucket \in DOMAIN index : index[bucket] # {}})

Deregister(registry, peer) ==
    IF peer \notin DOMAIN registry.entries
    THEN registry
    ELSE [registry EXCEPT
             !.entries = Restrict(@, DOMAIN @ \ {peer}),
             !.index = Pruned([bucket \in DOMAIN @ |->
                           @[bucket] \ (IF bucket \in registry.entries[peer] THEN {peer} ELSE {})])]

Holders(index, bucket) == IF bucket \in DOMAIN index THEN index[bucket] ELSE {}

\* Fault: a second register() adds to the entries of the first.
RegisterAdds(registry, peer, tags) ==
    LET wanted == Entries(tags)
    IN  [index |-> [bucket \in DOMAIN registry.index \cup wanted |->
                       Holders(registry.index, bucket) \cup (IF bucket \in wanted THEN {peer} ELSE {})],
         entries |-> [p \in DOMAIN registry.entries \cup {peer} |->
                         IF p = peer THEN wanted ELSE registry.entries[p]],
         hooked |-> registry.hooked \cup {peer}]

\* The old entries go first; the hook is the caller's, when peer is not hooked.
Register(registry, peer, tags) ==
    LET without == Deregister(registry, peer)
        wanted == Entries(tags)
    IN  [index |-> [bucket \in DOMAIN without.index \cup wanted |->
                       Holders(without.index, bucket) \cup (IF bucket \in wanted THEN {peer} ELSE {})],
         entries |-> [p \in DOMAIN without.entries \cup {peer} |->
                         IF p = peer THEN wanted ELSE without.entries[p]],
         hooked |-> without.hooked \cup {peer}]

\* A lookup by the keys of `wanted`, a function on a subset of Keys: the
\* intersection of the buckets, every registered peer when no key is given.
PeersFor(registry, wanted) ==
    IF DOMAIN wanted = {}
    THEN DOMAIN registry.entries
    ELSE {peer \in Peers : \A key \in DOMAIN wanted :
             IsIndexable(wanted[key]) /\ peer \in Holders(registry.index, <<key, wanted[key]>>)}
=============================================================================
