----------------------------- MODULE MCReconnect ----------------------------
(* Reconnect for TLC.  CHECK_DEADLOCK is FALSE: after close(), or a        *)
(* connect() that rejects, nothing is left to do.                          *)
EXTENDS Reconnect

Dialer(hasHello, maxAttempts) == [helper |-> TRUE, hello |-> hasHello, cap |-> maxAttempts]
Acceptor == [helper |-> FALSE, hello |-> FALSE, cap |-> 0]

HelperSetups ==
    {Acceptor} \cup {Dialer(h, n) : h \in BOOLEAN, n \in {0, 1, 2, Unlimited}}
OrphanSetups == {Dialer(FALSE, Unlimited)}
=============================================================================
