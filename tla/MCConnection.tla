---------------------------- MODULE MCConnection ----------------------------
(* Connection for TLC.  CHECK_DEADLOCK is FALSE: the applications may stop *)
(* and two dead peers do nothing more.                                     *)
EXTENDS Connection

Closing == [openers |-> {"dialer"}, closers |-> {"acceptor"}, payloads |-> 2, faulty |-> FALSE]
Crossing == [openers |-> Peers, closers |-> {"acceptor"}, payloads |-> 0, faulty |-> FALSE]
Lossy == [openers |-> {"dialer"}, closers |-> {"acceptor"}, payloads |-> 1, faulty |-> TRUE]

ClosingSetups == {Closing}
StreamsSetups == {Closing, Crossing, Lossy}
=============================================================================
