----------------------------- MODULE MCFragment -----------------------------
(***************************************************************************)
(* Payloads of up to MaxUnits units: a plain byte, an escaped one, and a   *)
(* codepoint of three bytes.  A cap of 8 bytes with an envelope of 1 leaves *)
(* one to seven bytes to a fragment, so the reservation, the second split  *)
(* and both floors bite.                                                   *)
(***************************************************************************)
EXTENDS Fragment, FiniteSetsExt, SequencesExt

CONSTANT MaxUnits

Units == {<<"plain">>, <<"quoted">>, <<"lead", "cont", "cont">>}

Encodings == {FlattenSeq(u) : u \in UNION {[1 .. n -> Units] : n \in 1 .. MaxUnits}}

Stream(payloads, text, opens, maxFrame, maxPayload, headers, trailers) ==
    [payloads |-> payloads, text |-> text, opens |-> opens, cap |-> 8,
     maxFrame |-> maxFrame, maxPayload |-> maxPayload,
     headers |-> headers, trailers |-> trailers, more |-> 1, envelope |-> 1]

(* One payload of every shape, with headers and trailers that leave room,   *)
(* leave hardly any, and leave none.                                        *)
Shapes ==
    {Stream(<<e>>, text, FALSE, 8, 99, h, t) :
        e \in Encodings, text \in BOOLEAN, h \in {0, 4, 6}, t \in {0, 3, 7, 8}}

Tail2 == {<<"plain">>, <<"quoted", "quoted", "lead", "cont", "quoted", "plain">>}

(* Two payloads, with an open or without, against limits below and above    *)
(* their sizes.                                                             *)
Limits ==
    {Stream(<<e, f>>, TRUE, opens, m, p, h, 3) :
        e \in {x \in Encodings : Len(x) >= 4 /\ x[1] = "lead"}, f \in Tail2, opens \in BOOLEAN,
        m \in {5, 8}, p \in {4, 6, 99}, h \in {0, 2}}

AllSetups == Shapes \union Limits
=============================================================================
