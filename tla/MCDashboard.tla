---------------------------- MODULE MCDashboard -----------------------------
(***************************************************************************)
(* Instances of the page: each setup lets one part of it happen often.     *)
(***************************************************************************)
EXTENDS Dashboard

Setup(l, t, s, p, r, polls) ==
    [losses |-> l, ticks |-> t, selects |-> s, payloads |-> p, rates |-> r, polls |-> polls]

MCSetups == {Setup(2, 4, 0, 0, 0, FALSE),   \* the board
             Setup(1, 0, 3, 0, 0, FALSE),   \* selections
             Setup(1, 1, 0, 3, 0, FALSE),   \* payloads before anything is selected
             Setup(1, 0, 1, 2, 0, FALSE),   \* payloads of what is selected
             Setup(2, 0, 0, 0, 3, TRUE)}    \* the tick interval
=============================================================================
