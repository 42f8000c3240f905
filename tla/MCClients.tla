----------------------------- MODULE MCClients ------------------------------
(***************************************************************************)
(* Instances of WorkflowClients for TLC.                                   *)
(***************************************************************************)
EXTENDS WorkflowClients

CONSTANTS e1, c1

Plain(n, p) ==
    [n    |-> n,
     par  |-> [s \in StepId |-> IF s <= n THEN p[s] ELSE {}],
     auto |-> [s \in StepId |-> FALSE]]

Reviewed(g, s) == [g EXCEPT !.auto[s] = TRUE]

(* A chain of three, a chain of two and two steps side by side; a third    *)
(* step can be inserted into the last two.  A step that reviews, with room *)
(* for the two steps of its repair.                                        *)
Shapes ==
    {Plain(3, <<{}, {1}, {2}>>), Plain(2, <<{}, {1}>>), Plain(2, <<{}, {}>>),
     Reviewed(Plain(1, <<{}>>), 1)}
=============================================================================
