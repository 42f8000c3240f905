----------------------------- MODULE MCRecovery -----------------------------
(***************************************************************************)
(* Instances of WorkflowRecovery for TLC.                                  *)
(***************************************************************************)
EXTENDS WorkflowRecovery

CONSTANT e1

Forward3 ==
    {[n    |-> 3,
      par  |-> [s \in StepId |-> IF s <= 3 THEN p[s] ELSE {}],
      auto |-> [s \in StepId |-> FALSE]] :
        p \in {q \in [1..3 -> SUBSET (1..3)] : \A s \in 1..3 : \A t \in q[s] : t < s}}

Chain == {g \in Forward3 : g.par[2] = {1} /\ g.par[3] = {2}}
=============================================================================
