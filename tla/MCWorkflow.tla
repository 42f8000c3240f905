----------------------------- MODULE MCWorkflow -----------------------------
(***************************************************************************)
(* Instances of WorkflowExecutor for TLC: the graphs its runs are created  *)
(* with.                                                                   *)
(***************************************************************************)
EXTENDS WorkflowExecutor

CONSTANT e1

Graphs(n, autos) ==
    {[n |-> n,
      par  |-> [s \in StepId |-> IF s <= n THEN p[s] ELSE {}],
      auto |-> [s \in StepId |-> s \in A]] :
        p \in {q \in [1..n -> SUBSET (1..n)] : \A s \in 1..n : s \notin q[s]},
        A \in autos}

Forward(graphs) == {g \in graphs : \A s \in StepId : \A p \in g.par[s] : p < s}

(* Every dag of four steps (edges only from lower to higher ids), and the  *)
(* dags of three of which one step is an auto-repairing review.            *)
Dags == Forward(Graphs(4, {{}})) \cup Forward(Graphs(3, {{1}, {3}}))

(* Every graph on three steps, the cyclic ones included; on two, either or *)
(* both being auto-repairing reviews.                                      *)
Pairs == Graphs(2, SUBSET {1, 2})
SmallGraphs == Graphs(3, {{}}) \cup Pairs

=============================================================================
