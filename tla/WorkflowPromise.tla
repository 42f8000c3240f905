--------------------------- MODULE WorkflowPromise ---------------------------
(***************************************************************************)
(* What a workflow run promises to whoever created it, whatever loop       *)
(* drives it: a step is carried out at most once and only after all the    *)
(* steps it depends on succeeded; the run ends, once, with the outcome     *)
(* the steps justify; nothing waits after the end.                         *)
(***************************************************************************)
EXTENDS Naturals, FiniteSets

CONSTANT Step     \* step ids

VARIABLES
    deps,      \* the steps each step depends on
    phase,     \* where each step is
    outcome    \* of the run

vars == <<deps, phase, outcome>>

Phase   == {"unknown", "waiting", "active", "succeeded", "failed", "dropped"}
Outcome == {"open", "succeeded", "failed"}

In(ph) == {s \in Step : phase[s] = ph}

Init ==
    /\ deps \in [Step -> SUBSET Step]
    /\ phase \in [Step -> {"unknown", "waiting"}]
    /\ outcome = "open"

Eligible(s) == \A d \in deps[s] : phase[d] = "succeeded"

(* A step dropped by a failure may still be carried out if it was about to *)
(* be: it is never carried out twice, nor before what it depends on.       *)
Begin(s) ==
    /\ phase[s] = "waiting" \/ (phase[s] = "dropped" /\ outcome = "failed")
    /\ Eligible(s)
    /\ phase' = [phase EXCEPT ![s] = "active"]
    /\ UNCHANGED <<deps, outcome>>

(* A success may be the last one, or (a review) ask for more steps, which  *)
(* depend on it directly or through one another.                           *)
Succeed(s) ==
    /\ phase[s] = "active"
    /\ phase' = [phase EXCEPT ![s] = "succeeded"]
    /\ outcome' = IF outcome = "open" /\ \A t \in Step \ {s} :
                        phase[t] \in {"unknown", "succeeded", "dropped"}
                  THEN "succeeded" ELSE outcome
    /\ UNCHANGED deps

SucceedWithMore(s) ==
    /\ phase[s] = "active"
    /\ outcome = "open"
    /\ \E first, second \in In("unknown") :
        /\ first # second
        /\ deps' = [deps EXCEPT ![first] = {s}, ![second] = {first}]
        /\ phase' = [phase EXCEPT ![s] = "succeeded", ![first] = "waiting",
                                  ![second] = "waiting"]
    /\ UNCHANGED outcome

DroppedBut(s) ==
    [t \in Step |-> IF t = s THEN "failed"
                    ELSE IF phase[t] = "waiting" THEN "dropped" ELSE phase[t]]

(* The first failure ends the run and drops whatever was waiting.          *)
Fail(s) ==
    /\ phase[s] = "active"
    /\ phase' = IF outcome = "open" THEN DroppedBut(s)
                                    ELSE [phase EXCEPT ![s] = "failed"]
    /\ outcome' = IF outcome = "open" THEN "failed" ELSE outcome
    /\ UNCHANGED deps

(* Nothing is under way and nothing was started: one step takes the blame. *)
GiveUp(s) ==
    /\ phase[s] = "waiting"
    /\ outcome = "open"
    /\ In("active") = {}
    /\ phase' = DroppedBut(s)
    /\ outcome' = "failed"
    /\ UNCHANGED deps

End(s) == Succeed(s) \/ SucceedWithMore(s) \/ Fail(s)

Next == \E s \in Step : Begin(s) \/ End(s) \/ GiveUp(s)

(* While the run is open or a step active, something is done about it.     *)
Spec ==
    /\ Init
    /\ [][Next]_vars
    /\ WF_vars(outcome = "open" /\ Next)
    /\ \A s \in Step : WF_vars(End(s))
=============================================================================
