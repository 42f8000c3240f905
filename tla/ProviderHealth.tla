--------------------------- MODULE ProviderHealth ---------------------------
(***************************************************************************)
(* The health of the model providers and the failover it decides           *)
(* (agent/provider_health.rs), with the callers that share it: lead        *)
(* sessions, which decide the route anew for every round of a turn         *)
(* (agent/session.rs), and subagents, which decide once and keep it        *)
(* (agent/subagent.rs).  The map is locked for each read and each record,  *)
(* not from one to the other.                                              *)
(*                                                                         *)
(* External: the providers, each up or down, which may also hang; the      *)
(* clock, counted in ticks of which Cooldown make the recovery cooldown.   *)
(***************************************************************************)
EXTENDS Naturals

CONSTANTS
    Providers,
    Sessions,      \* callers that are lead sessions
    Subagents,     \* callers that are subagents
    Configured,    \* the provider each caller is configured with
    Failover,      \* the backup of each provider, NoProvider for local
    NoProvider,
    Threshold,     \* DEGRADE_THRESHOLD
    Cooldown,      \* RECOVERY_COOLDOWN
    MaxFailures,   \* bound on the failure counter
    Never          \* degraded_at is null

Callers == Sessions \cup Subagents

ASSUME HealthAssumption ==
    /\ Sessions \cap Subagents = {}
    /\ NoProvider \notin Providers
    /\ Configured \in [Callers -> Providers]
    /\ Failover \in [Providers -> Providers \cup {NoProvider}]
    /\ Threshold \in Nat \ {0} /\ MaxFailures \in Nat /\ MaxFailures >= Threshold
    /\ Cooldown \in Nat /\ Never \notin Nat

VARIABLES
    health,      \* the record of each provider
    announced,   \* the status last sent to the user interface
    up,          \* whether the provider works
    caller       \* where each caller is

healthVars == <<health, announced, up, caller>>

HealthTypeOK ==
    /\ health \in [Providers -> [status   : {"healthy", "degraded"},
                                 failures : 0..MaxFailures,
                                 age      : 0..Cooldown \cup {Never}]]
    /\ announced \in [Providers -> {"healthy", "degraded"}]
    /\ up \in [Providers -> BOOLEAN]
    /\ caller \in [Callers ->
          [pc    : {"ready", "degraded", "calling", "success", "worthy", "other"},
           route : Providers]]

HealthInit ==
    /\ health = [p \in Providers |-> [status |-> "healthy", failures |-> 0, age |-> Never]]
    /\ announced = [p \in Providers |-> "healthy"]
    /\ up = [p \in Providers |-> TRUE]
    /\ caller = [c \in Callers |-> [pc |-> "ready", route |-> Configured[c]]]

-----------------------------------------------------------------------------
(* resolve_effective_model.                                                *)

Primary(c) == Configured[c]
Backup(c)  == Failover[Configured[c]]

CallVia(c, p) == caller' = [caller EXCEPT ![c] = [pc |-> "calling", route |-> p]]

(* is_degraded: the first look at the primary's record.                    *)
ReadStatus(c) ==
    /\ caller[c].pc = "ready"
    /\ IF Backup(c) = NoProvider \/ health[Primary(c)].status = "healthy"
       THEN CallVia(c, Primary(c))
       ELSE caller' = [caller EXCEPT ![c].pc = "degraded"]
    /\ UNCHANGED <<health, announced, up>>

(* Mutant: no probe.                                                       *)
ReadNoCooldown(c) ==
    /\ caller[c].pc = "degraded"
    /\ CallVia(c, Backup(c))
    /\ UNCHANGED <<health, announced, up>>

(* The second look: once the cooldown is over the call probes the primary. *)
ReadCooldown(c) ==
    /\ caller[c].pc = "degraded"
    /\ CallVia(c, IF health[Primary(c)].age = Cooldown THEN Primary(c) ELSE Backup(c))
    /\ UNCHANGED <<health, announced, up>>

-----------------------------------------------------------------------------
(* How a call ends.                                                        *)

Ends(c, how) ==
    /\ caller[c].pc = "calling"
    /\ caller' = [caller EXCEPT ![c].pc = how]
    /\ UNCHANGED <<health, announced, up>>

Succeed(c)    == up[caller[c].route] /\ Ends(c, "success")
FailWorthy(c) == ~up[caller[c].route] /\ Ends(c, "worthy")
FailOther(c)  == Ends(c, "other")

(* Aborted by the operator, or a subagent's timeout: nothing is recorded.  *)
GiveUp(c) == Ends(c, "ready")

(* A subagent whose round succeeded stays on its route.                    *)
AfterSuccess(c) == IF c \in Subagents THEN {"calling", "ready"} ELSE {"ready"}

(* Mutant: a success recovers the provider but keeps the count.            *)
RecordSuccessOnly(c) ==
    LET p == caller[c].route IN
    /\ caller[c].pc = "success"
    /\ health' = [health EXCEPT ![p].status = "healthy", ![p].age = Never]
    /\ announced' = [announced EXCEPT ![p] = "healthy"]
    /\ \E pc \in AfterSuccess(c) : caller' = [caller EXCEPT ![c].pc = pc]
    /\ UNCHANGED up

(* record_success.                                                         *)
RecordSuccess(c) ==
    LET p == caller[c].route IN
    /\ caller[c].pc = "success"
    /\ health' = [health EXCEPT ![p] = [status |-> "healthy", failures |-> 0, age |-> Never]]
    /\ announced' = [announced EXCEPT ![p] = "healthy"]
    /\ \E pc \in AfterSuccess(c) : caller' = [caller EXCEPT ![c].pc = pc]
    /\ UNCHANGED up

(* A failure worth a failover counts; at the threshold it degrades the     *)
(* provider, and of a degraded one it restarts the cooldown.               *)
RecordFailure(c) ==
    LET p == caller[c].route
        h == health[p]
        n == IF h.failures < MaxFailures THEN h.failures + 1 ELSE MaxFailures
        degrades == h.status = "degraded" \/ n >= Threshold
    IN
    /\ caller[c].pc = "worthy"
    /\ health' = [health EXCEPT ![p] =
                     [status |-> IF degrades THEN "degraded" ELSE h.status,
                      failures |-> n,
                      age |-> IF degrades THEN 0 ELSE h.age]]
    /\ announced' = IF degrades /\ h.status = "healthy"
                    THEN [announced EXCEPT ![p] = "degraded"] ELSE announced
    /\ caller' = [caller EXCEPT ![c].pc = "ready"]
    /\ UNCHANGED up

(* Any other failure is only written down.                                 *)
RecordOther(c) ==
    /\ caller[c].pc = "other"
    /\ caller' = [caller EXCEPT ![c].pc = "ready"]
    /\ UNCHANGED <<health, announced, up>>

-----------------------------------------------------------------------------
Tick ==
    /\ \E p \in Providers : health[p].age \in 0..(Cooldown - 1)
    /\ health' = [p \in Providers |->
                     IF health[p].age \in 0..(Cooldown - 1)
                     THEN [health[p] EXCEPT !.age = @ + 1] ELSE health[p]]
    /\ UNCHANGED <<announced, up, caller>>

GoesDown(p)  == up[p] /\ up' = [up EXCEPT ![p] = FALSE] /\ UNCHANGED <<health, announced, caller>>
ComesBack(p) == ~up[p] /\ up' = [up EXCEPT ![p] = TRUE] /\ UNCHANGED <<health, announced, caller>>

CallEnds(c) == Succeed(c) \/ FailWorthy(c) \/ FailOther(c) \/ GiveUp(c)

(* What a caller does by itself.                                           *)
CallerStep(c) ==
    \/ ReadStatus(c) \/ ReadCooldown(c)
    \/ RecordSuccess(c) \/ RecordFailure(c) \/ RecordOther(c)

HealthNext ==
    \/ \E c \in Callers : CallerStep(c) \/ CallEnds(c)
    \/ Tick
    \/ \E p \in Providers : GoesDown(p) \/ ComesBack(p)

(* Time passes, sessions go on making rounds, no round lasts forever, and  *)
(* not all that a working provider would have answered are given up.       *)
HealthSpec ==
    /\ HealthInit /\ [][HealthNext]_healthVars
    /\ WF_healthVars(Tick)
    /\ \A c \in Callers : WF_healthVars(CallerStep(c)) /\ WF_healthVars(CallEnds(c))
    /\ \A c \in Sessions : \A p \in Providers :
          SF_healthVars(caller[c].route = p /\ Succeed(c))

-----------------------------------------------------------------------------
(* The record of a provider agrees with itself and with what the user      *)
(* interface was told, however the calls of several callers interleave:    *)
(* degraded exactly when enough calls in a row failed, with a moment to    *)
(* count the cooldown from (record_success, record_failure).               *)
HealthCoherent ==
    \A p \in Providers :
        /\ health[p].status = "degraded" <=> health[p].failures >= Threshold
        /\ health[p].status = "degraded" <=> health[p].age # Never
        /\ announced[p] = health[p].status

(* A provider that works again and stays so is used again: it does not     *)
(* stay degraded for good, though everybody is routed around it (the       *)
(* recovery probe of resolve_effective_model).                             *)
RecoveredProviderReturns ==
    \A c \in Sessions :
        <>[]up[Primary(c)] => <>[](health[Primary(c)].status = "healthy")

(* A call leaves the configured provider only for its backup, and only if  *)
(* it saw the provider degraded (resolve_effective_model).                 *)
RoutesArePaired ==
    \A c \in Callers : caller[c].route \in {Primary(c), Backup(c)}
=============================================================================
