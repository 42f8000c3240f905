-------------------------- MODULE SubagentDispatch --------------------------
(***************************************************************************)
(* One call of the subagent tool (agent/subagent.rs): dispatch checks the  *)
(* request and runs its entries, all at once behind a semaphore (tasks) or *)
(* one after the other (chain; a single agent is a chain of one).  Every   *)
(* entry runs the loop of run_single_agent_inner: in each round it spawns  *)
(* a task that streams from the provider, waits for it up to a deadline    *)
(* and then carries out the tools asked for.                               *)
(*                                                                         *)
(* External: the provider, which may answer, fail or hang; the tools,      *)
(* which end or panic; the caller, whose own timeout may drop the call at  *)
(* any await.                                                              *)
(***************************************************************************)
EXTENDS Naturals, FiniteSets, Sequences

CONSTANTS
    MaxEntries,     \* bound on the length of a request
    MaxParallel,    \* MAX_PARALLEL_TASKS
    MaxChain,       \* MAX_CHAIN_STEPS
    Permits,        \* MAX_CONCURRENCY
    MaxAgentRounds, \* MAX_ROUNDS
    Unanswered      \* the call has no answer

Entries == 1..MaxEntries

ASSUME DispatchAssumption ==
    /\ MaxEntries \in Nat /\ MaxParallel \in Nat /\ MaxChain \in Nat
    /\ Permits \in Nat \ {0} /\ MaxAgentRounds \in Nat \ {0}

VARIABLES
    request,   \* the mode asked for and the number of entries
    call,      \* where dispatch is
    sub,       \* where the subagent of each entry is
    stream,    \* its stream task of the present round
    indexed,   \* indexed, results: what dispatch has collected, as it came
    answer     \* the Dispatch returned

dispatchVars == <<request, call, sub, stream, indexed, answer>>

SubResult == [entry : Entries, failed : BOOLEAN]

DispatchTypeOK ==
    /\ request \in [mode : {"chain", "tasks", "invalid"}, size : 0..MaxEntries]
    /\ call \in {"ready", "working", "returned", "dropped", "panicked"}
    /\ sub \in [Entries ->
          [pc : {"none", "queued", "starting", "streaming", "tools",
                 "returned", "panicked", "dropped"},
           round : 0..MaxAgentRounds, failed : BOOLEAN]]
    /\ stream \in [Entries -> {"none", "open", "ok", "failed"}]
    /\ indexed \in Seq(SubResult)
    /\ answer \in {Unanswered} \cup [isError : BOOLEAN, results : Seq(SubResult)]

DispatchInit ==
    /\ request = [mode |-> "invalid", size |-> 0]
    /\ call = "ready"
    /\ sub = [i \in Entries |-> [pc |-> "none", round |-> 0, failed |-> FALSE]]
    /\ stream = [i \in Entries |-> "none"]
    /\ indexed = <<>>
    /\ answer = Unanswered

-----------------------------------------------------------------------------
(* The call.                                                               *)

Asked == 1..request.size

(* Not one mode, or too many entries.                                      *)
Rejects(mode, size) ==
    \/ mode = "invalid"
    \/ mode = "tasks" /\ size > MaxParallel
    \/ mode = "chain" /\ size > MaxChain

AnswerCall(isError, results) ==
    /\ answer' = [isError |-> isError, results |-> results]
    /\ call' = "returned"

(* dispatch_inner up to its first await: all tasks are spawned at once, of *)
(* a chain the first step is run.                                          *)
Dispatch(mode, size) ==
    /\ call = "ready"
    /\ mode # "invalid" => size > 0
    /\ request' = [mode |-> mode, size |-> size]
    /\ IF Rejects(mode, size)
       THEN AnswerCall(TRUE, <<>>) /\ UNCHANGED sub
       ELSE /\ sub' = [i \in Entries |->
                          IF mode = "tasks" /\ i <= size THEN [sub[i] EXCEPT !.pc = "queued"]
                          ELSE IF mode = "chain" /\ i = 1 THEN [sub[i] EXCEPT !.pc = "starting"]
                          ELSE sub[i]]
            /\ call' = "working" /\ UNCHANGED answer
    /\ UNCHANGED <<stream, indexed>>

(* join_next: the results come in as their tasks end.  A task that         *)
(* panicked is joined too, and forgotten.                                  *)
JoinNext(i) ==
    /\ call = "working" /\ request.mode = "tasks"
    /\ sub[i].pc = "returned"
    /\ \A k \in DOMAIN indexed : indexed[k].entry # i
    /\ indexed' = Append(indexed, [entry |-> i, failed |-> sub[i].failed])
    /\ UNCHANGED <<request, call, sub, stream, answer>>

SomeFailed(results) == \E k \in DOMAIN results : results[k].failed

AllJoined ==
    \A i \in Asked :
        \/ sub[i].pc = "panicked"
        \/ \E k \in DOMAIN indexed : indexed[k].entry = i

(* Mutant: the answer keeps the order in which the tasks ended.            *)
AssembleAsJoined ==
    /\ call = "working" /\ request.mode = "tasks" /\ AllJoined
    /\ AnswerCall(SomeFailed(indexed), indexed)
    /\ UNCHANGED <<request, sub, stream, indexed>>

(* Sorted by the place in the request.                                     *)
InOrder(results) ==
    CHOOSE q \in [DOMAIN results -> {results[k] : k \in DOMAIN results}] :
        \A j, k \in DOMAIN results : j < k => q[j].entry < q[k].entry

(* The set is empty: sort and judge.                                       *)
Assemble ==
    /\ call = "working" /\ request.mode = "tasks" /\ AllJoined
    /\ AnswerCall(SomeFailed(indexed), InOrder(indexed))
    /\ UNCHANGED <<request, sub, stream, indexed>>

(* A step of a chain returned: stop at the first that failed and after the *)
(* last, else run the next.                                                *)
Follow(i) ==
    LET results == Append(indexed, [entry |-> i, failed |-> sub[i].failed]) IN
    /\ call = "working" /\ request.mode = "chain"
    /\ i = Len(indexed) + 1 /\ sub[i].pc = "returned"
    /\ indexed' = results
    /\ IF sub[i].failed \/ i = request.size
       THEN AnswerCall(sub[i].failed, results) /\ UNCHANGED sub
       ELSE sub' = [sub EXCEPT ![i + 1].pc = "starting"] /\ UNCHANGED <<call, answer>>
    /\ UNCHANGED <<request, stream>>

-----------------------------------------------------------------------------
(* A subagent.                                                             *)

Holding == {"starting", "streaming", "tools"}
Alive   == Holding \cup {"queued"}

(* Mutant: the permit of a task that panicked is lost.                     *)
HoldersEvenPanicked == {i \in Entries : sub[i].pc \in Holding \cup {"panicked"}}

(* A permit is given back however its task ends.                           *)
Holders == {i \in Entries : sub[i].pc \in Holding}

Acquire(i) ==
    /\ sub[i].pc = "queued"
    /\ Cardinality(Holders) < Permits
    /\ sub' = [sub EXCEPT ![i].pc = "starting"]
    /\ UNCHANGED <<request, call, stream, indexed, answer>>

(* A subagent that ends without a result.                                  *)
Gone(how) == [pc |-> how, round |-> 0, failed |-> FALSE]

(* Its function returns; with it ends the task, if it is one.              *)
ReturnSub(i, failed) ==
    sub' = [sub EXCEPT ![i] = [pc |-> "returned", round |-> 0, failed |-> failed]]

(* No such agent, or its provider cannot be resolved.                      *)
Unresolved(i) ==
    /\ sub[i].pc = "starting"
    /\ ReturnSub(i, TRUE)
    /\ UNCHANGED <<request, call, stream, indexed, answer>>

(* A round begins: the stream task is spawned, detached from its spawner.  *)
OpenStream(i) ==
    /\ sub' = [sub EXCEPT ![i].pc = "streaming", ![i].round = @ + 1]
    /\ stream' = [stream EXCEPT ![i] = "open"]
    /\ UNCHANGED <<request, call, indexed, answer>>

StartAgent(i) == sub[i].pc = "starting" /\ OpenStream(i)

(* The provider ends its stream; a panic of the stream task is a failure.  *)
RoundStreamEnds(i) ==
    /\ stream[i] = "open"
    /\ \E how \in {"ok", "failed"} : stream' = [stream EXCEPT ![i] = how]
    /\ UNCHANGED <<request, call, sub, indexed, answer>>

(* The channel is closed: judge the round.  The stop reason is whatever    *)
(* the provider said, and may be "error"; it counts only in the last round.*)
HearEnd(i) ==
    /\ sub[i].pc = "streaming" /\ stream[i] \in {"ok", "failed"}
    /\ stream' = [stream EXCEPT ![i] = "none"]
    /\ IF stream[i] = "failed" THEN ReturnSub(i, TRUE)
       ELSE \E stopError \in BOOLEAN :
              \/ ReturnSub(i, stopError)
              \/ sub' = [sub EXCEPT ![i].pc = "tools", ![i].failed = stopError]
    /\ UNCHANGED <<request, call, indexed, answer>>

(* The deadline of the round: abort the stream task and return a timeout.  *)
(* It covers the waiting for deltas.  Passing them on to a channel of the  *)
(* caller's is not covered, but the subagent tool gives none.              *)
TimeOut(i) ==
    /\ sub[i].pc = "streaming" /\ stream[i] = "open"
    /\ stream' = [stream EXCEPT ![i] = "none"]
    /\ ReturnSub(i, TRUE)
    /\ UNCHANGED <<request, call, indexed, answer>>

(* The tools of the round are done: the next round, or the round cap,      *)
(* which returns the last round's stop reason.                             *)
ToolsEnd(i) ==
    /\ sub[i].pc = "tools"
    /\ IF sub[i].round < MaxAgentRounds THEN OpenStream(i)
       ELSE /\ ReturnSub(i, sub[i].failed)
            /\ UNCHANGED <<request, call, stream, indexed, answer>>

(* A tool panics.  A task of its own catches it; a step of a chain takes   *)
(* the call down with it.                                                  *)
ToolsPanic(i) ==
    /\ sub[i].pc = "tools"
    /\ sub' = [sub EXCEPT ![i] = Gone("panicked")]
    /\ call' = IF request.mode = "chain" THEN "panicked" ELSE call
    /\ UNCHANGED <<request, stream, indexed, answer>>

(* The caller's timeout drops the call.  A chain's step ends at once; the  *)
(* tasks of a JoinSet are aborted, and each ends at its next await.        *)
DropCall ==
    /\ call = "working"
    /\ call' = "dropped"
    /\ sub' = IF request.mode = "tasks" THEN sub
              ELSE [i \in Entries |->
                       IF sub[i].pc \in Alive THEN Gone("dropped") ELSE sub[i]]
    /\ indexed' = <<>>
    /\ UNCHANGED <<request, stream, answer>>

EndAborted(i) ==
    /\ call = "dropped" /\ sub[i].pc \in Alive
    /\ sub' = [sub EXCEPT ![i] = Gone("dropped")]
    /\ UNCHANGED <<request, call, stream, indexed, answer>>

-----------------------------------------------------------------------------
(* A step of a subagent, and of dispatch itself.                           *)
SubStep(i) ==
    \/ Acquire(i) \/ Unresolved(i) \/ StartAgent(i) \/ HearEnd(i) \/ TimeOut(i)
    \/ ToolsEnd(i) \/ ToolsPanic(i) \/ EndAborted(i)

DispatchStep == Assemble \/ \E i \in Entries : SubStep(i) \/ JoinNext(i) \/ Follow(i)

DispatchNext ==
    \/ \E mode \in {"chain", "tasks", "invalid"}, size \in 0..MaxEntries : Dispatch(mode, size)
    \/ DispatchStep
    \/ \E i \in Entries : RoundStreamEnds(i)
    \/ DropCall

(* The runtime goes on polling, deadlines come and every tool ends, if     *)
(* only by its own timeout.                                                *)
DispatchSpec == DispatchInit /\ [][DispatchNext]_dispatchVars /\ WF_dispatchVars(DispatchStep)

-----------------------------------------------------------------------------
(* What a dispatch that returns leaves and says, in whatever order its     *)
(* subagents end, fail, time out or panic: nobody is still at work or has  *)
(* a stream open; the results are in the order of the request, one for     *)
(* every subagent that returned and as it returned; the call is an error   *)
(* exactly when one of them failed; a chain ran up to its first failure    *)
(* and no further (dispatch_inner).                                        *)
VerdictAccounts ==
    (call = "returned" /\ ~Rejects(request.mode, request.size)) =>
        LET results == answer.results IN
        /\ \A i \in Entries : sub[i].pc \notin Alive /\ stream[i] # "open"
        /\ \A k \in 1..(Len(results) - 1) : results[k].entry < results[k + 1].entry
        /\ {results[k].entry : k \in DOMAIN results} = {i \in Asked : sub[i].pc = "returned"}
        /\ \A k \in DOMAIN results : results[k].failed = sub[results[k].entry].failed
        /\ answer.isError <=> \E i \in Asked : sub[i].pc = "returned" /\ sub[i].failed
        /\ request.mode = "chain" =>
              \A i \in Asked : sub[i].pc = "returned" <=> \A j \in 1..(i - 1) : ~sub[j].failed

(* A call comes to an end, though providers hang and tools panic: no       *)
(* permit is lost and no round waits for ever (the semaphore and the       *)
(* deadline of subagent.rs).                                               *)
EveryDispatchEnds == []<>(call # "working")
=============================================================================
