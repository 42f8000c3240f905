------------------------------ MODULE Session -------------------------------
(***************************************************************************)
(* One live agent session (agent/session.rs): its prompts, the turn that   *)
(* runs one of them, and the operator who aborts, disposes of or reloads   *)
(* it meanwhile.  Each critical section of the session's mutex is a step.  *)
(* A prompt is spawned as a task with a handle of its own, so it may still *)
(* be about to start when the session is gone.                             *)
(*                                                                         *)
(* External: the provider, which streams an answer with some tool calls,   *)
(* fails or hangs; the tools, which return or panic; the human at a gate.  *)
(***************************************************************************)
EXTENDS Naturals, Sequences, FiniteSets

CONSTANTS
    Prompts,       \* the prompts sent to the session
    MaxRounds,     \* round budget of the profile
    MaxToolCalls,  \* bound on the tool calls of one answer
    MaxHistory,    \* MAX_HISTORY_LEN
    MaxReloads     \* bound on the reloads

ASSUME SessionAssumption ==
    /\ MaxRounds \in Nat \ {0} /\ MaxToolCalls \in Nat /\ MaxReloads \in Nat
    /\ MaxHistory \in Nat /\ MaxHistory > MaxToolCalls + 1

VARIABLES
    live,          \* the session is in the store
    disposed,
    turnActive,    \* turn_active
    abortPending,  \* abort_pending
    cancel,        \* the session's cancellation token, tokens being numbered
    cancelled,     \* the tokens cancelled so far
    history,
    gates,         \* GATES: the prompts whose human gate can be resolved
    turn,          \* where the task of each prompt is
    reloads,
    hit            \* for the properties: turns aborted while it still counts

sessionVars == <<live, disposed, turnActive, abortPending, cancel, cancelled,
                 history, gates, turn, reloads, hit>>

control == <<live, disposed, turnActive, abortPending, cancel, cancelled, reloads, hit>>

Message == [role : {"user", "assistant", "tool"}, calls : 0..MaxToolCalls]

(* The turn's position, its round, the calls still to run, the token it    *)
(* watches, and how it ended.                                              *)
Turn == [pc : {"none", "sent", "admitted", "recalling", "resolving", "streaming",
               "judged", "tools", "gated", "ungated", "finishing", "leaving", "ended"},
         round : 0..MaxRounds,
         left : 0..MaxToolCalls,
         token : Nat,
         outcome : {"none", "refused", "completed", "aborted", "capped",
                    "error", "panicked"}]

SessionTypeOK ==
    /\ live \in BOOLEAN /\ disposed \in BOOLEAN
    /\ turnActive \in BOOLEAN /\ abortPending \in BOOLEAN
    /\ cancel \in Nat /\ cancelled \subseteq Nat
    /\ history \in Seq(Message)
    /\ gates \subseteq Prompts
    /\ turn \in [Prompts -> Turn]
    /\ reloads \in 0..MaxReloads
    /\ hit \subseteq Prompts

SessionInit ==
    /\ live = TRUE /\ disposed = FALSE
    /\ turnActive = FALSE /\ abortPending = FALSE
    /\ cancel = 0 /\ cancelled = {}
    /\ history = <<>>
    /\ gates = {}
    /\ turn = [p \in Prompts |-> [pc |-> "none", round |-> 0, left |-> 0,
                                  token |-> 0, outcome |-> "none"]]
    /\ reloads = 0
    /\ hit = {}

(* Mutant: the oldest messages go, whatever then comes first.              *)
PruneOldest(h) ==
    IF Len(h) <= MaxHistory THEN h ELSE SubSeq(h, Len(h) - MaxHistory + 1, Len(h))

(* prune_history: the newest MaxHistory, without the tool messages that    *)
(* lead them.                                                              *)
Prune(h) ==
    LET newest == SubSeq(h, Len(h) - MaxHistory + 1, Len(h))
        orphans == {i \in 1..MaxHistory : \A j \in 1..i : newest[j].role = "tool"}
    IN IF Len(h) <= MaxHistory THEN h
       ELSE SubSeq(newest, Cardinality(orphans) + 1, MaxHistory)

Push(role, calls) == history' = Prune(Append(history, [role |-> role, calls |-> calls]))

Goto(p, pc)       == turn' = [turn EXCEPT ![p].pc = pc]
EndTurn(p, pc, o) == turn' = [turn EXCEPT ![p].pc = pc, ![p].outcome = o]

Running(p) == turn[p].pc \notin {"none", "sent", "ended"}

-----------------------------------------------------------------------------
(* The start of a turn.                                                    *)

(* The prompt handler finds the session and spawns run_turn.               *)
SendPrompt(p) ==
    /\ live /\ turn[p].pc = "none"
    /\ Goto(p, "sent")
    /\ UNCHANGED <<control, history, gates>>

(* The first critical section refuses the prompt ...                       *)
Refuse(p) ==
    /\ turn[p].pc = "sent" /\ (disposed \/ turnActive)
    /\ EndTurn(p, "ended", "refused")
    /\ UNCHANGED <<control, history, gates>>

(* ... or installs a fresh token, which a pending abort cancels at once.   *)
Begin(p) ==
    /\ turn[p].pc = "sent" /\ ~disposed /\ ~turnActive
    /\ cancel' = cancel + 1
    /\ abortPending' = FALSE
    /\ IF abortPending
       THEN /\ cancelled' = cancelled \cup {cancel + 1}
            /\ EndTurn(p, "ended", "refused")
            /\ UNCHANGED turnActive
       ELSE /\ turnActive' = TRUE
            /\ Goto(p, "admitted")
            /\ UNCHANGED cancelled
    /\ UNCHANGED <<live, disposed, reloads, hit, history, gates>>

(* Mutant: the token is renewed in the second critical section.            *)
AppendPromptAfresh(p) ==
    /\ turn[p].pc = "admitted"
    /\ cancel' = cancel + 1
    /\ Push("user", 0)
    /\ Goto(p, "recalling")
    /\ UNCHANGED <<live, disposed, turnActive, abortPending, cancelled, reloads, hit, gates>>

(* The second critical section appends the user's message.                 *)
AppendPrompt(p) ==
    /\ turn[p].pc = "admitted"
    /\ Push("user", 0)
    /\ Goto(p, "recalling")
    /\ UNCHANGED <<control, gates>>

(* After the memory recall the turn takes the token it will watch.         *)
Recall(p) ==
    /\ turn[p].pc = "recalling"
    /\ turn' = [turn EXCEPT ![p].pc = "resolving", ![p].round = 1, ![p].token = cancel]
    /\ UNCHANGED <<control, history, gates>>

-----------------------------------------------------------------------------
(* One round.                                                              *)

(* finish_error: an error message closes the turn.                         *)
FinishError(p) ==
    /\ Push("assistant", 0)
    /\ EndTurn(p, "leaving", "error")
    /\ UNCHANGED <<control, gates>>

ResolveModel(p) ==
    /\ turn[p].pc = "resolving"
    /\ \/ Goto(p, "streaming") /\ UNCHANGED <<control, history, gates>>
       \/ FinishError(p)

(* The stream is over for the turn: what is committed when it was          *)
(* cancelled carries no tool calls.                                        *)
Judge(p, calls, o) ==
    turn' = [turn EXCEPT ![p].pc = "judged", ![p].outcome = o,
                         ![p].left = IF o = "aborted" THEN 0 ELSE calls]

(* The biased select of the stream loop sees the cancelled token, however  *)
(* long the provider is silent.                                            *)
SeeCancel(p) ==
    /\ turn[p].pc = "streaming" /\ turn[p].token \in cancelled
    /\ \E calls \in 0..MaxToolCalls : Judge(p, calls, "aborted")
    /\ UNCHANGED <<control, history, gates>>

(* The stream closes; the token is looked at once more.                    *)
StreamEnds(p) ==
    /\ turn[p].pc = "streaming"
    /\ \/ /\ \E calls \in 0..MaxToolCalls :
                Judge(p, calls, IF turn[p].token \in cancelled THEN "aborted" ELSE "none")
          /\ UNCHANGED <<control, history, gates>>
       \/ turn[p].token \notin cancelled /\ FinishError(p)

(* The assistant's message enters the history.                             *)
Commit(p) ==
    /\ turn[p].pc = "judged"
    /\ Push("assistant", turn[p].left)
    /\ CASE turn[p].outcome = "aborted" -> Goto(p, "finishing")
         [] turn[p].outcome # "aborted" /\ turn[p].left = 0
              -> EndTurn(p, "finishing", "completed")
         [] OTHER -> Goto(p, "tools")
    /\ UNCHANGED <<control, gates>>

(* A tool's result is appended; after the last one the next round, or the  *)
(* end of the budget.                                                      *)
ToolDone(p) ==
    /\ Push("tool", 0)
    /\ turn' = [turn EXCEPT ![p] =
         IF @.left > 1 THEN [@ EXCEPT !.pc = "tools", !.left = turn[p].left - 1]
         ELSE IF @.round < MaxRounds
         THEN [@ EXCEPT !.pc = "resolving", !.left = 0, !.round = turn[p].round + 1]
         ELSE [@ EXCEPT !.pc = "finishing", !.left = 0, !.outcome = "capped"]]

RunTool(p) ==
    /\ turn[p].pc = "tools"
    /\ ToolDone(p)
    /\ UNCHANGED <<control, gates>>

(* human_gate: a tool that blocks on the operator.  The cancelled token is *)
(* not looked at meanwhile.                                                *)
OpenGate(p) ==
    /\ turn[p].pc = "tools"
    /\ gates' = gates \cup {p}
    /\ Goto(p, "gated")
    /\ UNCHANGED <<control, history>>

(* resolve_gate takes the sender out and sends; too late, it tells nobody. *)
ResolveGate(p) ==
    /\ p \in gates
    /\ gates' = gates \ {p}
    /\ UNCHANGED <<control, history, turn>>

(* Mutant: the gate waits for its answer without a timeout.                *)
WakeWhenAnswered(p) ==
    /\ turn[p].pc = "gated" /\ p \notin gates
    /\ Goto(p, "ungated")
    /\ UNCHANGED <<control, history, gates>>

(* The answer arrived, or the five minutes are over (either may be).       *)
WakeAtGate(p) ==
    /\ turn[p].pc = "gated"
    /\ Goto(p, "ungated")
    /\ UNCHANGED <<control, history, gates>>

CloseGate(p) ==
    /\ turn[p].pc = "ungated"
    /\ gates' = gates \ {p}
    /\ ToolDone(p)
    /\ UNCHANGED control

-----------------------------------------------------------------------------
(* The end of a turn.                                                      *)

(* finish_turn, finish_round_cap: turn_end and agent_end are sent.         *)
FinishTurn(p) ==
    /\ turn[p].pc = "finishing"
    /\ Goto(p, "leaving")
    /\ UNCHANGED <<control, history, gates>>

(* TurnGuard is dropped.                                                   *)
DropGuard ==
    /\ turnActive' = FALSE
    /\ abortPending' = FALSE
    /\ UNCHANGED <<live, disposed, cancel, cancelled, reloads, hit, history, gates>>

Leave(p) ==
    /\ turn[p].pc = "leaving"
    /\ Goto(p, "ended")
    /\ DropGuard

(* The task of the turn panics in a tool or a callback.                    *)
Panic(p) ==
    /\ turn[p].pc \in {"streaming", "tools"}
    /\ EndTurn(p, "ended", "panicked")
    /\ DropGuard

-----------------------------------------------------------------------------
(* The operator.  A request that found the session before it was disposed  *)
(* of may still act on it after.                                           *)

(* The turns a cancellation must stop: not yet judged, or with a round to  *)
(* come.  One that has its last answer finishes as it is.                  *)
Stoppable ==
    {p \in Prompts :
        \/ turn[p].pc \in {"admitted", "recalling", "resolving", "streaming"}
        \/ /\ turn[p].pc = "judged" /\ turn[p].outcome = "none"
           /\ turn[p].left > 0 /\ turn[p].round < MaxRounds
        \/ /\ turn[p].pc \in {"tools", "gated", "ungated"}
           /\ turn[p].round < MaxRounds}

CancelTurn ==
    /\ cancelled' = cancelled \cup {cancel}
    /\ hit' = hit \cup Stoppable
    /\ UNCHANGED <<turnActive, cancel, reloads, history, gates, turn>>

Abort ==
    /\ abortPending' = IF turnActive THEN abortPending ELSE TRUE
    /\ CancelTurn
    /\ UNCHANGED <<live, disposed>>

(* dispose, dispose_for_project.                                           *)
Dispose ==
    /\ live
    /\ live' = FALSE
    /\ disposed' = TRUE
    /\ CancelTurn
    /\ UNCHANGED abortPending

(* A fresh history and a fresh token; refused while a turn is active.      *)
Reload ==
    /\ ~turnActive /\ reloads < MaxReloads
    /\ reloads' = reloads + 1
    /\ cancel' = cancel + 1
    /\ history' = <<>>
    /\ UNCHANGED <<live, disposed, turnActive, abortPending, cancelled, gates, turn, hit>>

-----------------------------------------------------------------------------
(* What the turn does by itself; a provider may hang and a task may panic, *)
(* but neither has to.                                                     *)
TurnStep(p) ==
    \/ Refuse(p) \/ Begin(p) \/ AppendPrompt(p) \/ Recall(p) \/ ResolveModel(p)
    \/ SeeCancel(p) \/ Commit(p) \/ RunTool(p) \/ WakeAtGate(p) \/ CloseGate(p)
    \/ FinishTurn(p) \/ Leave(p)

SessionNext ==
    \/ \E p \in Prompts :
          \/ SendPrompt(p) \/ TurnStep(p) \/ StreamEnds(p) \/ Panic(p)
          \/ OpenGate(p) \/ ResolveGate(p)
    \/ Abort \/ Dispose \/ Reload

SessionSpec ==
    /\ SessionInit /\ [][SessionNext]_sessionVars
    /\ \A p \in Prompts : WF_sessionVars(TurnStep(p))

-----------------------------------------------------------------------------
(* The history the next request is built from is one a provider accepts:   *)
(* every tool message answers a call of the assistant's message before it, *)
(* and every call has its answer, but for those the running turn is about  *)
(* to give and those of a turn that panicked (prune_history; the calls     *)
(* stripped from an aborted answer).                                       *)
HistoryStaysValid ==
    (\A p \in Prompts : turn[p].outcome # "panicked") =>
        \A i \in 1..Len(history) :
            LET k == history[i].calls
                answer(j) == j <= Len(history) /\ history[j].role = "tool"
            IN /\ i = 1 => ~answer(i)
               /\ ~answer(i) => ~answer(i + k + 1)
               /\ \A j \in 1..k :
                     \/ answer(i + j)
                     \/ /\ i + j > Len(history)
                        /\ \E p \in Prompts : turn[p].pc \in {"tools", "gated", "ungated"}

(* An abort or a disposal that finds a turn which has not got its last     *)
(* answer stops it: that turn never ends as completed or at its round      *)
(* budget (the fresh token is installed together with turn_active).        *)
AbortIsHeeded ==
    \A p \in hit : turn[p].pc = "ended" => turn[p].outcome \in {"aborted", "error", "panicked"}

(* At most one turn runs, and turn_active says so (TurnGuard).             *)
OneTurnAtATime ==
    /\ \A p, q \in Prompts : Running(p) /\ Running(q) => p = q
    /\ turnActive <=> \E p \in Prompts : Running(p)

(* A gate that can be resolved is one a turn still waits at.               *)
NoStrayGate == \A p \in gates : turn[p].pc \in {"gated", "ungated"}

(* A turn whose token is cancelled ends, though the provider hangs and     *)
(* nobody answers at the gate.                                             *)
CancelledTurnEnds ==
    \A p \in Prompts : []<>~(Running(p) /\ cancel \in cancelled)
=============================================================================
