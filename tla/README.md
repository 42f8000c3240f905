# A verification development for dotz

dotz is a Rust/Tauri dashboard for agent sessions and workflow graphs. This
directory holds TLA+ models of its core, `dotz-core`, the TLC configurations
that check them, and TLAPS proofs. Paths below are relative to
`src/dotz-core/src/`.

Three groups of modules share nothing with each other. The first is what everything
else hangs on: the workflow store (`workflows.rs`), the executor that drives a run
(`workflow_executor.rs`), what clients do to a run meanwhile, and what is left of
it after a crash. The second is the sandbox (`sandbox.rs`), which runs code in
child processes and must neither lose one nor misreport how it ended. The third
are the services around a session: its turns, the failover between providers, the
browser, MCP servers, the history file, checkpoints, the durable memory and calls of
the subagent tool.

    tlc -workers 2 -config WorkflowExecutor.cfg MCWorkflow
    tlapm WorkflowExecutorProofs.tla

## 1. Inventory

| Component | State | Operations | Interacts with | What is hard | What makes it correct |
|---|---|---|---|---|---|
| workflow store (`workflows.rs`) | the active map of runs behind one mutex; each run holds its steps, two edge lists (`parents`, `children`), repair rounds | create, start, step_state, abort, patch, insert, rerun, mark_interrupted, resume | executor, REST and WebSocket handlers, history file, event broadcast | clone, look, unlock, lock, commit; sweeps that hit steps in flight; a graph that grows while it runs | dag stays a dag, both lists agree, no promotion lost, an ended run stays ended |
| workflow executor (`workflow_executor.rs`) | snapshot of ready steps, cumulative usage, join handles, semaphore | run_workflow: check, start, preload, loop of poll/dispatch/join | store, subagents, context bus, run record | dispatch from a stale snapshot; late results; stuck detection by status | order of dependencies, each step once, termination, truthful outcome |
| history and restart (`workflows.rs`, `server/mod.rs`) | `workflows.json` and its temporary file | persist after unlock, purge_project, restore_for_resume, startup_resume | store, projects | clones written out of order; unlocked read-edit-write; crashes between two steps, also of the recovery | a complete history at every moment; a half-finished run survives, a finished one is not run again |
| run record (`run_record.rs`) | one JSON file per run | init_run, capture_step, replay | executor | captures of concurrent tasks, reruns | complete, never goes backwards |
| context bus (`context_bus.rs`) | topic -> entries per run | create, write, preload_from_run, destroy | executor, subagents | created anew by each executor; never destroyed | a step finds what its parents wrote |
| sandbox (`sandbox.rs`) | map of runs: status, process, killed_by_us, port | start_run, execute_run, watchdog, kill, finish, prune | agent server, projects | natural exit against watchdog against kill; supersede then insert; prune before the child is reaped | one terminal status, one end event, one live preview per project |
| agent session (`agent/session.rs`) | sessions, turn_active, cancel token, abort_pending, history | run_turn, abort, dispose, reload | providers, tools, gate, WebSocket | an abort between any two of a turn's critical sections; a full history cut in the middle of a round; a turn that panics | one turn at a time; an abort stops the turn it finds; a transcript the provider accepts |
| human gate (`agent/extra_tools.rs`) | pending gates | human_gate, resolve_gate | session, WebSocket | approval against timeout; the gate does not look at the token | an aborted turn leaves it; no gate outlives its turn |
| provider health (`agent/provider_health.rs`) | status, failures and cooldown per provider | record_success, record_failure, resolve_effective_model | session, subagents | outcomes of overlapping calls in any order; two looks at the map per decision | the record agrees with itself; a provider that recovered is used again |
| subagents (`agent/subagent.rs`) | the tasks of a call, their stream tasks, a semaphore, results as they come in | dispatch (single, chain, tasks), run_single_agent_inner: rounds, stream, deadline, tools | agents, executor, providers, tools | tasks that end, fail, hang and panic in any order; a caller that drops the call | the verdict accounts for every subagent that did not panic; nobody is left at work; every call ends if its tools do |
| agent server (`agent/mod.rs`) | pollers, END_EMITTED | REST and WebSocket handlers | all of the above | who announces an end | exactly once |
| checkpoint (`checkpoint.rs`) | checkpoints by run, in memory | save, discard, restore | execute handler, git | the lock is let go between check, snapshot, reset and removal; different directories for save and restore | checkpoints of a directory are a stack; a rollback never goes forward |
| browser (`browser.rs`) | a session record, its scope, profile and observation; an operation lock | start, act, stop | agent tools, REST | timeout under the lock; cleanup that fails; a request dropped at an await; a client that reads the stored observation after a failed action | no process without a record; an accepted sequence number names the page last looked at |
| mcp (`mcp/`) | connections, next id, pending requests | connect_all, clear, call; request, reader task, close | agents, external servers | answers late, lost, before the request is registered; the server dies, or stops reading and blocks the write | an answer reaches its own request; every call ends if the server keeps reading |
| memory (`memory.rs`) | table of memories, capture counters, MEMORY.md | add, capture_exchange, consolidate, update, remove, purge_project | session, tools, REST, projects | consolidation decided on a snapshot, deleted under a later lock; mirror read and written with nothing held | the newest of a cluster is kept; the mirror says what the table says |
| projects (`projects.rs`) | `projects.json` | CRUD, delete purges the others | store, sessions, memory | purge while an executor persists | deleted stays deleted |
| hooks, catalogues, settings, shell, UI | files, static data | CRUD, calls | | parsing and I/O | out of the models |

`PROJECT.json` lists them with their sources and, under `hazards`, the places
in this code that are hard to test, with the properties that watch each or the
reason why none does.

## 2. Modules

    WorkflowStore            one run as a record; every operation a function
      |-- WorkflowStoreProofs        lemmas on those functions
      `-- WorkflowExecutor   run_workflow, its tasks, bus, record, abort, usage
            |-- MCWorkflow           graphs
            |-- WorkflowExecutorProofs
            |-- WorkflowClients --- MCClients     live edits
            |     `-- WorkflowClientsProofs
            `-- WorkflowRecovery -- MCRecovery    one run, its history and crashes
                  `-- WorkflowRecoveryProofs
    WorkflowPromise          what a run promises, whatever loop drives it;
                             WorkflowExecutor refines it

    Sandbox                  code-execution runs and the announcement of their ends
      |-- MCSandbox
      `-- SandboxProofs

    Session            one session and its turns      } SessionProofs
    ProviderHealth     health and failover            }
    Browser            one browser session            }
    McpClient          one MCP server, who calls it   } ToolProofs
    SubagentDispatch   one call of the subagent tool  }
    Checkpoint         git checkpoints of runs        }
    HistoryFile        workflows.json itself          } ServicesProofs
    Memory             the durable memory             }
      `-- Services     all eight side by side         } ServicesProofs
            `-- MCServices

**WorkflowStore** has no variables. A run is a record: status, number of steps,
the status, parents, children, auto-repair flag and output of every step, and
the repair rounds. Each operator is the body of one critical section of the
store's mutex: `StepState` is `step_state` from the patch to the sweep, in the
order the code does it (patch, promotion of children, auto-repair, completion;
or the skip cascade; or the error sweep). `parents` and `children` are kept
apart because the code keeps them apart: readiness is decided by one, promotion
and cycles by the other. Outputs are abstracted to what
`review_has_findings` tells apart. Kahn's algorithm is the least set closed
under its rule, counting edges as the code counts them, so that it can be run on
lists that disagree.

**WorkflowExecutor** makes one atomic action of each critical section and names
the place between two of them with a `pc`, so that anything may happen in
between. `todo` is the snapshot `ready_steps`; `task` the spawned futures
(queued for a permit, running, reported); `bus` and `recorded` the steps whose
output is on the bus and who are in the record. A task that ends reports to the
store and captures its record in two steps. `Abort` and `ReportUsage` are
the client requests that need no editing of the graph.

**WorkflowClients** adds the edits: every handler reads a clone, validates it,
lets go of the lock and commits under a later one; `req` holds a request between
the two. The HTTP and the WebSocket route differ (which lists the cycle check
sees, which parents decide readiness, whether the run's status is looked at),
and both are modelled. `PutBack` is `resume_sync` writing its clone back whole.

**WorkflowRecovery** adds the file as one run sees it. A thread that changed the run
holds a clone (`writing`) and may not take its next step before it has written it;
the clones of different threads are written in any order. `Crash` drops the active
map, the tasks, the bus and the clones at any moment, also during recovery. Restart
is three steps, as `startup_resume` has three.

**WorkflowPromise** is the abstract specification: a step is carried out at most
once and after what it depends on; the run ends once, with the outcome its
steps justify. The refinement mapping stands at the end of `WorkflowExecutor`
(`Promise`, `KeepsPromise`): a step is active while its task is in flight, whatever a
sweep has written over its status.

**Sandbox** has one entry per run as the store has it (`status`,
`killed_by_us` as `killed`, `process` as `held`), the `child` process, and one
program counter for each thing that handles the run: `starter` (`start_run`),
`task` (`execute_run`), `watchdog`, `poller` and `killer` (the sandbox.kill
message). Each action is one critical section of the store's mutex or of
`END_EMITTED`: `start_run` supersedes, inserts and prunes in separate ones;
`execute_run` looks for a cancellation at its start, again under the lock under
which it spawns, and after it; the watchdog marks, then kills; the exit path reads
the flag, then writes the status, then prunes. A late answer may follow an
eviction, so `Forget` (dropping the flag of an evicted run) is an action of its
own. The two halves of `kill_run_by_id`, marking the entry and signalling the
child taken from it, are one step: nothing reads what lies between. Previews
belong to one project and `started_at` has no ties. A spawned process that
cannot be pinned is killed and recorded as a spawn error; it counts as one that
was never spawned.

**Session** follows `run_turn` through its critical sections. A prompt is a task of
its own (`turn[p]`) that holds a handle to the session, so it may start after the
session has been disposed of. `Begin` decides admission (disposed, turn_active,
abort_pending) and `AppendPrompt` installs the fresh token together with
`turn_active`; each round then streams, commits the answer unless the token was
cancelled, and runs the answer's calls one by one. The token is looked at where the
code looks at it and nowhere else (`SeeCancel`, `Commit`). `DropGuard` is the
destructor of `TurnGuard`, also on a panic. `history` keeps of each message its role
and its number of calls, which is what a provider's validation sees; `Prune` is
`prune_history` with its orphan rule. `human_gate` is a call that waits in `gates`
until `resolve_gate` or its timeout.

**ProviderHealth** keeps the map of records as it is; time is counted in ticks of a
cooldown. A lead session decides its route before every round, a subagent once.
`resolve_effective_model` looks at the map twice (`ReadStatus`, `ReadCooldown`), and
an outcome is recorded on the route the call took, however long ago.

**Browser** has one action for each stretch between two awaits of start, act, stop
and `run`: who holds `operation`, what the flags of the record say, whether the scope
and its processes live. A command succeeds, fails, or times out (`ScopeCut`), and a
task may be dropped where it awaits. `page` counts the changes of the page and is not
in the code: it is what `observation.seq` stands for. A client may read the observation
at any moment (`Look`, GET state) and quote its number later: while a command runs, and
after one failed or timed out, when `fail` has advanced the number and left elements and
frame as they were (`observed`). What a client has read is in its `sight`.

**McpClient** separates drawing an id and writing the line (`Enter`, `Write`) from
registering in `pending` (`Register`), as `stdio.rs` does, with the reader task in
between, the timeout in two steps (`Expire`, `Withdraw`) and the registry's clear and
close apart. The server answers late, out of order or never, may stop reading its stdin
for a while or for good (the write then waits, before the timeout starts), makes
requests of its own, the ids of which the reader takes for those of answers, and may die.
A handshake ends with a notification (`Notify`).

**HistoryFile** is the file below the runs: `persist` and `purge_project` read all,
edit a copy and write it through one temporary name. Inodes are modelled, because
overlapping writers share that name: one may rename the file another is still
writing.

**Checkpoint** has the map of checkpoints, HEAD of each directory and the requests
between their looks at the map. `restore_checkpoint` is four steps (order check,
snapshot, reset, removal), each of which may find that things have changed or fail.
`execute` saves in the server's directory, a rollback uses the project's.

**Memory** is one scope of the store: the table in insertion order, the jobs on the
blocking pool between two holds of the database lock, and `current`, the copies that
show the table as it is (MEMORY.md, and jobs that have read the table and are about
to write it). `Drop` is the inner loop of `consolidate` for one anchor, with its
`break`; `Dropped` the outer loop. The embedder is given by which pairs of texts lie
above each of the two thresholds; closeness is not transitive. A write of the mirror may
fail, which the code ignores.

**SubagentDispatch** is `dispatch_inner` with the loop of `run_single_agent_inner` for each
entry. `sub` is where the future of an entry is (waiting for a permit, before its first
round, streaming, at its tools), `stream` its stream task, which is detached and lives
apart; `indexed` what the call has collected, in the order it came. A tool that panics
ends its task in mode tasks and takes the call with it in a chain; a single agent is a
chain of one. The caller may drop the call (`DropCall`): tasks of the JoinSet then end
at their next await (`EndAborted`), and their stream tasks go on.

**Services** puts the eight side by side, and MCServices on one instance each. They share no state in the code
beyond what the modules contain, so a behaviour is one of a single component: `part`
says which.

## 3. Runs

| Run | Module, cfg | Shows |
|---|---|---|
| executor | MCWorkflow, WorkflowExecutor.cfg | undisturbed run: outputs on the bus before children start, no lost promotion, truthful outcome, complete record, termination, implements the promise |
| interference | MCWorkflow, WorkflowInterference.cfg | aborts, usage and budget, repairs, cyclic inputs: order of dependencies, an ended run stays ended, a result stays, until the executor has returned somebody can go on, and no move goes round for nothing |
| clients | MCClients, WorkflowClients.cfg | live edits over HTTP, repairs among them: acyclic, lists agree, work under way is not disturbed |
| recovery | MCRecovery, WorkflowRecovery.cfg | crash at any point: file and restart are consistent, the run ends |
| sandbox | MCSandbox, Sandbox.cfg | supersede, kill, watchdog, exit and eviction in any order: no child outlives its record, the record is truthful, final and announced once, every run ends, previews of starts that do not overlap stand alone |
| services | MCServices, Services.cfg | session: the transcript stays valid, aborts are heeded, a cancelled turn ends. Health: records agree with themselves, a recovered provider returns. Browser: no orphan processes, actions bound to what was observed. MCP: answers match, every call ends if the server keeps reading. History file: complete at every moment. Checkpoints: a stack. Memory: the newest is kept, the mirror settles. Subagent calls: the verdict accounts for every entry whose task did not panic, every call ends if its tools do |
| re_review | MCWorkflow, ReReview.cfg | violation: the re-review is never promoted |
| patch_cycle | MCClients, PatchCycle.cfg | violation: the WebSocket patch accepts a cycle |
| second_crash | MCRecovery, SecondCrash.cfg | violation: a crash between mark and resume strands the run |
| stale_file | MCRecovery, StaleFile.cfg | violation: the file keeps a finished run as running |
| double_dispatch | MCWorkflow, TwoExecutors.cfg | violation: two execute requests run one step twice |
| two_previews | MCSandbox, TwoPreviews.cfg | violation: two previews started together are both left running |

**Bounds.** `MaxSteps` is the room for steps and includes those auto-repair adds.
The executor run has every dag of four steps, which is where a join (two parents),
a fork and an unrelated sibling meet, and three-step dags with a review at either
end. Interference has every graph of three steps, cyclic ones included (create
must refuse them), and two steps of which either or both are reviews, with two
rounds: two reviews racing for the last round. `Concurrency` 2 with up to four
ready steps makes tasks wait for permits. Clients get two requests, the least with which
one edit can meet the result of another, on a chain, a pair, two independent
steps and a review with room for one repair. `HasRoom` keeps room for the repairs still
to come when a step is inserted; steps inserted with auto-repair would need two more
steps of room and are left to the proof. Recovery has every dag of three steps and one crash; two crashes are the
finding. Nothing in the code depends on larger numbers except Kahn's algorithm
and the typing of repair steps, and those are proved for all sizes. The sandbox
has two previews and retains one run, so that each may supersede and evict the
other; one of them is started and killed through the WebSocket, which brings in
the poller, the kill handler and the flags.

In the services run a session gets two prompts of two rounds and two calls, and a
history of four messages: a round of two calls fills three of them, so the second
prompt or the second round is where it is cut. Two providers back each other up, with a lead
session and a subagent whose calls overlap; the failure counter stops at the
threshold, beyond which the code reads nothing from it. A browser session has two
actors and a stop, so that a stop waits behind a command that times out while another
action, bound to the old observation, waits too; `ShortTimeout` is on, the case in
which the close of a stop may be cut short. Two agents share one
connection, with two calls each: the second may meet the late answer to the first, and
the server's own requests have the id of a call. One
writer of the history beside a purge, with four inodes, the least for two
writers and a file in place. Two rollbacks of two runs, one of which works in the
server's directory, beside one request that saves; one commit and two saves are the
least with which one checkpoint can be ahead of another. Memory starts from two
close rows inserted in the opposite order of their time stamps, as two overlapping
adds leave them; one insertion, one edit or removal, and a consolidation of each of
two jobs meet; `Every` is 1 so that each capture consolidates. A call of the subagent
tool has up to three entries and two permits, so that one waits for the others and
results can come in any order, and two rounds, the second of which is the last; four
entries are refused. The safety of all eight is proved for any number (section 4).

**Fairness.** Weak fairness of every executor step and of every task: they are
futures the tokio runtime keeps polling, and a subagent ends within the step
timeout. A task waiting for a permit needs only weak fairness because a free
permit stays free until a task of this executor takes it, and the tasks are
finite. A started server runs `startup_resume`. In the sandbox, tasks,
watchdogs and pollers are tokio tasks and timers and get weak fairness; a child
owes nothing and may run for ever, so that only the watchdog makes
`EveryRunEnds` true (every caller passes a positive timeout). A session's turn is a
tokio task (`TurnStep`), but its provider owes no answer and nobody has to
resolve a gate: Session's `StreamEnds`, `OpenGate` and `ResolveGate` have no fairness, and
`CancelledTurnEnds` rests on the token and the gate's timeout. Users of an MCP connection are
tokio tasks, and a timeout ends their wait for an answer; the server owes none. Writing
is another matter: it has no timeout, so `EveryCallEnds` takes as its premise that each
server goes back to its stdin again and again or dies (`ServerKeepsReading`), and `Write`
needs strong fairness, by connection, because the server may stop reading in between:
whoever waits on a pipe that drains again and again gets his line through. A call of the
subagent tool needs only that the runtime goes on with some step of it (`DispatchStep`),
because its steps are finite. Deadlines are steps, and so is the end of tools, which is
an assumption on the tools: most have a timeout of their own, `mcp_call` has none and
ends when the connection lets it. `RoundStreamEnds`, the provider's, is owed by nobody. In ProviderHealth time passes, calls end (the HTTP
client's timeout, or the operator gives up), sessions keep calling, and a call of
a session to a provider that works succeeds again and again if it is made again and
again (strong fairness: failures of a working provider are not what
`RecoveredProviderReturns` is about). Clients, aborts, crashes, disconnections and panics are never
obliged to happen. `CHECK_DEADLOCK FALSE`: a run that has ended, or a component whose
clients are silent, does stop, in all parts.

**Claims with a condition.** `NoLostPromotion` and `RecordComplete` hold up to the
first auto-repair only (the re_review finding makes them false after it).
`EndedStaysEnded` leaves out the window between an executor's entry check and
`start()`, in which an abort is overwritten (listed under hazards).
`DependencyOrder` is not claimed in run clients, where the operator may
legitimately force a step ready. `EndAnnouncedOnce` speaks of runs the store still
has: eviction drops the flag of a run, and a kill handler that is still waiting
then sends its end again. That an end is announced at all is not claimed, for the
poller gives up at its deadline. `OneAtATime` supposes that no two `start_run` of previews
are at once between looking for older ones and inserting their own (`StartsApart`); run
two_previews shows what happens otherwise. `EndComesNearer` is not claimed in run
clients, where a rerun brings a step back to be started. `HistoryStaysValid` excludes turns that panicked in a
tool, which leave calls without answers. `SeqBindsPage` excludes requests dropped
half-way (`dropped`), which have touched the page and advanced nothing; that elements and
frame show the page it claims of observations that were ready only. `AnswersMatch` speaks
of answers to the client's requests, not of a request of the server's own that is taken
for one. `EveryCallEnds` has the premise named under Fairness.
`HistoryIntact` is claimed until two writers overlap (`overlapped`), after which the
file may be torn or lack a run; `CheckpointsStack` while no save or discard overlaps a
rollback, or another save, of the same directory (`entangled`); `MirrorSettles` not after
an older view was written over the newest one, a write failed, an edit named no project
or the project was purged, until the next change is mirrored in turn (`crossed`).
`NewestKept` lets a row go for a newer one that a user then edits or
deletes: consolidation may by then have deleted the older one from its stale snapshot,
and may delete a row that was edited after the snapshot.

**What the code does not give.** Six disagreements with a doc or a comment have a run each
(section 3). The conditions above stand for others, which TLC finds as soon as a
condition is taken away:

- After a failed action the browser serves the old elements under a fresh number
  (browser.rs:1246-1260), and `act` (1471) accepts them on a page the action may have
  changed. `SeqBindsPage` without `sight.ready` is violated: start opens a page and fails,
  a client reads the observation, quotes its number, is accepted. The UI sends `type` with
  whatever number it has seen (web/panels/browser.js:61), `clickAt` only when ready (:69).
- A server that stops reading blocks the request being written, all behind it and close
  (stdio.rs:209-220), in spite of "with a timeout" (191). Without `ServerKeepsReading`,
  `EveryCallEnds` is violated by a server that never reads on.
- A request of the server's own that has the id of a pending one is handed over as its
  answer (stdio.rs:143-147): `got = req` for all lines is violated.
- An abort between the entry check and `start()` is overwritten (hazards).

## 4. Proofs

Eight modules hold proofs. Each builds an invariant that is inductive, and derives from
it the properties the runs check on a small instance. The only assumptions are those
named in the modules that declare the constants, and the hypotheses a theorem states in
its `ASSUME`, each explained below.

### The store

`WorkflowStoreProofs` holds the lemmas on the store's operators. `CreateAdmitsNoCycle`:
a graph `create()` accepts has no set of steps that wait for one another, for every
size. The argument: the complement of a circular set is closed under Kahn's rule, and
the ordered steps are the least closed set. Other lemmas say how one `StepState` relates
a run to its successor: `Grown` (steps are only added, edges only to new ones) and
`MovesForward`; each stage of `step_state` satisfies them and they compose.
`ResumedFacts` says what a restart makes of a run.

### The executor

`WorkflowExecutorProofs` proves, of `Spec`, for every graph, any number of steps and
repair rounds and any concurrency, with aborts and usage reports unless excluded. For
any number of executors:

- `TypeCorrect`. The invariant is `Structure`: `TypeOK`, plus that steps beyond `n` are
  absent and unlinked, that snapshots and tasks name existing steps, and that there is
  room for the repairs still possible. Without the last part the step ids could run out,
  which the bound on inputs excludes.
- `EndedRunsStayEnded` (`EndedStaysEnded`), from `Structure` alone: only `start()` sets
  an ended run to running.
- `NothingWaitsAfterTheEnd` (`EndedRunHasNoRunnable`): that no ended run has a pending
  or ready step is itself inductive, given `Structure`, because every sweep and every
  verdict reaches all steps.
- `RepairsMakeNoCycle` (`Acyclic`). `NoCycle`: every set of steps has one that waits for
  no other of the set, which is what Kahn's algorithm establishes at `create()`. The two
  steps of a repair are new, so nobody waits for them but the second for the first
  (`RepairUnbroken`).
- `EveryMoveBringsTheEndNearer` (`EndComesNearer`) and `MovesComeToAnEnd`. Steps only
  leave the set of those that may still be started; otherwise a task goes a stage
  further, or, with all tasks as they were, the loop a place. The order on these three
  sets, lexicographic, is well-founded (`AheadWellFounded`), so executors and tasks move
  only finitely often, whatever clients do: auto-repair cannot make a run grow for ever,
  and no loop spins on work of its own. Rounds of polling leave `pc` as it is.
- `NobodyWaitsInACircle` (`SomebodyGoesOn`): until all executors have returned, one of
  them neither joins tasks nor sleeps, or a task needs no permit. A step found running
  is in some executor's hands, so nobody polls for a step that nobody drives, and who
  queues for a permit has a task ahead that holds one. `Driven`, the invariant, holds
  for any number of executors; `NobodyPollsForEver` is sharper, for one.

With these two only the last inference of `EventuallyReturns` is left to TLC: that under
weak fairness a step that can be taken is taken.

The others need a sole executor (`SoleExecutor`). The hypothesis is necessary: run
double_dispatch shows two executors running one step, and the second may mark it running
after the first reported it done. The code leaves it to its callers.

- `DispatchedInOrder` (`DependencyOrder`). `Order`: a step that is ready, running, in a
  snapshot or in flight has only done parents, and a done step is neither in a snapshot
  nor in flight. The second half makes it inductive: a result is never overwritten, so a
  parent once done remains done.
- `ResultsAreKept` (`DoneIsDone`), from the same invariant.
- `NobodyPollsForEver` (`NoPhantomRunning`). `Phases` says at which `pc` the executor
  has a snapshot or tasks; `Driven`, that every running step has a task that will report
  on it. At the poll there is no task, hence nothing running.
- `TheVerdictIsTrue` (`TruthfulOutcome`). `Known` adds to the above that results mean
  what they say, that a failed step has ended the run and that clients can only have
  aborted a run not yet started (`Settling`). `Verdict` adds what the executor has in
  hand while the run is open (`AtWork`), that an open run has skipped steps only while
  the budget is drained or if it was aborted before its start (`SkipsOnlyAtEnd`), and
  that "done" is the truth and stays it (`DoneTruth`).
- `ParentsAreOnTheBus` (`ParentsOnBus`). `OnBus`: at the top of the loop the output of
  every done step is on the bus, because the join before it has written them, and a
  snapshot taken there contains nobody with another parent.
- `NoPromotionIsLost` (`NoLostPromotion`). `Unrepaired`: until the first repair every
  child list is complete, and a pending step of an open run has a parent that is not
  done. Two parents that end in either order each look at the child under the lock; the
  later one promotes it.
- `TheFinalRunIsReturned` (`ReturnsFinalRun`), without aborts. `Unfinished`: an open run
  always has a step that is not over, and whoever gives up finds such a step to fail. An
  abort that lands between the entry check and `start()` is overwritten and leaves an
  open run without one, which the executor returns as it is (listed under hazards).
- `TheRecordIsComplete` (`RecordComplete`), without aborts. `Captured`: at the top of
  the loop every ended step is in the record, and only a run that was repaired is ever
  given up. The latter needs that a run without running or ready steps has a pending one
  with all parents done, which `NoCycle`, ensured by `create()`, provides, and that such
  a step would have been promoted.
- `ThePromiseIsKept`, without aborts and budget, which the promise does not speak of:
  initial states are initial states of `WorkflowPromise`, and each step is a step of it
  or none, under the mapping of `KeepsPromise`. `Serene` collects the invariants above
  and `Reading` what they say of the mapped variables: the phase and the outcome read
  back as statuses, so each step is compared where the code writes it.

### Live edits

`WorkflowClientsProofs` extends these lemmas and proves, of `ClientsSpec`, with any
number of executors:

- `TheListsAgree` (`ListsAgree`): parents and children lists name the same edges, but
  for the edge from a repair to its re-review, which `step_state` leaves out of the
  children lists.
- `EditsDisturbNoWork` (`EditsKeepWork`): a patch or an insert commits on a later state
  than it was checked on and still takes nothing back from a step at work.
- `EditsMakeNoCycle` (`Acyclic`): no sequence of edits and repairs closes a cycle.

The invariant `Edited` says that the lists agree and what a request may hold between its
two looks; `Unknotted` adds that the graph, and the graph with the parents a pending
patch has had checked, have no circular set. All that step_state can do to a graph is
`Repaired`: two steps hung on the one reported. Neither knot is tied by that
(`RepairedUnbroken`), so a repair may come between the check of a patch and its commit.
Kahn's algorithm needs only that the children lists claim no edge too many
(`KahnFindsCycles`): an edge they lack makes it refuse more. That is what becomes of a
run with a re-review: it is never counted down, so HTTP refuses to rewire any other step
as a cycle until an insert has rebuilt the lists.

The hypotheses mark where the code's edits stop being safe:

- `NoStepIsLost`: nobody resumes, or there is one editor and no step asks for
  auto-repair. `resume_sync` puts back a clone whole and loses a step that another
  editor or a repair added meanwhile, while requests and tasks go on naming it (listed
  under hazards).
- For `EditsMakeNoCycle`, one editor at a time and the HTTP route only. Two editors may
  each have checked an edge that closes a circle with the other's; the WebSocket route
  checks the wrong list (run patch_cycle).

### Restart

`WorkflowRecoveryProofs` proves, of `RecoverySpec` with a sole executor, any graph and
any number of crashes: `NoStepIsResumedEarly` (`RecoveredOrder`), `TheFileIsCoherent`
(`FileAccountsForSteps`) and `NobodyWaitsForTheDead` (`NoGhostAfterRestart`). Three
things could go wrong: the file may hold an older clone than one already written, the
restart works on whatever the file holds, and `resume_sync` counts any parent that has
ended, failed and skipped ones too. The invariant `Recovered` therefore speaks of the
run, of the file and of every clone still to be written at once: each is `Coherent`,
which says that a step that is or was at work has done parents, and that as long as a
run is open no step of it has failed or was skipped. That makes resume's rule harmless:
a parent that has ended in an open run is done. Stale clones are then harmless too,
since what is claimed is true of each clone alone. While the server is not up the
executor has nothing in hand, so `Order` and `Driven` hold again when the resumed run
starts. That the file is the *latest* is not claimed: run stale_file shows that it need
not be.

### The sandbox

`SandboxProofs` proves, of `Spec`, for any runs, any previews among them and any
retention limit: `SandboxTyped`, `NothingLeftRunning` (`NoLiveAfterEnd`),
`StatusIsTruthful` (`TruthfulStatus`), `OneAnnouncement` (`EndAnnouncedOnce`),
`EndsAreFinal` (`EndIsFinal`) and `PreviewsOneAtATime` (`OneAtATime`). None of the invariants is inductive alone. The inductive
one, `SandboxInv`, has five parts for each run. `Placed`: nothing of a run exists before
`start_run` put it there. `Held`: a live child is held by the entry of a running run and
awaited by its task, and a run that is over before its task has said so was marked as
killed; this is what keeps a cancelled run from being spawned. `Marked`: the child of a
running run is only signalled after the run has been marked, so the exit path cannot
mistake a timeout for an error. `Truthful` is the property itself. `Announced`: who is
about to announce an end has seen it, and the flag of a run in the store is not dropped.
`PreviewsOneAtATime` adds `Listed`: while starts do not overlap, the list of a start that
is superseding has every running preview on it, also those not spawned yet. It marks the
reach of the finding two_previews: the overlap of two starts is the only way to it.

### Sessions and providers

`SessionProofs` proves `SessionHistory` (`HistoryStaysValid`), `SessionHeedsAbort`
(`AbortIsHeeded`), `SessionOneTurn` and `SessionTypes`, for any prompts, rounds, calls
and history limit. The transcript is described by `Shape(h, open)`: each block of tool
messages answers the calls of the message before it, and only the last `open` calls are
unanswered. `SessionInv` says that the history has `Shape` with exactly the calls the
turn in its tools still has `left`, and with none otherwise. Three lemmas carry it:
appending a message without calls or an answer to an open call keeps the shape; pruning
keeps a suffix that does not start with a tool message (`PruneSuffix`); and such a
suffix of a shape is a shape (`ShapeOfPruned`). Aborts: a turn that was hit either has a
cancelled token it will look at once more, or has already been stopped (`Stops`); this
holds because only a turn that starts afresh replaces the token and at most one is under
way.

Of the providers it proves `HealthIsCoherent` (`HealthCoherent`) and
`HealthRoutesArePaired` (with `HasBackup`: who found his provider degraded has a backup
to go to).

### Tools

`ToolProofs` proves, of the browser, `BrowserNoOrphan`, `BrowserSeqBindsPage` and
`BrowserOneOperation`. Its `StopSafe` follows a stop through its stages: what it has not
terminated had no process left; `Seen` says that the page is still what it was when the
current number was read, and that a ready observation shows it, unless the session is
disposed, a request was dropped or one is between its command and its observation. It
holds of what each client has read and of what is there to be read: an action first takes
the status from "ready", so what is read while it changes the page claims nothing. Of an MCP server, `McpAnswersMatch` and
`McpOneRequestAtATime`: an id that anyone may still mention was drawn from the counter
and names one request (`IdsUnique`), and only a request whose user still waits for it is
registered (`Registered`). Of a call of subagents, `TheCallAccounts`
(`VerdictAccounts`), for any entries, permits and rounds: `DispatchInv` says that each
entry is collected once, with the verdict its subagent returned (`Collected`), and who
may be at work in a set of tasks and in a chain (`TasksAtWork`, `ChainAtWork`). The
answer is what was collected in the order of the request (`InOrder`); that there is one
such sequence and that sorting keeps the verdicts are lemmas.

### What outlives the process, and all services together

`ServicesProofs` proves three things, each for any number of whoever writes.

- `CheckpointStack` (`CheckpointsStack`): while nothing is entangled, who saves has read
  a HEAD no checkpoint is ahead of (`SaverReady`), and a rollback whose order was
  checked is still one of the newest of its directory (`RestorerReady`), although others
  may have removed theirs meanwhile.
- `HistoryStaysIntact` (`HistoryIntact`), across crashes: while writers do not overlap,
  the one at work has the temporary inode to itself (`Alone`), so what it renames is
  whole, and what was read before is the last history committed.
- `MemoryKeepsNewest` (`NewestKept`) and `MemoryMirrorSettles` (`MirrorSettles`). A
  consolidation drops rows by a snapshot that others may have outdated. `OneVersion`: a
  row says one thing until a user edits it, so a snapshot is not wrong about it;
  `DoomedAreOutdone`: each row still to be deleted had a newer one on its topic, or was
  a user's to change; `NewestStays`: what nothing newer outdid is still there. That
  among the rows that outdo one there is a newest rests on the order being well founded,
  which takes the place of an induction. `MirrorKept`: somebody shows the table as it is
  or is about to read it, unless the mirror was crossed.

`ServicesSafety` and `ServicesTypes` (`ServicesTypeOK`) join the invariants of the eight
components: a step of Services is a step or a stutter of each (`StepOfEach`), and each
keeps its own.

### What is only model-checked

Liveness: `EventuallyReturns`, `EveryRunEnds`, `CancelledTurnEnds`,
`RecoveredProviderReturns`, `EveryCallEnds`, `EveryDispatchEnds`,
`HalfFinishedRunSurvives`, and what `KeepsPromise` says beyond its steps (the fairness
of `WorkflowPromise`). `tlapm` handles neither ENABLED nor, therefore, liveness under
fairness. For the
executor, what liveness rests on is proved (`MovesComeToAnEnd`, `NobodyWaitsInACircle`);
for the others it is not. Every invariant and every action property of a passing run is
stated by a theorem. The other way round, `TypeCorrect`, `SandboxTyped`, `SessionTypes`,
`ServicesTypes`, `NothingWaitsAfterTheEnd` and `NobodyPollsForEver` are proved of every
instance, and no run repeats them. Induction over data is out of reach as well;
where a proof would need it, a least counterexample in a well-founded order takes its
place.

## 5. Not modelled

- Data the properties do not tell apart: tasks, models, texts, timestamps, usage
  figures (an `overspent` flag), the contents of messages and observations.
- The event broadcasts, which are best effort, and telemetry.
- Of the store: eviction of ended runs at 100, a task that panics. Of the run record:
  its file. Of the context bus: topics, limits, the subagents' own reads and writes.
- Of the sandbox: several projects at once, output streaming, port detection, the
  containment backends. Of the browser: other platforms, allowlists. Of MCP: the HTTP
  transport, OAuth, paging. Of memory: search and ranking, which only read, and the
  remote graph memory. Of subagents: discovery, prompts and usage. Hooks: their
  nesting cap is a thread-local held across an await and does not bind (hazards).
- Hooks, marketplace, plugins, skills, templates, specs, living docs, profiles,
  connections, connectors, commands, design, leaderboard, config, auth, guard, vcs,
  verify, self_eval, the REST router, the desktop shell and the UI: parsing,
  listing and CRUD on small files, or calls of external programs. They make up most of
  the lines of the crate, have no state that several actors change in steps, and a model
  would repeat the code. That is also why the mapped lines are a small share of all.

External: the subagent (ends done or error within its timeout), providers, tools (which
end or panic) and humans, MCP servers, the browser's processes, the embedder, git, the
file system (rename is atomic), the operating system and the runtime. A signal sent to a
child of the sandbox that lives is taken to end it: the code discards the result of
`kill_pid` (sandbox.rs:1079, 1090, 1380) and would not notice. A subagent's progress is
sent outside the deadline of its round (subagent.rs:637), to a channel that the subagent
tool does not give.

## 6. Plan

1. done: store, executor, promise, clients, recovery; sandbox with poller and kill
   handler.
2. done: session with human gate, provider failover, browser, MCP client, checkpoints,
   history file, memory, subagent calls.
3. done: the safety every run checks, and the step simulation of `WorkflowPromise`,
   proved for all values of the constants.
4. done: absence of deadlock and of endless work for any number of executors, runs with
   auto-repair under live edits, the services side by side.
5. next: the run record as a file; several projects in the sandbox; hooks.
