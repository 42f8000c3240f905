------------------------------ MODULE Services ------------------------------
(***************************************************************************)
(* The components of the server that share no state with each other, each  *)
(* on an instance of its own.  A behaviour is one of a single component:   *)
(* "part" says which, and the others stand still.                          *)
(***************************************************************************)
EXTENDS Session, ProviderHealth, Browser, McpClient, HistoryFile, Checkpoint, Memory,
        SubagentDispatch

VARIABLE part

parts == <<sessionVars, healthVars, browserVars, mcpVars, historyVars, checkpointVars,
           memoryVars, dispatchVars>>

servicesVars == <<part, parts>>

ServicesInit ==
    /\ part \in {"session", "health", "browser", "mcp", "history", "checkpoint", "memory",
                "dispatch"}
    /\ SessionInit /\ HealthInit /\ BrowserInit /\ McpInit /\ HistoryInit /\ CheckpointInit
    /\ MemoryInit /\ DispatchInit

InSession(A) ==
    /\ part = "session" /\ A
    /\ UNCHANGED <<part, healthVars, browserVars, mcpVars, historyVars, checkpointVars,
                   memoryVars, dispatchVars>>

InHealth(A) ==
    /\ part = "health" /\ A
    /\ UNCHANGED <<part, sessionVars, browserVars, mcpVars, historyVars, checkpointVars,
                   memoryVars, dispatchVars>>

InBrowser(A) ==
    /\ part = "browser" /\ A
    /\ UNCHANGED <<part, sessionVars, healthVars, mcpVars, historyVars, checkpointVars,
                   memoryVars, dispatchVars>>

InMcp(A) ==
    /\ part = "mcp" /\ A
    /\ UNCHANGED <<part, sessionVars, healthVars, browserVars, historyVars, checkpointVars,
                   memoryVars, dispatchVars>>

InHistory(A) ==
    /\ part = "history" /\ A
    /\ UNCHANGED <<part, sessionVars, healthVars, browserVars, mcpVars, checkpointVars,
                   memoryVars, dispatchVars>>

InCheckpoint(A) ==
    /\ part = "checkpoint" /\ A
    /\ UNCHANGED <<part, sessionVars, healthVars, browserVars, mcpVars, historyVars,
                   memoryVars, dispatchVars>>

InMemory(A) ==
    /\ part = "memory" /\ A
    /\ UNCHANGED <<part, sessionVars, healthVars, browserVars, mcpVars, historyVars,
                   checkpointVars, dispatchVars>>

InDispatch(A) ==
    /\ part = "dispatch" /\ A
    /\ UNCHANGED <<part, sessionVars, healthVars, browserVars, mcpVars, historyVars,
                   checkpointVars, memoryVars>>

ServicesNext ==
    \/ InSession(SessionNext) \/ InHealth(HealthNext) \/ InBrowser(BrowserNext)
    \/ InMcp(McpNext) \/ InHistory(HistoryNext) \/ InCheckpoint(CheckpointNext)
    \/ InMemory(MemoryNext) \/ InDispatch(DispatchNext)

(* The fairness of SessionSpec, HealthSpec, McpSpec and DispatchSpec.      *)
ServicesSpec ==
    /\ ServicesInit /\ [][ServicesNext]_servicesVars
    /\ \A p \in Prompts : WF_servicesVars(InSession(TurnStep(p)))
    /\ WF_servicesVars(InHealth(Tick))
    /\ \A c \in Callers :
          WF_servicesVars(InHealth(CallerStep(c))) /\ WF_servicesVars(InHealth(CallEnds(c)))
    /\ \A c \in Sessions : \A p \in Providers :
          SF_servicesVars(InHealth(caller[c].route = p /\ Succeed(c)))
    /\ \A u \in Users : WF_servicesVars(InMcp(UserStep(u)))
    /\ \A c \in Connections :
          SF_servicesVars(InMcp(\E u \in Users : user[u].conn = c /\ Write(u)))
    /\ WF_servicesVars(InDispatch(DispatchStep))

(* Every component keeps to its types.                                     *)
ServicesTypeOK ==
    /\ SessionTypeOK /\ HealthTypeOK /\ BrowserTypeOK
    /\ McpTypeOK /\ HistoryTypeOK /\ CheckpointTypeOK /\ MemoryTypeOK
    /\ DispatchTypeOK
=============================================================================
