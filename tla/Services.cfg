\* One session with two prompts; two providers; one browser session; two
\* agents of an MCP server; one writer of the history beside a deletion; two
\* rollbacks of two runs, one of which has no project and works in the server's
\* directory; a capture beside a user of a project's memory; one call of the
\* subagent tool.
SPECIFICATION ServicesSpec
CONSTANTS
    p1 = p1
    p2 = p2
    Prompts = {p1, p2}
    MaxRounds = 2
    MaxToolCalls = 2
    MaxHistory = 4
    MaxReloads = 1
    openrouter = openrouter
    ollama = ollama
    lead = lead
    subagent = subagent
    Providers = {openrouter, ollama}
    Sessions = {lead}
    Subagents = {subagent}
    Configured <- ConfiguredAlike
    Failover <- FailoverPair
    NoProvider = NoProvider
    Threshold = 2
    Cooldown = 1
    MaxFailures = 2
    Never = Never
    starter = starter
    a1 = a1
    a2 = a2
    s1 = s1
    Starter = starter
    Actors = {a1, a2}
    Stoppers = {s1}
    NoTask = NoTask
    ShortTimeout = TRUE
    agent1 = agent1
    agent2 = agent2
    conn1 = conn1
    Agents = {agent1, agent2}
    Connections = {conn1}
    MaxCalls = 2
    ServerIds = {2}
    Nowhere = Nowhere
    NoRequest = NoRequest
    r1 = r1
    r2 = r2
    w1 = w1
    purge = purge
    Recorded = {r1, r2}
    Doomed = {r1}
    Writers = {w1}
    Purger = purge
    MaxVersion = 1
    Inodes = {1, 2, 3, 4}
    NoInode = NoInode
    Torn = Torn
    v1 = v1
    t1 = t1
    t2 = t2
    project = project
    home = home
    Executed = {r1, r2}
    Dirs = {project, home}
    Server = home
    Home <- OneWithoutProject
    Savers = {v1}
    Restorers = {t1, t2}
    NoRun = NoRun
    MaxCommits = 1
    MaxSaves = 2
    make = make
    ninja = ninja
    bazel = bazel
    Texts = {make, ninja, bazel}
    Topic <- BuildTopic
    VeryClose <- Neighbours
    Near <- Neighbours
    Stored <- OvertakenAdd
    Exchanges <- TwoFacts
    Capturers = {capture}
    Requests = {request}
    File = File
    Every = 1
    MaxRows = 3
    MaxClock = 1
    MaxHandled = 1
    MaxEntries = 4
    MaxParallel = 3
    MaxChain = 3
    Permits = 2
    MaxAgentRounds = 2
    Unanswered = Unanswered
INVARIANTS
    HistoryStaysValid
    AbortIsHeeded
    HealthCoherent
    NoOrphanBrowser
    SeqBindsPage
    AnswersMatch
    HistoryIntact
    CheckpointsStack
    NewestKept
    MirrorSettles
    VerdictAccounts
PROPERTIES
    CancelledTurnEnds
    RecoveredProviderReturns
    EveryCallEnds
    EveryDispatchEnds
CHECK_DEADLOCK FALSE
