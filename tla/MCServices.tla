----------------------------- MODULE MCServices -----------------------------
(***************************************************************************)
(* A small instance of every component of Services.                        *)
(***************************************************************************)
EXTENDS Services

CONSTANTS
    p1, p2,                  \* prompts
    openrouter, ollama,      \* providers
    lead, subagent,          \* callers of a provider
    starter, a1, a2, s1,     \* tasks of a browser session
    agent1, agent2, conn1,   \* agents and a connection to an MCP server
    r1, r2,                  \* runs
    w1, purge,               \* writers of the history
    v1, t1, t2,              \* requests that save and roll back
    project, home,           \* directories
    make, ninja, bazel       \* what is to be remembered

ConfiguredAlike == [c \in {lead, subagent} |-> openrouter]
FailoverPair    == [p \in {openrouter, ollama} |->
                       IF p = openrouter THEN ollama ELSE openrouter]
OneWithoutProject == [r \in {r1, r2} |-> IF r = r1 THEN project ELSE home]

(* Three ways to build, the outer two not close to each other.             *)
BuildTopic     == [t \in {make, ninja, bazel} |-> "build"]
Neighbours     == {{make, ninja}, {ninja, bazel}}
TwoFacts       == {<<make, bazel>>}
OvertakenAdd   == {{[n |-> 1, text |-> ninja, created |-> 1],
                    [n |-> 2, text |-> make, created |-> 0]}}
=============================================================================
