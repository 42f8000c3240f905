----------------------------- MODULE McpClient ------------------------------
(***************************************************************************)
(* The MCP client over stdio (mcp/stdio.rs, mcp/client.rs) and the         *)
(* registry of connected servers (mcp/registry.rs), for one configured     *)
(* server.  Every load of the configuration makes a connection of its own: *)
(* a child process, a reader task on its stdout, a mutex that lets one     *)
(* request at a time through.  The requests of a connection are made by    *)
(* agents (mcp_call) and, first, by the task that connects (initialize);   *)
(* both run the same code, so both are users.                              *)
(*                                                                         *)
(* The server is external: it answers what it was asked, in any order, as  *)
(* late as it likes or never, makes requests of its own, stops reading its *)
(* stdin for a while or for good, and may die at any moment.               *)
(***************************************************************************)
EXTENDS Naturals, FiniteSets

CONSTANTS
    Agents,        \* agents that call a tool of the server
    Connections,   \* one for each connect_all that spawns the server
    MaxCalls,      \* bound on the calls of one agent
    ServerIds,     \* ids the server gives to requests of its own
    Nowhere,       \* no connection, no user
    NoRequest      \* no request

Users == Agents \cup Connections

(* A request carries its JSON-RPC id and, for the properties only, who     *)
(* makes it and which of his calls it is.  An answer echoes it.            *)
Request == [id : Nat, user : Users, turn : Nat]

(* A request of the server's own, such as a ping, has an id of its choice. *)
ServerRequest == [id : ServerIds, user : {Nowhere}, turn : {0}]

Line == Request \cup ServerRequest

ASSUME McpAssumption ==
    /\ Agents \cap Connections = {}
    /\ Nowhere \notin Users
    /\ NoRequest \notin Line
    /\ MaxCalls \in Nat /\ ServerIds \subseteq Nat

VARIABLES
    listed,     \* the connection in the registry, or Nowhere
    server,     \* the child process of each connection; "stuck": it does not
                \* read its stdin, and the pipe has no room for the next line
    closed,     \* the connections on which close() was called
    closing,    \* taken out by clear(), close() still to come
    nextId,     \* next_id of each connection
    holder,     \* who holds the mutex of each connection, or Nowhere
    pending,    \* pending: the requests registered, by connection
    asked,      \* requests written and not answered
    stdout,     \* lines the reader has not read yet
    user        \* where each user is

mcpVars == <<listed, server, closed, closing, nextId, holder, pending, asked,
             stdout, user>>

Idle == [pc |-> "idle", conn |-> Nowhere, req |-> NoRequest, got |-> NoRequest, turn |-> 0]

McpTypeOK ==
    /\ listed \in Connections \cup {Nowhere}
    /\ server \in [Connections -> {"none", "alive", "stuck", "gone"}]
    /\ closed \subseteq Connections
    /\ closing \subseteq Connections
    /\ nextId \in [Connections -> Nat]
    /\ holder \in [Connections -> Users \cup {Nowhere}]
    /\ pending \in [Connections -> SUBSET Request]
    /\ asked \in [Connections -> SUBSET Request]
    /\ stdout \in [Connections -> SUBSET Line]
    /\ user \in [Users ->
          [pc   : {"idle", "queued", "writing", "written", "waiting",
                   "expired", "notifying", "connected", "failed"},
           conn : Connections \cup {Nowhere},
           req  : Request \cup {NoRequest},
           got  : Line \cup {NoRequest},
           turn : Nat]]

McpInit ==
    /\ listed = Nowhere
    /\ server = [c \in Connections |-> "none"]
    /\ closed = {}
    /\ closing = {}
    /\ nextId = [c \in Connections |-> 1]
    /\ holder = [c \in Connections |-> Nowhere]
    /\ pending = [c \in Connections |-> {}]
    /\ asked = [c \in Connections |-> {}]
    /\ stdout = [c \in Connections |-> {}]
    /\ user = [u \in Users |-> Idle]

wire     == <<asked, stdout>>
registry == <<listed, closed, closing>>

-----------------------------------------------------------------------------
(* connect_all and clear.                                                  *)

(* One server of connect_all: the child is spawned and the client, which   *)
(* nobody else knows yet, asks it to initialize.                           *)
Connect(c) ==
    /\ server[c] = "none" /\ user[c].pc = "idle"
    /\ server' = [server EXCEPT ![c] = "alive"]
    /\ user' = [user EXCEPT ![c].pc = "queued", ![c].conn = c, ![c].turn = 1]
    /\ UNCHANGED <<registry, nextId, holder, pending, wire>>

(* connect_all has joined its tasks: what connected replaces the registry, *)
(* nothing if the handshake failed.  The old client is dropped unclosed.   *)
Publish(c) ==
    /\ user[c].pc \in {"connected", "failed"}
    /\ listed' = IF user[c].pc = "connected" THEN c ELSE Nowhere
    /\ user' = [user EXCEPT ![c] = [Idle EXCEPT !.turn = 1]]
    /\ UNCHANGED <<server, closed, closing, nextId, holder, pending, wire>>

(* clear (also connect_all without servers) takes the client out ...       *)
Clear ==
    /\ listed # Nowhere
    /\ listed' = Nowhere
    /\ closing' = closing \cup {listed}
    /\ UNCHANGED <<server, closed, nextId, holder, pending, wire, user>>

(* ... and closes it once its mutex is free: stdin shut, child killed.     *)
Close(c) ==
    /\ c \in closing /\ holder[c] = Nowhere
    /\ closing' = closing \ {c}
    /\ closed' = closed \cup {c}
    /\ server' = [server EXCEPT ![c] = "gone"]
    /\ UNCHANGED <<listed, nextId, holder, pending, wire, user>>

-----------------------------------------------------------------------------
(* One request: registry::call, then StdioTransport::request.              *)

(* registry::get: the handle is cloned, the registry's lock released.      *)
Call(a) ==
    /\ user[a].pc = "idle" /\ user[a].turn < MaxCalls
    /\ listed # Nowhere
    /\ user' = [user EXCEPT ![a] =
                   [Idle EXCEPT !.pc = "queued", !.conn = listed, !.turn = user[a].turn + 1]]
    /\ UNCHANGED <<registry, server, nextId, holder, pending, wire>>

(* Mutant: the id is used, not drawn.                                      *)
EnterSameId(u) ==
    LET c == user[u].conn IN
    /\ user[u].pc = "queued" /\ holder[c] = Nowhere
    /\ holder' = [holder EXCEPT ![c] = u]
    /\ user' = [user EXCEPT ![u].pc = "writing",
                   ![u].req = [id |-> nextId[c], user |-> u, turn |-> user[u].turn]]
    /\ UNCHANGED <<registry, server, nextId, pending, wire>>

(* The mutex of the connection; the id is drawn.                           *)
Enter(u) ==
    LET c == user[u].conn IN
    /\ user[u].pc = "queued" /\ holder[c] = Nowhere
    /\ holder' = [holder EXCEPT ![c] = u]
    /\ nextId' = [nextId EXCEPT ![c] = @ + 1]
    /\ user' = [user EXCEPT ![u].pc = "writing",
                   ![u].req = [id |-> nextId[c], user |-> u, turn |-> user[u].turn]]
    /\ UNCHANGED <<registry, server, pending, wire>>

(* What the call ends with; the guard on the mutex is dropped.  Who        *)
(* connects has "notifications/initialized" still to send.                 *)
Return(u, ok) ==
    /\ holder' = [holder EXCEPT ![user[u].conn] = Nowhere]
    /\ user' = [user EXCEPT ![u].req = NoRequest, ![u].got = NoRequest,
                   ![u].pc = IF u \in Agents THEN "idle"
                             ELSE IF ok THEN "notifying" ELSE "failed"]

(* The line is written to the child's stdin, or cannot be: stdin closed,   *)
(* child gone.  While the pipe is full the writer waits; no timeout runs   *)
(* yet.                                                                    *)
Write(u) ==
    LET c == user[u].conn IN
    /\ user[u].pc = "writing" /\ server[c] # "stuck"
    /\ IF c \in closed \/ server[c] = "gone"
       THEN Return(u, FALSE) /\ UNCHANGED asked
       ELSE /\ asked' = [asked EXCEPT ![c] = @ \cup {user[u].req}]
            /\ user' = [user EXCEPT ![u].pc = "written"]
            /\ UNCHANGED holder
    /\ UNCHANGED <<registry, server, nextId, pending, stdout>>

(* Only now is the request registered: the reader may have been faster.    *)
Register(u) ==
    LET c == user[u].conn IN
    /\ user[u].pc = "written"
    /\ pending' = [pending EXCEPT ![c] =
                      {r \in @ : r.id # user[u].req.id} \cup {user[u].req}]
    /\ user' = [user EXCEPT ![u].pc = "waiting"]
    /\ UNCHANGED <<registry, server, nextId, holder, wire>>

(* The reader handed the answer over: a result or an error.                *)
Receive(u) ==
    /\ user[u].pc = "waiting" /\ user[u].got # NoRequest
    /\ \E ok \in BOOLEAN : Return(u, ok)
    /\ UNCHANGED <<registry, server, nextId, pending, wire>>

(* notify(): the handshake ends with a line that has no answer.            *)
Notify(u) ==
    LET c == user[u].conn IN
    /\ user[u].pc = "notifying" /\ server[c] # "stuck"
    /\ user' = [user EXCEPT ![u].pc = IF server[c] = "gone" THEN "failed" ELSE "connected"]
    /\ UNCHANGED <<registry, server, nextId, holder, pending, wire>>

(* Mutant: only a living server is given up.                               *)
ExpireAlive(u) ==
    /\ user[u].pc = "waiting" /\ user[u].got = NoRequest
    /\ server[user[u].conn] # "gone"
    /\ user' = [user EXCEPT ![u].pc = "expired"]
    /\ UNCHANGED <<registry, server, nextId, holder, pending, wire>>

(* The 30 s are over without an answer ...                                 *)
Expire(u) ==
    /\ user[u].pc = "waiting" /\ user[u].got = NoRequest
    /\ user' = [user EXCEPT ![u].pc = "expired"]
    /\ UNCHANGED <<registry, server, nextId, holder, pending, wire>>

(* ... and the registration is taken back.                                 *)
Withdraw(u) ==
    LET c == user[u].conn IN
    /\ user[u].pc = "expired"
    /\ pending' = [pending EXCEPT ![c] = {r \in @ : r.id # user[u].req.id}]
    /\ Return(u, FALSE)
    /\ UNCHANGED <<registry, server, nextId, wire>>

-----------------------------------------------------------------------------
(* The reader task takes the next line and looks its id up.  Who is not    *)
(* registered (yet, or no longer) loses the answer.  A line with an id is  *)
(* taken for an answer, the server's own requests too.                     *)
ReadLine(c, m) ==
    /\ m \in stdout[c]
    /\ stdout' = [stdout EXCEPT ![c] = @ \ {m}]
    /\ pending' = [pending EXCEPT ![c] = {r \in @ : r.id # m.id}]
    /\ user' = [u \in Users |->
                   IF \E r \in pending[c] : r.id = m.id /\ r.user = u
                   THEN [user[u] EXCEPT !.got = IF user[u].pc = "waiting" THEN m ELSE @]
                   ELSE user[u]]
    /\ UNCHANGED <<registry, server, nextId, holder, asked>>

(* The server.                                                             *)
Answer(c, r) ==
    /\ server[c] \in {"alive", "stuck"} /\ r \in asked[c]
    /\ asked' = [asked EXCEPT ![c] = @ \ {r}]
    /\ stdout' = [stdout EXCEPT ![c] = @ \cup {r}]
    /\ UNCHANGED <<registry, server, nextId, holder, pending, user>>

ServerAsks(c, m) ==
    /\ server[c] \in {"alive", "stuck"}
    /\ stdout' = [stdout EXCEPT ![c] = @ \cup {m}]
    /\ UNCHANGED <<registry, server, nextId, holder, pending, asked, user>>

ServerSticks(c) ==
    /\ server[c] = "alive"
    /\ server' = [server EXCEPT ![c] = "stuck"]
    /\ UNCHANGED <<registry, nextId, holder, pending, wire, user>>

ServerReadsOn(c) ==
    /\ server[c] = "stuck"
    /\ server' = [server EXCEPT ![c] = "alive"]
    /\ UNCHANGED <<registry, nextId, holder, pending, wire, user>>

ServerDies(c) ==
    /\ server[c] \in {"alive", "stuck"}
    /\ server' = [server EXCEPT ![c] = "gone"]
    /\ UNCHANGED <<registry, nextId, holder, pending, wire, user>>

(* What the client's own tasks do, once a call was made.  A line whose     *)
(* writer waits gets through if the server reads on again and again; there *)
(* is one writer on a connection at a time.                                *)
UserStep(u) ==
    \/ Enter(u) \/ Write(u) \/ Register(u) \/ Receive(u) \/ Notify(u) \/ Expire(u)
    \/ Withdraw(u)

McpNext ==
    \/ Clear
    \/ \E c \in Connections :
          \/ Connect(c) \/ Publish(c) \/ Close(c)
          \/ ServerSticks(c) \/ ServerReadsOn(c) \/ ServerDies(c)
    \/ \E c \in Connections : \E m \in ServerRequest : ServerAsks(c, m)
    \/ \E c \in Connections : \E r \in asked[c] : Answer(c, r)
    \/ \E c \in Connections : \E m \in stdout[c] : ReadLine(c, m)
    \/ \E a \in Agents : Call(a)
    \/ \E u \in Users : UserStep(u)

McpSpec ==
    /\ McpInit /\ [][McpNext]_mcpVars
    /\ \A u \in Users : WF_mcpVars(UserStep(u))
    /\ \A c \in Connections : SF_mcpVars(\E u \in Users : user[u].conn = c /\ Write(u))

-----------------------------------------------------------------------------
(* Nobody is given the answer to another request: not to one of another    *)
(* agent, and not the late answer to a call of his own that timed out      *)
(* before (the dispatch by id in stdio.rs).  A request of the server's own *)
(* that happens to have the id is no such answer, and nothing is said of   *)
(* it.                                                                     *)
AnswersMatch ==
    \A u \in Users : user[u].got \in Request => user[u].got = user[u].req

(* The mutex lets one request at a time through, and whoever is between    *)
(* writing and returning holds it (ClientHandle::call_tool).               *)
OneRequestAtATime ==
    \A u \in Users :
        user[u].pc \in {"writing", "written", "waiting", "expired"}
            => holder[user[u].conn] = u

(* The server goes back to its stdin again and again, or is gone.          *)
ServerKeepsReading == \A c \in Connections : []<>(server[c] # "stuck")

(* A call ends if the server only reads what it is sent: it never answers, *)
(* it dies, it is closed meanwhile, or its answer was lost.  With a server *)
(* that stops reading for good, a call need not end: the write is awaited  *)
(* before the timeout starts.                                              *)
EveryCallEnds ==
    ServerKeepsReading => \A a \in Agents : []<>(user[a].pc = "idle")
=============================================================================
