-------------------------------- MODULE Mcp --------------------------------
(***************************************************************************)
(* The registry of MCP servers and the clients connected to them           *)
(* (gateway-mcp server.rs, registry.rs, client.rs, handlers/mcp.rs).  The  *)
(* two are maps of their own: connecting, refreshing and disconnecting     *)
(* write one and then the other, with handlers and tool calls in between.  *)
(*                                                                         *)
(* A tool stands for a tool, a resource or a prompt.  A client that is     *)
(* being used is locked until the server has answered, against what would  *)
(* write its entry.  Sessions, which decide nothing, are left out, and so  *)
(* is is_healthy, which nothing sets.                                      *)
(***************************************************************************)
EXTENDS Naturals, FiniteSets

CONSTANTS
    ServerIds,      \* identifiers drawn for the servers that are registered
    ServerNames,
    Tools,
    McpTasks        \* requests handled at a time

ASSUME McpAssumption == IsFiniteSet(McpTasks) /\ "unlisted" \notin ServerNames

VARIABLES
    registry,       \* identifier -> NotListed, or a name and the tools found
    mcpClients,     \* identifiers with a client
    fresh,          \* identifiers not drawn yet
    mcpTask,        \* where each request is
    crossed         \* servers unlisted while another request wrote their entry

mcpVars == <<registry, mcpClients, fresh, mcpTask, crossed>>

NotListed == [name |-> "unlisted", tools |-> {}]
NoTask == [at |-> "none"]

McpInit ==
    /\ registry = [b \in ServerIds |-> NotListed]
    /\ mcpClients = {} /\ crossed = {}
    /\ fresh = ServerIds
    /\ mcpTask = [k \in McpTasks |-> NoTask]

Listed(b) == registry[b] # NotListed
Moves(k, at) == mcpTask' = [mcpTask EXCEPT ![k] = at]

\* A guard of the map of clients, held over an await.
InUse(b) == \E k \in McpTasks : mcpTask[k].at \in {"refresh", "update", "proxy"} /\ mcpTask[k].id = b

----------------------------------------------------------------------------
(* connect_backend.                                                        *)

\* What a server lists; a list that fails is an empty one.
Discovered == SUBSET Tools

\* initialize has succeeded: with an error nothing is written.
ConnectBackend(k, b, name) ==
    /\ mcpTask[k] = NoTask /\ b \in fresh
    /\ fresh' = fresh \ {b}
    /\ \E tools \in Discovered :
          Moves(k, [at |-> "register", id |-> b, entry |-> [name |-> name, tools |-> tools]])
    /\ UNCHANGED <<registry, mcpClients, crossed>>

RegisterBackend(b, entry) == registry' = [registry EXCEPT ![b] = entry]

ListServer(k) ==
    /\ mcpTask[k].at = "register"
    /\ RegisterBackend(mcpTask[k].id, mcpTask[k].entry)
    /\ Moves(k, [at |-> "insert", id |-> mcpTask[k].id])
    /\ UNCHANGED <<mcpClients, fresh, crossed>>

Cross(b) == crossed' = IF Listed(b) THEN crossed ELSE crossed \union {b}

InsertClient(k) ==
    /\ mcpTask[k].at = "insert"
    /\ ~InUse(mcpTask[k].id)
    /\ mcpClients' = mcpClients \union {mcpTask[k].id}
    /\ Cross(mcpTask[k].id)
    /\ Moves(k, NoTask)
    /\ UNCHANGED <<registry, fresh>>

----------------------------------------------------------------------------
(* disconnect_backend.                                                     *)

\* Any identifier of a server that has been answered to somebody, or listed.
DisconnectBackend(k, b) ==
    /\ mcpTask[k] = NoTask /\ (Listed(b) \/ b \in mcpClients)
    /\ RegisterBackend(b, NotListed)
    /\ Moves(k, [at |-> "drop", id |-> b])
    /\ UNCHANGED <<mcpClients, fresh, crossed>>

\* Mutant: the client stays connected.
KeepsClient(b) == UNCHANGED mcpClients

DropsClient(b) == mcpClients' = mcpClients \ {b}

RemoveClient(k) ==
    /\ mcpTask[k].at = "drop"
    /\ ~InUse(mcpTask[k].id)
    /\ DropsClient(mcpTask[k].id)
    /\ crossed' = IF Listed(mcpTask[k].id) THEN crossed ELSE crossed \ {mcpTask[k].id}
    /\ Moves(k, NoTask)
    /\ UNCHANGED <<registry, fresh>>

----------------------------------------------------------------------------
(* refresh_backend.                                                        *)

RefreshBackend(k, b) ==
    /\ mcpTask[k] = NoTask /\ b \in mcpClients
    /\ \E tools \in Discovered : Moves(k, [at |-> "refresh", id |-> b, tools |-> tools])
    /\ UNCHANGED <<registry, mcpClients, fresh, crossed>>

\* The entry is copied, and written back later; one that has gone is not.
GetBackend(k) ==
    /\ mcpTask[k].at = "refresh"
    /\ Moves(k, IF Listed(mcpTask[k].id)
                THEN [at |-> "update", id |-> mcpTask[k].id,
                      entry |-> [registry[mcpTask[k].id] EXCEPT !.tools = mcpTask[k].tools]]
                ELSE NoTask)
    /\ UNCHANGED <<registry, mcpClients, fresh, crossed>>

UpdateBackend(k) ==
    /\ mcpTask[k].at = "update"
    /\ RegisterBackend(mcpTask[k].id, mcpTask[k].entry)
    /\ Cross(mcpTask[k].id)
    /\ Moves(k, NoTask)
    /\ UNCHANGED <<mcpClients, fresh>>

----------------------------------------------------------------------------
(* tools/call, resources/read and prompts/get.                             *)

\* The first entry, in no order, with this name and this tool.
Resolution(name, tool) ==
    {b \in ServerIds : Listed(b) /\ registry[b].name = name /\ tool \in registry[b].tools}

CallTool(k, name, tool) ==
    /\ mcpTask[k] = NoTask
    /\ \E b \in Resolution(name, tool) : Moves(k, [at |-> "call", id |-> b])
    /\ UNCHANGED <<registry, mcpClients, fresh, crossed>>

\* Without a client the answer is "Backend not connected".
GetClient(k) ==
    /\ mcpTask[k].at = "call"
    /\ Moves(k, IF mcpTask[k].id \in mcpClients THEN [mcpTask[k] EXCEPT !.at = "proxy"] ELSE NoTask)
    /\ UNCHANGED <<registry, mcpClients, fresh, crossed>>

\* The server's answer, an error, or the timeout of the client.
Proxied(k) ==
    /\ mcpTask[k].at = "proxy"
    /\ Moves(k, NoTask)
    /\ UNCHANGED <<registry, mcpClients, fresh, crossed>>

McpNext ==
    \E k \in McpTasks :
       \/ ListServer(k) \/ InsertClient(k) \/ RemoveClient(k)
       \/ GetBackend(k) \/ UpdateBackend(k) \/ GetClient(k) \/ Proxied(k)
       \/ \E b \in ServerIds :
             \/ DisconnectBackend(k, b) \/ RefreshBackend(k, b)
             \/ \E name \in ServerNames : ConnectBackend(k, b, name)
       \/ \E name \in ServerNames, tool \in Tools : CallTool(k, name, tool)

McpSpec == McpInit /\ [][McpNext]_mcpVars

----------------------------------------------------------------------------
\* A request is between its two writes of b.
HalfDone(b) == \E k \in McpTasks : mcpTask[k].at \in {"insert", "drop"} /\ mcpTask[k].id = b

\* A server is listed exactly when it has a client, but while it is being
\* connected or disconnected, and when a disconnection crossed what another
\* request was writing: a refresh that had copied the entry, whose tools are
\* then listed and answer "Backend not connected", or the connection itself
\* (server.rs connect_backend, disconnect_backend, refresh_backend).
ListedIsConnected ==
    \A b \in ServerIds \ crossed : ~HalfDone(b) => (Listed(b) <=> b \in mcpClients)
=============================================================================
