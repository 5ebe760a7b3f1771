---------------------------- MODULE AgentRegistry ----------------------------
(***************************************************************************)
(* The AgentRegistry of services/agent.py: graphs built on demand and kept *)
(* under a fingerprint of their spec, least recently used out first, and   *)
(* dropped by every mutation of what they were built from.  It composes    *)
(* with Connections, whose requests end by dropping the graphs, and with   *)
(* the tool-server requests of api/v1/endpoints/mcp.py, which do the same. *)
(*                                                                         *)
(* The key covers the whole spec, so a changed config makes another key; a *)
(* graph can be stale in what the key does not cover: the contents of the  *)
(* connection and the tools.  One user; `none` binds to the default.       *)
(***************************************************************************)
EXTENDS Connections, SequencesExt

CONSTANTS
  Chat,      \* the resolutions that may be in flight at once
  MaxCache,  \* max_cache, 16
  MaxTools,  \* bound: changes of the tool servers
  MaxChanges \* bound: connection rows written while agents are resolved

ASSUME RegistryAssumption ==
  MaxCache \in Nat \ {0} /\ {MaxTools, MaxChanges} \subseteq Nat

VARIABLES
  graphs,  \* _cache: the graphs, least recently used first
  tools,   \* the user's tool servers, by the number of the change that made them
  mcp,     \* the user's MCPServers: "none", "connecting" or "up"
  toolReq, \* a tool-server request has changed them and not yet dropped the graphs
  chat     \* the resolution in each slot

registryVars == <<connVars, graphs, tools, mcp, toolReq, chat>>

AgentSpec == Name \cup {"none"}   \* a spec, by the connection it names
NoChat == [at |-> "idle", spec |-> "none", tools |-> 0, conn |-> 0, overtaken |-> FALSE]

RegistryInit ==
  /\ ConnInit
  /\ graphs = <<>> /\ tools = 1 /\ mcp = "none" /\ toolReq = FALSE
  /\ chat = [b \in Chat |-> NoChat]

\* invalidate(): what is being built is not in the cache yet.
DropGraphs ==
  /\ graphs' = <<>>
  /\ chat' = [b \in Chat |-> [chat[b] EXCEPT !.overtaken = chat[b].at # "idle"]]

-----------------------------------------------------------------------------
\* A key has one graph at most.
Keys == {graphs[i].spec : i \in 1..Len(graphs)}
Without(spec) ==
  IF spec \in Keys THEN RemoveAt(graphs, CHOOSE i \in 1..Len(graphs) : graphs[i].spec = spec)
  ELSE graphs

\* resolve, with load_spec behind it: a hit is moved to the end and returned.
HitGraph(b) == \E i \in 1..Len(graphs) :
  /\ chat[b].at = "idle"
  /\ graphs' = Append(RemoveAt(graphs, i), graphs[i])
  /\ UNCHANGED <<connVars, tools, mcp, toolReq, chat>>

StartBuild(b) == \E spec \in AgentSpec \ Keys :
  /\ chat[b].at = "idle"
  /\ chat' = [chat EXCEPT ![b] = [NoChat EXCEPT !.at = "tools", !.spec = spec]]
  /\ UNCHANGED <<connVars, graphs, tools, mcp, toolReq>>

Selected(b, ts) ==
  chat' = [chat EXCEPT ![b].tools = ts,
                       ![b].at = IF chat[b].spec = "none" THEN "insert" ELSE "model"]

\* _select_tools asks for the user's MCPServers.  The first to ask connects them; who
\* asks while the config is loaded connects them too, and who asks while tools are
\* fetched gets what there is by then, which may be no tools: 0 stands for that.
SelectTools(b) ==
  /\ chat[b].at = "tools"
  /\ \/ mcp = "up" /\ Selected(b, tools) /\ UNCHANGED mcp
     \/ mcp = "connecting" /\ Selected(b, 0) /\ UNCHANGED mcp
     \/ mcp # "up" /\ mcp' = "connecting" /\ chat' = [chat EXCEPT ![b].at = "connect",
                                                                  ![b].tools = tools]
  /\ UNCHANGED <<connVars, graphs, tools, toolReq>>

\* connect() returns, with what a second one has not cleared again.  If the instance
\* was dropped meanwhile its tools are nobody else's.
ConnectTools(b) ==
  /\ chat[b].at = "connect"
  /\ LET others == {o \in Chat \ {b} : chat[o].at = "connect" /\ chat[o].tools = chat[b].tools} IN
     /\ \/ Selected(b, chat[b].tools)
        \/ others # {} /\ Selected(b, 0)
     /\ mcp' = IF chat[b].tools = tools /\ others = {} THEN "up" ELSE mcp
  /\ UNCHANGED <<connVars, graphs, tools, toolReq>>

\* The contents that a spec's connection has: 0 when there is none fit for it.
Contents(spec) ==
  IF spec = "none" THEN resolved["llm"]
  ELSE IF conns[spec].kind = "llm" /\ conns[spec].enabled THEN conns[spec].rev ELSE 0

\* _resolve_model awaits the row of a named connection.
ResolveModel(b) ==
  /\ chat[b].at = "model"
  /\ chat' = [chat EXCEPT ![b].at = "insert", ![b].conn = Contents(chat[b].spec)]
  /\ UNCHANGED <<connVars, graphs, tools, mcp, toolReq>>

\* The default connection is read from the process, in the step that builds and
\* inserts.  Without a fit connection this is a ValueError.
InsertGraph(b) ==
  /\ chat[b].at = "insert"
  /\ LET c == chat[b]
         conn == IF c.spec = "none" THEN Contents("none") ELSE c.conn
         all  == Append(Without(c.spec), [spec |-> c.spec, tools |-> c.tools, conn |-> conn,
                                          overtaken |-> c.overtaken]) IN
     graphs' = IF conn = 0 THEN graphs
               ELSE IF Len(all) > MaxCache THEN Tail(all) ELSE all
  /\ chat' = [chat EXCEPT ![b] = NoChat]
  /\ UNCHANGED <<connVars, tools, mcp, toolReq>>

-----------------------------------------------------------------------------
\* A tool server is stored, changed or removed and the user's instance dropped; then
\* the graphs go.
WriteTools ==
  /\ ~toolReq /\ tools <= MaxTools
  /\ tools' = tools + 1 /\ mcp' = "none" /\ toolReq' = TRUE
  /\ UNCHANGED <<connVars, graphs, chat>>

DropForTools ==
  /\ toolReq /\ toolReq' = FALSE
  /\ DropGraphs
  /\ UNCHANGED <<connVars, tools, mcp>>

\* A mutant of Mutate: the graphs are dropped with the write, before the defaults are
\* resolved again.
MutateAndDrop(s) ==
  /\ \/ /\ \/ writes + Cardinality({o \in Admin : adm[o] # Free}) < MaxChanges /\ BeginAny(s)
           \/ GetAgain(s) \/ ClearDefault(s) \/ AskDefault(s) \/ StoreDefault(s)
        /\ UNCHANGED <<graphs, chat>>
     \/ WriteRow(s) /\ DropGraphs
  /\ UNCHANGED <<tools, mcp, toolReq>>

\* A request of Connections; _mutated: invalidate() follows the refresh without an
\* await.
Mutate(s) ==
  /\ \/ /\ \/ writes + Cardinality({o \in Admin : adm[o] # Free}) < MaxChanges /\ BeginAny(s)
           \/ GetAgain(s) \/ ClearDefault(s) \/ WriteRow(s) \/ AskDefault(s)
           \/ ~LastKind(s) /\ StoreDefault(s)
        /\ UNCHANGED <<graphs, chat>>
     \/ LastKind(s) /\ StoreDefault(s) /\ DropGraphs
  /\ UNCHANGED <<tools, mcp, toolReq>>

RegistryNext ==
  \/ WriteTools \/ DropForTools
  \/ \E s \in Admin : Mutate(s)
  \/ \E b \in Chat : HitGraph(b) \/ StartBuild(b) \/ SelectTools(b) \/ ConnectTools(b)
                     \/ ResolveModel(b) \/ InsertGraph(b)

RegistrySpec == RegistryInit /\ [][RegistryNext]_registryVars

-----------------------------------------------------------------------------
\* Between mutations a cached graph is what a build would give now: made with the
\* credentials and the tools that its user has (services/agent.py:561-585), unless
\* it was being built when the graphs were dropped, another request was still
\* connecting the tool servers (services/mcp.py:373), or a mutation failed half way.
GraphsAreFresh == AdminsIdle /\ ~toolReq /\ ~spoiled =>
  \A i \in 1..Len(graphs) : LET g == graphs[i] IN
    g.overtaken \/ (g.tools \in {0, tools} /\ g.conn = Contents(g.spec))
=============================================================================
