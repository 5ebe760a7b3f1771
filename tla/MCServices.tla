------------------------------ MODULE MCServices ------------------------------
(***************************************************************************)
(* The services that share no state with each other, checked in one run:   *)
(* `focus` is chosen once, only the component it names takes steps and the *)
(* others rest in their initial state.  The behaviours of the run are      *)
(* those of the components, one at a time.                                 *)
(***************************************************************************)
EXTENDS KnowledgeBase, RunPump, NotificationHub, AgentRegistry, AgentConfigs, Accounts,
        McpSessions, Startup, ModelAllowlist, Preferences, LoginLimiter,
        WorkspaceGit

VARIABLE focus

\* File "a" has one byte and one chunk, file "x" two bytes and no text.
SizeOf   == [p \in Path |-> IF p = "a" THEN 1 ELSE 2]
ChunksOf == [p \in Path |-> IF p = "a" THEN 1 ELSE 0]

\* The model that agent configs may have to begin with.
Common == CHOOSE model \in Model : TRUE

\* One tool call; subagents behave alike.
CallsOf == [s \in Side |-> IF s = "tool" THEN 1 ELSE 0]

Flags(k, d, e) == [kind |-> k, default |-> d, enabled |-> e]
Bodies == {Flags("llm", TRUE, TRUE), Flags("llm", FALSE, TRUE), Flags("llm", TRUE, FALSE),
           Flags("embeddings", TRUE, TRUE)}

ServicesInit ==
  /\ focus \in {"kb", "pump", "hub", "connections", "registry", "configs", "accounts", "mcp",
               "startup", "allowlist", "preferences", "logins", "git"}
  /\ Init /\ (focus = "kb" \/ pooled)
  /\ PumpInit /\ HubInit /\ RegistryInit
  /\ ConfigInit /\ (focus = "configs" \/ own = {})
  /\ AccountInit /\ (focus = "accounts" \/ durable)
  /\ McpInit
  /\ StartupInit
  /\ (focus = "startup" \/ (configured /\ \A k \in Pools, i \in Legend : owned[k][i] = "mine"))
  /\ AllowInit /\ models["default"] = NoModel
  /\ \A c \in Source : models[c] \in {NoModel, IF focus = "allowlist" THEN Common ELSE NoModel}
  /\ PrefInit /\ LoginInit /\ GitInit

\* Bounds for the runs of the registry, beside MaxChanges and MaxTools: one admin
\* request at a time, of the llm connection "one", that does not fail, and three
\* changes in all.  The others are explored with the connections alone.
RegistryBounds ==
  /\ adm'["second"] = Free /\ ~spoiled'
  /\ adm'["first"].name \in {"none", "one"} /\ adm'["first"].kind # "embeddings"
  /\ adm'["first"].enabled = adm'["first"].default
  /\ \A b \in Chat : chat'[b].spec # "two"
  /\ writes' + tools' <= 3

\* Bounds for the runs of the allowlist: the requests of one slot are chats, those of
\* the other save a config.
Chats == CHOOSE s \in AskSlot : TRUE
AllowBounds == \A s \in AskSlot :
  ask'[s].name \in IF s = Chats THEN {"none", "default", "helper"} ELSE {"none", "save"}

\* What rests beside the component that takes steps.
early == <<vars, pumpVars, hubVars, registryVars, configVars, accountVars, mcpVars>>
late  == <<startupVars, allowVars, prefVars, loginVars, gitVars>>

ServicesNext ==
  /\ UNCHANGED focus
  /\ \/ /\ UNCHANGED late
        /\ \/ /\ focus = "kb" /\ Next
              /\ UNCHANGED <<pumpVars, hubVars, registryVars, configVars, accountVars, mcpVars>>
           \/ /\ focus = "pump" /\ PumpNext
              /\ UNCHANGED <<vars, hubVars, registryVars, configVars, accountVars, mcpVars>>
           \/ /\ focus = "hub" /\ HubNext
              /\ UNCHANGED <<vars, pumpVars, registryVars, configVars, accountVars, mcpVars>>
           \/ /\ focus = "connections" /\ ConnNext
              /\ UNCHANGED <<vars, pumpVars, hubVars, graphs, tools, mcp, toolReq, chat,
                             configVars, accountVars, mcpVars>>
           \/ /\ focus = "registry" /\ RegistryNext /\ RegistryBounds
              /\ UNCHANGED <<vars, pumpVars, hubVars, configVars, accountVars, mcpVars>>
           \/ /\ focus = "configs" /\ ConfigNext
              /\ UNCHANGED <<vars, pumpVars, hubVars, registryVars, accountVars, mcpVars>>
           \/ /\ focus = "accounts" /\ AccountNext
              /\ UNCHANGED <<vars, pumpVars, hubVars, registryVars, configVars, mcpVars>>
           \/ /\ focus = "mcp" /\ McpNext
              /\ UNCHANGED <<vars, pumpVars, hubVars, registryVars, configVars, accountVars>>
     \/ /\ UNCHANGED early
        /\ \/ /\ focus = "startup" /\ StartupNext
              /\ UNCHANGED <<allowVars, prefVars, loginVars, gitVars>>
           \/ /\ focus = "allowlist" /\ AllowNext /\ AllowBounds
              /\ UNCHANGED <<startupVars, prefVars, loginVars, gitVars>>
           \/ /\ focus = "preferences" /\ PrefNext
              /\ UNCHANGED <<startupVars, allowVars, loginVars, gitVars>>
           \/ /\ focus = "logins" /\ LoginNext
              /\ UNCHANGED <<startupVars, allowVars, prefVars, gitVars>>
           \/ /\ focus = "git" /\ GitNext
              /\ UNCHANGED <<startupVars, allowVars, prefVars, loginVars>>

servicesVars == <<focus, early, late>>

\* The fairness of PumpSpec; at rest it asks for no step.
ServicesSpec == ServicesInit /\ [][ServicesNext]_servicesVars /\ PumpFairness
=============================================================================
