---------------------------- MODULE ModelAllowlist ----------------------------
(***************************************************************************)
(* Which model a user's chat runs on: the allowlist of                     *)
(* services/model_allowlist.py and the requests that change it             *)
(* (api/v1/endpoints/auth.py), the check of a chat (_resolve_agent in      *)
(* api/v1/endpoints/chat.py) and that of an agent config                   *)
(* (_check_model_allowed in services/agent_configs.py).                    *)
(*                                                                         *)
(* One user and two agents: the builtin default, whose model is that of    *)
(* the default connection, and a name under which the user and the admins  *)
(* may each keep a config.  Every read of a store is an action.            *)
(***************************************************************************)
EXTENDS Naturals, FiniteSets

CONSTANTS
  Model,          \* model ids
  AskSlot,        \* the user's requests that may be in flight at once
  MaxAsks,        \* bound: requests of the user in all
  MaxAdminWrites  \* bound: what the admins change

Source == {"default", "own", "shared"}
NoModel == "none"

ASSUME AllowAssumption == NoModel \notin Model /\ MaxAsks \in Nat /\ MaxAdminWrites \in Nat

Only(list) == [restricted |-> TRUE, models |-> list]
Unrestricted == [restricted |-> FALSE, models |-> {}]

VARIABLES
  allowlist, \* the setting, or Unrestricted when it is absent
  role,      \* the user's
  models,    \* the model of the default connection and of the two configs, or NoModel
  ask,       \* the request in each slot
  asks, adminWrites

allowVars == <<allowlist, role, models, ask, asks, adminWrites>>

NoAsk == [at |-> "idle", name |-> "none", model |-> NoModel, fit |-> {}, unlisted |-> {},
          plain |-> FALSE, moved |-> FALSE, lifted |-> FALSE]

AllowInit ==
  /\ allowlist = Unrestricted /\ role = "user"
  /\ models \in [Source -> {NoModel} \cup Model]
  /\ ask = [s \in AskSlot |-> NoAsk]
  /\ asks = 0 /\ adminWrites = 0

\* The models that role_allows_all and is_model_allowed would admit at one instant.
Fit(list, r) == IF r = "admin" \/ list = Unrestricted THEN Model ELSE list.models

\* What the model of a chat comes from.
SourcesOf(name) == IF name = "default" THEN {"default"} ELSE {"own", "shared"}

\* What each request in flight lived through (history): the models that were fit
\* and those that were off the list at some time, whether the user was no admin, what
\* the model comes from was written, or the allowlist cleared.
Lived(asked) == [s \in AskSlot |-> IF asked[s] = NoAsk THEN NoAsk ELSE
  [asked[s] EXCEPT !.fit    = @ \cup Fit(allowlist', role'),
                   !.unlisted = @ \cup (Model \ Fit(allowlist', "user")),
                   !.plain  = @ \/ role' = "user",
                   !.moved  = @ \/ \E c \in SourcesOf(asked[s].name) : models'[c] # models[c],
                   !.lifted = @ \/ (allowlist # Unrestricted /\ allowlist' = Unrestricted)]]

SetAsk(s, next) == ask' = [ask EXCEPT ![s] = next]
To(s, at) == SetAsk(s, [ask[s] EXCEPT !.at = at])
Reading == UNCHANGED <<allowlist, role, models, asks, adminWrites>>

\* A chat or a config request of the user comes in.
BeginAsk(s, name, at, m) ==
  /\ ask[s] = NoAsk /\ asks < MaxAsks /\ asks' = asks + 1
  /\ SetAsk(s, [NoAsk EXCEPT !.at = at, !.name = name, !.model = m,
                           !.fit = Fit(allowlist, role), !.plain = (role = "user"),
                           !.unlisted = Model \ Fit(allowlist, "user")])
  /\ UNCHANGED <<allowlist, role, models, adminWrites>>
AskChat(s)   == \E name \in {"default", "helper"} : BeginAsk(s, name, "load", NoModel)
AskConfig(s) == \E m \in Model : BeginAsk(s, "save", "role", m)

\* load_spec: the user's config, else the admins', and llm_model_name for the default;
\* without a spec there is nothing to check.
LoadOwn(s) == LET source == IF ask[s].name = "default" THEN "default" ELSE "own" IN
  /\ ask[s].at = "load" /\ Reading
  /\ IF source = "own" /\ models[source] = NoModel THEN To(s, "load shared")
     ELSE SetAsk(s, [ask[s] EXCEPT !.at = "role", !.model = models[source]])

LoadShared(s) ==
  /\ ask[s].at = "load shared" /\ Reading
  /\ IF models["shared"] = NoModel THEN To(s, "resolve")
     ELSE SetAsk(s, [ask[s] EXCEPT !.at = "role", !.model = models["shared"]])

\* Where an admitted request goes: the registry, or the config's store.
Admitted(s) == To(s, IF ask[s].name = "save" THEN "put" ELSE "resolve")

\* get_user and role_allows_all; a default without a connection is not checked.
ReadRole(s) ==
  /\ ask[s].at = "role" /\ Reading
  /\ IF role = "admin" \/ ask[s].model = NoModel THEN Admitted(s) ELSE To(s, "restricted")

\* A mutant of ReadRestricted: an empty list counts as none.
ReadNonEmpty(s) ==
  /\ ask[s].at = "restricted" /\ Reading
  /\ IF allowlist.models = {} THEN Admitted(s) ELSE To(s, "list")

\* is_restricted.
ReadRestricted(s) ==
  /\ ask[s].at = "restricted" /\ Reading
  /\ IF ~allowlist.restricted THEN Admitted(s) ELSE To(s, "list")

\* A mutant of ReadList: the list is of what is forbidden.
ReadInverse(s) ==
  /\ ask[s].at = "list" /\ Reading
  /\ IF ask[s].model \notin allowlist.models THEN Admitted(s)
     ELSE To(s, "denied")

\* get_allowed_models, a second read: no list reads as an empty one.
ReadList(s) ==
  /\ ask[s].at = "list" /\ Reading
  /\ IF ask[s].model \in allowlist.models THEN Admitted(s)
     ELSE To(s, "denied")

\* AgentRegistry.resolve loads the spec again (in two reads): the graph is that of this
\* one; 404 and 503 when there is none.
Resolve(s) == LET source == IF ask[s].name = "default" THEN "default"
                            ELSE IF models["own"] # NoModel THEN "own" ELSE "shared" IN
  /\ ask[s].at = "resolve" /\ Reading
  /\ IF ask[s].name = "helper" /\ source = "shared" THEN To(s, "resolve shared")
     ELSE SetAsk(s, [ask[s] EXCEPT !.model = models[source],
                                 !.at = IF models[source] = NoModel THEN "refused" ELSE "granted"])

ResolveShared(s) ==
  /\ ask[s].at = "resolve shared" /\ Reading
  /\ SetAsk(s, [ask[s] EXCEPT !.model = models["shared"],
                            !.at = IF models["shared"] = NoModel THEN "refused" ELSE "granted"])

\* create_config and update_config.
PutOwn(s) ==
  /\ ask[s].at = "put"
  /\ models' = [models EXCEPT !["own"] = ask[s].model]
  /\ UNCHANGED <<allowlist, role, asks, adminWrites>>
  /\ ask' = Lived([ask EXCEPT ![s].at = "granted"])

EndAsk(s) ==
  /\ ask[s].at \in {"granted", "refused", "denied"} /\ Reading
  /\ SetAsk(s, NoAsk)

DeleteOwn ==
  /\ models["own"] # NoModel
  /\ models' = [models EXCEPT !["own"] = NoModel]
  /\ UNCHANGED <<allowlist, role, asks, adminWrites>>
  /\ ask' = Lived(ask)

AdminWrites ==
  /\ adminWrites < MaxAdminWrites /\ adminWrites' = adminWrites + 1
  /\ ask' = Lived(ask) /\ UNCHANGED asks

\* PUT /allowed-models.
SetAllowed ==
  /\ \E some \in SUBSET Model : allowlist' = Only(some)
  /\ UNCHANGED <<role, models>> /\ AdminWrites

\* DELETE /allowed-models; its read of is_restricted decides nothing the delete does not.
ClearAllowed ==
  /\ allowlist' = Unrestricted
  /\ UNCHANGED <<role, models>> /\ AdminWrites

\* PATCH /users, of the role.
ChangeRole ==
  /\ \E r \in {"user", "admin"} : role' = r
  /\ UNCHANGED <<allowlist, models>> /\ AdminWrites

\* A global config, which is not checked, and the default connection.
ChangeModel ==
  /\ \E c \in {"default", "shared"}, m \in Model \cup {NoModel} : models' = [models EXCEPT ![c] = m]
  /\ UNCHANGED <<allowlist, role>> /\ AdminWrites

AllowNext ==
  \/ \E s \in AskSlot :
       \/ AskChat(s) \/ AskConfig(s) \/ EndAsk(s)
       \/ LoadOwn(s) \/ LoadShared(s) \/ ReadRole(s) \/ ReadRestricted(s) \/ ReadList(s)
       \/ Resolve(s) \/ ResolveShared(s) \/ PutOwn(s)
  \/ DeleteOwn \/ SetAllowed \/ ClearAllowed \/ ChangeRole \/ ChangeModel

AllowSpec == AllowInit /\ [][AllowNext]_allowVars

-----------------------------------------------------------------------------

\* A chat gets a graph, and a config is stored, only for a model that the user could
\* use at some time while the request was in flight; only a config or a default
\* connection that is written meanwhile gets past the check, since the registry loads
\* the spec once more after it (_resolve_agent, _check_model_allowed).
GrantsWereFit == \A s \in AskSlot :
  ask[s].at = "granted" => \/ ask[s].model \in ask[s].fit
                           \/ ask[s].name # "save" /\ ask[s].moved

\* A 403 is given only to a user who was no admin, for a model that was off the list,
\* each at some time while the request was in flight; only when the allowlist is
\* cleared between its two reads may a model be denied that was on it all the time
\* (is_model_allowed).
DenialsWereDue == \A s \in AskSlot :
  ask[s].at = "denied" => ask[s].plain /\ (ask[s].lifted \/ ask[s].model \in ask[s].unlisted)
=============================================================================
