----------------------------- MODULE AppSettings -----------------------------
(***************************************************************************)
(* The `execute` setting: its row in AppSettingsStore (core/database.py),  *)
(* the process's copy and the values it gives (services/settings.py), and  *)
(* PUT /settings (api/v1/endpoints/settings.py).  The `hitl` setting is    *)
(* handled the same way, with one field.                                   *)
(***************************************************************************)
EXTENDS Naturals, FiniteSets

CONSTANTS
  Putter,   \* the requests that may be in flight at once
  Env,      \* the values of the environment: EXECUTE_ENABLED and the two others
  MaxPuts   \* bound: requests in all

Flag  == {"enabled", "inherit_env"}
Field == Flag \cup {"max_timeout"}
None  == "None"
Value(f) == IF f \in Flag THEN {"on", "off"} ELSE {"short", "long"}
NoRow == [f \in {} |-> None]

VARIABLES
  stored,  \* the row: a value or None for every field, or NoRow
  cache,   \* _cache["execute"]
  put,     \* the request in each slot
  puts,
  given    \* history: the last value that a request gave for each field, or the
           \* environment's

settingsVars == <<stored, cache, put, puts, given>>

Idle == [at |-> "idle", value |-> NoRow]

SettingsInit ==
  /\ stored = NoRow /\ cache = NoRow
  /\ put = [s \in Putter |-> Idle] /\ puts = 0
  /\ given = Env

\* execute_enabled, execute_max_timeout, execute_inherit_env: a field the row has is
\* used, a None as False, but for the timeout.
Effective(f) ==
  IF f \notin DOMAIN cache THEN Env[f]
  ELSE IF cache[f] # None THEN cache[f]
  ELSE IF f \in Flag THEN "off" ELSE Env[f]

\* put_settings: a field the body leaves out takes the value of the row, None when
\* there is no row.  (A body without a field is left out here.)
PutSettings(s) == \E some \in SUBSET Field \ {{}} :
                  \E body \in [some -> UNION {Value(f) : f \in Field}] :
  /\ put[s] = Idle /\ puts < MaxPuts /\ puts' = puts + 1
  /\ \A f \in some : body[f] \in Value(f)
  /\ put' = [put EXCEPT ![s] = [at |-> "set", value |->
       [f \in Field |-> IF f \in some THEN body[f]
                        ELSE IF f \in DOMAIN cache THEN cache[f] ELSE None]]]
  /\ given' = [f \in Field |-> IF f \in some THEN body[f] ELSE given[f]]
  /\ UNCHANGED <<stored, cache>>

\* update_app_setting: the upsert.
StoreSetting(s) ==
  /\ put[s].at = "set"
  /\ stored' = put[s].value
  /\ put' = [put EXCEPT ![s].at = "refresh"]
  /\ UNCHANGED <<cache, puts, given>>

\* The copy takes the value, and refresh_app_settings clears it, before the list is
\* awaited.
ClearCache(s) ==
  /\ put[s].at = "refresh"
  /\ cache' = NoRow
  /\ put' = [put EXCEPT ![s].at = "list"]
  /\ UNCHANGED <<stored, puts, given>>

ListSettings(s) ==
  /\ put[s].at = "list"
  /\ put' = [put EXCEPT ![s] = [at |-> "fill", value |-> stored]]
  /\ UNCHANGED <<stored, cache, puts, given>>

FillCache(s) ==
  /\ put[s].at = "fill"
  /\ cache' = put[s].value
  /\ put' = [put EXCEPT ![s] = Idle]
  /\ UNCHANGED <<stored, puts, given>>

SettingsNext == \E s \in Putter :
  PutSettings(s) \/ StoreSetting(s) \/ ClearCache(s) \/ ListSettings(s) \/ FillCache(s)

SettingsSpec == SettingsInit /\ [][SettingsNext]_settingsVars

-----------------------------------------------------------------------------
\* "PUT /settings - partial update; unset fields keep their current value"
\* (docs/api-reference.md:120): with no request in flight, each field has the value
\* it was last given, by a request or by the environment.
UnsetFieldsKeepTheirValue ==
  (\A s \in Putter : put[s] = Idle) => \A f \in Field : Effective(f) = given[f]
=============================================================================
