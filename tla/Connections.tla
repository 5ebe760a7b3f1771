----------------------------- MODULE Connections -----------------------------
(***************************************************************************)
(* Provider connections: the rows of ConnectionStore (core/database.py),   *)
(* the default of each kind that services/connections.py keeps resolved in *)
(* the process, and the admin requests that write the rows and resolve     *)
(* again (api/v1/endpoints/connections.py).                                *)
(*                                                                         *)
(* Under Postgres every statement is an await: an action is a statement,   *)
(* and the answer of a query is used one step later.  A row's contents are *)
(* the number of the write that made them.                                 *)
(***************************************************************************)
EXTENDS Naturals, Sequences, FiniteSets

CONSTANTS
  Name,       \* the names of connections
  Admin,      \* the admin requests that may be in flight at once
  Body,       \* bound: the kinds and flags that requests bring
  MaxWrites   \* bound: writes of rows

Resolved == <<"llm", "embeddings">>   \* RESOLVED_KINDS, in this order
Kind == {"llm", "embeddings"}

ASSUME ConnAssumption ==
  /\ MaxWrites \in Nat
  /\ Body \subseteq [kind : Kind, default : BOOLEAN, enabled : BOOLEAN]

VARIABLES
  conns,     \* the row of each name, or Absent
  resolved,  \* _resolved: the contents of the default of each kind, 0 for none
  adm,       \* the request in each slot
  writes,    \* the rows written so far
  spoiled,   \* history: a request ended after a write and before it had resolved
  raced      \* history: the writes of two requests crossed

connVars == <<conns, resolved, adm, writes, spoiled, raced>>

Absent == [kind |-> "none", default |-> FALSE, enabled |-> FALSE, rev |-> 0, born |-> 0]
Free   == [op |-> "none", at |-> "idle", name |-> "none", kind |-> "none",
           default |-> FALSE, enabled |-> FALSE, step |-> 1, answer |-> 0]

Exists(n) == conns[n] # Absent

\* get_default: enabled, is_default first, then the first created.
Better(n, m) == \/ conns[n].default /\ ~conns[m].default
                \/ conns[n].default = conns[m].default /\ conns[n].born <= conns[m].born
GetDefault(k) ==
  LET fit == {n \in Name : conns[n].kind = k /\ conns[n].enabled} IN
  IF fit = {} THEN 0
  ELSE conns[CHOOSE n \in fit : \A m \in fit : Better(n, m)].rev

ConnInit ==
  /\ conns = [n \in Name |-> Absent]
  /\ resolved = [k \in Kind |-> 0]
  /\ adm = [s \in Admin |-> Free]
  /\ writes = 0 /\ spoiled = FALSE /\ raced = FALSE

Move(s, at) == adm' = [adm EXCEPT ![s].at = at]
Leave(s)    == adm' = [adm EXCEPT ![s] = Free]

-----------------------------------------------------------------------------
\* POST, PUT and DELETE /connections: the two last have found the row.
Begin(s, op, n) ==
  /\ adm[s] = Free
  /\ writes + Cardinality({o \in Admin : adm[o] # Free}) < MaxWrites
  /\ op # "create" => Exists(n)
  /\ \E b \in (IF op = "delete" THEN {[kind |-> conns[n].kind, default |-> FALSE,
                                      enabled |-> FALSE]} ELSE Body) :
       adm' = [adm EXCEPT ![s] =
         [Free EXCEPT !.op = op, !.name = n, !.kind = b.kind, !.default = b.default,
                      !.enabled = b.enabled,
                      !.at = IF op = "update" THEN "get" ELSE IF b.default THEN "clear" ELSE "write"]]
  /\ UNCHANGED <<conns, resolved, writes, spoiled, raced>>

\* ConnectionStore.update looks for the row again; without it the endpoint resolves
\* all the same, and then fails.
GetAgain(s) ==
  /\ adm[s].at = "get"
  /\ Move(s, IF ~Exists(adm[s].name) THEN "ask"
             ELSE IF adm[s].default THEN "clear" ELSE "write")
  /\ UNCHANGED <<conns, resolved, writes, spoiled, raced>>

\* _clear_default: the other connections of the kind.
ClearDefault(s) ==
  /\ adm[s].at = "clear"
  /\ conns' = [n \in Name |->
       [conns[n] EXCEPT !.default = @ /\ (n = adm[s].name \/ conns[n].kind # adm[s].kind)]]
  /\ Move(s, "write")
  /\ UNCHANGED <<resolved, writes, spoiled, raced>>

\* Two writes of defaults cross when each cleared before either wrote; a write
\* crosses a resolution that has its answer and has not stored it.
Crosses(s) == \E o \in Admin \ {s} :
  \/ adm[o].at = "told"
  \/ adm[s].default /\ adm[o].default /\ adm[o].at = "write"

\* INSERT ... ON CONFLICT DO NOTHING, UPDATE ... WHERE name, DELETE.  A conflict is a
\* 409 at once, with the other defaults cleared and nothing resolved.
WriteRow(s) ==
  /\ adm[s].at = "write"
  /\ LET r == adm[s]
         row == [kind |-> r.kind, default |-> r.default, enabled |-> r.enabled,
                 rev |-> writes + 1,
                 born |-> IF r.op = "create" THEN writes + 1 ELSE conns[r.name].born] IN
     \/ /\ r.op = "create" /\ Exists(r.name)
        /\ spoiled' = (spoiled \/ r.default)
        /\ Leave(s) /\ UNCHANGED <<conns, writes, raced>>
     \/ /\ r.op # "delete" /\ (r.op = "update" <=> Exists(r.name))
        /\ conns' = [conns EXCEPT ![r.name] = row] /\ writes' = writes + 1
        /\ raced' = (raced \/ Crosses(s))
        /\ Move(s, "ask") /\ UNCHANGED spoiled
     \/ /\ r.op = "delete" \/ (r.op = "update" /\ ~Exists(r.name))
        /\ conns' = [conns EXCEPT ![r.name] = Absent] /\ writes' = writes + 1
        /\ raced' = (raced \/ Crosses(s))
        /\ Move(s, "ask") /\ UNCHANGED spoiled
  /\ UNCHANGED resolved

\* refresh_resolved_connections, kind by kind: the query, and its answer stored.  A
\* query that fails ends the request.
AskDefault(s) ==
  /\ adm[s].at = "ask"
  /\ \/ /\ adm' = [adm EXCEPT ![s].at = "told", ![s].answer = GetDefault(Resolved[adm[s].step])]
        /\ UNCHANGED spoiled
     \/ Leave(s) /\ spoiled' = TRUE
  /\ UNCHANGED <<conns, resolved, writes, raced>>

LastKind(s) == adm[s].step = Len(Resolved)

\* A mutant of StoreDefault: the kinds after the first are left as they were.
StoreFirstDefault(s) ==
  /\ adm[s].at = "told"
  /\ resolved' = IF adm[s].step = 1
                 THEN [resolved EXCEPT ![Resolved[adm[s].step]] = adm[s].answer] ELSE resolved
  /\ IF LastKind(s) THEN Leave(s)
     ELSE adm' = [adm EXCEPT ![s].at = "ask", ![s].step = @ + 1, ![s].answer = 0]
  /\ UNCHANGED <<conns, writes, spoiled, raced>>

\* After the last kind the request is done: graphs and vector store are dropped in
\* the same step (_mutated).
StoreDefault(s) ==
  /\ adm[s].at = "told"
  /\ resolved' = [resolved EXCEPT ![Resolved[adm[s].step]] = adm[s].answer]
  /\ IF LastKind(s) THEN Leave(s)
     ELSE adm' = [adm EXCEPT ![s].at = "ask", ![s].step = @ + 1, ![s].answer = 0]
  /\ UNCHANGED <<conns, writes, spoiled, raced>>

BeginAny(s) == \E n \in Name, op \in {"create", "update", "delete"} : Begin(s, op, n)

ConnNext == \E s \in Admin :
  \/ BeginAny(s) \/ GetAgain(s) \/ ClearDefault(s) \/ WriteRow(s)
  \/ AskDefault(s) \/ StoreDefault(s)

ConnSpec == ConnInit /\ [][ConnNext]_connVars

-----------------------------------------------------------------------------
AdminsIdle == \A s \in Admin : adm[s] = Free

\* When no admin request is in flight, each kind has one default at most, and the
\* process uses the connection that the table makes the default
\* (services/connections.py:25, core/database.py:827), whatever order of overlapping
\* requests led there, unless two of them crossed between a statement and the use
\* of what it found, a create met its name taken, or a query failed.
ResolvedIsTheDefault == AdminsIdle /\ ~spoiled /\ ~raced => \A k \in Kind :
  /\ Cardinality({n \in Name : conns[n].kind = k /\ conns[n].default}) <= 1
  /\ resolved[k] = GetDefault(k)
=============================================================================
