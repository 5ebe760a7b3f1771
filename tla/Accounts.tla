------------------------------- MODULE Accounts -------------------------------
(***************************************************************************)
(* The rows of UserStore (core/database.py), the requests that change them *)
(* (api/v1/endpoints/auth.py, authorised by core/dependencies.py) and the  *)
(* start of the app, which seeds or promotes the default admin.            *)
(*                                                                         *)
(* The author of a request is read in one statement and the target changed *)
(* in a later one: two actions.                                            *)
(***************************************************************************)
EXTENDS Naturals, FiniteSets

CONSTANTS
  Account,      \* usernames
  Root,         \* settings.default_admin_username
  AccountSlot,  \* the requests of admins that may be in flight at once
  MaxAccountRequests \* bound: requests of admins in all

ASSUME AccountAssumption == Root \in Account /\ MaxAccountRequests \in Nat

VARIABLES
  durable,   \* the rows are in Postgres, not in memory
  users,     \* the row of each username, or Unknown
  authed,    \* the request in each slot, once its author is known to be an admin
  stale,     \* history: a request changed a row when its author was no longer an
             \* enabled admin
  accountRequests

accountVars == <<durable, users, authed, stale, accountRequests>>

Row == [role : {"admin", "user"}, disabled : BOOLEAN]
Unknown == [role |-> "none", disabled |-> FALSE]
NewRow(role) == [role |-> role, disabled |-> FALSE]
NoAuthor == "nobody"
Unauthed == [by |-> NoAuthor, op |-> "none", target |-> NoAuthor, role |-> "keep", disabled |-> "keep"]

EnabledAdmin(u) == users[u].role = "admin" /\ ~users[u].disabled

\* ensure_default_admin: an account of that name becomes an admin, enabled or not;
\* without one an empty table gets it.
EnsureDefaultAdmin(rows) ==
  IF rows[Root] # Unknown THEN [rows EXCEPT ![Root].role = "admin"]
  ELSE IF \E u \in Account : rows[u] # Unknown THEN rows
  ELSE [rows EXCEPT ![Root] = NewRow("admin")]

Empty == [u \in Account |-> Unknown]

AccountInit ==
  /\ durable \in BOOLEAN
  /\ users = EnsureDefaultAdmin(Empty)
  /\ authed = [s \in AccountSlot |-> Unauthed]
  /\ stale = FALSE /\ accountRequests = 0

\* The app starts again: requests are lost, and rows in memory.
RestartApp ==
  /\ users' = EnsureDefaultAdmin(IF durable THEN users ELSE Empty)
  /\ authed' = [s \in AccountSlot |-> Unauthed]
  /\ UNCHANGED <<durable, stale, accountRequests>>

\* POST /register.
RegisterUser(u) ==
  /\ users[u] = Unknown
  /\ users' = [users EXCEPT ![u] = NewRow("user")]
  /\ UNCHANGED <<durable, authed, stale, accountRequests>>

\* get_admin_user.
Authorize(s, by, op, target, role, disabled) ==
  /\ authed[s] = Unauthed /\ EnabledAdmin(by)
  /\ accountRequests < MaxAccountRequests /\ accountRequests' = accountRequests + 1
  /\ authed' = [authed EXCEPT ![s] =
       [by |-> by, op |-> op, target |-> target, role |-> role, disabled |-> disabled]]
  /\ UNCHANGED <<durable, users, stale>>

\* A mutant of BeginPatch: only the role is looked at.
BeginPatchRole(s, by, target, role, disabled) ==
  /\ ~(target = by /\ role = "user")
  /\ Authorize(s, by, "patch", target, role, disabled)

\* PATCH /users/{username}: not a demotion or a disabling of oneself.
BeginPatch(s, by, target, role, disabled) ==
  /\ ~(target = by /\ (role = "user" \/ disabled = "yes"))
  /\ Authorize(s, by, "patch", target, role, disabled)

\* DELETE /users/{username}: not oneself.
BeginDelete(s, by, target) ==
  /\ target # by
  /\ Authorize(s, by, "delete", target, "keep", "keep")

\* POST /users, with a role.
BeginCreate(s, by, target, role) == Authorize(s, by, "create", target, role, "keep")

Finished(s) ==
  /\ authed' = [authed EXCEPT ![s] = Unauthed]
  /\ stale' = (stale \/ (users' # users /\ ~EnabledAdmin(authed[s].by)))
  /\ UNCHANGED <<durable, accountRequests>>

\* UPDATE users SET ... WHERE username; 404 when the row has gone.
ApplyPatch(s) == LET r == authed[s] IN
  /\ r.op = "patch"
  /\ users' = IF users[r.target] = Unknown THEN users
              ELSE [users EXCEPT ![r.target] =
                     [role |-> IF r.role = "keep" THEN @.role ELSE r.role,
                      disabled |-> IF r.disabled = "keep" THEN @.disabled ELSE r.disabled = "yes"]]
  /\ Finished(s)

\* The row goes first; what the user stored is purged after it.
ApplyDelete(s) ==
  /\ authed[s].op = "delete"
  /\ users' = [users EXCEPT ![authed[s].target] = Unknown]
  /\ Finished(s)

\* ON CONFLICT DO NOTHING.
ApplyCreate(s) ==
  /\ authed[s].op = "create"
  /\ users' = IF users[authed[s].target] = Unknown
              THEN [users EXCEPT ![authed[s].target] = NewRow(authed[s].role)] ELSE users
  /\ Finished(s)

AccountNext ==
  \/ RestartApp
  \/ \E u \in Account : RegisterUser(u)
  \/ \E s \in AccountSlot :
       \/ ApplyPatch(s) \/ ApplyDelete(s) \/ ApplyCreate(s)
       \/ \E by, target \in Account :
            \/ BeginDelete(s, by, target)
            \/ \E role \in {"admin", "user"} : BeginCreate(s, by, target, role)
            \/ \E role \in {"keep", "admin", "user"}, disabled \in {"keep", "yes", "no"} :
                 BeginPatch(s, by, target, role, disabled)

AccountSpec == AccountInit /\ [][AccountNext]_accountVars

-----------------------------------------------------------------------------
\* Somebody can always manage the accounts: the guards against changing oneself
\* (endpoints/auth.py:209-212, 251) leave the author of a change an enabled admin,
\* so only a change by an author who was demoted, disabled or deleted after its
\* request was authorised can remove the last one; and no restart does.
AnAdminRemains == stale \/ \E u \in Account : EnabledAdmin(u)
=============================================================================
