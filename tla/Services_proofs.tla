--------------------------- MODULE Services_proofs ---------------------------
(***************************************************************************)
(* What holds of the small services, each for any number of requests,      *)
(* clients, files and crashes: the admins (Accounts), the models a chat    *)
(* may run on (ModelAllowlist), the preferences (Preferences), the logins  *)
(* (LoginLimiter), the start and its migrations (Startup), and the         *)
(* notifications (NotificationHub).                                        *)
(*                                                                         *)
(* None of the properties is inductive by itself.  A request in flight     *)
(* acts on what it read before its last await, and the invariants say what *)
(* it still knows: NotOneself, Knows, ClearingsAreCurrent, and the room    *)
(* that LoginInv keeps for the logins past the check.  A start is proved   *)
(* by how far it has got, FilesInOrder and the pages of the migrations;    *)
(* the hub by what its ring holds, RingIsLast, which makes a replay the    *)
(* rest of what a client has missed.                                       *)
(***************************************************************************)
EXTENDS Accounts, ModelAllowlist, Preferences, LoginLimiter, Startup, NotificationHub,
        FiniteSetTheorems, SequenceTheorems, TLAPS

-----------------------------------------------------------------------------
(* An enabled admin remains.  That the author of a request survives it     *)
(* rests on what BeginPatch and BeginDelete refused when it was authorised;*)
(* NotOneself carries that to the moment the row is written.               *)

Roles == {"admin", "user"}
AccountRequest ==
  [by : Account, op : {"patch", "delete", "create"}, target : Account,
   role : Roles \cup {"keep"}, disabled : {"keep", "yes", "no"}]

AccountTypeOK ==
  /\ users \in [Account -> Row \cup {Unknown}]
  /\ authed \in [AccountSlot -> AccountRequest \cup {Unauthed}]
  /\ stale \in BOOLEAN

NotOneself == \A s \in AccountSlot :
  /\ authed[s].op \in {"patch", "delete"} /\ authed[s].target = authed[s].by
       => authed[s].op = "patch" /\ authed[s].role # "user" /\ authed[s].disabled # "yes"
  /\ authed[s].op = "create" => authed[s].role # "keep"

AccountInv == AccountTypeOK /\ NotOneself /\ AnAdminRemains

-----------------------------------------------------------------------------
\* The start of the app leaves well-formed rows, keeps an enabled admin there is,
\* and seeds one into an empty table (ensure_default_admin, database.py:1291-1325).
LEMMA SeedKeepsAnAdmin ==
  ASSUME NEW rows \in [Account -> Row \cup {Unknown}]
  PROVE  /\ EnsureDefaultAdmin(rows) \in [Account -> Row \cup {Unknown}]
         /\ ((\E u \in Account : rows[u].role = "admin" /\ ~rows[u].disabled)
               \/ rows = Empty)
            => \E u \in Account : /\ EnsureDefaultAdmin(rows)[u].role = "admin"
                                  /\ ~EnsureDefaultAdmin(rows)[u].disabled
<1> DEFINE new == EnsureDefaultAdmin(rows)
<1>0. Root \in Account
  BY AccountAssumption
<1>1. CASE rows[Root] # Unknown
  <2>1. new = [rows EXCEPT ![Root].role = "admin"]
    BY <1>1 DEF EnsureDefaultAdmin
  <2>2. rows[Root] \in Row
    BY <1>0, <1>1
  <2>3. new \in [Account -> Row \cup {Unknown}]
    BY <1>0, <2>1, <2>2 DEF Row
  <2>4. rows # Empty
    BY <1>0, <1>1 DEF Empty
  <2>5. ASSUME NEW u \in Account, rows[u].role = "admin", ~rows[u].disabled
        PROVE  new[u].role = "admin" /\ ~new[u].disabled
    BY <1>0, <2>1, <2>2, <2>5 DEF Row
  <2> QED BY <2>3, <2>4, <2>5
<1>2. CASE rows[Root] = Unknown /\ \E u \in Account : rows[u] # Unknown
  <2>1. new = rows
    BY <1>2 DEF EnsureDefaultAdmin
  <2>2. rows # Empty
    BY <1>2 DEF Empty
  <2> QED BY <2>1, <2>2
<1>3. CASE \A u \in Account : rows[u] = Unknown
  <2>1. new = [rows EXCEPT ![Root] = NewRow("admin")]
    BY <1>0, <1>3 DEF EnsureDefaultAdmin
  <2>2. NewRow("admin") \in Row /\ NewRow("admin").role = "admin" /\ ~NewRow("admin").disabled
    BY DEF NewRow, Row
  <2> QED BY <1>0, <2>1, <2>2
<1> QED BY <1>1, <1>2, <1>3, <1>0

\* The first start of the app: one enabled admin, no request.
LEMMA AccountInitHolds == AccountInit => AccountInv
<1> SUFFICES ASSUME AccountInit PROVE AccountInv
  OBVIOUS
<1>1. Empty \in [Account -> Row \cup {Unknown}]
  BY DEF Empty
<1>2. /\ users \in [Account -> Row \cup {Unknown}]
      /\ \E u \in Account : EnabledAdmin(u)
  BY <1>1, SeedKeepsAnAdmin DEF AccountInit, EnabledAdmin
<1>3. AccountTypeOK
  BY <1>2 DEF AccountInit, AccountTypeOK
<1>4. NotOneself
  BY DEF AccountInit, NotOneself, Unauthed, NoAuthor
<1> QED BY <1>2, <1>3, <1>4 DEF AccountInv, AnAdminRemains

\* A request is authorised: its author is an account, and a refusal of changes to
\* oneself is all the later write relies on.
LEMMA AuthorizeHolds ==
  ASSUME AccountInv, NEW s \in AccountSlot, NEW by \in Account, NEW target \in Account,
         NEW op \in {"patch", "delete", "create"},
         NEW rank \in Roles \cup {"keep"}, NEW disabled \in {"keep", "yes", "no"},
         Authorize(s, by, op, target, rank, disabled),
         op = "patch" /\ target = by => rank # "user" /\ disabled # "yes",
         op = "delete" => target # by,
         op = "create" => rank # "keep"
  PROVE  AccountInv'
<1> DEFINE r == [by |-> by, op |-> op, target |-> target, role |-> rank, disabled |-> disabled]
<1>1. /\ authed' = [authed EXCEPT ![s] = r]
      /\ users' = users /\ stale' = stale
  BY DEF Authorize
<1>2. AccountTypeOK'
  BY <1>1 DEF AccountInv, AccountTypeOK, AccountRequest
<1>3. \A t \in AccountSlot : authed'[t] = IF t = s THEN r ELSE authed[t]
  BY <1>1 DEF AccountInv, AccountTypeOK
<1>4. NotOneself'
  BY <1>3 DEF AccountInv, NotOneself
<1>5. AnAdminRemains'
  BY <1>1 DEF AccountInv, AnAdminRemains, EnabledAdmin
<1> QED BY <1>2, <1>4, <1>5 DEF AccountInv

\* The row is written: when its author still is an enabled admin it is one
\* afterwards, and when it is not the change counts as stale.
LEMMA WriteHolds ==
  ASSUME AccountInv, NEW s \in AccountSlot,
         users' \in [Account -> Row \cup {Unknown}], Finished(s),
         authed[s].by \in Account,
         EnabledAdmin(authed[s].by)
           => users'[authed[s].by].role = "admin" /\ ~users'[authed[s].by].disabled
  PROVE  AccountInv'
<1>1. /\ authed' = [authed EXCEPT ![s] = Unauthed]
      /\ stale' = (stale \/ (users' # users /\ ~EnabledAdmin(authed[s].by)))
  BY DEF Finished
<1>2. AccountTypeOK'
  BY <1>1 DEF AccountInv, AccountTypeOK
<1>3. \A t \in AccountSlot : authed'[t] = IF t = s THEN Unauthed ELSE authed[t]
  BY <1>1 DEF AccountInv, AccountTypeOK
<1>4. NotOneself'
  BY <1>3 DEF AccountInv, NotOneself, Unauthed
<1>5. AnAdminRemains'
  <2>1. CASE users' = users
    BY <2>1, <1>1 DEF AccountInv, AnAdminRemains, EnabledAdmin
  <2>2. CASE users' # users /\ ~EnabledAdmin(authed[s].by)
    BY <2>2, <1>1 DEF AnAdminRemains
  <2>3. CASE users' # users /\ EnabledAdmin(authed[s].by)
    BY <2>3 DEF AnAdminRemains, EnabledAdmin
  <2> QED BY <2>1, <2>2, <2>3
<1> QED BY <1>2, <1>4, <1>5 DEF AccountInv

-----------------------------------------------------------------------------
\* A step of the app keeps the invariant.
LEMMA AccountStepHolds == AccountInv /\ [AccountNext]_accountVars => AccountInv'
<1> SUFFICES ASSUME AccountInv, [AccountNext]_accountVars PROVE AccountInv'
  OBVIOUS
<1>0. AccountTypeOK /\ NotOneself /\ AnAdminRemains
  BY DEF AccountInv
<1>1. CASE RestartApp
  <2>1. Empty \in [Account -> Row \cup {Unknown}]
    BY DEF Empty
  <2>2. /\ users' \in [Account -> Row \cup {Unknown}]
        /\ ~durable => \E u \in Account : EnabledAdmin(u)'
    BY <1>0, <1>1, <2>1, SeedKeepsAnAdmin DEF RestartApp, AccountTypeOK, EnabledAdmin
  <2>3. durable /\ (\E u \in Account : EnabledAdmin(u)) => \E u \in Account : EnabledAdmin(u)'
    BY <1>0, <1>1, SeedKeepsAnAdmin DEF RestartApp, AccountTypeOK, EnabledAdmin
  <2>4. AnAdminRemains'
    BY <1>0, <1>1, <2>2, <2>3 DEF RestartApp, AnAdminRemains
  <2>5. AccountTypeOK'
    BY <1>0, <1>1, <2>2 DEF RestartApp, AccountTypeOK
  <2>6. NotOneself'
    BY <1>1 DEF RestartApp, NotOneself, Unauthed
  <2> QED BY <2>4, <2>5, <2>6 DEF AccountInv
<1>2. ASSUME NEW u \in Account, RegisterUser(u)
      PROVE  AccountInv'
  <2>1. /\ users[u] = Unknown /\ users' = [users EXCEPT ![u] = NewRow("user")]
        /\ authed' = authed /\ stale' = stale
    BY <1>2 DEF RegisterUser
  <2>2. AccountTypeOK'
    BY <1>0, <2>1 DEF AccountTypeOK, NewRow, Row
  <2>3. NotOneself'
    BY <1>0, <2>1 DEF NotOneself
  <2>4. ASSUME NEW v \in Account, EnabledAdmin(v)
        PROVE  users'[v] = users[v]
    BY <1>0, <2>1, <2>4 DEF AccountTypeOK, EnabledAdmin, Unknown
  <2>5. AnAdminRemains'
    BY <1>0, <2>1, <2>4 DEF AnAdminRemains, EnabledAdmin
  <2> QED BY <2>2, <2>3, <2>5 DEF AccountInv
<1>3. ASSUME NEW s \in AccountSlot, ApplyPatch(s)
      PROVE  AccountInv'
  <2> DEFINE r == authed[s]
  <2>1. r \in AccountRequest /\ r.op = "patch"
    BY <1>0, <1>3 DEF ApplyPatch, AccountTypeOK, Unauthed
  <2>2. r.by \in Account /\ r.target \in Account
    BY <2>1 DEF AccountRequest
  <2>3. CASE users[r.target] = Unknown
    <3>1. users' = users /\ Finished(s)
      BY <1>3, <2>3 DEF ApplyPatch
    <3> QED BY <1>0, <2>2, <3>1, WriteHolds DEF AccountTypeOK, EnabledAdmin
  <2>4. CASE users[r.target] # Unknown
    <3> DEFINE old == users[r.target]
               new == [role |-> IF r.role = "keep" THEN old.role ELSE r.role,
                       disabled |-> IF r.disabled = "keep" THEN old.disabled
                                    ELSE r.disabled = "yes"]
    <3>1. users' = [users EXCEPT ![r.target] = new] /\ Finished(s)
      BY <1>3, <2>4 DEF ApplyPatch
    <3>2. old \in Row
      BY <1>0, <2>2, <2>4 DEF AccountTypeOK
    <3>3. new \in Row
      <4>1. new.role \in {"admin", "user"} /\ new.disabled \in BOOLEAN
        BY <2>1, <3>2 DEF Row, AccountRequest, Roles
      <4> QED BY <4>1 DEF Row
    <3>4. users' \in [Account -> Row \cup {Unknown}]
      BY <1>0, <2>2, <3>1, <3>3 DEF AccountTypeOK
    <3>5. r.target = r.by => r.role # "user" /\ r.disabled # "yes"
      BY <1>0, <2>1 DEF NotOneself
    <3>6. ASSUME EnabledAdmin(r.by)
          PROVE  users'[r.by].role = "admin" /\ ~users'[r.by].disabled
      <4>1. CASE r.target = r.by
        <5>1. users'[r.by] = new
          BY <1>0, <2>2, <3>1, <4>1 DEF AccountTypeOK
        <5>2. old.role = "admin" /\ ~old.disabled
          BY <3>6, <4>1 DEF EnabledAdmin
        <5>3. new.role = "admin"
          BY <2>1, <3>5, <4>1, <5>2 DEF AccountRequest, Roles
        <5>4. ~new.disabled
          BY <3>5, <4>1, <5>2
        <5> QED BY <5>1, <5>3, <5>4
      <4>2. CASE r.target # r.by
        BY <1>0, <2>2, <3>1, <3>6, <4>2 DEF AccountTypeOK, EnabledAdmin
      <4> QED BY <4>1, <4>2
    <3> QED BY <2>2, <3>1, <3>4, <3>6, WriteHolds
  <2> QED BY <2>3, <2>4
<1>4. ASSUME NEW s \in AccountSlot, ApplyDelete(s)
      PROVE  AccountInv'
  <2> DEFINE r == authed[s]
  <2>1. /\ r \in AccountRequest /\ r.op = "delete" /\ Finished(s)
        /\ users' = [users EXCEPT ![r.target] = Unknown]
    BY <1>0, <1>4 DEF ApplyDelete, AccountTypeOK, Unauthed
  <2>2. r.by \in Account /\ r.target \in Account /\ r.target # r.by
    BY <1>0, <2>1 DEF AccountRequest, NotOneself
  <2>3. users' \in [Account -> Row \cup {Unknown}] /\ users'[r.by] = users[r.by]
    BY <1>0, <2>1, <2>2 DEF AccountTypeOK
  <2> QED BY <2>1, <2>2, <2>3, WriteHolds DEF EnabledAdmin
<1>5. ASSUME NEW s \in AccountSlot, ApplyCreate(s)
      PROVE  AccountInv'
  <2> DEFINE r == authed[s]
  <2>1. /\ r \in AccountRequest /\ r.op = "create" /\ Finished(s)
        /\ users' = IF users[r.target] = Unknown
                    THEN [users EXCEPT ![r.target] = NewRow(r.role)] ELSE users
    BY <1>0, <1>5 DEF ApplyCreate, AccountTypeOK, Unauthed
  <2>2. r.by \in Account /\ r.target \in Account /\ r.role \in Roles
    BY <1>0, <2>1 DEF AccountRequest, NotOneself
  <2>3. users' \in [Account -> Row \cup {Unknown}]
    BY <1>0, <2>1, <2>2 DEF AccountTypeOK, NewRow, Row, Roles
  <2>4. EnabledAdmin(r.by) => users'[r.by] = users[r.by]
    BY <1>0, <2>1, <2>2 DEF AccountTypeOK, EnabledAdmin, Unknown
  <2> QED BY <2>1, <2>2, <2>3, <2>4, WriteHolds DEF EnabledAdmin
<1>6. ASSUME NEW s \in AccountSlot, NEW by \in Account, NEW target \in Account,
             BeginDelete(s, by, target)
      PROVE  AccountInv'
  BY <1>6, AuthorizeHolds DEF BeginDelete
<1>7. ASSUME NEW s \in AccountSlot, NEW by \in Account, NEW target \in Account,
             NEW rank \in {"admin", "user"}, BeginCreate(s, by, target, rank)
      PROVE  AccountInv'
  BY <1>7, AuthorizeHolds DEF BeginCreate, Roles
<1>8. ASSUME NEW s \in AccountSlot, NEW by \in Account, NEW target \in Account,
             NEW rank \in {"keep", "admin", "user"}, NEW disabled \in {"keep", "yes", "no"},
             BeginPatch(s, by, target, rank, disabled)
      PROVE  AccountInv'
  BY <1>8, AuthorizeHolds DEF BeginPatch, Roles
<1>9. CASE UNCHANGED accountVars
  BY <1>0, <1>9 DEF accountVars, AccountInv, AccountTypeOK, NotOneself, AnAdminRemains,
                    EnabledAdmin
<1> QED BY <1>1, <1>2, <1>3, <1>4, <1>5, <1>6, <1>7, <1>8, <1>9 DEF AccountNext

\* An enabled admin always remains, unless a change was written by an author who had
\* stopped being one since its request was authorised: for any accounts and any
\* number of requests in flight (endpoints/auth.py:200-253, database.py:1291-1325).
THEOREM AdminTheorem == AccountSpec => []AnAdminRemains
<1>1. AccountInv => AnAdminRemains
  BY DEF AccountInv
<1> QED BY AccountInitHolds, AccountStepHolds, <1>1, PTL DEF AccountSpec

-----------------------------------------------------------------------------
(* The allowlist. *)

Stage == {"load", "load shared", "role", "restricted", "list", "resolve",
          "resolve shared", "put", "granted", "refused", "denied"}
Lists == {Unrestricted} \cup {Only(some) : some \in SUBSET Model}
Asked == [at : Stage \cup {"idle"}, name : {"none", "default", "helper", "save"},
          model : Model \cup {NoModel}, fit : SUBSET Model, unlisted : SUBSET Model,
          plain : BOOLEAN, moved : BOOLEAN, lifted : BOOLEAN]

AllowTypeOK ==
  /\ allowlist \in Lists
  /\ role \in {"user", "admin"}
  /\ models \in [Source -> {NoModel} \cup Model]
  /\ ask \in [AskSlot -> Asked]

\* The model a chat with the agent `name` would run on, of those in `made`.
Effective(name, made) ==
  IF name = "default" THEN made["default"]
  ELSE IF made["own"] # NoModel THEN made["own"] ELSE made["shared"]

\* What a request that got to `at` with the model m knows of the list and the models
\* there are: unless what it loaded was written since, m is what the registry will
\* load, and once it is past the check m was fit.
Knows(r, at, m, list, made) ==
  /\ at \in {"load", "load shared", "resolve", "resolve shared"} => r.name # "save"
  /\ at \in {"load", "load shared"} => m = NoModel
  /\ at \in {"load shared", "resolve shared"} =>
       r.name = "helper" /\ (r.moved \/ made["own"] = NoModel)
  /\ at = "role" /\ r.name # "default" => m \in Model
  /\ at \in {"restricted", "list"} => r.plain /\ m \in Model
  /\ at = "list" => r.lifted \/ list # Unrestricted
  /\ at \in {"role", "restricted", "list", "resolve", "resolve shared"}
       /\ r.name # "save" /\ ~r.moved => m = Effective(r.name, made)
  /\ at \in {"resolve", "resolve shared"} /\ ~r.moved /\ m # NoModel => m \in r.fit
  /\ at = "put" => r.name = "save" /\ m \in r.fit
  /\ at = "granted" => m \in r.fit \/ (r.name # "save" /\ r.moved)
  /\ at = "denied" => r.plain /\ (r.lifted \/ m \in r.unlisted)

\* And what it remembers of the time it is in flight.
AskHolds(r, list, who, made) ==
  /\ r.at \in Stage /\ r.name # "none"
  /\ Fit(list, who) \subseteq r.fit /\ Model \ Fit(list, "user") \subseteq r.unlisted
  /\ who = "user" => r.plain
  /\ Knows(r, r.at, r.model, list, made)

AllowInv ==
  /\ AllowTypeOK
  /\ \A s \in AskSlot : ask[s] = NoAsk \/ AskHolds(ask[s], allowlist, role, models)

\* What Lived makes of a request when `list` and `made` become `next` and `remade`.
LivedThrough(r, list, next, then, made, remade) ==
  [r EXCEPT !.fit = @ \cup Fit(next, then),
            !.unlisted = @ \cup (Model \ Fit(next, "user")),
            !.plain  = @ \/ then = "user",
            !.moved  = @ \/ \E c \in SourcesOf(r.name) : remade[c] # made[c],
            !.lifted = @ \/ (list # Unrestricted /\ next = Unrestricted)]

\* A request outlives what the others write: what it remembers of the time it was in
\* flight grows with the write (is_model_allowed, load_spec).
LEMMA AskSurvivesWrites ==
  ASSUME NEW list \in Lists, NEW next \in Lists,
         NEW who \in {"user", "admin"}, NEW then \in {"user", "admin"},
         NEW made \in [Source -> {NoModel} \cup Model],
         NEW remade \in [Source -> {NoModel} \cup Model],
         NEW r \in Asked, AskHolds(r, list, who, made)
  PROVE  /\ LivedThrough(r, list, next, then, made, remade) \in Asked
         /\ AskHolds(LivedThrough(r, list, next, then, made, remade), next, then, remade)
<1> DEFINE moves == \E c \in SourcesOf(r.name) : remade[c] # made[c]
           lived == LivedThrough(r, list, next, then, made, remade)
<1>1. /\ lived.at = r.at /\ lived.name = r.name /\ lived.model = r.model
      /\ lived.fit = r.fit \cup Fit(next, then)
      /\ lived.unlisted = r.unlisted \cup (Model \ Fit(next, "user"))
      /\ lived.plain = (r.plain \/ then = "user")
      /\ lived.moved = (r.moved \/ moves)
      /\ lived.lifted = (r.lifted \/ (list # Unrestricted /\ next = Unrestricted))
  BY DEF Asked, LivedThrough
<1>2. Fit(next, then) \subseteq Model
  BY DEF Fit, Lists, Only
<1>3. lived \in Asked
  BY <1>2 DEF Asked, LivedThrough
<1>4. ASSUME ~moves
      PROVE  /\ Effective(r.name, remade) = Effective(r.name, made)
             /\ r.name = "helper" => remade["own"] = made["own"]
  BY <1>4 DEF SourcesOf, Effective
<1>5. AskHolds(lived, next, then, remade)
  <2> HIDE DEF lived, moves
  <2>1. /\ Fit(next, then) \subseteq lived.fit /\ Model \ Fit(next, "user") \subseteq lived.unlisted
        /\ then = "user" => lived.plain
    BY <1>1
  <2>2. /\ r.fit \subseteq lived.fit /\ r.unlisted \subseteq lived.unlisted
        /\ r.plain => lived.plain
        /\ r.lifted => lived.lifted
        /\ ~lived.moved => ~r.moved /\ ~moves
        /\ r.moved => lived.moved
    BY <1>1
  <2>3. list # Unrestricted => lived.lifted \/ next # Unrestricted
    BY <1>1
  <2> QED BY <2>1, <2>2, <2>3, <1>1, <1>4 DEF AskHolds, Knows
<1> QED BY <1>3, <1>5

LEMMA NoAskIsIdle == NoAsk.at = "idle"
BY DEF NoAsk

\* A step of a request's own, which reads what there is and writes nothing.
LEMMA AskMoves ==
  ASSUME AllowInv, NEW s \in AskSlot, NEW next \in Asked,
         UNCHANGED <<allowlist, role, models>>, SetAsk(s, next),
         next = NoAsk \/ AskHolds(next, allowlist, role, models)
  PROVE  AllowInv'
<1>1. /\ allowlist' = allowlist /\ role' = role /\ models' = models
      /\ \A t \in AskSlot : ask'[t] = IF t = s THEN next ELSE ask[t]
      /\ ask' \in [AskSlot -> Asked]
  BY DEF AllowInv, AllowTypeOK, SetAsk
<1>2. AllowTypeOK'
  BY <1>1 DEF AllowInv, AllowTypeOK
<1>3. \A t \in AskSlot : ask'[t] = NoAsk \/ AskHolds(ask'[t], allowlist', role', models')
  BY <1>1 DEF AllowInv
<1> QED BY <1>2, <1>3 DEF AllowInv

\* A write of another's, which every request in flight lives through.
LEMMA WriteMoves ==
  ASSUME AllowTypeOK, NEW asked \in [AskSlot -> Asked],
         \A t \in AskSlot : asked[t] = NoAsk \/ AskHolds(asked[t], allowlist, role, models),
         allowlist' \in Lists, role' \in {"user", "admin"},
         models' \in [Source -> {NoModel} \cup Model], ask' = Lived(asked)
  PROVE  AllowInv'
<1>1. ASSUME NEW t \in AskSlot, asked[t] = NoAsk
      PROVE  ask'[t] = NoAsk
  BY <1>1 DEF Lived
<1>2. ASSUME NEW t \in AskSlot, asked[t] # NoAsk
      PROVE  ask'[t] \in Asked /\ AskHolds(ask'[t], allowlist', role', models')
  <2>1. asked[t] \in Asked /\ AskHolds(asked[t], allowlist, role, models)
    BY <1>2
  <2>2. ask'[t] = LivedThrough(asked[t], allowlist, allowlist', role', models, models')
    BY <1>2 DEF Lived, LivedThrough
  <2>3. allowlist \in Lists /\ role \in {"user", "admin"} /\ models \in [Source -> {NoModel} \cup Model]
    BY DEF AllowTypeOK
  <2>4. /\ LivedThrough(asked[t], allowlist, allowlist', role', models, models') \in Asked
        /\ AskHolds(LivedThrough(asked[t], allowlist, allowlist', role', models, models'),
                    allowlist', role', models')
    BY <2>1, <2>3, AskSurvivesWrites
  <2> QED BY <2>2, <2>4
<1>3. ask' \in [AskSlot -> Asked]
  <2>1. NoAsk \in Asked
    BY DEF NoAsk, Asked
  <2>2. \A t \in AskSlot : ask'[t] \in Asked
    BY <1>1, <1>2, <2>1
  <2> QED BY <2>2 DEF Lived
<1> QED BY <1>1, <1>2, <1>3 DEF AllowInv, AllowTypeOK

\* A request in flight goes on to `at` with the model m.
LEMMA AskGoesOn ==
  ASSUME AllowInv, NEW s \in AskSlot, NEW at \in Stage, NEW m \in Model \cup {NoModel},
         Reading, ask[s].at # "idle",
         SetAsk(s, [ask[s] EXCEPT !.at = at, !.model = m]),
         Knows(ask[s], at, m, allowlist, models)
  PROVE  AllowInv'
<1> DEFINE r == ask[s]
           t == [r EXCEPT !.at = at, !.model = m]
<1>1. r \in Asked /\ AskHolds(r, allowlist, role, models)
  BY DEF AllowInv, AllowTypeOK, NoAsk
<1>2. /\ t.at = at /\ t.name = r.name /\ t.model = m /\ t.fit = r.fit
      /\ t.unlisted = r.unlisted /\ t.plain = r.plain /\ t.moved = r.moved
      /\ t.lifted = r.lifted /\ t \in Asked
  BY <1>1 DEF Asked
<1>3. SetAsk(s, t) /\ UNCHANGED <<allowlist, role, models>>
  BY DEF Reading
<1> HIDE DEF t
<1>4. AskHolds(t, allowlist, role, models)
  BY <1>1, <1>2 DEF AskHolds, Knows
<1> QED BY <1>2, <1>3, <1>4, AskMoves

\* The same with the model it has.
LEMMA AskGoesTo ==
  ASSUME AllowInv, NEW s \in AskSlot, NEW at \in Stage, Reading, ask[s].at # "idle",
         To(s, at), Knows(ask[s], at, ask[s].model, allowlist, models)
  PROVE  AllowInv'
<1>1. ask[s] \in Asked
  BY DEF AllowInv, AllowTypeOK
<1>2. [ask[s] EXCEPT !.at = at] = [ask[s] EXCEPT !.at = at, !.model = ask[s].model]
  BY <1>1 DEF Asked
<1>3. SetAsk(s, [ask[s] EXCEPT !.at = at, !.model = ask[s].model])
  BY <1>2 DEF To
<1>4. ask[s].model \in Model \cup {NoModel}
  BY <1>1 DEF Asked
<1> QED BY <1>3, <1>4, AskGoesOn

\* Past the check: the model of the request is fit, or there is none to check.
LEMMA AdmittedHolds ==
  ASSUME AllowInv, NEW s \in AskSlot, Reading, Admitted(s),
         ask[s].at \in {"role", "restricted", "list"},
         ask[s].model = NoModel => ask[s].name # "save",
         ask[s].model # NoModel => ask[s].model \in ask[s].fit
  PROVE  AllowInv'
<1> DEFINE r == ask[s]
           a == IF r.name = "save" THEN "put" ELSE "resolve"
<1>1. r.at # "idle" /\ Knows(r, r.at, r.model, allowlist, models)
  <2>1. r # NoAsk
    BY NoAskIsIdle
  <2> QED BY <2>1 DEF AllowInv, AskHolds
<1>2. To(s, a) /\ a \in Stage
  BY DEF Admitted, Stage
<1>3. Knows(r, a, r.model, allowlist, models)
  BY <1>1 DEF Knows
<1> HIDE DEF a
<1> QED BY <1>1, <1>2, <1>3, AskGoesTo

\* The loads of a chat before its check.
LEMMA LoadHolds ==
  ASSUME AllowInv, NEW s \in AskSlot, LoadOwn(s) \/ LoadShared(s)
  PROVE  AllowInv'
<1> DEFINE r == ask[s]
<1>1. /\ r.at \in {"load", "load shared"} /\ Reading
      /\ r \in Asked /\ AskHolds(r, allowlist, role, models)
  <2>1. r.at \in {"load", "load shared"} /\ Reading
    BY DEF LoadOwn, LoadShared
  <2>2. r # NoAsk
    BY <2>1, NoAskIsIdle
  <2> QED BY <2>1, <2>2 DEF AllowInv, AllowTypeOK
<1>2. \A c \in Source : models[c] \in Model \cup {NoModel}
  BY DEF AllowInv, AllowTypeOK
<1>3. Knows(r, r.at, r.model, allowlist, models)
  BY <1>1 DEF AskHolds
<1>4. CASE LoadOwn(s)
  <2> DEFINE c == IF r.name = "default" THEN "default" ELSE "own"
  <2>1. r.at = "load" /\ c \in Source
    BY <1>4 DEF LoadOwn, Source
  <2>2. CASE c = "own" /\ models[c] = NoModel
    <3>1. To(s, "load shared") /\ "load shared" \in Stage
      BY <1>4, <2>2 DEF LoadOwn, Stage
    <3>2. r.name = "helper"
      BY <1>1, <1>3, <2>1, <2>2 DEF Knows, Asked, AskHolds
    <3>3. Knows(r, "load shared", r.model, allowlist, models)
      BY <1>3, <2>1, <2>2, <3>2 DEF Knows
    <3> QED BY <1>1, <3>1, <3>3, AskGoesTo
  <2>3. CASE ~(c = "own" /\ models[c] = NoModel)
    <3>1. SetAsk(s, [r EXCEPT !.at = "role", !.model = models[c]]) /\ "role" \in Stage
      BY <1>4, <2>3 DEF LoadOwn, Stage
    <3>2. models[c] \in Model \cup {NoModel}
      BY <1>2, <2>1
    <3>3. Knows(r, "role", models[c], allowlist, models)
      BY <1>3, <2>1, <2>3, <3>2 DEF Knows, Effective
    <3> HIDE DEF c
    <3> QED BY <1>1, <3>1, <3>2, <3>3, AskGoesOn
  <2> QED BY <2>2, <2>3
<1>5. CASE LoadShared(s)
  <2>1. r.at = "load shared" /\ "shared" \in Source
    BY <1>5 DEF LoadShared, Source
  <2>2. CASE models["shared"] = NoModel
    <3>1. To(s, "resolve") /\ "resolve" \in Stage
      BY <1>5, <2>2 DEF LoadShared, Stage
    <3>2. Knows(r, "resolve", r.model, allowlist, models)
      BY <1>3, <2>1, <2>2 DEF Knows, Effective
    <3> QED BY <1>1, <3>1, <3>2, AskGoesTo
  <2>3. CASE models["shared"] # NoModel
    <3>1. SetAsk(s, [r EXCEPT !.at = "role", !.model = models["shared"]]) /\ "role" \in Stage
      BY <1>5, <2>3 DEF LoadShared, Stage
    <3>2. models["shared"] \in Model
      BY <1>2, <2>1, <2>3
    <3>3. Knows(r, "role", models["shared"], allowlist, models)
      BY <1>3, <2>1, <3>2, <2>3 DEF Knows, Effective
    <3> QED BY <1>1, <3>1, <3>2, <3>3, AskGoesOn
  <2> QED BY <2>2, <2>3
<1> QED BY <1>4, <1>5

\* The check of a chat or a config.
LEMMA CheckHolds ==
  ASSUME AllowInv, NEW s \in AskSlot, ReadRole(s) \/ ReadRestricted(s) \/ ReadList(s)
  PROVE  AllowInv'
<1> DEFINE r == ask[s]
<1>1. /\ r.at \in {"role", "restricted", "list"} /\ Reading
      /\ r \in Asked /\ AskHolds(r, allowlist, role, models)
  <2>1. r.at \in {"role", "restricted", "list"} /\ Reading
    BY DEF ReadRole, ReadRestricted, ReadList
  <2>2. r # NoAsk
    BY <2>1, NoAskIsIdle
  <2> QED BY <2>1, <2>2 DEF AllowInv, AllowTypeOK
<1>2. allowlist \in Lists /\ role \in {"user", "admin"}
  BY DEF AllowInv, AllowTypeOK
<1>3. Knows(r, r.at, r.model, allowlist, models)
  BY <1>1 DEF AskHolds
<1>4. /\ role = "admin" \/ allowlist = Unrestricted => Model \subseteq r.fit
      /\ r.model \in Model /\ allowlist # Unrestricted /\ r.model \in allowlist.models
           => r.model \in r.fit
      /\ r.model \in Model /\ allowlist # Unrestricted
           => r.model \in allowlist.models \/ r.model \in r.unlisted
      /\ (r.at = "role" /\ r.name = "save") \/ r.at \in {"restricted", "list"}
           => r.model \in Model
  <2>1. Fit(allowlist, role) \subseteq r.fit /\ Model \ Fit(allowlist, "user") \subseteq r.unlisted
    BY <1>1 DEF AskHolds
  <2>2. (r.at = "role" /\ r.name = "save") \/ r.at \in {"restricted", "list"} => r.model \in Model
    BY <1>3 DEF Knows
  <2> QED BY <2>1, <2>2 DEF Fit
<1>5. r.model \in Model => r.model # NoModel
  BY AllowAssumption
<1>6. CASE ReadRole(s)
  <2>1. r.at = "role"
    BY <1>6 DEF ReadRole
  <2>2. CASE role = "admin" \/ r.model = NoModel
    <3>1. Admitted(s)
      BY <1>6, <2>2 DEF ReadRole
    <3> QED BY <1>1, <1>4, <1>5, <2>1, <2>2, <3>1, AdmittedHolds DEF Asked
  <2>3. CASE ~(role = "admin" \/ r.model = NoModel)
    <3>1. To(s, "restricted") /\ "restricted" \in Stage
      BY <1>6, <2>3 DEF ReadRole, Stage
    <3>2. r.plain /\ r.model \in Model
      BY <1>1, <1>2, <2>3 DEF Asked, AskHolds
    <3>3. Knows(r, "restricted", r.model, allowlist, models)
      BY <1>3, <2>1, <3>2 DEF Knows
    <3> QED BY <1>1, <3>1, <3>3, AskGoesTo
  <2> QED BY <2>2, <2>3
<1>7. CASE ReadRestricted(s)
  <2>1. r.at = "restricted"
    BY <1>7 DEF ReadRestricted
  <2>2. CASE ~allowlist.restricted
    <3>1. allowlist = Unrestricted
      BY <1>2, <2>2 DEF Lists, Only
    <3>2. Admitted(s)
      BY <1>7, <2>2 DEF ReadRestricted
    <3> QED BY <1>1, <1>4, <1>5, <2>1, <3>1, <3>2, AdmittedHolds
  <2>3. CASE allowlist.restricted
    <3>1. To(s, "list") /\ "list" \in Stage
      BY <1>7, <2>3 DEF ReadRestricted, Stage
    <3>2. allowlist # Unrestricted
      BY <2>3 DEF Unrestricted
    <3>3. Knows(r, "list", r.model, allowlist, models)
      BY <1>3, <2>1, <3>2 DEF Knows
    <3> QED BY <1>1, <3>1, <3>3, AskGoesTo
  <2> QED BY <2>2, <2>3
<1>8. CASE ReadList(s)
  <2>1. r.at = "list"
    BY <1>8 DEF ReadList
  <2>2. CASE r.model \in allowlist.models
    <3>1. allowlist # Unrestricted
      BY <2>2 DEF Unrestricted
    <3>2. Admitted(s)
      BY <1>8, <2>2 DEF ReadList
    <3> QED BY <1>1, <1>4, <1>5, <2>1, <2>2, <3>1, <3>2, AdmittedHolds
  <2>3. CASE r.model \notin allowlist.models
    <3>1. To(s, "denied") /\ "denied" \in Stage
      BY <1>8, <2>3 DEF ReadList, Stage
    <3>2. r.plain /\ (r.lifted \/ r.model \in r.unlisted)
      BY <1>3, <1>4, <2>1, <2>3 DEF Knows
    <3>3. Knows(r, "denied", r.model, allowlist, models)
      BY <3>2 DEF Knows
    <3> QED BY <1>1, <3>1, <3>3, AskGoesTo
  <2> QED BY <2>2, <2>3
<1> QED BY <1>6, <1>7, <1>8

\* The registry's own loads, behind the check.
LEMMA ResolveHolds ==
  ASSUME AllowInv, NEW s \in AskSlot, Resolve(s) \/ ResolveShared(s)
  PROVE  AllowInv'
<1> DEFINE r == ask[s]
<1>1. /\ r.at \in {"resolve", "resolve shared"} /\ Reading
      /\ r \in Asked /\ AskHolds(r, allowlist, role, models)
  <2>1. r.at \in {"resolve", "resolve shared"} /\ Reading
    BY DEF Resolve, ResolveShared
  <2>2. r # NoAsk
    BY <2>1, NoAskIsIdle
  <2> QED BY <2>1, <2>2 DEF AllowInv, AllowTypeOK
<1>2. \A c \in Source : models[c] \in Model \cup {NoModel}
  BY DEF AllowInv, AllowTypeOK
<1>3. Knows(r, r.at, r.model, allowlist, models)
  BY <1>1 DEF AskHolds
<1>4. ASSUME NEW m \in Model \cup {NoModel}, ~r.moved => m = Effective(r.name, models),
             SetAsk(s, [r EXCEPT !.model = m, !.at = IF m = NoModel THEN "refused" ELSE "granted"])
      PROVE  AllowInv'
  <2> DEFINE a == IF m = NoModel THEN "refused" ELSE "granted"
  <2>1. [r EXCEPT !.at = a, !.model = m] = [r EXCEPT !.model = m, !.at = a]
    BY <1>1 DEF Asked
  <2>2. SetAsk(s, [r EXCEPT !.at = a, !.model = m]) /\ a \in Stage
    BY <1>4, <2>1 DEF Stage
  <2>3. Knows(r, a, m, allowlist, models)
    BY <1>1, <1>3, <1>4 DEF Knows
  <2> HIDE DEF a
  <2> QED BY <1>1, <2>2, <2>3, AskGoesOn
<1>5. CASE Resolve(s)
  <2> DEFINE c == IF r.name = "default" THEN "default"
                  ELSE IF models["own"] # NoModel THEN "own" ELSE "shared"
  <2>1. r.at = "resolve"
    BY <1>5 DEF Resolve
  <2>2. CASE r.name = "helper" /\ c = "shared"
    <3>1. To(s, "resolve shared") /\ "resolve shared" \in Stage
      BY <1>5, <2>2 DEF Resolve, Stage
    <3>2. Knows(r, "resolve shared", r.model, allowlist, models)
      BY <1>3, <2>1, <2>2 DEF Knows
    <3> QED BY <1>1, <3>1, <3>2, AskGoesTo
  <2>3. CASE ~(r.name = "helper" /\ c = "shared")
    <3>1. SetAsk(s, [r EXCEPT !.model = models[c],
                              !.at = IF models[c] = NoModel THEN "refused" ELSE "granted"])
      BY <1>5, <2>3 DEF Resolve
    <3>2. models[c] = Effective(r.name, models) /\ models[c] \in Model \cup {NoModel}
      BY <1>2 DEF Effective, Source
    <3> HIDE DEF c
    <3> QED BY <1>4, <3>1, <3>2
  <2> QED BY <2>2, <2>3
<1>6. CASE ResolveShared(s)
  <2>1. ~r.moved => models["shared"] = Effective(r.name, models)
    BY <1>3, <1>6 DEF ResolveShared, Knows, Effective
  <2>2. models["shared"] \in Model \cup {NoModel}
    BY <1>2 DEF Source
  <2>3. [r EXCEPT !.at = IF models["shared"] = NoModel THEN "refused" ELSE "granted",
                  !.model = models["shared"]]
        = [r EXCEPT !.model = models["shared"],
                    !.at = IF models["shared"] = NoModel THEN "refused" ELSE "granted"]
    BY <1>1 DEF Asked
  <2>4. SetAsk(s, [r EXCEPT !.model = models["shared"],
                            !.at = IF models["shared"] = NoModel THEN "refused" ELSE "granted"])
    BY <1>6, <2>3 DEF ResolveShared
  <2> QED BY <1>4, <2>1, <2>2, <2>4
<1> QED BY <1>5, <1>6

\* A request comes in with what is fit, and off the list, at that time.
LEMMA BeginHolds ==
  ASSUME AllowInv, NEW s \in AskSlot, NEW name \in {"default", "helper", "save"},
         NEW at \in {"load", "role"}, NEW m \in Model \cup {NoModel},
         BeginAsk(s, name, at, m),
         IF at = "load" THEN name # "save" /\ m = NoModel ELSE name = "save" /\ m \in Model
  PROVE  AllowInv'
<1> DEFINE t == [NoAsk EXCEPT !.at = at, !.name = name, !.model = m,
                           !.fit = Fit(allowlist, role), !.plain = (role = "user"),
                           !.unlisted = Model \ Fit(allowlist, "user")]
<1>1. /\ t.at = at /\ t.name = name /\ t.model = m /\ t.fit = Fit(allowlist, role)
      /\ t.unlisted = Model \ Fit(allowlist, "user") /\ t.plain = (role = "user")
      /\ t.moved = FALSE /\ t.lifted = FALSE
  BY DEF NoAsk
<1>2. Fit(allowlist, role) \subseteq Model
  BY DEF Fit, AllowInv, AllowTypeOK, Lists, Only
<1>3. t \in Asked
  BY <1>2 DEF NoAsk, Asked, Stage
<1>4. SetAsk(s, t) /\ UNCHANGED <<allowlist, role, models>>
  BY DEF BeginAsk
<1> HIDE DEF t
<1>5. AskHolds(t, allowlist, role, models)
  BY <1>1 DEF AskHolds, Knows, Stage
<1> QED BY <1>3, <1>4, <1>5, AskMoves

LEMMA AllowInitHolds == AllowInit => AllowInv
<1> SUFFICES ASSUME AllowInit PROVE AllowInv
  OBVIOUS
<1>1. NoAsk \in Asked
  BY DEF NoAsk, Asked
<1>2. AllowTypeOK
  BY <1>1 DEF AllowInit, AllowTypeOK, Lists
<1> QED BY <1>2 DEF AllowInit, AllowInv

\* A step of the requests or of the admins keeps the invariant.
LEMMA AllowStepHolds == AllowInv /\ [AllowNext]_allowVars => AllowInv'
<1> SUFFICES ASSUME AllowInv, [AllowNext]_allowVars PROVE AllowInv'
  OBVIOUS
<1>1. /\ AllowTypeOK
      /\ \A t \in AskSlot : ask[t] = NoAsk \/ AskHolds(ask[t], allowlist, role, models)
      /\ allowlist \in Lists /\ role \in {"user", "admin"}
      /\ models \in [Source -> {NoModel} \cup Model] /\ ask \in [AskSlot -> Asked]
  BY DEF AllowInv, AllowTypeOK
<1>2. ASSUME NEW s \in AskSlot, AskChat(s)
      PROVE  AllowInv'
  <2>1. PICK name \in {"default", "helper"} : BeginAsk(s, name, "load", NoModel)
    BY <1>2 DEF AskChat
  <2> QED BY <2>1, BeginHolds
<1>3. ASSUME NEW s \in AskSlot, AskConfig(s)
      PROVE  AllowInv'
  <2>1. PICK m \in Model : BeginAsk(s, "save", "role", m)
    BY <1>3 DEF AskConfig
  <2> QED BY <2>1, BeginHolds
<1>4. ASSUME NEW s \in AskSlot, EndAsk(s)
      PROVE  AllowInv'
  <2>1. NoAsk \in Asked
    BY DEF NoAsk, Asked
  <2> QED BY <1>4, <2>1, AskMoves DEF EndAsk, Reading
<1>5. ASSUME NEW s \in AskSlot, PutOwn(s)
      PROVE  AllowInv'
  <2> DEFINE r == ask[s]
             t == [r EXCEPT !.at = "granted"]
             asked == [ask EXCEPT ![s].at = "granted"]
  <2>1. r.at = "put" /\ r # NoAsk
    BY <1>5, NoAskIsIdle DEF PutOwn
  <2>2. r \in Asked /\ AskHolds(r, allowlist, role, models)
    BY <1>1, <2>1
  <2>3. /\ t.at = "granted" /\ t.name = r.name /\ t.model = r.model /\ t.fit = r.fit
        /\ t.unlisted = r.unlisted /\ t.plain = r.plain /\ t.moved = r.moved
        /\ t.lifted = r.lifted /\ t \in Asked
    BY <2>2 DEF Asked, Stage
  <2>4. AskHolds(t, allowlist, role, models) /\ r.model \in Model
    <3>1. Knows(r, "put", r.model, allowlist, models) /\ r.fit \subseteq Model
      BY <2>1, <2>2 DEF AskHolds, Asked
    <3> HIDE DEF t
    <3> QED BY <2>2, <2>3, <3>1 DEF AskHolds, Knows, Stage
  <2>5. /\ asked \in [AskSlot -> Asked]
        /\ \A u \in AskSlot : asked[u] = IF u = s THEN t ELSE ask[u]
    BY <1>1, <2>3
  <2>6. /\ models' \in [Source -> {NoModel} \cup Model] /\ ask' = Lived(asked)
        /\ allowlist' \in Lists /\ role' \in {"user", "admin"}
    BY <1>1, <1>5, <2>4 DEF PutOwn, Source
  <2> HIDE DEF asked, t
  <2> QED BY <1>1, <2>4, <2>5, <2>6, WriteMoves
<1>6. CASE DeleteOwn
  <2>1. /\ models' \in [Source -> {NoModel} \cup Model] /\ ask' = Lived(ask)
        /\ allowlist' \in Lists /\ role' \in {"user", "admin"}
    BY <1>1, <1>6 DEF DeleteOwn, Source
  <2> QED BY <1>1, <2>1, WriteMoves
<1>7. CASE SetAllowed \/ ClearAllowed \/ ChangeRole \/ ChangeModel
  <2>1. allowlist' \in Lists
    BY <1>1, <1>7 DEF SetAllowed, ClearAllowed, ChangeRole, ChangeModel, Lists
  <2>2. role' \in {"user", "admin"}
    BY <1>1, <1>7 DEF SetAllowed, ClearAllowed, ChangeRole, ChangeModel
  <2>3. models' \in [Source -> {NoModel} \cup Model]
    BY <1>1, <1>7 DEF SetAllowed, ClearAllowed, ChangeRole, ChangeModel
  <2>4. ask' = Lived(ask)
    BY <1>7 DEF SetAllowed, ClearAllowed, ChangeRole, ChangeModel, AdminWrites
  <2> QED BY <1>1, <2>1, <2>2, <2>3, <2>4, WriteMoves
<1>8. CASE UNCHANGED allowVars
  BY <1>1, <1>8 DEF allowVars, AllowInv, AllowTypeOK
<1> QED BY <1>2, <1>3, <1>4, <1>5, <1>6, <1>7, <1>8, LoadHolds, CheckHolds, ResolveHolds
        DEF AllowNext

\* A chat gets a graph, and a config is stored, only for a model that was fit while the
\* request was in flight, unless what the model comes from was written meanwhile: for
\* any models, requests and changes of the admins (_resolve_agent, _check_model_allowed).
THEOREM GrantTheorem == AllowSpec => []GrantsWereFit
<1>1. AllowInv => GrantsWereFit
  BY NoAskIsIdle DEF AllowInv, AskHolds, Knows, GrantsWereFit
<1> QED BY AllowInitHolds, AllowStepHolds, <1>1, PTL DEF AllowSpec

\* A 403 is due to a rule that held at some time while the request was in flight, unless
\* the list was cleared between its two reads (is_model_allowed).
THEOREM DenialTheorem == AllowSpec => []DenialsWereDue
<1>1. AllowInv => DenialsWereDue
  BY NoAskIsIdle DEF AllowInv, AskHolds, Knows, DenialsWereDue
<1> QED BY AllowInitHolds, AllowStepHolds, <1>1, PTL DEF AllowSpec

-----------------------------------------------------------------------------
(* The preferences. *)

Patch == [keys : SUBSET Prefs, gives : PrefRow, read : PrefRow, clearing : BOOLEAN]

PrefTypeOK ==
  /\ prefs \in PrefRow /\ lastGiven \in PrefRow
  /\ spoilt \subseteq Prefs
  /\ patch \in [PrefSlot -> Patch]

\* A clearing that has read the row is of the key its request writes next, and knows
\* the other keys as they are: what was written since is spoilt.
ClearingsAreCurrent == \A s \in PrefSlot : patch[s].clearing =>
  \A k \in patch[s].keys : (\A j \in patch[s].keys : k <= j) =>
    /\ Given(s, k) = Unset
    /\ \A j \in Prefs \ (spoilt \cup {k}) : patch[s].read[j] = lastGiven[j]

PrefInv == PrefTypeOK /\ ClearingsAreCurrent /\ NoPreferenceIsLost

LEMMA PrefInitHolds == PrefInit => PrefInv
<1> SUFFICES ASSUME PrefInit PROVE PrefInv
  OBVIOUS
<1>1. NoPrefs \in PrefRow /\ NoPatch \in Patch /\ NoPatch.clearing = FALSE
  BY DEF NoPrefs, PrefRow, NoPatch, Patch
<1> QED BY <1>1 DEF PrefInit, PrefInv, PrefTypeOK, ClearingsAreCurrent, NoPreferenceIsLost

\* A key is written: for every other request that has read the row it is spoilt, and
\* the row has what was given.
LEMMA WrittenHolds ==
  ASSUME PrefInv, NEW s \in PrefSlot, NEW k \in patch[s].keys, Written(s, k),
         prefs' \in PrefRow, prefs'[k] = Given(s, k),
         \A j \in Prefs \ (spoilt \cup {k}) : prefs'[j] = lastGiven[j]
  PROVE  PrefInv'
<1> DEFINE r == patch[s]
           p == [r EXCEPT !.keys = @ \ {k}, !.read = NoPrefs, !.clearing = FALSE]
           next == IF p.keys = {} THEN NoPatch ELSE p
           others == \E t \in PrefSlot \ {s} : patch[t].clearing
<1>1. /\ prefs \in PrefRow /\ lastGiven \in PrefRow /\ spoilt \subseteq Prefs
      /\ patch \in [PrefSlot -> Patch] /\ r \in Patch /\ k \in Prefs
  BY DEF PrefInv, PrefTypeOK, Patch
<1>2. NoPrefs \in PrefRow /\ NoPatch \in Patch /\ NoPatch.clearing = FALSE
  BY DEF NoPrefs, PrefRow, NoPatch, Patch
<1>3. p \in Patch /\ p.clearing = FALSE
  BY <1>1, <1>2 DEF Patch
<1>4. next \in Patch /\ next.clearing = FALSE
  BY <1>2, <1>3
<1>5. /\ patch' = [patch EXCEPT ![s] = next]
      /\ lastGiven' = [lastGiven EXCEPT ![k] = Given(s, k)]
      /\ spoilt' = IF others THEN spoilt \cup {k} ELSE spoilt \ {k}
  BY DEF Written, NextKey
<1> HIDE DEF next, p
<1>6. Given(s, k) \in PrefValue \cup {Unset}
  BY <1>1 DEF Given, Patch, PrefRow
<1>7. PrefTypeOK'
  BY <1>1, <1>4, <1>5, <1>6 DEF PrefTypeOK, PrefRow
<1>8. \A j \in Prefs : lastGiven'[j] = IF j = k THEN Given(s, k) ELSE lastGiven[j]
  BY <1>1, <1>5 DEF PrefRow
<1>9. ClearingsAreCurrent'
  <2> SUFFICES ASSUME NEW t \in PrefSlot, patch'[t].clearing,
                      NEW i \in patch'[t].keys, \A j \in patch'[t].keys : i <= j
               PROVE  /\ Given(t, i)' = Unset
                      /\ \A j \in Prefs \ (spoilt' \cup {i}) : patch'[t].read[j] = lastGiven'[j]
    BY DEF ClearingsAreCurrent
  <2>1. t # s /\ patch'[t] = patch[t]
    BY <1>1, <1>4, <1>5
  <2>2. /\ Given(t, i) = Unset /\ others
        /\ \A j \in Prefs \ (spoilt \cup {i}) : patch[t].read[j] = lastGiven[j]
    BY <2>1 DEF PrefInv, ClearingsAreCurrent
  <2> QED BY <1>5, <1>8, <2>1, <2>2 DEF Given
<1>10. NoPreferenceIsLost'
  BY <1>5, <1>8 DEF NoPreferenceIsLost
<1> QED BY <1>7, <1>9, <1>10 DEF PrefInv

LEMMA PrefStepHolds == PrefInv /\ [PrefNext]_prefVars => PrefInv'
<1> SUFFICES ASSUME PrefInv, [PrefNext]_prefVars PROVE PrefInv'
  OBVIOUS
<1>1. /\ PrefTypeOK /\ ClearingsAreCurrent /\ NoPreferenceIsLost
      /\ prefs \in PrefRow /\ lastGiven \in PrefRow /\ spoilt \subseteq Prefs
      /\ patch \in [PrefSlot -> Patch]
  BY DEF PrefInv, PrefTypeOK
<1>2. ASSUME NEW s \in PrefSlot, BeginPrefs(s)
      PROVE  PrefInv'
  <2>1. PICK given \in SUBSET Prefs, gives \in PrefRow :
          /\ patch' = [patch EXCEPT ![s] = [NoPatch EXCEPT !.keys = given, !.gives = gives]]
          /\ prefs' = prefs /\ lastGiven' = lastGiven /\ spoilt' = spoilt
    BY <1>2 DEF BeginPrefs
  <2> DEFINE p == [NoPatch EXCEPT !.keys = given, !.gives = gives]
  <2>2. p \in Patch /\ p.clearing = FALSE
    BY DEF NoPatch, Patch, NoPrefs, PrefRow
  <2>3. patch' = [patch EXCEPT ![s] = p]
    BY <2>1
  <2> HIDE DEF p
  <2>4. \A t \in PrefSlot : patch'[t] = IF t = s THEN p ELSE patch[t]
    BY <1>1, <2>3
  <2>5. PrefTypeOK'
    BY <1>1, <2>1, <2>2, <2>3 DEF PrefTypeOK
  <2>6. ClearingsAreCurrent'
    <3> SUFFICES ASSUME NEW t \in PrefSlot, patch'[t].clearing,
                        NEW i \in patch'[t].keys, \A j \in patch'[t].keys : i <= j
                 PROVE  /\ Given(t, i)' = Unset
                        /\ \A j \in Prefs \ (spoilt' \cup {i}) : patch'[t].read[j] = lastGiven'[j]
      BY DEF ClearingsAreCurrent
    <3>1. patch'[t] = patch[t]
      BY <2>2, <2>4
    <3>2. /\ Given(t, i) = Unset
          /\ \A j \in Prefs \ (spoilt \cup {i}) : patch[t].read[j] = lastGiven[j]
      BY <1>1, <3>1 DEF ClearingsAreCurrent
    <3> QED BY <2>1, <3>1, <3>2 DEF Given
  <2> QED BY <1>1, <2>1, <2>5, <2>6 DEF PrefInv, NoPreferenceIsLost
<1>3. ASSUME NEW s \in PrefSlot, NEW k \in patch[s].keys, \A j \in patch[s].keys : k <= j,
             SetKey(s, k) \/ SelectRow(s, k) \/ StoreBack(s, k)
      PROVE  PrefInv'
  <2>1. patch[s] \in Patch /\ k \in Prefs /\ Given(s, k) \in PrefValue \cup {Unset}
    BY <1>1 DEF Patch, PrefRow, Given
  <2>2. CASE SetKey(s, k)
    <3>1. prefs' = [prefs EXCEPT ![k] = Given(s, k)] /\ Written(s, k)
      BY <2>2 DEF SetKey
    <3>2. prefs' \in PrefRow /\ prefs'[k] = Given(s, k)
      BY <1>1, <2>1, <3>1 DEF PrefRow
    <3>3. \A j \in Prefs \ (spoilt \cup {k}) : prefs'[j] = lastGiven[j]
      BY <1>1, <3>1 DEF NoPreferenceIsLost, PrefRow
    <3> QED BY <3>1, <3>2, <3>3, WrittenHolds
  <2>3. CASE SelectRow(s, k) /\ prefs = NoPrefs
    <3>1. prefs' = prefs /\ Written(s, k) /\ Given(s, k) = Unset
      BY <2>3 DEF SelectRow
    <3>2. prefs'[k] = Given(s, k)
      BY <2>1, <2>3, <3>1 DEF NoPrefs
    <3>3. \A j \in Prefs \ (spoilt \cup {k}) : prefs'[j] = lastGiven[j]
      BY <1>1, <3>1 DEF NoPreferenceIsLost
    <3> QED BY <1>1, <3>1, <3>2, <3>3, WrittenHolds
  <2>4. CASE SelectRow(s, k) /\ prefs # NoPrefs
    <3> DEFINE p == [patch[s] EXCEPT !.clearing = TRUE, !.read = prefs]
    <3>1. /\ prefs' = prefs /\ lastGiven' = lastGiven /\ spoilt' = spoilt
          /\ Given(s, k) = Unset
          /\ patch' = [patch EXCEPT ![s] = p]
      BY <1>1, <2>4 DEF SelectRow
    <3>2. p \in Patch /\ p.keys = patch[s].keys /\ p.gives = patch[s].gives /\ p.read = prefs
      BY <1>1, <2>1 DEF Patch
    <3> HIDE DEF p
    <3>3. \A t \in PrefSlot : patch'[t] = IF t = s THEN p ELSE patch[t]
      BY <1>1, <3>1
    <3>4. PrefTypeOK'
      BY <1>1, <3>1, <3>2 DEF PrefTypeOK
    <3>5. ClearingsAreCurrent'
      <4> SUFFICES ASSUME NEW t \in PrefSlot, patch'[t].clearing,
                          NEW i \in patch'[t].keys, \A j \in patch'[t].keys : i <= j
                   PROVE  /\ Given(t, i)' = Unset
                          /\ \A j \in Prefs \ (spoilt' \cup {i}) : patch'[t].read[j] = lastGiven'[j]
        BY DEF ClearingsAreCurrent
      <4>1. CASE t = s
        <5>1. patch'[t].keys = patch[s].keys /\ patch'[t].read = prefs
          BY <3>2, <3>3, <4>1
        <5>2. i \in Nat /\ k \in Nat /\ i <= k /\ k <= i
          BY <2>1, <5>1, <1>3 DEF Patch, Prefs
        <5>3. i = k
          BY <5>2
        <5>4. Given(t, i)' = Given(s, k)
          BY <3>2, <3>3, <4>1, <5>3 DEF Given
        <5> QED BY <1>1, <3>1, <5>1, <5>4 DEF NoPreferenceIsLost
      <4>2. CASE t # s
        BY <1>1, <3>1, <3>3, <4>2 DEF ClearingsAreCurrent, Given
      <4> QED BY <4>1, <4>2
    <3> QED BY <1>1, <3>1, <3>4, <3>5 DEF PrefInv, NoPreferenceIsLost
  <2>5. CASE StoreBack(s, k)
    <3>1. /\ patch[s].clearing /\ Written(s, k)
          /\ prefs' = IF prefs = NoPrefs THEN NoPrefs ELSE [patch[s].read EXCEPT ![k] = Unset]
      BY <2>5 DEF StoreBack
    <3>2. /\ Given(s, k) = Unset
          /\ \A j \in Prefs \ (spoilt \cup {k}) : patch[s].read[j] = lastGiven[j]
      BY <1>1, <1>3, <3>1 DEF ClearingsAreCurrent
    <3>3. /\ prefs' \in PrefRow /\ prefs'[k] = Given(s, k)
          /\ \A j \in Prefs \ (spoilt \cup {k}) : prefs'[j] = lastGiven[j]
      <4>1. CASE prefs = NoPrefs
        BY <1>1, <2>1, <3>1, <3>2, <4>1 DEF NoPreferenceIsLost, NoPrefs
      <4>2. CASE prefs # NoPrefs
        <5>1. patch[s].read \in PrefRow
          BY <2>1 DEF Patch
        <5> QED BY <2>1, <3>1, <3>2, <4>2, <5>1 DEF PrefRow
      <4> QED BY <4>1, <4>2
    <3> QED BY <3>1, <3>3, WrittenHolds
  <2> QED BY <1>3, <2>2, <2>3, <2>4, <2>5
<1>4. CASE UNCHANGED prefVars
  BY <1>1, <1>4 DEF prefVars, PrefInv, PrefTypeOK, ClearingsAreCurrent, NoPreferenceIsLost, Given
<1> QED BY <1>2, <1>3, <1>4 DEF PrefNext, WriteKey

\* For any preferences and requests in flight, what the row holds under a key is what was
\* last written to it, but for a write inside another key's clearing
\* (UserPreferencesStore.set, delete).
THEOREM PreferenceTheorem == PrefSpec => []NoPreferenceIsLost
<1>1. PrefInv => NoPreferenceIsLost
  BY DEF PrefInv
<1> QED BY PrefInitHolds, PrefStepHolds, <1>1, PTL DEF PrefSpec

-----------------------------------------------------------------------------
(* The login limiter. *)

LoginTypeOK ==
  /\ clock \in Nat
  /\ login \in [LoginSlot -> {"idle", "checked"}]
  /\ since \subseteq [nr : Nat, time : Nat] /\ IsFiniteSet(since)
  /\ blame \in Nat

Checked == {s \in LoginSlot : login[s] = "checked"}

\* The failures that count are in the list the limiter keeps, and there is room for
\* those of the logins that are past the check.
LoginInv ==
  /\ LoginTypeOK
  /\ \A f \in since : f.nr <= Cardinality(since)
  /\ failures \subseteq since /\ Recent(since) \subseteq failures
  /\ LoginCap > 0 =>
       Cardinality(Recent(since)) + Cardinality(Checked) <= LoginCap - 1 + Cardinality(LoginSlot)
  /\ blame >= LoginCap

LEMMA LoginInitHolds == LoginInit => LoginInv
<1> SUFFICES ASSUME LoginInit PROVE LoginInv
  OBVIOUS
<1>1. Checked = {} /\ Recent(since) = {} /\ since = {}
  BY DEF LoginInit, Checked, Recent
<1>2. IsFiniteSet({}) /\ Cardinality({}) = 0 /\ Cardinality(LoginSlot) \in Nat
  BY FS_EmptySet, FS_CardinalityType, LoginAssumption
<1>3. LoginTypeOK
  BY <1>2, LoginAssumption DEF LoginInit, LoginTypeOK
<1>4. LoginCap > 0 =>
        Cardinality(Recent(since)) + Cardinality(Checked) <= LoginCap - 1 + Cardinality(LoginSlot)
  BY <1>1, <1>2, LoginAssumption
<1> QED BY <1>1, <1>3, <1>4, LoginAssumption DEF LoginInit, LoginInv

\* Of finite sets the parts are finite and no larger.
LEMMA RecentIsFinite ==
  ASSUME LoginTypeOK
  PROVE  /\ Cardinality(since) \in Nat
         /\ IsFiniteSet(Checked) /\ Cardinality(Checked) \in Nat
         /\ Cardinality(LoginSlot) \in Nat /\ Cardinality(Checked) <= Cardinality(LoginSlot)
         /\ \A some \in SUBSET since : IsFiniteSet(some) /\ Cardinality(some) \in Nat
<1>1. Checked \in SUBSET LoginSlot
  BY DEF Checked
<1>2. ASSUME NEW some \in SUBSET since PROVE IsFiniteSet(some) /\ Cardinality(some) \in Nat
  BY FS_Subset, FS_CardinalityType DEF LoginTypeOK
<1> QED BY <1>1, <1>2, FS_Subset, FS_CardinalityType, LoginAssumption DEF LoginTypeOK

\* A login leaves the check one way or the other.
LEMMA CheckedShrinks ==
  ASSUME LoginTypeOK, NEW s \in LoginSlot, login[s] = "checked",
         login' = [login EXCEPT ![s] = "idle"]
  PROVE  Cardinality(Checked') = Cardinality(Checked) - 1
<1>1. Checked' = Checked \ {s} /\ s \in Checked
  BY DEF Checked, LoginTypeOK
<1> QED BY <1>1, RecentIsFinite, FS_RemoveElement

LEMMA LoginStepHolds == LoginInv /\ [LoginNext]_loginVars => LoginInv'
<1> SUFFICES ASSUME LoginInv, [LoginNext]_loginVars PROVE LoginInv'
  OBVIOUS
<1> DEFINE lately == Recent(since)
<1>1. /\ LoginTypeOK /\ failures \subseteq since /\ lately \subseteq failures
      /\ \A f \in since : f.nr <= Cardinality(since) /\ f.nr \in Nat /\ f.time \in Nat
      /\ LoginCap > 0 =>
           Cardinality(lately) + Cardinality(Checked) <= LoginCap - 1 + Cardinality(LoginSlot)
      /\ blame >= LoginCap
      /\ clock \in Nat /\ blame \in Nat
  BY DEF LoginInv, LoginTypeOK
<1>2. /\ Cardinality(since) \in Nat /\ Cardinality(Checked) \in Nat /\ IsFiniteSet(Checked)
      /\ Cardinality(LoginSlot) \in Nat /\ Cardinality(Checked) <= Cardinality(LoginSlot)
      /\ IsFiniteSet(lately) /\ Cardinality(lately) \in Nat
      /\ LoginCap \in Nat /\ Span \in Nat
  BY <1>1, RecentIsFinite, LoginAssumption
<1>3. Recent(failures) = lately
  BY <1>1 DEF Recent
<1>4. CASE Tick
  <2>1. /\ clock' = clock + 1 /\ since' = since /\ failures' = failures
        /\ login' = login /\ blame' = blame /\ Checked' = Checked
    BY <1>4 DEF Tick, Checked
  <2>2. Recent(since)' \in SUBSET lately
    BY <1>1, <1>2, <2>1 DEF Recent
  <2>3. Cardinality(Recent(since)') <= Cardinality(lately) /\ Cardinality(Recent(since)') \in Nat
    BY <1>2, <2>2, FS_Subset, FS_CardinalityType
  <2>4. LoginTypeOK'
    BY <1>1, <2>1 DEF LoginTypeOK
  <2> QED BY <1>1, <1>2, <2>1, <2>2, <2>3, <2>4 DEF LoginInv
<1>5. ASSUME NEW s \in LoginSlot, CheckKey(s)
      PROVE  LoginInv'
  <2>1. /\ clock' = clock /\ since' = since /\ Recent(since)' = lately
        /\ failures' = failures \/ (LoginCap > 0 /\ failures' = lately)
    BY <1>2, <1>3, <1>5 DEF CheckKey, Recent
  <2>2. CASE LoginCap = 0 \/ Cardinality(failures') < LoginCap
    <3>1. login' = [login EXCEPT ![s] = "checked"] /\ blame' = blame /\ login[s] = "idle"
      BY <1>5, <2>2 DEF CheckKey
    <3>2. Checked' = Checked \cup {s} /\ s \notin Checked /\ LoginTypeOK'
      BY <1>1, <2>1, <3>1 DEF Checked, LoginTypeOK
    <3>3. Checked' \in SUBSET LoginSlot
      BY DEF Checked
    <3>4. Cardinality(Checked') <= Cardinality(LoginSlot) /\ Cardinality(Checked') \in Nat
      BY <1>2, <3>2, <3>3, FS_AddElement, FS_Subset, FS_CardinalityType, LoginAssumption
    <3>5. LoginCap > 0 => Cardinality(lately) < LoginCap
      BY <1>3, <1>5, <2>2, <1>2 DEF CheckKey
    <3> QED BY <1>1, <1>2, <2>1, <3>1, <3>2, <3>4, <3>5 DEF LoginInv
  <2>3. CASE LoginCap # 0 /\ ~(Cardinality(failures') < LoginCap)
    <3>1. login' = login /\ blame' = Cardinality(lately) /\ failures' = lately
      BY <1>3, <1>5, <2>3 DEF CheckKey
    <3>2. Checked' = Checked /\ LoginTypeOK'
      BY <1>1, <1>2, <2>1, <3>1 DEF Checked, LoginTypeOK
    <3> QED BY <1>1, <1>2, <2>1, <2>3, <3>1, <3>2 DEF LoginInv
  <2> QED BY <2>2, <2>3
<1>6. ASSUME NEW s \in LoginSlot, FailLogin(s)
      PROVE  LoginInv'
  <2> DEFINE failure == [nr |-> Cardinality(since) + 1, time |-> clock]
  <2>1. /\ login[s] = "checked" /\ login' = [login EXCEPT ![s] = "idle"]
        /\ failures' = lately \cup {failure} /\ since' = since \cup {failure}
        /\ clock' = clock /\ blame' = blame
    BY <1>3, <1>6 DEF FailLogin
  <2>2. Cardinality(Checked') = Cardinality(Checked) - 1
    BY <1>1, <2>1, CheckedShrinks
  <2>3. failure \notin since /\ failure \in [nr : Nat, time : Nat] /\ failure.nr = Cardinality(since) + 1
    BY <1>1, <1>2
  <2> HIDE DEF failure
  <2>4. IsFiniteSet(since') /\ Cardinality(since') = Cardinality(since) + 1
    BY <1>1, <2>1, <2>3, FS_AddElement DEF LoginTypeOK
  <2>5. Recent(since)' \in SUBSET (lately \cup {failure})
    BY <2>1 DEF Recent
  <2>6. IsFiniteSet(lately \cup {failure}) /\ Cardinality(lately \cup {failure}) = Cardinality(lately) + 1
    BY <1>1, <1>2, <2>3, FS_AddElement
  <2>7. Cardinality(Recent(since)') <= Cardinality(lately) + 1 /\ Cardinality(Recent(since)') \in Nat
    BY <2>5, <2>6, FS_Subset, FS_CardinalityType
  <2>8. LoginTypeOK'
    BY <1>1, <2>1, <2>3, <2>4 DEF LoginTypeOK
  <2>9. \A f \in since' : f.nr <= Cardinality(since')
    BY <1>1, <1>2, <2>1, <2>3, <2>4
  <2>10. failures' \subseteq since' /\ Recent(since)' \subseteq failures'
    BY <1>1, <2>1, <2>5
  <2>11. LoginCap > 0 => Cardinality(Recent(since)') + Cardinality(Checked')
                           <= LoginCap - 1 + Cardinality(LoginSlot)
    BY <1>1, <1>2, <2>2, <2>7
  <2> QED BY <1>1, <2>1, <2>8, <2>9, <2>10, <2>11 DEF LoginInv
<1>7. ASSUME NEW s \in LoginSlot, Succeed(s)
      PROVE  LoginInv'
  <2>1. /\ login[s] = "checked" /\ login' = [login EXCEPT ![s] = "idle"]
        /\ failures' = {} /\ since' = {} /\ clock' = clock /\ blame' = blame
    BY <1>7 DEF Succeed
  <2>2. Cardinality(Checked') = Cardinality(Checked) - 1
    BY <1>1, <2>1, CheckedShrinks
  <2>3. Recent(since)' = {}
    BY <2>1 DEF Recent
  <2>4. LoginTypeOK'
    BY <1>1, <2>1, FS_EmptySet DEF LoginTypeOK
  <2>5. Cardinality(Recent(since)') = 0
    BY <2>3, FS_EmptySet
  <2>6. /\ \A f \in since' : f.nr <= Cardinality(since')
        /\ failures' \subseteq since' /\ Recent(since)' \subseteq failures'
    BY <2>1, <2>3
  <2>7. LoginCap > 0 => Cardinality(Recent(since)') + Cardinality(Checked')
                          <= LoginCap - 1 + Cardinality(LoginSlot)
    BY <1>2, <2>2, <2>5
  <2> QED BY <1>1, <2>1, <2>4, <2>6, <2>7 DEF LoginInv
<1>8. CASE UNCHANGED loginVars
  BY <1>8 DEF loginVars, LoginInv, LoginTypeOK, Recent, Checked
<1> QED BY <1>4, <1>5, <1>6, <1>7, <1>8 DEF LoginNext

\* However many logins of a key overlap, for any cap and window: no more failures count
\* than the limiter admits and those past the check together add, and none is refused
\* with fewer than the cap (SlidingWindowRateLimiter).
THEOREM LoginTheorem == LoginSpec => []LoginsAreLimited
<1>1. LoginInv => LoginsAreLimited
  <2> SUFFICES ASSUME LoginInv PROVE LoginsAreLimited
    OBVIOUS
  <2>1. LoginTypeOK /\ Recent(since) \in SUBSET since
    BY DEF LoginInv, Recent
  <2> QED BY <2>1, RecentIsFinite, LoginAssumption DEF LoginInv, LoginsAreLimited
<1> QED BY LoginInitHolds, LoginStepHolds, <1>1, PTL DEF LoginSpec

-----------------------------------------------------------------------------
(* The start. *)

Starting == {"down", "open", "read", "apply", "store", "stores"}
Migrating == {"search skills", "copy skills", "sweep skills",
              "search servers", "copy servers", "sweep servers"}

StartupTypeOK ==
  /\ legacy \in [Pools -> SUBSET Legend] /\ forgone \in [Pools -> SUBSET Legend]
  /\ owned \in [Pools -> [Legend -> {"none", "mine", "legacy"}]]
  /\ phase \in Starting \cup Migrating \cup {"up"}
  /\ pool \in BOOLEAN
  /\ backing \in [Stores -> {"none", "memory", "postgres"}]
  /\ backend \in {"memory", "postgres"}

\* The files that ran are the first ones, each once and in order, and the table knows
\* them; a start that got past the migrations has run all.
FilesInOrder == \E n \in 0 .. Files :
  /\ ran = [f \in 1 .. n |-> f] /\ versions = 1 .. n
  /\ phase = "apply" => todo = (n + 1) .. Files
  /\ phase = "store" \/ (pool /\ phase \notin {"down", "open", "read", "apply"}) => n = Files

\* What is open in each phase.
OpenedSoFar ==
  /\ phase \in {"down", "open"} => ~pool /\ entered = {}
  /\ phase \in {"read", "apply"} => pool /\ entered = {}
  /\ phase = "store" => pool /\ entered = {"saver"} /\ backing["checkpointer"] = "postgres"
  /\ phase = "stores" /\ pool => /\ entered = Managers /\ backend = "postgres"
                                 /\ backing["checkpointer"] = "postgres"
                                 /\ backing["store"] = "postgres"

\* While a pool is copied, what the search returned is the owner's or still to be
\* copied; what the second search then returned is the owner's.
CopyPhase(k) == IF k = "skills" THEN "copy skills" ELSE "copy servers"
SweepPhase(k) == IF k = "skills" THEN "sweep skills" ELSE "sweep servers"
PageIsCopied == \A k \in Pools :
  /\ phase = CopyPhase(k) => \A i \in FirstPage(k) : i \in todo \/ owned[k][i] # "none"
  /\ phase = SweepPhase(k) => \A i \in todo : owned[k][i] # "none"

StartupInv ==
  StartupTypeOK /\ FilesInOrder /\ OpenedSoFar /\ BackendIsWhole /\ PageIsCopied /\ LegacyIsKept

LEMMA StartupInitHolds == StartupInit => StartupInv
<1> SUFFICES ASSUME StartupInit PROVE StartupInv
  OBVIOUS
<1>1. StartupTypeOK
  BY DEF StartupInit, StartupTypeOK, Starting, Everything
<1>2. FilesInOrder
  <2>1. 0 \in 0 .. Files /\ ran = [f \in 1 .. 0 |-> f] /\ versions = 1 .. 0
    BY StartupAssumption DEF StartupInit
  <2> QED BY <2>1 DEF StartupInit, FilesInOrder
<1>3. OpenedSoFar /\ BackendIsWhole /\ PageIsCopied
  BY DEF StartupInit, OpenedSoFar, BackendIsWhole, PageIsCopied, CopyPhase, SweepPhase
<1>4. LegacyIsKept
  BY DEF StartupInit, LegacyIsKept
<1> QED BY <1>1, <1>2, <1>3, <1>4 DEF StartupInv

\* The migrations and the owner leave the process where it is; they change what is to
\* be copied and what there is to copy.
Folding ==
  \/ Migrate \/ MigrateFails
  \/ \E k \in Pools, i \in Legend : OwnerWrites(k, i)

LEMMA FoldingKeepsTheProcess ==
  ASSUME StartupTypeOK, Folding
  PROVE  /\ UNCHANGED <<ran, versions, pool, entered, backing, backend>>
         /\ phase \notin Starting /\ phase' \notin Starting
         /\ phase' \in Migrating \cup {"up"}
BY DEF Folding, Migrate, MigrateFails, OwnerWrites, Search, CopyItem, Copied, SweepItem,
       EndSweep, Starting, Migrating, persisted, database, StartupTypeOK

LEMMA StartupTypeHolds == StartupTypeOK /\ [StartupNext]_startupVars => StartupTypeOK'
<1> SUFFICES ASSUME StartupTypeOK, [StartupNext]_startupVars PROVE StartupTypeOK'
  OBVIOUS
<1>1. ASSUME UNCHANGED <<legacy, owned, forgone>>,
             phase' \in Starting \cup Migrating \cup {"up"}, pool' \in BOOLEAN,
             backing' \in [Stores -> {"none", "memory", "postgres"}],
             backend' \in {"memory", "postgres"}
      PROVE  StartupTypeOK'
  BY <1>1 DEF StartupTypeOK
<1>2. CASE StartProcess \/ OpenPool \/ ReadVersions
  BY <1>1, <1>2 DEF StartProcess, OpenPool, ReadVersions, StartupTypeOK, database, persisted, Starting
<1>3. CASE ApplyFile
  BY <1>1, <1>3 DEF ApplyFile, StartupTypeOK, persisted
<1>4. CASE Enter("saver", "apply", "store") \/ Enter("store", "store", "stores")
  BY <1>1, <1>4 DEF Enter, StartupTypeOK, database, Starting
<1>5. CASE FallBack
  <2>1. backing' \in [Stores -> {"none", "memory", "postgres"}]
    BY <1>5 DEF FallBack, StartupTypeOK
  <2> QED BY <1>1, <1>5, <2>1 DEF FallBack, StartupTypeOK, database, Starting
<1>6. CASE BindStores
  <2>1. backing' \in [Stores -> {"none", "memory", "postgres"}]
    BY <1>6 DEF BindStores, StartupTypeOK
  <2> QED BY <1>1, <1>6, <2>1 DEF BindStores, StartupTypeOK, database, Migrating
<1>7. CASE StopProcess
  <2>1. backing' \in [Stores -> {"none", "memory", "postgres"}]
    BY <1>7 DEF StopProcess, StartupTypeOK
  <2> QED BY <1>1, <1>7, <2>1 DEF StopProcess, StartupTypeOK, database, Starting
<1>8. CASE Die
  BY <1>1, <1>8 DEF Die, StartupTypeOK, database, Starting, Everything
<1>9. CASE Folding
  <2>1. /\ phase' \in Starting \cup Migrating \cup {"up"}
        /\ UNCHANGED <<pool, backing, backend>>
    BY <1>9, FoldingKeepsTheProcess
  <2>2. CASE Migrate \/ MigrateFails
    <3>1. CASE UNCHANGED <<legacy, owned, forgone>>
      BY <2>1, <3>1 DEF StartupTypeOK
    <3>2. ASSUME NEW k \in Pools, NEW i,
                 owned' = IF owned[k][i] # "none" THEN owned ELSE [owned EXCEPT ![k][i] = "legacy"],
                 UNCHANGED <<legacy, forgone>>
          PROVE  StartupTypeOK'
      <4>1. [owned[k] EXCEPT ![i] = "legacy"] \in [Legend -> {"none", "mine", "legacy"}]
        BY DEF StartupTypeOK
      <4>2. owned' \in [Pools -> [Legend -> {"none", "mine", "legacy"}]]
        BY <3>2, <4>1 DEF StartupTypeOK
      <4> QED BY <2>1, <3>2, <4>2 DEF StartupTypeOK
    <3>3. ASSUME NEW k \in Pools, NEW i, legacy' = [legacy EXCEPT ![k] = @ \ {i}],
                 UNCHANGED <<owned, forgone>>
          PROVE  StartupTypeOK'
      BY <2>1, <3>3 DEF StartupTypeOK
    <3>4. "skills" \in Pools /\ "servers" \in Pools
      BY DEF Pools
    <3>5. CASE MigrateFails \/ \E k \in Pools, from \in Migrating, to \in Migrating \cup {"up"} :
                 Search(k, from, to) \/ Copied(k, from, to) \/ EndSweep(from, to)
      BY <3>1, <3>5 DEF MigrateFails, Search, Copied, EndSweep, database
    <3>6. CASE CopyItem("skills", "copy skills") \/ CopyItem("servers", "copy servers")
      BY <3>2, <3>4, <3>6 DEF CopyItem
    <3>7. CASE SweepItem("skills", "sweep skills") \/ SweepItem("servers", "sweep servers")
      BY <3>3, <3>4, <3>7 DEF SweepItem
    <3> QED BY <2>2, <3>4, <3>5, <3>6, <3>7 DEF Migrate, Migrating
  <2>3. ASSUME NEW k \in Pools, NEW i \in Legend, OwnerWrites(k, i)
        PROVE  StartupTypeOK'
    <3>1. /\ owned' = [owned EXCEPT ![k][i] = IF @ = "none" THEN "mine" ELSE "none"]
          /\ forgone' = [forgone EXCEPT ![k] = IF owned[k][i] = "none" THEN @ ELSE @ \cup {i}]
          /\ legacy' = legacy
      BY <2>3 DEF OwnerWrites
    <3>2. owned' \in [Pools -> [Legend -> {"none", "mine", "legacy"}]]
      BY <3>1 DEF StartupTypeOK
    <3>3. forgone' \in [Pools -> SUBSET Legend]
      BY <3>1 DEF StartupTypeOK
    <3> QED BY <2>1, <3>1, <3>2, <3>3 DEF StartupTypeOK
  <2> QED BY <1>9, <2>2, <2>3 DEF Folding
<1>10. CASE UNCHANGED startupVars
  BY <1>10 DEF startupVars, StartupTypeOK
<1> QED BY <1>2, <1>3, <1>4, <1>5, <1>6, <1>7, <1>8, <1>9, <1>10 DEF StartupNext, Folding

\* Files run in order, each once, whichever starts died between them.
LEMMA FilesInOrderHolds == StartupInv /\ [StartupNext]_startupVars => FilesInOrder'
<1> SUFFICES ASSUME StartupInv, [StartupNext]_startupVars PROVE FilesInOrder'
  OBVIOUS
<1>1. PICK n \in 0 .. Files :
        /\ ran = [f \in 1 .. n |-> f] /\ versions = 1 .. n
        /\ phase = "apply" => todo = (n + 1) .. Files
        /\ phase = "store" \/ (pool /\ phase \notin {"down", "open", "read", "apply"}) => n = Files
  BY DEF StartupInv, FilesInOrder
<1>2. /\ n \in Nat /\ Files \in Nat /\ n <= Files
      /\ phase \in {"down", "open"} => ~pool
      /\ phase = "store" => pool
  BY StartupAssumption DEF StartupInv, OpenedSoFar
<1>3. ASSUME ran' = ran, versions' = versions,
             phase' = "apply" => todo' = (n + 1) .. Files,
             phase' = "store" \/ (pool' /\ phase' \notin {"down", "open", "read", "apply"}) => n = Files
      PROVE  FilesInOrder'
  BY <1>1, <1>3 DEF FilesInOrder
<1>4. CASE StartProcess \/ OpenPool \/ StopProcess \/ Die \/ BindStores \/ FallBack
  BY <1>1, <1>2, <1>3, <1>4
     DEF StartProcess, OpenPool, StopProcess, Die, BindStores, FallBack, database, persisted
<1>5. CASE ReadVersions
  <2>1. todo' = (1 .. Files) \ versions /\ phase' = "apply" /\ ran' = ran /\ versions' = versions
    BY <1>5 DEF ReadVersions, database
  <2>2. todo' = (n + 1) .. Files
    BY <1>1, <1>2, <2>1
  <2> QED BY <1>3, <2>1, <2>2
<1>6. CASE ApplyFile
  <2>1. PICK f \in todo : /\ phase = "apply" /\ (\A j \in todo : f <= j) /\ todo' = todo \ {f}
                          /\ ran' = Append(ran, f) /\ versions' = versions \cup {f}
                          /\ phase' = phase
    BY <1>6 DEF ApplyFile, Take
  <2>2. f = n + 1 /\ n + 1 \in 0 .. Files
    <3>1. todo = (n + 1) .. Files
      BY <1>1, <2>1
    <3>2. n + 1 \in todo
      BY <1>2, <2>1, <3>1
    <3> QED BY <1>2, <2>1, <3>1, <3>2
  <2>3. ran' = [i \in 1 .. n + 1 |-> i]
    BY <1>1, <1>2, <2>1, <2>2
  <2>4. versions' = 1 .. n + 1 /\ todo' = (n + 1 + 1) .. Files
    BY <1>1, <1>2, <2>1, <2>2
  <2> QED BY <2>1, <2>2, <2>3, <2>4 DEF FilesInOrder
<1>7. CASE Enter("saver", "apply", "store")
  <2>1. /\ phase = "apply" /\ todo = {} /\ phase' = "store" /\ UNCHANGED <<ran, versions>>
    BY <1>7 DEF Enter, database
  <2>2. n = Files
    BY <1>1, <1>2, <2>1
  <2> QED BY <1>3, <2>1, <2>2
<1>8. CASE Enter("store", "store", "stores")
  BY <1>1, <1>3, <1>8 DEF Enter, database
<1>9. CASE Folding
  <2>1. phase \notin Starting /\ phase' \notin Starting /\ UNCHANGED <<ran, versions, pool>>
    BY <1>9, FoldingKeepsTheProcess DEF StartupInv
  <2> QED BY <1>1, <1>3, <2>1 DEF Starting
<1>10. CASE UNCHANGED startupVars
  BY <1>1, <1>3, <1>10 DEF startupVars
<1> QED BY <1>4, <1>5, <1>6, <1>7, <1>8, <1>9, <1>10 DEF StartupNext, Folding

\* What is open goes up with the phases and is gone when the process is.
LEMMA OpenedSoFarHolds == StartupInv /\ [StartupNext]_startupVars => OpenedSoFar'
<1> SUFFICES ASSUME StartupInv, [StartupNext]_startupVars PROVE OpenedSoFar'
  OBVIOUS
<1>1. StartupTypeOK /\ OpenedSoFar
  BY DEF StartupInv
<1>2. \A s \in {"checkpointer", "store"} : s \in Stores
  BY DEF Stores
<1>3. CASE StartProcess \/ OpenPool \/ ReadVersions \/ ApplyFile
  BY <1>1, <1>3 DEF StartProcess, OpenPool, ReadVersions, ApplyFile, persisted, OpenedSoFar
<1>4. CASE Enter("saver", "apply", "store")
  BY <1>1, <1>2, <1>4 DEF Enter, OpenedSoFar, StartupTypeOK
<1>5. CASE Enter("store", "store", "stores")
  BY <1>1, <1>2, <1>5 DEF Enter, OpenedSoFar, StartupTypeOK, Managers
<1>6. CASE FallBack
  BY <1>6 DEF FallBack, OpenedSoFar
<1>7. CASE BindStores
  BY <1>7 DEF BindStores, OpenedSoFar
<1>8. CASE StopProcess \/ Die
  BY <1>8 DEF StopProcess, Die, OpenedSoFar
<1>9. CASE Folding
  BY <1>1, <1>9, FoldingKeepsTheProcess DEF OpenedSoFar, Starting
<1>10. CASE UNCHANGED startupVars
  BY <1>1, <1>10 DEF startupVars, OpenedSoFar
<1> QED BY <1>3, <1>4, <1>5, <1>6, <1>7, <1>8, <1>9, <1>10 DEF StartupNext, Folding

\* The stores are bound to what the start ended with, and nothing moves them then.
LEMMA BackendHolds == StartupInv /\ [StartupNext]_startupVars => BackendIsWhole'
<1> SUFFICES ASSUME StartupInv, [StartupNext]_startupVars PROVE BackendIsWhole'
  OBVIOUS
<1>1. StartupTypeOK /\ OpenedSoFar /\ BackendIsWhole /\ FilesInOrder
  BY DEF StartupInv
<1>2. CASE BindStores
  <2>1. /\ phase = "stores" /\ pool' = pool /\ entered' = entered /\ ran' = ran
        /\ backing' = [s \in Stores |-> IF pool THEN (IF s \in {"checkpointer", "store"}
                                                      THEN backing[s] ELSE "postgres")
                                        ELSE "memory"]
        /\ backend' = IF pool THEN backend ELSE "memory"
    BY <1>2 DEF BindStores, database
  <2>2. CASE pool
    <3>1. /\ entered = Managers /\ backend = "postgres"
          /\ backing["checkpointer"] = "postgres" /\ backing["store"] = "postgres"
      BY <1>1, <2>1, <2>2 DEF OpenedSoFar
    <3>2. backing' = Everything("postgres")
      BY <2>1, <2>2, <3>1 DEF Everything
    <3>3. ran = [f \in 1 .. Files |-> f]
      BY <1>1, <2>1, <2>2 DEF FilesInOrder
    <3> QED BY <2>1, <2>2, <3>1, <3>2, <3>3 DEF BackendIsWhole
  <2>3. CASE ~pool
    <3>1. backing' = Everything("memory") /\ backend' = "memory" /\ pool' = FALSE
      BY <1>1, <2>1, <2>3 DEF Everything, StartupTypeOK
    <3> QED BY <3>1 DEF BackendIsWhole, Everything
  <2> QED BY <2>2, <2>3
<1>3. CASE StartProcess \/ OpenPool \/ ReadVersions \/ ApplyFile \/ FallBack \/ StopProcess \/ Die
  BY <1>3 DEF StartProcess, OpenPool, ReadVersions, ApplyFile, FallBack, StopProcess, Die,
              BackendIsWhole
<1>4. CASE Enter("saver", "apply", "store") \/ Enter("store", "store", "stores")
  BY <1>4 DEF Enter, BackendIsWhole
<1>5. CASE Folding
  <2>1. /\ UNCHANGED <<ran, pool, entered, backing, backend>>
        /\ phase \notin Starting
    BY <1>1, <1>5, FoldingKeepsTheProcess
  <2> QED BY <1>1, <2>1 DEF BackendIsWhole, Everything, Starting
<1>6. CASE UNCHANGED startupVars
  BY <1>1, <1>6 DEF startupVars, BackendIsWhole, Everything
<1> QED BY <1>2, <1>3, <1>4, <1>5, <1>6 DEF StartupNext, Folding

\* The migrations of one kind: only what the owner has by then is deleted.
LEMMA LegacyHolds ==
  StartupInv /\ [StartupNext]_startupVars => PageIsCopied' /\ LegacyIsKept'
<1> SUFFICES ASSUME StartupInv, [StartupNext]_startupVars PROVE PageIsCopied' /\ LegacyIsKept'
  OBVIOUS
<1>1. /\ StartupTypeOK /\ PageIsCopied /\ LegacyIsKept
      /\ \A k \in Pools : FirstPage(k) \subseteq Legend
      /\ Pools = {"skills", "servers"}
  BY DEF StartupInv, StartupTypeOK, FirstPage, Held, Pools
<1>2. ASSUME UNCHANGED <<legacy, owned, forgone>>,
             \A k \in Pools : phase' # CopyPhase(k) /\ phase' # SweepPhase(k)
      PROVE  PageIsCopied' /\ LegacyIsKept'
  BY <1>1, <1>2 DEF PageIsCopied, LegacyIsKept
<1>3. CASE StartProcess \/ OpenPool \/ ReadVersions \/ ApplyFile \/ FallBack \/ StopProcess \/ Die
           \/ BindStores \/ MigrateFails
  BY <1>1, <1>2, <1>3 DEF StartProcess, OpenPool, ReadVersions, ApplyFile, FallBack, StopProcess,
     Die, BindStores, MigrateFails, database, CopyPhase, SweepPhase
<1>4. CASE Enter("saver", "apply", "store") \/ Enter("store", "store", "stores")
           \/ EndSweep("sweep skills", "search servers") \/ EndSweep("sweep servers", "up")
  BY <1>1, <1>2, <1>4 DEF Enter, EndSweep, database, CopyPhase, SweepPhase
<1>5. ASSUME NEW k \in Pools, NEW from, Search(k, from, CopyPhase(k))
      PROVE  PageIsCopied' /\ LegacyIsKept'
  <2>1. /\ todo' = FirstPage(k) /\ phase' = CopyPhase(k) /\ FirstPage(k)' = FirstPage(k)
        /\ UNCHANGED <<legacy, owned, forgone>>
    BY <1>5 DEF Search, database, persisted, FirstPage, Held
  <2>2. PageIsCopied'
    BY <1>1, <2>1 DEF PageIsCopied, CopyPhase, SweepPhase
  <2> QED BY <1>1, <2>1, <2>2 DEF LegacyIsKept
<1>6. ASSUME NEW k \in Pools, CopyItem(k, CopyPhase(k))
      PROVE  PageIsCopied' /\ LegacyIsKept'
  <2>1. PICK i \in todo :
          /\ phase = CopyPhase(k) /\ phase' = phase /\ todo' = todo \ {i}
          /\ owned' = IF owned[k][i] # "none" THEN owned ELSE [owned EXCEPT ![k][i] = "legacy"]
          /\ UNCHANGED <<legacy, forgone, backing>>
    BY <1>6 DEF CopyItem, Take, persisted
  <2>2. /\ \A l \in Pools, j \in Legend : owned[l][j] # "none" => owned'[l][j] # "none"
        /\ i \in Legend => owned'[k][i] # "none"
    BY <1>1, <2>1 DEF StartupTypeOK
  <2>3. FirstPage(k)' = FirstPage(k)
    BY <2>1 DEF FirstPage, Held
  <2>4. \A j \in FirstPage(k) : j \in todo' \/ owned'[k][j] # "none"
    <3>1. \A j \in FirstPage(k) : j \in todo \/ owned[k][j] # "none"
      BY <1>1, <2>1 DEF PageIsCopied
    <3> QED BY <1>1, <2>1, <2>2, <3>1
  <2>5. PageIsCopied'
    BY <1>1, <2>1, <2>3, <2>4 DEF PageIsCopied, CopyPhase, SweepPhase
  <2> QED BY <1>1, <2>1, <2>2, <2>5 DEF LegacyIsKept
<1>7. ASSUME NEW k \in Pools, Copied(k, CopyPhase(k), SweepPhase(k))
      PROVE  PageIsCopied' /\ LegacyIsKept'
  <2>1. /\ phase = CopyPhase(k) /\ todo = {}
        /\ todo' = FirstPage(k) /\ phase' = SweepPhase(k)
        /\ UNCHANGED <<legacy, owned, forgone>>
    BY <1>7 DEF Copied, Search, database
  <2>2. \A j \in FirstPage(k) : owned[k][j] # "none"
    BY <1>1, <2>1 DEF PageIsCopied
  <2>3. PageIsCopied'
    BY <1>1, <2>1, <2>2 DEF PageIsCopied, CopyPhase, SweepPhase
  <2> QED BY <1>1, <2>1, <2>3 DEF LegacyIsKept
<1>8. ASSUME NEW k \in Pools, SweepItem(k, SweepPhase(k))
      PROVE  PageIsCopied' /\ LegacyIsKept'
  <2>1. PICK i \in todo :
          /\ phase = SweepPhase(k) /\ phase' = phase /\ todo' = todo \ {i}
          /\ legacy' = [legacy EXCEPT ![k] = @ \ {i}]
          /\ UNCHANGED <<owned, forgone>>
    BY <1>8 DEF SweepItem, Take
  <2>2. owned[k][i] # "none"
    BY <1>1, <2>1 DEF PageIsCopied
  <2>3. \A l \in Pools, j \in Legend : j \in legacy[l] => j \in legacy'[l] \/ (l = k /\ j = i)
    BY <1>1, <2>1 DEF StartupTypeOK
  <2>4. PageIsCopied'
    BY <1>1, <2>1 DEF PageIsCopied, CopyPhase, SweepPhase
  <2> QED BY <1>1, <2>1, <2>2, <2>3, <2>4 DEF LegacyIsKept
<1>9. ASSUME NEW k \in Pools, NEW i \in Legend, OwnerWrites(k, i)
      PROVE  PageIsCopied' /\ LegacyIsKept'
  <2>1. /\ phase = "up" /\ phase' = phase /\ legacy' = legacy
        /\ owned' = [owned EXCEPT ![k][i] = IF @ = "none" THEN "mine" ELSE "none"]
        /\ forgone' = [forgone EXCEPT ![k] = IF owned[k][i] = "none" THEN @ ELSE @ \cup {i}]
    BY <1>9 DEF OwnerWrites
  <2>2. PageIsCopied'
    BY <1>1, <2>1 DEF PageIsCopied, CopyPhase, SweepPhase
  <2>3. \A l \in Pools, j \in Legend :
          /\ forgone[l] \subseteq forgone'[l]
          /\ owned[l][j] # "none" => owned'[l][j] # "none" \/ j \in forgone'[l]
    BY <1>1, <2>1 DEF StartupTypeOK
  <2> QED BY <1>1, <2>1, <2>2, <2>3 DEF LegacyIsKept
<1>10. CASE Migrate
  <2>1. /\ CopyPhase("skills") = "copy skills" /\ SweepPhase("skills") = "sweep skills"
        /\ CopyPhase("servers") = "copy servers" /\ SweepPhase("servers") = "sweep servers"
    BY DEF CopyPhase, SweepPhase
  <2> QED BY <1>1, <1>4, <1>5, <1>6, <1>7, <1>8, <1>10, <2>1 DEF Migrate
<1>11. CASE UNCHANGED startupVars
  <2>1. \A k \in Pools : FirstPage(k)' = FirstPage(k)
    BY <1>11 DEF startupVars, FirstPage, Held
  <2> QED BY <1>1, <1>11, <2>1 DEF startupVars, PageIsCopied, LegacyIsKept
<1> QED BY <1>3, <1>4, <1>9, <1>10, <1>11 DEF StartupNext

LEMMA StartupStepHolds == StartupInv /\ [StartupNext]_startupVars => StartupInv'
BY StartupTypeHolds, FilesInOrderHolds, OpenedSoFarHolds, BackendHolds, LegacyHolds DEF StartupInv

\* For any number of migration files and of starts that fall back or die: once the stores
\* are bound they are all in Postgres, under the whole schema, or all in memory
\* (Persistence.start, run_migrations).
THEOREM BackendTheorem == StartupSpec => []BackendIsWhole
<1>1. StartupInv => BackendIsWhole
  BY DEF StartupInv
<1> QED BY StartupInitHolds, StartupStepHolds, <1>1, PTL DEF StartupSpec

\* For any legacy names and any page: a name leaves the global pools only once the owner
\* has it, wherever a start died (migrate_global_skills, migrate_global_tool_servers).
THEOREM LegacyTheorem == StartupSpec => []LegacyIsKept
<1>1. StartupInv => LegacyIsKept
  BY DEF StartupInv
<1> QED BY StartupInitHolds, StartupStepHolds, <1>1, PTL DEF StartupSpec

-----------------------------------------------------------------------------
(* The hub. *)

\* q holds the last of the numbers up to n; q ascends.
IsLast(q, n) == q \in Seq(Nat) /\ Len(q) <= n /\ \A i \in 1 .. Len(q) : q[i] = n - Len(q) + i
Ascends(q) == \A i \in 1 .. Len(q) - 1 : q[i] < q[i + 1]

HubTypeOK ==
  /\ seq \in Nat
  /\ inbox \in [Client -> Seq(Nat)] /\ last \in [Client -> Nat]
  /\ seen \in [Client -> Seq(Nat)] /\ first \in [Client -> Nat] /\ missed \in [Client -> BOOLEAN]

RingIsLast == IsLast(recent, seq) /\ (seq > 0 => recent # <<>>)

\* What a client saw in this life of the process, and `last` with it.
SeenHolds(c) ==
  /\ first[c] \in 1 .. seq + 1 /\ Ascends(seen[c])
  /\ \A i \in 1 .. Len(seen[c]) : seen[c][i] \in 1 .. seq
  /\ seen[c] # <<>> => last[c] = seen[c][Len(seen[c])]
  /\ ~missed[c] =>
       IF seen[c] = <<>> THEN last[c] = 0
       ELSE /\ Len(seen[c]) = last[c] + 1 - first[c]
            /\ \A i \in 1 .. Len(seen[c]) : seen[c][i] = first[c] + i - 1

\* What the queue of a connected client holds goes on from there.
QueueHolds(c) == Connected(c) =>
  /\ Ascends(inbox[c])
  /\ \A i \in 1 .. Len(inbox[c]) : inbox[c][i] \in 1 .. seq
  /\ seen[c] # <<>> /\ inbox[c] # <<>> => last[c] < inbox[c][1]
  /\ ~missed[c] => /\ IsLast(inbox[c], seq)
                   /\ seq - Len(inbox[c]) = IF seen[c] = <<>> THEN first[c] - 1 ELSE last[c]

HubInv == HubTypeOK /\ RingIsLast /\ \A c \in Client : SeenHolds(c) /\ QueueHolds(c)

LEMMA HubInitHolds == HubInit => HubInv
BY DEF HubInit, HubInv, HubTypeOK, RingIsLast, IsLast, SeenHolds, QueueHolds, Ascends, Connected, Off

\* The replay is the last of the numbers given, after `since`.
LEMMA ReplayIsLast ==
  ASSUME seq \in Nat, IsLast(recent, seq), NEW n \in Nat
  PROVE  /\ IsLast(Replay(n), seq)
         /\ Len(Replay(n)) = IF n <= seq - Len(recent) THEN Len(recent)
                             ELSE IF n >= seq THEN 0 ELSE seq - n
<1> DEFINE L == Len(recent)
           old == {i \in DOMAIN recent : recent[i] <= n}
           m == IF n <= seq - L THEN 0 ELSE IF n >= seq THEN L ELSE n - (seq - L)
<1>1. L \in Nat /\ L <= seq /\ DOMAIN recent = 1 .. L /\ recent \in Seq(Nat)
      /\ \A i \in 1 .. L : recent[i] = seq - L + i
  BY DEF IsLast
<1>2. m \in 0 .. L /\ m \in Int
  BY <1>1
<1>3. \A i \in 1 .. L : recent[i] <= n <=> i <= m
  BY <1>1
<1>4. L - m = IF n <= seq - L THEN L ELSE IF n >= seq THEN 0 ELSE seq - n
  BY <1>1
<1>5. old = 1 .. m
  <2>1. \A i : i \in 1 .. m <=> i \in 1 .. L /\ i <= m
    BY <1>1, <1>2
  <2> HIDE DEF m
  <2> QED BY <1>1, <1>3, <2>1
<1> HIDE DEF m, L
<1>6. Cardinality(old) = m
  <2>1. 1 \in Int /\ (1 > m => m = 0) /\ m - 1 + 1 = m
    BY <1>1, <1>2
  <2>2. Cardinality(1 .. m) = IF 1 > m THEN 0 ELSE m - 1 + 1
    BY <1>2, <2>1, FS_Interval
  <2> QED BY <1>5, <2>1, <2>2
<1>7. Replay(n) = SubSeq(recent, m + 1, L)
  <2>1. 1 + m = m + 1 /\ old = {i \in DOMAIN recent : recent[i] <= n} /\ L = Len(recent)
    BY <1>2 DEF L
  <2> QED BY <1>6, <2>1 DEF Replay
<1> HIDE DEF old
<1>8. /\ Replay(n) \in Seq(Nat) /\ Len(Replay(n)) = L - m
      /\ \A i \in 1 .. L - m : Replay(n)[i] = recent[m + 1 + i - 1]
  <2>1. \A i \in m + 1 .. L : recent[i] \in Nat
    BY <1>1, <1>2
  <2>2. m + 1 \in Int /\ L \in Int /\ L - (m + 1) + 1 = L - m
        /\ (IF m + 1 <= L THEN L - (m + 1) + 1 ELSE 0) = L - m
    BY <1>1, <1>2
  <2>3. /\ SubSeq(recent, m + 1, L) \in Seq(Nat)
        /\ Len(SubSeq(recent, m + 1, L)) = IF m + 1 <= L THEN L - (m + 1) + 1 ELSE 0
        /\ \A i \in 1 .. L - (m + 1) + 1 : SubSeq(recent, m + 1, L)[i] = recent[m + 1 + i - 1]
    BY <2>1, <2>2, SubSeqProperties
  <2> QED BY <1>7, <2>2, <2>3
<1>9. \A i \in 1 .. L - m : recent[m + 1 + i - 1] = seq - (L - m) + i
  <2> SUFFICES ASSUME NEW i \in 1 .. L - m PROVE recent[m + 1 + i - 1] = seq - (L - m) + i
    OBVIOUS
  <2>1. m + 1 + i - 1 = m + i /\ m + i \in 1 .. L
    BY <1>1, <1>2
  <2> QED BY <1>1, <1>2, <2>1
<1>10. IsLast(Replay(n), seq)
  BY <1>1, <1>2, <1>8, <1>9 DEF IsLast
<1> QED BY <1>4, <1>8, <1>10 DEF L

\* One more number, or one number less, and a queue still ascends.
LEMMA QueueSteps ==
  ASSUME NEW q \in Seq(Nat), Ascends(q), NEW n \in Nat, \A i \in 1 .. Len(q) : q[i] \in 1 .. n
  PROVE  /\ LET r == Append(q, n + 1) IN
              /\ r \in Seq(Nat) /\ Ascends(r) /\ r # <<>> /\ Len(r) = Len(q) + 1
              /\ \A i \in 1 .. Len(r) : r[i] \in 1 .. n + 1
              /\ IsLast(q, n) => IsLast(r, n + 1)
              /\ r[1] = IF q = <<>> THEN n + 1 ELSE q[1]
         /\ q # <<>> => LET r == Tail(q) IN
              /\ r \in Seq(Nat) /\ Ascends(r) /\ Len(r) = Len(q) - 1
              /\ \A i \in 1 .. Len(r) : r[i] \in 1 .. n
              /\ IsLast(q, n) => IsLast(r, n) /\ Head(q) = n - Len(q) + 1
              /\ r # <<>> => Head(q) < r[1]
              /\ Head(q) \in 1 .. n /\ Head(q) = q[1]
<1>1. Len(q) \in Nat /\ (q = <<>> <=> Len(q) = 0) /\ n + 1 \in Nat
      /\ \A i \in 1 .. Len(q) : q[i] \in Nat /\ q[i] <= n /\ q[i] >= 1
  BY EmptySeq, LenProperties
<1>2. ASSUME NEW r, r = Append(q, n + 1)
      PROVE  /\ r \in Seq(Nat) /\ Ascends(r) /\ r # <<>> /\ Len(r) = Len(q) + 1
             /\ \A i \in 1 .. Len(r) : r[i] \in 1 .. n + 1
             /\ IsLast(q, n) => IsLast(r, n + 1)
             /\ r[1] = IF q = <<>> THEN n + 1 ELSE q[1]
  <2>1. /\ r \in Seq(Nat) /\ r # <<>> /\ Len(r) = Len(q) + 1
        /\ \A i \in 1 .. Len(q) : r[i] = q[i]
        /\ r[Len(q) + 1] = n + 1
    BY <1>1, <1>2, AppendProperties
  <2>a. \A i \in 1 .. Len(r) : i \in 1 .. Len(q) \/ i = Len(q) + 1
    BY <1>1, <2>1
  <2>2. \A i \in 1 .. Len(r) : r[i] \in 1 .. n + 1
    <3> SUFFICES ASSUME NEW i \in 1 .. Len(r) PROVE r[i] \in 1 .. n + 1
      OBVIOUS
    <3>1. CASE i \in 1 .. Len(q)
      <4>1. r[i] = q[i] /\ q[i] \in 1 .. n
        BY <2>1, <3>1
      <4> QED BY <4>1
    <3>2. CASE i = Len(q) + 1
      BY <2>1, <3>2
    <3> QED BY <2>a, <3>1, <3>2
  <2>3. Ascends(r)
    <3> SUFFICES ASSUME NEW i \in 1 .. Len(r) - 1 PROVE r[i] < r[i + 1]
      BY DEF Ascends
    <3>1. i \in 1 .. Len(q) /\ r[i] = q[i] /\ q[i] \in 1 .. n
      BY <1>1, <2>1
    <3>2. CASE i = Len(q)
      BY <1>1, <2>1, <3>1, <3>2
    <3>3. CASE i # Len(q)
      <4>1. i \in 1 .. Len(q) - 1 /\ i + 1 \in 1 .. Len(q)
        BY <1>1, <3>1, <3>3
      <4>2. r[i + 1] = q[i + 1] /\ q[i] < q[i + 1]
        BY <2>1, <4>1 DEF Ascends
      <4> QED BY <3>1, <4>2
    <3> QED BY <3>2, <3>3
  <2>4. IsLast(q, n) => IsLast(r, n + 1)
    <3> SUFFICES ASSUME IsLast(q, n), NEW i \in 1 .. Len(r) PROVE Len(q) <= n /\ r[i] = n + 1 - Len(r) + i
      BY <1>1, <2>1 DEF IsLast
    <3>1. CASE i \in 1 .. Len(q)
      <4>1. r[i] = q[i] /\ q[i] = n - Len(q) + i
        BY <2>1, <3>1 DEF IsLast
      <4> QED BY <1>1, <2>1, <4>1 DEF IsLast
    <3>2. CASE i = Len(q) + 1
      BY <1>1, <2>1, <3>2 DEF IsLast
    <3> QED BY <2>a, <3>1, <3>2
  <2>5. r[1] = IF q = <<>> THEN n + 1 ELSE q[1]
    BY <1>1, <2>1
  <2> QED BY <2>1, <2>2, <2>3, <2>4, <2>5
<1>3. ASSUME q # <<>>, NEW r, r = Tail(q)
      PROVE  /\ r \in Seq(Nat) /\ Ascends(r) /\ Len(r) = Len(q) - 1
             /\ \A i \in 1 .. Len(r) : r[i] \in 1 .. n
             /\ IsLast(q, n) => IsLast(r, n) /\ Head(q) = n - Len(q) + 1
             /\ r # <<>> => Head(q) < r[1]
             /\ Head(q) \in 1 .. n /\ Head(q) = q[1]
  <2>1. /\ r \in Seq(Nat) /\ Len(r) = Len(q) - 1 /\ Head(q) = q[1] /\ Len(q) > 0
        /\ \A i \in 1 .. Len(r) : r[i] = q[i + 1]
    BY <1>1, <1>3, HeadTailProperties
  <2>a. \A i \in 1 .. Len(r) : i + 1 \in 1 .. Len(q)
    BY <1>1, <2>1
  <2>2. (\A i \in 1 .. Len(r) : r[i] \in 1 .. n) /\ Head(q) \in 1 .. n
    <3>1. 1 \in 1 .. Len(q)
      BY <1>1, <2>1
    <3> QED BY <2>1, <2>a, <3>1
  <2>3. Ascends(r)
    <3> SUFFICES ASSUME NEW i \in 1 .. Len(r) - 1 PROVE r[i] < r[i + 1]
      BY DEF Ascends
    <3>1. i \in 1 .. Len(r) /\ i + 1 \in 1 .. Len(r) /\ i + 1 \in 1 .. Len(q) - 1
      BY <1>1, <2>1
    <3>2. r[i] = q[i + 1] /\ r[i + 1] = q[i + 1 + 1] /\ q[i + 1] < q[i + 1 + 1]
      BY <2>1, <3>1 DEF Ascends
    <3> QED BY <3>2
  <2>4. IsLast(q, n) => IsLast(r, n) /\ Head(q) = n - Len(q) + 1
    <3> SUFFICES ASSUME IsLast(q, n)
                 PROVE  Len(r) <= n /\ (\A i \in 1 .. Len(r) : r[i] = n - Len(r) + i)
                        /\ Head(q) = n - Len(q) + 1
      BY <2>1 DEF IsLast
    <3>1. Len(q) <= n /\ \A i \in 1 .. Len(q) : q[i] = n - Len(q) + i
      BY DEF IsLast
    <3>2. \A i \in 1 .. Len(r) : r[i] = n - Len(q) + (i + 1)
      BY <2>1, <2>a, <3>1
    <3>3. 1 \in 1 .. Len(q)
      BY <1>1, <2>1
    <3> QED BY <1>1, <2>1, <3>1, <3>2, <3>3
  <2>5. r # <<>> => Head(q) < r[1]
    <3> SUFFICES ASSUME r # <<>> PROVE Head(q) < r[1]
      OBVIOUS
    <3>1. Len(r) > 0
      BY <2>1, EmptySeq
    <3>2. 1 \in 1 .. Len(r) /\ 1 \in 1 .. Len(q) - 1 /\ r[1] = q[1 + 1] /\ q[1] < q[1 + 1]
      BY <1>1, <2>1, <3>1 DEF Ascends
    <3> QED BY <2>1, <3>2
  <2> QED BY <2>1, <2>2, <2>3, <2>4, <2>5
<1> QED BY <1>2, <1>3

\* A client none of whose state a step touches, but for the ring's.
LEMMA SameClient ==
  ASSUME NEW c \in Client, SeenHolds(c), QueueHolds(c), seq' = seq,
         inbox'[c] = inbox[c], last'[c] = last[c], seen'[c] = seen[c],
         first'[c] = first[c], missed'[c] = missed[c]
  PROVE  SeenHolds(c)' /\ QueueHolds(c)'
<1>1. SeenHolds(c)'
  BY DEF SeenHolds, Ascends
<1>2. QueueHolds(c)'
  BY DEF QueueHolds, Ascends, IsLast, Connected, Off
<1> QED BY <1>1, <1>2

LEMMA PublishHolds == HubInv /\ PublishEvent => HubInv'
<1> SUFFICES ASSUME HubInv, PublishEvent PROVE HubInv'
  OBVIOUS
<1> USE HubAssumption
<1>1. seq \in Nat /\ seq' = seq + 1 /\ last' = last /\ seen' = seen /\ first' = first
  BY DEF HubInv, HubTypeOK, PublishEvent
<1>2. RingIsLast'
  <2> DEFINE r == Append(recent, seq + 1)
  <2>1. recent \in Seq(Nat) /\ IsLast(recent, seq) /\ seq + 1 \in Nat /\ Len(recent) \in Nat
    BY <1>1 DEF HubInv, RingIsLast, IsLast
  <2>2. Ascends(recent) /\ \A i \in 1 .. Len(recent) : recent[i] \in 1 .. seq
    <3>1. Len(recent) <= seq /\ \A i \in 1 .. Len(recent) : recent[i] = seq - Len(recent) + i
      BY <2>1 DEF IsLast
    <3>2. \A i \in 1 .. Len(recent) : recent[i] \in 1 .. seq
      BY <1>1, <2>1, <3>1
    <3>3. Ascends(recent)
      <4> SUFFICES ASSUME NEW i \in 1 .. Len(recent) - 1 PROVE recent[i] < recent[i + 1]
        BY DEF Ascends
      <4>1. i \in 1 .. Len(recent) /\ i + 1 \in 1 .. Len(recent)
        BY <2>1
      <4> QED BY <1>1, <2>1, <3>1, <4>1
    <3> QED BY <3>2, <3>3
  <2>3. /\ r \in Seq(Nat) /\ r # <<>> /\ Ascends(r) /\ Len(r) = Len(recent) + 1
        /\ (\A i \in 1 .. Len(r) : r[i] \in 1 .. seq + 1) /\ IsLast(r, seq + 1)
    BY <1>1, <2>1, <2>2, QueueSteps
  <2>4. recent' = IF Len(r) > RecentLimit THEN Tail(r) ELSE r
    BY <1>1 DEF PublishEvent
  <2> HIDE DEF r
  <2>5. IsLast(Tail(r), seq + 1) /\ Len(Tail(r)) = Len(recent) /\ Tail(r) \in Seq(Nat)
    BY <1>1, <2>1, <2>3, QueueSteps
  <2>6. Len(r) > RecentLimit => Tail(r) # <<>>
    <3> SUFFICES ASSUME Len(r) > RecentLimit, Tail(r) = <<>> PROVE FALSE
      OBVIOUS
    <3>1. Len(Tail(r)) > 0
      BY <2>1, <2>3, <2>5
    <3>2. Len(Tail(r)) = Len(<<>>)
      OBVIOUS
    <3>3. Len(<<>>) = 0
      OBVIOUS
    <3> HIDE DEF HubInv
    <3> QED BY <3>1, <3>2, <3>3
  <2> QED BY <1>1, <2>3, <2>4, <2>5, <2>6 DEF RingIsLast
<1>3. ASSUME NEW c \in Client
      PROVE  inbox'[c] \in Seq(Nat) /\ missed'[c] \in BOOLEAN /\ SeenHolds(c)' /\ QueueHolds(c)'
  <2> DEFINE q == inbox[c]
  <2>1. /\ q \in Seq(Nat) /\ last[c] \in Nat /\ seen[c] \in Seq(Nat) /\ first[c] \in Nat
        /\ missed[c] \in BOOLEAN /\ SeenHolds(c) /\ QueueHolds(c)
        /\ Len(seen[c]) \in Nat /\ Len(q) \in Nat
    BY DEF HubInv, HubTypeOK
  <2>2. inbox'[c] = (IF Connected(c) /\ ~Full(q) THEN Append(q, seq + 1) ELSE q)
        /\ missed'[c] = (missed[c] \/ (Connected(c) /\ Full(q)))
    BY <1>1 DEF PublishEvent
  <2>3. SeenHolds(c)'
    <3>1. missed[c] => missed'[c]
      BY <2>2
    <3>2. (\A i \in 1 .. Len(seen[c]) : seen[c][i] \in 1 .. seq + 1) /\ first[c] \in 1 .. seq + 2
      BY <1>1, <2>1 DEF SeenHolds
    <3> QED BY <1>1, <2>1, <3>1, <3>2 DEF SeenHolds, Ascends
  <2>4. CASE ~Connected(c)
    <3>1. inbox'[c] = Off
      BY <2>2, <2>4 DEF Connected
    <3> QED BY <2>1, <2>2, <2>3, <2>4, <3>1 DEF QueueHolds, Connected
  <2>5. CASE Connected(c) /\ Full(q)
    <3>1. inbox'[c] = q /\ missed'[c]
      BY <2>2, <2>5
    <3>2. \A i \in 1 .. Len(q) : q[i] \in 1 .. seq + 1
      BY <1>1, <2>1, <2>5 DEF QueueHolds
    <3>3. QueueHolds(c)'
      BY <1>1, <2>1, <2>5, <3>1, <3>2 DEF QueueHolds, Ascends
    <3>4. missed'[c] \in BOOLEAN
      BY <2>1, <2>2
    <3> QED BY <2>1, <2>3, <3>1, <3>3, <3>4
  <2>6. CASE Connected(c) /\ ~Full(q)
    <3> DEFINE r == Append(q, seq + 1)
    <3>1. inbox'[c] = r /\ missed'[c] = missed[c]
      BY <2>1, <2>2, <2>6
    <3>2. Ascends(q) /\ \A i \in 1 .. Len(q) : q[i] \in 1 .. seq
      BY <2>1, <2>6 DEF QueueHolds
    <3>3. /\ r \in Seq(Nat) /\ Ascends(r) /\ r # <<>> /\ Len(r) = Len(q) + 1
          /\ (\A i \in 1 .. Len(r) : r[i] \in 1 .. seq + 1)
          /\ (IsLast(q, seq) => IsLast(r, seq + 1))
          /\ r[1] = IF q = <<>> THEN seq + 1 ELSE q[1]
      BY <1>1, <2>1, <3>2, QueueSteps
    <3> HIDE DEF r
    <3>4. seen[c] # <<>> => last[c] < r[1]
      <4> SUFFICES ASSUME seen[c] # <<>> PROVE last[c] < r[1]
        OBVIOUS
      <4>1. Len(seen[c]) \in 1 .. Len(seen[c])
        BY <2>1, EmptySeq
      <4>2. last[c] \in 1 .. seq
        BY <2>1, <4>1 DEF SeenHolds
      <4>3. q # <<>> => last[c] < q[1]
        BY <2>1, <2>6 DEF QueueHolds
      <4> QED BY <1>1, <2>1, <3>3, <4>2, <4>3
    <3>5. ~missed[c] => seq + 1 - Len(r) = seq - Len(q)
      BY <1>1, <2>1, <3>3
    <3>6. ~missed[c] => IsLast(r, seq + 1) /\ seq + 1 - Len(r) = IF seen[c] = <<>> THEN first[c] - 1 ELSE last[c]
      BY <2>1, <2>6, <3>3, <3>5 DEF QueueHolds
    <3>8. seq' = seq + 1 /\ seen' = seen /\ last' = last /\ first' = first
      BY <1>1
    <3>9. Ascends(inbox'[c]) /\ \A i \in 1 .. Len(inbox'[c]) : inbox'[c][i] \in 1 .. seq'
      BY <3>1, <3>3, <3>8
    <3>10. seen'[c] # <<>> => last'[c] < inbox'[c][1]
      BY <3>1, <3>4, <3>8
    <3>11. ~missed'[c] => IsLast(inbox'[c], seq')
      BY <3>1, <3>6, <3>8
    <3>12. ~missed'[c] => seq' - Len(inbox'[c]) = IF seen'[c] = <<>> THEN first'[c] - 1 ELSE last'[c]
      <4>1. Len(inbox'[c]) = Len(r) /\ seen'[c] = seen[c] /\ first'[c] = first[c] /\ last'[c] = last[c]
        BY <3>1, <3>8
      <4>2. ~missed'[c] => seq + 1 - Len(r) = IF seen[c] = <<>> THEN first[c] - 1 ELSE last[c]
        BY <3>1, <3>6
      <4>3. seq' - Len(inbox'[c]) = seq + 1 - Len(r)
        BY <1>1, <3>8, <4>1
      <4> HIDE DEF r
      <4> QED BY <4>1, <4>2, <4>3
    <3>7. QueueHolds(c)'
      BY <3>9, <3>10, <3>11, <3>12 DEF QueueHolds, Ascends, IsLast
    <3> QED BY <2>1, <2>3, <3>1, <3>3, <3>7
  <2> QED BY <2>4, <2>5, <2>6
<1>4. HubTypeOK'
  <2>1. inbox' = [c \in Client |-> inbox'[c]] /\ missed' = [c \in Client |-> missed'[c]]
    BY DEF PublishEvent
  <2>2. inbox' \in [Client -> Seq(Nat)] /\ missed' \in [Client -> BOOLEAN]
    BY <1>3, <2>1
  <2> QED BY <1>1, <2>2 DEF HubInv, HubTypeOK
<1> QED BY <1>2, <1>3, <1>4 DEF HubInv

LEMMA TakeHolds == ASSUME NEW c \in Client, HubInv, TakeEvent(c) PROVE HubInv'
<1> DEFINE q == inbox[c]
           h == Head(inbox[c])
           t == Tail(inbox[c])
           s == Append(seen[c], h)
<1>1. /\ seq \in Nat /\ q \in Seq(Nat) /\ last[c] \in Nat /\ seen[c] \in Seq(Nat) /\ first[c] \in Nat
      /\ SeenHolds(c) /\ QueueHolds(c) /\ Connected(c) /\ q # <<>>
      /\ Len(seen[c]) \in Nat /\ Len(q) \in Nat /\ Len(q) > 0
  BY EmptySeq DEF HubInv, HubTypeOK, TakeEvent
<1>2. /\ seq' = seq /\ recent' = recent /\ first' = first /\ missed' = missed
      /\ last' = [last EXCEPT ![c] = h] /\ seen' = [seen EXCEPT ![c] = s] /\ inbox' = [inbox EXCEPT ![c] = t]
  BY DEF HubInv, HubTypeOK, TakeEvent
<1>3. Ascends(q) /\ (\A i \in 1 .. Len(q) : q[i] \in 1 .. seq) /\ (seen[c] # <<>> => last[c] < q[1])
  BY <1>1 DEF QueueHolds
<1>4. /\ t \in Seq(Nat) /\ Ascends(t) /\ Len(t) = Len(q) - 1
      /\ (\A i \in 1 .. Len(t) : t[i] \in 1 .. seq)
      /\ (IsLast(q, seq) => IsLast(t, seq) /\ h = seq - Len(q) + 1)
      /\ (t # <<>> => h < t[1]) /\ h \in 1 .. seq /\ h = q[1]
  BY <1>1, <1>3, QueueSteps
<1>a. h \in Nat
  BY <1>1, <1>4
<1> HIDE DEF t, h
<1>5. /\ s \in Seq(Nat) /\ s # <<>> /\ Len(s) = Len(seen[c]) + 1
      /\ (\A i \in 1 .. Len(seen[c]) : s[i] = seen[c][i]) /\ s[Len(seen[c]) + 1] = h
  BY <1>1, <1>a, AppendProperties, ZenonT(40)
<1> HIDE DEF s
<1>6. /\ last'[c] = h /\ seen'[c] = s /\ inbox'[c] = t /\ first'[c] = first[c] /\ missed'[c] = missed[c]
      /\ \A d \in Client \ {c} : inbox'[d] = inbox[d] /\ last'[d] = last[d] /\ seen'[d] = seen[d]
                                 /\ first'[d] = first[d] /\ missed'[d] = missed[d]
  BY <1>2 DEF HubInv, HubTypeOK
<1>7. ~missed[c] => IsLast(t, seq) /\ seq - Len(t) = h
  <2>1. ~missed[c] => IsLast(q, seq)
    BY <1>1 DEF QueueHolds
  <2>2. h = seq - Len(q) + 1 => seq - Len(t) = h
    BY <1>1, <1>4
  <2> QED BY <1>4, <2>1, <2>2
<1>8. SeenHolds(c)'
  <2>1. \A i \in 1 .. Len(s) : i \in 1 .. Len(seen[c]) \/ i = Len(seen[c]) + 1
    BY <1>1, <1>5
  <2>2. \A i \in 1 .. Len(s) : s[i] \in 1 .. seq
    BY <1>1, <1>4, <1>5, <2>1 DEF SeenHolds
  <2>3. Ascends(s)
    <3> SUFFICES ASSUME NEW i \in 1 .. Len(s) - 1 PROVE s[i] < s[i + 1]
      BY DEF Ascends
    <3>1. i \in 1 .. Len(seen[c]) /\ s[i] = seen[c][i]
      BY <1>1, <1>5, SMTT(30)
    <3>2. CASE i = Len(seen[c])
      <4>1. s[i] = last[c] /\ s[i + 1] = h /\ seen[c] # <<>>
        BY <1>1, <1>5, <3>1, <3>2 DEF SeenHolds
      <4> QED BY <1>3, <1>4, <4>1
    <3>3. CASE i # Len(seen[c])
      <4>1. i \in 1 .. Len(seen[c]) - 1 /\ i + 1 \in 1 .. Len(seen[c])
        BY <1>1, <3>1, <3>3
      <4>2. s[i + 1] = seen[c][i + 1] /\ seen[c][i] < seen[c][i + 1]
        BY <1>1, <1>5, <4>1 DEF SeenHolds, Ascends
      <4> QED BY <3>1, <4>2
    <3> QED BY <3>2, <3>3
  <2>x. h \in Nat /\ last[c] \in Nat /\ first[c] \in Nat /\ Len(seen[c]) \in Nat /\ Len(s) = Len(seen[c]) + 1
    BY <1>1, <1>a, <1>5
  <2>4. ~missed[c] => /\ Len(s) = h + 1 - first[c]
                      /\ \A i \in 1 .. Len(s) : s[i] = first[c] + i - 1
    <3> SUFFICES ASSUME ~missed[c]
                 PROVE  Len(s) = h + 1 - first[c] /\ \A i \in 1 .. Len(s) : s[i] = first[c] + i - 1
      OBVIOUS
    <3>1. h = (IF seen[c] = <<>> THEN first[c] - 1 ELSE last[c]) + 1
      <4>1. /\ IsLast(q, seq)
            /\ seq - Len(q) = IF seen[c] = <<>> THEN first[c] - 1 ELSE last[c]
        BY <1>1 DEF QueueHolds
      <4>2. h = seq - Len(q) + 1
        BY <1>4, <4>1
      <4> QED BY <1>1, <4>1, <4>2
    <3>2. Len(s) = h + 1 - first[c]
      <4>1. CASE seen[c] = <<>>
        <5>1. Len(seen[c]) = 0
          BY <4>1, EmptySeq
        <5> QED BY <1>1, <1>5, <3>1, <4>1, <5>1
      <4>2. CASE seen[c] # <<>>
        <5>1. Len(seen[c]) = last[c] + 1 - first[c]
          BY <1>1, <4>2 DEF SeenHolds
        <5> QED BY <2>x, <3>1, <4>2, <5>1
      <4> QED BY <4>1, <4>2
    <3>3. \A i \in 1 .. Len(seen[c]) : seen[c][i] = first[c] + i - 1
      BY <1>1, SMTT(30) DEF SeenHolds
    <3>4. h = first[c] + (Len(seen[c]) + 1) - 1
      BY <2>x, <3>2
    <3> QED BY <1>5, <2>1, <3>2, <3>3, <3>4
  <2>5. s[Len(s)] = h /\ first[c] \in 1 .. seq + 1
    BY <1>1, <1>5 DEF SeenHolds
  <2> QED BY <1>2, <1>5, <1>6, <2>2, <2>3, <2>4, <2>5 DEF SeenHolds, Ascends
<1>9. QueueHolds(c)'
  BY <1>2, <1>4, <1>5, <1>6, <1>7 DEF QueueHolds, Ascends, IsLast
<1>10. ASSUME NEW d \in Client \ {c} PROVE SeenHolds(d)' /\ QueueHolds(d)'
  <2>1. SeenHolds(d) /\ QueueHolds(d) /\ d \in Client
    BY DEF HubInv
  <2> QED BY <1>2, <1>6, <2>1, SameClient
<1>11. HubTypeOK'
  <2>1. h \in Nat
    BY <1>4
  <2> QED BY <1>2, <1>4, <1>5, <2>1 DEF HubInv, HubTypeOK
<1>12. RingIsLast'
  BY <1>2 DEF HubInv, RingIsLast, IsLast
<1>13. \A d \in Client : SeenHolds(d)' /\ QueueHolds(d)'
  BY <1>8, <1>9, <1>10
<1> QED BY <1>11, <1>12, <1>13 DEF HubInv

LEMMA SubscribeHolds == ASSUME NEW c \in Client, HubInv, SubscribeClient(c) PROVE HubInv'
<1> DEFINE R == Replay(last[c])
           k == IF Full(R) THEN QueueBound ELSE Len(R)
           q == SubSeq(R, 1, k)
           f == IF last[c] = 0 /\ recent # <<>> THEN Head(recent) ELSE first[c]
           gone == missed[c] \/ Len(R) > QueueBound \/ (last[c] > 0 /\ seq > last[c] + Len(R))
<1> USE HubAssumption
<1>1. /\ seq \in Nat /\ last[c] \in Nat /\ seen[c] \in Seq(Nat) /\ first[c] \in Nat /\ missed[c] \in BOOLEAN
      /\ SeenHolds(c) /\ IsLast(recent, seq) /\ (seq > 0 => recent # <<>>)
      /\ Len(seen[c]) \in Nat /\ recent \in Seq(Nat) /\ Len(recent) \in Nat /\ Len(recent) <= seq
      /\ (recent # <<>> => Len(recent) > 0)
  BY EmptySeq DEF HubInv, HubTypeOK, RingIsLast, IsLast
<1>2. /\ seq' = seq /\ recent' = recent /\ last' = last /\ seen' = seen
      /\ inbox' = [inbox EXCEPT ![c] = q] /\ first' = [first EXCEPT ![c] = f]
      /\ missed' = [missed EXCEPT ![c] = gone]
  BY DEF HubInv, HubTypeOK, SubscribeClient
<1>3. /\ IsLast(R, seq) /\ R \in Seq(Nat) /\ Len(R) \in Nat /\ Len(R) <= seq
      /\ \A i \in 1 .. Len(R) : R[i] = seq - Len(R) + i
      /\ Len(R) = IF last[c] <= seq - Len(recent) THEN Len(recent)
                  ELSE IF last[c] >= seq THEN 0 ELSE seq - last[c]
  <2>1. /\ IsLast(R, seq)
        /\ Len(R) = IF last[c] <= seq - Len(recent) THEN Len(recent)
                    ELSE IF last[c] >= seq THEN 0 ELSE seq - last[c]
    BY <1>1, ReplayIsLast
  <2> HIDE DEF R
  <2> QED BY <2>1 DEF IsLast
<1> HIDE DEF R
<1>4. k \in Nat /\ k <= Len(R) /\ (Len(R) <= QueueBound => k = Len(R))
  BY <1>3 DEF Full
<1> HIDE DEF k
<1>5. /\ q \in Seq(Nat) /\ Len(q) = k
      /\ \A i \in 1 .. k : q[i] = seq - Len(R) + i
  <2>1. 1 \in Int /\ k \in Int /\ (\A i \in 1 .. k : R[i] \in Nat) /\ k - 1 + 1 = k
        /\ (IF 1 <= k THEN k - 1 + 1 ELSE 0) = k
    BY <1>1, <1>3, <1>4, SMTT(30)
  <2>2. /\ q \in Seq(Nat) /\ Len(q) = IF 1 <= k THEN k - 1 + 1 ELSE 0
        /\ \A i \in 1 .. k - 1 + 1 : q[i] = R[1 + i - 1]
    BY <2>1, SubSeqProperties
  <2>3. \A i \in 1 .. k : i \in 1 .. Len(R) /\ 1 + i - 1 = i
    BY <1>3, <1>4
  <2> QED BY <1>3, <2>1, <2>2, <2>3
<1> HIDE DEF q
<1>a. seq \in Nat /\ Len(R) \in Nat /\ Len(R) <= seq /\ k \in Nat /\ k <= Len(R)
  BY <1>1, <1>3, <1>4
<1>6. Ascends(q) /\ (\A i \in 1 .. Len(q) : q[i] \in 1 .. seq)
  <2>1. ASSUME NEW i \in 1 .. Len(q) PROVE q[i] \in 1 .. seq
    <3>1. i \in 1 .. k /\ q[i] = seq - Len(R) + i
      BY <1>5
    <3> QED BY <1>a, <3>1
  <2>2. ASSUME NEW i \in 1 .. Len(q) - 1 PROVE q[i] < q[i + 1]
    <3>1. i \in 1 .. k /\ i + 1 \in 1 .. k
      BY <1>4, <1>5
    <3>2. q[i] = seq - Len(R) + i /\ q[i + 1] = seq - Len(R) + (i + 1)
      BY <1>5, <3>1
    <3> QED BY <1>a, <3>1, <3>2
  <2> QED BY <2>1, <2>2 DEF Ascends
<1>7. seen[c] # <<>> => last[c] \in 1 .. seq /\ Len(seen[c]) > 0
  <2> SUFFICES ASSUME seen[c] # <<>> PROVE last[c] \in 1 .. seq /\ Len(seen[c]) > 0
    OBVIOUS
  <2>1. Len(seen[c]) \in 1 .. Len(seen[c])
    BY <1>1, EmptySeq
  <2> QED BY <1>1, <2>1 DEF SeenHolds
<1>8. q # <<>> => last[c] < q[1]
  <2> SUFFICES ASSUME q # <<>> PROVE last[c] < q[1]
    OBVIOUS
  <2>1. 1 \in 1 .. k
    BY <1>4, <1>5, EmptySeq
  <2>2. q[1] = seq - Len(R) + 1 /\ Len(R) > 0
    BY <1>3, <1>4, <1>5, <2>1
  <2> QED BY <1>1, <1>3, <2>2
<1>9. recent # <<>> => Head(recent) = seq - Len(recent) + 1
  <2> SUFFICES ASSUME recent # <<>> PROVE Head(recent) = seq - Len(recent) + 1
    OBVIOUS
  <2>1. 1 \in 1 .. Len(recent) /\ Head(recent) = recent[1]
    BY <1>1
  <2> QED BY <1>1, <2>1 DEF IsLast
<1>10. f \in 1 .. seq + 1 /\ f \in Nat /\ (seen[c] # <<>> => f = first[c])
  <2>1. recent # <<>> => Head(recent) \in 1 .. seq + 1
    BY <1>1, <1>9
  <2>2. first[c] \in 1 .. seq + 1
    BY <1>1 DEF SeenHolds
  <2> QED BY <1>1, <1>7, <2>1, <2>2
<1>11. ~gone => /\ ~missed[c] /\ q = R
                /\ seq - Len(q) = IF seen[c] = <<>> THEN f - 1 ELSE last[c]
  <2> SUFFICES ASSUME ~gone
               PROVE  ~missed[c] /\ q = R /\ seq - Len(q) = IF seen[c] = <<>> THEN f - 1 ELSE last[c]
    OBVIOUS
  <2>1. ~missed[c] /\ k = Len(R) /\ (last[c] > 0 => seq <= last[c] + Len(R))
    BY <1>1, <1>3, <1>4
  <2>2. q = R
    <3>1. Len(q) = Len(R) /\ \A i \in 1 .. Len(q) : q[i] = R[i]
      BY <1>3, <1>5, <2>1
    <3> QED BY <1>3, <1>5, <3>1, SeqEqual
  <2>3. CASE seen[c] = <<>>
    <3>1. last[c] = 0
      BY <1>1, <2>1, <2>3 DEF SeenHolds
    <3>2. Len(R) = Len(recent)
      BY <1>1, <1>3, <3>1
    <3>3. CASE recent = <<>>
      <4>1. seq = 0 /\ f = first[c] /\ first[c] \in 1 .. seq + 1
        BY <1>1, <3>3 DEF SeenHolds
      <4> QED BY <1>1, <1>3, <2>1, <2>2, <2>3, <4>1
    <3>4. CASE recent # <<>>
      BY <1>1, <1>9, <2>1, <2>2, <2>3, <3>1, <3>2, <3>4
    <3> QED BY <3>3, <3>4
  <2>4. CASE seen[c] # <<>>
    <3>1. last[c] \in 1 .. seq /\ seq <= last[c] + Len(R)
      BY <1>7, <2>1, <2>4
    <3>2. Len(R) = seq - last[c]
      BY <1>1, <1>3, <3>1
    <3> QED BY <1>1, <2>1, <2>2, <2>4, <3>1, <3>2
  <2> QED BY <2>1, <2>2, <2>3, <2>4
<1>12. gone \in BOOLEAN
  BY <1>1
<1> HIDE DEF gone, f
<1>13. /\ last'[c] = last[c] /\ seen'[c] = seen[c] /\ inbox'[c] = q /\ first'[c] = f /\ missed'[c] = gone
       /\ \A d \in Client \ {c} : inbox'[d] = inbox[d] /\ last'[d] = last[d] /\ seen'[d] = seen[d]
                                  /\ first'[d] = first[d] /\ missed'[d] = missed[d]
  BY <1>2 DEF HubInv, HubTypeOK
<1>14. SeenHolds(c)'
  <2>1. ~gone => IF seen[c] = <<>> THEN last[c] = 0
                 ELSE /\ Len(seen[c]) = last[c] + 1 - f
                      /\ \A i \in 1 .. Len(seen[c]) : seen[c][i] = f + i - 1
    BY <1>1, <1>10, <1>11 DEF SeenHolds
  <2>2. Ascends(seen[c]) /\ (\A i \in 1 .. Len(seen[c]) : seen[c][i] \in 1 .. seq)
        /\ (seen[c] # <<>> => last[c] = seen[c][Len(seen[c])])
    BY <1>1 DEF SeenHolds
  <2> QED BY <1>2, <1>10, <1>13, <2>1, <2>2 DEF SeenHolds, Ascends
<1>15. QueueHolds(c)'
  <2>1. ~gone => IsLast(q, seq) /\ seq - Len(q) = IF seen[c] = <<>> THEN f - 1 ELSE last[c]
    BY <1>3, <1>11
  <2> QED BY <1>2, <1>6, <1>8, <1>13, <2>1 DEF QueueHolds, Ascends, IsLast
<1>16. ASSUME NEW d \in Client \ {c} PROVE SeenHolds(d)' /\ QueueHolds(d)'
  <2>1. SeenHolds(d) /\ QueueHolds(d) /\ d \in Client
    BY DEF HubInv
  <2> QED BY <1>2, <1>13, <2>1, SameClient
<1>17. HubTypeOK'
  BY <1>2, <1>5, <1>10, <1>12 DEF HubInv, HubTypeOK
<1>18. RingIsLast'
  BY <1>2 DEF HubInv, RingIsLast, IsLast
<1>19. \A d \in Client : SeenHolds(d)' /\ QueueHolds(d)'
  BY <1>14, <1>15, <1>16
<1> QED BY <1>17, <1>18, <1>19 DEF HubInv

LEMMA UnsubscribeHolds == ASSUME NEW c \in Client, HubInv, UnsubscribeClient(c) PROVE HubInv'
<1>1. /\ seq' = seq /\ recent' = recent /\ last' = last /\ seen' = seen /\ first' = first
      /\ missed' = missed /\ inbox' = [inbox EXCEPT ![c] = Off]
  BY DEF UnsubscribeClient, hubHistory
<1>2. inbox'[c] = Off /\ \A d \in Client \ {c} : inbox'[d] = inbox[d]
  BY <1>1 DEF HubInv, HubTypeOK
<1>3. HubTypeOK' /\ RingIsLast'
  BY <1>1 DEF HubInv, HubTypeOK, RingIsLast, IsLast, Off
<1>4. ASSUME NEW d \in Client PROVE SeenHolds(d)' /\ QueueHolds(d)'
  <2>1. SeenHolds(d) /\ QueueHolds(d)
    BY DEF HubInv
  <2>2. CASE d = c
    <3>1. SeenHolds(d)'
      BY <1>1, <2>1 DEF SeenHolds, Ascends
    <3> QED BY <1>2, <2>2, <3>1 DEF QueueHolds, Connected, Off
  <2>3. CASE d # c
    BY <1>1, <1>2, <2>1, <2>3, SameClient
  <2> QED BY <2>2, <2>3
<1> QED BY <1>3, <1>4 DEF HubInv

LEMMA RestartHolds == HubInv /\ RestartHub => HubInv'
<1> SUFFICES ASSUME HubInv, RestartHub PROVE HubInv'
  OBVIOUS
<1>1. /\ seq' = 0 /\ recent' = <<>> /\ last' = last /\ inbox' = [c \in Client |-> Off]
      /\ seen' = [c \in Client |-> <<>>] /\ first' = [c \in Client |-> 1]
      /\ missed' = [c \in Client |-> last[c] > 0] /\ last \in [Client -> Nat]
  BY DEF RestartHub, HubInv, HubTypeOK
<1>2. HubTypeOK'
  BY <1>1 DEF HubTypeOK, Off
<1>3. RingIsLast'
  BY <1>1 DEF RingIsLast, IsLast
<1>4. ASSUME NEW c \in Client PROVE SeenHolds(c)' /\ QueueHolds(c)'
  <2>1. inbox'[c] = Off /\ seen'[c] = <<>> /\ first'[c] = 1 /\ missed'[c] = (last[c] > 0)
        /\ last'[c] = last[c] /\ last[c] \in Nat
    BY <1>1
  <2>2. QueueHolds(c)'
    BY <2>1 DEF QueueHolds, Connected
  <2>3. 1 .. Len(seen'[c]) = {} /\ 1 .. Len(seen'[c]) - 1 = {}
    BY <2>1
  <2>4. SeenHolds(c)'
    <3>1. first'[c] \in 1 .. seq' + 1
      BY <1>1, <2>1
    <3>a. ~missed'[c] => last'[c] = 0
      <4>1. missed'[c] <=> last[c] > 0
        BY <1>1, Zenon
      <4>2. ~(last[c] > 0) => last[c] = 0
        BY <2>1
      <4> QED BY <2>1, <4>1, <4>2, Zenon
    <3>2. Ascends(seen'[c]) /\ \A i \in 1 .. Len(seen'[c]) : seen'[c][i] \in 1 .. seq'
      BY <2>3 DEF Ascends
    <3> QED BY <2>1, <3>1, <3>a, <3>2 DEF SeenHolds, Ascends
  <2> QED BY <2>2, <2>4
<1> QED BY <1>2, <1>3, <1>4 DEF HubInv

LEMMA HubStepHolds == HubInv /\ [HubNext]_hubVars => HubInv'
<1> SUFFICES ASSUME HubInv, [HubNext]_hubVars PROVE HubInv'
  OBVIOUS
<1>1. CASE PublishEvent
  BY <1>1, PublishHolds
<1>2. CASE RestartHub
  BY <1>2, RestartHolds
<1>3. ASSUME NEW c \in Client, SubscribeClient(c) PROVE HubInv'
  BY <1>3, SubscribeHolds
<1>4. ASSUME NEW c \in Client, TakeEvent(c) PROVE HubInv'
  BY <1>4, TakeHolds
<1>5. ASSUME NEW c \in Client, UnsubscribeClient(c) PROVE HubInv'
  BY <1>5, UnsubscribeHolds
<1>6. CASE UNCHANGED hubVars
  <2>1. /\ seq' = seq /\ recent' = recent /\ last' = last /\ seen' = seen /\ first' = first
        /\ missed' = missed /\ inbox' = inbox
    BY <1>6 DEF hubVars, hubHistory
  <2>2. HubTypeOK' /\ RingIsLast'
    BY <2>1 DEF HubInv, HubTypeOK, RingIsLast, IsLast
  <2>3. ASSUME NEW c \in Client PROVE SeenHolds(c)' /\ QueueHolds(c)'
    BY <2>1, SameClient DEF HubInv
  <2> QED BY <2>2, <2>3 DEF HubInv
<1> QED BY <1>1, <1>2, <1>3, <1>4, <1>5, <1>6 DEF HubNext

\* What a client got, and what is queued for it, one after the other.
LEMMA TwoRuns ==
  ASSUME NEW s \in Seq(Nat), NEW q \in Seq(Nat), Ascends(s), Ascends(q),
         s # <<>> /\ q # <<>> => s[Len(s)] < q[1]
  PROVE  /\ \A i \in 1 .. Len(s \o q) - 1 : (s \o q)[i] < (s \o q)[i + 1]
         /\ \A a, n \in Nat :
              IsLast(q, n) /\ n - Len(q) = a - 1 + Len(s) /\ (\A i \in 1 .. Len(s) : s[i] = a + i - 1)
              => s \o q = Run(a, n)
<1>0. /\ s \o q \in Seq(Nat) /\ Len(s \o q) = Len(s) + Len(q) /\ Len(s) \in Nat /\ Len(q) \in Nat
      /\ \A i \in 1 .. Len(s) + Len(q) : (s \o q)[i] = IF i <= Len(s) THEN s[i] ELSE q[i - Len(s)]
  BY ConcatProperties
<1>1. SUFFICES ASSUME NEW all \in Seq(Nat), all = s \o q, NEW m \in Nat, m = Len(s), NEW l \in Nat, l = Len(q),
                      Len(all) = m + l,
                      \A i \in 1 .. m + l : all[i] = IF i <= m THEN s[i] ELSE q[i - m]
               PROVE  /\ \A i \in 1 .. Len(all) - 1 : all[i] < all[i + 1]
                      /\ \A a, n \in Nat :
                           IsLast(q, n) /\ n - l = a - 1 + m /\ (\A i \in 1 .. m : s[i] = a + i - 1)
                           => all = Run(a, n)
  BY <1>0, ZenonT(40)
<1>2. (m > 0 => s # <<>>) /\ (l > 0 => q # <<>>)
  BY <1>1
<1>3. \A i \in 1 .. m : all[i] = s[i]
  BY <1>1
<1>4. \A i \in 1 .. l : m + i \in 1 .. m + l /\ all[m + i] = q[i]
  <2> SUFFICES ASSUME NEW i \in 1 .. l PROVE m + i \in 1 .. m + l /\ all[m + i] = q[i]
    OBVIOUS
  <2>1. m + i \in 1 .. m + l /\ ~(m + i <= m) /\ m + i - m = i
    OBVIOUS
  <2> QED BY <1>1, <2>1
<1>5. \A i \in 1 .. m + l : i \in 1 .. m \/ (\E j \in 1 .. l : i = m + j)
  <2> SUFFICES ASSUME NEW i \in 1 .. m + l, i \notin 1 .. m PROVE i - m \in 1 .. l /\ i = m + (i - m)
    OBVIOUS
  <2> QED OBVIOUS
<1>6. ASSUME NEW i \in 1 .. Len(all) - 1 PROVE all[i] < all[i + 1]
  <2>1. i \in 1 .. m + l /\ i + 1 \in 1 .. m + l
    BY <1>1
  <2>2. CASE i + 1 <= m
    <3>1. i \in 1 .. m - 1 /\ i \in 1 .. m /\ i + 1 \in 1 .. m
      BY <2>1, <2>2
    <3>2. s[i] < s[i + 1]
      BY <1>1, <3>1 DEF Ascends
    <3> QED BY <1>3, <3>1, <3>2
  <2>3. CASE i = m
    <3>1. i \in 1 .. m /\ 1 \in 1 .. l /\ m > 0 /\ l > 0
      BY <2>1, <2>3
    <3>2. all[i] = s[m] /\ all[m + 1] = q[1] /\ s # <<>> /\ q # <<>>
      BY <1>2, <1>3, <1>4, <2>3, <3>1
    <3> QED BY <1>1, <2>3, <3>2
  <2>4. CASE ~(i + 1 <= m) /\ i # m
    <3>1. PICK j \in 1 .. l : i = m + j
      BY <1>5, <2>1, <2>4
    <3>2. j + 1 \in 1 .. l /\ j \in 1 .. l - 1 /\ i + 1 = m + (j + 1)
      BY <2>1, <3>1
    <3>3. all[i] = q[j] /\ all[i + 1] = q[j + 1]
      BY <1>4, <3>1, <3>2
    <3>4. q[j] < q[j + 1]
      BY <1>1, <3>2 DEF Ascends
    <3> QED BY <3>3, <3>4
  <2> QED BY <2>2, <2>3, <2>4
<1>7. ASSUME NEW a \in Nat, NEW n \in Nat, IsLast(q, n), n - l = a - 1 + m,
             \A i \in 1 .. m : s[i] = a + i - 1
      PROVE  all = Run(a, n)
  <2>1. Len(all) = n + 1 - a
    BY <1>1, <1>7
  <2>2. ASSUME NEW i \in 1 .. m + l PROVE all[i] = a + i - 1
    <3>1. CASE i \in 1 .. m
      BY <1>3, <1>7, <3>1
    <3>2. ASSUME NEW j \in 1 .. l, i = m + j PROVE all[i] = a + i - 1
      <4>1. all[i] = q[j] /\ q[j] = n - l + j
        BY <1>1, <1>4, <1>7, <3>2 DEF IsLast
      <4> QED BY <1>7, <3>2, <4>1
    <3> QED BY <1>5, <3>1, <3>2
  <2>3. all = [i \in 1 .. Len(all) |-> all[i]]
    BY LenProperties
  <2>4. 1 .. m + l = 1 .. n + 1 - a
    BY <1>1, <2>1
  <2> QED BY <1>1, <2>1, <2>2, <2>3, <2>4 DEF Run
<1> QED BY <1>6, <1>7

LEMMA GotAndQueued ==
  ASSUME HubInv, NEW c \in Client, Connected(c)
  PROVE  LET all == seen[c] \o inbox[c] IN
         /\ \A i \in 1 .. Len(all) - 1 : all[i] < all[i + 1]
         /\ ~missed[c] => all = Run(first[c], seq)
<1>1. /\ seen[c] \in Seq(Nat) /\ inbox[c] \in Seq(Nat) /\ seq \in Nat /\ last[c] \in Nat /\ first[c] \in Nat
      /\ SeenHolds(c) /\ QueueHolds(c)
  BY DEF HubInv, HubTypeOK
<1>2. /\ Ascends(seen[c]) /\ Ascends(inbox[c])
      /\ seen[c] # <<>> /\ inbox[c] # <<>> => seen[c][Len(seen[c])] < inbox[c][1]
  BY <1>1 DEF SeenHolds, QueueHolds
<1>3. ASSUME ~missed[c]
      PROVE  /\ IsLast(inbox[c], seq) /\ seq - Len(inbox[c]) = first[c] - 1 + Len(seen[c])
             /\ \A i \in 1 .. Len(seen[c]) : seen[c][i] = first[c] + i - 1
  <2>1. IsLast(inbox[c], seq) /\ seq - Len(inbox[c]) = IF seen[c] = <<>> THEN first[c] - 1 ELSE last[c]
    BY <1>1, <1>3 DEF QueueHolds
  <2>2. CASE seen[c] = <<>>
    <3>1. Len(seen[c]) = 0
      BY <2>2
    <3> QED BY <1>1, <2>1, <2>2, <3>1
  <2>3. CASE seen[c] # <<>>
    <3>1. /\ Len(seen[c]) = last[c] + 1 - first[c]
          /\ \A i \in 1 .. Len(seen[c]) : seen[c][i] = first[c] + i - 1
      BY <1>1, <1>3, <2>3 DEF SeenHolds
    <3> QED BY <1>1, <2>1, <2>3, <3>1
  <2> QED BY <2>2, <2>3
<1> QED BY <1>1, <1>2, <1>3, TwoRuns

\* Whatever the sizes of the ring and of the queues and however often a client
\* reconnects, what a connected client got and what is queued for it run on from
\* each other to the last number published (notification_hub.py:31-59).
THEOREM NotificationTheorem == HubSpec => []NotificationsAreExact
<1>1. HubInv => NotificationsAreExact
  BY GotAndQueued DEF NotificationsAreExact
<1> QED BY <1>1, HubInitHolds, HubStepHolds, PTL DEF HubSpec
=============================================================================
