--------------------------- MODULE ThreadRecord_proofs ---------------------------
(***************************************************************************)
(* TypeOK, LinksAreNamed, AnswersResolve and NothingOutlivesItsRow for any *)
(* requests in flight, tokens and crashes.                                 *)
(*                                                                         *)
(* The argument: as long as no update of the row is lost and no share      *)
(* crosses a removal, what a sharing request holds stays in the row, and   *)
(* the only ones who take a name out of it are revocations, which hold the *)
(* name until they have removed the link, and deletions, which removed it  *)
(* before (RequestHolds, Linked).                                          *)
(***************************************************************************)
EXTENDS ThreadRecord, TLAPS

\* The calls a request can have yet to make.
Todos ==
  {<<>>, <<"write">>,
   <<"mint", "check", "answer">>, <<"check", "answer">>, <<"link", "answer">>, <<"answer">>,
   <<"unname", "unlink">>, <<"unlink">>,
   <<"ckpt", "rows", "read", "unlink", "drop">>, <<"rows", "read", "unlink", "drop">>,
   <<"read", "unlink", "drop">>, <<"unlink", "drop">>, <<"drop">>,
   <<"unlink", "rows", "ckpt", "drop">>, <<"rows", "ckpt", "drop">>, <<"ckpt", "drop">>}

Contains(x, s) == \E i \in DOMAIN x : x[i] = s

Types ==
  /\ meta \in Row \cup {NoRow}
  /\ shares \subseteq Token /\ minted \subseteq Token
  /\ rows \in BOOLEAN /\ ckpt \in BOOLEAN
  /\ todo \in [Req -> Todos]
  /\ value \in [Req -> Row]
  /\ run \in {"none", "starting", "active", "ending"}
  /\ runValue \in Row
  /\ clobbered \in BOOLEAN /\ crossed \in BOOLEAN /\ cut \in BOOLEAN /\ strayed \in BOOLEAN
  /\ crashes \in 0 .. MaxCrashes

\* What a request holds and relies on.
RequestHolds(r) ==
  /\ Has(r, "mint") => value[r].token = NoToken
  /\ Sharing(r) /\ ~Has(r, "mint") =>
       /\ value[r].token \in Token
       /\ ~clobbered /\ ~crossed => Named(value[r].token)
  /\ At(r, "answer") /\ ~crossed => value[r].token \in shares
  /\ Has(r, "drop") /\ ~Has(r, "unlink") /\ ~crossed => value[r].token \notin shares
  /\ Has(r, "drop") /\ ~strayed => (rows => Has(r, "rows")) /\ (ckpt => Has(r, "ckpt"))

Crossing == (\E p, q \in Req : Sharing(p) /\ Removing(q)) => crossed
Straying == run # "none" /\ (\E r \in Req : Has(r, "drop")) => strayed
RunHasRow == ~strayed /\ run \in {"active", "ending"} => meta # NoRow

\* A link is named, or a revocation holds its name.
Linked ==
  ~clobbered /\ ~crossed /\ ~cut =>
    \A k \in shares : Named(k) \/ \E r \in Req : Revoking(r) /\ value[r].token = k

RecordInv ==
  /\ Types
  /\ \A r \in Req : RequestHolds(r)
  /\ Crossing /\ Straying /\ RunHasRow /\ Linked
  /\ NothingOutlivesItsRow

-----------------------------------------------------------------------------
\* The calls in each value of todo.
LEMMA ContainsTable ==
  ASSUME NEW s
  PROVE  /\ ~Contains(<<>>, s)
         /\ Contains(<<"write">>, s) <=> s = "write"
         /\ Contains(<<"mint", "check", "answer">>, s) <=> s \in {"mint", "check", "answer"}
         /\ Contains(<<"check", "answer">>, s) <=> s \in {"check", "answer"}
         /\ Contains(<<"link", "answer">>, s) <=> s \in {"link", "answer"}
         /\ Contains(<<"answer">>, s) <=> s = "answer"
         /\ Contains(<<"unname", "unlink">>, s) <=> s \in {"unname", "unlink"}
         /\ Contains(<<"unlink">>, s) <=> s = "unlink"
         /\ Contains(<<"ckpt", "rows", "read", "unlink", "drop">>, s)
              <=> s \in {"ckpt", "rows", "read", "unlink", "drop"}
         /\ Contains(<<"rows", "read", "unlink", "drop">>, s)
              <=> s \in {"rows", "read", "unlink", "drop"}
         /\ Contains(<<"read", "unlink", "drop">>, s) <=> s \in {"read", "unlink", "drop"}
         /\ Contains(<<"unlink", "drop">>, s) <=> s \in {"unlink", "drop"}
         /\ Contains(<<"drop">>, s) <=> s = "drop"
         /\ Contains(<<"unlink", "rows", "ckpt", "drop">>, s)
              <=> s \in {"unlink", "rows", "ckpt", "drop"}
         /\ Contains(<<"rows", "ckpt", "drop">>, s) <=> s \in {"rows", "ckpt", "drop"}
         /\ Contains(<<"ckpt", "drop">>, s) <=> s \in {"ckpt", "drop"}
BY DEF Contains

\* What a request has yet to do tells what its next call leaves to be done.
LeavesToDo(x) ==
  /\ Tail(x) \in Todos
  /\ \A s : Contains(x, s) <=> Head(x) = s \/ Contains(Tail(x), s)
  /\ Head(x) = "write" => \A s : ~Contains(Tail(x), s)
  /\ Head(x) = "mint" => Tail(x) = <<"check", "answer">>
  /\ Head(x) = "check" => x = <<"check", "answer">>
  /\ Head(x) = "link" => Tail(x) = <<"answer">>
  /\ Head(x) = "answer" => Tail(x) = <<>>
  /\ Head(x) = "unname" => Tail(x) = <<"unlink">>
  /\ Head(x) = "unlink" => /\ ~Contains(Tail(x), "unlink") /\ ~Contains(Tail(x), "answer")
                           /\ ~Contains(Tail(x), "mint")
  /\ Head(x) \in {"ckpt", "rows", "read"} =>
       /\ Contains(Tail(x), "drop") /\ ~Contains(Tail(x), "answer")
       /\ ~Contains(Tail(x), "mint") /\ ~Contains(Tail(x), Head(x))
  /\ Head(x) = "read" => Tail(x) = <<"unlink", "drop">>
  /\ Head(x) = "drop" => Tail(x) = <<>>
  /\ Contains(x, "answer") => ~Contains(x, "unlink") /\ ~Contains(x, "drop")
  /\ Head(x) = "answer" <=> x = <<"answer">>

\* It holds of every such value.
LEMMA TodoFacts == ASSUME NEW x \in Todos, x # <<>> PROVE LeavesToDo(x)
<1>1. LeavesToDo(<<"write">>)
  BY ContainsTable DEF Todos, LeavesToDo
<1>2. LeavesToDo(<<"mint", "check", "answer">>)
  BY ContainsTable DEF Todos, LeavesToDo
<1>3. LeavesToDo(<<"check", "answer">>)
  BY ContainsTable DEF Todos, LeavesToDo
<1>4. LeavesToDo(<<"link", "answer">>)
  BY ContainsTable DEF Todos, LeavesToDo
<1>5. LeavesToDo(<<"answer">>)
  BY ContainsTable DEF Todos, LeavesToDo
<1>6. LeavesToDo(<<"unname", "unlink">>)
  BY ContainsTable DEF Todos, LeavesToDo
<1>7. LeavesToDo(<<"unlink">>)
  BY ContainsTable DEF Todos, LeavesToDo
<1>8. LeavesToDo(<<"ckpt", "rows", "read", "unlink", "drop">>)
  BY ContainsTable DEF Todos, LeavesToDo
<1>9. LeavesToDo(<<"rows", "read", "unlink", "drop">>)
  BY ContainsTable DEF Todos, LeavesToDo
<1>10. LeavesToDo(<<"read", "unlink", "drop">>)
  BY ContainsTable DEF Todos, LeavesToDo
<1>11. LeavesToDo(<<"unlink", "drop">>)
  BY ContainsTable DEF Todos, LeavesToDo
<1>12. LeavesToDo(<<"drop">>)
  BY ContainsTable DEF Todos, LeavesToDo
<1>13. LeavesToDo(<<"unlink", "rows", "ckpt", "drop">>)
  BY ContainsTable DEF Todos, LeavesToDo
<1>14. LeavesToDo(<<"rows", "ckpt", "drop">>)
  BY ContainsTable DEF Todos, LeavesToDo
<1>15. LeavesToDo(<<"ckpt", "drop">>)
  BY ContainsTable DEF Todos, LeavesToDo
<1>16. \/ x = <<"write">>
       \/ x = <<"mint", "check", "answer">>
       \/ x = <<"check", "answer">>
       \/ x = <<"link", "answer">>
       \/ x = <<"answer">>
       \/ x = <<"unname", "unlink">>
       \/ x = <<"unlink">>
       \/ x = <<"ckpt", "rows", "read", "unlink", "drop">>
       \/ x = <<"rows", "read", "unlink", "drop">>
       \/ x = <<"read", "unlink", "drop">>
       \/ x = <<"unlink", "drop">>
       \/ x = <<"drop">>
       \/ x = <<"unlink", "rows", "ckpt", "drop">>
       \/ x = <<"rows", "ckpt", "drop">>
       \/ x = <<"ckpt", "drop">>
  BY DEF Todos
<1> QED BY <1>16, <1>1, <1>2, <1>3, <1>4, <1>5, <1>6, <1>7, <1>8, <1>9, <1>10, <1>11, <1>12, <1>13,
           <1>14, <1>15

-----------------------------------------------------------------------------
\* A step of the request in r: what it leaves to the others, and what holds of it.
RequestStep(r) ==
  /\ Types'
  /\ \A t \in Req : t # r => todo'[t] = todo[t] /\ value'[t] = value[t]
  /\ (clobbered => clobbered') /\ (crossed => crossed') /\ (strayed => strayed')
  /\ \A k \in Token : k \in shares /\ k \notin shares' => Removing(r)
  /\ \A k \in Token : k \in shares' /\ k \notin shares => Sharing(r)
  /\ ~clobbered' => \A k \in Token : Named(k) => Named(k)' \/ Removing(r)
  /\ (rows' => rows) /\ (ckpt' => ckpt)
  /\ RequestHolds(r)'
  /\ Crossing' /\ Straying' /\ RunHasRow' /\ Linked'
  /\ NothingOutlivesItsRow'

\* The other requests keep what they rely on: who shares and who removes a link
\* cross each other.
LEMMA RequestStepKeepsInv ==
  ASSUME RecordInv, NEW r \in Req, RequestStep(r)
  PROVE  RecordInv'
<1>1. ASSUME NEW t \in Req, t # r
      PROVE  RequestHolds(t)'
  <2>1. RequestHolds(t) /\ value[t] \in Row
    BY DEF RecordInv, Types
  <2>2. todo'[t] = todo[t] /\ value'[t] = value[t]
    BY <1>1 DEF RequestStep
  <2>3. \A s : Has(t, s)' <=> Has(t, s)
    BY <2>2 DEF Has
  <2>4. (At(t, "answer")' <=> At(t, "answer")) /\ (Sharing(t)' <=> Sharing(t))
    BY <2>2, <2>3 DEF At, Idle, Sharing
  <2>5. ~crossed' => ~(Sharing(t) /\ Removing(r)) /\ ~(Sharing(r) /\ Removing(t))
    BY DEF RequestStep, RecordInv, Crossing
  <2>6. At(t, "answer") => Sharing(t) /\ ~Has(t, "mint")
    <3>1. todo[t] \in Todos /\ (At(t, "answer") => todo[t] = <<"answer">>)
      BY TodoFacts DEF At, Idle, LeavesToDo, RecordInv, Types
    <3>2. Contains(<<"answer">>, "answer") /\ ~Contains(<<"answer">>, "mint")
      BY ContainsTable
    <3> QED BY <3>1, <3>2 DEF Sharing, Has, Contains
  <2>7. Sharing(t) /\ ~Has(t, "mint") /\ ~clobbered' /\ ~crossed' =>
          meta' # NoRow /\ meta'.token = value[t].token
    BY <2>1, <2>5 DEF RequestStep, RequestHolds, Named
  <2>8. At(t, "answer") /\ ~crossed' => value[t].token \in shares'
    BY <2>1, <2>5, <2>6 DEF RequestStep, RequestHolds
  <2>9. Has(t, "drop") /\ ~Has(t, "unlink") /\ ~crossed' => value[t].token \notin shares'
    <3>1. shares' \subseteq Token
      BY DEF RequestStep, Types
    <3> QED BY <2>1, <2>5, <3>1 DEF RequestStep, RequestHolds, Removing
  <2>10. /\ Has(t, "mint") => value[t].token = NoToken
         /\ Sharing(t) /\ ~Has(t, "mint") => value[t].token \in Token
         /\ Has(t, "drop") /\ ~strayed' => (rows' => Has(t, "rows")) /\ (ckpt' => Has(t, "ckpt"))
    BY <2>1 DEF RequestStep, RequestHolds
  <2> QED BY <2>2, <2>3, <2>4, <2>7, <2>8, <2>9, <2>10 DEF RequestHolds, Named
<1> QED BY <1>1 DEF RequestStep, RecordInv

\* A row without a status or token is a row.
LEMMA NewRowIsRow == NewRow \in Row /\ NewRow.token = NoToken
BY DEF NewRow, Row, Status

\* The row that a read gives.
LEMMA CopyIsRow == ASSUME Types PROVE Copy(meta) \in Row /\ (meta # NoRow => Copy(meta) = meta)
BY NewRowIsRow DEF Types, Copy

\* The request goes on to the calls it is given.
LEMMA ContinueSets ==
  ASSUME Types, NEW r \in Req, NEW calls \in Todos, NEW row \in Row, Continue(r, calls, row)
  PROVE  /\ todo' \in [Req -> Todos] /\ value' \in [Req -> Row]
         /\ todo'[r] = calls /\ (calls # <<>> => value'[r] = row)
         /\ \A t \in Req : t # r => todo'[t] = todo[t] /\ value'[t] = value[t]
BY NewRowIsRow DEF Types, Continue

\* The calls a request has are among those it had: no share and no removal begins.
LEMMA NothingBegins ==
  ASSUME RecordInv, NEW r \in Req, crossed' = crossed, strayed => strayed', run' = run,
         \A t \in Req : t # r => todo'[t] = todo[t],
         Sharing(r)' => Sharing(r), Removing(r)' => Removing(r), Has(r, "drop")' => Has(r, "drop")
  PROVE  Crossing' /\ Straying'
<1>1. \A t \in Req : t # r => /\ Sharing(t)' <=> Sharing(t)
                              /\ Removing(t)' <=> Removing(t)
                              /\ Has(t, "drop")' <=> Has(t, "drop")
  BY DEF Sharing, Removing, Has
<1>2. Crossing /\ Straying
  BY DEF RecordInv
<1>3. Crossing'
  BY <1>1, <1>2 DEF Crossing
<1>4. Straying'
  BY <1>1, <1>2 DEF Straying
<1> QED BY <1>3, <1>4

-----------------------------------------------------------------------------
\* A request begins: what it says it will do is what it relies on.
LEMMA BeginSteps ==
  ASSUME RecordInv, NEW r \in Req, NEW row \in Row, NEW calls \in Todos,
         Begin(r, row, calls),
         Contains(calls, "mint") => row.token = NoToken,
         Contains(calls, "answer") /\ ~Contains(calls, "mint") =>
           row.token \in Token /\ Named(row.token),
         calls # <<"answer">>,
         Contains(calls, "drop") =>
           Contains(calls, "unlink") /\ Contains(calls, "rows") /\ Contains(calls, "ckpt")
  PROVE  RequestStep(r)
<1>0. Types
  BY DEF RecordInv
<1>1. /\ todo' = [todo EXCEPT ![r] = calls] /\ value' = [value EXCEPT ![r] = row]
      /\ UNCHANGED <<meta, shares, rows, ckpt, run, runValue, minted, clobbered, cut, crashes>>
      /\ crossed' = (crossed \/ \E p, q \in Req : Sharing(p)' /\ Removing(q)')
      /\ strayed' = (strayed \/ (run # "none" /\ Has(r, "drop")'))
  BY DEF Begin, stores
<1>2. /\ todo' \in [Req -> Todos] /\ value' \in [Req -> Row]
      /\ todo'[r] = calls /\ value'[r] = row
      /\ \A t \in Req : t # r => todo'[t] = todo[t] /\ value'[t] = value[t]
  BY <1>0, <1>1 DEF Types
<1>3. crossed' \in BOOLEAN /\ strayed' \in BOOLEAN /\ (crossed => crossed') /\ (strayed => strayed')
  BY <1>0, <1>1 DEF Types
<1>4. Types'
  BY <1>0, <1>1, <1>2, <1>3 DEF Types
<1>5. \A s : Has(r, s)' <=> Contains(calls, s)
  BY <1>2 DEF Has, Contains
<1>6. ~At(r, "answer")'
  <2>1. todo'[r] # <<>> /\ Head(todo'[r]) = "answer" => todo'[r] = <<"answer">>
    BY <1>2, TodoFacts DEF LeavesToDo
  <2> QED BY <1>2, <2>1 DEF At, Idle
<1>8. RequestHolds(r)'
  <2>1. Sharing(r)' <=> Contains(calls, "answer")
    BY <1>5 DEF Sharing
  <2>2. Named(row.token) => meta' # NoRow /\ meta'.token = value'[r].token
    BY <1>1, <1>2 DEF Named
  <2> QED BY <1>2, <1>5, <1>6, <2>1, <2>2 DEF RequestHolds, Named
<1>9. Crossing'
  BY <1>1 DEF Crossing
<1>10. Straying'
  <2>1. \A t \in Req : t # r => (Has(t, "drop")' <=> Has(t, "drop"))
    BY <1>2 DEF Has
  <2> QED BY <1>1, <2>1 DEF Straying, RecordInv
<1>11. RunHasRow' /\ NothingOutlivesItsRow'
  BY <1>1, <1>3 DEF RunHasRow, NothingOutlivesItsRow, RecordInv
<1>12. Linked'
  <2>1. ~Revoking(r)
    BY DEF Begin, Idle, Revoking, Has
  <2>2. \A t \in Req : t # r => (Revoking(t)' <=> Revoking(t))
    BY <1>2 DEF Revoking, Has
  <2>3. \A k : Named(k)' <=> Named(k)
    BY <1>1 DEF Named
  <2> QED BY <1>1, <1>2, <1>3, <2>1, <2>2, <2>3 DEF Linked, RecordInv
<1>13. \A k \in Token : Named(k) => Named(k)'
  BY <1>1 DEF Named
<1> QED BY <1>1, <1>2, <1>3, <1>4, <1>8, <1>9, <1>10, <1>11, <1>12, <1>13 DEF RequestStep

\* The six requests, as they begin.
LEMMA RequestsBegin ==
  ASSUME RecordInv, NEW r \in Req,
         Rename(r) \/ Title(r) \/ Share(r) \/ Revoke(r) \/ Delete(r) \/ DeleteAll(r)
  PROVE  RequestStep(r)
<1>0. Types
  BY DEF RecordInv
<1>1. meta # NoRow => meta \in Row /\ (meta.token # NoToken => meta.token \in Token /\ Named(meta.token))
  BY <1>0 DEF Types, Row, Named
<1>2. CASE Rename(r)
  <2>1. <<"write">> \in Todos /\ <<"write">> # <<"answer">>
    BY DEF Todos
  <2> QED BY <1>1, <1>2, <2>1, ContainsTable, BeginSteps DEF Rename
<1>3. CASE Title(r)
  <2>1. <<"write">> \in Todos /\ <<"write">> # <<"answer">>
    BY DEF Todos
  <2> QED BY <1>0, <1>3, <2>1, ContainsTable, CopyIsRow, BeginSteps DEF Title
<1>4. CASE Share(r)
  <2>1. CASE meta.token = NoToken
    <3>1. /\ <<"mint", "check", "answer">> \in Todos
          /\ <<"mint", "check", "answer">> # <<"answer">>
      BY DEF Todos
    <3>2. Begin(r, meta, <<"mint", "check", "answer">>) /\ meta \in Row
      BY <1>1, <1>4, <2>1 DEF Share
    <3> QED BY <2>1, <3>1, <3>2, ContainsTable, BeginSteps
  <2>2. CASE meta.token # NoToken
    <3>1. <<"check", "answer">> \in Todos /\ <<"check", "answer">> # <<"answer">>
      BY DEF Todos
    <3>2. /\ Begin(r, meta, <<"check", "answer">>) /\ meta \in Row
          /\ meta.token \in Token /\ Named(meta.token)
      BY <1>1, <1>4, <2>2 DEF Share
    <3> QED BY <3>1, <3>2, ContainsTable, BeginSteps
  <2> QED BY <2>1, <2>2
<1>5. CASE Revoke(r)
  <2>1. <<"unname", "unlink">> \in Todos /\ <<"unname", "unlink">> # <<"answer">>
    BY DEF Todos
  <2> QED BY <1>1, <1>5, <2>1, ContainsTable, BeginSteps DEF Revoke
<1>6. CASE Delete(r)
  <2>1. /\ <<"ckpt", "rows", "read", "unlink", "drop">> \in Todos
        /\ <<"ckpt", "rows", "read", "unlink", "drop">> # <<"answer">>
    BY DEF Todos
  <2> QED BY <1>6, <2>1, NewRowIsRow, ContainsTable, BeginSteps DEF Delete
<1>7. CASE DeleteAll(r)
  <2>1. /\ <<"unlink", "rows", "ckpt", "drop">> \in Todos
        /\ <<"unlink", "rows", "ckpt", "drop">> # <<"answer">>
    BY DEF Todos
  <2> QED BY <1>1, <1>7, <2>1, ContainsTable, BeginSteps DEF DeleteAll
<1> QED BY <1>2, <1>3, <1>4, <1>5, <1>6, <1>7

-----------------------------------------------------------------------------
\* A request that makes its next call.
LEMMA NextCall ==
  ASSUME Types, NEW r \in Req, ~Idle(r), NEW row \in Row,
         Continue(r, Tail(todo[r]), row)
  PROVE  /\ todo' \in [Req -> Todos] /\ value' \in [Req -> Row]
         /\ todo'[r] = Tail(todo[r]) /\ (todo'[r] # <<>> => value'[r] = row)
         /\ \A t \in Req : t # r => todo'[t] = todo[t] /\ value'[t] = value[t]
         /\ \A s : Has(r, s) <=> At(r, s) \/ Has(r, s)'
         /\ \A s : Has(r, s)' <=> Contains(Tail(todo[r]), s)
         /\ \A s : Has(r, s)' => todo'[r] # <<>>
         /\ At(r, "answer")' <=> todo'[r] = <<"answer">>
<1>1. todo[r] \in Todos /\ todo[r] # <<>> /\ LeavesToDo(todo[r])
  BY TodoFacts DEF Types, Idle
<1>2. Tail(todo[r]) \in Todos
  BY <1>1 DEF LeavesToDo
<1>3. /\ todo' \in [Req -> Todos] /\ value' \in [Req -> Row]
      /\ todo'[r] = Tail(todo[r]) /\ (todo'[r] # <<>> => value'[r] = row)
      /\ \A t \in Req : t # r => todo'[t] = todo[t] /\ value'[t] = value[t]
  BY <1>2, ContinueSets
<1>4. \A s : Has(r, s)' <=> Contains(Tail(todo[r]), s)
  BY <1>3 DEF Has, Contains
<1>5. \A s : Has(r, s) <=> At(r, s) \/ Has(r, s)'
  <2>1. \A s : Contains(todo[r], s) <=> Head(todo[r]) = s \/ Contains(Tail(todo[r]), s)
    BY <1>1 DEF LeavesToDo
  <2> QED BY <1>1, <1>4, <2>1 DEF Has, At, Idle, Contains
<1>6. \A s : Has(r, s)' => todo'[r] # <<>>
  <2>1. \A s : ~Contains(<<>>, s)
    BY ContainsTable
  <2> QED BY <1>3, <1>4, <2>1
<1>7. At(r, "answer")' <=> todo'[r] = <<"answer">>
  <2>1. todo'[r] # <<>> => (Head(todo'[r]) = "answer" <=> todo'[r] = <<"answer">>)
    BY <1>2, <1>3, TodoFacts DEF LeavesToDo
  <2> QED BY <2>1 DEF At, Idle
<1> QED BY <1>3, <1>4, <1>5, <1>6, <1>7

\* A call that changes neither the row nor the links: the answer, and the deletions
\* of the checkpoint and of the rows.
LEMMA PlainCallsStep ==
  ASSUME RecordInv, NEW r \in Req, Answer(r) \/ DeleteCkpt(r) \/ DeleteRows(r)
  PROVE  RequestStep(r)
<1>0. Types /\ RequestHolds(r) /\ ~Idle(r) /\ value[r] \in Row
  BY DEF RecordInv, Types, Answer, DeleteCkpt, DeleteRows, At
<1>1. Continue(r, Tail(todo[r]), value[r])
  BY DEF Answer, DeleteCkpt, DeleteRows, Done
<1>2. /\ todo' \in [Req -> Todos] /\ value' \in [Req -> Row]
      /\ todo'[r] = Tail(todo[r]) /\ (todo'[r] # <<>> => value'[r] = value[r])
      /\ \A t \in Req : t # r => todo'[t] = todo[t] /\ value'[t] = value[t]
      /\ \A s : Has(r, s) <=> At(r, s) \/ Has(r, s)'
      /\ \A s : Has(r, s)' <=> Contains(Tail(todo[r]), s)
      /\ \A s : Has(r, s)' => todo'[r] # <<>>
      /\ At(r, "answer")' <=> todo'[r] = <<"answer">>
  BY <1>0, <1>1, NextCall
<1>3. /\ UNCHANGED <<meta, shares, run, runValue, minted, clobbered, crossed, cut, strayed, crashes>>
      /\ rows' = (rows /\ ~At(r, "rows")) /\ ckpt' = (ckpt /\ ~At(r, "ckpt"))
  <2>1. CASE Answer(r)
    BY <1>0, <2>1 DEF Answer, At, stores, history, Types
  <2>2. CASE DeleteCkpt(r)
    BY <1>0, <2>2 DEF DeleteCkpt, At, history, Types
  <2>3. CASE DeleteRows(r)
    BY <1>0, <2>3 DEF DeleteRows, At, history, Types
  <2> QED BY <2>1, <2>2, <2>3
<1>4. LeavesToDo(todo[r]) /\ Head(todo[r]) \in {"answer", "ckpt", "rows"}
  BY <1>0, TodoFacts DEF Types, Idle, Answer, DeleteCkpt, DeleteRows, At
<1>5. Types'
  BY <1>0, <1>2, <1>3 DEF Types
<1>6. /\ ~Has(r, "answer")' /\ ~Has(r, "mint")'
      /\ Has(r, "unlink")' <=> Has(r, "unlink")
      /\ Has(r, "drop")' <=> Has(r, "drop")
  <2>1. ~Contains(Tail(todo[r]), "answer") /\ ~Contains(Tail(todo[r]), "mint")
    BY <1>4, ContainsTable DEF LeavesToDo
  <2>2. ~At(r, "unlink") /\ ~At(r, "drop")
    BY <1>4 DEF At
  <2> QED BY <1>2, <2>1, <2>2
<1>7. ~At(r, "answer")'
  <2>1. Contains(<<"answer">>, "answer")
    BY ContainsTable
  <2> QED BY <1>2, <1>6, <2>1
<1>8. RequestHolds(r)'
  <2>1. ~Sharing(r)'
    BY <1>6 DEF Sharing
  <2> QED BY <1>0, <1>2, <1>3, <1>6, <1>7, <2>1 DEF RequestHolds
<1>9. Crossing' /\ Straying'
  BY <1>2, <1>3, <1>6, NothingBegins DEF Sharing, Removing
<1>10. RunHasRow' /\ NothingOutlivesItsRow'
  BY <1>3 DEF RunHasRow, NothingOutlivesItsRow, RecordInv
<1>11. Linked'
  <2>1. \A t \in Req : Revoking(t) => Revoking(t)' /\ value'[t] = value[t]
    BY <1>2, <1>6, ZenonT(40) DEF Revoking, Has
  <2>2. \A k : Named(k)' <=> Named(k)
    BY <1>3 DEF Named
  <2> QED BY <1>3, <2>1, <2>2 DEF Linked, RecordInv
<1>12. \A k \in Token : Named(k) => Named(k)'
  BY <1>3 DEF Named
<1> QED BY <1>2, <1>3, <1>5, <1>8, <1>9, <1>10, <1>11, <1>12 DEF RequestStep

-----------------------------------------------------------------------------
\* A link stays named or held by a revocation if the request in r sees to it.
LEMMA LinkedKept ==
  ASSUME RecordInv, NEW r \in Req,
         clobbered => clobbered', crossed => crossed', cut => cut',
         \A t \in Req : t # r => todo'[t] = todo[t] /\ value'[t] = value[t],
         \A k \in shares' : ~clobbered' /\ ~crossed' /\ ~cut' =>
           \/ k \notin shares /\ Named(k)'
           \/ /\ k \in shares
              /\ Named(k) \/ (Revoking(r) /\ value[r].token = k)
                   => Named(k)' \/ (Revoking(r)' /\ value'[r].token = k)
  PROVE  Linked'
<1> SUFFICES ASSUME ~clobbered', ~crossed', ~cut', NEW k \in shares'
             PROVE  Named(k)' \/ \E t \in Req : Revoking(t)' /\ value'[t].token = k
  BY DEF Linked
<1>1. \A t \in Req : t # r => (Revoking(t)' <=> Revoking(t))
  BY DEF Revoking, Has
<1>2. k \in shares => Named(k) \/ \E t \in Req : Revoking(t) /\ value[t].token = k
  BY DEF RecordInv, Linked
<1> QED BY <1>1, <1>2

\* An edit that keeps the token keeps the name, if no update is lost.
LEMMA PutKeepsNames ==
  ASSUME Types, NEW read \in Row, NEW row \in Row, Put(read, row)
  PROVE  /\ meta' = row /\ meta' # NoRow /\ meta' \in Row \cup {NoRow}
         /\ clobbered' \in BOOLEAN /\ (clobbered => clobbered')
         /\ ~clobbered' => \A k : Named(k) => read.token = k
         /\ row.token = read.token /\ ~clobbered' => \A k : Named(k) => Named(k)'
BY NoRowAssumption DEF Put, Types, Named, Copy

\* The title or the new name is written with the row that was read.
LEMMA WriteBackSteps ==
  ASSUME RecordInv, NEW r \in Req, WriteBack(r)
  PROVE  RequestStep(r)
<1>0. Types /\ RequestHolds(r) /\ ~Idle(r) /\ value[r] \in Row
  BY DEF RecordInv, Types, WriteBack, At
<1>1. /\ Continue(r, Tail(todo[r]), value[r]) /\ Put(value[r], value[r])
      /\ UNCHANGED <<shares, rows, ckpt, run, runValue, minted, crossed, cut, strayed, crashes>>
  BY DEF WriteBack, Done
<1>2. /\ todo' \in [Req -> Todos] /\ value' \in [Req -> Row]
      /\ \A t \in Req : t # r => todo'[t] = todo[t] /\ value'[t] = value[t]
      /\ \A s : Has(r, s) <=> At(r, s) \/ Has(r, s)'
      /\ \A s : Has(r, s)' <=> Contains(Tail(todo[r]), s)
      /\ At(r, "answer")' <=> todo'[r] = <<"answer">>
      /\ todo'[r] = Tail(todo[r])
  BY <1>0, <1>1, NextCall
<1>3. /\ meta' # NoRow /\ meta' \in Row \cup {NoRow}
      /\ clobbered' \in BOOLEAN /\ (clobbered => clobbered')
      /\ ~clobbered' => \A k : Named(k) => Named(k)'
  BY <1>0, <1>1, PutKeepsNames
<1>4. \A s : ~Has(r, s)'
  <2>1. LeavesToDo(todo[r]) /\ Head(todo[r]) = "write"
    BY <1>0, TodoFacts DEF Types, Idle, WriteBack, At
  <2> QED BY <1>2, <2>1 DEF LeavesToDo
<1>5. ~At(r, "answer")'
  <2>1. Contains(<<"answer">>, "answer")
    BY ContainsTable
  <2> QED BY <1>2, <1>4, <2>1
<1>6. Types'
  BY <1>0, <1>1, <1>2, <1>3 DEF Types
<1>7. RequestHolds(r)'
  BY <1>4, <1>5 DEF RequestHolds, Sharing
<1>8. Crossing' /\ Straying'
  BY <1>1, <1>2, <1>4, NothingBegins DEF Sharing, Removing
<1>9. RunHasRow' /\ NothingOutlivesItsRow'
  BY <1>3 DEF RunHasRow, NothingOutlivesItsRow
<1>10. Linked'
  <2>1. ~Revoking(r)
    BY <1>2, <1>4 DEF Revoking, At, WriteBack
  <2> QED BY <1>1, <1>2, <1>3, <2>1, LinkedKept DEF RecordInv, Linked
<1> QED BY <1>1, <1>2, <1>3, <1>6, <1>7, <1>8, <1>9, <1>10 DEF RequestStep

\* A new token is named in the row; no other name is lost, for the row had none.
LEMMA MintSteps ==
  ASSUME RecordInv, NEW r \in Req, Mint(r)
  PROVE  RequestStep(r)
<1>0. Types /\ RequestHolds(r) /\ ~Idle(r) /\ value[r] \in Row /\ At(r, "mint")
  BY DEF RecordInv, Types, Mint, At
<1>1. PICK k \in Token \ minted :
        /\ minted' = minted \cup {k}
        /\ Put(value[r], [value[r] EXCEPT !.token = k])
        /\ Continue(r, Tail(todo[r]), [value[r] EXCEPT !.token = k])
  BY DEF Mint
<1> DEFINE new == [value[r] EXCEPT !.token = k]
<1>2. new \in Row /\ new.token = k
  BY <1>0 DEF Row
<1> HIDE DEF new
<1>3. UNCHANGED <<shares, rows, ckpt, run, runValue, crossed, cut, strayed, crashes>>
  BY DEF Mint
<1>4. /\ todo' \in [Req -> Todos] /\ value' \in [Req -> Row]
      /\ todo'[r] = Tail(todo[r]) /\ (todo'[r] # <<>> => value'[r] = new)
      /\ \A t \in Req : t # r => todo'[t] = todo[t] /\ value'[t] = value[t]
      /\ \A s : Has(r, s) <=> At(r, s) \/ Has(r, s)'
      /\ \A s : Has(r, s)' <=> Contains(Tail(todo[r]), s)
      /\ \A s : Has(r, s)' => todo'[r] # <<>>
      /\ At(r, "answer")' <=> todo'[r] = <<"answer">>
  BY <1>0, <1>1, <1>2, NextCall DEF new
<1>5. Tail(todo[r]) = <<"check", "answer">>
  BY <1>0, TodoFacts DEF Types, Idle, At, LeavesToDo
<1>6. /\ Has(r, "answer")' /\ ~Has(r, "mint")' /\ ~Has(r, "unlink")' /\ ~Has(r, "drop")'
      /\ ~At(r, "answer")' /\ value'[r] = new
  <2>1. /\ Contains(<<"check", "answer">>, "answer") /\ ~Contains(<<"check", "answer">>, "mint")
        /\ ~Contains(<<"check", "answer">>, "unlink") /\ ~Contains(<<"check", "answer">>, "drop")
        /\ <<"check", "answer">> # <<"answer">>
    BY ContainsTable
  <2> QED BY <1>4, <1>5, <2>1
<1>7. value[r].token = NoToken
  BY <1>0, <1>4 DEF RequestHolds
<1>8. /\ meta' = new /\ meta' # NoRow /\ meta' \in Row \cup {NoRow}
      /\ clobbered' \in BOOLEAN /\ (clobbered => clobbered')
      /\ ~clobbered' => \A j \in Token : ~Named(j)
  BY <1>0, <1>1, <1>2, <1>7, PutKeepsNames, NoTokenAssumption DEF new
<1>9. Types'
  BY <1>0, <1>1, <1>3, <1>4, <1>8 DEF Types
<1>10. RequestHolds(r)'
  <2>1. meta' # NoRow /\ meta'.token = value'[r].token /\ value'[r].token \in Token
    BY <1>2, <1>6, <1>8
  <2> QED BY <1>6, <2>1 DEF RequestHolds, Named, Sharing
<1>11. Crossing' /\ Straying'
  BY <1>3, <1>4, <1>6, NothingBegins DEF Sharing, Removing
<1>12. RunHasRow' /\ NothingOutlivesItsRow'
  BY <1>8 DEF RunHasRow, NothingOutlivesItsRow
<1>13. Linked'
  <2>1. ~Revoking(r)
    BY <1>0, <1>4, <1>6 DEF Revoking, At
  <2>2. shares \subseteq Token
    BY <1>0 DEF Types
  <2> QED BY <1>3, <1>4, <1>8, <2>1, <2>2, LinkedKept
<1> QED BY <1>3, <1>4, <1>8, <1>9, <1>10, <1>11, <1>12, <1>13 DEF RequestStep

\* The link is looked up: an answer without a link of its own has one that resolves.
LEMMA CheckSteps ==
  ASSUME RecordInv, NEW r \in Req, Check(r)
  PROVE  RequestStep(r)
<1>0. Types /\ RequestHolds(r) /\ ~Idle(r) /\ value[r] \in Row /\ At(r, "check")
  BY DEF RecordInv, Types, Check, At
<1> DEFINE calls == IF value[r].token \in shares THEN <<"answer">> ELSE <<"link", "answer">>
<1>1. /\ calls \in Todos /\ calls # <<>>
      /\ calls = <<"answer">> => value[r].token \in shares
  BY DEF Todos
<1>2. Continue(r, calls, value[r])
  BY DEF Check
<1>3. /\ Contains(calls, "answer") /\ ~Contains(calls, "mint")
      /\ ~Contains(calls, "unlink") /\ ~Contains(calls, "drop")
  BY ContainsTable
<1> HIDE DEF calls
<1>4. /\ todo' \in [Req -> Todos] /\ value' \in [Req -> Row]
      /\ todo'[r] = calls /\ value'[r] = value[r]
      /\ \A t \in Req : t # r => todo'[t] = todo[t] /\ value'[t] = value[t]
  BY <1>0, <1>1, <1>2, ContinueSets
<1>5. UNCHANGED <<meta, shares, rows, ckpt, run, runValue, minted, clobbered, crossed, cut, strayed,
                  crashes>>
  BY DEF Check, stores, history
<1>6. /\ Has(r, "answer")' /\ ~Has(r, "mint")' /\ ~Has(r, "unlink")' /\ ~Has(r, "drop")'
  BY <1>3, <1>4 DEF Has, Contains
<1>7. Has(r, "answer") /\ ~Has(r, "mint") /\ ~Has(r, "unlink")
  <2>1. todo[r] = <<"check", "answer">>
    BY <1>0, TodoFacts DEF Types, Idle, At, LeavesToDo
  <2>2. /\ Contains(<<"check", "answer">>, "answer") /\ ~Contains(<<"check", "answer">>, "mint")
        /\ ~Contains(<<"check", "answer">>, "unlink")
    BY ContainsTable
  <2> QED BY <2>1, <2>2 DEF Has, Contains
<1>8. At(r, "answer")' => calls = <<"answer">>
  <2>1. Head(calls) = "answer" => calls = <<"answer">>
    BY <1>1, TodoFacts DEF LeavesToDo
  <2> QED BY <1>4, <2>1 DEF At, Idle
<1>9. Types'
  BY <1>0, <1>4, <1>5 DEF Types
<1>10. RequestHolds(r)'
  BY <1>0, <1>1, <1>4, <1>5, <1>6, <1>7, <1>8 DEF RequestHolds, Named, Sharing
<1>11. Crossing' /\ Straying'
  BY <1>4, <1>5, <1>6, <1>7, NothingBegins DEF Sharing, Removing
<1>12. RunHasRow' /\ NothingOutlivesItsRow'
  BY <1>5 DEF RunHasRow, NothingOutlivesItsRow, RecordInv
<1>13. (\A k : Named(k)' <=> Named(k)) /\ ~Revoking(r)
  BY <1>5, <1>7 DEF Named, Revoking
<1>14. Linked'
  BY <1>4, <1>5, <1>13, LinkedKept
<1> QED BY <1>4, <1>5, <1>9, <1>10, <1>11, <1>12, <1>13, <1>14 DEF RequestStep

\* The new link is the one that the row names.
LEMMA LinkSteps ==
  ASSUME RecordInv, NEW r \in Req, Link(r)
  PROVE  RequestStep(r)
<1>0. Types /\ RequestHolds(r) /\ ~Idle(r) /\ value[r] \in Row /\ At(r, "link")
  BY DEF RecordInv, Types, Link, At
<1>1. /\ Continue(r, Tail(todo[r]), value[r]) /\ shares' = shares \cup {value[r].token}
      /\ UNCHANGED <<meta, rows, ckpt, run, runValue, minted, clobbered, crossed, cut, strayed,
                     crashes>>
  BY DEF Link, Done, history
<1>2. /\ todo' \in [Req -> Todos] /\ value' \in [Req -> Row]
      /\ todo'[r] = Tail(todo[r]) /\ (todo'[r] # <<>> => value'[r] = value[r])
      /\ \A t \in Req : t # r => todo'[t] = todo[t] /\ value'[t] = value[t]
      /\ \A s : Has(r, s) <=> At(r, s) \/ Has(r, s)'
      /\ \A s : Has(r, s)' <=> Contains(Tail(todo[r]), s)
      /\ \A s : Has(r, s)' => todo'[r] # <<>>
  BY <1>0, <1>1, NextCall
<1>3. Tail(todo[r]) = <<"answer">>
  BY <1>0, TodoFacts DEF Types, Idle, At, LeavesToDo
<1>4. /\ Has(r, "answer")' /\ ~Has(r, "mint")' /\ ~Has(r, "unlink")' /\ ~Has(r, "drop")'
      /\ value'[r] = value[r]
  <2>1. /\ Contains(<<"answer">>, "answer") /\ ~Contains(<<"answer">>, "mint")
        /\ ~Contains(<<"answer">>, "unlink") /\ ~Contains(<<"answer">>, "drop")
    BY ContainsTable
  <2> QED BY <1>2, <1>3, <2>1
<1>5. Has(r, "answer") /\ ~Has(r, "mint") /\ ~Has(r, "unlink")
  BY <1>0, <1>2, <1>4 DEF At
<1>6. /\ value[r].token \in Token
      /\ ~clobbered /\ ~crossed => Named(value[r].token)
  BY <1>0, <1>5 DEF RequestHolds, Sharing
<1>7. \A k : Named(k)' <=> Named(k)
  BY <1>1 DEF Named
<1>8. Types'
  BY <1>0, <1>1, <1>2, <1>6 DEF Types
<1>9. RequestHolds(r)'
  BY <1>1, <1>4, <1>6, <1>7 DEF RequestHolds, Named, Sharing
<1>10. Crossing' /\ Straying'
  BY <1>1, <1>2, <1>4, <1>5, NothingBegins DEF Sharing, Removing
<1>11. RunHasRow' /\ NothingOutlivesItsRow'
  BY <1>1 DEF RunHasRow, NothingOutlivesItsRow, RecordInv
<1>12. Linked'
  BY <1>1, <1>2, <1>5, <1>6, <1>7, LinkedKept DEF Revoking
<1> QED BY <1>1, <1>2, <1>5, <1>7, <1>8, <1>9, <1>10, <1>11, <1>12 DEF RequestStep, Sharing

\* The revocation holds the name that it takes from the row.
LEMMA UnnameSteps ==
  ASSUME RecordInv, NEW r \in Req, Unname(r)
  PROVE  RequestStep(r)
<1>0. Types /\ RequestHolds(r) /\ ~Idle(r) /\ value[r] \in Row /\ At(r, "unname")
  BY DEF RecordInv, Types, Unname, At
<1> DEFINE new == [value[r] EXCEPT !.token = NoToken]
<1>1. /\ Continue(r, Tail(todo[r]), value[r]) /\ Put(value[r], new)
      /\ UNCHANGED <<shares, rows, ckpt, run, runValue, minted, crossed, cut, strayed, crashes>>
  BY DEF Unname, Done
<1>2. new \in Row
  BY <1>0 DEF Row
<1> HIDE DEF new
<1>3. /\ todo' \in [Req -> Todos] /\ value' \in [Req -> Row]
      /\ todo'[r] = Tail(todo[r]) /\ (todo'[r] # <<>> => value'[r] = value[r])
      /\ \A t \in Req : t # r => todo'[t] = todo[t] /\ value'[t] = value[t]
      /\ \A s : Has(r, s) <=> At(r, s) \/ Has(r, s)'
      /\ \A s : Has(r, s)' <=> Contains(Tail(todo[r]), s)
      /\ \A s : Has(r, s)' => todo'[r] # <<>>
      /\ At(r, "answer")' <=> todo'[r] = <<"answer">>
  BY <1>0, <1>1, NextCall
<1>4. Tail(todo[r]) = <<"unlink">>
  BY <1>0, TodoFacts DEF Types, Idle, At, LeavesToDo
<1>5. /\ ~Has(r, "answer")' /\ ~Has(r, "mint")' /\ Has(r, "unlink")' /\ ~Has(r, "drop")'
      /\ ~At(r, "answer")' /\ value'[r] = value[r]
  <2>1. /\ ~Contains(<<"unlink">>, "answer") /\ ~Contains(<<"unlink">>, "mint")
        /\ Contains(<<"unlink">>, "unlink") /\ ~Contains(<<"unlink">>, "drop")
        /\ <<"unlink">> # <<"answer">>
    BY ContainsTable
  <2> QED BY <1>3, <1>4, <2>1
<1>6. Has(r, "unlink")
  BY <1>3, <1>5
<1>7. /\ meta' # NoRow /\ meta' \in Row \cup {NoRow}
      /\ clobbered' \in BOOLEAN /\ (clobbered => clobbered')
      /\ ~clobbered' => \A k : Named(k) => value[r].token = k
  BY <1>0, <1>1, <1>2, PutKeepsNames
<1>8. Types'
  BY <1>0, <1>1, <1>3, <1>7 DEF Types
<1>9. RequestHolds(r)'
  BY <1>5 DEF RequestHolds, Sharing
<1>10. Crossing' /\ Straying'
  BY <1>1, <1>3, <1>5, <1>6, NothingBegins DEF Sharing, Removing
<1>11. RunHasRow' /\ NothingOutlivesItsRow'
  BY <1>7 DEF RunHasRow, NothingOutlivesItsRow
<1>12. Linked'
  <2>1. Revoking(r)'
    BY <1>5 DEF Revoking
  <2> QED BY <1>1, <1>3, <1>5, <1>7, <2>1, LinkedKept
<1> QED BY <1>1, <1>3, <1>6, <1>7, <1>8, <1>9, <1>10, <1>11, <1>12 DEF RequestStep, Removing

\* The link goes, and the deletion that dropped it can drop the row.
LEMMA UnlinkSteps ==
  ASSUME RecordInv, NEW r \in Req, Unlink(r)
  PROVE  RequestStep(r)
<1>0. Types /\ RequestHolds(r) /\ ~Idle(r) /\ value[r] \in Row /\ At(r, "unlink")
  BY DEF RecordInv, Types, Unlink, At
<1>1. /\ Continue(r, Tail(todo[r]), value[r]) /\ shares' = shares \ {value[r].token}
      /\ UNCHANGED <<meta, rows, ckpt, run, runValue, minted, clobbered, crossed, cut, strayed,
                     crashes>>
  BY DEF Unlink, Done, history
<1>2. /\ todo' \in [Req -> Todos] /\ value' \in [Req -> Row]
      /\ todo'[r] = Tail(todo[r]) /\ (todo'[r] # <<>> => value'[r] = value[r])
      /\ \A t \in Req : t # r => todo'[t] = todo[t] /\ value'[t] = value[t]
      /\ \A s : Has(r, s) <=> At(r, s) \/ Has(r, s)'
      /\ \A s : Has(r, s)' <=> Contains(Tail(todo[r]), s)
      /\ \A s : Has(r, s)' => todo'[r] # <<>>
      /\ At(r, "answer")' <=> todo'[r] = <<"answer">>
  BY <1>0, <1>1, NextCall
<1>3. /\ ~Contains(Tail(todo[r]), "unlink") /\ ~Contains(Tail(todo[r]), "answer")
      /\ ~Contains(Tail(todo[r]), "mint")
  BY <1>0, TodoFacts DEF Types, Idle, At, LeavesToDo
<1>4. /\ ~Has(r, "answer")' /\ ~Has(r, "mint")' /\ ~Has(r, "unlink")' /\ Has(r, "unlink")
      /\ Has(r, "drop")' <=> Has(r, "drop")
      /\ Has(r, "rows")' <=> Has(r, "rows")
      /\ Has(r, "ckpt")' <=> Has(r, "ckpt")
  BY <1>0, <1>2, <1>3 DEF At
<1>5. ~At(r, "answer")'
  <2>1. Contains(<<"answer">>, "answer")
    BY ContainsTable
  <2> QED BY <1>2, <1>4, <2>1
<1>6. \A k : Named(k)' <=> Named(k)
  BY <1>1 DEF Named
<1>7. Types'
  BY <1>0, <1>1, <1>2 DEF Types
<1>8. RequestHolds(r)'
  <2>1. Has(r, "drop")' => value'[r].token \notin shares'
    BY <1>1, <1>2
  <2> QED BY <1>0, <1>1, <1>4, <1>5, <2>1 DEF RequestHolds, Sharing
<1>9. Crossing' /\ Straying'
  BY <1>1, <1>2, <1>4, NothingBegins DEF Sharing, Removing
<1>10. RunHasRow' /\ NothingOutlivesItsRow'
  BY <1>1 DEF RunHasRow, NothingOutlivesItsRow, RecordInv
<1>11. Linked'
  BY <1>1, <1>2, <1>6, LinkedKept
<1> QED BY <1>1, <1>2, <1>4, <1>6, <1>7, <1>8, <1>9, <1>10, <1>11 DEF RequestStep, Removing

\* The deletion reads the token whose link it will drop.
LEMMA ReadTokenSteps ==
  ASSUME RecordInv, NEW r \in Req, ReadToken(r)
  PROVE  RequestStep(r)
<1>0. Types /\ RequestHolds(r) /\ ~Idle(r) /\ Copy(meta) \in Row /\ At(r, "read")
  BY CopyIsRow DEF RecordInv, Types, ReadToken, At
<1>1. /\ Continue(r, Tail(todo[r]), Copy(meta))
      /\ UNCHANGED <<meta, shares, rows, ckpt, run, runValue, minted, clobbered, crossed, cut,
                     strayed, crashes>>
  BY DEF ReadToken, stores, history
<1>2. /\ todo' \in [Req -> Todos] /\ value' \in [Req -> Row]
      /\ todo'[r] = Tail(todo[r])
      /\ \A t \in Req : t # r => todo'[t] = todo[t] /\ value'[t] = value[t]
      /\ \A s : Has(r, s) <=> At(r, s) \/ Has(r, s)'
      /\ \A s : Has(r, s)' <=> Contains(Tail(todo[r]), s)
      /\ At(r, "answer")' <=> todo'[r] = <<"answer">>
  BY <1>0, <1>1, NextCall
<1>3. Tail(todo[r]) = <<"unlink", "drop">>
  BY <1>0, TodoFacts DEF Types, Idle, At, LeavesToDo
<1>4. /\ ~Has(r, "answer")' /\ ~Has(r, "mint")' /\ Has(r, "unlink")' /\ Has(r, "drop")'
      /\ ~Has(r, "rows")' /\ ~Has(r, "ckpt")' /\ ~At(r, "answer")'
  <2>1. /\ ~Contains(<<"unlink", "drop">>, "answer") /\ ~Contains(<<"unlink", "drop">>, "mint")
        /\ Contains(<<"unlink", "drop">>, "unlink") /\ Contains(<<"unlink", "drop">>, "drop")
        /\ ~Contains(<<"unlink", "drop">>, "rows") /\ ~Contains(<<"unlink", "drop">>, "ckpt")
        /\ <<"unlink", "drop">> # <<"answer">>
    BY ContainsTable
  <2> QED BY <1>2, <1>3, <2>1
<1>5. /\ Has(r, "unlink") /\ Has(r, "drop") /\ ~Has(r, "rows") /\ ~Has(r, "ckpt")
  BY <1>0, <1>2, <1>4 DEF At
<1>6. (\A k : Named(k)' <=> Named(k)) /\ ~Revoking(r)
  BY <1>1, <1>5 DEF Named, Revoking
<1>7. Types'
  BY <1>0, <1>1, <1>2 DEF Types
<1>8. RequestHolds(r)'
  BY <1>0, <1>1, <1>4, <1>5 DEF RequestHolds, Sharing
<1>9. Crossing' /\ Straying'
  BY <1>1, <1>2, <1>4, <1>5, NothingBegins DEF Sharing, Removing
<1>10. RunHasRow' /\ NothingOutlivesItsRow'
  BY <1>1 DEF RunHasRow, NothingOutlivesItsRow, RecordInv
<1>11. Linked'
  BY <1>1, <1>2, <1>6, LinkedKept
<1> QED BY <1>1, <1>2, <1>6, <1>7, <1>8, <1>9, <1>10, <1>11 DEF RequestStep

\* The row goes last: of what it named and listed nothing is left.
LEMMA DropSteps ==
  ASSUME RecordInv, NEW r \in Req, Drop(r)
  PROVE  RequestStep(r)
<1>0. Types /\ RequestHolds(r) /\ ~Idle(r) /\ value[r] \in Row /\ At(r, "drop")
  BY DEF RecordInv, Types, Drop, At
<1>1. /\ Continue(r, Tail(todo[r]), value[r]) /\ meta' = NoRow
      /\ clobbered' = (clobbered \/ Copy(meta) # value[r])
      /\ UNCHANGED <<shares, rows, ckpt, run, runValue, minted, crossed, cut, strayed, crashes>>
  BY DEF Drop, Done
<1>2. /\ todo' \in [Req -> Todos] /\ value' \in [Req -> Row]
      /\ todo'[r] = Tail(todo[r])
      /\ \A t \in Req : t # r => todo'[t] = todo[t] /\ value'[t] = value[t]
      /\ \A s : Has(r, s) <=> At(r, s) \/ Has(r, s)'
      /\ \A s : Has(r, s)' => todo'[r] # <<>>
      /\ At(r, "answer")' <=> todo'[r] = <<"answer">>
  BY <1>0, <1>1, NextCall
<1>3. Tail(todo[r]) = <<>>
  BY <1>0, TodoFacts DEF Types, Idle, At, LeavesToDo
<1>4. (\A s : ~Has(r, s)') /\ ~At(r, "answer")'
  BY <1>2, <1>3
<1>5. Has(r, "drop") /\ ~Has(r, "unlink") /\ ~Has(r, "rows") /\ ~Has(r, "ckpt")
  BY <1>0, <1>2, <1>4 DEF At
<1>6. clobbered' \in BOOLEAN /\ (clobbered => clobbered')
  BY <1>0, <1>1 DEF Types
<1>7. Types'
  BY <1>0, <1>1, <1>2, <1>6 DEF Types
<1>8. RequestHolds(r)'
  BY <1>4 DEF RequestHolds, Sharing
<1>9. Crossing' /\ Straying'
  BY <1>1, <1>2, <1>4, NothingBegins DEF Sharing, Removing
<1>10. RunHasRow'
  BY <1>1, <1>5 DEF RunHasRow, Straying, RecordInv
<1>11. NothingOutlivesItsRow'
  BY <1>0, <1>1, <1>5 DEF NothingOutlivesItsRow, RequestHolds
<1>12. Linked'
  <2>1. ~Revoking(r)
    BY <1>5 DEF Revoking
  <2>2. ~clobbered' /\ ~crossed => \A k \in shares : ~Named(k)
    BY <1>0, <1>1, <1>5, <1>6, CopyIsRow DEF RequestHolds, Named
  <2> QED BY <1>1, <1>2, <1>6, <2>1, <2>2, LinkedKept
<1> QED BY <1>1, <1>2, <1>5, <1>6, <1>7, <1>8, <1>9, <1>10, <1>11, <1>12 DEF RequestStep, Removing

\* A request that fails has no more to do.
LEMMA FailSteps ==
  ASSUME RecordInv, NEW r \in Req, Fail(r)
  PROVE  RequestStep(r)
<1>0. Types
  BY DEF RecordInv
<1>1. /\ Continue(r, <<>>, NewRow) /\ cut' = (cut \/ Revoking(r))
      /\ UNCHANGED <<meta, shares, rows, ckpt, run, runValue, minted, clobbered, crossed, strayed,
                     crashes>>
  BY DEF Fail, stores
<1>2. <<>> \in Todos
  BY DEF Todos
<1>3. /\ todo' \in [Req -> Todos] /\ value' \in [Req -> Row] /\ todo'[r] = <<>>
      /\ \A t \in Req : t # r => todo'[t] = todo[t] /\ value'[t] = value[t]
  BY <1>0, <1>1, <1>2, NewRowIsRow, ContinueSets
<1>4. (\A s : ~Has(r, s)') /\ ~At(r, "answer")'
  BY <1>3 DEF Has, At, Idle
<1>5. cut' \in BOOLEAN /\ (cut => cut')
  BY <1>0, <1>1 DEF Types, Revoking
<1>6. Types'
  BY <1>0, <1>1, <1>3, <1>5 DEF Types
<1>7. RequestHolds(r)'
  BY <1>4 DEF RequestHolds, Sharing
<1>8. Crossing' /\ Straying'
  BY <1>1, <1>3, <1>4, NothingBegins DEF Sharing, Removing
<1>9. RunHasRow' /\ NothingOutlivesItsRow'
  BY <1>1 DEF RunHasRow, NothingOutlivesItsRow, RecordInv
<1>10. \A k : Named(k)' <=> Named(k)
  BY <1>1 DEF Named
<1>11. Linked'
  BY <1>1, <1>3, <1>5, <1>10, LinkedKept
<1> QED BY <1>1, <1>3, <1>6, <1>7, <1>8, <1>9, <1>10, <1>11 DEF RequestStep

-----------------------------------------------------------------------------
\* A step of the run: the requests and the links keep what they rely on.
LEMMA RunKeepsRequests ==
  ASSUME RecordInv,
         UNCHANGED <<todo, value, shares, crossed, cut>>,
         clobbered => clobbered', strayed => strayed',
         ~clobbered' => \A k : Named(k) => Named(k)',
         ~strayed' /\ (\E r \in Req : Has(r, "drop")) => rows' = rows /\ ckpt' = ckpt
  PROVE  (\A r \in Req : RequestHolds(r)') /\ Crossing' /\ Linked'
<1>1. \A r \in Req : /\ \A s : Has(r, s)' <=> Has(r, s)
                     /\ At(r, "answer")' <=> At(r, "answer")
                     /\ Sharing(r)' <=> Sharing(r)
                     /\ Removing(r)' <=> Removing(r)
                     /\ Revoking(r)' <=> Revoking(r)
  BY DEF Has, At, Idle, Sharing, Removing, Revoking
<1>2. ASSUME NEW r \in Req
      PROVE  RequestHolds(r)'
  <2>1. RequestHolds(r)
    BY DEF RecordInv
  <2>2. ~clobbered' /\ Named(value[r].token) => meta' # NoRow /\ meta'.token = value'[r].token
    BY DEF Named
  <2> QED BY <1>1, <2>1, <2>2 DEF RequestHolds, Named
<1>3. Crossing'
  BY <1>1 DEF Crossing, RecordInv
<1>4. Linked'
  BY <1>1 DEF Linked, RecordInv
<1> QED BY <1>2, <1>3, <1>4

\* The run reads the row.
LEMMA RunReadsKeepsInv ==
  ASSUME RecordInv, StartRun \/ EndRun
  PROVE  RecordInv'
<1>0. Types
  BY DEF RecordInv
<1>1. /\ run' \in {"starting", "ending"} /\ (run' = "ending" => run = "active")
      /\ runValue' = Copy(meta)
      /\ strayed' = (strayed \/ \E r \in Req : Has(r, "drop"))
      /\ UNCHANGED <<meta, shares, rows, ckpt, todo, value, minted, clobbered, crossed, cut, crashes>>
  BY DEF StartRun, EndRun, RunReads, stores
<1>2. strayed' \in BOOLEAN /\ (strayed => strayed')
  BY <1>0, <1>1 DEF Types
<1>3. Types'
  BY <1>0, <1>1, <1>2, CopyIsRow DEF Types
<1>4. (\A r \in Req : RequestHolds(r)') /\ Crossing' /\ Linked'
  <2>1. \A k : Named(k) => Named(k)'
    BY <1>1 DEF Named
  <2> QED BY <1>1, <1>2, <2>1, RunKeepsRequests
<1>5. Straying'
  BY <1>1 DEF Straying, Has
<1>6. RunHasRow' /\ NothingOutlivesItsRow'
  BY <1>1, <1>2 DEF RunHasRow, NothingOutlivesItsRow, RecordInv
<1> QED BY <1>3, <1>4, <1>5, <1>6 DEF RecordInv

\* The run writes the row with its status.
LEMMA RunWritesKeepsInv ==
  ASSUME RecordInv, RecordStart \/ RecordEnd
  PROVE  RecordInv'
<1>0. Types
  BY DEF RecordInv
<1>1. PICK status \in Status :
        /\ run # "none" /\ run' \in {"none", "active"}
        /\ Put(runValue, [runValue EXCEPT !.status = status])
        /\ runValue' = NewRow
        /\ UNCHANGED <<shares, rows, ckpt, todo, value, minted, crossed, cut, strayed, crashes>>
  BY DEF RecordStart, RecordEnd, RunWrites, Status
<1> DEFINE new == [runValue EXCEPT !.status = status]
<1>2. new \in Row /\ new.token = runValue.token
  BY <1>0 DEF Types, Row
<1> HIDE DEF new
<1>3. /\ meta' # NoRow /\ meta' \in Row \cup {NoRow}
      /\ clobbered' \in BOOLEAN /\ (clobbered => clobbered')
      /\ ~clobbered' => \A k : Named(k) => Named(k)'
  <2>1. runValue \in Row /\ Put(runValue, new)
    BY <1>0, <1>1 DEF Types, new
  <2> QED BY <1>0, <1>2, <2>1, PutKeepsNames
<1>4. Types'
  BY <1>0, <1>1, <1>3, NewRowIsRow DEF Types
<1>5. (\A r \in Req : RequestHolds(r)') /\ Crossing' /\ Linked'
  BY <1>1, <1>3, RunKeepsRequests
<1>6. Straying'
  BY <1>1 DEF Straying, Has, RecordInv
<1>7. RunHasRow' /\ NothingOutlivesItsRow'
  BY <1>3 DEF RunHasRow, NothingOutlivesItsRow
<1> QED BY <1>4, <1>5, <1>6, <1>7 DEF RecordInv

\* The record of the run fails.
LEMMA RecordFailsKeepsInv ==
  ASSUME RecordInv, RecordFails
  PROVE  RecordInv'
<1>0. Types
  BY DEF RecordInv
<1>1. /\ run \in {"starting", "ending"} /\ run' \in {"none", "active"}
      /\ runValue' = NewRow /\ strayed' = (strayed \/ meta = NoRow)
      /\ UNCHANGED <<meta, shares, rows, ckpt, todo, value, minted, clobbered, crossed, cut, crashes>>
  BY DEF RecordFails, stores
<1>2. strayed' \in BOOLEAN /\ (strayed => strayed')
  BY <1>0, <1>1 DEF Types
<1>3. Types'
  BY <1>0, <1>1, <1>2, NewRowIsRow DEF Types
<1>4. (\A r \in Req : RequestHolds(r)') /\ Crossing' /\ Linked'
  <2>1. \A k : Named(k) => Named(k)'
    BY <1>1 DEF Named
  <2> QED BY <1>1, <1>2, <2>1, RunKeepsRequests
<1>5. Straying'
  BY <1>1, <1>2 DEF Straying, Has, RecordInv
<1>6. RunHasRow' /\ NothingOutlivesItsRow'
  BY <1>1, <1>2 DEF RunHasRow, NothingOutlivesItsRow, RecordInv
<1> QED BY <1>3, <1>4, <1>5, <1>6 DEF RecordInv

\* The run stores history and checkpoints, beside a row unless it strayed.
LEMMA RunStoresKeepsInv ==
  ASSUME RecordInv, RunStores
  PROVE  RecordInv'
<1>0. Types
  BY DEF RecordInv
<1>1. /\ run = "active" /\ rows' = TRUE /\ ckpt' = TRUE
      /\ UNCHANGED <<meta, shares, todo, value, run, runValue, minted, clobbered, crossed, cut,
                     strayed, crashes>>
  BY DEF RunStores, history
<1>2. Types'
  BY <1>0, <1>1 DEF Types
<1>3. (\A r \in Req : RequestHolds(r)') /\ Crossing' /\ Linked'
  <2>1. \A k : Named(k) => Named(k)'
    BY <1>1 DEF Named
  <2>2. (\E r \in Req : Has(r, "drop")) => strayed
    BY <1>1 DEF RecordInv, Straying
  <2> QED BY <1>1, <2>1, <2>2, RunKeepsRequests
<1>4. Straying'
  BY <1>1 DEF Straying, Has, RecordInv
<1>5. RunHasRow' /\ NothingOutlivesItsRow'
  BY <1>1 DEF RunHasRow, NothingOutlivesItsRow, RecordInv
<1> QED BY <1>2, <1>3, <1>4, <1>5 DEF RecordInv

\* The process dies, and the row keeps its name.
LEMMA CrashKeepsInv ==
  ASSUME RecordInv, Crash
  PROVE  RecordInv'
<1>0. Types
  BY DEF RecordInv
<1>1. /\ crashes < MaxCrashes /\ crashes' = crashes + 1
      /\ todo' = [r \in Req |-> <<>>] /\ value' = [r \in Req |-> NewRow]
      /\ run' = "none" /\ runValue' = NewRow
      /\ cut' = (cut \/ \E r \in Req : Revoking(r))
      /\ UNCHANGED <<shares, rows, ckpt, minted, clobbered, crossed, strayed>>
  BY DEF Crash
<1>2. /\ meta' \in Row \cup {NoRow} /\ (meta' = NoRow => meta = NoRow)
      /\ \A k : Named(k) => Named(k)'
  <2>1. CASE meta # NoRow /\ meta.status = "running"
    <3>1. meta \in Row /\ meta' = [meta EXCEPT !.status = "ended"]
      BY <1>0, <2>1 DEF Crash, Types
    <3>2. meta' \in Row /\ meta'.token = meta.token
      BY <3>1 DEF Row, Status
    <3> QED BY <2>1, <3>2, NoRowAssumption DEF Named
  <2>2. CASE ~(meta # NoRow /\ meta.status = "running")
    <3>1. meta' = meta
      BY <2>2 DEF Crash
    <3> QED BY <1>0, <3>1 DEF Named, Types
  <2> QED BY <2>1, <2>2
<1>3. Types'
  <2>1. todo' \in [Req -> Todos] /\ value' \in [Req -> Row]
    BY <1>1, NewRowIsRow DEF Todos
  <2>2. cut' \in BOOLEAN /\ crashes' \in 0 .. MaxCrashes
    BY <1>0, <1>1, CrashAssumption DEF Types
  <2> QED BY <1>0, <1>1, <1>2, <2>1, <2>2, NewRowIsRow DEF Types
<1>4. \A r \in Req : (\A s : ~Has(r, s)') /\ ~At(r, "answer")'
  BY <1>1 DEF Has, At, Idle
<1>5. \A r \in Req : RequestHolds(r)'
  BY <1>4 DEF RequestHolds, Sharing
<1>6. Crossing' /\ Straying' /\ RunHasRow'
  BY <1>1, <1>4 DEF Crossing, Straying, RunHasRow, Sharing
<1>7. NothingOutlivesItsRow'
  BY <1>1, <1>2 DEF NothingOutlivesItsRow, RecordInv
<1>8. Linked'
  BY <1>1, <1>2 DEF Linked, RecordInv
<1> QED BY <1>3, <1>5, <1>6, <1>7, <1>8 DEF RecordInv

-----------------------------------------------------------------------------
\* Nothing is stored and nothing is in flight.
LEMMA InitHolds == Init => RecordInv
<1> SUFFICES ASSUME Init PROVE RecordInv
  OBVIOUS
<1>0. /\ meta = NoRow /\ shares = {} /\ rows = FALSE /\ ckpt = FALSE
      /\ todo = [r \in Req |-> <<>>] /\ value = [r \in Req |-> NewRow]
      /\ run = "none" /\ runValue = NewRow /\ minted = {} /\ crashes = 0
      /\ clobbered = FALSE /\ crossed = FALSE /\ cut = FALSE /\ strayed = FALSE
  BY DEF Init
<1>1. Types
  <2>1. todo \in [Req -> Todos] /\ value \in [Req -> Row]
    BY <1>0, NewRowIsRow DEF Todos
  <2>2. crashes \in 0 .. MaxCrashes
    BY <1>0, CrashAssumption
  <2> QED BY <1>0, <2>1, <2>2, NewRowIsRow DEF Types
<1>2. \A r \in Req : (\A s : ~Has(r, s)) /\ ~At(r, "answer")
  <2>1. \A r \in Req : todo[r] = <<>>
    BY <1>0
  <2> QED BY <2>1, ContainsTable, ZenonT(40) DEF Has, At, Idle, Contains
<1>3. \A r \in Req : RequestHolds(r)
  BY <1>2 DEF RequestHolds, Sharing
<1>4. Crossing /\ Straying /\ RunHasRow /\ Linked /\ NothingOutlivesItsRow
  BY <1>2 DEF Init, Crossing, Straying, RunHasRow, Linked, NothingOutlivesItsRow, Sharing
<1> QED BY <1>1, <1>3, <1>4 DEF RecordInv

\* Every action keeps the invariant.
LEMMA NextHolds == RecordInv /\ [Next]_vars => RecordInv'
<1> SUFFICES ASSUME RecordInv, [Next]_vars PROVE RecordInv'
  OBVIOUS
<1>1. ASSUME NEW r \in Req,
             \/ Rename(r) \/ Title(r) \/ Share(r) \/ Revoke(r) \/ Delete(r) \/ DeleteAll(r)
             \/ WriteBack(r) \/ Mint(r) \/ Check(r) \/ Link(r) \/ Answer(r) \/ Unname(r)
             \/ Unlink(r) \/ DeleteCkpt(r) \/ DeleteRows(r) \/ ReadToken(r) \/ Drop(r) \/ Fail(r)
      PROVE  RecordInv'
  <2>1. RequestStep(r)
    BY <1>1, RequestsBegin, PlainCallsStep, WriteBackSteps, MintSteps, CheckSteps, LinkSteps,
       UnnameSteps, UnlinkSteps, ReadTokenSteps, DropSteps, FailSteps
  <2> QED BY <2>1, RequestStepKeepsInv
<1>2. CASE StartRun \/ EndRun
  BY <1>2, RunReadsKeepsInv
<1>3. CASE RecordStart \/ RecordEnd
  BY <1>3, RunWritesKeepsInv
<1>4. CASE RecordFails
  BY <1>4, RecordFailsKeepsInv
<1>5. CASE RunStores
  BY <1>5, RunStoresKeepsInv
<1>6. CASE Crash
  BY <1>6, CrashKeepsInv
<1>7. CASE UNCHANGED vars
  <2>1. UNCHANGED <<meta, shares, rows, ckpt, todo, value, run, runValue, minted, clobbered, crossed,
                    cut, strayed, crashes>>
    BY <1>7 DEF vars, stores, history
  <2>2. (\A r \in Req : RequestHolds(r)') /\ Crossing' /\ Linked'
    <3>1. \A k : Named(k) => Named(k)'
      BY <2>1 DEF Named
    <3> QED BY <2>1, <3>1, RunKeepsRequests
  <2>3. Types' /\ Straying' /\ RunHasRow' /\ NothingOutlivesItsRow'
    BY <2>1 DEF RecordInv, Types, Straying, Has, RunHasRow, NothingOutlivesItsRow
  <2> QED BY <2>2, <2>3 DEF RecordInv
<1> QED BY <1>1, <1>2, <1>3, <1>4, <1>5, <1>6, <1>7 DEF Next

\* The invariant holds of the specification.
LEMMA RecordHolds == Spec => []RecordInv
BY InitHolds, NextHolds, PTL DEF Spec

\* A request's calls are a sequence of calls.
LEMMA TodosAreSequences == Todos \subseteq Seq(Step)
BY DEF Todos, Step

\* The thread's record is well typed: the row, when there is one, and the rows that
\* requests and the run have read are rows, only tokens resolve, and what a request
\* has left to do are store calls.
THEOREM RecordTypeTheorem == Spec => []TypeOK
<1>1. RecordInv => TypeOK
  BY TodosAreSequences DEF RecordInv, Types, TypeOK
<1> QED BY <1>1, RecordHolds, PTL

\* A link that resolves is in the row, or a request is about to remove it
\* (services/share.py, endpoints/chat.py), for any requests in flight: with no
\* update of the row lost, no share crossed by a removal, no revocation cut short.
THEOREM LinksTheorem == Spec => []LinksAreNamed
<1>1. RecordInv => LinksAreNamed
  BY DEF RecordInv, Linked, LinksAreNamed, Revoking
<1> QED BY <1>1, RecordHolds, PTL

\* The link that a share request answers with resolves, and the row names it.
THEOREM AnswersTheorem == Spec => []AnswersResolve
<1>1. ASSUME RecordInv, NEW r \in Req, At(r, "answer")
      PROVE  Sharing(r) /\ ~Has(r, "mint")
  <2>1. todo[r] \in Todos /\ todo[r] = <<"answer">>
    BY <1>1, TodoFacts DEF At, Idle, LeavesToDo, RecordInv, Types
  <2>2. Contains(<<"answer">>, "answer") /\ ~Contains(<<"answer">>, "mint")
    BY ContainsTable
  <2> QED BY <2>1, <2>2 DEF Sharing, Has, Contains
<1>2. RecordInv => AnswersResolve
  BY <1>1 DEF RecordInv, RequestHolds, AnswersResolve
<1> QED BY <1>2, RecordHolds, PTL

\* Rows and checkpoint are gone before the row that lists them, at whichever call a
\* deletion fails or the process dies, as long as no run is beside it.
THEOREM DeletionTheorem == Spec => []NothingOutlivesItsRow
<1>1. RecordInv => NothingOutlivesItsRow
  BY DEF RecordInv
<1> QED BY <1>1, RecordHolds, PTL
=============================================================================
