---------------------------- MODULE Agents_proofs ----------------------------
(***************************************************************************)
(* What agents are built from, for any number of requests, connections,    *)
(* tool-server instances, sessions, skills and cached graphs: the default  *)
(* connection that the process resolves (Connections), the graphs built on *)
(* demand (AgentRegistry), the snapshot of a config's skills               *)
(* (AgentConfigs) and the sessions of the tool servers (McpSessions).      *)
(*                                                                         *)
(* Each property speaks of a moment when nobody is at work, and its        *)
(* invariant of the moments before: who will still resolve a default       *)
(* (Resolves) or drop the graphs (Dirty), how far a request has copied     *)
(* (Reached), and who may open or close a session (InstanceHolds).         *)
(***************************************************************************)
EXTENDS AgentRegistry, AgentConfigs, McpSessions, FiniteSetTheorems, SequenceTheorems, TLAPS

-----------------------------------------------------------------------------
(* The connections. *)

\* A request, but for its answer, which is whatever the query found.
AdminRecord(a) ==
  [op : {"none", "create", "update", "delete"}, at : {"idle", "get", "clear", "write", "ask", "told"},
   name : Name \cup {"none"}, kind : Kind \cup {"none"}, default : BOOLEAN, enabled : BOOLEAN,
   step : 1..2, answer : {a}]
Row == [kind : Kind \cup {"none"}, default : BOOLEAN, enabled : BOOLEAN, rev : Nat, born : Nat]

\* What clears the defaults will write one.
ConnTypeOK ==
  /\ conns \in [Name -> Row] /\ resolved = [k \in Kind |-> resolved[k]]
  /\ adm = [s \in Admin |-> adm[s]] /\ \A s \in Admin : adm[s] \in AdminRecord(adm[s].answer)
  /\ writes \in Nat /\ spoiled \in BOOLEAN /\ raced \in BOOLEAN
  /\ \A s \in Admin : /\ adm[s].at = "clear" => adm[s].default
                      /\ adm[s].at \in {"get", "clear", "write"} =>
                           /\ adm[s].name \in Name /\ adm[s].step = 1
                           /\ adm[s].op # "delete" => adm[s].kind \in Kind

\* Between its clearing and its write the defaults of a request's kind are its own.
Clearing(s) == adm[s].at = "write" /\ adm[s].default
OneDefault ==
  /\ \A n, m \in Name : conns[n].default /\ conns[m].default /\ conns[n].kind = conns[m].kind => n = m
  /\ \A s \in Admin, n \in Name :
       Clearing(s) /\ conns[n].default /\ conns[n].kind = adm[s].kind => n = adm[s].name

\* Who will resolve a kind again, by its place among the kinds, or stores what it is.
Resolves(s, j) ==
  \/ Clearing(s)
  \/ adm[s].at = "ask" /\ adm[s].step <= j
  \/ adm[s].at = "told" /\ adm[s].step < j
  \/ adm[s].at = "told" /\ adm[s].step = j /\ adm[s].answer = GetDefault(Resolved[j])

\* What the process resolves is the default or will be resolved again, and a request
\* that stores an answer stores the default or another will resolve after it.
Resolving ==
  /\ \A j \in 1..2 : \/ resolved[Resolved[j]] = GetDefault(Resolved[j])
                     \/ \E s \in Admin : Resolves(s, j)
  /\ \A s \in Admin, j \in 1..2 : adm[s].at = "told" /\ adm[s].step = j =>
       \/ adm[s].answer = GetDefault(Resolved[j])
       \/ \E o \in Admin : Clearing(o)

ConnInv == ConnTypeOK /\ (~raced => OneDefault) /\ (~raced /\ ~spoiled => Resolving)

\* The default of a kind is a matter of the rows.
LEMMA DefaultOfRows == ASSUME conns' = conns, NEW k PROVE GetDefault(k)' = GetDefault(k)
BY DEF GetDefault, Better

LEMMA KindsInOrder == Resolved[1] = "llm" /\ Resolved[2] = "embeddings" /\ Len(Resolved) = 2
BY DEF Resolved

LEMMA FreeRequest == Free \in AdminRecord(0) /\ Free.answer = 0 /\ Free.at = "idle"
BY DEF Free, AdminRecord

LEMMA ConnInitHolds == ConnInit => ConnInv
<1> SUFFICES ASSUME ConnInit PROVE ConnInv
  OBVIOUS
<1>1. /\ conns = [n \in Name |-> Absent] /\ resolved = [k \in Kind |-> 0] /\ adm = [s \in Admin |-> Free]
      /\ writes = 0 /\ spoiled = FALSE /\ raced = FALSE
  BY DEF ConnInit
<1>2. Absent \in Row /\ ~Absent.default /\ Absent.kind = "none"
  BY DEF Absent, Row
<1>3. ConnTypeOK
  <2>1. \A s \in Admin : adm[s] \in AdminRecord(adm[s].answer) /\ adm[s].at = "idle"
    BY <1>1, FreeRequest
  <2> QED BY <1>1, <1>2, <2>1 DEF ConnTypeOK
<1>4. OneDefault
  <2>1. \A n \in Name : ~conns[n].default
    BY <1>1, <1>2
  <2> QED BY <2>1 DEF OneDefault
<1>5. Resolving
  <2>1. \A k \in Kind : GetDefault(k) = 0
    <3>1. \A k \in Kind : {n \in Name : conns[n].kind = k /\ conns[n].enabled} = {}
      BY <1>1, <1>2 DEF Kind
    <3> QED BY <3>1 DEF GetDefault
  <2>2. \A j \in 1..2 : Resolved[j] \in Kind
    BY KindsInOrder DEF Kind
  <2>3. \A s \in Admin : adm[s].at = "idle"
    BY <1>1, FreeRequest
  <2> QED BY <1>1, <2>1, <2>2, <2>3 DEF Resolving
<1> QED BY <1>3, <1>4, <1>5 DEF ConnInv

\* What a request goes on as, the rows being what they were.
LEMMA AdminGoesOn ==
  ASSUME ConnInv, NEW s \in Admin, NEW a, NEW r \in AdminRecord(a),
         adm' = [adm EXCEPT ![s] = r], conns' = conns, writes' = writes, raced' = raced,
         spoiled' \in BOOLEAN, spoiled => spoiled',
         resolved' = [k \in Kind |-> resolved'[k]],
         r.at = "clear" => r.default,
         r.at \in {"get", "clear", "write"} =>
           r.name \in Name /\ r.step = 1 /\ (r.op # "delete" => r.kind \in Kind),
         r.at = "write" => ~r.default,
         ~raced /\ ~spoiled' => Resolving'
  PROVE  ConnInv'
<1>1. ConnTypeOK /\ \A t \in Admin : adm'[t] = IF t = s THEN r ELSE adm[t]
  BY DEF ConnInv, ConnTypeOK
<1>2. r.answer = a
  BY DEF AdminRecord
<1>3. ConnTypeOK'
  <2>1. adm' = [t \in Admin |-> adm'[t]]
    BY <1>1 DEF ConnTypeOK
  <2>2. \A t \in Admin : adm'[t] \in AdminRecord(adm'[t].answer)
    BY <1>1, <1>2 DEF ConnTypeOK
  <2>3. /\ conns' \in [Name -> Row] /\ writes' \in Nat /\ raced' \in BOOLEAN
        /\ \A t \in Admin : /\ adm'[t].at = "clear" => adm'[t].default
                            /\ adm'[t].at \in {"get", "clear", "write"} =>
                                 /\ adm'[t].name \in Name /\ adm'[t].step = 1
                                 /\ adm'[t].op # "delete" => adm'[t].kind \in Kind
    BY <1>1 DEF ConnTypeOK
  <2>4. AdminRecord(1)' = AdminRecord(1) /\ Row' = Row
    OBVIOUS
  <2> QED BY <2>1, <2>2, <2>3 DEF ConnTypeOK, AdminRecord, Row
<1>4. ~raced => OneDefault'
  BY <1>1 DEF ConnInv, OneDefault, Clearing
<1> QED BY <1>3, <1>4 DEF ConnInv

\* A step that leaves rows and resolutions alone, of a request that nobody waits for.
LEMMA QuietStep ==
  ASSUME ConnInv, NEW s \in Admin, NEW a, NEW r \in AdminRecord(a),
         adm' = [adm EXCEPT ![s] = r], UNCHANGED <<conns, writes, raced, spoiled, resolved>>,
         adm[s].at \notin {"ask", "told"}, ~Clearing(s), r.at # "told",
         r.at = "clear" => r.default,
         r.at \in {"get", "clear", "write"} =>
           r.name \in Name /\ r.step = 1 /\ (r.op # "delete" => r.kind \in Kind),
         r.at = "write" => ~r.default
  PROVE  ConnInv'
<1>1. ConnTypeOK /\ \A t \in Admin : adm'[t] = IF t = s THEN r ELSE adm[t]
  BY DEF ConnInv, ConnTypeOK
<1>2. ASSUME ~raced, ~spoiled PROVE Resolving'
  <2>1. Resolving
    BY <1>2 DEF ConnInv
  <2>2. \A t \in Admin : Clearing(t) => Clearing(t)'
    BY <1>1 DEF Clearing
  <2>3. \A t \in Admin, j \in 1..2 : Resolves(t, j) => Resolves(t, j)'
    BY <1>1, <2>2, DefaultOfRows DEF Resolves
  <2>4. \A j \in 1..2 : GetDefault(Resolved[j])' = GetDefault(Resolved[j])
    BY DefaultOfRows
  <2>5. \A j \in 1..2 : (resolved[Resolved[j]] = GetDefault(Resolved[j]) \/ \E t \in Admin : Resolves(t, j))'
    BY <2>1, <2>3, <2>4 DEF Resolving
  <2>6. ASSUME NEW t \in Admin, NEW j \in 1..2, adm'[t].at = "told", adm'[t].step = j
        PROVE  adm'[t].answer = GetDefault(Resolved[j])' \/ \E o \in Admin : Clearing(o)'
    <3>1. adm'[t] = adm[t]
      BY <1>1, <2>6
    <3> QED BY <2>1, <2>2, <2>4, <2>6, <3>1 DEF Resolving
  <2> QED BY <2>5, <2>6 DEF Resolving
<1> QED BY <1>1, <1>2, AdminGoesOn DEF ConnInv, ConnTypeOK

LEMMA BeginHolds ==
  ASSUME ConnInv, NEW s \in Admin, NEW op \in {"create", "update", "delete"}, NEW n \in Name, Begin(s, op, n)
  PROVE  ConnInv'
<1>1. ConnTypeOK /\ adm[s].at = "idle"
  BY FreeRequest DEF Begin, ConnInv
<1>2. PICK b \in (IF op = "delete" THEN {[kind |-> conns[n].kind, default |-> FALSE, enabled |-> FALSE]}
                  ELSE Body) :
        adm' = [adm EXCEPT ![s] =
          [Free EXCEPT !.op = op, !.name = n, !.kind = b.kind, !.default = b.default,
                       !.enabled = b.enabled,
                       !.at = IF op = "update" THEN "get" ELSE IF b.default THEN "clear" ELSE "write"]]
  BY DEF Begin
<1>3. /\ b.kind \in Kind \cup {"none"} /\ b.default \in BOOLEAN /\ b.enabled \in BOOLEAN
      /\ op # "delete" => b.kind \in Kind
      /\ op = "delete" => ~b.default
  <2>1. CASE op = "delete"
    <3>1. conns[n].kind \in Kind \cup {"none"}
      BY <1>1 DEF ConnTypeOK, Row
    <3>2. b = [kind |-> conns[n].kind, default |-> FALSE, enabled |-> FALSE]
      BY <1>2, <2>1
    <3>3. b.kind = conns[n].kind /\ b.default = FALSE /\ b.enabled = FALSE
      BY <3>2
    <3> QED BY <2>1, <3>1, <3>3
  <2>2. CASE op # "delete"
    <3>1. b \in [kind : Kind, default : BOOLEAN, enabled : BOOLEAN]
      BY <1>2, <2>2, ConnAssumption
    <3> QED BY <2>2, <3>1
  <2> QED BY <2>1, <2>2
<1> DEFINE to == IF op = "update" THEN "get" ELSE IF b.default THEN "clear" ELSE "write"
           r == [Free EXCEPT !.op = op, !.name = n, !.kind = b.kind, !.default = b.default,
                             !.enabled = b.enabled, !.at = to]
<1>5. adm' = [adm EXCEPT ![s] = r]
  BY <1>2
<1>6. to \in {"get", "clear", "write"} /\ (to = "write" => ~b.default) /\ (to = "clear" => b.default)
  OBVIOUS
<1> HIDE DEF to
<1>4. /\ r \in AdminRecord(0) /\ r.at = to /\ r.default = b.default /\ r.name = n /\ r.op = op
      /\ r.kind = b.kind /\ r.step = 1
  <2>1. Free \in AdminRecord(0) /\ Free.step = 1
    BY DEF AdminRecord, Free
  <2>2. op \in {"none", "create", "update", "delete"} /\ n \in Name \cup {"none"}
        /\ to \in {"idle", "get", "clear", "write", "ask", "told"}
    BY <1>6
  <2> QED BY <1>3, <2>1, <2>2 DEF AdminRecord
<1> HIDE DEF r
<1>7. UNCHANGED <<conns, writes, raced, spoiled, resolved>>
  BY DEF Begin
<1> QED BY <1>1, <1>3, <1>4, <1>5, <1>6, <1>7, QuietStep DEF Clearing

\* What a request at work is.
LEMMA AdminIs ==
  ASSUME ConnInv, NEW s \in Admin
  PROVE  /\ adm[s] \in AdminRecord(adm[s].answer) /\ adm[s].default \in BOOLEAN /\ adm[s].step \in 1..2
         /\ adm[s].at = "clear" => adm[s].default
         /\ adm[s].at \in {"get", "clear", "write"} =>
              /\ adm[s].name \in Name /\ adm[s].step = 1
              /\ adm[s].op # "delete" => adm[s].kind \in Kind
BY DEF ConnInv, ConnTypeOK, AdminRecord

LEMMA GetAgainHolds == ASSUME ConnInv, NEW s \in Admin, GetAgain(s) PROVE ConnInv'
<1> DEFINE q == adm[s]
           to == IF ~Exists(q.name) THEN "ask" ELSE IF q.default THEN "clear" ELSE "write"
           r == [q EXCEPT !.at = to]
<1>1. q.at = "get" /\ ConnTypeOK /\ adm' = [adm EXCEPT ![s] = r]
  BY DEF GetAgain, Move, ConnInv, ConnTypeOK
<1>2. UNCHANGED <<conns, writes, raced, spoiled, resolved>>
  BY DEF GetAgain
<1>3. /\ q \in AdminRecord(q.answer) /\ q.name \in Name /\ q.step = 1
      /\ (q.op # "delete" => q.kind \in Kind) /\ ~Clearing(s)
  BY <1>1, AdminIs DEF Clearing
<1>4. to \in {"ask", "clear", "write"} /\ (to = "write" => ~q.default) /\ (to = "clear" => q.default)
  OBVIOUS
<1>5. adm[s].at = "get"
  BY <1>1
<1> HIDE DEF q, to
<1>6. /\ r \in AdminRecord(q.answer) /\ r.at = to /\ r.default = q.default /\ r.name = q.name
      /\ r.op = q.op /\ r.kind = q.kind /\ r.step = q.step
  BY <1>3, <1>4 DEF AdminRecord
<1> HIDE DEF r
<1> QED BY <1>1, <1>2, <1>3, <1>4, <1>5, <1>6, QuietStep

LEMMA ClearDefaultHolds == ASSUME ConnInv, NEW s \in Admin, ClearDefault(s) PROVE ConnInv'
<1> DEFINE q == adm[s]
           r == [q EXCEPT !.at = "write"]
<1>1. /\ q.at = "clear" /\ ConnTypeOK /\ adm' = [adm EXCEPT ![s] = r]
      /\ conns' = [n \in Name |->
           [conns[n] EXCEPT !.default = conns[n].default /\ (n = q.name \/ conns[n].kind # q.kind)]]
      /\ writes' = writes /\ raced' = raced /\ spoiled' = spoiled /\ resolved' = resolved
  BY DEF ClearDefault, Move, ConnInv, ConnTypeOK
<1>2. q \in AdminRecord(q.answer) /\ q.default /\ q.name \in Name /\ q.step = 1 /\ (q.op # "delete" => q.kind \in Kind)
  BY <1>1, AdminIs
<1>3. ASSUME NEW n \in Name
      PROVE  /\ conns'[n] \in Row /\ conns'[n].kind = conns[n].kind
             /\ conns'[n].default => conns[n].default /\ (n = q.name \/ conns[n].kind # q.kind)
  BY <1>1, ZenonT(40) DEF ConnTypeOK, Row
<1> HIDE DEF q
<1>4. /\ r \in AdminRecord(q.answer) /\ r.at = "write" /\ r.default /\ r.name = q.name
      /\ r.op = q.op /\ r.kind = q.kind /\ r.step = q.step /\ r.answer = q.answer
  BY <1>2 DEF AdminRecord
<1> HIDE DEF r
<1>5. \A t \in Admin : adm'[t] = IF t = s THEN r ELSE adm[t]
  BY <1>1 DEF ConnTypeOK
<1>6. ConnTypeOK'
  <2>1. conns' \in [Name -> Row]
    BY <1>1, <1>3
  <2>2. adm' = [t \in Admin |-> adm'[t]] /\ \A t \in Admin : adm'[t] \in AdminRecord(adm'[t].answer)
    BY <1>1, <1>4, <1>5 DEF ConnTypeOK
  <2>3. \A t \in Admin : /\ adm'[t].at = "clear" => adm'[t].default
                         /\ adm'[t].at \in {"get", "clear", "write"} =>
                              /\ adm'[t].name \in Name /\ adm'[t].step = 1
                              /\ adm'[t].op # "delete" => adm'[t].kind \in Kind
    BY <1>1, <1>2, <1>4, <1>5 DEF ConnTypeOK
  <2> QED BY <1>1, <2>1, <2>2, <2>3 DEF ConnTypeOK, AdminRecord, Row
<1>7. ASSUME ~raced PROVE OneDefault'
  <2>1. OneDefault
    BY <1>7 DEF ConnInv
  <2>2. \A n, m \in Name : conns'[n].default /\ conns'[m].default /\ conns'[n].kind = conns'[m].kind => n = m
    BY <1>3, <2>1 DEF OneDefault
  <2>3. ASSUME NEW t \in Admin, NEW n \in Name, Clearing(t)', conns'[n].default, conns'[n].kind = adm'[t].kind
        PROVE  n = adm'[t].name
    <3>1. CASE t = s
      BY <1>3, <1>4, <1>5, <2>3, <3>1
    <3>2. CASE t # s
      BY <1>3, <1>5, <2>1, <2>3, <3>2 DEF OneDefault, Clearing
    <3> QED BY <3>1, <3>2
  <2> QED BY <2>2, <2>3 DEF OneDefault
<1>8. Resolving'
  BY <1>4, <1>5 DEF Resolving, Resolves, Clearing
<1> QED BY <1>1, <1>6, <1>7, <1>8 DEF ConnInv

\* A row is written: the request resolves every kind from here.
LEMMA RowWritten ==
  ASSUME ConnInv, NEW s \in Admin, adm[s].at = "write", NEW row \in Row,
         row.default => adm[s].default /\ row.kind = adm[s].kind,
         conns' = [conns EXCEPT ![adm[s].name] = row], writes' = writes + 1,
         raced' = (raced \/ Crosses(s)), Move(s, "ask"), spoiled' = spoiled, resolved' = resolved
  PROVE  ConnInv'
<1> DEFINE q == adm[s]
           r == [q EXCEPT !.at = "ask"]
<1>1. ConnTypeOK /\ adm' = [adm EXCEPT ![s] = r]
  BY DEF Move, ConnInv, ConnTypeOK
<1>2. q \in AdminRecord(q.answer) /\ q.name \in Name /\ q.step = 1 /\ (q.default /\ q.at = "write" => Clearing(s))
  BY <1>1, AdminIs DEF Clearing
<1>3. \A n \in Name : conns'[n] = IF n = q.name THEN row ELSE conns[n]
  BY <1>1 DEF ConnTypeOK
<1>4. \A t \in Admin \ {s} : /\ adm[t].at = "told" => raced'
                             /\ q.default /\ Clearing(t) => raced'
  BY DEF Crosses, Clearing
<1>e. q.at = "write" /\ (row.default => q.default /\ row.kind = q.kind) /\ (q = adm[s])
  OBVIOUS
<1> HIDE DEF q
<1>5. r \in AdminRecord(q.answer) /\ r.at = "ask" /\ r.step = 1 /\ r.answer = q.answer
  BY <1>2 DEF AdminRecord
<1> HIDE DEF r
<1>6. \A t \in Admin : adm'[t] = IF t = s THEN r ELSE adm[t]
  BY <1>1 DEF ConnTypeOK
<1>7. ConnTypeOK'
  <2>1. conns' \in [Name -> Row] /\ writes' \in Nat /\ raced' \in BOOLEAN
    <3>1. Crosses(s) \in BOOLEAN
      BY DEF Crosses
    <3> QED BY <1>1, <1>2, <1>3, <3>1 DEF ConnTypeOK
  <2>2. adm' = [t \in Admin |-> adm'[t]] /\ \A t \in Admin : adm'[t] \in AdminRecord(adm'[t].answer)
    BY <1>1, <1>5, <1>6 DEF ConnTypeOK
  <2>3. \A t \in Admin : /\ adm'[t].at = "clear" => adm'[t].default
                         /\ adm'[t].at \in {"get", "clear", "write"} =>
                              /\ adm'[t].name \in Name /\ adm'[t].step = 1
                              /\ adm'[t].op # "delete" => adm'[t].kind \in Kind
    BY <1>1, <1>5, <1>6 DEF ConnTypeOK
  <2> QED BY <1>1, <2>1, <2>2, <2>3 DEF ConnTypeOK, AdminRecord, Row
<1>8. ASSUME ~raced' PROVE OneDefault'
  <2>1. OneDefault
    BY <1>8 DEF ConnInv
  <2>2. ASSUME NEW n \in Name, NEW m \in Name, conns'[n].default, conns'[m].default,
               conns'[n].kind = conns'[m].kind
        PROVE  n = m
    <3>1. ASSUME NEW a \in Name, a # q.name, conns[a].default, row.default PROVE conns[a].kind # row.kind
      BY <1>2, <1>e, <2>1, <3>1 DEF OneDefault
    <3> QED BY <1>3, <2>1, <2>2, <3>1 DEF OneDefault
  <2>3. ASSUME NEW t \in Admin, NEW n \in Name, Clearing(t)', conns'[n].default, conns'[n].kind = adm'[t].kind
        PROVE  n = adm'[t].name
    <3>1. t # s /\ adm'[t] = adm[t] /\ Clearing(t)
      BY <1>5, <1>6, <2>3 DEF Clearing
    <3>2. ~row.default
      BY <1>4, <1>8, <1>e, <3>1
    <3> QED BY <1>3, <2>1, <2>3, <3>1, <3>2 DEF OneDefault
  <2> QED BY <2>2, <2>3 DEF OneDefault
<1>9. ASSUME ~raced' PROVE Resolving'
  <2>1. \A t \in Admin : adm'[t].at # "told"
    BY <1>4, <1>5, <1>6, <1>9
  <2>2. \A j \in 1..2 : Resolves(s, j)'
    BY <1>5, <1>6 DEF Resolves
  <2> QED BY <2>1, <2>2 DEF Resolving
<1> QED BY <1>7, <1>8, <1>9 DEF ConnInv

LEMMA WriteRowHolds == ASSUME ConnInv, NEW s \in Admin, WriteRow(s) PROVE ConnInv'
<1> DEFINE q == adm[s]
<1>1. /\ q.at = "write" /\ ConnTypeOK /\ resolved' = resolved /\ spoiled \in BOOLEAN /\ writes \in Nat
      /\ q \in AdminRecord(q.answer) /\ q.default \in BOOLEAN /\ q.enabled \in BOOLEAN
      /\ q.name \in Name /\ q.step = 1 /\ (q.op # "delete" => q.kind \in Kind)
      /\ conns[q.name] \in Row /\ resolved = [k \in Kind |-> resolved[k]]
  BY AdminIs DEF WriteRow, ConnInv, ConnTypeOK, AdminRecord
<1>2. ASSUME spoiled' = (spoiled \/ q.default), adm' = [adm EXCEPT ![s] = Free],
             UNCHANGED <<conns, writes, raced>>
      PROVE  ConnInv'
  <2>1. /\ resolved' = [k \in Kind |-> resolved'[k]]
        /\ spoiled' \in BOOLEAN /\ (spoiled => spoiled')
    BY <1>1, <1>2
  <2>2. CASE q.default
    <3>1. spoiled'
      BY <1>2, <2>2
    <3> QED BY <1>2, <2>1, <3>1, FreeRequest, AdminGoesOn
  <2>3. CASE ~q.default
    <3>1. spoiled' = spoiled
      BY <1>1, <1>2, <2>3
    <3> QED BY <1>1, <1>2, <2>3, <3>1, FreeRequest, QuietStep DEF Clearing
  <2> QED BY <2>2, <2>3
<1> DEFINE row == [kind |-> q.kind, default |-> q.default, enabled |-> q.enabled, rev |-> writes + 1,
                   born |-> IF q.op = "create" THEN writes + 1 ELSE conns[q.name].born]
<1>3. ASSUME q.op # "delete", conns' = [conns EXCEPT ![q.name] = row], writes' = writes + 1,
             raced' = (raced \/ Crosses(s)), Move(s, "ask"), spoiled' = spoiled
      PROVE  ConnInv'
  <2>1. conns[q.name].born \in Nat
    BY <1>1 DEF Row
  <2>2. row \in Row /\ row.kind = q.kind /\ row.default = q.default
    BY <1>1, <1>3, <2>1 DEF Row
  <2> HIDE DEF row
  <2> QED BY <1>1, <1>3, <2>2, RowWritten
<1>4. ASSUME conns' = [conns EXCEPT ![q.name] = Absent], writes' = writes + 1,
             raced' = (raced \/ Crosses(s)), Move(s, "ask"), spoiled' = spoiled
      PROVE  ConnInv'
  <2>1. Absent \in Row /\ ~Absent.default
    BY DEF Absent, Row
  <2> QED BY <1>1, <1>4, <2>1, RowWritten
<1> QED BY <1>2, <1>3, <1>4 DEF WriteRow, Leave

LEMMA AskDefaultHolds == ASSUME ConnInv, NEW s \in Admin, AskDefault(s) PROVE ConnInv'
<1> DEFINE q == adm[s]
           d == GetDefault(Resolved[q.step])
           r == [q EXCEPT !.at = "told", !.answer = d]
<1>1. /\ q.at = "ask" /\ ConnTypeOK /\ resolved' = resolved /\ spoiled \in BOOLEAN
      /\ conns' = conns /\ writes' = writes /\ raced' = raced
      /\ q \in AdminRecord(q.answer) /\ q.step \in 1..2 /\ resolved' = [k \in Kind |-> resolved'[k]]
  BY AdminIs DEF AskDefault, ConnInv, ConnTypeOK
<1>2. ASSUME adm' = [adm EXCEPT ![s] = r], spoiled' = spoiled PROVE ConnInv'
  <2>a. d = GetDefault(Resolved[q.step]) /\ q = adm[s]
    OBVIOUS
  <2> HIDE DEF d, q
  <2>1. r \in AdminRecord(d) /\ r.at = "told" /\ r.answer = d /\ r.step = q.step
    BY <1>1 DEF AdminRecord
  <2> HIDE DEF r
  <2>2. \A t \in Admin : adm'[t] = IF t = s THEN r ELSE adm[t]
    BY <1>1, <1>2 DEF ConnTypeOK
  <2>3. ASSUME ~raced, ~spoiled PROVE Resolving'
    <3>1. Resolving
      BY <2>3 DEF ConnInv
    <3>2. \A t \in Admin : Clearing(t) => Clearing(t)'
      BY <1>1, <2>2, <2>a DEF Clearing
    <3>3. \A j \in 1..2 : GetDefault(Resolved[j])' = GetDefault(Resolved[j])
      BY <1>1, DefaultOfRows
    <3>4. ASSUME NEW j \in 1..2, NEW t \in Admin, Resolves(t, j) PROVE Resolves(t, j)'
      <4>1. CASE t # s
        BY <2>2, <3>2, <3>3, <3>4, <4>1 DEF Resolves
      <4>2. CASE t = s
        <5>1. q.step <= j
          BY <1>1, <2>a, <3>4, <4>2 DEF Resolves, Clearing
        <5>2. q.step < j \/ q.step = j
          BY <1>1, <5>1
        <5>3. adm'[t].at = "told" /\ adm'[t].step = q.step /\ adm'[t].answer = d
          BY <2>1, <2>2, <4>2
        <5> QED BY <2>a, <3>3, <5>2, <5>3 DEF Resolves
      <4> QED BY <4>1, <4>2
    <3>5. \A j \in 1..2 : (resolved[Resolved[j]] = GetDefault(Resolved[j]) \/ \E t \in Admin : Resolves(t, j))'
      BY <1>1, <3>1, <3>3, <3>4 DEF Resolving
    <3>6. ASSUME NEW t \in Admin, NEW j \in 1..2, adm'[t].at = "told", adm'[t].step = j
          PROVE  adm'[t].answer = GetDefault(Resolved[j])' \/ \E o \in Admin : Clearing(o)'
      <4>1. CASE t = s
        BY <2>1, <2>2, <2>a, <3>3, <3>6, <4>1
      <4>2. CASE t # s
        BY <2>2, <3>1, <3>2, <3>3, <3>6, <4>2 DEF Resolving
      <4> QED BY <4>1, <4>2
    <3> QED BY <3>5, <3>6 DEF Resolving
  <2> QED BY <1>1, <1>2, <2>1, <2>3, AdminGoesOn
<1>3. ASSUME adm' = [adm EXCEPT ![s] = Free], spoiled' = TRUE PROVE ConnInv'
  BY <1>1, <1>3, FreeRequest, AdminGoesOn
<1>4. ASSUME adm' = [adm EXCEPT ![s].at = "told", ![s].answer = d] PROVE adm' = [adm EXCEPT ![s] = r]
  BY <1>1, <1>4 DEF ConnTypeOK
<1> QED BY <1>2, <1>3, <1>4 DEF AskDefault, Leave

\* A request goes on to the kind in place p.
LEMMA AsksAgain ==
  ASSUME NEW a, NEW q \in AdminRecord(a), NEW p \in 1..2
  PROVE  /\ [q EXCEPT !.at = "ask", !.step = p, !.answer = 0] \in AdminRecord(0)
         /\ [q EXCEPT !.at = "ask", !.step = p, !.answer = 0].at = "ask"
         /\ [q EXCEPT !.at = "ask", !.step = p, !.answer = 0].step = p
BY DEF AdminRecord

LEMMA StoreDefaultHolds == ASSUME ConnInv, NEW s \in Admin, StoreDefault(s) PROVE ConnInv'
<1> DEFINE q == adm[s]
           r == IF q.step = 2 THEN Free ELSE [q EXCEPT !.at = "ask", !.step = q.step + 1, !.answer = 0]
<1>1. /\ q.at = "told" /\ ConnTypeOK /\ resolved' = [resolved EXCEPT ![Resolved[q.step]] = q.answer]
      /\ conns' = conns /\ writes' = writes /\ raced' = raced /\ spoiled' = spoiled /\ spoiled \in BOOLEAN
      /\ q \in AdminRecord(q.answer) /\ q.step \in 1..2 /\ resolved = [k \in Kind |-> resolved[k]]
  BY AdminIs DEF StoreDefault, ConnInv, ConnTypeOK
<1>2. adm' = [adm EXCEPT ![s] = r]
  BY <1>1, KindsInOrder DEF StoreDefault, LastKind, Leave, ConnTypeOK
<1>a. q = adm[s]
  OBVIOUS
<1> HIDE DEF q
<1>3. /\ r \in AdminRecord(0) /\ r.at \in {"idle", "ask"}
      /\ q.step = 1 => r.at = "ask" /\ r.step = 2
  <2>1. CASE q.step = 2
    BY <2>1, FreeRequest
  <2>2. CASE q.step = 1
    <3>1. PICK p \in 1..2 : p = q.step + 1 /\ p = 2
      BY <2>2
    <3>2. r = [q EXCEPT !.at = "ask", !.step = p, !.answer = 0]
      BY <2>2, <3>1
    <3>3. q \in AdminRecord(q.answer)
      BY <1>1
    <3> HIDE DEF r
    <3>4. r \in AdminRecord(0) /\ r.at = "ask" /\ r.step = p
      BY <3>2, <3>3, AsksAgain, Zenon
    <3> QED BY <3>1, <3>4
  <2> QED BY <1>1, <2>1, <2>2
<1> HIDE DEF r
<1>4. \A t \in Admin : adm'[t] = IF t = s THEN r ELSE adm[t]
  BY <1>1, <1>2 DEF ConnTypeOK
<1>5. \A j \in 1..2 : resolved'[Resolved[j]] = IF j = q.step THEN q.answer ELSE resolved[Resolved[j]]
  <2>1. resolved = [k \in {"llm", "embeddings"} |-> resolved[k]]
    BY <1>1 DEF Kind
  <2> QED BY <1>1, <2>1, KindsInOrder
<1>6. resolved' = [k \in Kind |-> resolved'[k]]
  BY <1>1
<1>7. ASSUME ~raced, ~spoiled PROVE Resolving'
  <2>1. Resolving
    BY <1>7 DEF ConnInv
  <2>2. \A t \in Admin : Clearing(t) => t # s /\ Clearing(t)'
    BY <1>1, <1>4, <1>a DEF Clearing
  <2>3. \A j \in 1..2 : GetDefault(Resolved[j])' = GetDefault(Resolved[j])
    BY <1>1, DefaultOfRows
  <2>4. CASE \E o \in Admin : Clearing(o)
    BY <2>2, <2>4 DEF Resolving, Resolves
  <2>5. CASE ~\E o \in Admin : Clearing(o)
    <3>1. q.answer = GetDefault(Resolved[q.step])
      BY <1>1, <1>a, <2>1, <2>5 DEF Resolving
    <3>2. ASSUME NEW j \in 1..2
          PROVE  (resolved[Resolved[j]] = GetDefault(Resolved[j]) \/ \E t \in Admin : Resolves(t, j))'
      <4>1. CASE j = q.step
        BY <1>5, <2>3, <3>1, <4>1
      <4>2. CASE j > q.step
        <5>1. q.step = 1 /\ j = 2
          BY <1>1, <4>2
        <5>2. Resolves(s, j)'
          BY <1>3, <1>4, <5>1 DEF Resolves
        <5> QED BY <5>2
      <4>3. CASE j < q.step
        <5>1. resolved'[Resolved[j]] = resolved[Resolved[j]]
          BY <1>1, <1>5, <4>3
        <5>2. ~Resolves(s, j)
          BY <1>1, <1>a, <4>3 DEF Resolves, Clearing
        <5>3. \A t \in Admin : Resolves(t, j) => Resolves(t, j)'
          BY <1>4, <2>2, <2>3, <5>2 DEF Resolves
        <5> QED BY <2>1, <2>3, <5>1, <5>3 DEF Resolving
      <4> QED BY <1>1, <4>1, <4>2, <4>3
    <3>3. ASSUME NEW t \in Admin, NEW j \in 1..2, adm'[t].at = "told", adm'[t].step = j
          PROVE  adm'[t].answer = GetDefault(Resolved[j])'
      <4>1. t # s /\ adm'[t] = adm[t]
        BY <1>3, <1>4, <3>3
      <4> QED BY <2>1, <2>3, <2>5, <3>3, <4>1 DEF Resolving
    <3> QED BY <3>2, <3>3 DEF Resolving
  <2> QED BY <2>4, <2>5
<1> QED BY <1>1, <1>2, <1>3, <1>6, <1>7, AdminGoesOn

LEMMA ConnStepHolds == ConnInv /\ [ConnNext]_connVars => ConnInv'
<1> SUFFICES ASSUME ConnInv, [ConnNext]_connVars PROVE ConnInv'
  OBVIOUS
<1>1. CASE UNCHANGED connVars
  <2>1. /\ conns' = conns /\ resolved' = resolved /\ adm' = adm /\ writes' = writes
        /\ spoiled' = spoiled /\ raced' = raced
    BY <1>1 DEF connVars
  <2>2. ConnTypeOK'
    BY <2>1 DEF ConnInv, ConnTypeOK, AdminRecord, Row
  <2>3. ~raced => OneDefault'
    BY <2>1 DEF ConnInv, OneDefault, Clearing
  <2>4. ~raced /\ ~spoiled => Resolving'
    BY <2>1, DefaultOfRows DEF ConnInv, Resolving, Resolves, Clearing
  <2> QED BY <2>1, <2>2, <2>3, <2>4 DEF ConnInv
<1>2. CASE ConnNext
  BY <1>2, BeginHolds, GetAgainHolds, ClearDefaultHolds, WriteRowHolds, AskDefaultHolds,
     StoreDefaultHolds DEF ConnNext, BeginAny
<1> QED BY <1>1, <1>2

LEMMA InvMakesItTheDefault == ConnInv => ResolvedIsTheDefault
<1> SUFFICES ASSUME ConnInv, AdminsIdle, ~spoiled, ~raced, NEW k \in Kind
             PROVE  /\ Cardinality({n \in Name : conns[n].kind = k /\ conns[n].default}) <= 1
                    /\ resolved[k] = GetDefault(k)
  BY DEF ResolvedIsTheDefault
<1> DEFINE D == {n \in Name : conns[n].kind = k /\ conns[n].default}
<1>1. \A n, m \in D : n = m
  BY DEF ConnInv, OneDefault
<1>2. Cardinality(D) <= 1
  <2>1. CASE D = {}
    BY <2>1, FS_EmptySet
  <2>2. CASE D # {}
    <3>1. PICK n \in D : TRUE
      BY <2>2
    <3>2. D = {n}
      BY <1>1, <3>1
    <3> HIDE DEF D
    <3> QED BY <3>2, FS_Singleton
  <2> QED BY <2>1, <2>2
<1>3. PICK j \in 1..2 : Resolved[j] = k
  BY KindsInOrder DEF Kind
<1>4. \A s \in Admin : ~Resolves(s, j)
  BY FreeRequest DEF AdminsIdle, Resolves, Clearing
<1> QED BY <1>2, <1>3, <1>4 DEF ConnInv, Resolving

\* The process uses the table's default once the admin requests are done, and a kind
\* has one at most (services/connections.py:25, core/database.py:827), for any number
\* of connections and of overlapping requests.
THEOREM DefaultTheorem == ConnSpec => []ResolvedIsTheDefault
  BY ConnInitHolds, ConnStepHolds, InvMakesItTheDefault, PTL DEF ConnSpec
-----------------------------------------------------------------------------
(* The graphs. *)

ChatRecord(a) ==
  [at : {"idle", "tools", "connect", "model", "insert"}, spec : AgentSpec, tools : Nat,
   conn : {a}, overtaken : BOOLEAN]

\* A request that has changed what graphs are built from, and has not dropped them.
Dirty == \E s \in Admin : Clearing(s) \/ adm[s].at \in {"ask", "told"}

\* Tools or a connection that graphs are to be built from, unless they will be dropped.
FreshTools(ts) == toolReq \/ ts \in {0, tools}
FreshConn(spec, conn) == Dirty \/ spoiled \/ conn = Contents(spec)
Fresh(g) == g.overtaken \/ (FreshTools(g.tools) /\ FreshConn(g.spec, g.conn))
FreshChat(c) == c.at # "idle" /\ ~c.overtaken =>
  /\ FreshTools(c.tools)
  /\ c.at = "insert" /\ c.spec # "none" => FreshConn(c.spec, c.conn)

RegistryInv ==
  /\ ConnInv /\ tools \in Nat /\ toolReq \in BOOLEAN
  /\ chat = [b \in Chat |-> chat[b]]
  /\ \A b \in Chat : chat[b] \in ChatRecord(chat[b].conn)
  /\ \A b \in Chat : FreshChat(chat[b])
  /\ \E S : graphs \in Seq(S) /\ \A g \in S : Fresh(g)

LEMMA NoChatRecord ==
  NoChat \in ChatRecord(0) /\ NoChat.conn = 0 /\ NoChat.at = "idle" /\ NoChat.spec = "none"
  /\ NoChat.tools = 0 /\ NoChat.overtaken = FALSE
BY DEF NoChat, ChatRecord, AgentSpec

LEMMA RegistryInitHolds == RegistryInit => RegistryInv
<1> SUFFICES ASSUME RegistryInit PROVE RegistryInv
  OBVIOUS
<1>1. ConnInv /\ tools \in Nat /\ toolReq \in BOOLEAN /\ chat = [b \in Chat |-> NoChat] /\ graphs = <<>>
  BY ConnInitHolds DEF RegistryInit
<1>2. \E S : graphs \in Seq(S) /\ \A g \in S : Fresh(g)
  <2>1. graphs \in Seq({})
    BY <1>1, EmptySeq
  <2> QED BY <2>1
<1>3. \A b \in Chat : chat[b] = NoChat /\ chat[b] \in ChatRecord(chat[b].conn) /\ FreshChat(chat[b])
  BY <1>1, NoChatRecord DEF FreshChat
<1>4. chat = [b \in Chat |-> chat[b]]
  BY <1>1
<1> QED BY <1>1, <1>2, <1>3, <1>4 DEF RegistryInv

\* Removing, appending and forgetting the first bring no graph but the one appended.
LEMMA GraphsMove ==
  ASSUME NEW S, NEW q \in Seq(S), NEW g
  PROVE  /\ q \in Seq(S \cup {g}) /\ Append(q, g) \in Seq(S \cup {g})
         /\ \A i \in 1..Len(q) : RemoveAt(q, i) \in Seq(S) /\ q[i] \in S
         /\ Len(q) > 0 => Tail(q) \in Seq(S)
<1>1. q \in Seq(S \cup {g})
  <2>1. Len(q) \in Nat /\ q = [i \in 1..Len(q) |-> q[i]] /\ \A i \in 1..Len(q) : q[i] \in S
    OBVIOUS
  <2> QED BY <2>1
<1>2. Append(q, g) \in Seq(S \cup {g})
  BY <1>1
<1>3. ASSUME NEW i \in 1..Len(q) PROVE RemoveAt(q, i) \in Seq(S) /\ q[i] \in S
  <2>1. SubSeq(q, 1, i - 1) \in Seq(S) /\ SubSeq(q, i + 1, Len(q)) \in Seq(S)
    BY SubSeqProperties
  <2>2. SubSeq(q, 1, i - 1) \o SubSeq(q, i + 1, Len(q)) \in Seq(S)
    BY <2>1, ConcatProperties
  <2> QED BY <2>2 DEF RemoveAt
<1>4. Len(q) > 0 => Tail(q) \in Seq(S)
  OBVIOUS
<1> QED BY <1>1, <1>2, <1>3, <1>4

\* The contents of a connection are a matter of the rows and of what is resolved.
LEMMA SameContents ==
  ASSUME conns' = conns, resolved' = resolved, NEW spec PROVE Contents(spec)' = Contents(spec)
BY DEF Contents

\* A step of one resolution: the other parts stay, a graph that is cached is fresh.
LEMMA ChatSteps ==
  ASSUME RegistryInv, NEW b \in Chat, NEW a, NEW c \in ChatRecord(a), chat' = [chat EXCEPT ![b] = c],
         UNCHANGED <<connVars, tools, toolReq>>,
         FreshChat(c),
         NEW S, graphs' \in Seq(S), \A g \in S : Fresh(g)
  PROVE  RegistryInv'
<1>1. \A t \in Chat : chat'[t] = IF t = b THEN c ELSE chat[t]
  BY DEF RegistryInv
<1>2. ConnInv' /\ conns' = conns /\ resolved' = resolved /\ adm' = adm /\ spoiled' = spoiled
  BY ConnStepHolds DEF RegistryInv, connVars
<1>3. (Dirty' <=> Dirty) /\ tools' = tools /\ toolReq' = toolReq
  BY <1>2 DEF Dirty, Clearing
<1>5. \A g \in S : Fresh(g)'
  BY <1>2, <1>3 DEF Fresh, FreshTools, FreshConn, Contents
<1>6. c.conn = a
  BY DEF ChatRecord
<1>7. chat' = [t \in Chat |-> chat'[t]] /\ \A t \in Chat : chat'[t] \in ChatRecord(chat'[t].conn)
  BY <1>1, <1>6 DEF RegistryInv
<1>8. (\A t \in Chat : FreshChat(chat[t]))'
  <2>1. \A t \in Chat : FreshChat(chat[t])
    BY DEF RegistryInv
  <2> QED BY <1>1, <1>2, <1>3, <2>1 DEF FreshChat, FreshTools, FreshConn, Contents
<1>9. \E T : graphs' \in Seq(T) /\ \A g \in T : Fresh(g)'
  BY <1>5
<1> QED BY <1>2, <1>3, <1>7, <1>8, <1>9 DEF RegistryInv, ChatRecord

LEMMA HitGraphHolds == ASSUME RegistryInv, NEW b \in Chat, HitGraph(b) PROVE RegistryInv'
<1>1. PICK S : graphs \in Seq(S) /\ \A g \in S : Fresh(g)
  BY DEF RegistryInv
<1>2. PICK i \in 1..Len(graphs) : graphs' = Append(RemoveAt(graphs, i), graphs[i])
  BY DEF HitGraph
<1>3. RemoveAt(graphs, i) \in Seq(S) /\ graphs[i] \in S
  BY <1>1, GraphsMove
<1>4. graphs' \in Seq(S)
  BY <1>2, <1>3
<1>5. chat' = [chat EXCEPT ![b] = chat[b]] /\ chat[b] \in ChatRecord(chat[b].conn) /\ FreshChat(chat[b])
  BY DEF HitGraph, RegistryInv
<1>6. UNCHANGED <<connVars, tools, toolReq>>
  BY DEF HitGraph
<1> QED BY <1>1, <1>4, <1>5, <1>6, ChatSteps

\* A step that leaves the graphs alone.
LEMMA ChatOnly ==
  ASSUME RegistryInv, NEW b \in Chat, NEW a, NEW c \in ChatRecord(a), chat' = [chat EXCEPT ![b] = c],
         UNCHANGED <<connVars, graphs, tools, toolReq>>, FreshChat(c)
  PROVE  RegistryInv'
<1>1. PICK S : graphs \in Seq(S) /\ \A g \in S : Fresh(g)
  BY DEF RegistryInv
<1> QED BY <1>1, ChatSteps

LEMMA StartBuildHolds == ASSUME RegistryInv, NEW b \in Chat, StartBuild(b) PROVE RegistryInv'
<1>1. PICK spec \in AgentSpec : chat' = [chat EXCEPT ![b] = [NoChat EXCEPT !.at = "tools", !.spec = spec]]
  BY DEF StartBuild
<1> DEFINE c == [NoChat EXCEPT !.at = "tools", !.spec = spec]
<1>2. c \in ChatRecord(0) /\ c.at = "tools" /\ c.tools = 0
  BY NoChatRecord DEF ChatRecord
<1>3. FreshChat(c)
  BY <1>2 DEF FreshChat, FreshTools
<1>4. UNCHANGED <<connVars, graphs, tools, toolReq>>
  BY DEF StartBuild
<1> QED BY <1>1, <1>2, <1>3, <1>4, ChatOnly

\* The tools of a resolution are selected.
LEMMA SelectedHolds ==
  ASSUME RegistryInv, NEW b \in Chat, NEW ts \in Nat, Selected(b, ts), chat[b].at \in {"tools", "connect"},
         FreshTools(ts) \/ chat[b].overtaken,
         UNCHANGED <<connVars, graphs, tools, toolReq>>
  PROVE  RegistryInv'
<1> DEFINE q == chat[b]
           to == IF q.spec = "none" THEN "insert" ELSE "model"
           c == [q EXCEPT !.tools = ts, !.at = to]
<1>1. q \in ChatRecord(q.conn) /\ chat' = [chat EXCEPT ![b] = c]
  BY DEF Selected, RegistryInv
<1>2. to \in {"insert", "model"} /\ (to = "insert" => q.spec = "none") /\ q = chat[b]
  OBVIOUS
<1> HIDE DEF q, to
<1>3. c \in ChatRecord(q.conn) /\ c.at = to /\ c.tools = ts /\ c.spec = q.spec /\ c.overtaken = q.overtaken
  BY <1>1, <1>2 DEF ChatRecord
<1> HIDE DEF c
<1>4. FreshChat(c)
  BY <1>2, <1>3 DEF FreshChat
<1> QED BY <1>1, <1>3, <1>4, ChatOnly

LEMMA SelectToolsHolds == ASSUME RegistryInv, NEW b \in Chat, SelectTools(b) PROVE RegistryInv'
<1>1. /\ chat[b].at = "tools" /\ UNCHANGED <<connVars, graphs, tools, toolReq>> /\ tools \in Nat
      /\ FreshTools(tools) /\ FreshTools(0) /\ chat[b] \in ChatRecord(chat[b].conn)
  BY DEF SelectTools, RegistryInv, FreshTools
<1>2. CASE Selected(b, tools) \/ Selected(b, 0)
  BY <1>1, <1>2, SelectedHolds
<1>3. CASE chat' = [chat EXCEPT ![b].at = "connect", ![b].tools = tools]
  <2> DEFINE c == [chat[b] EXCEPT !.at = "connect", !.tools = tools]
  <2>1. chat' = [chat EXCEPT ![b] = c]
    BY <1>3 DEF RegistryInv
  <2>2. c \in ChatRecord(chat[b].conn) /\ c.at = "connect" /\ c.tools = tools
    BY <1>1 DEF ChatRecord
  <2> HIDE DEF c
  <2>3. FreshChat(c)
    BY <1>1, <2>2 DEF FreshChat
  <2> QED BY <1>1, <2>1, <2>2, <2>3, ChatOnly
<1> QED BY <1>2, <1>3 DEF SelectTools

LEMMA ConnectToolsHolds == ASSUME RegistryInv, NEW b \in Chat, ConnectTools(b) PROVE RegistryInv'
<1>1. /\ chat[b].at = "connect" /\ UNCHANGED <<connVars, graphs, tools, toolReq>>
      /\ FreshTools(0) /\ chat[b] \in ChatRecord(chat[b].conn) /\ FreshChat(chat[b])
  BY DEF ConnectTools, RegistryInv, FreshTools
<1>2. chat[b].tools \in Nat /\ chat[b].overtaken \in BOOLEAN
  BY <1>1 DEF ChatRecord
<1>3. FreshTools(chat[b].tools) \/ chat[b].overtaken
  BY <1>1 DEF FreshChat
<1>4. Selected(b, chat[b].tools) \/ Selected(b, 0)
  BY DEF ConnectTools
<1> QED BY <1>1, <1>2, <1>3, <1>4, SelectedHolds

LEMMA ResolveModelHolds == ASSUME RegistryInv, NEW b \in Chat, ResolveModel(b) PROVE RegistryInv'
<1> DEFINE q == chat[b]
           conn == Contents(q.spec)
           c == [q EXCEPT !.at = "insert", !.conn = conn]
<1>1. /\ q.at = "model" /\ UNCHANGED <<connVars, graphs, tools, toolReq>>
      /\ q \in ChatRecord(q.conn) /\ FreshChat(q) /\ chat' = [chat EXCEPT ![b] = c]
  BY DEF ResolveModel, RegistryInv
<1>2. FreshConn(q.spec, conn)
  BY DEF FreshConn
<1> HIDE DEF q, conn
<1>3. c \in ChatRecord(conn) /\ c.conn = conn /\ c.spec = q.spec /\ c.tools = q.tools /\ c.overtaken = q.overtaken
  BY <1>1 DEF ChatRecord
<1> HIDE DEF c
<1>4. FreshChat(c)
  BY <1>1, <1>2, <1>3 DEF FreshChat
<1> QED BY <1>1, <1>3, <1>4, ChatOnly

LEMMA InsertGraphHolds == ASSUME RegistryInv, NEW b \in Chat, InsertGraph(b) PROVE RegistryInv'
<1> DEFINE c == chat[b]
           conn == IF c.spec = "none" THEN Contents("none") ELSE c.conn
           g == [spec |-> c.spec, tools |-> c.tools, conn |-> conn, overtaken |-> c.overtaken]
           all == Append(Without(c.spec), g)
<1>1. PICK S : graphs \in Seq(S) /\ \A h \in S : Fresh(h)
  BY DEF RegistryInv
<1>2. /\ c.at = "insert" /\ UNCHANGED <<connVars, tools, toolReq>>
      /\ c \in ChatRecord(c.conn) /\ FreshChat(c) /\ chat' = [chat EXCEPT ![b] = NoChat]
      /\ graphs' \in {graphs, all, Tail(all)}
  BY DEF InsertGraph, RegistryInv
<1>3. Fresh(g)
  <2>1. FreshConn(c.spec, conn) \/ c.overtaken
    BY <1>2 DEF FreshChat, FreshConn
  <2>2. FreshTools(c.tools) \/ c.overtaken
    BY <1>2 DEF FreshChat
  <2> HIDE DEF conn, c
  <2> QED BY <2>1, <2>2 DEF Fresh
<1> HIDE DEF g
<1>4. Without(c.spec) \in Seq(S)
  <2>1. CASE c.spec \in Keys
    <3> DEFINE i == CHOOSE j \in 1..Len(graphs) : graphs[j].spec = c.spec
    <3>1. i \in 1..Len(graphs)
      BY <2>1 DEF Keys
    <3>2. Without(c.spec) = RemoveAt(graphs, i)
      BY <2>1 DEF Without
    <3> HIDE DEF i, c
    <3> QED BY <1>1, <3>1, <3>2, GraphsMove
  <2>2. CASE c.spec \notin Keys
    BY <1>1, <2>2 DEF Without
  <2> QED BY <2>1, <2>2
<1>5. graphs \in Seq(S \cup {g}) /\ all \in Seq(S \cup {g}) /\ Len(all) > 0
  <2>1. all \in Seq(S \cup {g})
    BY <1>4, GraphsMove
  <2>2. Len(all) = Len(Without(c.spec)) + 1 /\ Len(Without(c.spec)) \in Nat
    BY <1>4
  <2> HIDE DEF all
  <2> QED BY <1>1, <2>1, <2>2, GraphsMove
<1>6. Tail(all) \in Seq(S \cup {g})
  <2> HIDE DEF all
  <2> QED BY <1>5
<1>7. graphs' \in Seq(S \cup {g}) /\ \A h \in S \cup {g} : Fresh(h)
  BY <1>1, <1>2, <1>3, <1>5, <1>6
<1>8. FreshChat(NoChat)
  BY NoChatRecord DEF FreshChat
<1> QED BY <1>2, <1>7, <1>8, NoChatRecord, ChatSteps

\* The graphs are dropped, and what is being built is overtaken: all is fresh.
LEMMA DropHolds ==
  ASSUME RegistryInv, DropGraphs, ConnInv', tools' \in Nat, toolReq' \in BOOLEAN PROVE RegistryInv'
<1>1. graphs' = <<>> /\ chat' = [b \in Chat |-> [chat[b] EXCEPT !.overtaken = chat[b].at # "idle"]]
  BY DEF DropGraphs
<1>2. ASSUME NEW b \in Chat
      PROVE  /\ chat'[b] \in ChatRecord(chat[b].conn) /\ chat'[b].conn = chat[b].conn
             /\ chat'[b].at # "idle" => chat'[b].overtaken
  <2>1. chat[b] \in ChatRecord(chat[b].conn)
    BY DEF RegistryInv
  <2> QED BY <1>1, <2>1 DEF ChatRecord
<1>3. chat' = [b \in Chat |-> chat'[b]] /\ \A b \in Chat : chat'[b] \in ChatRecord(chat'[b].conn)
  BY <1>1, <1>2
<1>4. (\A b \in Chat : FreshChat(chat[b]))'
  BY <1>2 DEF FreshChat
<1>5. \E S : graphs' \in Seq(S) /\ \A g \in S : Fresh(g)'
  <2>1. graphs' \in Seq({})
    BY <1>1, EmptySeq
  <2> QED BY <2>1
<1> QED BY <1>3, <1>4, <1>5 DEF RegistryInv, ChatRecord

\* A step that leaves graphs and resolutions alone, while what they were built from
\* stays as it is or is going to drop them.
LEMMA AsideHolds ==
  ASSUME RegistryInv, ConnInv', UNCHANGED <<graphs, chat>>, tools' \in Nat, toolReq' \in BOOLEAN,
         toolReq' \/ (toolReq' = toolReq /\ tools' = tools),
         Dirty' \/ spoiled' \/ (~Dirty /\ ~spoiled /\ conns' = conns /\ resolved' = resolved)
  PROVE  RegistryInv'
<1>1. PICK S : graphs \in Seq(S) /\ \A g \in S : Fresh(g)
  BY DEF RegistryInv
<1>2. \A g \in S : Fresh(g)'
  BY <1>1 DEF Fresh, FreshTools, FreshConn, Contents
<1>3. (\A b \in Chat : FreshChat(chat[b]))'
  <2>1. \A b \in Chat : FreshChat(chat[b])
    BY DEF RegistryInv
  <2> QED BY <2>1 DEF FreshChat, FreshTools, FreshConn, Contents
<1>4. \E T : graphs' \in Seq(T) /\ \A g \in T : Fresh(g)'
  BY <1>1, <1>2
<1> QED BY <1>3, <1>4 DEF RegistryInv, ChatRecord

\* A request that has changed rows or defaults drops the graphs or goes on.
LEMMA DirtyGoesOn ==
  ASSUME ConnInv, NEW s \in Admin,
         \/ BeginAny(s) \/ GetAgain(s) \/ ClearDefault(s) \/ WriteRow(s) \/ AskDefault(s)
         \/ ~LastKind(s) /\ StoreDefault(s)
  PROVE  Dirty' \/ spoiled' \/ (~Dirty /\ ~spoiled /\ conns' = conns /\ resolved' = resolved)
<1> DEFINE Out == Dirty' \/ spoiled' \/ (~Dirty /\ ~spoiled /\ conns' = conns /\ resolved' = resolved)
           Mine == Clearing(s) \/ adm[s].at \in {"ask", "told"}
<1>1. ConnTypeOK /\ adm[s] \in AdminRecord(adm[s].answer) /\ spoiled \in BOOLEAN
  BY AdminIs DEF ConnInv, ConnTypeOK
<1>2. ASSUME NEW r, adm' = [adm EXCEPT ![s] = r], conns' = conns, resolved' = resolved,
             spoiled' = spoiled, ~Mine
      PROVE  Out
  <2>1. \A t \in Admin : t # s => adm'[t] = adm[t]
    BY <1>1, <1>2 DEF ConnTypeOK
  <2>2. Dirty => Dirty'
    BY <1>2, <2>1 DEF Dirty, Clearing
  <2> QED BY <1>2, <2>2
<1>3. ASSUME NEW r, adm' = [adm EXCEPT ![s] = r], r.at \in {"ask", "told"} \/ (r.at = "write" /\ r.default)
      PROVE  Out
  <2>1. adm'[s] = r
    BY <1>1, <1>3 DEF ConnTypeOK
  <2>2. Dirty'
    BY <1>3, <2>1 DEF Dirty, Clearing
  <2> QED BY <2>2
<1>4. ASSUME NEW at, Move(s, at) PROVE adm' = [adm EXCEPT ![s] = [adm[s] EXCEPT !.at = at]]
  BY <1>1, <1>4 DEF Move, ConnTypeOK
<1>5. ASSUME NEW at
      PROVE  [adm[s] EXCEPT !.at = at].at = at /\ [adm[s] EXCEPT !.at = at].default = adm[s].default
  BY <1>1 DEF AdminRecord
<1>6. CASE BeginAny(s)
  <2>1. PICK n \in Name, op \in {"create", "update", "delete"} : Begin(s, op, n)
    BY <1>6 DEF BeginAny
  <2>2. \E r : adm' = [adm EXCEPT ![s] = r]
    BY <2>1 DEF Begin
  <2>3. ~Mine /\ conns' = conns /\ resolved' = resolved /\ spoiled' = spoiled
    BY <2>1, FreeRequest DEF Begin, Clearing
  <2> QED BY <1>2, <2>2, <2>3
<1>7. CASE GetAgain(s)
  <2>1. \E r : adm' = [adm EXCEPT ![s] = r]
    BY <1>4, <1>7 DEF GetAgain
  <2>2. ~Mine /\ conns' = conns /\ resolved' = resolved /\ spoiled' = spoiled
    BY <1>7 DEF GetAgain, Clearing
  <2> QED BY <1>2, <2>1, <2>2
<1>8. CASE ClearDefault(s)
  <2>1. Move(s, "write") /\ adm[s].default
    BY <1>8, AdminIs DEF ClearDefault
  <2> DEFINE r == [adm[s] EXCEPT !.at = "write"]
  <2>2. adm' = [adm EXCEPT ![s] = r]
    BY <1>4, <2>1
  <2>3. r.at = "write" /\ r.default
    BY <1>5, <2>1
  <2> HIDE DEF r
  <2> QED BY <1>3, <2>2, <2>3
<1>9. CASE WriteRow(s)
  <2>1. CASE Move(s, "ask")
    BY <1>3, <1>4, <1>5, <2>1
  <2>2. CASE spoiled' = (spoiled \/ adm[s].default) /\ Leave(s) /\ UNCHANGED <<conns, writes, raced>>
    <3>1. resolved' = resolved /\ adm[s].at = "write" /\ adm' = [adm EXCEPT ![s] = Free]
      BY <1>9, <2>2 DEF WriteRow, Leave
    <3>2. CASE adm[s].default
      BY <2>2, <3>2
    <3>3. CASE ~adm[s].default
      <4>1. ~Mine /\ spoiled' = spoiled
        BY <1>1, <2>2, <3>1, <3>3 DEF Clearing
      <4> QED BY <1>2, <2>2, <3>1, <4>1
    <3> QED BY <3>2, <3>3
  <2> QED BY <1>9, <2>1, <2>2 DEF WriteRow
<1>10. CASE AskDefault(s)
  <2>1. CASE spoiled' = TRUE
    BY <2>1
  <2>2. CASE adm' = [adm EXCEPT ![s].at = "told", ![s].answer = GetDefault(Resolved[adm[s].step])]
    <3> DEFINE d == GetDefault(Resolved[adm[s].step])
               r == [adm[s] EXCEPT !.at = "told", !.answer = d]
    <3>1. adm' = [adm EXCEPT ![s] = r]
      BY <1>1, <2>2 DEF ConnTypeOK
    <3> HIDE DEF d
    <3>2. r.at = "told"
      BY <1>1 DEF AdminRecord
    <3> HIDE DEF r
    <3> QED BY <1>3, <3>1, <3>2
  <2> QED BY <1>10, <2>1, <2>2 DEF AskDefault
<1>11. CASE ~LastKind(s) /\ StoreDefault(s)
  <2>1. adm' = [adm EXCEPT ![s].at = "ask", ![s].step = @ + 1, ![s].answer = 0]
    BY <1>11 DEF StoreDefault
  <2> DEFINE p == adm[s].step + 1
             r == [adm[s] EXCEPT !.at = "ask", !.step = p, !.answer = 0]
  <2>2. adm' = [adm EXCEPT ![s] = r]
    BY <1>1, <2>1 DEF ConnTypeOK
  <2> HIDE DEF p
  <2>3. r.at = "ask"
    BY <1>1 DEF AdminRecord
  <2> HIDE DEF r
  <2> QED BY <1>3, <2>2, <2>3
<1> QED BY <1>6, <1>7, <1>8, <1>9, <1>10, <1>11

LEMMA MutateHolds == ASSUME RegistryInv, NEW s \in Admin, Mutate(s) PROVE RegistryInv'
<1>1. tools' = tools /\ toolReq' = toolReq /\ tools \in Nat /\ toolReq \in BOOLEAN /\ ConnInv
  BY DEF Mutate, RegistryInv
<1>2. ConnInv'
  <2>1. ConnNext
    BY DEF Mutate, ConnNext
  <2> QED BY <1>1, <2>1, ConnStepHolds
<1>3. CASE LastKind(s) /\ StoreDefault(s) /\ DropGraphs
  BY <1>1, <1>2, <1>3, DropHolds
<1>4. CASE /\ UNCHANGED <<graphs, chat>>
           /\ \/ BeginAny(s) \/ GetAgain(s) \/ ClearDefault(s) \/ WriteRow(s) \/ AskDefault(s)
              \/ ~LastKind(s) /\ StoreDefault(s)
  BY <1>1, <1>2, <1>4, DirtyGoesOn, AsideHolds
<1> QED BY <1>3, <1>4 DEF Mutate

LEMMA RegistryStepHolds == RegistryInv /\ [RegistryNext]_registryVars => RegistryInv'
<1> SUFFICES ASSUME RegistryInv, [RegistryNext]_registryVars PROVE RegistryInv'
  OBVIOUS
<1>1. CASE WriteTools
  <2>1. ConnInv' /\ tools \in Nat /\ toolReq \in BOOLEAN
    BY <1>1, ConnStepHolds DEF WriteTools, RegistryInv
  <2>2. conns' = conns /\ resolved' = resolved /\ adm' = adm /\ spoiled' = spoiled
    BY <1>1 DEF WriteTools, connVars
  <2>3. Dirty' \/ spoiled' \/ (~Dirty /\ ~spoiled /\ conns' = conns /\ resolved' = resolved)
    BY <2>2 DEF Dirty, Clearing
  <2> QED BY <1>1, <2>1, <2>3, AsideHolds DEF WriteTools
<1>2. CASE DropForTools
  <2>1. ConnInv' /\ tools' \in Nat /\ toolReq' \in BOOLEAN
    BY <1>2, ConnStepHolds DEF DropForTools, RegistryInv
  <2> QED BY <1>2, <2>1, DropHolds DEF DropForTools
<1>3. CASE UNCHANGED registryVars
  <2>1. ConnInv' /\ tools' \in Nat /\ toolReq' \in BOOLEAN
    BY <1>3, ConnStepHolds DEF registryVars, RegistryInv
  <2>2. /\ conns' = conns /\ resolved' = resolved /\ adm' = adm /\ spoiled' = spoiled
        /\ UNCHANGED <<graphs, chat, tools, toolReq>>
    BY <1>3 DEF registryVars, connVars
  <2>3. Dirty' \/ spoiled' \/ (~Dirty /\ ~spoiled /\ conns' = conns /\ resolved' = resolved)
    BY <2>2 DEF Dirty, Clearing
  <2> QED BY <2>1, <2>2, <2>3, AsideHolds
<1> QED BY <1>1, <1>2, <1>3, MutateHolds, HitGraphHolds, StartBuildHolds, SelectToolsHolds,
        ConnectToolsHolds, ResolveModelHolds, InsertGraphHolds DEF RegistryNext

\* A cached graph is what a build would give, once the mutations are done
\* (services/agent.py:561-585), for any number of connections, resolutions, admin
\* requests and cached graphs.
THEOREM GraphTheorem == RegistrySpec => []GraphsAreFresh
<1>1. RegistryInv => GraphsAreFresh
  <2> SUFFICES ASSUME RegistryInv, AdminsIdle, ~toolReq, ~spoiled, NEW i \in 1..Len(graphs)
               PROVE  graphs[i].overtaken
                      \/ (graphs[i].tools \in {0, tools} /\ graphs[i].conn = Contents(graphs[i].spec))
    BY DEF GraphsAreFresh
  <2>1. PICK S : graphs \in Seq(S) /\ \A g \in S : Fresh(g)
    BY DEF RegistryInv
  <2>2. Fresh(graphs[i])
    BY <2>1
  <2>3. ~Dirty
    BY FreeRequest DEF AdminsIdle, Dirty, Clearing
  <2> QED BY <2>2, <2>3 DEF Fresh, FreshTools, FreshConn
<1> QED BY <1>1, RegistryInitHolds, RegistryStepHolds, PTL DEF RegistrySpec

-----------------------------------------------------------------------------
(* The config and its snapshot. *)

LeftOf(r) == {r.left[i] : i \in 1 .. Len(r.left)}
Stages == {"idle", "list", "clear", "look", "md", "search", "copy", "row"}
ConfigRequest ==
  [op : {"none", "create", "update", "delete"}, at : Stages, list : Seq(Skill), left : Seq(Skill),
   files : SUBSET SkillFile, disturbed : BOOLEAN]

Copying == {"look", "md", "search", "copy"}

ConfigTypeOK ==
  /\ own \in SUBSET SkillFile /\ snapshot \in SUBSET SkillFile /\ exact \in BOOLEAN
  /\ creq \in [ConfigSlot -> ConfigRequest]
  /\ \A s \in ConfigSlot :
       /\ LeftOf(creq[s]) \subseteq Listed(creq[s])
       /\ Busy(s) \/ creq[s].at = "idle"
       /\ creq[s].at \in Copying => creq[s].left # <<>>

\* Who shares the config with another is disturbed.
Alone == \A s, t \in ConfigSlot : s # t /\ Busy(s) /\ Busy(t) => creq[s].disturbed

\* How far an undisturbed request has got: the snapshot holds the files of the skills
\* it has done, and none of another.
Reached(r, mine, copies) ==
  /\ \A k \in Listed(r) : Md(k) \in mine
  /\ r.at \in {"list", "clear"} => r.left = r.list
  /\ r.at = "clear" => copies \subseteq r.files
  /\ r.at \in Copying =>
       /\ copies \subseteq mine \cap FilesOf(Listed(r))
       /\ mine \cap FilesOf(Listed(r) \ LeftOf(r)) \subseteq copies
  /\ r.at = "search" => Md(Head(r.left)) \in copies
  /\ r.at = "copy" => /\ mine \cap FilesOf({Head(r.left)}) \subseteq copies \cup r.files
                      /\ r.files \subseteq mine \cap FilesOf(Listed(r))
  /\ r.at = "row" => copies = mine \cap FilesOf(Listed(r))

\* While files are being copied the snapshot is not exact.
CopyingIsSeen == \A s \in ConfigSlot : Busy(s) /\ creq[s].at \in {"search", "copy"} => ~exact

ExactIsExact == exact =>
  snapshot = copied /\ (config # NoConfig => {f.skill : f \in snapshot} = config)

ConfigInv ==
  /\ ConfigTypeOK /\ Alone /\ CopyingIsSeen /\ ExactIsExact
  /\ \A s \in ConfigSlot : Busy(s) /\ ~creq[s].disturbed => Reached(creq[s], own, snapshot)

LEMMA VacantType == Vacant \in ConfigRequest /\ Vacant.op = "none" /\ Vacant.at = "idle" /\ LeftOf(Vacant) = {}
BY EmptySeq DEF Vacant, ConfigRequest, Stages, LeftOf

LEMMA ConfigInitHolds == ConfigInit => ConfigInv
<1> SUFFICES ASSUME ConfigInit PROVE ConfigInv
  OBVIOUS
<1>1. \A s \in ConfigSlot : creq[s] = Vacant /\ ~Busy(s)
  BY VacantType DEF ConfigInit, Busy
<1>2. own \in SUBSET SkillFile
  BY DEF ConfigInit, FilesOf
<1>3. ConfigTypeOK
  BY <1>1, <1>2, VacantType DEF ConfigInit, ConfigTypeOK, Copying
<1>4. ExactIsExact
  BY DEF ConfigInit, ExactIsExact
<1> QED BY <1>1, <1>3, <1>4 DEF ConfigInv, Alone, CopyingIsSeen

\* A step of one request disturbs no undisturbed other.
LEMMA RequestSteps ==
  ASSUME ConfigInv, NEW s \in ConfigSlot, Busy(s), NEW r \in ConfigRequest,
         creq' = [creq EXCEPT ![s] = r], LeftOf(r) \subseteq Listed(r), own' = own,
         r.op # "none" \/ r.at = "idle", r.at \in Copying => r.left # <<>>,
         snapshot' \in SUBSET SkillFile, exact' \in BOOLEAN, ExactIsExact',
         r.op # "none" => (creq[s].disturbed => r.disturbed),
         r.op # "none" /\ r.at \in {"search", "copy"} => ~exact',
         exact' => exact \/ ~creq[s].disturbed,
         r.op # "none" /\ ~r.disturbed => Reached(r, own', snapshot')
  PROVE  ConfigInv'
<1>1. ConfigTypeOK /\ \A t \in ConfigSlot : creq'[t] = IF t = s THEN r ELSE creq[t]
  BY DEF ConfigInv, ConfigTypeOK
<1>2. ConfigTypeOK'
  BY <1>1 DEF ConfigTypeOK, Busy
<1>3. \A t \in ConfigSlot \ {s} : Busy(t) => creq[s].disturbed /\ creq[t].disturbed
  BY DEF ConfigInv, Alone
<1>4. Alone'
  BY <1>1, <1>3 DEF ConfigInv, Alone, Busy
<1>5. CopyingIsSeen'
  BY <1>1, <1>3 DEF ConfigInv, CopyingIsSeen, Busy
<1>6. ASSUME NEW t \in ConfigSlot, Busy(t)', ~creq'[t].disturbed PROVE Reached(creq'[t], own', snapshot')
  <2>1. t = s
    BY <1>1, <1>3, <1>6 DEF Busy
  <2>2. creq'[t] = r
    BY <1>1, <2>1
  <2> QED BY <1>6, <2>2 DEF Busy
<1> QED BY <1>2, <1>4, <1>5, <1>6 DEF ConfigInv, Busy

\* What a request that begins or goes on knows of the one in its slot.
LEMMA RequestIs ==
  ASSUME ConfigInv, NEW s \in ConfigSlot
  PROVE  LET q == creq[s] IN
         /\ q \in ConfigRequest /\ LeftOf(q) \subseteq Listed(q)
         /\ q.at \in {"search", "copy"} /\ Busy(s) => ~exact
         /\ Busy(s) /\ ~q.disturbed => Reached(q, own, snapshot)
         /\ Busy(s) \/ q.at = "idle"
         /\ q.at \in Copying => q.left # <<>>
BY DEF ConfigInv, ConfigTypeOK, CopyingIsSeen

LEMMA LeftSplits ==
  ASSUME NEW q \in ConfigRequest, q.left # <<>>
  PROVE  /\ Tail(q.left) \in Seq(Skill) /\ Head(q.left) \in LeftOf(q)
         /\ {Tail(q.left)[i] : i \in 1 .. Len(Tail(q.left))} \subseteq LeftOf(q)
         /\ LeftOf(q) \subseteq {Head(q.left)} \cup {Tail(q.left)[i] : i \in 1 .. Len(Tail(q.left))}
         /\ Tail(q.left) = <<>> => LeftOf(q) \subseteq {Head(q.left)}
<1> DEFINE l == q.left
           t == Tail(q.left)
<1>1. l \in Seq(Skill) /\ l # <<>> /\ Len(l) \in Nat /\ LeftOf(q) = {l[i] : i \in 1 .. Len(l)}
  BY DEF ConfigRequest, LeftOf
<1>2. t \in Seq(Skill) /\ Len(t) = Len(l) - 1 /\ \A i \in 1 .. Len(t) : t[i] = l[i + 1]
  BY <1>1, HeadTailProperties
<1>3. Head(l) = l[1] /\ Len(l) > 0
  BY <1>1
<1>a. Len(<<>>) = 0
  OBVIOUS
<1> HIDE DEF t, l
<1>4. t = <<>> => Len(t) = 0
  BY <1>a
<1>5. \A i \in 1 .. Len(t) : i + 1 \in 1 .. Len(l)
  BY <1>1, <1>2
<1>6. \A i \in 1 .. Len(l) : i = 1 \/ (i - 1 \in 1 .. Len(t) /\ (i - 1) + 1 = i)
  BY <1>1, <1>2
<1>7. Head(l) \in LeftOf(q)
  BY <1>1, <1>3
<1>8. {t[i] : i \in 1 .. Len(t)} \subseteq LeftOf(q)
  BY <1>1, <1>2, <1>5
<1>9. LeftOf(q) \subseteq {Head(l)} \cup {t[i] : i \in 1 .. Len(t)}
  <2> SUFFICES ASSUME NEW i \in 1 .. Len(l) PROVE l[i] \in {Head(l)} \cup {t[j] : j \in 1 .. Len(t)}
    BY <1>1
  <2>1. CASE i = 1
    BY <1>3, <2>1
  <2>2. CASE i - 1 \in 1 .. Len(t) /\ (i - 1) + 1 = i
    <3>1. t[i - 1] = l[i]
      BY <1>2, <2>2
    <3> QED BY <2>2, <3>1
  <2> QED BY <1>6, <2>1, <2>2
<1>10. t = <<>> => {t[i] : i \in 1 .. Len(t)} = {}
  BY <1>4
<1> QED BY <1>2, <1>7, <1>8, <1>9, <1>10 DEF l, t

LEMMA EditSkillHolds == ConfigInv /\ EditSkill => ConfigInv'
<1> SUFFICES ASSUME ConfigInv, EditSkill PROVE ConfigInv'
  OBVIOUS
<1>1. /\ creq' = [s \in ConfigSlot |-> [creq[s] EXCEPT !.disturbed = Busy(s)]]
      /\ snapshot' = snapshot /\ config' = config /\ exact' = exact /\ copied' = copied
      /\ ConfigTypeOK
  BY DEF EditSkill, ConfigInv
<1>2. own' \in SUBSET SkillFile
  BY <1>1 DEF EditSkill, ConfigTypeOK
<1>3. ASSUME NEW s \in ConfigSlot
      PROVE  /\ creq'[s] \in ConfigRequest /\ creq'[s].at = creq[s].at /\ creq'[s].op = creq[s].op
             /\ creq'[s].list = creq[s].list /\ creq'[s].left = creq[s].left
             /\ (Busy(s) => creq'[s].disturbed)
  BY <1>1 DEF ConfigTypeOK, ConfigRequest, Busy
<1>4. ConfigTypeOK'
  <2>1. \A s \in ConfigSlot :
          /\ LeftOf(creq'[s]) = LeftOf(creq[s]) /\ Listed(creq'[s]) = Listed(creq[s])
          /\ Busy(s)' <=> Busy(s)
    BY <1>3 DEF LeftOf, Listed, Busy
  <2>2. creq' \in [ConfigSlot -> ConfigRequest]
    BY <1>1, <1>3
  <2>3. \A s \in ConfigSlot : LeftOf(creq'[s]) \subseteq Listed(creq'[s]) /\ (Busy(s)' \/ creq'[s].at = "idle")
                             /\ (creq'[s].at \in Copying => creq'[s].left # <<>>)
    BY <1>1, <1>3, <2>1 DEF ConfigTypeOK
  <2> QED BY <1>1, <1>2, <2>2, <2>3 DEF ConfigTypeOK
<1> QED BY <1>1, <1>3, <1>4 DEF ConfigInv, Alone, CopyingIsSeen, ExactIsExact, Busy

LEMMA BeginConfigHolds == ASSUME ConfigInv, NEW s \in ConfigSlot, BeginConfig(s) PROVE ConfigInv'
<1> DEFINE others == {t \in ConfigSlot \ {s} : Busy(t)}
<1>1. PICK op \in {"create", "update", "delete"},
           list \in {<<>>} \cup [{1} -> Skill] \cup [1..2 -> Skill] :
        /\ \A i \in 1..Len(list) : Md(list[i]) \in own
        /\ creq' = [t \in ConfigSlot |->
             IF t = s THEN [Vacant EXCEPT !.op = op, !.at = "list", !.list = list, !.left = list,
                                          !.disturbed = others # {}]
             ELSE [creq[t] EXCEPT !.disturbed = t \in others]]
  BY DEF BeginConfig
<1>2. /\ snapshot' = snapshot /\ config' = config /\ exact' = exact /\ copied' = copied /\ own' = own
      /\ ConfigTypeOK /\ ~Busy(s)
  BY DEF BeginConfig, ConfigInv
<1>3. list \in Seq(Skill)
  <2>1. [{1} -> Skill] \subseteq Seq(Skill) /\ [1 .. 2 -> Skill] \subseteq Seq(Skill)
    <3>1. {1} = 1 .. 1 /\ 1 \in Nat /\ 2 \in Nat
      OBVIOUS
    <3>2. \A n \in Nat : [1 .. n -> Skill] \subseteq Seq(Skill)
      BY SeqDef, ZenonT(40)
    <3> QED BY <3>1, <3>2
  <2> QED BY <2>1, EmptySeq
<1>4. /\ creq'[s] \in ConfigRequest /\ creq'[s].at = "list" /\ creq'[s].op # "none"
      /\ creq'[s].list = list /\ creq'[s].left = list /\ (others # {} => creq'[s].disturbed)
  BY <1>1, <1>3 DEF Vacant, ConfigRequest, Stages
<1>5. ASSUME NEW t \in ConfigSlot \ {s}
      PROVE  /\ creq'[t] \in ConfigRequest /\ creq'[t].at = creq[t].at /\ creq'[t].op = creq[t].op
             /\ creq'[t].list = creq[t].list /\ creq'[t].left = creq[t].left
             /\ (Busy(t) => creq'[t].disturbed)
  <2>1. /\ creq[t] \in ConfigRequest /\ creq'[t] = [creq[t] EXCEPT !.disturbed = t \in others]
    BY <1>1, <1>2 DEF ConfigTypeOK
  <2>2. (Busy(t) => t \in others) /\ (t \in others) \in BOOLEAN
    OBVIOUS
  <2> HIDE DEF others
  <2> QED BY <2>1, <2>2 DEF ConfigRequest
<1>6. ConfigTypeOK'
  <2>1. creq' \in [ConfigSlot -> ConfigRequest]
    BY <1>1, <1>4, <1>5
  <2>2. \A t \in ConfigSlot \ {s} :
          /\ LeftOf(creq'[t]) = LeftOf(creq[t]) /\ Listed(creq'[t]) = Listed(creq[t])
          /\ Busy(t)' <=> Busy(t)
    BY <1>5 DEF LeftOf, Listed, Busy
  <2>3. LeftOf(creq'[s]) = Listed(creq'[s]) /\ Busy(s)'
    BY <1>4 DEF LeftOf, Listed, Busy
  <2>4. \A t \in ConfigSlot : LeftOf(creq'[t]) \subseteq Listed(creq'[t]) /\ (Busy(t)' \/ creq'[t].at = "idle")
                             /\ (creq'[t].at \in Copying => creq'[t].left # <<>>)
    BY <1>2, <1>4, <1>5, <2>2, <2>3 DEF ConfigTypeOK, Copying
  <2> QED BY <1>2, <2>1, <2>4 DEF ConfigTypeOK
<1>7. Alone'
  BY <1>4, <1>5 DEF Alone, Busy
<1>8. CopyingIsSeen'
  BY <1>2, <1>4, <1>5 DEF ConfigInv, CopyingIsSeen, Busy
<1>9. ASSUME NEW t \in ConfigSlot, Busy(t)', ~creq'[t].disturbed PROVE Reached(creq'[t], own', snapshot')
  <2>1. t = s
    BY <1>5, <1>9 DEF Busy
  <2>2. Listed(creq'[s]) = {list[i] : i \in 1 .. Len(list)}
    BY <1>4 DEF Listed
  <2> QED BY <1>1, <1>2, <1>4, <2>1, <2>2 DEF Reached, Copying
<1> QED BY <1>2, <1>6, <1>7, <1>8, <1>9 DEF ConfigInv, ExactIsExact

LEMMA ListSnapshotHolds == ASSUME ConfigInv, NEW s \in ConfigSlot, ListSnapshot(s) PROVE ConfigInv'
<1> DEFINE q == creq[s]
<1>1. PICK p \in PageOf(snapshot) :
        creq' = [creq EXCEPT ![s] = [q EXCEPT !.at = "clear", !.files = p, !.disturbed = @ \/ p # snapshot]]
  BY DEF ListSnapshot, Set
<1>2. /\ snapshot' = snapshot /\ config' = config /\ exact' = exact /\ copied' = copied /\ own' = own
      /\ q.at = "list" /\ ConfigTypeOK /\ p \subseteq snapshot
  BY DEF ListSnapshot, ConfigInv, PageOf
<1>3. /\ q \in ConfigRequest /\ LeftOf(q) \subseteq Listed(q) /\ Busy(s)
      /\ (~q.disturbed => Reached(q, own, snapshot))
  BY <1>2, RequestIs
<1> DEFINE r == [q EXCEPT !.at = "clear", !.files = p, !.disturbed = @ \/ p # snapshot]
<1>5. creq' = [creq EXCEPT ![s] = r] /\ q.op # "none"
  BY <1>1, <1>3 DEF Busy
<1> HIDE DEF q
<1>4. /\ r \in ConfigRequest /\ r.at = "clear" /\ r.files = p /\ r.op = q.op /\ r.list = q.list /\ r.left = q.left
      /\ (q.disturbed => r.disturbed) /\ (~r.disturbed => ~q.disturbed /\ p = snapshot)
  BY <1>2, <1>3 DEF ConfigRequest, Stages, ConfigTypeOK
<1> HIDE DEF r
<1>6. LeftOf(r) \subseteq Listed(r) /\ Listed(r) = Listed(q)
  BY <1>3, <1>4 DEF LeftOf, Listed
<1>8. ExactIsExact' /\ exact' \in BOOLEAN /\ snapshot' \in SUBSET SkillFile
  BY <1>2 DEF ConfigInv, ExactIsExact, ConfigTypeOK
<1>9. ~r.disturbed => Reached(r, own', snapshot')
  BY <1>2, <1>3, <1>4, <1>6 DEF Reached, Copying
<1>10. (q.disturbed <=> creq[s].disturbed) /\ r.at \notin Copying
  BY <1>4 DEF q, Copying
<1> QED BY <1>2, <1>3, <1>4, <1>5, <1>6, <1>8, <1>9, <1>10, RequestSteps

LEMMA ClearFileHolds == ASSUME ConfigInv, NEW s \in ConfigSlot, ClearFile(s) PROVE ConfigInv'
<1> DEFINE q == creq[s]
<1>1. /\ config' = config /\ copied' = copied /\ own' = own /\ q.at = "clear" /\ ConfigTypeOK
      /\ own \in SUBSET SkillFile /\ snapshot \in SUBSET SkillFile /\ exact \in BOOLEAN
  BY DEF ClearFile, ConfigInv, ConfigTypeOK
<1>2. /\ q \in ConfigRequest /\ LeftOf(q) \subseteq Listed(q) /\ Busy(s)
      /\ (~q.disturbed => Reached(q, own, snapshot)) /\ q.op # "none"
  BY <1>1, RequestIs DEF Busy
<1>3. ASSUME NEW f \in q.files, snapshot' = snapshot \ {f}, exact' = FALSE,
             creq' = [creq EXCEPT ![s] = [q EXCEPT !.files = @ \ {f}]]
      PROVE  ConfigInv'
  <2> DEFINE r == [q EXCEPT !.files = q.files \ {f}]
  <2>1. creq' = [creq EXCEPT ![s] = r]
    BY <1>3
  <2> HIDE DEF q
  <2>2. /\ r \in ConfigRequest /\ r.at = "clear" /\ r.files = q.files \ {f} /\ r.op = q.op
        /\ r.list = q.list /\ r.left = q.left /\ r.disturbed = q.disturbed
    BY <1>1, <1>2 DEF ConfigRequest
  <2> HIDE DEF r
  <2>3. LeftOf(r) \subseteq Listed(r) /\ Listed(r) = Listed(q)
    BY <1>2, <2>2 DEF LeftOf, Listed
  <2>4. ~r.disturbed => Reached(r, own', snapshot')
    BY <1>1, <1>2, <1>3, <2>2, <2>3 DEF Reached, Copying
  <2>5. (q.disturbed <=> creq[s].disturbed) /\ (r.at \in Copying => r.left # <<>>)
    BY <1>1, <1>2, <2>2 DEF q, Copying
  <2>6. ExactIsExact' /\ snapshot' \in SUBSET SkillFile
    BY <1>1, <1>3 DEF ExactIsExact
  <2> QED BY <1>1, <1>2, <1>3, <2>1, <2>2, <2>3, <2>4, <2>5, <2>6, RequestSteps
<1>4. ASSUME q.files = {}, snapshot' = snapshot, exact' = exact,
             creq' = [creq EXCEPT ![s] = [q EXCEPT !.at = IF q.left = <<>> THEN "row" ELSE "look"]]
      PROVE  ConfigInv'
  <2> DEFINE r == [q EXCEPT !.at = IF q.left = <<>> THEN "row" ELSE "look"]
  <2>1. creq' = [creq EXCEPT ![s] = r]
    BY <1>4
  <2> HIDE DEF q
  <2>2. /\ r \in ConfigRequest /\ r.at = (IF q.left = <<>> THEN "row" ELSE "look") /\ r.op = q.op
        /\ r.list = q.list /\ r.left = q.left /\ r.disturbed = q.disturbed
    BY <1>1, <1>2 DEF ConfigRequest, Stages
  <2> HIDE DEF r
  <2>3. LeftOf(r) \subseteq Listed(r) /\ Listed(r) = Listed(q)
    BY <1>2, <2>2 DEF LeftOf, Listed
  <2>4. ASSUME ~r.disturbed PROVE Reached(r, own', snapshot')
    <3>1. snapshot' = {} /\ r.left = r.list /\ \A k \in Listed(r) : Md(k) \in own'
      BY <1>1, <1>2, <1>4, <2>2, <2>3, <2>4 DEF Reached, Copying
    <3>2. LeftOf(r) = Listed(r)
      BY <3>1 DEF LeftOf, Listed
    <3>3. Len(<<>>) = 0
      OBVIOUS
    <3>4. r.left = <<>> => Listed(r) = {}
      BY <3>1, <3>3 DEF Listed
    <3>5. FilesOf({}) = {} /\ Listed(r) \ LeftOf(r) = {}
      BY <3>2 DEF FilesOf
    <3> QED BY <2>2, <3>1, <3>4, <3>5 DEF Reached, Copying
  <2>5. (q.disturbed <=> creq[s].disturbed) /\ (r.at \in Copying => r.left # <<>>)
    BY <1>1, <1>2, <2>2 DEF q, Copying
  <2>6. ExactIsExact'
    BY <1>1, <1>4 DEF ConfigInv, ExactIsExact
  <2>7. r.at \notin {"search", "copy"}
    BY <2>2
  <2> QED BY <1>1, <1>2, <1>4, <2>1, <2>2, <2>3, <2>4, <2>5, <2>6, <2>7, RequestSteps
<1> QED BY <1>3, <1>4 DEF ClearFile, Set

\* A request that ends changes no file but by what its last step did.
LEMMA QuitHolds ==
  ASSUME ConfigInv, NEW s \in ConfigSlot, Busy(s), creq' = [creq EXCEPT ![s] = Vacant],
         own' = own, snapshot' = snapshot, exact' \in BOOLEAN, ExactIsExact',
         exact' => exact \/ ~creq[s].disturbed
  PROVE  ConfigInv'
<1>1. snapshot' \in SUBSET SkillFile /\ LeftOf(Vacant) \subseteq Listed(Vacant) /\ Vacant.at \notin Copying
  BY VacantType DEF ConfigInv, ConfigTypeOK, Copying
<1> QED BY <1>1, VacantType, RequestSteps

LEMMA LookUpSkillHolds == ASSUME ConfigInv, NEW s \in ConfigSlot, LookUpSkill(s) PROVE ConfigInv'
<1> DEFINE q == creq[s]
<1>1. /\ config' = config /\ copied' = copied /\ own' = own /\ q.at = "look" /\ ConfigTypeOK
      /\ snapshot' = snapshot /\ snapshot \in SUBSET SkillFile /\ exact \in BOOLEAN
  BY DEF LookUpSkill, ConfigInv, ConfigTypeOK
<1>2. /\ q \in ConfigRequest /\ LeftOf(q) \subseteq Listed(q) /\ Busy(s)
      /\ (~q.disturbed => Reached(q, own, snapshot)) /\ q.op # "none" /\ q.left # <<>>
  BY <1>1, RequestIs DEF Busy, Copying
<1>3. ASSUME creq' = [creq EXCEPT ![s] = [q EXCEPT !.at = "md"]], exact' = exact
      PROVE  ConfigInv'
  <2> DEFINE r == [q EXCEPT !.at = "md"]
  <2>1. creq' = [creq EXCEPT ![s] = r]
    BY <1>3
  <2> HIDE DEF q
  <2>2. /\ r \in ConfigRequest /\ r.at = "md" /\ r.op = q.op
        /\ r.list = q.list /\ r.left = q.left /\ r.disturbed = q.disturbed
    BY <1>1, <1>2 DEF ConfigRequest, Stages
  <2> HIDE DEF r
  <2>3. LeftOf(r) \subseteq Listed(r) /\ Listed(r) = Listed(q) /\ LeftOf(r) = LeftOf(q)
    BY <1>2, <2>2 DEF LeftOf, Listed
  <2>4. ~r.disturbed => Reached(r, own', snapshot')
    BY <1>1, <1>2, <2>2, <2>3 DEF Reached, Copying
  <2>5. (q.disturbed <=> creq[s].disturbed) /\ (r.at \in Copying => r.left # <<>>)
    BY <1>1, <1>2, <2>2 DEF q, Copying
  <2>6. ExactIsExact'
    BY <1>1, <1>3 DEF ConfigInv, ExactIsExact
  <2> QED BY <1>1, <1>2, <1>3, <2>1, <2>2, <2>3, <2>4, <2>5, <2>6, RequestSteps
<1>4. ASSUME creq' = [creq EXCEPT ![s] = Vacant], exact' = FALSE PROVE ConfigInv'
  <2>1. ExactIsExact'
    BY <1>4 DEF ExactIsExact
  <2> QED BY <1>1, <1>2, <1>4, <2>1, QuitHolds
<1> QED BY <1>3, <1>4 DEF LookUpSkill, Set, Quit

LEMMA CopyMdHolds == ASSUME ConfigInv, NEW s \in ConfigSlot, CopyMd(s) PROVE ConfigInv'
<1> DEFINE q == creq[s]
           r == [q EXCEPT !.at = "search"]
           f == Md(Head(q.left))
<1>1. /\ config' = config /\ copied' = copied /\ own' = own /\ q.at = "md" /\ ConfigTypeOK
      /\ snapshot' = snapshot \cup {f} /\ exact' = FALSE /\ own \in SUBSET SkillFile
      /\ snapshot \in SUBSET SkillFile /\ creq' = [creq EXCEPT ![s] = r]
  BY DEF CopyMd, ConfigInv, ConfigTypeOK, Set
<1>2. /\ q \in ConfigRequest /\ LeftOf(q) \subseteq Listed(q) /\ Busy(s)
      /\ (~q.disturbed => Reached(q, own, snapshot)) /\ q.op # "none" /\ q.left # <<>>
  BY <1>1, RequestIs DEF Busy, Copying
<1> HIDE DEF q
<1>3. /\ r \in ConfigRequest /\ r.at = "search" /\ r.op = q.op
      /\ r.list = q.list /\ r.left = q.left /\ r.disturbed = q.disturbed
  BY <1>1, <1>2 DEF ConfigRequest, Stages
<1> HIDE DEF r
<1>4. LeftOf(r) \subseteq Listed(r) /\ Listed(r) = Listed(q) /\ LeftOf(r) = LeftOf(q)
  BY <1>2, <1>3 DEF LeftOf, Listed
<1>5. Head(q.left) \in LeftOf(q) /\ Head(q.left) \in Skill
  BY <1>2, LeftSplits DEF ConfigRequest
<1>6. f \in SkillFile /\ f.skill = Head(q.left)
  BY <1>5 DEF Md, SkillFile
<1>7. ~r.disturbed => Reached(r, own', snapshot')
  BY <1>1, <1>2, <1>3, <1>4, <1>5, <1>6 DEF Reached, FilesOf, Copying
<1>8. (q.disturbed <=> creq[s].disturbed) /\ (r.at \in Copying => r.left # <<>>)
  BY <1>1, <1>2, <1>3 DEF q, Copying
<1>9. ExactIsExact' /\ snapshot' \in SUBSET SkillFile
  BY <1>1, <1>6 DEF ExactIsExact
<1> QED BY <1>1, <1>2, <1>3, <1>4, <1>7, <1>8, <1>9, RequestSteps

LEMMA SearchFilesHolds == ASSUME ConfigInv, NEW s \in ConfigSlot, SearchFiles(s) PROVE ConfigInv'
<1> DEFINE q == creq[s]
           h == Head(q.left)
<1>1. PICK p \in PageOf(own) :
        creq' = [creq EXCEPT ![s] = [q EXCEPT !.at = "copy", !.disturbed = @ \/ p # own,
                                              !.files = {f \in p : f.skill = h /\ f.name # "md"}]]
  BY DEF SearchFiles, Set
<1> DEFINE fs == {f \in p : f.skill = h /\ f.name # "md"}
           r == [q EXCEPT !.at = "copy", !.disturbed = @ \/ p # own, !.files = fs]
<1>2. /\ config' = config /\ copied' = copied /\ own' = own /\ q.at = "search" /\ ConfigTypeOK
      /\ snapshot' = snapshot /\ exact' = exact /\ own \in SUBSET SkillFile /\ p \subseteq own
      /\ snapshot \in SUBSET SkillFile /\ creq' = [creq EXCEPT ![s] = r]
  BY <1>1 DEF SearchFiles, ConfigInv, ConfigTypeOK, PageOf
<1>3. /\ q \in ConfigRequest /\ LeftOf(q) \subseteq Listed(q) /\ Busy(s) /\ ~exact
      /\ (~q.disturbed => Reached(q, own, snapshot)) /\ q.op # "none" /\ q.left # <<>>
  BY <1>2, RequestIs DEF Busy, Copying
<1>a. fs \in SUBSET SkillFile
  BY <1>2
<1> HIDE DEF q, fs
<1>4. /\ r \in ConfigRequest /\ r.at = "copy" /\ r.op = q.op /\ r.files = fs
      /\ r.list = q.list /\ r.left = q.left
      /\ (q.disturbed => r.disturbed) /\ (~r.disturbed => ~q.disturbed /\ p = own)
  BY <1>a, <1>3 DEF ConfigRequest, Stages
<1> HIDE DEF r
<1>5. LeftOf(r) \subseteq Listed(r) /\ Listed(r) = Listed(q) /\ LeftOf(r) = LeftOf(q)
  BY <1>3, <1>4 DEF LeftOf, Listed
<1>6. h \in LeftOf(q) /\ h \in Skill /\ h \in Listed(r)
  BY <1>3, <1>5, LeftSplits DEF ConfigRequest
<1>7. ASSUME ~r.disturbed PROVE Reached(r, own', snapshot')
  <2>1. Reached(q, own, snapshot) /\ fs = {f \in own : f.skill = h /\ f.name # "md"}
    BY <1>3, <1>4, <1>7 DEF fs
  <2>2. Md(h) \in snapshot
    BY <1>2, <2>1 DEF Reached
  <2>3. ASSUME NEW f \in own \cap FilesOf({h}) PROVE f \in snapshot \cup fs
    <3>1. f \in SkillFile /\ f.skill = h
      BY <2>3 DEF FilesOf
    <3>2. f.name = "md" => f = Md(h)
      BY <3>1 DEF SkillFile, Md
    <3> QED BY <2>1, <2>2, <2>3, <3>1, <3>2
  <2>4. fs \subseteq own \cap FilesOf(Listed(r))
    BY <1>2, <1>6, <2>1 DEF FilesOf
  <2>5. own \cap FilesOf({Head(r.left)}) \subseteq snapshot \cup r.files
    BY <2>3, <1>4
  <2> QED BY <1>2, <1>4, <1>5, <2>1, <2>4, <2>5 DEF Reached, Copying
<1>8. (q.disturbed <=> creq[s].disturbed) /\ (r.at \in Copying => r.left # <<>>)
  BY <1>3, <1>4 DEF q, Copying
<1>9. ExactIsExact' /\ exact' \in BOOLEAN /\ ~exact'
  BY <1>2, <1>3 DEF ConfigInv, ConfigTypeOK, ExactIsExact
<1> QED BY <1>2, <1>3, <1>4, <1>5, <1>7, <1>8, <1>9, RequestSteps

LEMMA CopyFileHolds == ASSUME ConfigInv, NEW s \in ConfigSlot, CopyFile(s) PROVE ConfigInv'
<1> DEFINE q == creq[s]
           h == Head(q.left)
<1>1. /\ config' = config /\ copied' = copied /\ own' = own /\ q.at = "copy" /\ ConfigTypeOK
      /\ own \in SUBSET SkillFile /\ snapshot \in SUBSET SkillFile /\ exact' = exact
  BY DEF CopyFile, ConfigInv, ConfigTypeOK
<1>2. /\ q \in ConfigRequest /\ LeftOf(q) \subseteq Listed(q) /\ Busy(s) /\ exact = FALSE
      /\ (~q.disturbed => Reached(q, own, snapshot)) /\ q.op # "none" /\ q.left # <<>>
  <2>1. exact \in BOOLEAN
    BY DEF ConfigInv, ConfigTypeOK
  <2> QED BY <1>1, <2>1, RequestIs DEF Busy, Copying
<1>3. ExactIsExact' /\ ~exact' /\ exact' \in BOOLEAN
  BY <1>1, <1>2 DEF ExactIsExact
<1>4. ASSUME NEW f \in q.files, snapshot' = snapshot \cup {f},
             creq' = [creq EXCEPT ![s] = [q EXCEPT !.files = @ \ {f}]]
      PROVE  ConfigInv'
  <2> DEFINE r == [q EXCEPT !.files = q.files \ {f}]
  <2>1. creq' = [creq EXCEPT ![s] = r]
    BY <1>4
  <2> HIDE DEF q
  <2>2. /\ r \in ConfigRequest /\ r.at = "copy" /\ r.files = q.files \ {f} /\ r.op = q.op
        /\ r.list = q.list /\ r.left = q.left /\ r.disturbed = q.disturbed /\ f \in SkillFile
    BY <1>1, <1>2, <1>4 DEF ConfigRequest
  <2> HIDE DEF r
  <2>3. LeftOf(r) \subseteq Listed(r) /\ Listed(r) = Listed(q) /\ LeftOf(r) = LeftOf(q)
    BY <1>2, <2>2 DEF LeftOf, Listed
  <2>4. ~r.disturbed => Reached(r, own', snapshot')
    BY <1>1, <1>2, <1>4, <2>2, <2>3 DEF Reached, Copying
  <2>5. (q.disturbed <=> creq[s].disturbed) /\ (r.at \in Copying => r.left # <<>>)
    BY <1>2, <2>2 DEF q
  <2>6. snapshot' \in SUBSET SkillFile
    BY <1>1, <1>4, <2>2
  <2> QED BY <1>1, <1>2, <1>3, <2>1, <2>2, <2>3, <2>4, <2>5, <2>6, RequestSteps
<1>5. ASSUME q.files = {}, snapshot' = snapshot,
             creq' = [creq EXCEPT ![s] = [q EXCEPT !.left = Tail(q.left),
                                            !.at = IF Tail(q.left) = <<>> THEN "row" ELSE "look"]]
      PROVE  ConfigInv'
  <2> DEFINE rest == Tail(q.left)
             r == [q EXCEPT !.left = rest, !.at = IF rest = <<>> THEN "row" ELSE "look"]
  <2>1. creq' = [creq EXCEPT ![s] = r]
    BY <1>5
  <2> HIDE DEF q
  <2>2. /\ rest \in Seq(Skill) /\ h \in LeftOf(q) /\ {rest[i] : i \in 1 .. Len(rest)} \subseteq LeftOf(q)
        /\ LeftOf(q) \subseteq {h} \cup {rest[i] : i \in 1 .. Len(rest)}
        /\ (rest = <<>> => LeftOf(q) \subseteq {h})
    BY <1>2, LeftSplits
  <2> HIDE DEF rest
  <2>3. /\ r \in ConfigRequest /\ r.at = (IF rest = <<>> THEN "row" ELSE "look") /\ r.files = q.files
        /\ r.op = q.op /\ r.list = q.list /\ r.left = rest /\ r.disturbed = q.disturbed
    BY <1>1, <1>2, <2>2 DEF ConfigRequest, Stages
  <2> HIDE DEF r
  <2>4. /\ LeftOf(r) = {rest[i] : i \in 1 .. Len(rest)} /\ Listed(r) = Listed(q)
        /\ LeftOf(r) \subseteq Listed(r)
    BY <1>2, <2>2, <2>3, SMTT(30) DEF LeftOf, Listed
  <2>5. ASSUME ~r.disturbed PROVE Reached(r, own', snapshot')
    <3>1. Reached(q, own, snapshot)
      BY <1>2, <2>3, <2>5
    <3>2. /\ \A k \in Listed(r) : Md(k) \in own
          /\ snapshot \subseteq own \cap FilesOf(Listed(r))
          /\ own \cap FilesOf(Listed(r) \ LeftOf(q)) \subseteq snapshot
          /\ own \cap FilesOf({h}) \subseteq snapshot
      BY <1>1, <1>5, <2>4, <3>1 DEF Reached, Copying
    <3>3. own \cap FilesOf(Listed(r) \ LeftOf(r)) \subseteq snapshot
      BY <2>2, <2>4, <3>2 DEF FilesOf
    <3>4. rest = <<>> => own \cap FilesOf(Listed(r)) \subseteq snapshot
      BY <2>2, <3>2 DEF FilesOf
    <3> QED BY <1>1, <1>5, <2>3, <3>2, <3>3, <3>4 DEF Reached, Copying
  <2>6. (q.disturbed <=> creq[s].disturbed) /\ (r.at \in Copying => r.left # <<>>)
    BY <2>3 DEF q, Copying
  <2>7. snapshot' \in SUBSET SkillFile /\ r.at \notin {"search", "copy"}
    BY <1>1, <1>5, <2>3
  <2> QED BY <1>1, <1>2, <1>3, <2>1, <2>3, <2>4, <2>5, <2>6, <2>7, RequestSteps
<1> QED BY <1>4, <1>5 DEF CopyFile, Set

LEMMA PutConfigHolds == ASSUME ConfigInv, NEW s \in ConfigSlot, PutConfig(s) PROVE ConfigInv'
<1> DEFINE q == creq[s]
<1>1. /\ config' = (IF q.op = "delete" THEN NoConfig ELSE Listed(q)) /\ own' = own /\ q.at = "row"
      /\ copied' = own \cap FilesOf(Listed(q)) /\ exact' = ~q.disturbed /\ snapshot' = snapshot
      /\ creq' = [creq EXCEPT ![s] = Vacant] /\ own \in SUBSET SkillFile
  BY DEF PutConfig, Quit, Set, ConfigInv, ConfigTypeOK
<1>2. Busy(s) /\ q \in ConfigRequest /\ (~q.disturbed => Reached(q, own, snapshot))
  BY <1>1, RequestIs
<1>3. exact' \in BOOLEAN /\ (exact' => ~q.disturbed)
  BY <1>1, <1>2 DEF ConfigRequest
<1>4. ASSUME exact' PROVE snapshot' = copied' /\ (config' # NoConfig => {f.skill : f \in snapshot'} = config')
  <2>1. snapshot' = own \cap FilesOf(Listed(q)) /\ \A k \in Listed(q) : Md(k) \in own
    BY <1>1, <1>2, <1>3, <1>4 DEF Reached
  <2>2. \A f \in snapshot' : f.skill \in Listed(q)
    BY <2>1 DEF FilesOf
  <2>3. ASSUME NEW k \in Listed(q) PROVE \E f \in snapshot' : f.skill = k
    <3>1. Md(k) \in own /\ Md(k).skill = k
      BY <2>1, <2>3 DEF Md
    <3>2. Md(k) \in FilesOf(Listed(q))
      BY <1>1, <2>3, <3>1 DEF FilesOf
    <3> QED BY <2>1, <3>1, <3>2
  <2> QED BY <1>1, <2>1, <2>2, <2>3
<1>5. ExactIsExact'
  BY <1>4 DEF ExactIsExact
<1> QED BY <1>1, <1>2, <1>3, <1>5, QuitHolds

LEMMA ConfigStepHolds == ConfigInv /\ [ConfigNext]_configVars => ConfigInv'
<1> SUFFICES ASSUME ConfigInv, [ConfigNext]_configVars PROVE ConfigInv'
  OBVIOUS
<1>1. CASE UNCHANGED configVars
  BY <1>1 DEF configVars, ConfigInv, ConfigTypeOK, Alone, CopyingIsSeen, ExactIsExact, Busy
<1>2. CASE ConfigNext
  BY <1>2, EditSkillHolds, BeginConfigHolds, ListSnapshotHolds, ClearFileHolds, LookUpSkillHolds,
     CopyMdHolds, SearchFilesHolds, CopyFileHolds, PutConfigHolds DEF ConfigNext
<1> QED BY <1>1, <1>2

\* The snapshot of a config is its selection whenever nothing disturbed the request
\* that wrote it (services/agent_configs.py:230-232), for any number of skills, of
\* requests at once and of items on a page.
THEOREM SnapshotTheorem == ConfigSpec => []SnapshotIsTheSelection
<1>1. ConfigInv => SnapshotIsTheSelection
  BY DEF ConfigInv, ExactIsExact, SnapshotIsTheSelection
<1> QED BY <1>1, ConfigInitHolds, ConfigStepHolds, PTL DEF ConfigSpec

-----------------------------------------------------------------------------
(***************************************************************************)
(* The tool sessions.  An instance's session is in _sessions, or its       *)
(* opener holds the lock (InstanceHolds), so that nobody opens a second    *)
(* one beside it; and only the holder of the lock and those who close a    *)
(* session change what is registered.                                      *)
(***************************************************************************)

Place == {"idle", "load", "get", "lock", "opening", "calling", "await", "unlock", "refuse",
          "drop", "unset"}
CallRecord == [at : Place, inst : 0..MaxInstances, sess : 0..MaxSessions,
               then : {"idle", "get", "unset", "unlock", "refuse"}]
SessionRecord == [at : {"unborn", "opening", "up", "closed", "failed"}, rev : Nat,
                  inst : 0..MaxInstances, told : BOOLEAN]

McpTypes ==
  /\ server \in Nat /\ made \in 0..MaxInstances /\ current \in 0..made
  /\ conf \in [Instance -> Nat]
  /\ cached \in [Instance -> 0..MaxSessions]
  /\ owner \in [Instance -> 0..MaxSessions]
  /\ lock \in [Instance -> McpSlot \cup {Nobody}]
  /\ sess \in [Session -> SessionRecord]
  /\ \A k \in Session : sess[k].at # "unborn" => sess[k].inst \in Instance
  /\ call = [c \in McpSlot |-> call[c]]

Goes(c, to) == call[c].at = to \/ (call[c].at = "await" /\ call[c].then = to)

\* What a request relies on where it stands.
CallHolds(c) ==
  /\ call[c] \in CallRecord
  /\ call[c].at \notin {"idle", "drop"} => call[c].inst \in Instance
  /\ call[c].at = "load" => call[c].then \in {"idle", "get"}
  /\ call[c].at = "opening" => /\ lock[call[c].inst] = c /\ call[c].sess \in Session
                               /\ owner[call[c].inst] \in {0, call[c].sess}
  /\ Goes(c, "unlock") \/ Goes(c, "refuse") =>
       lock[call[c].inst] = c /\ owner[call[c].inst] = 0
  /\ Goes(c, "unset") => call[c].inst # current /\ call[c].inst <= made

\* A task is registered by the opener that holds the lock, or its session is cached, or
\* it has failed.
InstanceHolds(i) ==
  /\ lock[i] # Nobody => cached[i] = 0
  /\ lock[i] = Nobody /\ cached[i] = 0 =>
       owner[i] = 0 \/ (owner[i] \in Session /\ sess[owner[i]].at = "failed")

McpInv ==
  /\ McpTypes
  /\ \A c \in McpSlot : CallHolds(c)
  /\ \A i \in Instance : InstanceHolds(i)
  /\ NoSessionIsLost

\* A step of the request in slot c: it takes no lock and registers no task that
\* another one relies on.
CallStep(c) ==
  /\ McpTypes'
  /\ \A t \in McpSlot : t # c => call'[t] = call[t]
  /\ \A i \in Instance : lock'[i] = lock[i] \/ lock[i] \in {Nobody, c}
  /\ \A i \in Instance : owner'[i] \in {owner[i], 0} \/ lock[i] = Nobody
  /\ current' \in {current, 0, made + 1} /\ made <= made'
  /\ CallHolds(c)'
  /\ \A i \in Instance : InstanceHolds(i)'
  /\ NoSessionIsLost'

-----------------------------------------------------------------------------
\* The other requests keep what they rely on.
LEMMA CallStepKeepsInv ==
  ASSUME McpInv, NEW c \in McpSlot, CallStep(c)
  PROVE  McpInv'
<1>1. ASSUME NEW t \in McpSlot, t # c
      PROVE  CallHolds(t)'
  <2>1. call'[t] = call[t] /\ CallHolds(t)
    BY <1>1 DEF CallStep, McpInv
  <2>2. t # Nobody
    BY McpAssumption
  <2>3. call[t].at = "opening" \/ Goes(t, "unlock") \/ Goes(t, "refuse") =>
          /\ lock'[call[t].inst] = t
          /\ owner'[call[t].inst] \in {owner[call[t].inst], 0}
    <3>1. call[t].at = "opening" \/ Goes(t, "unlock") \/ Goes(t, "refuse") =>
            call[t].inst \in Instance /\ lock[call[t].inst] = t
      BY <2>1 DEF CallHolds, Goes
    <3> QED BY <1>1, <2>2, <3>1 DEF CallStep
  <2>4. Goes(t, "unset") => call[t].inst # current' /\ call[t].inst <= made'
    <3> SUFFICES ASSUME Goes(t, "unset")
                 PROVE  call[t].inst # current' /\ call[t].inst <= made'
      OBVIOUS
    <3>1. call[t].inst \in Instance /\ call[t].inst # current /\ call[t].inst <= made
      BY <2>1 DEF CallHolds, Goes
    <3>2. made \in Nat /\ made' \in Nat
      BY DEF CallStep, McpInv, McpTypes
    <3> QED BY <3>1, <3>2, McpAssumption DEF CallStep, Instance
  <2> QED BY <2>1, <2>3, <2>4 DEF CallHolds, Goes
<1> QED BY <1>1 DEF CallStep, McpInv

\* An instance's number fits a request's field.
LEMMA InstancesAreNumbered == Instance \subseteq 0..MaxInstances
BY McpAssumption DEF Instance

\* An idle slot's request is well formed.
LEMMA NoCallFits == NoCall \in CallRecord /\ NoCall.at = "idle" /\ NoCall.then = "idle"
BY McpAssumption DEF NoCall, CallRecord, Place

\* The request in a slot becomes r.
LEMMA BecomeSets ==
  ASSUME McpTypes, NEW c \in McpSlot, NEW r, Become(c, r)
  PROVE  /\ call'[c] = r /\ call' = [t \in McpSlot |-> call'[t]]
         /\ \A t \in McpSlot : t # c => call'[t] = call[t]
BY DEF Become, McpTypes

\* Closing what is registered in an instance, by one who holds its lock or without.
LEMMA CloseSessionHolds ==
  ASSUME McpInv, NEW c \in McpSlot, NEW i \in Instance,
         NEW then \in {"idle", "get", "unset", "unlock", "refuse"}, CloseSession(c, i, then)
  PROVE  /\ cached' = [cached EXCEPT ![i] = 0] /\ owner' = [owner EXCEPT ![i] = 0]
         /\ sess' \in [Session -> SessionRecord]
         /\ \A k \in Session : /\ sess'[k].at = sess[k].at /\ sess'[k].inst = sess[k].inst
                               /\ sess'[k].rev = sess[k].rev
                               /\ sess'[k].told <=> sess[k].told \/ owner[i] = k
         /\ call'[c] \in CallRecord /\ call' = [t \in McpSlot |-> call'[t]]
         /\ call'[c].at = "await" /\ call'[c].inst = i /\ call'[c].then = then
         /\ \A t \in McpSlot : t # c => call'[t] = call[t]
<1> DEFINE r == [call[c] EXCEPT !.at = "await", !.inst = i, !.sess = owner[i], !.then = then]
<1>0. McpTypes /\ call[c] \in CallRecord
  BY DEF McpInv, CallHolds
<1>1. /\ call'[c] = r /\ call' = [t \in McpSlot |-> call'[t]]
      /\ \A t \in McpSlot : t # c => call'[t] = call[t]
  BY <1>0, BecomeSets DEF CloseSession
<1>2. owner[i] \in 0..MaxSessions /\ i \in 0..MaxInstances
  BY <1>0, McpAssumption DEF McpTypes, Instance
<1>3. r \in CallRecord /\ r.at = "await" /\ r.inst = i /\ r.then = then
  BY <1>0, <1>2 DEF CallRecord, Place
<1>4. \A k \in Session : sess'[k] = [sess[k] EXCEPT !.told = @ \/ owner[i] = k]
  BY DEF CloseSession
<1>5. \A k \in Session : sess[k] \in SessionRecord
  BY <1>0 DEF McpTypes
<1>6. \A k \in Session : (sess[k].told \/ owner[i] = k) \in BOOLEAN
  BY <1>5 DEF SessionRecord
<1>7. \A k \in Session :
        /\ sess'[k] \in SessionRecord
        /\ sess'[k].at = sess[k].at /\ sess'[k].inst = sess[k].inst
        /\ sess'[k].rev = sess[k].rev /\ (sess'[k].told <=> sess[k].told \/ owner[i] = k)
  <2> TAKE k \in Session
  <2> DEFINE b == sess[k].told \/ owner[i] = k
  <2>1. sess'[k] = [sess[k] EXCEPT !.told = b] /\ b \in BOOLEAN /\ sess[k] \in SessionRecord
    BY <1>4, <1>5, <1>6
  <2> HIDE DEF b
  <2>2. sess'[k] \in SessionRecord /\ sess'[k].told = b
    BY <2>1 DEF SessionRecord
  <2>3. /\ sess'[k].at = sess[k].at /\ sess'[k].inst = sess[k].inst
        /\ sess'[k].rev = sess[k].rev
    BY <2>1 DEF SessionRecord
  <2> QED BY <2>2, <2>3 DEF b
<1>8. sess' \in [Session -> SessionRecord]
  BY <1>7 DEF CloseSession
<1> QED BY <1>1, <1>3, <1>7, <1>8 DEF CloseSession

\* After closing, what is registered in the instances holds still.
LEMMA ClosedInstancesHold ==
  ASSUME McpInv, NEW i \in Instance, \A j \in Instance : j # i => lock'[j] = lock[j],
         cached' = [cached EXCEPT ![i] = 0], owner' = [owner EXCEPT ![i] = 0],
         \A k \in Session : sess'[k].at = sess[k].at
  PROVE  /\ cached' \in [Instance -> 0..MaxSessions] /\ owner' \in [Instance -> 0..MaxSessions]
         /\ \A j \in Instance : InstanceHolds(j)' /\ owner'[j] \in {owner[j], 0}
         /\ owner'[i] = 0
BY McpAssumption DEF McpInv, McpTypes, InstanceHolds

\* Closing all sessions of an instance, which has one at most: what runs on afterwards
\* belongs to another instance, was told to close or slipped away.
LEMMA CloseAllHolds ==
  ASSUME McpInv, NEW c \in McpSlot, NEW i \in Instance, NEW then \in {"idle", "get", "unset"},
         CloseAllSessions(c, i, then), lock' = lock
  PROVE  /\ cached' \in [Instance -> 0..MaxSessions] /\ owner' \in [Instance -> 0..MaxSessions]
         /\ \A j \in Instance : InstanceHolds(j)' /\ owner'[j] \in {owner[j], 0}
         /\ sess' \in [Session -> SessionRecord]
         /\ \A k \in Session : sess'[k].at # "unborn" => sess'[k].inst \in Instance
         /\ call'[c] \in CallRecord /\ call' = [t \in McpSlot |-> call'[t]]
         /\ Goes(c, then)' /\ call'[c].inst = i /\ call'[c].at \in {"await", then}
         /\ call'[c].at = "await" => call'[c].then = then
         /\ \A t \in McpSlot : t # c => call'[t] = call[t]
         /\ \A k \in Session \ slipped' :
              sess'[k].at \in {"opening", "up"} /\ ~sess'[k].told =>
                /\ i # current /\ sess'[k].inst = current /\ owner'[current] = k
                /\ sess'[k].rev = conf[current]
<1>0. McpTypes /\ call[c] \in CallRecord /\ NoSessionIsLost
  BY DEF McpInv, CallHolds
<1>1. CASE cached[i] # 0
  <2>1. CloseSession(c, i, then)
    BY <1>1 DEF CloseAllSessions
  <2>2. /\ cached' = [cached EXCEPT ![i] = 0] /\ owner' = [owner EXCEPT ![i] = 0]
        /\ sess' \in [Session -> SessionRecord]
        /\ \A k \in Session : /\ sess'[k].at = sess[k].at /\ sess'[k].inst = sess[k].inst
                              /\ sess'[k].rev = sess[k].rev
                              /\ sess'[k].told <=> sess[k].told \/ owner[i] = k
        /\ call'[c] \in CallRecord /\ call' = [t \in McpSlot |-> call'[t]]
        /\ call'[c].at = "await" /\ call'[c].inst = i /\ call'[c].then = then
        /\ \A t \in McpSlot : t # c => call'[t] = call[t]
    BY <2>1, CloseSessionHolds
  <2>3. /\ cached' \in [Instance -> 0..MaxSessions] /\ owner' \in [Instance -> 0..MaxSessions]
        /\ \A j \in Instance : InstanceHolds(j)' /\ owner'[j] \in {owner[j], 0}
    BY <2>2, ClosedInstancesHold
  <2>4. ASSUME NEW k \in Session \ slipped',
               sess'[k].at \in {"opening", "up"}, ~sess'[k].told
        PROVE  /\ i # current /\ sess'[k].inst = current /\ owner'[current] = k
               /\ sess'[k].rev = conf[current]
    <3>1. k \in Session \ slipped
      BY DEF CloseAllSessions
    <3>2. /\ sess[k].inst = current /\ owner[current] = k /\ sess[k].rev = conf[current]
          /\ owner[i] # k
      BY <1>0, <2>2, <2>4, <3>1 DEF NoSessionIsLost
    <3>3. current \in Instance
      BY <1>0, <2>2, <2>4, <3>2 DEF McpTypes
    <3> QED BY <1>0, <2>2, <3>2, <3>3 DEF McpTypes
  <2>5. \A k \in Session : sess'[k].at # "unborn" => sess'[k].inst \in Instance
    BY <1>0, <2>2 DEF McpTypes
  <2> QED BY <2>2, <2>3, <2>4, <2>5 DEF Goes
<1>2. CASE cached[i] = 0
  <2> DEFINE r == [call[c] EXCEPT !.at = then, !.inst = i]
  <2>1. /\ cached' = cached /\ owner' = owner /\ sess' = sess
        /\ Become(c, r)
        /\ slipped' = slipped \cup {k \in Session : k = owner[i]}
    BY <1>2 DEF CloseAllSessions
  <2>2. /\ call'[c] = r /\ call' = [t \in McpSlot |-> call'[t]]
        /\ \A t \in McpSlot : t # c => call'[t] = call[t]
    BY <1>0, <2>1, BecomeSets
  <2>3. r \in CallRecord /\ r.at = then /\ r.inst = i
    BY <1>0, InstancesAreNumbered DEF CallRecord, Place
  <2>4. ASSUME NEW k \in Session \ slipped',
               sess'[k].at \in {"opening", "up"}, ~sess'[k].told
        PROVE  /\ i # current /\ sess'[k].inst = current /\ owner'[current] = k
               /\ sess'[k].rev = conf[current]
    BY <1>0, <2>1, <2>4 DEF NoSessionIsLost
  <2>5. \A j \in Instance : InstanceHolds(j)'
    BY <2>1 DEF McpInv, InstanceHolds
  <2> QED BY <1>0, <2>1, <2>2, <2>3, <2>4, <2>5 DEF Goes, McpTypes
<1> QED BY <1>1, <1>2

-----------------------------------------------------------------------------
\* The user's instance, made at first use: no session runs yet if it is new.
LEMMA GetInstanceHolds ==
  ASSUME McpInv, NEW i \in Instance, GetInstance(i), UNCHANGED <<conf, owner, sess, slipped>>
  PROVE  /\ made' \in 0..MaxInstances /\ current' \in 0..made' /\ made <= made'
         /\ current' \in {current, made + 1}
         /\ NoSessionIsLost'
<1>1. McpTypes /\ NoSessionIsLost
  BY DEF McpInv
<1>2. CASE current # 0 /\ UNCHANGED <<current, made>>
  BY <1>1, <1>2, McpAssumption DEF McpTypes, NoSessionIsLost
<1>3. CASE current = 0 /\ made < MaxInstances /\ current' = made + 1 /\ made' = made + 1
  <2>1. \A k \in Session \ slipped : ~(sess[k].at \in {"opening", "up"} /\ ~sess[k].told)
    <3>1. 0 \notin Instance
      BY McpAssumption DEF Instance
    <3> QED BY <1>1, <1>3, <3>1 DEF NoSessionIsLost, McpTypes
  <2>2. NoSessionIsLost'
    BY <2>1 DEF NoSessionIsLost
  <2> QED BY <1>1, <1>3, <2>2, McpAssumption DEF McpTypes
<1> QED BY <1>2, <1>3 DEF GetInstance

\* Requests that begin: a call, a reconnection, a change of the server.
LEMMA BeginSteps ==
  ASSUME McpInv, NEW c \in McpSlot, BeginCall(c) \/ Reconnect(c) \/ ChangeServer(c)
  PROVE  CallStep(c)
<1>0. McpTypes /\ NoSessionIsLost /\ \A i \in Instance : InstanceHolds(i)
  BY DEF McpInv
<1>1. ASSUME NEW i \in Instance, GetInstance(i), NEW r, Become(c, r), r \in CallRecord,
             r.at \in {"load", "get"}, r.inst \in Instance, r.then \in {"idle", "get"},
             UNCHANGED <<server, conf, cached, owner, lock, sess, slipped>>
      PROVE  CallStep(c)
  <2>1. /\ call'[c] = r /\ call' = [t \in McpSlot |-> call'[t]]
        /\ \A t \in McpSlot : t # c => call'[t] = call[t]
    BY <1>0, <1>1, BecomeSets
  <2>2. /\ made' \in 0..MaxInstances /\ current' \in 0..made' /\ made <= made'
        /\ current' \in {current, made + 1}
        /\ NoSessionIsLost'
    BY <1>1, GetInstanceHolds
  <2>3. McpTypes'
    BY <1>0, <1>1, <2>1, <2>2 DEF McpTypes
  <2>4. CallHolds(c)'
    BY <1>1, <2>1 DEF CallHolds, Goes
  <2>5. \A j \in Instance : InstanceHolds(j)'
    BY <1>0, <1>1 DEF InstanceHolds
  <2> QED BY <1>1, <2>1, <2>2, <2>3, <2>4, <2>5 DEF CallStep
<1>2. CASE BeginCall(c)
  <2>1. PICK i \in Instance :
          /\ GetInstance(i)
          /\ Become(c, [NoCall EXCEPT !.inst = i, !.then = "get",
                                      !.at = IF conf[i] = 0 THEN "load" ELSE "get"])
    BY <1>2 DEF BeginCall
  <2> DEFINE r == [NoCall EXCEPT !.inst = i, !.then = "get",
                                 !.at = IF conf[i] = 0 THEN "load" ELSE "get"]
  <2>2. r \in CallRecord /\ r.at \in {"load", "get"} /\ r.inst = i /\ r.then = "get"
    BY InstancesAreNumbered, NoCallFits DEF CallRecord, Place
  <2> HIDE DEF r
  <2> QED BY <1>1, <1>2, <2>1, <2>2 DEF BeginCall, r
<1>3. CASE Reconnect(c)
  <2>1. PICK i \in Instance :
          GetInstance(i) /\ Become(c, [NoCall EXCEPT !.inst = i, !.at = "load"])
    BY <1>3 DEF Reconnect
  <2> DEFINE r == [NoCall EXCEPT !.inst = i, !.at = "load"]
  <2>2. r \in CallRecord /\ r.at = "load" /\ r.inst = i /\ r.then = "idle"
    BY InstancesAreNumbered, NoCallFits DEF CallRecord, Place
  <2> HIDE DEF r
  <2> QED BY <1>1, <1>3, <2>1, <2>2 DEF Reconnect, r
<1>4. CASE ChangeServer(c)
  <2> DEFINE r == [NoCall EXCEPT !.at = "drop"]
  <2>1. r \in CallRecord /\ r.at = "drop"
    BY McpAssumption DEF NoCall, CallRecord, Place
  <2>2. /\ call'[c] = r /\ call' = [t \in McpSlot |-> call'[t]]
        /\ \A t \in McpSlot : t # c => call'[t] = call[t]
    BY <1>0, <1>4, BecomeSets DEF ChangeServer
  <2> HIDE DEF r
  <2>3. McpTypes'
    BY <1>0, <1>4, <2>2 DEF McpTypes, ChangeServer
  <2>4. CallHolds(c)'
    BY <2>1, <2>2 DEF CallHolds, Goes
  <2>5. NoSessionIsLost' /\ \A j \in Instance : InstanceHolds(j)'
    BY <1>0, <1>4 DEF InstanceHolds, NoSessionIsLost, ChangeServer
  <2>6. made <= made'
    BY <1>0, <1>4 DEF McpTypes, ChangeServer
  <2> QED BY <1>4, <2>2, <2>3, <2>4, <2>5, <2>6 DEF CallStep, ChangeServer
<1> QED BY <1>2, <1>3, <1>4

-----------------------------------------------------------------------------
\* connect: the config is replaced when no session is left that was opened with the
\* old one.
LEMMA ConnectSteps ==
  ASSUME McpInv, NEW c \in McpSlot, Connect(c)
  PROVE  CallStep(c)
<1> DEFINE i == call[c].inst  then == call[c].then
<1>0. McpTypes /\ CallHolds(c)
  BY DEF McpInv
<1>1. call[c].inst \in Instance /\ call[c].then \in {"idle", "get"} /\ server \in Nat
  BY <1>0 DEF Connect, CallHolds, McpTypes
<1>2. /\ CloseAllSessions(c, call[c].inst, call[c].then) /\ lock' = lock
      /\ conf' = [conf EXCEPT ![call[c].inst] = server]
      /\ server' = server /\ current' = current /\ made' = made
  BY DEF Connect
<1> PICK j \in Instance, th \in {"idle", "get"} : j = call[c].inst /\ th = call[c].then
  BY <1>1
<1>3. CloseAllSessions(c, j, th) /\ conf' = [conf EXCEPT ![j] = server]
  BY <1>2
<1>4. /\ cached' \in [Instance -> 0..MaxSessions] /\ owner' \in [Instance -> 0..MaxSessions]
      /\ \A k \in Instance : InstanceHolds(k)' /\ owner'[k] \in {owner[k], 0}
      /\ sess' \in [Session -> SessionRecord]
      /\ \A k \in Session : sess'[k].at # "unborn" => sess'[k].inst \in Instance
      /\ call'[c] \in CallRecord /\ call' = [t \in McpSlot |-> call'[t]]
      /\ Goes(c, th)' /\ call'[c].inst = j /\ call'[c].at \in {"await", th}
      /\ call'[c].at = "await" => call'[c].then = th
      /\ \A t \in McpSlot : t # c => call'[t] = call[t]
      /\ \A k \in Session \ slipped' :
           sess'[k].at \in {"opening", "up"} /\ ~sess'[k].told =>
             /\ j # current /\ sess'[k].inst = current /\ owner'[current] = k
             /\ sess'[k].rev = conf[current]
  BY <1>2, <1>3, CloseAllHolds
<1>5. McpTypes'
  <2>1. conf' \in [Instance -> Nat]
    BY <1>0, <1>1, <1>2 DEF McpTypes
  <2>2. \A k \in Session : (sess'[k].at # "unborn" => sess'[k].inst \in Instance)
    BY <1>4
  <2>3. lock' \in [Instance -> McpSlot \cup {Nobody}]
    BY <1>0, <1>2 DEF McpTypes
  <2>4. server' \in Nat /\ made' \in 0..MaxInstances /\ current' \in 0..made'
    BY <1>0, <1>2 DEF McpTypes
  <2> QED BY <1>4, <2>1, <2>2, <2>3, <2>4 DEF McpTypes
<1>6. CallHolds(c)'
  BY <1>4 DEF CallHolds, Goes
<1>7. NoSessionIsLost'
  BY <1>0, <1>2, <1>3, <1>4 DEF NoSessionIsLost, McpTypes
<1>8. made <= made'
  BY <1>0, <1>2 DEF McpTypes
<1> QED BY <1>2, <1>4, <1>5, <1>6, <1>7, <1>8 DEF CallStep

\* The instance is dropped: its session was told to close or slipped away.
LEMMA DropSteps ==
  ASSUME McpInv, NEW c \in McpSlot, DropInstance(c)
  PROVE  CallStep(c)
<1>0. McpTypes /\ NoSessionIsLost /\ \A i \in Instance : InstanceHolds(i)
  BY DEF McpInv
<1>1. /\ current' = 0 /\ lock' = lock /\ conf' = conf
      /\ server' = server /\ made' = made /\ made <= made'
  BY <1>0 DEF DropInstance, McpTypes
<1>2. CASE current = 0
  <2>1. /\ Become(c, NoCall)
        /\ UNCHANGED <<cached, owner, sess, slipped>>
    BY <1>2 DEF DropInstance
  <2>2. /\ call'[c] = NoCall /\ call' = [t \in McpSlot |-> call'[t]]
        /\ \A t \in McpSlot : t # c => call'[t] = call[t]
    BY <1>0, <2>1, BecomeSets
  <2>3. McpTypes' /\ NoSessionIsLost' /\ \A i \in Instance : InstanceHolds(i)'
    BY <1>0, <1>1, <1>2, <2>1, <2>2 DEF McpTypes, NoSessionIsLost, InstanceHolds
  <2>4. CallHolds(c)'
    BY <2>2, NoCallFits DEF CallHolds, Goes
  <2> QED BY <1>1, <2>1, <2>2, <2>3, <2>4 DEF CallStep
<1>3. CASE current # 0
  <2>1. current \in Instance /\ CloseAllSessions(c, current, "unset")
    BY <1>0, <1>3, McpAssumption DEF DropInstance, McpTypes, Instance
  <2>2. /\ cached' \in [Instance -> 0..MaxSessions] /\ owner' \in [Instance -> 0..MaxSessions]
        /\ \A k \in Instance : InstanceHolds(k)' /\ owner'[k] \in {owner[k], 0}
        /\ sess' \in [Session -> SessionRecord]
        /\ \A k \in Session : sess'[k].at # "unborn" => sess'[k].inst \in Instance
        /\ call'[c] \in CallRecord /\ call' = [t \in McpSlot |-> call'[t]]
        /\ Goes(c, "unset")' /\ call'[c].inst = current /\ call'[c].at \in {"await", "unset"}
        /\ call'[c].at = "await" => call'[c].then = "unset"
        /\ \A t \in McpSlot : t # c => call'[t] = call[t]
        /\ \A k \in Session \ slipped' : ~(sess'[k].at \in {"opening", "up"} /\ ~sess'[k].told)
    BY <1>1, <2>1, CloseAllHolds
  <2>3. McpTypes'
    BY <1>0, <1>1, <2>2 DEF McpTypes
  <2>4. NoSessionIsLost'
    BY <2>2 DEF NoSessionIsLost
  <2>5. current <= made' /\ current # current'
    BY <1>0, <1>1, <1>3 DEF McpTypes
  <2>6. CallHolds(c)'
    BY <2>1, <2>2, <2>5 DEF CallHolds, Goes
  <2> QED BY <1>1, <2>2, <2>3, <2>4, <2>6 DEF CallStep
<1> QED BY <1>2, <1>3

\* A step that changes the request's place only, and maybe releases nothing.
LEMMA MoveSteps ==
  ASSUME McpInv, NEW c \in McpSlot, NEW r, Become(c, r), CallHolds(c)',
         UNCHANGED <<server, current, made, conf, cached, owner, lock, sess, slipped>>
  PROVE  CallStep(c)
<1>0. McpTypes /\ NoSessionIsLost /\ \A i \in Instance : InstanceHolds(i)
  BY DEF McpInv
<1>1. /\ call' = [t \in McpSlot |-> call'[t]]
      /\ \A t \in McpSlot : t # c => call'[t] = call[t]
  BY <1>0, BecomeSets
<1>2. McpTypes' /\ NoSessionIsLost' /\ (\A i \in Instance : InstanceHolds(i)') /\ made <= made'
  BY <1>0, <1>1 DEF McpTypes, NoSessionIsLost, InstanceHolds
<1> QED BY <1>1, <1>2 DEF CallStep

\* Going on with the instance the request has.
LEMMA TurnHolds ==
  ASSUME McpInv, NEW c \in McpSlot, NEW to \in Place, Turn(c, to)
  PROVE  /\ call'[c] \in CallRecord /\ call'[c].at = to /\ call'[c].inst = call[c].inst
         /\ call'[c].then = call[c].then /\ call'[c].sess = call[c].sess
<1> DEFINE r == [call[c] EXCEPT !.at = to]
<1>0. McpTypes /\ call[c] \in CallRecord
  BY DEF McpInv, CallHolds
<1>1. call'[c] = r
  BY <1>0, BecomeSets DEF Turn
<1>2. r \in CallRecord /\ r.at = to /\ r.inst = call[c].inst /\ r.then = call[c].then
      /\ r.sess = call[c].sess
  BY <1>0 DEF CallRecord
<1> QED BY <1>1, <1>2

\* The session was closed, and the request goes on where it wanted to.
LEMMA AwaitSteps ==
  ASSUME McpInv, NEW c \in McpSlot, AwaitClosed(c)
  PROVE  CallStep(c)
<1>0. CallHolds(c) /\ call[c].at = "await"
  BY DEF McpInv, AwaitClosed
<1>1. CASE call[c].then = "idle"
  <2>1. Become(c, NoCall) /\ call'[c] = NoCall
    BY <1>1, BecomeSets DEF AwaitClosed, McpInv
  <2>2. CallHolds(c)'
    BY <2>1, NoCallFits DEF CallHolds, Goes
  <2> QED BY <2>1, <2>2, MoveSteps DEF AwaitClosed
<1>2. CASE call[c].then # "idle"
  <2>1. call[c].then \in {"get", "unset", "unlock", "refuse"} /\ Turn(c, call[c].then)
    BY <1>0, <1>2 DEF AwaitClosed, CallHolds, CallRecord
  <2>2. call[c].then \in Place
    BY <2>1 DEF Place
  <2>3. /\ call'[c] \in CallRecord /\ call'[c].at = call[c].then /\ call'[c].inst = call[c].inst
        /\ call'[c].then = call[c].then
    BY <2>1, <2>2, TurnHolds
  <2>4. UNCHANGED <<server, current, made, conf, cached, owner, lock, sess, slipped>>
    BY DEF AwaitClosed
  <2>5. CallHolds(c)'
    BY <1>0, <2>1, <2>3, <2>4 DEF CallHolds, Goes
  <2> QED BY <2>1, <2>4, <2>5, MoveSteps DEF Turn
<1> QED BY <1>1, <1>2

\* The config of a dropped instance goes; sessions run in the current one only.
LEMMA UnsetSteps ==
  ASSUME McpInv, NEW c \in McpSlot, UnsetConfig(c)
  PROVE  CallStep(c)
<1>0. McpTypes /\ NoSessionIsLost /\ CallHolds(c) /\ \A i \in Instance : InstanceHolds(i)
  BY DEF McpInv
<1>1. /\ Become(c, NoCall) /\ conf' = [conf EXCEPT ![call[c].inst] = 0]
      /\ UNCHANGED <<server, current, made, cached, owner, lock, sess, slipped>>
  BY DEF UnsetConfig
<1>2. /\ call'[c] = NoCall /\ call' = [t \in McpSlot |-> call'[t]]
      /\ \A t \in McpSlot : t # c => call'[t] = call[t]
  BY <1>0, <1>1, BecomeSets
<1>3. call[c].inst # current
  BY <1>0 DEF UnsetConfig, CallHolds, Goes
<1>4. McpTypes' /\ (\A i \in Instance : InstanceHolds(i)') /\ made <= made'
  <2>1. conf' \in [Instance -> Nat]
    BY <1>0, <1>1 DEF McpTypes
  <2> QED BY <1>0, <1>1, <1>2, <2>1 DEF McpTypes, InstanceHolds
<1>5. NoSessionIsLost'
  <2>1. current \in Instance => conf'[current] = conf[current]
    BY <1>0, <1>1, <1>3 DEF McpTypes
  <2> QED BY <1>0, <1>1, <2>1 DEF NoSessionIsLost, McpTypes
<1>6. CallHolds(c)'
  BY <1>2, NoCallFits DEF CallHolds, Goes
<1> QED BY <1>1, <1>2, <1>4, <1>5, <1>6 DEF CallStep

-----------------------------------------------------------------------------
\* Going to call a session.
LEMMA CallingHolds ==
  ASSUME McpInv, NEW c \in McpSlot, NEW k \in 0..MaxSessions, Calling(c, k),
         call[c].inst \in Instance
  PROVE  call'[c].inst = call[c].inst /\ CallHolds(c)'
<1> DEFINE r == [call[c] EXCEPT !.at = "calling", !.sess = k]
<1>0. McpTypes /\ call[c] \in CallRecord
  BY DEF McpInv, CallHolds
<1>1. call'[c] = r
  BY <1>0, BecomeSets DEF Calling
<1>2. r \in CallRecord /\ r.at = "calling" /\ r.inst = call[c].inst
  BY <1>0 DEF CallRecord, Place
<1> HIDE DEF r
<1> QED BY <1>1, <1>2 DEF CallHolds, Goes

\* _sessions is looked at without the lock.
LEMMA LookUpSteps ==
  ASSUME McpInv, NEW c \in McpSlot, LookUpSession(c)
  PROVE  CallStep(c)
<1>0. /\ McpTypes /\ CallHolds(c) /\ call[c].at = "get"
      /\ UNCHANGED <<server, current, made, conf, cached, owner, lock, sess, slipped>>
  BY DEF McpInv, LookUpSession
<1>1. call[c].inst \in Instance /\ cached[call[c].inst] \in 0..MaxSessions
  BY <1>0 DEF CallHolds, McpTypes
<1>2. CASE Calling(c, cached[call[c].inst])
  BY <1>0, <1>1, <1>2, CallingHolds, MoveSteps DEF Calling
<1>3. CASE Turn(c, "lock")
  <2>1. call'[c] \in CallRecord /\ call'[c].at = "lock" /\ call'[c].inst = call[c].inst
    BY <1>3, TurnHolds DEF Place
  <2>2. CallHolds(c)'
    BY <1>1, <2>1 DEF CallHolds, Goes
  <2> QED BY <1>0, <1>3, <2>2, MoveSteps DEF Turn
<1> QED BY <1>2, <1>3 DEF LookUpSession

\* A session is opened under the lock; nothing was registered in the instance, so no
\* running session loses its task, and it has the config of the instance.
LEMMA OpenSteps ==
  ASSUME McpInv, NEW c \in McpSlot, call[c].inst \in Instance, lock[call[c].inst] = Nobody,
         cached[call[c].inst] = 0, OpenSession(c), UNCHANGED <<server, current, made, conf>>
  PROVE  CallStep(c)
<1> PICK i \in Instance : i = call[c].inst
  OBVIOUS
<1>0. McpTypes /\ NoSessionIsLost /\ CallHolds(c) /\ \A j \in Instance : InstanceHolds(j)
  BY DEF McpInv
<1>1. PICK k \in Session :
        /\ sess[k] = NoSession
        /\ sess' = [sess EXCEPT ![k] = [at |-> "opening", rev |-> conf[i], inst |-> i, told |-> FALSE]]
        /\ owner' = [owner EXCEPT ![i] = k]
        /\ lock' = [lock EXCEPT ![i] = c]
        /\ slipped' = IF i = current THEN slipped ELSE slipped \cup {k}
        /\ Become(c, [call[c] EXCEPT !.at = "opening", !.sess = k])
        /\ cached' = cached
  BY DEF OpenSession
<1> DEFINE r == [call[c] EXCEPT !.at = "opening", !.sess = k]
           new == [at |-> "opening", rev |-> conf[i], inst |-> i, told |-> FALSE]
<1>2. /\ call'[c] = r /\ call' = [t \in McpSlot |-> call'[t]]
      /\ \A t \in McpSlot : t # c => call'[t] = call[t]
  BY <1>0, <1>1, BecomeSets
<1>3. k \in 0..MaxSessions
  BY McpAssumption DEF Session
<1>4. r \in CallRecord /\ r.at = "opening" /\ r.inst = i /\ r.sess = k
  BY <1>0, <1>3 DEF CallHolds, CallRecord, Place
<1>5. /\ new \in SessionRecord
      /\ new.at = "opening" /\ new.inst = i /\ new.rev = conf[i] /\ ~new.told
  BY <1>0, InstancesAreNumbered DEF SessionRecord, McpTypes
<1> HIDE DEF r, new
<1>6. /\ sess' \in [Session -> SessionRecord] /\ sess'[k] = new
      /\ \A j \in Session : j # k => sess'[j] = sess[j]
  BY <1>0, <1>1, <1>5 DEF McpTypes, new
<1>7. /\ owner' \in [Instance -> 0..MaxSessions] /\ owner'[i] = k
      /\ \A j \in Instance : j # i => owner'[j] = owner[j]
      /\ lock' \in [Instance -> McpSlot \cup {Nobody}] /\ lock'[i] = c
      /\ \A j \in Instance : j # i => lock'[j] = lock[j]
  BY <1>0, <1>1, <1>3 DEF McpTypes
<1>8. McpTypes'
  <2>1. \A j \in Session : sess'[j].at # "unborn" => sess'[j].inst \in Instance
    BY <1>0, <1>5, <1>6 DEF McpTypes
  <2> QED BY <1>0, <1>1, <1>2, <1>6, <1>7, <2>1 DEF McpTypes
<1>9. CallHolds(c)'
  BY <1>2, <1>4, <1>7 DEF CallHolds, Goes
<1>10. ASSUME NEW j \in Instance
       PROVE  InstanceHolds(j)'
  <2>1. c # Nobody
    BY McpAssumption
  <2>2. sess[k].at = "unborn"
    BY <1>1 DEF NoSession
  <2> QED BY <1>0, <1>1, <1>6, <1>7, <2>1, <2>2 DEF InstanceHolds
<1>11. owner[i] \in Session => sess[owner[i]].at = "failed"
  BY <1>0, McpAssumption DEF InstanceHolds, Session
<1>12. NoSessionIsLost'
  <2> SUFFICES ASSUME NEW j \in Session \ slipped',
                      sess'[j].at \in {"opening", "up"}, ~sess'[j].told
               PROVE  /\ sess'[j].inst = current /\ owner'[current] = j
                      /\ sess'[j].rev = conf[current]
    BY DEF NoSessionIsLost
  <2>1. CASE j = k
    BY <1>1, <1>5, <1>6, <1>7, <2>1
  <2>2. CASE j # k
    <3>1. /\ sess[j].inst = current /\ owner[current] = j /\ sess[j].rev = conf[current]
          /\ current \in Instance
      BY <1>0, <1>1, <1>6, <2>2 DEF NoSessionIsLost, McpTypes
    <3>2. current # i
      BY <1>6, <1>11, <2>2, <3>1
    <3> QED BY <1>6, <1>7, <2>2, <3>1, <3>2
  <2> QED BY <2>1, <2>2
<1>13. made <= made'
  BY <1>0 DEF McpTypes
<1> QED BY <1>2, <1>7, <1>8, <1>9, <1>10, <1>12, <1>13 DEF CallStep

\* Closing what an instance has registered, after a failure to open or to call.
LEMMA FailingSteps ==
  ASSUME McpInv, NEW c \in McpSlot, NEW then \in {"idle", "unlock", "refuse"},
         call[c].inst \in Instance, CloseSession(c, call[c].inst, then),
         \/ lock' = lock /\ (then # "idle" => lock[call[c].inst] = c)
         \/ ReleaseLock(call[c].inst) /\ then = "idle" /\ lock[call[c].inst] = c,
         UNCHANGED <<server, current, made, conf, slipped>>
  PROVE  CallStep(c)
<1>0. McpTypes /\ NoSessionIsLost
  BY DEF McpInv
<1> PICK i \in Instance : i = call[c].inst
  OBVIOUS
<1>1. CloseSession(c, i, then)
  OBVIOUS
<1>2. /\ cached' = [cached EXCEPT ![i] = 0] /\ owner' = [owner EXCEPT ![i] = 0]
      /\ sess' \in [Session -> SessionRecord]
      /\ \A k \in Session : /\ sess'[k].at = sess[k].at /\ sess'[k].inst = sess[k].inst
                            /\ sess'[k].rev = sess[k].rev
                            /\ sess'[k].told <=> sess[k].told \/ owner[i] = k
      /\ call'[c] \in CallRecord /\ call' = [t \in McpSlot |-> call'[t]]
      /\ call'[c].at = "await" /\ call'[c].inst = i /\ call'[c].then = then
      /\ \A t \in McpSlot : t # c => call'[t] = call[t]
  BY <1>1, CloseSessionHolds
<1>8. /\ lock' \in [Instance -> McpSlot \cup {Nobody}]
      /\ \A j \in Instance : j # i => lock'[j] = lock[j]
      /\ lock'[i] = lock[i] \/ lock[i] = c
  BY <1>0 DEF McpTypes, ReleaseLock
<1>3. /\ cached' \in [Instance -> 0..MaxSessions] /\ owner' \in [Instance -> 0..MaxSessions]
      /\ \A j \in Instance : InstanceHolds(j)' /\ owner'[j] \in {owner[j], 0}
      /\ owner'[i] = 0
  BY <1>2, <1>8, ClosedInstancesHold
<1>4. \A k \in Session : sess'[k].at # "unborn" => sess'[k].inst \in Instance
  BY <1>0, <1>2 DEF McpTypes
<1>5. McpTypes' /\ made <= made'
  BY <1>0, <1>2, <1>3, <1>4, <1>8 DEF McpTypes
<1>6. CallHolds(c)'
  BY <1>2, <1>3 DEF CallHolds, Goes
<1>7. NoSessionIsLost'
  <2> SUFFICES ASSUME NEW k \in Session \ slipped,
                      sess'[k].at \in {"opening", "up"}, ~sess'[k].told
               PROVE  /\ sess'[k].inst = current /\ owner'[current] = k
                      /\ sess'[k].rev = conf[current]
    BY DEF NoSessionIsLost
  <2>1. /\ sess[k].inst = current /\ owner[current] = k /\ sess[k].rev = conf[current]
        /\ owner[i] # k
    BY <1>0, <1>2 DEF NoSessionIsLost
  <2>2. current \in Instance
    BY <1>0, <1>2, <2>1 DEF McpTypes
  <2> QED BY <1>0, <1>2, <2>1, <2>2 DEF McpTypes
<1> QED BY <1>2, <1>3, <1>5, <1>6, <1>7, <1>8 DEF CallStep

\* Under the lock: a session that is there by now, an unknown server, or a new session.
LEMMA TakeLockSteps ==
  ASSUME McpInv, NEW c \in McpSlot, TakeLock(c)
  PROVE  CallStep(c)
<1>0. /\ McpTypes /\ CallHolds(c) /\ call[c].at = "lock" /\ lock[call[c].inst] = Nobody
      /\ UNCHANGED <<server, current, made, conf>>
  BY DEF McpInv, TakeLock
<1>1. call[c].inst \in Instance /\ cached[call[c].inst] \in 0..MaxSessions
  BY <1>0 DEF CallHolds, McpTypes
<1>2. CASE Calling(c, cached[call[c].inst]) /\ UNCHANGED <<cached, owner, lock, sess, slipped>>
  BY <1>0, <1>1, <1>2, CallingHolds, MoveSteps DEF Calling
<1>3. CASE CloseSession(c, call[c].inst, "idle") /\ UNCHANGED <<lock, slipped>>
  BY <1>0, <1>1, <1>3, FailingSteps
<1>4. CASE cached[call[c].inst] = 0 /\ OpenSession(c)
  BY <1>0, <1>1, <1>4, OpenSteps
<1> QED BY <1>2, <1>3, <1>4 DEF TakeLock

\* The session is cached when the lock is released.
LEMMA OpenedSteps ==
  ASSUME McpInv, NEW c \in McpSlot, Opened(c)
  PROVE  CallStep(c)
<1>0. McpTypes /\ NoSessionIsLost /\ CallHolds(c) /\ \A j \in Instance : InstanceHolds(j)
  BY DEF McpInv
<1>1. /\ call[c].inst \in Instance /\ lock[call[c].inst] = c /\ call[c].sess \in Session
  BY <1>0 DEF Opened, CallHolds
<1> PICK i \in Instance, k \in Session : i = call[c].inst /\ k = call[c].sess
  BY <1>1
<1>2. /\ cached' = [cached EXCEPT ![i] = k] /\ lock' = [lock EXCEPT ![i] = Nobody]
      /\ Calling(c, k)
      /\ UNCHANGED <<server, current, made, conf, owner, sess, slipped>>
  BY DEF Opened, ReleaseLock
<1>3. k \in 0..MaxSessions /\ k # 0
  BY McpAssumption DEF Session
<1>4. /\ call' = [t \in McpSlot |-> call'[t]]
      /\ \A t \in McpSlot : t # c => call'[t] = call[t]
  BY <1>0, <1>2, BecomeSets DEF Calling
<1>5. CallHolds(c)'
  BY <1>1, <1>2, <1>3, CallingHolds
<1>6. /\ cached' \in [Instance -> 0..MaxSessions] /\ cached'[i] = k
      /\ \A j \in Instance : j # i => cached'[j] = cached[j]
      /\ lock' \in [Instance -> McpSlot \cup {Nobody}] /\ lock'[i] = Nobody
      /\ \A j \in Instance : j # i => lock'[j] = lock[j]
  BY <1>0, <1>2, <1>3 DEF McpTypes
<1>7. McpTypes' /\ made <= made'
  BY <1>0, <1>2, <1>4, <1>6 DEF McpTypes
<1>8. \A j \in Instance : InstanceHolds(j)'
  BY <1>0, <1>2, <1>3, <1>6 DEF InstanceHolds
<1>9. NoSessionIsLost'
  BY <1>0, <1>2 DEF NoSessionIsLost
<1> QED BY <1>1, <1>2, <1>4, <1>5, <1>6, <1>7, <1>8, <1>9 DEF CallStep

\* The client has gone, and opening has failed with its task done: the lock is released.
LEMMA OpenDoneSteps ==
  ASSUME McpInv, NEW c \in McpSlot, call[c].at = "opening", sess[call[c].sess].at = "failed",
         lock' = [lock EXCEPT ![call[c].inst] = Nobody], Become(c, NoCall),
         UNCHANGED <<server, current, made, conf, cached, owner, sess, slipped>>
  PROVE  CallStep(c)
<1>0. McpTypes /\ NoSessionIsLost /\ CallHolds(c) /\ \A j \in Instance : InstanceHolds(j)
  BY DEF McpInv
<1>1. /\ call[c].inst \in Instance /\ lock[call[c].inst] = c
      /\ call[c].sess \in Session /\ owner[call[c].inst] \in {0, call[c].sess}
  BY <1>0 DEF CallHolds
<1> PICK i \in Instance : i = call[c].inst
  BY <1>1
<1>3. /\ call'[c] = NoCall /\ call' = [t \in McpSlot |-> call'[t]]
      /\ \A t \in McpSlot : t # c => call'[t] = call[t]
  BY <1>0, BecomeSets
<1>4. /\ lock' \in [Instance -> McpSlot \cup {Nobody}] /\ lock'[i] = Nobody
      /\ \A j \in Instance : j # i => lock'[j] = lock[j]
  BY <1>0 DEF McpTypes
<1>5. McpTypes' /\ made <= made'
  BY <1>0, <1>3, <1>4 DEF McpTypes
<1>6. ASSUME NEW j \in Instance
      PROVE  InstanceHolds(j)'
  <2>1. UNCHANGED <<cached, owner, sess>> /\ InstanceHolds(j)
    BY <1>0
  <2>2. CASE j = i
    <3>1. cached[j] = 0 /\ lock'[j] = Nobody
      BY <1>1, <1>4, <2>1, <2>2, McpAssumption DEF InstanceHolds
    <3>2. owner[j] = 0 \/ (owner[j] \in Session /\ sess[owner[j]].at = "failed")
      BY <1>1, <2>2
    <3> QED BY <2>1, <3>1, <3>2 DEF InstanceHolds
  <2>3. CASE j # i
    BY <1>4, <2>1, <2>3 DEF InstanceHolds
  <2> QED BY <2>2, <2>3
<1>7. NoSessionIsLost' /\ CallHolds(c)'
  BY <1>0, <1>3, NoCallFits DEF NoSessionIsLost, CallHolds, Goes
<1> QED BY <1>1, <1>3, <1>4, <1>5, <1>6, <1>7 DEF CallStep

\* Opening fails, or a call.
LEMMA FailuresStep ==
  ASSUME McpInv, NEW c \in McpSlot, OpenFails(c) \/ Refuse(c) \/ Abandon(c) \/ CallTool(c)
  PROVE  CallStep(c)
<1>0. McpTypes /\ CallHolds(c)
  BY DEF McpInv
<1>1. CASE OpenFails(c) \/ Refuse(c)
  <2>1. call[c].inst \in Instance /\ lock[call[c].inst] = c
    BY <1>0, <1>1 DEF OpenFails, Refuse, CallHolds, Goes
  <2>2. UNCHANGED <<server, current, made, conf, slipped>>
    BY <1>1 DEF OpenFails, Refuse
  <2>3. \/ GiveUp(c)
        \/ CloseSession(c, call[c].inst, "refuse") /\ UNCHANGED lock
    BY <1>1 DEF OpenFails, Refuse
  <2>4. CASE GiveUp(c)
    BY <2>1, <2>2, <2>4, FailingSteps DEF GiveUp
  <2>5. CASE CloseSession(c, call[c].inst, "refuse") /\ UNCHANGED lock
    BY <2>1, <2>2, <2>5, FailingSteps
  <2> QED BY <2>3, <2>4, <2>5
<1>4. CASE Abandon(c)
  <2>1. call[c].inst \in Instance /\ lock[call[c].inst] = c
    BY <1>0, <1>4 DEF Abandon, CallHolds
  <2>2. CASE CloseSession(c, call[c].inst, "unlock") /\ UNCHANGED lock
    BY <1>4, <2>1, <2>2, FailingSteps DEF Abandon
  <2>3. CASE /\ sess[call[c].sess].at = "failed"
             /\ ReleaseLock(call[c].inst) /\ Become(c, NoCall)
             /\ UNCHANGED <<cached, owner, sess>>
    BY <1>4, <2>3, OpenDoneSteps DEF Abandon, ReleaseLock
  <2> QED BY <1>4, <2>2, <2>3 DEF Abandon
<1>2. CASE CallTool(c) /\ CloseSession(c, call[c].inst, "idle")
  <2>1. call[c].inst \in Instance
    BY <1>0, <1>2 DEF CallTool, CallHolds
  <2> QED BY <1>2, <2>1, FailingSteps DEF CallTool
<1>3. CASE CallTool(c) /\ Become(c, NoCall) /\ UNCHANGED <<cached, owner, sess>>
  <2>1. CallHolds(c)'
    BY <1>0, <1>3, BecomeSets, NoCallFits DEF CallHolds, Goes
  <2> QED BY <1>3, <2>1, MoveSteps DEF CallTool
<1> QED BY <1>1, <1>2, <1>3, <1>4 DEF CallTool

\* The lock is released with nothing registered.
LEMMA UnlockSteps ==
  ASSUME McpInv, NEW c \in McpSlot, Unlock(c)
  PROVE  CallStep(c)
<1>0. McpTypes /\ NoSessionIsLost /\ CallHolds(c) /\ \A j \in Instance : InstanceHolds(j)
  BY DEF McpInv
<1>1. call[c].inst \in Instance /\ lock[call[c].inst] = c /\ owner[call[c].inst] = 0
  BY <1>0 DEF Unlock, CallHolds, Goes
<1> PICK i \in Instance : i = call[c].inst
  BY <1>1
<1>2. /\ lock' = [lock EXCEPT ![i] = Nobody] /\ Become(c, NoCall)
      /\ UNCHANGED <<server, current, made, conf, cached, owner, sess, slipped>>
  BY DEF Unlock, ReleaseLock
<1>3. /\ call'[c] = NoCall /\ call' = [t \in McpSlot |-> call'[t]]
      /\ \A t \in McpSlot : t # c => call'[t] = call[t]
  BY <1>0, <1>2, BecomeSets
<1>4. /\ lock' \in [Instance -> McpSlot \cup {Nobody}] /\ lock'[i] = Nobody
      /\ \A j \in Instance : j # i => lock'[j] = lock[j]
  BY <1>0, <1>2 DEF McpTypes
<1>5. McpTypes' /\ made <= made'
  BY <1>0, <1>2, <1>3, <1>4 DEF McpTypes
<1>6. \A j \in Instance : InstanceHolds(j)'
  BY <1>0, <1>1, <1>2, <1>4 DEF InstanceHolds
<1>7. NoSessionIsLost' /\ CallHolds(c)'
  BY <1>0, <1>2, <1>3, NoCallFits DEF NoSessionIsLost, CallHolds, Goes
<1> QED BY <1>1, <1>2, <1>3, <1>4, <1>5, <1>6, <1>7 DEF CallStep

-----------------------------------------------------------------------------
\* A session's task goes on: it may end, but does not come back.
LEMMA OwnerHolds ==
  ASSUME McpInv, NEW k \in Session, RunOwner(k)
  PROVE  McpInv'
<1>0. McpTypes /\ NoSessionIsLost
  BY DEF McpInv
<1>1. UNCHANGED <<server, current, made, conf, cached, owner, lock, call, slipped>>
  BY DEF RunOwner
<1>2. PICK at \in {"up", "failed", "closed"} :
        /\ sess' = [sess EXCEPT ![k].at = at]
        /\ sess[k].at \in {"opening", "up"}
  BY DEF RunOwner
<1> DEFINE r == [sess[k] EXCEPT !.at = at]
<1>3. /\ r \in SessionRecord /\ r.at = at
      /\ r.inst = sess[k].inst /\ r.rev = sess[k].rev /\ r.told = sess[k].told
  BY <1>0 DEF McpTypes, SessionRecord
<1>4. sess' = [sess EXCEPT ![k] = r]
  BY <1>2
<1> HIDE DEF r
<1>5. /\ sess' \in [Session -> SessionRecord] /\ sess'[k] = r
      /\ \A j \in Session : j # k => sess'[j] = sess[j]
  BY <1>0, <1>3, <1>4 DEF McpTypes
<1>6. \A j \in Session : sess'[j].at # "unborn" => sess'[j].inst \in Instance
  BY <1>0, <1>2, <1>3, <1>5 DEF McpTypes
<1>7. McpTypes'
  BY <1>0, <1>1, <1>5, <1>6 DEF McpTypes
<1>8. NoSessionIsLost'
  BY <1>0, <1>1, <1>2, <1>3, <1>5 DEF NoSessionIsLost
<1>9. \A c \in McpSlot : CallHolds(c)'
  BY <1>1 DEF McpInv, CallHolds, Goes
<1>10. \A j \in Session : sess[j].at = "failed" => sess'[j].at = "failed"
  BY <1>2, <1>5
<1>11. \A i \in Instance : InstanceHolds(i)'
  BY <1>1, <1>10 DEF McpInv, InstanceHolds
<1> QED BY <1>7, <1>8, <1>9, <1>11 DEF McpInv

\* At first there is no instance and no session.
LEMMA McpInitHolds == McpInit => McpInv
<1> SUFFICES ASSUME McpInit PROVE McpInv
  OBVIOUS
<1>1. NoSession \in SessionRecord /\ NoSession.at = "unborn"
  BY McpAssumption DEF NoSession, SessionRecord
<1>2. \A k \in Session : sess[k] = NoSession
  BY DEF McpInit
<1>3. McpTypes
  <2>1. 0 \in 0..MaxSessions /\ 0 \in 0..MaxInstances /\ 0 \in 0..0
    BY McpAssumption
  <2>2. sess \in [Session -> SessionRecord]
    BY <1>1 DEF McpInit
  <2>3. call = [c \in McpSlot |-> call[c]]
    BY DEF McpInit
  <2> QED BY <1>1, <1>2, <2>1, <2>2, <2>3 DEF McpInit, McpTypes
<1>4. \A c \in McpSlot : CallHolds(c)
  BY NoCallFits DEF McpInit, CallHolds, Goes
<1>5. \A i \in Instance : InstanceHolds(i)
  BY DEF McpInit, InstanceHolds
<1>6. NoSessionIsLost
  BY <1>1, <1>2 DEF NoSessionIsLost
<1> QED BY <1>3, <1>4, <1>5, <1>6 DEF McpInv

\* Every step keeps the invariant.
LEMMA McpNextHolds == McpInv /\ [McpNext]_mcpVars => McpInv'
<1> SUFFICES ASSUME McpInv, [McpNext]_mcpVars PROVE McpInv'
  OBVIOUS
<1>1. ASSUME NEW k \in Session, RunOwner(k)
      PROVE  McpInv'
  BY <1>1, OwnerHolds
<1>2. ASSUME NEW c \in McpSlot,
             \/ BeginCall(c) \/ Reconnect(c) \/ Connect(c) \/ ChangeServer(c) \/ DropInstance(c)
             \/ UnsetConfig(c) \/ LookUpSession(c) \/ TakeLock(c) \/ Opened(c) \/ OpenFails(c)
             \/ Refuse(c) \/ Abandon(c) \/ Unlock(c) \/ CallTool(c) \/ AwaitClosed(c)
      PROVE  McpInv'
  BY <1>2, BeginSteps, ConnectSteps, DropSteps, UnsetSteps, LookUpSteps, TakeLockSteps,
     OpenedSteps, FailuresStep, UnlockSteps, AwaitSteps, CallStepKeepsInv
<1>3. CASE UNCHANGED mcpVars
  BY <1>3 DEF mcpVars, McpInv, McpTypes, CallHolds, InstanceHolds, Goes, NoSessionIsLost
<1> QED BY <1>1, <1>2, <1>3 DEF McpNext

\* A running session that was not told to close is the one its server's instance has
\* registered, with the instance's config, for any number of calls that open, use,
\* fail and close sessions and any number of changes of the server beside them
\* (services/mcp.py:249-344).
THEOREM SessionTheorem == McpSpec => []NoSessionIsLost
<1>1. McpInv => NoSessionIsLost
  BY DEF McpInv
<1> QED BY McpInitHolds, McpNextHolds, <1>1, PTL DEF McpSpec
=============================================================================
