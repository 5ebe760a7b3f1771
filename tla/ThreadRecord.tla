---------------------------- MODULE ThreadRecord ----------------------------
(***************************************************************************)
(* What the stores have of one thread, under the requests that rename,     *)
(* title, share, unshare and delete it (api/v1/endpoints/chat.py,          *)
(* services/share.py) while runs come and go (services/chat.py).           *)
(*                                                                         *)
(* Metadata is a row that every writer reads, edits and writes back whole, *)
(* with awaits in between and no lock.  A request is the sequence of the   *)
(* store calls it has yet to make; an action makes one of them.            *)
(***************************************************************************)
EXTENDS Naturals, Sequences

CONSTANTS
  Req,         \* the requests that may be in flight at once
  Token,       \* share tokens
  NoToken,
  NoRow,       \* the metadata row does not exist
  MaxCrashes   \* bound on restarts of the process

ASSUME NoTokenAssumption == NoToken \notin Token
ASSUME CrashAssumption == MaxCrashes \in Nat

VARIABLES
  meta,        \* ("threads", owner): the status and the share token of the row
  shares,      \* SHARE_NS: the tokens that GET /shared resolves
  rows,        \* the thread has rows in chat_messages
  ckpt,        \* the thread has a checkpoint
  todo,        \* the store calls each request has yet to make
  value,       \* the row each request has read
  run,         \* the run: "none", "starting", "active" or "ending"
  runValue,    \* the row the run has read
  minted,      \* tokens ever made
  clobbered,   \* history: a row was written that is not an edit of the row there
  crossed,     \* history: a share and the removal of a link were in flight together
  cut,         \* history: a revocation ended between its two calls
  strayed,     \* history: a run had a deletion beside it, or failed to make its row
  crashes

stores  == <<meta, shares, rows, ckpt>>
history == <<clobbered, crossed, cut, strayed>>
vars == <<stores, todo, value, run, runValue, minted, history, crashes>>

Status == {"running", "ended"}   \* a row without one does not count as running
Row    == [status : Status, token : Token \cup {NoToken}]
NewRow == [status |-> "ended", token |-> NoToken]

ASSUME NoRowAssumption == NoRow \notin Row

Step == {"write", "mint", "check", "link", "unname", "unlink", "ckpt", "rows", "read", "drop",
         "answer"}
Idle(r)   == todo[r] = <<>>
At(r, s)  == ~Idle(r) /\ Head(todo[r]) = s
Has(r, s) == \E i \in DOMAIN todo[r] : todo[r][i] = s

Sharing(r)  == Has(r, "answer")
Removing(r) == Has(r, "unlink") \/ Has(r, "drop")
Revoking(r) == Has(r, "unlink") /\ ~Has(r, "drop")

Init ==
  /\ meta = NoRow /\ shares = {} /\ rows = FALSE /\ ckpt = FALSE
  /\ todo = [r \in Req |-> <<>>]
  /\ value = [r \in Req |-> NewRow]
  /\ run = "none" /\ runValue = NewRow
  /\ minted = {}
  /\ clobbered = FALSE /\ crossed = FALSE /\ cut = FALSE /\ strayed = FALSE
  /\ crashes = 0

\* dict(item.value), or an empty one without an item.
Copy(row) == IF row = NoRow THEN NewRow ELSE row

\* store.aput of an edit of the row that was read.
Put(read, row) ==
  /\ meta' = row
  /\ clobbered' = (clobbered \/ Copy(meta) # read)

-----------------------------------------------------------------------------
(* The requests begin, with the row that they read, if they do; the owner's  *)
(* pass _assert_thread_owner.                                                *)

Begin(r, row, calls) ==
  /\ Idle(r)
  /\ todo' = [todo EXCEPT ![r] = calls]
  /\ value' = [value EXCEPT ![r] = row]
  /\ crossed' = (crossed \/ \E p, q \in Req : Sharing(p)' /\ Removing(q)')
  /\ strayed' = (strayed \/ (run # "none" /\ Has(r, "drop")'))
  /\ UNCHANGED <<stores, run, runValue, minted, clobbered, cut, crashes>>

\* PATCH /threads/{id}: 404 without a row.
Rename(r) ==
  /\ meta # NoRow
  /\ Begin(r, meta, <<"write">>)

\* POST /threads/{id}/title and /followup: 404 without messages; the model is
\* asked between the read and the write.
Title(r) ==
  /\ ckpt
  /\ Begin(r, Copy(meta), <<"write">>)

\* POST /threads/{id}/share: a token is made when the row has none.
Share(r) ==
  /\ meta # NoRow
  /\ Begin(r, meta, IF meta.token = NoToken THEN <<"mint", "check", "answer">>
                    ELSE <<"check", "answer">>)

\* DELETE /threads/{id}/share: 404 without a row or a token.
Revoke(r) ==
  /\ meta # NoRow /\ meta.token # NoToken
  /\ Begin(r, meta, <<"unname", "unlink">>)

\* A mutant of Delete: the row goes first.
DeleteRowFirst(r) ==
  /\ Begin(r, NewRow, <<"read", "drop", "unlink", "ckpt", "rows">>)

\* DELETE /threads/{id}: the token is read in a call of its own.
Delete(r) ==
  /\ Begin(r, NewRow, <<"ckpt", "rows", "read", "unlink", "drop">>)

\* DELETE /threads: nothing to do for a thread without a row.
DeleteAll(r) ==
  /\ meta # NoRow
  /\ Begin(r, meta, <<"unlink", "rows", "ckpt", "drop">>)

-----------------------------------------------------------------------------
(* The store calls of the requests. *)

\* The request goes on to its next call with the row it holds, if there is one.
Continue(r, calls, row) ==
  /\ todo' = [todo EXCEPT ![r] = calls]
  /\ value' = [value EXCEPT ![r] = IF calls = <<>> THEN NewRow ELSE row]

Done(r) == Continue(r, Tail(todo[r]), value[r])

\* The row as it was read goes back; of its new title nothing is kept here.
WriteBack(r) ==
  /\ At(r, "write")
  /\ Put(value[r], value[r])
  /\ Done(r)
  /\ UNCHANGED <<shares, rows, ckpt, run, runValue, minted, crossed, cut, strayed, crashes>>

\* create_share names a new token in the row ...
Mint(r) ==
  /\ At(r, "mint")
  /\ \E k \in Token \ minted :
       /\ minted' = minted \cup {k}
       /\ Put(value[r], [value[r] EXCEPT !.token = k])
       /\ Continue(r, Tail(todo[r]), [value[r] EXCEPT !.token = k])
  /\ UNCHANGED <<shares, rows, ckpt, run, runValue, crossed, cut, strayed, crashes>>

\* A mutant of Check: a token in the row is taken to resolve.
CheckNothing(r) ==
  /\ At(r, "check")
  /\ Done(r)
  /\ UNCHANGED <<stores, run, runValue, minted, history, crashes>>

\* ... and looks whether it resolves, which it does not when it is new or when
\* a crash came between these calls of an earlier request.
Check(r) ==
  /\ At(r, "check")
  /\ Continue(r, IF value[r].token \in shares THEN <<"answer">> ELSE <<"link", "answer">>,
              value[r])
  /\ UNCHANGED <<stores, run, runValue, minted, history, crashes>>

\* ... and makes it resolve.
Link(r) ==
  /\ At(r, "link")
  /\ shares' = shares \cup {value[r].token}
  /\ Done(r)
  /\ UNCHANGED <<meta, rows, ckpt, run, runValue, minted, history, crashes>>

Answer(r) ==
  /\ At(r, "answer")
  /\ Done(r)
  /\ UNCHANGED <<stores, run, runValue, minted, history, crashes>>

\* revoke_share removes the token from the row ...
Unname(r) ==
  /\ At(r, "unname")
  /\ Put(value[r], [value[r] EXCEPT !.token = NoToken])
  /\ Done(r)
  /\ UNCHANGED <<shares, rows, ckpt, run, runValue, minted, crossed, cut, strayed, crashes>>

\* A mutant of Unlink: the link of the token stays.
UnlinkNothing(r) ==
  /\ At(r, "unlink")
  /\ Done(r)
  /\ UNCHANGED <<stores, run, runValue, minted, history, crashes>>

\* ... and its link, as does the deletion of the thread.
Unlink(r) ==
  /\ At(r, "unlink")
  /\ shares' = shares \ {value[r].token}
  /\ Done(r)
  /\ UNCHANGED <<meta, rows, ckpt, run, runValue, minted, history, crashes>>

\* The deletion's calls: the checkpoint, the rows, the read of the token, the row.
DeleteCkpt(r) ==
  /\ At(r, "ckpt")
  /\ ckpt' = FALSE
  /\ Done(r)
  /\ UNCHANGED <<meta, shares, rows, run, runValue, minted, history, crashes>>

DeleteRows(r) ==
  /\ At(r, "rows")
  /\ rows' = FALSE
  /\ Done(r)
  /\ UNCHANGED <<meta, shares, ckpt, run, runValue, minted, history, crashes>>

ReadToken(r) ==
  /\ At(r, "read")
  /\ Continue(r, Tail(todo[r]), Copy(meta))
  /\ UNCHANGED <<stores, run, runValue, minted, history, crashes>>

\* The row is dropped, whatever it holds by now.
Drop(r) ==
  /\ At(r, "drop")
  /\ meta' = NoRow
  /\ clobbered' = (clobbered \/ Copy(meta) # value[r])
  /\ Done(r)
  /\ UNCHANGED <<shares, rows, ckpt, run, runValue, minted, crossed, cut, strayed, crashes>>

-----------------------------------------------------------------------------
(* The run and the process. *)

\* _record_thread_metadata reads the row at the start and at the end of a run ...
RunReads(from, to) ==
  /\ run = from
  /\ run' = to
  /\ runValue' = Copy(meta)
  /\ strayed' = (strayed \/ \E r \in Req : Has(r, "drop"))
  /\ UNCHANGED <<stores, todo, value, minted, clobbered, crossed, cut, crashes>>

StartRun == RunReads("none", "starting")
EndRun   == RunReads("active", "ending")

\* ... and writes it with the status.
RunWrites(from, to, status) ==
  /\ run = from
  /\ run' = to
  /\ Put(runValue, [runValue EXCEPT !.status = status])
  /\ runValue' = NewRow
  /\ UNCHANGED <<shares, rows, ckpt, todo, value, minted, crossed, cut, strayed, crashes>>

\* A mutant of RecordEnd: the status that is recorded is the notification's.
RecordEndAsDone ==
  RunWrites("ending", "none", "done")

RecordStart == RunWrites("starting", "active", "running")
RecordEnd   == RunWrites("ending", "none", "ended")

\* A failure of the store is logged, and the run goes on.
RecordFails ==
  /\ run \in {"starting", "ending"}
  /\ run' = IF run = "starting" THEN "active" ELSE "none"
  /\ runValue' = NewRow
  /\ strayed' = (strayed \/ meta = NoRow)
  /\ UNCHANGED <<stores, todo, value, minted, clobbered, crossed, cut, crashes>>

\* History rows and checkpoints are written while the run is active.
RunStores ==
  /\ run = "active"
  /\ rows' = TRUE /\ ckpt' = TRUE
  /\ UNCHANGED <<meta, shares, todo, value, run, runValue, minted, history, crashes>>

\* A store call of a request fails: the request ends with what it has done.
Fail(r) ==
  /\ ~Idle(r)
  /\ Continue(r, <<>>, NewRow)
  /\ cut' = (cut \/ Revoking(r))
  /\ UNCHANGED <<stores, run, runValue, minted, clobbered, crossed, strayed, crashes>>

\* The process dies; the next one's reconciliation ends a running status.
Crash ==
  /\ crashes < MaxCrashes
  /\ crashes' = crashes + 1
  /\ todo' = [r \in Req |-> <<>>]
  /\ value' = [r \in Req |-> NewRow]
  /\ run' = "none" /\ runValue' = NewRow
  /\ meta' = IF meta # NoRow /\ meta.status = "running"
             THEN [meta EXCEPT !.status = "ended"] ELSE meta
  /\ cut' = (cut \/ \E r \in Req : Revoking(r))
  /\ UNCHANGED <<shares, rows, ckpt, minted, clobbered, crossed, strayed>>

Next ==
  \/ \E r \in Req :
       \/ Rename(r) \/ Title(r) \/ Share(r) \/ Revoke(r) \/ Delete(r) \/ DeleteAll(r)
       \/ WriteBack(r) \/ Mint(r) \/ Check(r) \/ Link(r) \/ Answer(r) \/ Unname(r) \/ Unlink(r)
       \/ DeleteCkpt(r) \/ DeleteRows(r) \/ ReadToken(r) \/ Drop(r)
       \/ Fail(r)
  \/ StartRun \/ EndRun \/ RecordStart \/ RecordEnd \/ RecordFails \/ RunStores
  \/ Crash

Spec == Init /\ [][Next]_vars

-----------------------------------------------------------------------------
(* Properties. *)

TypeOK ==
  /\ meta \in Row \cup {NoRow}
  /\ shares \subseteq Token /\ minted \subseteq Token
  /\ rows \in BOOLEAN /\ ckpt \in BOOLEAN
  /\ todo \in [Req -> Seq(Step)]
  /\ value \in [Req -> Row]
  /\ run \in {"none", "starting", "active", "ending"}
  /\ runValue \in Row
  /\ {clobbered, crossed, cut, strayed} \subseteq BOOLEAN
  /\ crashes \in 0 .. MaxCrashes

Named(k) == meta # NoRow /\ meta.token = k

\* A public link is never left where its owner cannot see and revoke it: it is
\* in the row, or a request is about to remove it (services/share.py). Deletions
\* cut short, by a failure or a crash, keep this, for they remove the link
\* before the row. It takes an update of the row that is not lost, a share that
\* no removal crosses and a revocation that is not cut between its calls.
LinksAreNamed ==
  ~clobbered /\ ~crossed /\ ~cut =>
    \A k \in shares : Named(k) \/ \E r \in Req : value[r].token = k /\ Has(r, "unlink")

\* The link that POST /threads/{id}/share answers with resolves and is the one
\* the row names, whichever of its calls earlier requests have failed at.
AnswersResolve ==
  \A r \in Req : At(r, "answer") =>
    LET k == value[r].token IN
    crossed \/ (k \in shares /\ (clobbered \/ Named(k)))

\* History rows and a checkpoint that no row lists cannot be deleted by
\* DELETE /threads and are shown nowhere: they are gone before their row is, at
\* whichever call a deletion fails or the process dies (endpoints/chat.py), as
\* long as no run is beside the deletion.
NothingOutlivesItsRow ==
  ~strayed /\ meta = NoRow => ~rows /\ ~ckpt

\* services/share.py:5-7 "The token is stored both on the thread's metadata (so
\* the owner can see and revoke it) and under the global SHARE_NS namespace":
\* with no request in flight, a link that resolves is in the row.
LinksCanBeRevoked ==
  (\A r \in Req : Idle(r)) => \A k \in shares : Named(k)
=============================================================================
