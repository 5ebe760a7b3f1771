---------------------------- MODULE KnowledgeBase ----------------------------
(***************************************************************************)
(* The knowledge bases of one user: rows in Postgres or in memory (KbStore *)
(* of core/database.py), chunks in the vector store, and the requests that *)
(* upload, ingest, reindex and delete (api/v1/endpoints/kb.py,             *)
(* services/kb/ingest.py).                                                 *)
(*                                                                         *)
(* Rows and chunks live in two stores that no transaction spans, and every *)
(* call to either is an await: an action is one call of one request.  A    *)
(* document's id is never used again, so it stands for its immutable       *)
(* columns: base, path and the how-manieth upload of that path it is.      *)
(***************************************************************************)
EXTENDS Naturals, Sequences, FiniteSets, FiniteSetsExt

CONSTANTS
  Kb, Path,
  Size,        \* the bytes of the file at a path
  Chunks,      \* the chunks its text makes, 0 when it has no text
  Quota,       \* kb_quota_mb
  MaxBatch,    \* kb_max_upload_batch
  Slots,       \* the requests that may be in flight at once
  MaxUploads,  \* bound: uploads of one path to one base
  MaxCopies,   \* bound: chunks of one document in the vector store
  MaxRequests, \* bound: requests in all
  MaxCrashes   \* bound: restarts of the process

ASSUME KbAssumption ==
  /\ Size \in [Path -> Nat \ {0}]
  /\ Chunks \in [Path -> Nat]
  /\ {Quota, MaxBatch, MaxUploads, MaxCopies, MaxRequests, MaxCrashes} \subseteq Nat
  /\ IsFiniteSet(Slots) /\ IsFiniteSet(Kb) /\ IsFiniteSet(Path)

Doc == [kb : Kb, path : Path, nth : 1..MaxUploads]
NoDoc == [kb |-> "none", path |-> "none", nth |-> 0]

VARIABLES
  pooled,   \* KbStore has a Postgres pool; otherwise its rows are in memory
  base,     \* each base: "none", "live" or "deleted"
  row,      \* each document: "none", a status, or "deleted"
  vectors,  \* the chunks the vector store has of each document
  vs,       \* the singleton of get_vector_store: "unbuilt", "up" or "none"
  req,      \* the request in each slot
  exposed,  \* history: documents two requests worked on at once, or whose deletion
            \* stopped between the stores or found no vector store
  emptied,  \* history: documents that a reindex swept and could not ingest
  crowded,  \* history: two uploads were in flight together
  asked, crashes

history == <<exposed, emptied, crowded>>
vars == <<pooled, base, row, vectors, vs, req, history, asked, crashes>>

Status == {"pending", "processing", "ready", "failed"}
Op     == {"idle", "upload", "reindex", "delete_doc", "delete_kb"}
Call   == {"none", "file", "fetch", "sweep", "start", "ingest", "ready", "failed", "row"}
Request == [op : Op, kb : Kb \cup {"none"}, at : Call, files : Seq(Path), docs : SUBSET Doc,
            doc : Doc \cup {NoDoc}, remaining : Int]
NoRequest == [op |-> "idle", kb |-> "none", at |-> "none", files |-> <<>>, docs |-> {},
              doc |-> NoDoc, remaining |-> 0]

At(s, op, call) == req[s].op = op /\ req[s].at = call
HasRow(d)  == row[d] \in Status
RowsOf(k)  == {d \in Doc : d.kb = k /\ HasRow(d)}
Touches(s, d) == req[s].doc = d \/ (req[s].op = "delete_kb" /\ req[s].kb = d.kb)
Overlapped(d) == \E s, t \in Slots : s # t /\ Touches(s, d) /\ Touches(t, d)

\* What every step of a request does beside its own call: bookkeeping only.
Expose(D) == exposed' = exposed \cup D \cup {d \in Doc : Overlapped(d)'}
Now(s, r) == req' = [req EXCEPT ![s] = r]
Goto(s, call) == Now(s, [req[s] EXCEPT !.at = call])
Done(s)   == Now(s, NoRequest)

\* SELECT sum(size_bytes): every row of the owner, whatever its base.
BytesOf(D) == MapThenSumSet(LAMBDA d : Size[d.path], D)
TotalBytes == BytesOf({d \in Doc : HasRow(d)})

Init ==
  /\ pooled \in BOOLEAN
  /\ base = [k \in Kb |-> "none"]
  /\ row = [d \in Doc |-> "none"]
  /\ vectors = [d \in Doc |-> 0]
  /\ vs = "unbuilt"
  /\ req = [s \in Slots |-> NoRequest]
  /\ exposed = {} /\ emptied = {} /\ crowded = FALSE
  /\ asked = 0 /\ crashes = 0

-----------------------------------------------------------------------------
(* The vector store: built at first use, and a failure to build it is kept    *)
(* until reset_vector_store.                                                  *)

GetVectorStore(v) ==
  /\ v \in (IF vs = "unbuilt" THEN {"up", "none"} ELSE {vs})
  /\ vs' = v

ResetVectorStore ==
  /\ vs # "unbuilt"
  /\ vs' = "unbuilt"
  /\ UNCHANGED <<pooled, base, row, vectors, req, history, asked, crashes>>

\* store.delete_document and delete_kb: the chunks of D go; when the call raises they
\* may be there still, and the caller answers 503.
Sweep(D) == vectors' = [d \in Doc |-> IF d \in D THEN 0 ELSE vectors[d]]

-----------------------------------------------------------------------------
(* A request begins once _get_owned_kb has found its base, with the first call *)
(* that matters after it.                                                     *)

CreateKb(k) ==
  /\ base[k] = "none"
  /\ base' = [base EXCEPT ![k] = "live"]
  /\ UNCHANGED <<pooled, row, vectors, vs, req, history, asked, crashes>>

Asked(s, k) ==
  /\ req[s].op = "idle" /\ base[k] = "live"
  /\ asked < MaxRequests /\ asked' = asked + 1

\* upload_files, and upload_zip once extract_zip_entries has found no bad entry.  The
\* files are the fit ones: a path, type or size that is refused stores nothing.  The
\* quota is read here and not again.
Upload(s, k) ==
  /\ Asked(s, k)
  /\ \E n \in 1..MaxBatch : \E files \in [1..n -> Path] :
       Now(s, [NoRequest EXCEPT !.op = "upload", !.kb = k, !.at = "file", !.files = files,
                                !.remaining = Quota - TotalBytes])
  /\ crowded' = (crowded \/ \E t \in Slots \ {s} : req[t].op = "upload")
  /\ Expose({})
  /\ UNCHANGED <<pooled, base, row, vectors, vs, emptied, crashes>>

\* reindex_kb lists the documents once; without a vector store it is a 503.
ReindexKb(s, k) ==
  /\ Asked(s, k)
  /\ GetVectorStore("up")
  /\ Now(s, [NoRequest EXCEPT !.op = "reindex", !.kb = k, !.at = "fetch", !.docs = RowsOf(k)])
  /\ Expose({})
  /\ UNCHANGED <<pooled, base, row, vectors, emptied, crowded, crashes>>

\* A mutant of SweepFirst: the vectors are left to the end, which never comes.
SweepNever(s, r, D) ==
  /\ Now(s, r) /\ UNCHANGED <<vectors, vs>> /\ Expose({})

\* The vectors go before the rows; a failure is a 503 with the rows still there.
\* Without a vector store there is nothing to call.
SweepFirst(s, r, D) ==
  \/ /\ GetVectorStore("up") /\ Sweep(D)
     /\ Now(s, r) /\ Expose({})
  \/ /\ GetVectorStore("up") /\ (Sweep(D) \/ UNCHANGED vectors)
     /\ UNCHANGED req /\ Expose(D)
  \/ /\ GetVectorStore("none") /\ UNCHANGED vectors
     /\ Now(s, r) /\ Expose(D)

\* The document of the URL need not be in the base of the URL.
DeleteDocument(s, k) == \E d \in Doc :
  /\ row[d] # "none"
  /\ Asked(s, k)
  /\ SweepFirst(s, [NoRequest EXCEPT !.op = "delete_doc", !.kb = k, !.at = "row", !.doc = d], {d})
  /\ UNCHANGED <<pooled, base, row, emptied, crowded, crashes>>

DeleteKb(s, k) ==
  /\ Asked(s, k)
  /\ SweepFirst(s, [NoRequest EXCEPT !.op = "delete_kb", !.kb = k, !.at = "row"],
                {d \in Doc : d.kb = k})
  /\ UNCHANGED <<pooled, base, row, emptied, crowded, crashes>>

-----------------------------------------------------------------------------
(* upload_files and upload_zip, file by file.                                 *)

NextFile(s) == [req[s] EXCEPT !.files = Tail(@)]

\* No row: the file is beyond the quota, or add_document found a conflict (Postgres:
\* with the base's own paths; in memory: with any path, or there is no base).
Conflict(k, p) ==
  \/ \E d \in Doc : d.path = p /\ HasRow(d) /\ (d.kb = k \/ ~pooled)
  \/ ~pooled /\ base[k] # "live"
Turned(s, p) == Size[p] > req[s].remaining \/ Conflict(req[s].kb, p)

SkipFile(s) ==
  /\ At(s, "upload", "file") /\ req[s].files # <<>>
  /\ Turned(s, Head(req[s].files))
  /\ Now(s, NextFile(s))
  /\ Expose({})
  /\ UNCHANGED <<pooled, base, row, vectors, vs, emptied, crowded, asked, crashes>>

\* A mutant of StoreFile: the bytes stored are not taken off what remains.
StoreFileUncounted(s) ==
  /\ At(s, "upload", "file") /\ req[s].files # <<>>
  /\ LET p == Head(req[s].files) IN
     /\ ~Turned(s, p) /\ base[req[s].kb] = "live"
     /\ \E d \in Doc :
          /\ d.kb = req[s].kb /\ d.path = p /\ row[d] = "none"
          /\ row' = [row EXCEPT ![d] = "pending"]
          /\ Now(s, [NextFile(s) EXCEPT !.at = "start", !.doc = d])
  /\ Expose({})
  /\ UNCHANGED <<pooled, base, vectors, vs, emptied, crowded, asked, crashes>>

\* INSERT ... status 'pending'.
StoreFile(s) ==
  /\ At(s, "upload", "file") /\ req[s].files # <<>>
  /\ LET p == Head(req[s].files) IN
     /\ ~Turned(s, p) /\ base[req[s].kb] = "live"
     /\ \E d \in Doc :
          /\ d.kb = req[s].kb /\ d.path = p /\ row[d] = "none"
          /\ row' = [row EXCEPT ![d] = "pending"]
          /\ Now(s, [NextFile(s) EXCEPT !.at = "start", !.doc = d, !.remaining = @ - Size[p]])
  /\ Expose({})
  /\ UNCHANGED <<pooled, base, vectors, vs, emptied, crowded, asked, crashes>>

\* The base has gone: the foreign key refuses the row and the request is a 500.
\* Or there is no file left.
EndUpload(s) ==
  /\ At(s, "upload", "file")
  /\ \/ req[s].files = <<>>
     \/ /\ req[s].files # <<>> /\ ~Turned(s, Head(req[s].files))
        /\ base[req[s].kb] # "live"
  /\ Done(s)
  /\ Expose({})
  /\ UNCHANGED <<pooled, base, row, vectors, vs, emptied, crowded, asked, crashes>>

-----------------------------------------------------------------------------
(* ingest_document, for the document of an upload or of a reindex.            *)

Loop(s)    == IF req[s].op = "upload" THEN "file" ELSE "fetch"
LeaveDoc(s) == Now(s, [req[s] EXCEPT !.at = Loop(s), !.doc = NoDoc])

\* UPDATE kb_documents ... WHERE id: nothing happens when the row has gone.
SetStatus(d, st) == row' = IF HasRow(d) THEN [row EXCEPT ![d] = st] ELSE row

\* A reindex brings its own vector store, and under Postgres a row without the
\* "owner" that ingest_document reads before its try.
StartIngest(s) ==
  /\ req[s].at = "start"
  /\ LET d == req[s].doc  reindex == req[s].op = "reindex" IN
     \/ /\ reindex /\ pooled
        /\ emptied' = emptied \cup {d}
        /\ LeaveDoc(s)
        /\ UNCHANGED <<row, vs>>
     \/ /\ ~reindex /\ GetVectorStore("none")
        /\ LeaveDoc(s)
        /\ UNCHANGED <<row, emptied>>
     \/ /\ IF reindex THEN ~pooled /\ UNCHANGED vs ELSE GetVectorStore("up")
        /\ SetStatus(d, "processing")
        /\ Goto(s, "ingest")
        /\ UNCHANGED emptied
  /\ Expose({})
  /\ UNCHANGED <<pooled, base, vectors, crowded, asked, crashes>>

\* parse, chunk, upsert: all the chunks, or an exception with some of them stored.
Ingest(s) ==
  /\ req[s].at = "ingest"
  /\ LET d == req[s].doc  all == Chunks[req[s].doc.path] IN
     \/ /\ all > 0 /\ vectors[d] + all <= MaxCopies
        /\ vectors' = [vectors EXCEPT ![d] = @ + all]
        /\ Goto(s, "ready")
     \/ \E n \in 0..all :
          /\ vectors[d] + n <= MaxCopies
          /\ vectors' = [vectors EXCEPT ![d] = @ + n]
          /\ Goto(s, "failed")
  /\ Expose({})
  /\ UNCHANGED <<pooled, base, row, vs, emptied, crowded, asked, crashes>>

\* A mutant of Settle: a failed ingest leaves the status alone.
SettleReadyOnly(s) ==
  /\ req[s].at \in {"ready", "failed"}
  /\ IF req[s].at = "ready" THEN SetStatus(req[s].doc, "ready") ELSE UNCHANGED row
  /\ LeaveDoc(s)
  /\ Expose({})
  /\ UNCHANGED <<pooled, base, vectors, vs, emptied, crowded, asked, crashes>>

\* The last update: `ready` with the count, or `failed` with the error.
Settle(s) ==
  /\ req[s].at \in {"ready", "failed"}
  /\ SetStatus(req[s].doc, req[s].at)
  /\ LeaveDoc(s)
  /\ Expose({})
  /\ UNCHANGED <<pooled, base, vectors, vs, emptied, crowded, asked, crashes>>

-----------------------------------------------------------------------------
(* reindex_kb: each document of the list is fetched, swept and ingested.      *)

\* get_document_content: a row that has gone meanwhile is skipped.
FetchDocument(s) ==
  /\ At(s, "reindex", "fetch")
  /\ \/ /\ req[s].docs = {}
        /\ Done(s)
     \/ \E d \in req[s].docs :
          Now(s, [req[s] EXCEPT !.docs = @ \ {d}, !.at = IF HasRow(d) THEN "sweep" ELSE "fetch",
                                !.doc = IF HasRow(d) THEN d ELSE NoDoc])
  /\ Expose({})
  /\ UNCHANGED <<pooled, base, row, vectors, vs, emptied, crowded, asked, crashes>>

\* A mutant of SweepDocument: the old vectors are not dropped first.
SweepNothing(s) ==
  /\ At(s, "reindex", "sweep")
  /\ Goto(s, "start")
  /\ Expose({})
  /\ UNCHANGED <<pooled, base, row, vectors, vs, emptied, crowded, asked, crashes>>

\* A failure here is the end of the whole reindex.
SweepDocument(s) ==
  /\ At(s, "reindex", "sweep")
  /\ \/ Sweep({req[s].doc}) /\ Goto(s, "start") /\ Expose({})
     \/ /\ Sweep({req[s].doc}) \/ UNCHANGED vectors
        /\ Done(s) /\ Expose({req[s].doc})
  /\ UNCHANGED <<pooled, base, row, vs, emptied, crowded, asked, crashes>>

-----------------------------------------------------------------------------
(* delete_document and delete_kb, once the vectors are gone: the rows.         *)

Target(s) == IF req[s].op = "delete_kb" THEN {d \in Doc : d.kb = req[s].kb} ELSE {req[s].doc}

\* Postgres cascades to the documents, the dicts do not.
DeleteRow(s) ==
  /\ req[s].at = "row"
  /\ LET whole == req[s].op = "delete_kb"
         gone  == {d \in Target(s) : HasRow(d) /\ (pooled \/ ~whole)} IN
     /\ row' = [d \in Doc |-> IF d \in gone THEN "deleted" ELSE row[d]]
     /\ base' = IF whole THEN [base EXCEPT ![req[s].kb] = "deleted"] ELSE base
  /\ Done(s)
  /\ Expose({})
  /\ UNCHANGED <<pooled, vectors, vs, emptied, crowded, asked, crashes>>

-----------------------------------------------------------------------------
\* The process dies under Postgres: requests are lost where they stand and no one
\* looks at their rows again.  (In-memory rows would be lost with them.)
Crash ==
  /\ pooled /\ crashes < MaxCrashes /\ crashes' = crashes + 1
  /\ exposed' = exposed \cup {d \in Doc : \E s \in Slots : Touches(s, d)}
  /\ req' = [s \in Slots |-> NoRequest]
  /\ vs' = "unbuilt"
  /\ UNCHANGED <<pooled, base, row, vectors, emptied, crowded, asked>>

Step(s) ==
  \/ SkipFile(s) \/ StoreFile(s) \/ EndUpload(s)
  \/ StartIngest(s) \/ Ingest(s) \/ Settle(s)
  \/ FetchDocument(s) \/ SweepDocument(s)
  \/ DeleteRow(s)

Next ==
  \/ ResetVectorStore \/ Crash
  \/ \E k \in Kb : CreateKb(k)
  \/ \E s \in Slots, k \in Kb :
       \/ Upload(s, k) \/ ReindexKb(s, k)
       \/ DeleteDocument(s, k) \/ DeleteKb(s, k)
  \/ \E s \in Slots : Step(s)

Spec == Init /\ [][Next]_vars

-----------------------------------------------------------------------------
TypeOK ==
  /\ pooled \in BOOLEAN
  /\ base \in [Kb -> {"none", "live", "deleted"}]
  /\ row \in [Doc -> Status \cup {"none", "deleted"}]
  /\ vectors \in [Doc -> 0..MaxCopies]
  /\ vs \in {"unbuilt", "up", "none"}
  /\ req \in [Slots -> Request]
  /\ exposed \subseteq Doc /\ emptied \subseteq Doc /\ crowded \in BOOLEAN
  /\ asked \in 0..MaxRequests /\ crashes \in 0..MaxCrashes

Worked(d) == \E s \in Slots : Touches(s, d)

\* A chunk that search can return is a chunk of a document that has a row.
\* delete_document and delete_kb remove the vectors before the row
\* (endpoints/kb.py:342, 147), and only an ingest or a crash beside them, or a
\* missing vector store, can leave chunks behind.
NoOrphanVectors == \A d \in Doc : vectors[d] > 0 => HasRow(d) \/ d \in exposed

\* A document that says `ready` is in the vector store once, whole: what an
\* upload, a failed upload and any number of reindexes leave behind
\* (ingest.py:43-73, 88), apart from a reindex of Postgres rows.
ReadyMeansIndexed == \A d \in Doc :
  row[d] = "ready" /\ base[d.kb] = "live" /\ ~Worked(d) /\ d \notin exposed \cup emptied
    => vectors[d] = Chunks[d.path]

\* The quota is checked against a figure read before the loop
\* (endpoints/kb.py:186, 267): uploads in flight together can each spend it once,
\* no sequence of uploads and deletions takes more than that, and an upload by
\* itself, however many files it has, takes no more than what was left.
QuotaOvershootIsBounded ==
  TotalBytes <= IF crowded THEN Quota * Cardinality(Slots) ELSE Quota

\* A document does not stay `processing` unless the process died: a request is at
\* work on it that will settle it, since ingest.py's except clause settles whatever
\* its try started (ingest.py:43-73).  Nobody looks at it later.
ProcessingIsWorkedOn == \A d \in Doc : row[d] = "processing" =>
  \/ \E s \in Slots : req[s].doc = d /\ req[s].at \in {"ingest", "ready", "failed"}
  \/ crashes > 0

\* "Re-parse + re-embed every document" (ingest.py:77), after which a document
\* that is `ready` can be found (tests/test_kb.py:368).
ReindexKeepsDocuments == \A d \in Doc :
  row[d] = "ready" /\ base[d.kb] = "live" /\ ~Worked(d) /\ d \notin exposed => vectors[d] > 0
=============================================================================
