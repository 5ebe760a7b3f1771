-------------------------- MODULE KnowledgeBase_proofs --------------------------
(***************************************************************************)
(* NoOrphanVectors, ReadyMeansIndexed, ProcessingIsWorkedOn and            *)
(* QuotaOvershootIsBounded for any bases, paths, sizes, requests in flight *)
(* and crashes.                                                            *)
(*                                                                         *)
(* The argument: a document that is not exposed is touched by at most one  *)
(* request, so what that request knows of it at each of its calls          *)
(* (SlotKnows) is not disturbed by the others; and what a request knows    *)
(* at its last call about the document is what must hold of it when        *)
(* nobody works on it (DocHolds).                                          *)
(*                                                                         *)
(* The quota is an argument about sums: what is stored and what each slot  *)
(* may still store together stay within one quota a slot (QuotaInv).  The  *)
(* code's sum is a fold over a set, so the module first shows what sums    *)
(* over finite sets do, by the smallest set that would be an exception.    *)
(***************************************************************************)
EXTENDS KnowledgeBase, FiniteSetTheorems, WellFoundedInduction, TLAPS

Working == {"sweep", "start", "ingest", "ready", "failed"}

Fits(r) ==
  r \in [op : Op, kb : Kb \cup {"none"}, at : Call, files : Seq(Path), docs : SUBSET Doc,
         doc : Doc \cup {NoDoc}, remaining : {r.remaining}]

\* Where each kind of request can stand, and when it has a document.
WellFormed(s) ==
  /\ req[s].op = "idle" => req[s].at = "none"
  /\ req[s].op = "upload" => req[s].at \in {"file", "start", "ingest", "ready", "failed"}
  /\ req[s].op = "reindex" => req[s].at \in {"fetch"} \cup Working
  /\ req[s].op \in {"delete_doc", "delete_kb"} => req[s].at = "row"
  /\ req[s].at \in Working \/ req[s].op = "delete_doc" => req[s].doc \in Doc
  /\ req[s].at \in {"none", "file", "fetch"} \/ req[s].op = "delete_kb" => req[s].doc = NoDoc

Shape ==
  /\ base \in [Kb -> {"none", "live", "deleted"}]
  /\ row \in [Doc -> Status \cup {"none", "deleted"}]
  /\ vectors \in [Doc -> Nat]
  /\ exposed \subseteq Doc /\ emptied \subseteq Doc
  /\ crashes \in Nat
  /\ req = [s \in Slots |-> req[s]]
  /\ \A s \in Slots : Fits(req[s]) /\ WellFormed(s)

\* Two requests on one document expose it.
OverlapExposes == \A d \in Doc : Overlapped(d) => d \in exposed

\* What the request in a slot knows of its documents.
SlotKnows(s) ==
  /\ req[s].at \in Working /\ req[s].doc \notin exposed =>
       /\ HasRow(req[s].doc)
       /\ req[s].at \in {"start", "ingest"} => vectors[req[s].doc] = 0
       /\ req[s].at = "ready" => vectors[req[s].doc] = Chunks[req[s].doc.path]
       /\ req[s].at = "start" /\ req[s].op = "upload" => row[req[s].doc] # "ready"
  /\ req[s].at = "row" => \A d \in Target(s) \ exposed : vectors[d] = 0

\* What holds of a document.
DocHolds(d) ==
  d \notin exposed =>
    /\ vectors[d] > 0 => HasRow(d)
    /\ row[d] = "ready" /\ base[d.kb] # "deleted" /\ ~Worked(d) /\ d \notin emptied
         => vectors[d] = Chunks[d.path]

KbInv ==
  /\ Shape
  /\ OverlapExposes
  /\ \A s \in Slots : SlotKnows(s)
  /\ \A d \in Doc : DocHolds(d)
  /\ ProcessingIsWorkedOn

\* A step of the request in slot s: what it leaves alone, what it knows after it, and
\* what becomes of the documents it leaves.
StepOf(s) ==
  /\ base' \in [Kb -> {"none", "live", "deleted"}]
  /\ row' \in [Doc -> Status \cup {"none", "deleted"}]
  /\ vectors' \in [Doc -> Nat]
  /\ exposed' \subseteq Doc /\ emptied' \subseteq Doc
  /\ crashes' = crashes
  /\ req' = [req EXCEPT ![s] = req'[s]]
  /\ Fits(req'[s]) /\ WellFormed(s)'
  /\ exposed \subseteq exposed' /\ emptied \subseteq emptied'
  /\ \A k \in Kb : base'[k] \in {base[k], "deleted"}
  /\ \A d \in Doc : Overlapped(d)' => d \in exposed'
  /\ \A d \in Doc : ~Touches(s, d) /\ ~Touches(s, d)' /\ d \notin exposed'
       => row'[d] = row[d] /\ vectors'[d] = vectors[d]
  /\ SlotKnows(s)'
  /\ \A d \in Doc : Touches(s, d) /\ ~Touches(s, d)' => DocHolds(d)'
  /\ \A d \in Doc : row'[d] = "processing" =>
       \/ req'[s].doc = d /\ req'[s].at \in {"ingest", "ready", "failed"}
       \/ /\ row[d] = "processing"
          /\ req[s].doc = d => req[s].at \notin {"ingest", "ready", "failed"}

-----------------------------------------------------------------------------
\* NoDoc is no document: uploads are counted from 1.
LEMMA NoDocIsNone == NoDoc \notin Doc
BY DEF NoDoc, Doc

\* The documents of a request are those it touches, and no other.
LEMMA TargetsAreTouched ==
  ASSUME Shape, NEW s \in Slots, req[s].at = "row", NEW d \in Doc
  PROVE  d \in Target(s) <=> Touches(s, d)
BY NoDocIsNone DEF Shape, Fits, WellFormed, Target, Touches, Op, Working

\* What a step of one request leaves: the other requests keep what they know, since
\* a document of theirs that it touched would be exposed.
LEMMA StepKeepsInv ==
  ASSUME KbInv, NEW s \in Slots, StepOf(s)
  PROVE  KbInv'
<1>1. \A t \in Slots : t # s => req'[t] = req[t]
  BY DEF StepOf, KbInv, Shape
<1>2. \A t \in Slots, d \in Doc : t # s => (Touches(t, d)' <=> Touches(t, d))
  BY <1>1 DEF Touches
<1>3. Shape'
  <2>1. \A t \in Slots : t # s => Fits(req'[t]) /\ WellFormed(t)'
    BY <1>1 DEF KbInv, Shape, WellFormed
  <2>2. req' = [t \in Slots |-> req'[t]]
    BY DEF StepOf, KbInv, Shape
  <2> QED BY <2>1, <2>2 DEF StepOf, KbInv, Shape, Fits
<1>4. OverlapExposes'
  BY DEF StepOf, OverlapExposes
<1>5. ASSUME NEW t \in Slots, t # s, NEW d \in Doc, Touches(t, d), d \notin exposed'
      PROVE  row'[d] = row[d] /\ vectors'[d] = vectors[d] /\ d \notin exposed
  <2>1. d \notin exposed
    BY <1>5 DEF StepOf
  <2>2. ~Touches(s, d)
    BY <1>5, <2>1 DEF KbInv, OverlapExposes, Overlapped
  <2>3. ~Overlapped(d)'
    BY <1>5 DEF StepOf
  <2>4. ~Touches(s, d)'
    BY <1>2, <1>5, <2>3 DEF Overlapped
  <2> QED BY <1>5, <2>1, <2>2, <2>4 DEF StepOf
<1>6. ASSUME NEW t \in Slots, t # s
      PROVE  SlotKnows(t)'
  <2>1. SlotKnows(t) /\ Fits(req[t]) /\ WellFormed(t)
    BY DEF KbInv, Shape
  <2>2. ASSUME req'[t].at \in Working, req'[t].doc \notin exposed'
        PROVE  /\ HasRow(req[t].doc)'
               /\ req[t].at \in {"start", "ingest"} => vectors'[req[t].doc] = 0
               /\ req[t].at = "ready" => vectors'[req[t].doc] = Chunks[req[t].doc.path]
               /\ req[t].at = "start" /\ req[t].op = "upload" => row'[req[t].doc] # "ready"
    <3>1. req[t].at \in Working /\ req[t].doc \in Doc /\ req[t].doc \notin exposed'
      BY <1>1, <1>6, <2>1, <2>2 DEF WellFormed
    <3>2. Touches(t, req[t].doc)
      BY DEF Touches
    <3>3. /\ row'[req[t].doc] = row[req[t].doc] /\ vectors'[req[t].doc] = vectors[req[t].doc]
          /\ req[t].doc \notin exposed
      BY <1>5, <1>6, <3>1, <3>2
    <3>4. req'[t] = req[t]
      BY <1>1, <1>6
    <3> QED BY <2>1, <3>1, <3>3, <3>4 DEF SlotKnows, HasRow
  <2>3. ASSUME req'[t].at = "row", NEW d \in Target(t)', d \notin exposed'
        PROVE  vectors'[d] = 0
    <3>1. req'[t] = req[t]
      BY <1>1, <1>6
    <3>2. d \in Target(t) /\ req[t].at = "row"
      BY <2>3, <3>1 DEF Target
    <3>3. d \in Doc
      BY <2>1, <3>2 DEF Target, Fits, WellFormed, Op, Working
    <3>4. Touches(t, d)
      BY <3>2, <3>3, TargetsAreTouched DEF KbInv
    <3> QED BY <1>5, <1>6, <2>1, <2>3, <3>2, <3>3, <3>4 DEF SlotKnows
  <2>4. req'[t] = req[t]
    BY <1>1, <1>6
  <2> QED BY <2>2, <2>3, <2>4 DEF SlotKnows
<1>7. SlotKnows(s)'
  BY DEF StepOf
<1>8. ASSUME NEW d \in Doc
      PROVE  DocHolds(d)'
  <2>1. CASE Touches(s, d) /\ ~Touches(s, d)'
    BY <2>1 DEF StepOf
  <2>2. CASE Touches(s, d)'
    <3>1. Worked(d)'
      BY <2>2 DEF Worked
    <3>2. Fits(req'[s]) /\ WellFormed(s)'
      BY DEF StepOf
    <3>3. (req'[s].at \in Working /\ req'[s].doc = d) \/ req'[s].at = "row"
      BY <2>2, <3>2, NoDocIsNone DEF Touches, Fits, WellFormed, Op, Working
    <3>4. req'[s].at = "row" => d \in Target(s)'
      BY <2>2, <3>2, NoDocIsNone DEF Touches, Fits, WellFormed, Target, Op, Working
    <3>5. vectors'[d] \in Nat
      BY DEF StepOf
    <3> QED BY <1>7, <3>1, <3>3, <3>4, <3>5 DEF SlotKnows, DocHolds
  <2>3. CASE ~Touches(s, d) /\ ~Touches(s, d)'
    <3>1. Worked(d) <=> Worked(d)'
      BY <1>2, <2>3 DEF Worked
    <3>2. d.kb \in Kb
      BY DEF Doc
    <3>3. base'[d.kb] # "deleted" => base[d.kb] # "deleted"
      BY <3>2 DEF StepOf
    <3>4. DocHolds(d)
      BY DEF KbInv
    <3> QED BY <2>3, <3>1, <3>3, <3>4 DEF StepOf, DocHolds, HasRow
  <2> QED BY <2>1, <2>2, <2>3
<1>9. ProcessingIsWorkedOn'
  <2> SUFFICES ASSUME NEW d \in Doc, row'[d] = "processing", ~(crashes' > 0)
               PROVE  \E t \in Slots : req'[t].doc = d /\ req'[t].at \in {"ingest", "ready", "failed"}
    BY DEF ProcessingIsWorkedOn
  <2>1. CASE req'[s].doc = d /\ req'[s].at \in {"ingest", "ready", "failed"}
    BY <2>1
  <2>2. CASE /\ row[d] = "processing"
             /\ req[s].doc = d => req[s].at \notin {"ingest", "ready", "failed"}
    <3>1. ~(crashes > 0)
      BY DEF StepOf
    <3>2. PICK t \in Slots : req[t].doc = d /\ req[t].at \in {"ingest", "ready", "failed"}
      BY <2>2, <3>1 DEF KbInv, ProcessingIsWorkedOn
    <3> QED BY <1>1, <2>2, <3>2
  <2> QED BY <2>1, <2>2 DEF StepOf
<1> QED BY <1>3, <1>4, <1>6, <1>7, <1>8, <1>9 DEF KbInv

-----------------------------------------------------------------------------
\* Replacing the request in a slot changes the request in that slot.
LEMMA NowSets ==
  ASSUME Shape, NEW s \in Slots, NEW r, Now(s, r)
  PROVE  req'[s] = r /\ req' = [req EXCEPT ![s] = req'[s]]
BY DEF Now, Shape

\* An exposed document stays one, and requests on one document expose it.
LEMMA ExposeGrows ==
  ASSUME Shape, NEW D \in SUBSET Doc, Expose(D)
  PROVE  /\ exposed \subseteq exposed' /\ exposed' \subseteq Doc /\ D \subseteq exposed'
         /\ \A d \in Doc : Overlapped(d)' => d \in exposed'
BY DEF Expose, Shape

\* A request that has no document yet fits, wherever its first call is.
LEMMA NoRequestFits ==
  /\ NoRequest \in [op : Op, kb : Kb \cup {"none"}, at : Call, files : Seq(Path),
                    docs : SUBSET Doc, doc : Doc \cup {NoDoc}, remaining : {0}]
  /\ NoRequest.doc = NoDoc /\ NoRequest.at = "none" /\ NoRequest.op = "idle"
BY DEF NoRequest, Op, Call

\* An upload begins: it has no document.
LEMMA UploadSteps ==
  ASSUME KbInv, NEW s \in Slots, NEW k \in Kb, Upload(s, k)
  PROVE  StepOf(s)
<1>0. PICK n \in 1..MaxBatch : \E files \in [1..n -> Path] :
        Now(s, [NoRequest EXCEPT !.op = "upload", !.kb = k, !.at = "file", !.files = files,
                                 !.remaining = Quota - TotalBytes])
  BY DEF Upload
<1>1. PICK files \in [1..n -> Path] :
        Now(s, [NoRequest EXCEPT !.op = "upload", !.kb = k, !.at = "file", !.files = files,
                                 !.remaining = Quota - TotalBytes])
  BY <1>0
<1> DEFINE r == [NoRequest EXCEPT !.op = "upload", !.kb = k, !.at = "file", !.files = files,
                                  !.remaining = Quota - TotalBytes]
<1>2. req'[s] = r /\ req' = [req EXCEPT ![s] = req'[s]]
  BY <1>1, NowSets DEF KbInv
<1>4. files \in Seq(Path)
  BY KbAssumption
<1>3. /\ r.op = "upload" /\ r.at = "file" /\ r.doc = NoDoc
      /\ Fits(r)
  BY <1>4, NoRequestFits DEF Fits, Op, Call
<1> HIDE DEF r
<1>5. Fits(req'[s]) /\ WellFormed(s)'
  BY <1>2, <1>3 DEF WellFormed, Working
<1>6. /\ exposed \subseteq exposed' /\ exposed' \subseteq Doc
      /\ \A d \in Doc : Overlapped(d)' => d \in exposed'
  BY ExposeGrows DEF Upload, KbInv
<1>7. req[s].op = "idle" /\ req[s].at = "none" /\ req[s].doc = NoDoc
  BY DEF Upload, Asked, KbInv, Shape, WellFormed
<1>8. \A d \in Doc : ~Touches(s, d)
  BY <1>7, NoDocIsNone DEF Touches
<1>9. SlotKnows(s)'
  BY <1>2, <1>3 DEF SlotKnows, Working
<1> QED BY <1>2, <1>5, <1>6, <1>7, <1>8, <1>9 DEF Upload, StepOf, KbInv, Shape

\* A reindex begins: it has no document.
LEMMA ReindexSteps ==
  ASSUME KbInv, NEW s \in Slots, NEW k \in Kb, ReindexKb(s, k)
  PROVE  StepOf(s)
<1> DEFINE r == [NoRequest EXCEPT !.op = "reindex", !.kb = k, !.at = "fetch", !.docs = RowsOf(k)]
<1>2. req'[s] = r /\ req' = [req EXCEPT ![s] = req'[s]]
  BY NowSets DEF KbInv, ReindexKb
<1>3. /\ r.op = "reindex" /\ r.at = "fetch" /\ r.doc = NoDoc
      /\ Fits(r)
  BY NoRequestFits DEF Fits, Op, Call, RowsOf
<1> HIDE DEF r
<1>5. Fits(req'[s]) /\ WellFormed(s)'
  BY <1>2, <1>3 DEF WellFormed, Working
<1>6. /\ exposed \subseteq exposed' /\ exposed' \subseteq Doc
      /\ \A d \in Doc : Overlapped(d)' => d \in exposed'
  BY ExposeGrows DEF ReindexKb, KbInv
<1>7. req[s].op = "idle" /\ req[s].at = "none" /\ req[s].doc = NoDoc
  BY DEF ReindexKb, Asked, KbInv, Shape, WellFormed
<1>8. \A d \in Doc : ~Touches(s, d)
  BY <1>7, NoDocIsNone DEF Touches
<1>9. SlotKnows(s)'
  BY <1>2, <1>3 DEF SlotKnows, Working
<1> QED BY <1>2, <1>5, <1>6, <1>7, <1>8, <1>9 DEF ReindexKb, StepOf, KbInv, Shape

\* A deletion begins with the sweep of its documents, D: they are in no store any
\* more, or they are exposed.
LEMMA SweepFirstSteps ==
  ASSUME KbInv, NEW s \in Slots, NEW k \in Kb, NEW D \in SUBSET Doc, NEW r,
         req[s].op = "idle", SweepFirst(s, r, D),
         UNCHANGED <<base, row, emptied, crashes>>,
         Fits(r), r.at = "row",
         \/ r.op = "delete_doc" /\ r.doc \in Doc /\ D = {r.doc}
         \/ r.op = "delete_kb" /\ r.doc = NoDoc /\ D = {d \in Doc : d.kb = r.kb}
  PROVE  StepOf(s)
<1>1. /\ exposed \subseteq exposed' /\ exposed' \subseteq Doc
      /\ \A d \in Doc : Overlapped(d)' => d \in exposed'
  BY ExposeGrows DEF SweepFirst, KbInv
<1>2. \A d \in Doc : ~Touches(s, d)
  BY NoDocIsNone DEF Touches, KbInv, Shape, WellFormed
<1>3. req[s].at \notin {"ingest", "ready", "failed"}
  BY DEF KbInv, Shape, WellFormed
<1>4. CASE Now(s, r)
  <2>1. req'[s] = r /\ req' = [req EXCEPT ![s] = req'[s]]
    BY <1>4, NowSets DEF KbInv
  <2>2. WellFormed(s)'
    BY <2>1 DEF WellFormed, Working
  <2>3. \A d \in Doc : Touches(s, d)' <=> d \in D
    BY <2>1, NoDocIsNone DEF Touches
  <2>4. Target(s)' = D
    BY <2>1 DEF Target
  <2>5. \/ Sweep(D)
        \/ UNCHANGED vectors /\ D \subseteq exposed'
    BY <1>4, ExposeGrows DEF SweepFirst, KbInv
  <2>6. /\ vectors' \in [Doc -> Nat]
        /\ \A d \in D : d \in exposed' \/ vectors'[d] = 0
        /\ \A d \in Doc : d \notin D => vectors'[d] = vectors[d]
    BY <2>5 DEF Sweep, KbInv, Shape
  <2>7. SlotKnows(s)'
    BY <2>1, <2>4, <2>6 DEF SlotKnows, Working
  <2> QED BY <1>1, <1>2, <1>3, <2>1, <2>2, <2>3, <2>6, <2>7 DEF StepOf, KbInv, Shape
<1>5. CASE UNCHANGED req
  <2>1. req' = [req EXCEPT ![s] = req'[s]]
    BY <1>5 DEF KbInv, Shape
  <2>2. Fits(req'[s]) /\ WellFormed(s)'
    BY <1>5 DEF KbInv, Shape, WellFormed
  <2>3. \A d \in Doc : ~Touches(s, d)'
    BY <1>2, <1>5 DEF Touches
  <2>4. SlotKnows(s)'
    BY <1>5 DEF KbInv, Shape, WellFormed, SlotKnows, Working
  <2>5. Sweep(D) \/ UNCHANGED vectors
    BY DEF SweepFirst
  <2>6. D \subseteq exposed' \/ Now(s, r)
    BY ExposeGrows DEF SweepFirst, KbInv
  <2>7. ~Now(s, r)
    <3>1. r.op # "idle"
      OBVIOUS
    <3> QED BY <1>5, <3>1, NowSets DEF KbInv
  <2>8. /\ vectors' \in [Doc -> Nat]
        /\ \A d \in Doc : d \notin exposed' => vectors'[d] = vectors[d]
    BY <2>5, <2>6, <2>7 DEF Sweep, KbInv, Shape
  <2> QED BY <1>1, <1>2, <1>3, <2>1, <2>2, <2>3, <2>4, <2>8 DEF StepOf, KbInv, Shape
<1> QED BY <1>4, <1>5 DEF SweepFirst

\* The two deletions.
LEMMA DeletionsStep ==
  ASSUME KbInv, NEW s \in Slots, NEW k \in Kb, DeleteDocument(s, k) \/ DeleteKb(s, k)
  PROVE  StepOf(s)
<1>1. CASE DeleteDocument(s, k)
  <2>1. PICK d \in Doc :
          /\ Asked(s, k)
          /\ SweepFirst(s, [NoRequest EXCEPT !.op = "delete_doc", !.kb = k, !.at = "row", !.doc = d],
                        {d})
    BY <1>1 DEF DeleteDocument
  <2> DEFINE r == [NoRequest EXCEPT !.op = "delete_doc", !.kb = k, !.at = "row", !.doc = d]
  <2>3. SweepFirst(s, r, {d}) /\ req[s].op = "idle"
    BY <2>1 DEF Asked
  <2>4. Fits(r) /\ r.at = "row" /\ r.op = "delete_doc" /\ r.doc = d
    BY NoRequestFits DEF Fits, Op, Call
  <2> HIDE DEF r
  <2> QED BY <1>1, <2>3, <2>4, SweepFirstSteps DEF DeleteDocument
<1>2. CASE DeleteKb(s, k)
  <2> DEFINE r == [NoRequest EXCEPT !.op = "delete_kb", !.kb = k, !.at = "row"]
  <2>3. SweepFirst(s, r, {d \in Doc : d.kb = k}) /\ req[s].op = "idle"
    BY <1>2 DEF Asked, DeleteKb
  <2>4. Fits(r) /\ r.at = "row" /\ r.op = "delete_kb" /\ r.doc = NoDoc /\ r.kb = k
    BY NoRequestFits DEF Fits, Op, Call
  <2> HIDE DEF r
  <2> QED BY <1>2, <2>3, <2>4, SweepFirstSteps DEF DeleteKb
<1> QED BY <1>1, <1>2

-----------------------------------------------------------------------------
\* The request goes on to another call with the same document.
LEMMA GotoSets ==
  ASSUME Shape, NEW s \in Slots, NEW call \in Call, Goto(s, call)
  PROVE  /\ req' = [req EXCEPT ![s] = req'[s]] /\ Fits(req'[s])
         /\ req'[s].at = call /\ req'[s].op = req[s].op
         /\ req'[s].doc = req[s].doc /\ req'[s].kb = req[s].kb
<1> DEFINE r == [req[s] EXCEPT !.at = call]
<1>1. req'[s] = r /\ req' = [req EXCEPT ![s] = req'[s]]
  BY NowSets DEF Goto
<1>2. /\ Fits(r) /\ r.at = call
      /\ r.op = req[s].op /\ r.doc = req[s].doc /\ r.kb = req[s].kb
  BY DEF Shape, Fits
<1> QED BY <1>1, <1>2

\* The request lets go of its document.
LEMMA LeaveSets ==
  ASSUME Shape, NEW s \in Slots, req[s].op \in {"upload", "reindex"}, LeaveDoc(s)
  PROVE  /\ req' = [req EXCEPT ![s] = req'[s]] /\ Fits(req'[s]) /\ WellFormed(s)'
         /\ SlotKnows(s)' /\ \A d \in Doc : ~Touches(s, d)'
         /\ req'[s].doc = NoDoc
<1> DEFINE r == [req[s] EXCEPT !.at = Loop(s), !.doc = NoDoc]
<1>1. req'[s] = r /\ req' = [req EXCEPT ![s] = req'[s]]
  BY NowSets DEF LeaveDoc
<1>2. /\ Fits(r) /\ r.at \in {"file", "fetch"}
      /\ r.op = req[s].op /\ r.doc = NoDoc
      /\ r.op = "upload" => r.at = "file"
      /\ r.op = "reindex" => r.at = "fetch"
  BY DEF Shape, Fits, Loop, Call
<1> HIDE DEF r
<1>3. WellFormed(s)' /\ SlotKnows(s)'
  BY <1>1, <1>2 DEF WellFormed, SlotKnows, Working
<1>4. \A d \in Doc : ~Touches(s, d)'
  BY <1>1, <1>2, NoDocIsNone DEF Touches
<1> QED BY <1>1, <1>2, <1>3, <1>4

\* The request ends.
LEMMA DoneSets ==
  ASSUME Shape, NEW s \in Slots, Done(s)
  PROVE  /\ req' = [req EXCEPT ![s] = req'[s]] /\ Fits(req'[s]) /\ WellFormed(s)'
         /\ SlotKnows(s)' /\ \A d \in Doc : ~Touches(s, d)'
         /\ req'[s].doc = NoDoc
<1>1. req'[s] = NoRequest /\ req' = [req EXCEPT ![s] = req'[s]]
  BY NowSets DEF Done
<1>2. WellFormed(s)' /\ SlotKnows(s)'
  BY <1>1, NoRequestFits DEF WellFormed, SlotKnows, Working
<1>3. \A d \in Doc : ~Touches(s, d)'
  BY <1>1, NoRequestFits, NoDocIsNone DEF Touches
<1> QED BY <1>1, <1>2, <1>3, NoRequestFits DEF Fits

-----------------------------------------------------------------------------
\* The calls of an upload outside an ingest: a file that is skipped, a row that is
\* made, the end.
LEMMA UploadCallsStep ==
  ASSUME KbInv, NEW s \in Slots, SkipFile(s) \/ StoreFile(s) \/ EndUpload(s)
  PROVE  StepOf(s)
<1>0. Shape
  BY DEF KbInv
<1>1. req[s].op = "upload" /\ req[s].at = "file" /\ req[s].doc = NoDoc /\ Fits(req[s])
  BY <1>0 DEF SkipFile, StoreFile, EndUpload, At, Shape, WellFormed
<1>2. \A d \in Doc : ~Touches(s, d)
  BY <1>1, NoDocIsNone DEF Touches
<1>3. /\ exposed \subseteq exposed' /\ exposed' \subseteq Doc
      /\ \A d \in Doc : Overlapped(d)' => d \in exposed'
  BY <1>0, ExposeGrows DEF SkipFile, StoreFile, EndUpload
<1>4. CASE SkipFile(s)
  <2> DEFINE r == NextFile(s)
  <2>1. req'[s] = r /\ req' = [req EXCEPT ![s] = req'[s]]
    BY <1>0, <1>4, NowSets DEF SkipFile
  <2>2. Tail(req[s].files) \in Seq(Path)
    BY <1>1, <1>4 DEF SkipFile, Fits
  <2>3. Fits(r) /\ r.op = "upload" /\ r.at = "file" /\ r.doc = NoDoc
    BY <1>1, <2>2 DEF NextFile, Fits
  <2> HIDE DEF r
  <2>4. WellFormed(s)' /\ SlotKnows(s)'
    BY <2>1, <2>3 DEF WellFormed, SlotKnows, Working
  <2> QED BY <1>0, <1>1, <1>2, <1>3, <1>4, <2>1, <2>3, <2>4 DEF SkipFile, StepOf, Shape
<1>5. CASE StoreFile(s)
  <2> DEFINE p == Head(req[s].files)
  <2>1. PICK d \in Doc :
          /\ d.kb = req[s].kb /\ d.path = p /\ row[d] = "none"
          /\ row' = [row EXCEPT ![d] = "pending"]
          /\ Now(s, [NextFile(s) EXCEPT !.at = "start", !.doc = d, !.remaining = @ - Size[p]])
    BY <1>5 DEF StoreFile
  <2> DEFINE r == [NextFile(s) EXCEPT !.at = "start", !.doc = d, !.remaining = @ - Size[p]]
  <2>2. req'[s] = r /\ req' = [req EXCEPT ![s] = req'[s]]
    BY <1>0, <2>1, NowSets
  <2>3. Tail(req[s].files) \in Seq(Path)
    <3>1. req[s].files \in Seq(Path) /\ req[s].files # <<>>
      BY <1>1, <1>5 DEF StoreFile, Fits
    <3> QED BY <3>1
  <2>4. Fits(NextFile(s)) /\ NextFile(s).op = "upload"
    BY <1>1, <2>3 DEF NextFile, Fits
  <2>5. Fits(r) /\ r.op = "upload" /\ r.at = "start" /\ r.doc = d
    BY <2>4 DEF Fits, Call
  <2> HIDE DEF r
  <2>6. WellFormed(s)'
    BY <2>2, <2>5 DEF WellFormed, Working
  <2>7. /\ row' \in [Doc -> Status \cup {"none", "deleted"}] /\ row'[d] = "pending"
        /\ \A e \in Doc : e # d => row'[e] = row[e]
    BY <1>0, <2>1 DEF Shape, Status
  <2>8. d \notin exposed' => vectors'[d] = 0
    <3>0. vectors' = vectors
      BY <1>5 DEF StoreFile
    <3>1. d \notin exposed' => d \notin exposed /\ ~HasRow(d)
      BY <1>3, <2>1 DEF HasRow, Status
    <3>2. DocHolds(d) /\ vectors[d] \in Nat
      BY <1>0 DEF KbInv, Shape
    <3> QED BY <3>0, <3>1, <3>2 DEF DocHolds
  <2>9. SlotKnows(s)'
    BY <2>2, <2>5, <2>7, <2>8 DEF SlotKnows, HasRow, Status
  <2>10. \A e \in Doc : e # d => ~Touches(s, e)'
    BY <2>2, <2>5 DEF Touches
  <2>11. Touches(s, d)'
    BY <2>2, <2>5 DEF Touches
  <2> QED BY <1>0, <1>1, <1>2, <1>3, <1>5, <2>2, <2>5, <2>6, <2>7, <2>9, <2>10, <2>11
          DEF StoreFile, StepOf, Shape
<1>6. CASE EndUpload(s)
  BY <1>0, <1>1, <1>2, <1>3, <1>6, DoneSets DEF EndUpload, StepOf, Shape
<1> QED BY <1>4, <1>5, <1>6

\* A status is written to a row that there is, and to no other.
LEMMA SetStatusSets ==
  ASSUME Shape, NEW d \in Doc, NEW st \in Status, SetStatus(d, st)
  PROVE  /\ row' \in [Doc -> Status \cup {"none", "deleted"}]
         /\ \A e \in Doc : e # d => row'[e] = row[e]
         /\ HasRow(d) => row'[d] = st
         /\ ~HasRow(d) => row'[d] = row[d]
         /\ \A e \in Doc : HasRow(e) <=> HasRow(e)'
BY DEF Shape, SetStatus, HasRow, Status

\* The start of an ingest: an upload without a vector store leaves the document
\* pending, a reindex under Postgres leaves it swept, and otherwise it is processed.
LEMMA StartIngestSteps ==
  ASSUME KbInv, NEW s \in Slots, StartIngest(s)
  PROVE  StepOf(s)
<1>0. Shape /\ SlotKnows(s) /\ Fits(req[s]) /\ WellFormed(s)
  BY DEF KbInv, Shape
<1>1. req[s].op \in {"upload", "reindex"} /\ req[s].at = "start" /\ req[s].doc \in Doc
  BY <1>0 DEF StartIngest, WellFormed, Fits, Op, Working
<1> PICK d \in Doc : d = req[s].doc
  BY <1>1
<1>2. \A e \in Doc : Touches(s, e) <=> e = d
  BY <1>1 DEF Touches
<1>3. /\ exposed \subseteq exposed' /\ exposed' \subseteq Doc
      /\ \A e \in Doc : Overlapped(e)' => e \in exposed'
  BY <1>0, ExposeGrows DEF StartIngest
<1>4. vectors' = vectors /\ base' = base /\ crashes' = crashes
  BY DEF StartIngest
<1>5. vectors[d] \in Nat
  BY <1>0, <1>1 DEF Shape
<1>6. CASE LeaveDoc(s) /\ row' = row /\ emptied' \in {emptied, emptied \cup {d}}
           /\ (req[s].op = "reindex" => d \in emptied')
  <2>1. DocHolds(d)'
    <3> SUFFICES ASSUME d \notin exposed'
                 PROVE  /\ vectors[d] = 0
                        /\ req[s].op = "upload" => row[d] # "ready"
                        /\ req[s].op = "reindex" => d \in emptied'
      BY <1>1, <1>4, <1>6 DEF DocHolds, HasRow
    <3> QED BY <1>0, <1>1, <1>3, <1>6 DEF SlotKnows, Working
  <2> QED BY <1>0, <1>1, <1>2, <1>3, <1>4, <1>6, <2>1, LeaveSets DEF StepOf, Shape
<1>7. CASE SetStatus(d, "processing") /\ Goto(s, "ingest") /\ emptied' = emptied
  <2>1. "processing" \in Status /\ "ingest" \in Call
    BY DEF Status, Call
  <2>2. /\ req' = [req EXCEPT ![s] = req'[s]] /\ Fits(req'[s])
        /\ req'[s].at = "ingest" /\ req'[s].op = req[s].op /\ req'[s].doc = d
    BY <1>0, <1>7, <2>1, GotoSets
  <2>3. /\ row' \in [Doc -> Status \cup {"none", "deleted"}]
        /\ \A e \in Doc : e # d => row'[e] = row[e]
        /\ HasRow(d) <=> HasRow(d)'
    BY <1>0, <1>1, <1>7, <2>1, SetStatusSets
  <2>4. WellFormed(s)'
    BY <1>1, <2>2 DEF WellFormed, Working
  <2>5. SlotKnows(s)'
    <3>1. d \notin exposed' => HasRow(d)' /\ vectors'[d] = 0
      BY <1>0, <1>1, <1>3, <1>4, <2>3 DEF SlotKnows, Working
    <3> QED BY <1>1, <2>2, <3>1 DEF SlotKnows, Working, HasRow
  <2>6. \A e \in Doc : Touches(s, e)' <=> e = d
    BY <1>1, <2>2 DEF Touches
  <2>7. \A e \in Doc : row'[e] = "processing" =>
          \/ req'[s].doc = e /\ req'[s].at \in {"ingest", "ready", "failed"}
          \/ row[e] = "processing" /\ req[s].doc # e
    BY <2>2, <2>3
  <2> QED BY <1>0, <1>2, <1>3, <1>4, <1>7, <2>2, <2>3, <2>4, <2>5, <2>6, <2>7 DEF StepOf, Shape
<1> QED BY <1>0, <1>1, <1>6, <1>7 DEF StartIngest, Shape

\* The ingest: only an ingest that stored all the chunks is followed by `ready`.
LEMMA IngestSteps ==
  ASSUME KbInv, NEW s \in Slots, Ingest(s)
  PROVE  StepOf(s)
<1>0. Shape /\ SlotKnows(s) /\ Fits(req[s]) /\ WellFormed(s)
  BY DEF KbInv, Shape
<1>1. req[s].op \in {"upload", "reindex"} /\ req[s].at = "ingest" /\ req[s].doc \in Doc
  BY <1>0 DEF Ingest, WellFormed, Fits, Op, Working
<1> PICK d \in Doc : d = req[s].doc
  BY <1>1
<1>2. /\ row' = row /\ base' = base /\ crashes' = crashes /\ emptied' = emptied
      /\ exposed \subseteq exposed' /\ exposed' \subseteq Doc
      /\ \A e \in Doc : Overlapped(e)' => e \in exposed'
  BY <1>0, ExposeGrows DEF Ingest
<1>3. Chunks[d.path] \in Nat /\ vectors[d] \in Nat
  <2>1. d.path \in Path
    BY DEF Doc
  <2> QED BY <1>0, <2>1, KbAssumption DEF Shape
<1>4. PICK n \in Nat, call \in {"ready", "failed"} :
        /\ vectors' = [vectors EXCEPT ![d] = @ + n] /\ Goto(s, call)
        /\ call = "ready" => n = Chunks[d.path]
  <2>1. CASE /\ vectors' = [vectors EXCEPT ![d] = @ + Chunks[d.path]]
             /\ Goto(s, "ready")
    BY <1>3, <2>1
  <2>2. ASSUME NEW n \in 0..Chunks[d.path], vectors' = [vectors EXCEPT ![d] = @ + n],
               Goto(s, "failed")
        PROVE  \E m \in Nat, call \in {"ready", "failed"} :
                 /\ vectors' = [vectors EXCEPT ![d] = @ + m] /\ Goto(s, call)
                 /\ call = "ready" => m = Chunks[d.path]
    <3>1. n \in Nat
      BY <1>3
    <3> QED BY <2>2, <3>1
  <2> QED BY <2>1, <2>2 DEF Ingest
<1>5. /\ req' = [req EXCEPT ![s] = req'[s]] /\ Fits(req'[s])
      /\ req'[s].at = call /\ req'[s].op = req[s].op /\ req'[s].doc = d
  <2>1. call \in Call
    BY DEF Call
  <2> QED BY <1>0, <1>4, <2>1, GotoSets
<1>6. /\ vectors' \in [Doc -> Nat] /\ vectors'[d] = vectors[d] + n
      /\ \A e \in Doc : e # d => vectors'[e] = vectors[e]
  BY <1>0, <1>3, <1>4 DEF Shape
<1>7. WellFormed(s)'
  BY <1>1, <1>5 DEF WellFormed, Working
<1>8. SlotKnows(s)'
  <2>1. d \notin exposed' => HasRow(d) /\ vectors[d] = 0
    BY <1>0, <1>1, <1>2 DEF SlotKnows, Working
  <2> QED BY <1>2, <1>3, <1>4, <1>5, <1>6, <2>1 DEF SlotKnows, HasRow, Working
<1>9. \A e \in Doc : (Touches(s, e) <=> e = d) /\ (Touches(s, e)' <=> e = d)
  BY <1>1, <1>5 DEF Touches
<1>10. \A e \in Doc : row'[e] = "processing" =>
         \/ req'[s].doc = e /\ req'[s].at \in {"ingest", "ready", "failed"}
         \/ row[e] = "processing" /\ req[s].doc # e
  BY <1>2, <1>4, <1>5
<1> QED BY <1>0, <1>2, <1>5, <1>6, <1>7, <1>8, <1>9, <1>10 DEF StepOf, Shape

\* The last update of an ingest: what the request knew holds of the document.
LEMMA SettleSteps ==
  ASSUME KbInv, NEW s \in Slots, Settle(s)
  PROVE  StepOf(s)
<1>0. Shape /\ SlotKnows(s) /\ Fits(req[s]) /\ WellFormed(s)
  BY DEF KbInv, Shape
<1>1. /\ req[s].op \in {"upload", "reindex"} /\ req[s].at \in {"ready", "failed"}
      /\ req[s].doc \in Doc
  BY <1>0 DEF Settle, WellFormed, Fits, Op, Working
<1> PICK d \in Doc : d = req[s].doc
  BY <1>1
<1>2. /\ vectors' = vectors /\ base' = base /\ crashes' = crashes /\ emptied' = emptied
      /\ exposed \subseteq exposed' /\ exposed' \subseteq Doc
      /\ \A e \in Doc : Overlapped(e)' => e \in exposed'
  BY <1>0, ExposeGrows DEF Settle
<1>3. req[s].at \in Status
  BY <1>1 DEF Status
<1>4. /\ row' \in [Doc -> Status \cup {"none", "deleted"}]
      /\ \A e \in Doc : e # d => row'[e] = row[e]
      /\ HasRow(d) => row'[d] = req[s].at
      /\ ~HasRow(d) => row'[d] = row[d]
      /\ HasRow(d) <=> HasRow(d)'
  BY <1>0, <1>3, SetStatusSets DEF Settle
<1>5. DocHolds(d)'
  <2> SUFFICES ASSUME d \notin exposed'
               PROVE  HasRow(d)' /\ (row'[d] = "ready" => vectors'[d] = Chunks[d.path])
    BY DEF DocHolds
  <2>1. HasRow(d) /\ (req[s].at = "ready" => vectors[d] = Chunks[d.path])
    BY <1>0, <1>1, <1>2 DEF SlotKnows, Working
  <2> QED BY <1>2, <1>4, <2>1
<1>6. \A e \in Doc : Touches(s, e) <=> e = d
  BY <1>1 DEF Touches
<1>7. /\ req' = [req EXCEPT ![s] = req'[s]] /\ Fits(req'[s]) /\ WellFormed(s)'
      /\ SlotKnows(s)' /\ \A e \in Doc : ~Touches(s, e)'
  BY <1>0, <1>1, LeaveSets DEF Settle
<1>8. row'[d] # "processing"
  BY <1>1, <1>4 DEF HasRow, Status
<1> QED BY <1>0, <1>2, <1>4, <1>5, <1>6, <1>7, <1>8 DEF StepOf, Shape

-----------------------------------------------------------------------------
\* A reindex fetches the next document, which it has to itself or exposes.
LEMMA FetchSteps ==
  ASSUME KbInv, NEW s \in Slots, FetchDocument(s)
  PROVE  StepOf(s)
<1>0. Shape /\ Fits(req[s]) /\ WellFormed(s)
  BY DEF KbInv, Shape
<1>1. req[s].op = "reindex" /\ req[s].at = "fetch" /\ req[s].doc = NoDoc
  BY <1>0 DEF FetchDocument, At, WellFormed
<1>2. \A d \in Doc : ~Touches(s, d)
  BY <1>1, NoDocIsNone DEF Touches
<1>3. /\ vectors' = vectors /\ row' = row /\ base' = base /\ crashes' = crashes
      /\ emptied' = emptied /\ exposed \subseteq exposed' /\ exposed' \subseteq Doc
      /\ \A e \in Doc : Overlapped(e)' => e \in exposed'
  BY <1>0, ExposeGrows DEF FetchDocument
<1>4. CASE Done(s)
  BY <1>0, <1>1, <1>2, <1>3, <1>4, DoneSets DEF StepOf, Shape
<1>5. ASSUME NEW d \in req[s].docs,
             Now(s, [req[s] EXCEPT !.docs = @ \ {d}, !.at = IF HasRow(d) THEN "sweep" ELSE "fetch",
                                   !.doc = IF HasRow(d) THEN d ELSE NoDoc])
      PROVE  StepOf(s)
  <2> DEFINE r == [req[s] EXCEPT !.docs = @ \ {d}, !.at = IF HasRow(d) THEN "sweep" ELSE "fetch",
                                 !.doc = IF HasRow(d) THEN d ELSE NoDoc]
  <2>1. req'[s] = r /\ req' = [req EXCEPT ![s] = req'[s]]
    BY <1>0, <1>5, NowSets
  <2>2. d \in Doc /\ req[s].docs \ {d} \in SUBSET Doc
    BY <1>0 DEF Fits
  <2>3. /\ Fits(r) /\ r.op = "reindex"
        /\ r.at = IF HasRow(d) THEN "sweep" ELSE "fetch"
        /\ r.doc = IF HasRow(d) THEN d ELSE NoDoc
    BY <1>0, <1>1, <2>2 DEF Fits, Call
  <2> HIDE DEF r
  <2>4. WellFormed(s)'
    BY <2>1, <2>2, <2>3 DEF WellFormed, Working
  <2>5. HasRow(d) => HasRow(d)'
    BY <1>3 DEF HasRow
  <2>6. SlotKnows(s)'
    BY <2>1, <2>3, <2>5 DEF SlotKnows, Working
  <2> QED BY <1>0, <1>1, <1>2, <1>3, <2>1, <2>3, <2>4, <2>6 DEF StepOf, Shape
<1> QED BY <1>4, <1>5 DEF FetchDocument

\* It sweeps the document, or ends with it exposed.
LEMMA SweepDocumentSteps ==
  ASSUME KbInv, NEW s \in Slots, SweepDocument(s)
  PROVE  StepOf(s)
<1>0. Shape /\ SlotKnows(s) /\ Fits(req[s]) /\ WellFormed(s)
  BY DEF KbInv, Shape
<1>1. req[s].op = "reindex" /\ req[s].at = "sweep" /\ req[s].doc \in Doc
  BY <1>0 DEF SweepDocument, At, WellFormed, Working
<1> PICK d \in Doc : d = req[s].doc
  BY <1>1
<1>2. \A e \in Doc : Touches(s, e) <=> e = d
  BY <1>1 DEF Touches
<1>3. row' = row /\ base' = base /\ crashes' = crashes /\ emptied' = emptied
  BY DEF SweepDocument
<1>4. CASE Sweep({d}) /\ Goto(s, "start") /\ Expose({})
  <2>1. /\ req' = [req EXCEPT ![s] = req'[s]] /\ Fits(req'[s])
        /\ req'[s].at = "start" /\ req'[s].op = req[s].op /\ req'[s].doc = d
    <3>1. "start" \in Call
      BY DEF Call
    <3> QED BY <1>0, <1>4, <3>1, GotoSets
  <2>2. /\ vectors' \in [Doc -> Nat] /\ vectors'[d] = 0
        /\ \A e \in Doc : e # d => vectors'[e] = vectors[e]
    BY <1>0, <1>4 DEF Sweep, Shape
  <2>3. /\ exposed \subseteq exposed' /\ exposed' \subseteq Doc
        /\ \A e \in Doc : Overlapped(e)' => e \in exposed'
    BY <1>0, <1>4, ExposeGrows
  <2>4. WellFormed(s)'
    BY <1>1, <2>1 DEF WellFormed, Working
  <2>5. SlotKnows(s)'
    <3>1. d \notin exposed' => HasRow(d)
      BY <1>0, <1>1, <2>3 DEF SlotKnows, Working
    <3> QED BY <1>1, <1>3, <2>1, <2>2, <3>1 DEF SlotKnows, HasRow, Working
  <2>6. \A e \in Doc : Touches(s, e)' <=> e = d
    BY <1>1, <2>1 DEF Touches
  <2> QED BY <1>0, <1>1, <1>2, <1>3, <2>1, <2>2, <2>3, <2>4, <2>5, <2>6 DEF StepOf, Shape
<1>5. CASE (Sweep({d}) \/ UNCHANGED vectors) /\ Done(s) /\ Expose({d})
  <2>1. /\ exposed \subseteq exposed' /\ exposed' \subseteq Doc /\ d \in exposed'
        /\ \A e \in Doc : Overlapped(e)' => e \in exposed'
    BY <1>0, <1>5, ExposeGrows
  <2>2. /\ vectors' \in [Doc -> Nat]
        /\ \A e \in Doc : e # d => vectors'[e] = vectors[e]
    BY <1>0, <1>5 DEF Sweep, Shape
  <2>3. DocHolds(d)'
    BY <2>1 DEF DocHolds
  <2> QED BY <1>0, <1>1, <1>2, <1>3, <1>5, <2>1, <2>2, <2>3, DoneSets DEF StepOf, Shape
<1> QED BY <1>4, <1>5 DEF SweepDocument

\* The rows go: their vectors have gone, or they are exposed.
LEMMA DeleteRowSteps ==
  ASSUME KbInv, NEW s \in Slots, DeleteRow(s)
  PROVE  StepOf(s)
<1>0. Shape /\ SlotKnows(s) /\ Fits(req[s]) /\ WellFormed(s)
  BY DEF KbInv, Shape
<1>1. req[s].at = "row" /\ req[s].op \in {"delete_doc", "delete_kb"}
  BY <1>0 DEF DeleteRow, WellFormed, Fits, Op, Working
<1>2. /\ vectors' = vectors /\ crashes' = crashes /\ emptied' = emptied
      /\ exposed \subseteq exposed' /\ exposed' \subseteq Doc
      /\ \A e \in Doc : Overlapped(e)' => e \in exposed'
  BY <1>0, ExposeGrows DEF DeleteRow
<1>3. \A d \in Doc : d \in Target(s) <=> Touches(s, d)
  BY <1>0, <1>1, TargetsAreTouched
<1>4. /\ row' \in [Doc -> Status \cup {"none", "deleted"}]
      /\ \A d \in Doc : ~Touches(s, d) => row'[d] = row[d]
      /\ \A d \in Doc : row'[d] \in {row[d], "deleted"}
  BY <1>0, <1>3 DEF DeleteRow, Shape
<1>5. /\ base' \in [Kb -> {"none", "live", "deleted"}]
      /\ \A k \in Kb : base'[k] \in {base[k], "deleted"}
  BY <1>0 DEF DeleteRow, Shape
<1>6. ASSUME NEW d \in Doc, Touches(s, d)
      PROVE  DocHolds(d)'
  <2> SUFFICES ASSUME d \notin exposed'
               PROVE  /\ vectors[d] = 0
                      /\ row'[d] = "ready" => base'[d.kb] = "deleted"
    BY <1>2 DEF DocHolds
  <2>1. vectors[d] = 0
    BY <1>0, <1>1, <1>2, <1>3, <1>6 DEF SlotKnows
  <2>2. ASSUME row'[d] = "ready"
        PROVE  base'[d.kb] = "deleted"
    <3>1. d \in Target(s) /\ HasRow(d) /\ row[d] = "ready"
      BY <1>3, <1>4, <1>6, <2>2 DEF HasRow, Status
    <3>2. req[s].op = "delete_kb" /\ ~pooled
      BY <2>2, <3>1 DEF DeleteRow
    <3>3. d.kb = req[s].kb /\ d.kb \in Kb
      BY <3>1, <3>2 DEF Target, Doc
    <3> QED BY <1>0, <3>2, <3>3 DEF DeleteRow, Shape
  <2> QED BY <2>1, <2>2
<1>7. /\ req' = [req EXCEPT ![s] = req'[s]] /\ Fits(req'[s]) /\ WellFormed(s)'
      /\ SlotKnows(s)' /\ \A e \in Doc : ~Touches(s, e)'
  BY <1>0, DoneSets DEF DeleteRow
<1>8. \A d \in Doc : row'[d] = "processing" => row[d] = "processing"
  BY <1>4
<1> QED BY <1>0, <1>1, <1>2, <1>4, <1>5, <1>6, <1>7, <1>8 DEF StepOf, Shape

-----------------------------------------------------------------------------
\* The first state: no base, no row, no vector.
LEMMA KbInitHolds == Init => KbInv
<1> SUFFICES ASSUME Init PROVE KbInv
  OBVIOUS
<1>1. \A s \in Slots : req[s] = NoRequest
  BY DEF Init
<1>2. \A s \in Slots : Fits(req[s]) /\ WellFormed(s) /\ SlotKnows(s)
  BY <1>1, NoRequestFits DEF Fits, WellFormed, SlotKnows, Working
<1>3. Shape
  BY <1>2 DEF Init, Shape
<1>4. \A s \in Slots, d \in Doc : ~Touches(s, d)
  BY <1>1, NoRequestFits, NoDocIsNone DEF Touches
<1>5. OverlapExposes
  BY <1>4 DEF OverlapExposes, Overlapped
<1>6. \A d \in Doc : row[d] = "none" /\ vectors[d] = 0
  BY DEF Init
<1>7. (\A d \in Doc : DocHolds(d)) /\ ProcessingIsWorkedOn
  BY <1>6 DEF DocHolds, ProcessingIsWorkedOn
<1> QED BY <1>2, <1>3, <1>5, <1>7 DEF KbInv

\* A new base has no documents that the invariant speaks of, and the singleton of the
\* vector store none at all.
LEMMA QuietStepsHold ==
  ASSUME KbInv, UNCHANGED <<row, vectors, req, exposed, emptied, crashes>>,
         base' \in [Kb -> {"none", "live", "deleted"}],
         \A k \in Kb : base[k] = "deleted" => base'[k] = "deleted"
  PROVE  KbInv'
<1>1. Shape'
  BY DEF KbInv, Shape, WellFormed
<1>2. OverlapExposes'
  BY DEF KbInv, OverlapExposes, Overlapped, Touches
<1>3. \A s \in Slots : SlotKnows(s)'
  BY DEF KbInv, SlotKnows, HasRow, Target
<1>4. ASSUME NEW d \in Doc
      PROVE  DocHolds(d)'
  <2>1. DocHolds(d) /\ d.kb \in Kb
    BY DEF KbInv, Doc
  <2>2. Worked(d)' <=> Worked(d)
    BY DEF Worked, Touches
  <2> QED BY <2>1, <2>2 DEF DocHolds, HasRow
<1>5. ProcessingIsWorkedOn'
  BY DEF KbInv, ProcessingIsWorkedOn
<1> QED BY <1>1, <1>2, <1>3, <1>4, <1>5 DEF KbInv

\* The process dies: what was being worked on is exposed.
LEMMA CrashHolds ==
  ASSUME KbInv, Crash
  PROVE  KbInv'
<1>0. Shape
  BY DEF KbInv
<1>1. /\ req' = [s \in Slots |-> NoRequest]
      /\ exposed' = exposed \cup {d \in Doc : \E s \in Slots : Touches(s, d)}
      /\ row' = row /\ vectors' = vectors /\ base' = base /\ emptied' = emptied
      /\ crashes' = crashes + 1
  BY DEF Crash
<1>2. \A s \in Slots : req'[s] = NoRequest
  BY <1>1
<1>3. \A s \in Slots : Fits(req'[s]) /\ WellFormed(s)' /\ SlotKnows(s)'
  BY <1>2, NoRequestFits DEF Fits, WellFormed, SlotKnows, Working
<1>4. Shape'
  <2>1. req' = [s \in Slots |-> req'[s]]
    BY <1>1
  <2>2. crashes' \in Nat
    BY <1>0, <1>1 DEF Shape
  <2> QED BY <1>0, <1>1, <1>3, <2>1, <2>2 DEF Shape
<1>5. OverlapExposes'
  <2>1. \A s \in Slots, d \in Doc : ~Touches(s, d)'
    BY <1>2, NoRequestFits, NoDocIsNone DEF Touches
  <2> QED BY <2>1 DEF OverlapExposes, Overlapped
<1>6. ASSUME NEW d \in Doc
      PROVE  DocHolds(d)'
  <2> SUFFICES ASSUME d \notin exposed'
               PROVE  /\ vectors[d] > 0 => HasRow(d)
                      /\ row[d] = "ready" /\ base[d.kb] # "deleted" /\ d \notin emptied
                           => vectors[d] = Chunks[d.path]
    BY <1>1 DEF DocHolds, HasRow
  <2>1. d \notin exposed /\ ~Worked(d)
    BY <1>1 DEF Worked
  <2> QED BY <2>1 DEF KbInv, DocHolds
<1>7. ProcessingIsWorkedOn'
  BY <1>0, <1>1 DEF ProcessingIsWorkedOn, Shape
<1> QED BY <1>3, <1>4, <1>5, <1>6, <1>7 DEF KbInv

\* Every step keeps the invariant.
LEMMA KbNextHolds == KbInv /\ [Next]_vars => KbInv'
<1> SUFFICES ASSUME KbInv, [Next]_vars PROVE KbInv'
  OBVIOUS
<1>1. CASE ResetVectorStore
  BY <1>1, QuietStepsHold DEF ResetVectorStore, history, KbInv, Shape
<1>2. ASSUME NEW k \in Kb, CreateKb(k)
      PROVE  KbInv'
  <2>1. /\ base' \in [Kb -> {"none", "live", "deleted"}]
        /\ \A j \in Kb : base[j] = "deleted" => base'[j] = "deleted"
    BY <1>2 DEF CreateKb, KbInv, Shape
  <2> QED BY <1>2, <2>1, QuietStepsHold DEF CreateKb, history
<1>3. CASE Crash
  BY <1>3, CrashHolds
<1>4. ASSUME NEW s \in Slots, NEW k \in Kb,
             Upload(s, k) \/ ReindexKb(s, k) \/ DeleteDocument(s, k) \/ DeleteKb(s, k)
      PROVE  KbInv'
  BY <1>4, UploadSteps, ReindexSteps, DeletionsStep, StepKeepsInv
<1>5. ASSUME NEW s \in Slots, Step(s)
      PROVE  KbInv'
  BY <1>5, UploadCallsStep, StartIngestSteps, IngestSteps, SettleSteps, FetchSteps,
     SweepDocumentSteps, DeleteRowSteps, StepKeepsInv DEF Step
<1>6. CASE UNCHANGED vars
  BY <1>6, QuietStepsHold DEF vars, history, KbInv, Shape
<1> QED BY <1>1, <1>2, <1>3, <1>4, <1>5, <1>6 DEF Next

LEMMA KbAlways == Spec => []KbInv
BY KbInitHolds, KbNextHolds, PTL DEF Spec

\* A chunk that search can return belongs to a document with a row, for any number
\* of requests: the vectors go before the row (endpoints/kb.py:147, 342).
THEOREM OrphanTheorem == Spec => []NoOrphanVectors
<1>1. KbInv => NoOrphanVectors
  BY DEF KbInv, DocHolds, NoOrphanVectors
<1> QED BY <1>1, KbAlways, PTL

\* A document that says `ready` has each of its chunks once, whatever uploads,
\* failures and reindexes came before (ingest.py:43-73, 88).
THEOREM ReadyTheorem == Spec => []ReadyMeansIndexed
<1>1. KbInv => ReadyMeansIndexed
  BY DEF KbInv, DocHolds, ReadyMeansIndexed
<1> QED BY <1>1, KbAlways, PTL

\* While the process lives, a document that says `processing` is being ingested
\* (ingest.py:43-73).
THEOREM ProcessingTheorem == Spec => []ProcessingIsWorkedOn
<1>1. KbInv => ProcessingIsWorkedOn
  BY DEF KbInv
<1> QED BY <1>1, KbAlways, PTL

-----------------------------------------------------------------------------
(* Sums over finite sets.  TotalBytes is a fold, a recursive function: that  *)
(* it exists and what it adds up to is shown by smallest counterexamples.    *)

Chosen(s) == CHOOSE x \in s : TRUE
Adds(f, T, g) ==
  g = [s \in SUBSET T |-> IF s = {} THEN 0 ELSE f[Chosen(s)] + g[s \ {Chosen(s)}]]
Totals(f, T) == CHOOSE g : Adds(f, T, g)
Total(f, T)  == Totals(f, T)[T]

\* Among subsets of a finite set some are smallest.
LEMMA SmallestSubset ==
  ASSUME NEW S, IsFiniteSet(S), NEW Some \in SUBSET SUBSET S, Some # {}
  PROVE  \E T \in Some : \A U \in Some : U \subseteq T => U = T
<1> DEFINE R == StrictSubsetOrdering(S)
<1>1. IsWellFoundedOn(R, SUBSET S)
  BY FS_StrictSubsetOrderingWellFounded, FS_FiniteSubsetsOfFinite
<1>2. \E T \in Some : \A U \in Some : <<U, T>> \notin R
  <2> HIDE DEF R
  <2> QED BY <1>1, WFMin
<1>3. ASSUME NEW U \in Some, NEW T \in Some
      PROVE  <<U, T>> \in R <=> U \subseteq T /\ U # T
  BY DEF StrictSubsetOrdering
<1> QED BY <1>2, <1>3

\* The element taken off a set is one of its own.
LEMMA ChosenIsIn == \A s : s # {} => Chosen(s) \in s
BY DEF Chosen

\* Two partial sums agree wherever both are defined.
LEMMA TotalsAgree ==
  ASSUME NEW S, IsFiniteSet(S), NEW A \in SUBSET S, NEW B \in SUBSET S,
         NEW f, NEW g, NEW h, Adds(f, A, g), Adds(f, B, h)
  PROVE  \A s \in SUBSET A : s \in SUBSET B => g[s] = h[s]
<1> DEFINE Bad == {s \in SUBSET A : s \in SUBSET B /\ g[s] # h[s]}
<1>1. SUFFICES ASSUME Bad # {} PROVE FALSE
  OBVIOUS
<1>2. Bad \in SUBSET SUBSET S
  OBVIOUS
<1>3. PICK T \in Bad : \A U \in Bad : U \subseteq T => U = T
  <2> HIDE DEF Bad
  <2> QED BY <1>1, <1>2, SmallestSubset
<1>4. /\ g[T] = IF T = {} THEN 0 ELSE f[Chosen(T)] + g[T \ {Chosen(T)}]
      /\ h[T] = IF T = {} THEN 0 ELSE f[Chosen(T)] + h[T \ {Chosen(T)}]
  BY DEF Adds
<1>5. T # {}
  BY <1>4
<1>6. T \ {Chosen(T)} \notin Bad
  BY <1>3, <1>5, ChosenIsIn
<1> QED BY <1>4, <1>5, <1>6

\* The partial sums of a finite set exist.
LEMMA TotalsExist ==
  ASSUME NEW S, IsFiniteSet(S), NEW f
  PROVE  \A T \in SUBSET S : Adds(f, T, Totals(f, T))
<1> DEFINE Bad == {T \in SUBSET S : ~ \E g : Adds(f, T, g)}
<1>1. SUFFICES ASSUME Bad # {} PROVE FALSE
  BY DEF Totals
<1>2. Bad \in SUBSET SUBSET S
  OBVIOUS
<1>3. PICK T \in Bad : \A U \in Bad : U \subseteq T => U = T
  <2> HIDE DEF Bad
  <2> QED BY <1>1, <1>2, SmallestSubset
<1>4. ASSUME NEW U \in SUBSET T, U # T
      PROVE  Adds(f, U, Totals(f, U))
  BY <1>3, <1>4 DEF Totals
<1> DEFINE w == [s \in SUBSET T |-> IF s = {} THEN 0 ELSE f[Chosen(s)] + Total(f, s \ {Chosen(s)})]
<1>5. ASSUME NEW s \in SUBSET T, s # {}
      PROVE  w[s] = f[Chosen(s)] + w[s \ {Chosen(s)}]
  <2> DEFINE r == s \ {Chosen(s)}
  <2>1. r \in SUBSET T /\ r # T
    BY <1>5, ChosenIsIn
  <2>2. Totals(f, r)[r] = IF r = {} THEN 0 ELSE f[Chosen(r)] + Totals(f, r)[r \ {Chosen(r)}]
    <3> HIDE DEF r
    <3> QED BY <2>1, <1>4 DEF Adds
  <2>3. CASE r = {}
    BY <2>1, <2>2, <2>3, <1>5 DEF Total
  <2>4. CASE r # {}
    <3> DEFINE q == r \ {Chosen(r)}
    <3>1. q \in SUBSET r /\ q \in SUBSET T /\ q # T /\ r \in SUBSET S /\ q \in SUBSET S
      BY <2>1
    <3>2. Totals(f, r)[q] = Totals(f, q)[q]
      <4> HIDE DEF r, q
      <4>1. Adds(f, r, Totals(f, r)) /\ Adds(f, q, Totals(f, q))
        BY <1>4, <2>1, <3>1
      <4> QED BY <4>1, <3>1, TotalsAgree
    <3>3. w[r] = f[Chosen(r)] + Total(f, q)
      BY <2>1, <2>4
    <3>4. w[s] = f[Chosen(s)] + Total(f, r)
      BY <1>5
    <3> HIDE DEF w, r, q
    <3>5. Total(f, r) = w[r]
      BY <2>2, <2>4, <3>2, <3>3 DEF Total, q
    <3> QED BY <3>4, <3>5 DEF r
  <2> QED BY <2>3, <2>4
<1>6. w[{}] = 0
  OBVIOUS
<1> HIDE DEF w
<1>7. w = [s \in SUBSET T |-> IF s = {} THEN 0 ELSE f[Chosen(s)] + w[s \ {Chosen(s)}]]
  <2>1. w = [s \in SUBSET T |-> w[s]]
    BY DEF w
  <2>2. \A s \in SUBSET T : w[s] = IF s = {} THEN 0 ELSE f[Chosen(s)] + w[s \ {Chosen(s)}]
    BY <1>5, <1>6
  <2> QED BY <2>1, <2>2, Zenon
<1>8. Adds(f, T, w)
  BY <1>7 DEF Adds
<1> QED BY <1>8

\* The sum takes off the chosen element.
LEMMA TotalSteps ==
  ASSUME NEW S, IsFiniteSet(S), NEW f
  PROVE  /\ Total(f, {}) = 0
         /\ S # {} => Total(f, S) = f[Chosen(S)] + Total(f, S \ {Chosen(S)})
<1>1. Adds(f, {}, Totals(f, {})) /\ Adds(f, S, Totals(f, S))
  BY TotalsExist
<1>2. Total(f, {}) = 0
  BY <1>1 DEF Total, Adds
<1>3. ASSUME S # {}
      PROVE  Total(f, S) = f[Chosen(S)] + Total(f, S \ {Chosen(S)})
  <2> DEFINE r == S \ {Chosen(S)}
  <2>1. r \in SUBSET S
    OBVIOUS
  <2>2. Totals(f, S)[S] = f[Chosen(S)] + Totals(f, S)[r]
    BY <1>1, <1>3 DEF Adds
  <2> HIDE DEF r
  <2>3. Totals(f, S)[r] = Totals(f, r)[r]
    <3>1. Adds(f, r, Totals(f, r))
      BY <2>1, TotalsExist
    <3>2. PICK g, h : g = Totals(f, S) /\ h = Totals(f, r)
      OBVIOUS
    <3>3. Adds(f, S, g) /\ Adds(f, r, h)
      BY <1>1, <3>1, <3>2
    <3>4. \A s \in SUBSET S : s \in SUBSET r => g[s] = h[s]
      BY <2>1, <3>3, TotalsAgree
    <3> QED BY <2>1, <3>2, <3>4
  <2> QED BY <2>2, <2>3 DEF Total, r
<1> QED BY <1>2, <1>3

\* The sum of nothing.
LEMMA TotalOfNone ==
  ASSUME NEW f
  PROVE  Total(f, {}) = 0
<1> PICK S : S = {}
  OBVIOUS
<1>1. IsFiniteSet(S)
  BY FS_EmptySet
<1> QED BY <1>1, TotalSteps

\* A sum of naturals is one.
LEMMA TotalIsNat ==
  ASSUME NEW S, IsFiniteSet(S), NEW f, \A x \in S : f[x] \in Nat
  PROVE  \A T \in SUBSET S : Total(f, T) \in Nat
<1> DEFINE Bad == {T \in SUBSET S : Total(f, T) \notin Nat}
<1>1. SUFFICES ASSUME Bad # {} PROVE FALSE
  OBVIOUS
<1>2. PICK T \in Bad : \A U \in Bad : U \subseteq T => U = T
  <2>1. Bad \in SUBSET SUBSET S
    OBVIOUS
  <2> HIDE DEF Bad
  <2> QED BY <1>1, <2>1, SmallestSubset
<1>3. IsFiniteSet(T)
  BY FS_Subset
<1>4. T # {}
  <2>1. Total(f, {}) = 0
    BY TotalOfNone
  <2> QED BY <2>1
<1>5. Total(f, T) = f[Chosen(T)] + Total(f, T \ {Chosen(T)}) /\ Chosen(T) \in T
  BY <1>3, <1>4, TotalSteps, ChosenIsIn
<1>6. Total(f, T \ {Chosen(T)}) \in Nat
  BY <1>2, <1>5
<1>7. f[Chosen(T)] \in Nat
  BY <1>5
<1> QED BY <1>5, <1>6, <1>7

\* The order of the sum does not matter: any element may be taken off.
LEMMA TotalWithout ==
  ASSUME NEW S, IsFiniteSet(S), NEW f, \A x \in S : f[x] \in Nat
  PROVE  \A T \in SUBSET S : \A x \in T : Total(f, T) = f[x] + Total(f, T \ {x})
<1> DEFINE Bad == {T \in SUBSET S : \E x \in T : Total(f, T) # f[x] + Total(f, T \ {x})}
<1>1. SUFFICES ASSUME Bad # {} PROVE FALSE
  OBVIOUS
<1>2. PICK T \in Bad : \A U \in Bad : U \subseteq T => U = T
  <2>1. Bad \in SUBSET SUBSET S
    OBVIOUS
  <2> HIDE DEF Bad
  <2> QED BY <1>1, <2>1, SmallestSubset
<1>3. PICK x \in T : Total(f, T) # f[x] + Total(f, T \ {x})
  OBVIOUS
<1>4. PICK c : c = Chosen(T)
  OBVIOUS
<1>5. c \in T /\ Total(f, T) = f[c] + Total(f, T \ {c})
  <2>1. IsFiniteSet(T)
    BY FS_Subset
  <2> QED BY <2>1, <1>3, <1>4, TotalSteps, ChosenIsIn
<1>6. x # c
  BY <1>3, <1>5
<1> DEFINE rest == T \ {c, x}
<1>7. T \ {c} \notin Bad /\ T \ {x} \notin Bad
  BY <1>2, <1>3, <1>5
<1>8. Total(f, T \ {c}) = f[x] + Total(f, rest)
  <2>1. (T \ {c}) \ {x} = rest /\ x \in T \ {c} /\ T \ {c} \in SUBSET S
    BY <1>3, <1>6
  <2> QED BY <2>1, <1>7
<1>9. Total(f, T \ {x}) = f[c] + Total(f, rest)
  <2>1. (T \ {x}) \ {c} = rest /\ c \in T \ {x} /\ T \ {x} \in SUBSET S
    BY <1>5, <1>6
  <2> QED BY <2>1, <1>7
<1>10. f[c] \in Nat /\ f[x] \in Nat /\ Total(f, rest) \in Nat
  <2>1. rest \in SUBSET S
    OBVIOUS
  <2> QED BY <2>1, <1>3, <1>5, TotalIsNat
<1> QED BY <1>3, <1>5, <1>8, <1>9, <1>10

\* Smaller summands make no larger a sum.
LEMMA TotalIsMonotone ==
  ASSUME NEW S, IsFiniteSet(S), NEW f, NEW g,
         \A x \in S : f[x] \in Nat /\ g[x] \in Nat /\ f[x] <= g[x]
  PROVE  \A T \in SUBSET S : Total(f, T) <= Total(g, T)
<1> DEFINE Bad == {T \in SUBSET S : ~(Total(f, T) <= Total(g, T))}
<1>1. SUFFICES ASSUME Bad # {} PROVE FALSE
  OBVIOUS
<1>2. PICK T \in Bad : \A U \in Bad : U \subseteq T => U = T
  <2>1. Bad \in SUBSET SUBSET S
    OBVIOUS
  <2> HIDE DEF Bad
  <2> QED BY <1>1, <2>1, SmallestSubset
<1>3. IsFiniteSet(T)
  BY FS_Subset
<1>4. T # {}
  <2> SUFFICES ASSUME T = {} PROVE FALSE
    OBVIOUS
  <2>1. Total(f, T) = 0 /\ Total(g, T) = 0
    BY TotalOfNone
  <2>2. ~(Total(f, T) <= Total(g, T))
    OBVIOUS
  <2> QED BY <2>1, <2>2
<1>5. PICK c \in T : /\ Total(f, T) = f[c] + Total(f, T \ {c})
                     /\ Total(g, T) = g[c] + Total(g, T \ {c})
  BY <1>3, <1>4, TotalSteps, ChosenIsIn
<1>6. Total(f, T \ {c}) <= Total(g, T \ {c})
  BY <1>2
<1>7. /\ Total(f, T \ {c}) \in Nat /\ Total(g, T \ {c}) \in Nat
      /\ f[c] \in Nat /\ g[c] \in Nat /\ f[c] <= g[c]
  <2>1. T \ {c} \in SUBSET S
    OBVIOUS
  <2> QED BY <2>1, TotalIsNat
<1>8. Total(f, T) <= Total(g, T)
  BY <1>5, <1>6, <1>7
<1> QED BY <1>8

\* Fewer summands make no larger a sum.
LEMMA TotalOfFewer ==
  ASSUME NEW S, IsFiniteSet(S), NEW f, \A x \in S : f[x] \in Nat
  PROVE  \A T \in SUBSET S : \A U \in SUBSET T : Total(f, U) <= Total(f, T)
<1> DEFINE Bad == {T \in SUBSET S : \E U \in SUBSET T : ~(Total(f, U) <= Total(f, T))}
<1>1. SUFFICES ASSUME Bad # {} PROVE FALSE
  OBVIOUS
<1>2. PICK T \in Bad : \A V \in Bad : V \subseteq T => V = T
  <2>1. Bad \in SUBSET SUBSET S
    OBVIOUS
  <2> HIDE DEF Bad
  <2> QED BY <1>1, <2>1, SmallestSubset
<1>3. PICK U \in SUBSET T : ~(Total(f, U) <= Total(f, T))
  OBVIOUS
<1>4. Total(f, T) \in Nat /\ Total(f, U) \in Nat
  BY TotalIsNat
<1>5. U # T
  BY <1>3, <1>4
<1>6. PICK x \in T : x \notin U
  BY <1>5
<1>7. T \ {x} \in SUBSET S /\ U \in SUBSET (T \ {x}) /\ T \ {x} \notin Bad
  BY <1>2, <1>6
<1>8. Total(f, U) <= Total(f, T \ {x})
  BY <1>7
<1>9. Total(f, T) = f[x] + Total(f, T \ {x}) /\ f[x] \in Nat /\ Total(f, T \ {x}) \in Nat
  BY <1>7, TotalWithout, TotalIsNat
<1> QED BY <1>3, <1>4, <1>8, <1>9

\* The sum is at most its number of summands times a bound of each.
LEMMA TotalIsBounded ==
  ASSUME NEW S, IsFiniteSet(S), NEW f, \A x \in S : f[x] \in Nat, NEW b \in Nat, \A x \in S : f[x] <= b
  PROVE  \A T \in SUBSET S : Total(f, T) <= b * Cardinality(T)
<1> DEFINE Bad == {T \in SUBSET S : ~(Total(f, T) <= b * Cardinality(T))}
<1>1. SUFFICES ASSUME Bad # {} PROVE FALSE
  OBVIOUS
<1>2. PICK T \in Bad : \A U \in Bad : U \subseteq T => U = T
  <2>1. Bad \in SUBSET SUBSET S
    OBVIOUS
  <2> HIDE DEF Bad
  <2> QED BY <1>1, <2>1, SmallestSubset
<1>3. IsFiniteSet(T) /\ Cardinality(T) \in Nat
  BY FS_Subset, FS_CardinalityType
<1>4. T # {}
  <2>1. Cardinality({}) = 0
    BY FS_EmptySet
  <2>2. Total(f, {}) <= b * 0
    <3>1. Total(f, {}) = 0
      BY TotalOfNone
    <3> QED BY <3>1
  <2> QED BY <2>1, <2>2
<1>5. PICK c \in T : Total(f, T) = f[c] + Total(f, T \ {c})
  BY <1>3, <1>4, TotalSteps, ChosenIsIn
<1>6. PICK n \in Nat : Cardinality(T \ {c}) = n /\ Cardinality(T) = n + 1
  <2>1. IsFiniteSet(T \ {c}) /\ Cardinality(T \ {c}) = Cardinality(T) - 1
    BY <1>3, FS_RemoveElement
  <2>2. Cardinality(T \ {c}) \in Nat
    BY <2>1, FS_CardinalityType
  <2> QED BY <2>1, <2>2, <1>3
<1>7. Total(f, T \ {c}) <= b * n
  BY <1>2, <1>6
<1>8. Total(f, T \ {c}) \in Nat /\ f[c] \in Nat /\ f[c] <= b
  <2>1. T \ {c} \in SUBSET S
    OBVIOUS
  <2> QED BY <2>1, TotalIsNat
<1>9. b * n \in Nat /\ b * (n + 1) = b * n + b
  OBVIOUS
<1>10. Total(f, T) <= b * (n + 1)
  <2>1. PICK m \in Nat : m = b * n
    BY <1>9
  <2> QED BY <2>1, <1>5, <1>7, <1>8, <1>9
<1> QED BY <1>6, <1>10

-----------------------------------------------------------------------------
Bytes  == [d \in Doc |-> Size[d.path]]

\* There are finitely many documents.
LEMMA DocsAreFinite == IsFiniteSet(Doc)
<1> DEFINE Triple == Kb \X (Path \X (1..MaxUploads))
           f == [t \in Triple |-> [kb |-> t[1], path |-> t[2][1], nth |-> t[2][2]]]
<1>1. IsFiniteSet(Triple)
  <2>1. IsFiniteSet(1..MaxUploads)
    BY FS_Interval, KbAssumption
  <2>2. IsFiniteSet(Path \X (1..MaxUploads))
    BY <2>1, FS_Product, KbAssumption
  <2> QED BY <2>2, FS_Product, KbAssumption
<1>2. f \in Surjection(Triple, Doc)
  <2>1. f \in [Triple -> Doc]
    BY DEF Doc
  <2>2. ASSUME NEW d \in Doc
        PROVE  \E t \in Triple : f[t] = d
    <3>1. d = [kb |-> d.kb, path |-> d.path, nth |-> d.nth] /\ d.kb \in Kb /\ d.path \in Path /\ d.nth \in 1..MaxUploads
      BY DEF Doc
    <3>2. <<d.kb, <<d.path, d.nth>>>> \in Triple
      BY <3>1
    <3>3. f[<<d.kb, <<d.path, d.nth>>>>] = d
      BY <3>1, <3>2
    <3> QED BY <3>2, <3>3
  <2> QED BY <2>1, <2>2 DEF Surjection
<1> HIDE DEF Triple, f
<1> QED BY <1>1, <1>2, FS_Surjection

\* The bytes of documents are the sum of their sizes.
LEMMA BytesAreTotal ==
  ASSUME NEW D \in SUBSET Doc
  PROVE  BytesOf(D) = Total(Bytes, D)
<1> DEFINE G(g) == [s \in SUBSET D |-> IF s = {} THEN 0
                                       ELSE Size[Chosen(s).path] + g[s \ {Chosen(s)}]]
           it == CHOOSE g : g = G(g)
<1>1. BytesOf(D) = it[D]
  BY DEF BytesOf, MapThenSumSet, MapThenFoldSet, Chosen
<1>2. IsFiniteSet(D)
  BY DocsAreFinite, FS_Subset
<1>3. ASSUME NEW g
      PROVE  g = G(g) <=> Adds(Bytes, D, g)
  <2>1. \A s \in SUBSET D : s # {} => Chosen(s) \in Doc
    BY ChosenIsIn
  <2>2. G(g) = [s \in SUBSET D |-> IF s = {} THEN 0 ELSE Bytes[Chosen(s)] + g[s \ {Chosen(s)}]]
    BY <2>1 DEF Bytes
  <2> HIDE DEF G
  <2> QED BY <2>2 DEF Adds
<1>4. \E g : g = G(g)
  BY <1>2, <1>3, TotalsExist
<1>5. Adds(Bytes, D, it)
  <2> HIDE DEF G
  <2>1. it = G(it)
    BY <1>4
  <2> HIDE DEF it
  <2> QED BY <1>3, <2>1
<1> HIDE DEF it
<1>6. PICK g, h : g = it /\ h = Totals(Bytes, D)
  OBVIOUS
<1>7. Adds(Bytes, D, g) /\ Adds(Bytes, D, h)
  BY <1>2, <1>5, <1>6, TotalsExist
<1>8. \A s \in SUBSET D : s \in SUBSET D => g[s] = h[s]
  BY <1>2, <1>7, TotalsAgree
<1> QED BY <1>1, <1>6, <1>8 DEF Total

-----------------------------------------------------------------------------
\* What an upload in flight may still store.
Spare == [s \in Slots |->
            IF req[s].op = "upload" /\ req[s].remaining > 0 THEN req[s].remaining ELSE 0]

\* No upload may store more than the quota; one that was never beside another leaves
\* room for all it may still store; and each slot spends the quota once.
QuotaInv ==
  /\ \A s \in Slots : req[s].op = "upload" => req[s].remaining \in Int /\ req[s].remaining <= Quota
  /\ ~crowded =>
       /\ TotalBytes <= Quota
       /\ \A s \in Slots : req[s].op = "upload" => TotalBytes + req[s].remaining <= Quota
       /\ \A s, t \in Slots : req[s].op = "upload" /\ req[t].op = "upload" => s = t
  /\ TotalBytes + Total(Spare, Slots) <= Quota * Cardinality(Slots)

\* A step in which no upload gains anything: no row is made, and an upload goes on with
\* what it had.
Gainless ==
  /\ \A d \in Doc : HasRow(d)' => HasRow(d)
  /\ \A s \in Slots : req'[s].op = "upload" =>
       req[s].op = "upload" /\ req'[s].remaining = req[s].remaining
  /\ crowded' = crowded

\* The types that the arithmetic below needs.
LEMMA QuotaTypes ==
  /\ Quota \in Nat /\ IsFiniteSet(Slots) /\ Cardinality(Slots) \in Nat
  /\ Bytes \in [Doc -> Nat]
  /\ \A d \in Doc : Bytes[d] = Size[d.path]
<1>1. \A d \in Doc : Size[d.path] \in Nat
  BY KbAssumption DEF Doc
<1> QED BY <1>1, KbAssumption, FS_CardinalityType DEF Bytes

\* The bytes of fewer documents are no more.
LEMMA BytesOfFewer ==
  ASSUME NEW D \in SUBSET Doc, NEW E \in SUBSET D
  PROVE  BytesOf(D) \in Nat /\ BytesOf(E) \in Nat /\ BytesOf(E) <= BytesOf(D)
<1>1. BytesOf(D) = Total(Bytes, D) /\ BytesOf(E) = Total(Bytes, E)
  BY BytesAreTotal
<1>2. Total(Bytes, D) \in Nat /\ Total(Bytes, E) \in Nat
  BY QuotaTypes, DocsAreFinite, TotalIsNat
<1>3. Total(Bytes, E) <= Total(Bytes, D)
  BY QuotaTypes, DocsAreFinite, TotalOfFewer
<1> QED BY <1>1, <1>2, <1>3

\* One document more adds its bytes.
LEMMA BytesOfOneMore ==
  ASSUME NEW D \in SUBSET Doc, NEW d \in Doc, d \notin D
  PROVE  BytesOf(D \cup {d}) = BytesOf(D) + Size[d.path]
<1> DEFINE E == D \cup {d}
<1>1. E \in SUBSET Doc /\ d \in E /\ E \ {d} = D
  OBVIOUS
<1> HIDE DEF E
<1>2. Total(Bytes, E) = Bytes[d] + Total(Bytes, E \ {d})
  BY <1>1, QuotaTypes, DocsAreFinite, TotalWithout
<1>3. BytesOf(E) = Bytes[d] + BytesOf(D)
  BY <1>1, <1>2, BytesAreTotal
<1>4. Bytes[d] \in Nat /\ BytesOf(D) \in Nat /\ Bytes[d] = Size[d.path]
  BY QuotaTypes, BytesOfFewer
<1>5. BytesOf(E) = BytesOf(D) + Size[d.path]
  BY <1>3, <1>4
<1> QED BY <1>5 DEF E

\* What an upload may still store is no more than the quota.
LEMMA SpareIsNat ==
  ASSUME QuotaInv
  PROVE  /\ Spare \in [Slots -> Nat]
         /\ \A s \in Slots : Spare[s] <= Quota
BY QuotaTypes DEF QuotaInv, Spare

\* Nothing gained, nothing overdrawn.
LEMMA GainlessHolds ==
  ASSUME QuotaInv, Gainless
  PROVE  QuotaInv'
<1> PICK D \in SUBSET Doc, E \in SUBSET Doc : D = {d \in Doc : HasRow(d)} /\ E = {d \in Doc : HasRow(d)'}
  OBVIOUS
<1>1. TotalBytes = BytesOf(D) /\ TotalBytes' = BytesOf(E)
  BY DEF TotalBytes
<1>2. E \in SUBSET D
  BY DEF Gainless
<1>3. BytesOf(D) \in Nat /\ BytesOf(E) \in Nat /\ BytesOf(E) <= BytesOf(D)
  BY <1>2, BytesOfFewer
<1> PICK f, g : f = Spare /\ g = Spare'
  OBVIOUS
<1>4. f \in [Slots -> Nat] /\ g \in [Slots -> Nat] /\ (\A s \in Slots : g[s] <= f[s])
  <2>1. f \in [Slots -> Nat]
    BY SpareIsNat
  <2>2. \A s \in Slots : f[s] = IF req[s].op = "upload" /\ req[s].remaining > 0 THEN req[s].remaining ELSE 0
    BY DEF Spare
  <2>3. g = [s \in Slots |-> IF req'[s].op = "upload" /\ req'[s].remaining > 0 THEN req'[s].remaining ELSE 0]
    BY DEF Spare
  <2>4. \A s \in Slots : g[s] = 0 \/ g[s] = f[s]
    BY <2>2, <2>3 DEF Gainless
  <2>5. \A s \in Slots : g[s] \in Nat /\ g[s] <= f[s]
    BY <2>1, <2>4
  <2> QED BY <2>1, <2>3, <2>5
<1>5. Total(g, Slots) <= Total(f, Slots) /\ Total(g, Slots) \in Nat /\ Total(f, Slots) \in Nat
  BY <1>4, QuotaTypes, TotalIsMonotone, TotalIsNat
<1>6. BytesOf(D) + Total(f, Slots) <= Quota * Cardinality(Slots)
  BY <1>1 DEF QuotaInv
<1>7. BytesOf(E) + Total(g, Slots) <= Quota * Cardinality(Slots)
  <2>1. Quota * Cardinality(Slots) \in Nat
    BY QuotaTypes
  <2> QED BY <1>3, <1>5, <1>6, <2>1
<1>8. \A s \in Slots : req'[s].op = "upload" => req'[s].remaining \in Int /\ req'[s].remaining <= Quota
  BY DEF QuotaInv, Gainless
<1>9. ASSUME ~crowded'
      PROVE  /\ BytesOf(E) <= Quota
             /\ \A s \in Slots : req'[s].op = "upload" => BytesOf(E) + req'[s].remaining <= Quota
             /\ \A s, t \in Slots : req'[s].op = "upload" /\ req'[t].op = "upload" => s = t
  <2>1. /\ BytesOf(D) <= Quota
        /\ \A s \in Slots : req[s].op = "upload" =>
             req[s].remaining \in Int /\ BytesOf(D) + req[s].remaining <= Quota
        /\ \A s, t \in Slots : req[s].op = "upload" /\ req[t].op = "upload" => s = t
    BY <1>1, <1>9 DEF QuotaInv, Gainless
  <2>2. BytesOf(E) <= Quota
    BY <1>3, <2>1, QuotaTypes
  <2>3. ASSUME NEW s \in Slots, req'[s].op = "upload"
        PROVE  BytesOf(E) + req'[s].remaining <= Quota
    <3>1. PICK r \in Int : req'[s].remaining = r /\ BytesOf(D) + r <= Quota
      BY <2>1, <2>3 DEF Gainless
    <3>2. BytesOf(E) + r <= Quota
      BY <1>3, <3>1, QuotaTypes
    <3> QED BY <3>1, <3>2
  <2>4. \A s, t \in Slots : req'[s].op = "upload" /\ req'[t].op = "upload" => s = t
    BY <2>1 DEF Gainless
  <2> QED BY <2>2, <2>3, <2>4
<1>10. TotalBytes' + Total(Spare', Slots) <= Quota * Cardinality(Slots)
  BY <1>1, <1>7
<1> QED BY <1>1, <1>8, <1>9, <1>10 DEF QuotaInv

-----------------------------------------------------------------------------
\* One slot's share taken out of the sum.
LEMMA SpareOf ==
  ASSUME NEW s \in Slots, NEW f \in [Slots -> Nat], NEW g \in [Slots -> Nat],
         \A t \in Slots : t # s => g[t] = f[t]
  PROVE  \E rest \in Nat : /\ Total(f, Slots) = f[s] + rest
                           /\ Total(g, Slots) = g[s] + rest
                           /\ (\A t \in Slots : f[t] <= Quota)
                                => rest <= Quota * Cardinality(Slots \ {s})
<1> DEFINE others == Slots \ {s}
<1>1. others \in SUBSET Slots /\ IsFiniteSet(others)
  BY QuotaTypes, FS_Subset
<1>2. Total(f, Slots) = f[s] + Total(f, others) /\ Total(g, Slots) = g[s] + Total(g, others)
  BY QuotaTypes, TotalWithout
<1>3. \A h \in [Slots -> Nat] : Total(h, others) \in Nat
  BY <1>1, QuotaTypes, TotalIsNat
<1>4. Total(g, others) = Total(f, others)
  <2>1. \A t \in others : f[t] \in Nat /\ g[t] \in Nat /\ g[t] <= f[t] /\ f[t] <= g[t]
    OBVIOUS
  <2> HIDE DEF others
  <2>2. Total(g, others) <= Total(f, others) /\ Total(f, others) <= Total(g, others)
    BY <1>1, <2>1, TotalIsMonotone
  <2> QED BY <1>3, <2>2
<1>5. (\A t \in Slots : f[t] <= Quota) => Total(f, others) <= Quota * Cardinality(others)
  BY <1>1, QuotaTypes, TotalIsBounded
<1> QED BY <1>2, <1>3, <1>4, <1>5

\* An upload begins: it may store what the quota leaves, once.
LEMMA UploadHolds ==
  ASSUME KbInv, QuotaInv, NEW s \in Slots, NEW k \in Kb, Upload(s, k)
  PROVE  QuotaInv'
<1> PICK D \in SUBSET Doc : D = {d \in Doc : HasRow(d)}
  OBVIOUS
<1> PICK T : T = BytesOf(D)
  OBVIOUS
<1>1. T \in Nat /\ TotalBytes = T
  BY BytesOfFewer DEF TotalBytes
<1>2. TotalBytes' = T
  BY DEF TotalBytes, HasRow, Upload
<1>3. /\ req'[s].op = "upload" /\ req'[s].remaining = Quota - T
      /\ \A t \in Slots : t # s => req'[t] = req[t]
  <2>1. PICK n \in 1..MaxBatch : \E files \in [1..n -> Path] :
          Now(s, [NoRequest EXCEPT !.op = "upload", !.kb = k, !.at = "file", !.files = files,
                                   !.remaining = Quota - TotalBytes])
    BY DEF Upload
  <2>2. PICK files \in [1..n -> Path] :
          Now(s, [NoRequest EXCEPT !.op = "upload", !.kb = k, !.at = "file", !.files = files,
                                   !.remaining = Quota - TotalBytes])
    BY <2>1
  <2> DEFINE r == [NoRequest EXCEPT !.op = "upload", !.kb = k, !.at = "file", !.files = files,
                                    !.remaining = Quota - TotalBytes]
  <2>3. req'[s] = r /\ req' = [req EXCEPT ![s] = req'[s]]
    BY <2>2, NowSets DEF KbInv
  <2>4. r.op = "upload" /\ r.remaining = Quota - TotalBytes
    BY DEF NoRequest
  <2> HIDE DEF r
  <2> QED BY <1>1, <2>3, <2>4 DEF KbInv, Shape
<1>4. req[s].op = "idle" /\ crowded' = (crowded \/ \E t \in Slots \ {s} : req[t].op = "upload")
  BY DEF Upload, Asked
<1>5. Quota - T \in Int /\ Quota - T <= Quota /\ Quota \in Nat
  BY <1>1, QuotaTypes
<1>6. \A t \in Slots : req'[t].op = "upload" => req'[t].remaining \in Int /\ req'[t].remaining <= Quota
  BY <1>3, <1>5 DEF QuotaInv
<1>7. ASSUME ~crowded'
      PROVE  /\ T <= Quota
             /\ \A t \in Slots : req'[t].op = "upload" => T + req'[t].remaining <= Quota
             /\ \A t, u \in Slots : req'[t].op = "upload" /\ req'[u].op = "upload" => t = u
  <2>1. ~crowded /\ \A t \in Slots : t # s => req'[t].op # "upload"
    BY <1>3, <1>4, <1>7
  <2>2. T <= Quota
    BY <1>1, <2>1 DEF QuotaInv
  <2>3. T + (Quota - T) <= Quota
    BY <1>1, <1>5
  <2> QED BY <1>3, <2>1, <2>2, <2>3
<1> PICK f, g : f = Spare /\ g = Spare'
  OBVIOUS
<1>8. f \in [Slots -> Nat] /\ f[s] = 0 /\ \A t \in Slots : f[t] <= Quota
  BY <1>4, SpareIsNat DEF Spare
<1>9. g = [t \in Slots |-> IF req'[t].op = "upload" /\ req'[t].remaining > 0 THEN req'[t].remaining ELSE 0]
  BY DEF Spare
<1>10. g[s] = (IF Quota - T > 0 THEN Quota - T ELSE 0) /\ g[s] \in Nat
  BY <1>3, <1>5, <1>9
<1>11. \A t \in Slots : t # s => g[t] = f[t]
  BY <1>3, <1>9 DEF Spare
<1>12. g \in [Slots -> Nat]
  BY <1>8, <1>9, <1>10, <1>11
<1> HIDE DEF Spare
<1>13. PICK rest \in Nat : /\ Total(f, Slots) = f[s] + rest /\ Total(g, Slots) = g[s] + rest
                           /\ rest <= Quota * Cardinality(Slots \ {s})
  BY <1>8, <1>11, <1>12, SpareOf
<1>14. PICK n \in Nat : Cardinality(Slots \ {s}) = n /\ Cardinality(Slots) = n + 1
  <2>1. IsFiniteSet(Slots \ {s}) /\ Cardinality(Slots \ {s}) = Cardinality(Slots) - 1
    BY QuotaTypes, FS_RemoveElement
  <2>2. Cardinality(Slots \ {s}) \in Nat
    BY <2>1, FS_CardinalityType
  <2> QED BY <2>1, <2>2, QuotaTypes
<1>15. T + Total(g, Slots) <= Quota * Cardinality(Slots)
  <2>1. PICK m \in Nat : m = Quota * n /\ Quota * (n + 1) = m + Quota
    BY <1>5
  <2>2. rest <= m /\ T + rest <= m + Quota
    BY <1>1, <1>8, <1>13, <1>14, <2>1 DEF QuotaInv
  <2>3. T + (g[s] + rest) <= m + Quota
    BY <1>1, <1>5, <1>10, <2>2
  <2> QED BY <1>13, <1>14, <2>1, <2>3
<1> QED BY <1>2, <1>6, <1>7, <1>15 DEF QuotaInv

\* A row is made: its bytes come off what the upload may still store.
LEMMA StoreHolds ==
  ASSUME KbInv, QuotaInv, NEW s \in Slots, StoreFile(s)
  PROVE  QuotaInv'
<1> DEFINE p == Head(req[s].files)
<1>1. PICK d \in Doc :
        /\ d.path = p /\ row[d] = "none"
        /\ row' = [row EXCEPT ![d] = "pending"]
        /\ Now(s, [NextFile(s) EXCEPT !.at = "start", !.doc = d, !.remaining = @ - Size[p]])
  BY DEF StoreFile
<1> PICK size : size = Size[d.path]
  OBVIOUS
<1> PICK D \in SUBSET Doc : D = {e \in Doc : HasRow(e)}
  OBVIOUS
<1> PICK T : T = BytesOf(D)
  OBVIOUS
<1>2. T \in Nat /\ TotalBytes = T /\ size \in Nat
  BY BytesOfFewer, QuotaTypes DEF TotalBytes
<1>3. TotalBytes' = T + size
  <2>1. d \notin D
    BY <1>1 DEF HasRow, Status
  <2>2. {e \in Doc : HasRow(e)'} = D \cup {d}
    BY <1>1 DEF HasRow, Status, KbInv, Shape
  <2>3. BytesOf(D \cup {d}) = T + size
    BY <2>1, BytesOfOneMore
  <2> QED BY <2>2, <2>3 DEF TotalBytes
<1>4. req[s].op = "upload" /\ ~(size > req[s].remaining) /\ Fits(req[s])
  BY <1>1 DEF StoreFile, At, Turned, KbInv, Shape
<1> PICK have : have = req[s].remaining
  OBVIOUS
<1>5. have \in Int /\ have <= Quota /\ size <= have
  BY <1>2, <1>4 DEF QuotaInv
<1>6. /\ req'[s].op = "upload" /\ req'[s].remaining = have - size
      /\ \A t \in Slots : t # s => req'[t] = req[t]
  <2> DEFINE q == NextFile(s)
             r == [q EXCEPT !.at = "start", !.doc = d, !.remaining = @ - Size[p]]
  <2>1. req'[s] = r /\ req' = [req EXCEPT ![s] = req'[s]]
    BY <1>1, NowSets DEF KbInv
  <2>2. q = [req[s] EXCEPT !.files = Tail(@)]
    BY DEF NextFile
  <2>3. r.op = "upload" /\ r.remaining = have - size
    BY <1>1, <1>4, <2>2 DEF Fits
  <2> HIDE DEF r
  <2> QED BY <2>1, <2>3 DEF KbInv, Shape
<1>7. crowded' = crowded
  BY DEF StoreFile
<1>8. have - size \in Int /\ have - size <= Quota /\ have - size >= 0
  BY <1>2, <1>5, QuotaTypes
<1>9. \A t \in Slots : req'[t].op = "upload" => req'[t].remaining \in Int /\ req'[t].remaining <= Quota
  BY <1>6, <1>8 DEF QuotaInv
<1>10. ASSUME ~crowded'
       PROVE  /\ T + size <= Quota
              /\ \A t \in Slots : req'[t].op = "upload" => (T + size) + req'[t].remaining <= Quota
              /\ \A t, u \in Slots : req'[t].op = "upload" /\ req'[u].op = "upload" => t = u
  <2>1. T + have <= Quota /\ \A t \in Slots : req[t].op = "upload" => t = s
    BY <1>2, <1>4, <1>7, <1>10 DEF QuotaInv
  <2>2. \A t \in Slots : req'[t].op = "upload" => t = s
    BY <1>6, <2>1
  <2>3. T + size <= Quota /\ (T + size) + (have - size) <= Quota
    BY <1>2, <1>5, <2>1, QuotaTypes
  <2> QED BY <1>6, <2>2, <2>3
<1> PICK f, g : f = Spare /\ g = Spare'
  OBVIOUS
<1>11. f \in [Slots -> Nat] /\ f[s] = have
  <2>1. f[s] = IF have > 0 THEN have ELSE 0
    BY <1>4 DEF Spare
  <2>2. have >= 0
    BY <1>2, <1>5
  <2> QED BY <1>5, <2>1, <2>2, SpareIsNat
<1>12. g = [t \in Slots |-> IF req'[t].op = "upload" /\ req'[t].remaining > 0 THEN req'[t].remaining ELSE 0]
  BY DEF Spare
<1>13. g[s] = have - size
  <2>1. g[s] = IF have - size > 0 THEN have - size ELSE 0
    BY <1>6, <1>12
  <2> QED BY <1>8, <2>1
<1>14. \A t \in Slots : t # s => g[t] = f[t]
  BY <1>6, <1>12 DEF Spare
<1>15. g \in [Slots -> Nat]
  <2>1. g[s] \in Nat
    BY <1>8, <1>13
  <2> QED BY <1>11, <1>12, <1>14, <2>1
<1>16. PICK rest \in Nat : Total(f, Slots) = f[s] + rest /\ Total(g, Slots) = g[s] + rest
  BY <1>11, <1>14, <1>15, SpareOf
<1>17. (T + size) + Total(g, Slots) <= Quota * Cardinality(Slots)
  <2>1. PICK m \in Nat : m = Quota * Cardinality(Slots)
    BY QuotaTypes
  <2>2. T + (have + rest) <= m
    BY <1>2, <1>11, <1>16, <2>1 DEF QuotaInv
  <2>3. (T + size) + ((have - size) + rest) <= m
    BY <1>2, <1>5, <2>2
  <2> QED BY <1>13, <1>16, <2>1, <2>3
<1> QED BY <1>3, <1>9, <1>10, <1>17 DEF QuotaInv

-----------------------------------------------------------------------------
\* The request in a slot is no upload any more, or one with as much left.
Spends(s, r) == r.op = "upload" => req[s].op = "upload" /\ r.remaining = req[s].remaining

\* A step of one request that makes no row and gains nothing.
LEMMA StepIsGainless ==
  ASSUME KbInv, NEW s \in Slots, NEW r, Now(s, r), Spends(s, r), crowded' = crowded,
         \A d \in Doc : HasRow(d)' => HasRow(d)
  PROVE  Gainless
<1>1. req'[s] = r /\ \A t \in Slots : t # s => req'[t] = req[t]
  BY DEF Now, KbInv, Shape
<1> QED BY <1>1 DEF Spends, Gainless

\* The ways a request goes on spend nothing.
LEMMA GoingOnSpendsNothing ==
  ASSUME KbInv, NEW s \in Slots
  PROVE  /\ Spends(s, NoRequest) /\ Spends(s, NextFile(s))
         /\ \A call : Spends(s, [req[s] EXCEPT !.at = call])
         /\ \A call : Spends(s, [req[s] EXCEPT !.at = call, !.doc = NoDoc])
         /\ \A docs, call, d : Spends(s, [req[s] EXCEPT !.docs = docs, !.at = call, !.doc = d])
<1>1. Fits(req[s])
  BY DEF KbInv, Shape
<1>2. Spends(s, NoRequest)
  BY DEF Spends, NoRequest
<1>3. Spends(s, NextFile(s))
  BY <1>1 DEF Spends, NextFile, Fits
<1>4. \A call : Spends(s, [req[s] EXCEPT !.at = call])
  BY <1>1 DEF Spends, Fits
<1>5. \A call : Spends(s, [req[s] EXCEPT !.at = call, !.doc = NoDoc])
  BY <1>1 DEF Spends, Fits
<1>6. \A docs, call, d : Spends(s, [req[s] EXCEPT !.docs = docs, !.at = call, !.doc = d])
  BY <1>1 DEF Spends, Fits
<1> QED BY <1>2, <1>3, <1>4, <1>5, <1>6

\* The requests that are no uploads begin with nothing.
LEMMA OthersBegin ==
  ASSUME KbInv, NEW s \in Slots, NEW k \in Kb,
         ReindexKb(s, k) \/ DeleteDocument(s, k) \/ DeleteKb(s, k)
  PROVE  Gainless
<1>1. \A d \in Doc : HasRow(d)' => HasRow(d)
  BY DEF ReindexKb, DeleteDocument, DeleteKb, HasRow
<1>2. crowded' = crowded
  BY DEF ReindexKb, DeleteDocument, DeleteKb
<1>3. CASE ReindexKb(s, k)
  <2> DEFINE r == [NoRequest EXCEPT !.op = "reindex", !.kb = k, !.at = "fetch", !.docs = RowsOf(k)]
  <2>1. Now(s, r)
    BY <1>3 DEF ReindexKb
  <2>2. Spends(s, r)
    BY DEF Spends, NoRequest
  <2> QED BY <1>1, <1>2, <2>1, <2>2, StepIsGainless
<1>4. ASSUME NEW D, NEW r, SweepFirst(s, r, D), Spends(s, r)
      PROVE  Gainless
  <2>1. CASE Now(s, r)
    BY <1>1, <1>2, <1>4, <2>1, StepIsGainless
  <2>2. CASE UNCHANGED req
    BY <1>1, <1>2, <2>2 DEF Gainless
  <2> QED BY <1>4, <2>1, <2>2 DEF SweepFirst
<1>5. CASE DeleteDocument(s, k)
  <2>1. PICK d \in Doc :
          SweepFirst(s, [NoRequest EXCEPT !.op = "delete_doc", !.kb = k, !.at = "row", !.doc = d], {d})
    BY <1>5 DEF DeleteDocument
  <2> DEFINE r == [NoRequest EXCEPT !.op = "delete_doc", !.kb = k, !.at = "row", !.doc = d]
  <2>2. Spends(s, r)
    BY DEF Spends, NoRequest
  <2>3. SweepFirst(s, r, {d})
    BY <2>1
  <2> HIDE DEF r
  <2> QED BY <1>4, <2>2, <2>3
<1>6. CASE DeleteKb(s, k)
  <2> DEFINE r == [NoRequest EXCEPT !.op = "delete_kb", !.kb = k, !.at = "row"]
  <2>1. Spends(s, r)
    BY DEF Spends, NoRequest
  <2>2. SweepFirst(s, r, {d \in Doc : d.kb = k})
    BY <1>6 DEF DeleteKb
  <2> HIDE DEF r
  <2> QED BY <1>4, <2>1, <2>2
<1> QED BY <1>3, <1>5, <1>6

\* The calls of a request but the one that makes a row.
LEMMA CallsAreGainless ==
  ASSUME KbInv, NEW s \in Slots, Step(s), ~StoreFile(s)
  PROVE  Gainless
<1>0. Shape
  BY DEF KbInv
<1>1. crowded' = crowded
  BY DEF Step, SkipFile, EndUpload, StartIngest, Ingest, Settle, FetchDocument, SweepDocument,
         DeleteRow
<1>2. ASSUME NEW d \in Doc, HasRow(d)'
      PROVE  HasRow(d)
  <2>1. CASE row' = row
    BY <1>2, <2>1 DEF HasRow
  <2>2. ASSUME NEW st \in Status, SetStatus(req[s].doc, st)
        PROVE  HasRow(d)
    BY <1>0, <1>2, <2>2 DEF SetStatus, HasRow, Shape
  <2>3. CASE StartIngest(s)
    <3>1. "processing" \in Status
      BY DEF Status
    <3>2. row' = row \/ SetStatus(req[s].doc, "processing")
      BY <2>3 DEF StartIngest
    <3> QED BY <2>1, <2>2, <3>1, <3>2
  <2>4. CASE Settle(s)
    <3>1. req[s].at \in Status /\ SetStatus(req[s].doc, req[s].at)
      BY <2>4 DEF Settle, Status
    <3> QED BY <2>2, <3>1
  <2>5. CASE DeleteRow(s)
    BY <1>2, <2>5 DEF DeleteRow, HasRow, Status
  <2>6. CASE SkipFile(s) \/ EndUpload(s) \/ Ingest(s) \/ FetchDocument(s) \/ SweepDocument(s)
    <3>1. row' = row
      BY <2>6 DEF SkipFile, EndUpload, Ingest, FetchDocument, SweepDocument
    <3> QED BY <2>1, <3>1
  <2> QED BY <2>3, <2>4, <2>5, <2>6 DEF Step
<1>3. \E r : Now(s, r) /\ Spends(s, r)
  <2>1. CASE Done(s)
    BY <2>1, GoingOnSpendsNothing DEF Done
  <2>2. CASE LeaveDoc(s)
    BY <2>2, GoingOnSpendsNothing DEF LeaveDoc
  <2>3. ASSUME NEW call, Goto(s, call)
        PROVE  \E r : Now(s, r) /\ Spends(s, r)
    BY <2>3, GoingOnSpendsNothing DEF Goto
  <2>4. CASE SkipFile(s)
    BY <2>4, GoingOnSpendsNothing DEF SkipFile
  <2>5. CASE FetchDocument(s) /\ ~Done(s)
    <3>1. PICK d \in req[s].docs :
            Now(s, [req[s] EXCEPT !.docs = @ \ {d}, !.at = IF HasRow(d) THEN "sweep" ELSE "fetch",
                                  !.doc = IF HasRow(d) THEN d ELSE NoDoc])
      BY <2>5 DEF FetchDocument
    <3> DEFINE r == [req[s] EXCEPT !.docs = @ \ {d}, !.at = IF HasRow(d) THEN "sweep" ELSE "fetch",
                                   !.doc = IF HasRow(d) THEN d ELSE NoDoc]
    <3>2. Spends(s, r)
      BY GoingOnSpendsNothing
    <3> QED BY <3>1, <3>2
  <2>6. CASE StartIngest(s)
    <3>1. LeaveDoc(s) \/ Goto(s, "ingest")
      BY <2>6 DEF StartIngest
    <3> QED BY <2>2, <2>3, <3>1
  <2>7. CASE Ingest(s)
    <3>1. Goto(s, "ready") \/ Goto(s, "failed")
      BY <2>7 DEF Ingest
    <3> QED BY <2>3, <3>1
  <2>8. CASE SweepDocument(s)
    <3>1. Goto(s, "start") \/ Done(s)
      BY <2>8 DEF SweepDocument
    <3> QED BY <2>1, <2>3, <3>1
  <2>9. CASE EndUpload(s) \/ DeleteRow(s)
    BY <2>1, <2>9 DEF EndUpload, DeleteRow
  <2>10. CASE Settle(s)
    BY <2>2, <2>10 DEF Settle
  <2> QED BY <2>1, <2>4, <2>5, <2>6, <2>7, <2>8, <2>9, <2>10 DEF Step
<1> QED BY <1>1, <1>2, <1>3, StepIsGainless

\* Before the first request nothing is stored.
LEMMA QuotaInitHolds == Init => QuotaInv
<1> SUFFICES ASSUME Init PROVE QuotaInv
  OBVIOUS
<1>1. \A s \in Slots : req[s].op = "idle"
  BY DEF Init, NoRequest
<1>2. TotalBytes = 0
  <2>1. {d \in Doc : HasRow(d)} = {}
    BY DEF Init, HasRow, Status
  <2> PICK D \in SUBSET Doc : D = {}
    OBVIOUS
  <2>2. BytesOf(D) = 0
    BY BytesAreTotal, TotalOfNone
  <2> QED BY <2>1, <2>2 DEF TotalBytes
<1> PICK f : f = Spare
  OBVIOUS
<1>3. \A s \in Slots : f[s] = 0
  BY <1>1 DEF Spare
<1>4. Total(f, Slots) = 0
  <2>1. 0 \in Nat /\ \A s \in Slots : f[s] \in Nat /\ f[s] <= 0
    BY <1>3
  <2>2. Total(f, Slots) \in Nat
    BY <2>1, QuotaTypes, TotalIsNat
  <2>3. Total(f, Slots) <= 0 * Cardinality(Slots)
    BY <2>1, QuotaTypes, TotalIsBounded
  <2>4. 0 * Cardinality(Slots) = 0
    BY QuotaTypes
  <2> QED BY <2>2, <2>3, <2>4
<1>5. Quota * Cardinality(Slots) \in Nat
  BY QuotaTypes
<1>6. TotalBytes + Total(Spare, Slots) <= Quota * Cardinality(Slots)
  BY <1>2, <1>4, <1>5
<1>7. TotalBytes <= Quota
  BY <1>2, QuotaTypes
<1> QED BY <1>1, <1>6, <1>7 DEF QuotaInv

\* Every step keeps it: two kinds of step gain something, the others are gainless.
LEMMA QuotaNextHolds == KbInv /\ QuotaInv /\ [Next]_vars => QuotaInv'
<1> SUFFICES ASSUME KbInv, QuotaInv, [Next]_vars PROVE QuotaInv'
  OBVIOUS
<1>1. CASE Gainless
  BY <1>1, GainlessHolds
<1>2. CASE UNCHANGED vars
  BY <1>1, <1>2 DEF Gainless, vars, history, HasRow
<1>3. ASSUME ResetVectorStore \/ \E k \in Kb : CreateKb(k)
      PROVE  QuotaInv'
  BY <1>1, <1>3 DEF Gainless, ResetVectorStore, CreateKb, history, HasRow
<1>4. CASE Crash
  <2>1. \A s \in Slots : req'[s].op = "idle"
    BY <1>4 DEF Crash, NoRequest
  <2>2. Gainless
    BY <1>4, <2>1 DEF Gainless, Crash, HasRow
  <2> QED BY <1>1, <2>2
<1>5. ASSUME NEW s \in Slots, NEW k \in Kb,
             Upload(s, k) \/ ReindexKb(s, k) \/ DeleteDocument(s, k) \/ DeleteKb(s, k)
      PROVE  QuotaInv'
  BY <1>1, <1>5, UploadHolds, OthersBegin
<1>6. ASSUME NEW s \in Slots, Step(s)
      PROVE  QuotaInv'
  BY <1>1, <1>6, StoreHolds, CallsAreGainless
<1> QED BY <1>2, <1>3, <1>4, <1>5, <1>6 DEF Next

\* The rows of an owner take no more than the quota, or as many times the quota as
\* requests may be in flight once two uploads met, for any sizes, any quota and any
\* number of requests (endpoints/kb.py:186, 267).
THEOREM QuotaTheorem == Spec => []QuotaOvershootIsBounded
<1>1. QuotaInv => QuotaOvershootIsBounded
  <2> SUFFICES ASSUME QuotaInv PROVE QuotaOvershootIsBounded
    OBVIOUS
  <2> PICK f, D : f = Spare /\ D = {d \in Doc : HasRow(d)}
    OBVIOUS
  <2>1. \A s \in Slots : f[s] \in Nat
    BY SpareIsNat
  <2>2. Total(f, Slots) \in Nat
    BY <2>1, QuotaTypes, TotalIsNat
  <2>3. BytesOf(D) \in Nat /\ TotalBytes = BytesOf(D)
    BY BytesOfFewer DEF TotalBytes
  <2>4. Quota * Cardinality(Slots) \in Nat
    BY QuotaTypes
  <2>5. TotalBytes <= Quota * Cardinality(Slots)
    BY <2>2, <2>3, <2>4 DEF QuotaInv
  <2> QED BY <2>5 DEF QuotaInv, QuotaOvershootIsBounded
<1>2. Init => KbInv /\ QuotaInv
  BY KbInitHolds, QuotaInitHolds
<1>3. KbInv /\ QuotaInv /\ [Next]_vars => (KbInv /\ QuotaInv)'
  BY KbNextHolds, QuotaNextHolds
<1> QED BY <1>1, <1>2, <1>3, PTL DEF Spec
=============================================================================
