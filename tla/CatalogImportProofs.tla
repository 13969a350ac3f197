------------------------- MODULE CatalogImportProofs -------------------------
(***************************************************************************)
(* Proofs about CatalogImport for every number of rows, uploads, stops,    *)
(* kills and database errors.                                              *)
(***************************************************************************)
EXTENDS CatalogImport, TLAPS

(***************************************************************************)
(* What the updates of a row do to it.                                     *)
(***************************************************************************)

LEMMA AbsentRow == Absent \in Batch
  BY BoundsAssumption DEF Absent, Batch, States, None

\* The row is well formed, stands for the same upload, and is in state s with
\* lease l.
RowIs(b, c, s, l) ==
    /\ c \in Batch
    /\ c.upload = b.upload /\ c.owner = b.owner
    /\ c.state = s /\ c.lease = l

LEMMA ClaimedRow ==
    ASSUME NEW b \in Batch PROVE RowIs(b, Claimed(b), "extracting", "live")
  <1>1. b.attempts + 1 \in Nat
    BY DEF Batch
  <1>2. QED
    BY <1>1 DEF Batch, States, Claimed, RowIs

LEMMA ReviewableRow ==
    ASSUME NEW b \in Batch PROVE RowIs(b, Reviewable(b), "review", "none")
  BY DEF Batch, States, Reviewable, RowIs

LEMMA FailedRow ==
    ASSUME NEW b \in Batch, NEW kind \in {"transient", "permanent"}
    PROVE  \E s \in {"failed", "queued"} : RowIs(b, Failed(b, kind), s, "none")
  <1>1. CASE IsTerminal(b, kind)
    <2>1. RowIs(b, Failed(b, kind), "failed", "none")
      BY <1>1 DEF Batch, States, Failed, RowIs
    <2>2. QED
      BY <2>1
  <1>2. CASE ~IsTerminal(b, kind)
    <2>1. RowIs(b, Failed(b, kind), "queued", "none")
      BY <1>2 DEF Batch, States, Failed, RowIs
    <2>2. QED
      BY <2>1
  <1>3. QED
    BY <1>1, <1>2

LEMMA RetriedRow ==
    ASSUME NEW b \in Batch PROVE RowIs(b, Retried(b), "queued", "none")
  BY DEF Batch, States, Retried, RowIs

LEMMA AppliedRow ==
    ASSUME NEW b \in Batch PROVE RowIs(b, Applied(b), "applied", "none")
  BY DEF Batch, States, Applied, RowIs

LEMMA ExpiredRow ==
    ASSUME NEW b \in Batch PROVE RowIs(b, Expired(b), "expired", "none")
  BY DEF Batch, States, Expired, RowIs

LEMMA RecoveredRow ==
    ASSUME NEW b \in Batch PROVE RowIs(b, Recovered(b), "queued", "none")
  BY DEF Batch, States, Recovered, RowIs

LEMMA LeaseRow ==
    ASSUME NEW b \in Batch, NEW l \in {"live", "lapsed"}
    PROVE  RowIs(b, [b EXCEPT !.lease = l], b.state, l)
  BY DEF Batch, States, RowIs

LEMMA QueuedRow ==
    ASSUME NEW u \in 0..MaxUploads, NEW a \in Admins
    PROVE  /\ Queued(u, a) \in Batch
           /\ Queued(u, a).state = "queued" /\ Queued(u, a).lease = "none"
           /\ Queued(u, a).upload = u /\ Queued(u, a).owner = a
  BY BoundsAssumption DEF Batch, States, Queued, Absent, None

(***************************************************************************)
(* Type correctness.                                                       *)
(***************************************************************************)

LEMMA InitTypeOK == Init => TypeOK
  BY AbsentRow, BoundsAssumption
     DEF Init, TypeOK, None, Directory, NoDirectory, Run, NoRun, Phases

LEMMA NullRecords == NoDirectory \in Directory /\ NoRun \in Run /\ NoRun.id = None
  BY BoundsAssumption DEF Directory, NoDirectory, Run, NoRun, None

LEMMA RemoveSourcesTyped ==
    ASSUME sources \in [Ids -> Directory], NEW S, RemoveSources(S)
    PROVE  sources' \in [Ids -> Directory]
  BY NullRecords DEF RemoveSources

LEMMA LeadsTyped ==
    ASSUME TypeOK, NEW killed \in BOOLEAN, NEW next \in Phases,
           NEW running \in Run, Leads(killed, next, running),
           next = "extracting" <=> running.id # None
    PROVE  /\ phase' \in Phases /\ run' \in Run
           /\ phase' = "extracting" <=> run'.id # None
           /\ stops' \in 0..MaxStops /\ kills' \in 0..MaxKills
           /\ dbErrors' \in 0..MaxDbErrors
  BY NullRecords, BoundsAssumption DEF TypeOK, Leads, Phases

LEMMA RunningRow ==
    ASSUME TypeOK, phase = "extracting" PROVE run.id \in Ids /\ batches[run.id] \in Batch
  BY BoundsAssumption DEF TypeOK, Ids, Run, None

LEMMA TypeOKStep == TypeOK /\ [Next]_vars => TypeOK'
  <1> SUFFICES ASSUME TypeOK, [Next]_vars PROVE TypeOK'
    OBVIOUS
  <1> USE BoundsAssumption
  <1>1. CASE Boot
    BY <1>1, RemoveSourcesTyped DEF TypeOK, Boot, Phases, counters
  <1>2. CASE StartRecovers
    <2>1. batches' \in [Ids -> Batch]
      BY <1>2, RecoveredRow
         DEF TypeOK, StartRecovers, recover_expired_catalog_import_leases, RowIs
    <2>2. QED
      BY <1>2, <2>1 DEF TypeOK, StartRecovers, Phases, counters
  <1>3. ASSUME NEW killed \in BOOLEAN, Clean(killed) PROVE TypeOK'
    <2>1. batches' \in [Ids -> Batch]
      BY <1>3, ExpiredRow DEF TypeOK, Clean, ExpireFailed, RowIs
    <2>2. sources' \in [Ids -> Directory]
      BY <1>3, RemoveSourcesTyped DEF TypeOK, Clean
    <2>3. QED
      BY <1>3, <2>1, <2>2, LeadsTyped DEF TypeOK, Clean, Phases
  <1>4. ASSUME NEW i \in Ids, Claim(i) PROVE TypeOK'
    <2>1. batches' \in [Ids -> Batch]
      BY <1>4, ClaimedRow DEF TypeOK, Claim, RowIs
    <2>2. run' \in Run /\ run'.id # None
      BY <1>4 DEF TypeOK, Claim, Run, Directory, Ids, None
    <2>3. QED
      BY <1>4, <2>1, <2>2 DEF TypeOK, Claim, Phases, counters
  <1>5. CASE NothingToClaim \/ PollIntervalEnds
    BY <1>5 DEF TypeOK, NothingToClaim, PollIntervalEnds, Phases, counters
  <1>6. CASE Heartbeat
    <2>1. batches' \in [Ids -> Batch]
      BY <1>6, RunningRow, LeaseRow DEF TypeOK, Heartbeat, RowIs
    <2>2. QED
      BY <1>6, <2>1 DEF TypeOK, Heartbeat, counters
  <1>7. ASSUME NEW killed \in BOOLEAN, ExtractionReturns(killed) PROVE TypeOK'
    <2>1. run.id \in Ids /\ batches[run.id] \in Batch
      BY <1>7, RunningRow DEF ExtractionReturns
    <2>2. batches' \in [Ids -> Batch] /\ proposals' \in [Ids -> 0..MaxUploads]
      BY <1>7, <2>1, ReviewableRow DEF TypeOK, ExtractionReturns, RowIs, Run
    <2>3. sources' \in [Ids -> Directory]
      BY <1>7, RemoveSourcesTyped DEF TypeOK, ExtractionReturns
    <2>4. Leads(killed, "cleaning", NoRun)
      BY <1>7 DEF ExtractionReturns
    <2>5. phase' \in Phases /\ run' \in Run /\ (phase' = "extracting" <=> run'.id # None)
      BY <2>4, LeadsTyped, NullRecords DEF Phases
    <2>6. stops' \in 0..MaxStops /\ kills' \in 0..MaxKills /\ dbErrors' \in 0..MaxDbErrors
      BY <2>4, LeadsTyped, NullRecords DEF Phases
    <2>7. QED
      BY <1>7, <2>2, <2>3, <2>5, <2>6 DEF TypeOK, ExtractionReturns
  <1>8. ASSUME NEW kind \in {"transient", "permanent"}, ExtractionFails(kind)
        PROVE  TypeOK'
    <2>1. run.id \in Ids /\ batches[run.id] \in Batch
      BY <1>8, RunningRow DEF ExtractionFails
    <2>2. Failed(batches[run.id], kind) \in Batch
      BY <2>1, FailedRow DEF RowIs
    <2>3. batches' \in [Ids -> Batch]
      BY <1>8, <2>2 DEF TypeOK, ExtractionFails
    <2>4. QED
      BY <1>8, <2>3, NullRecords DEF TypeOK, ExtractionFails, Phases, counters
  <1>9. ASSUME NEW a \in Admins, NEW i \in Ids, NEW killed \in BOOLEAN,
               Upload(a, i, killed)
        PROVE  TypeOK'
    <2>1. uploads' \in 0..MaxUploads /\ uploads' = uploads + 1
      BY <1>9 DEF TypeOK, Upload
    <2>2. sources' \in [Ids -> Directory]
      <3>1. [upload |-> uploads + 1, old |-> FALSE] \in Directory
        BY <2>1 DEF Directory
      <3>2. \/ RemoveSources({i})
            \/ sources' = [sources EXCEPT ![i] = [upload |-> uploads + 1, old |-> FALSE]]
        BY <1>9 DEF Upload
      <3>3. QED
        BY <3>1, <3>2, RemoveSourcesTyped DEF TypeOK
    <2>3. Queued(uploads + 1, a) \in Batch
      BY <2>1, QueuedRow
    <2>4. batches' \in [Ids -> Batch]
      BY <1>9, <2>3 DEF TypeOK, Upload
    <2>5. QED
      BY <1>9, <2>1, <2>2, <2>4, LeadsTyped DEF TypeOK, Upload
  <1>10. ASSUME NEW i \in Ids, Retry(i) PROVE TypeOK'
    <2>1. batches' \in [Ids -> Batch]
      BY <1>10, RetriedRow DEF TypeOK, Retry, RowIs
    <2>2. QED
      BY <1>10, <2>1 DEF TypeOK, Retry, counters
  <1>11. ASSUME NEW i \in Ids, Apply(i) PROVE TypeOK'
    <2>1. batches' \in [Ids -> Batch]
      BY <1>11, AppliedRow DEF TypeOK, Apply, RowIs
    <2>2. published' \in [Uploads -> Nat]
      <3>1. \A u \in Uploads : published[u] \in Nat /\ published[u] + 1 \in Nat
        BY DEF TypeOK
      <3>2. QED
        BY <1>11, <3>1 DEF TypeOK, Apply
    <2>3. QED
      BY <1>11, <2>1, <2>2 DEF TypeOK, Apply, counters
  <1>12. ASSUME NEW i \in Ids, NEW killed \in BOOLEAN, Delete(i, killed)
         PROVE  TypeOK'
    <2>1. batches' \in [Ids -> Batch] /\ proposals' \in [Ids -> 0..MaxUploads]
      BY <1>12, AbsentRow DEF TypeOK, Delete, DeleteRows, None
    <2>2. sources' \in [Ids -> Directory]
      BY <1>12, RemoveSourcesTyped DEF TypeOK, Delete
    <2>3. QED
      BY <1>12, <2>1, <2>2, LeadsTyped DEF TypeOK, Delete
  <1>13. ASSUME NEW a \in Admins, DeleteAccount(a) PROVE TypeOK'
    <2>1. batches' \in [Ids -> Batch] /\ proposals' \in [Ids -> 0..MaxUploads]
      BY <1>13, AbsentRow DEF TypeOK, DeleteAccount, DeleteRows, None
    <2>2. QED
      BY <1>13, <2>1 DEF TypeOK, DeleteAccount, counters
  <1>14. ASSUME NEW i \in Ids, LeaseLapses(i) \/ SourcesAge(i) PROVE TypeOK'
    <2>1. [batches[i] EXCEPT !.lease = "lapsed"] \in Batch
      BY LeaseRow DEF TypeOK, RowIs
    <2>2. batches' \in [Ids -> Batch]
      BY <1>14, <2>1 DEF TypeOK, LeaseLapses, SourcesAge
    <2>3. sources' \in [Ids -> Directory]
      BY <1>14 DEF TypeOK, LeaseLapses, SourcesAge, Directory
    <2>4. QED
      BY <1>14, <2>2, <2>3 DEF TypeOK, LeaseLapses, SourcesAge, counters
  <1>15. CASE ProcessEnds
    BY <1>15, NullRecords DEF TypeOK, ProcessEnds, Phases
  <1>16. CASE WorkerDies
    BY <1>16, NullRecords, RemoveSourcesTyped DEF TypeOK, WorkerDies, Phases
  <1>17. CASE UNCHANGED vars
    BY <1>17 DEF TypeOK, vars, counters
  <1>18. QED
    BY <1>1, <1>2, <1>3, <1>4, <1>5, <1>6, <1>7, <1>8, <1>9, <1>10, <1>11,
       <1>12, <1>13, <1>14, <1>15, <1>16, <1>17
       DEF Next, Startup, Worker, Routes, Environment

\* Every variable keeps its type, whatever the bounds.
THEOREM TypeCorrect == Spec => []TypeOK
  BY InitTypeOK, TypeOKStep, PTL DEF Spec

(***************************************************************************)
(* The inductive invariant. Row by row: who holds a lease, whose pages the *)
(* directory holds (a failed batch included, for the retry to come), whose *)
(* pages the proposals and the run in flight were read from. Across rows:  *)
(* no two stand for the same upload, and what is published is what is      *)
(* applied.                                                                *)
(***************************************************************************)
RowOK(i) ==
    /\ batches[i].lease # "none" <=> batches[i].state = "extracting"
    /\ batches[i].state \in {"queued", "extracting"} =>
          sources[i].upload = batches[i].upload
    /\ batches[i].state = "failed" =>
          sources[i].upload \in {None, batches[i].upload}
    /\ batches[i].state = "expired" => sources[i].upload = None
    /\ batches[i].state \in {"review", "applied"} =>
          proposals[i] = batches[i].upload
    /\ phase = "extracting" /\ run.id = i /\ batches[i].state = "extracting" =>
          run.files = batches[i].upload

UploadsOK ==
    /\ \A i \in Ids : Exists(i) => batches[i].upload \in 1..uploads
    /\ \A i, j \in Ids :
          Exists(i) /\ Exists(j) /\ batches[i].upload = batches[j].upload => i = j

PublicationOK ==
    /\ PublishedAtMostOnce
    /\ \A u \in Uploads : u > uploads => published[u] = 0

IInv == TypeOK /\ (\A i \in Ids : RowOK(i)) /\ UploadsOK /\ PublicationOK

\* What each step does to the rows: RowOK survives it.
LEMMA RowsStep ==
    ASSUME TypeOK, \A j \in Ids : RowOK(j), [Next]_vars, NEW j \in Ids
    PROVE  RowOK(j)'
  <1>0. batches \in [Ids -> Batch] /\ batches[j] \in Batch /\ RowOK(j)
    BY DEF TypeOK
  <1>1. CASE Boot
    BY <1>0, <1>1 DEF Boot, RemoveSources, Sweepable, RowOK, NoDirectory,
                      SOURCE_RETAINING_BATCH_STATES
  <1>2. CASE StartRecovers
    <2>1. CASE batches[j].state = "extracting" /\ batches[j].lease = "lapsed"
      <3>1. batches'[j] = Recovered(batches[j])
        BY <1>2, <2>1 DEF StartRecovers, recover_expired_catalog_import_leases
      <3>2. QED
        BY <1>0, <1>2, <2>1, <3>1, RecoveredRow DEF StartRecovers, RowOK, RowIs
    <2>2. CASE ~(batches[j].state = "extracting" /\ batches[j].lease = "lapsed")
      <3>1. batches'[j] = batches[j]
        BY <1>2, <2>2 DEF StartRecovers, recover_expired_catalog_import_leases
      <3>2. QED
        BY <1>0, <1>2, <3>1 DEF StartRecovers, RowOK
    <2>3. QED
      BY <2>1, <2>2
  <1>3. ASSUME NEW killed \in BOOLEAN, Clean(killed) PROVE RowOK(j)'
    <2>1. phase' # "extracting" /\ proposals' = proposals
      BY <1>3 DEF Clean, Leads
    <2>2. sources'[j] = IF j \in Sweepable THEN NoDirectory ELSE sources[j]
      BY <1>3 DEF Clean, RemoveSources
    <2>3. \/ batches'[j] = batches[j]
          \/ /\ j \in Sweepable /\ batches[j].state = "failed"
             /\ batches'[j] = Expired(batches[j])
      BY <1>3 DEF Clean, ExpireFailed
    <2>4. CASE batches'[j] = batches[j]
      BY <1>0, <2>1, <2>2, <2>4
         DEF RowOK, Sweepable, NoDirectory, SOURCE_RETAINING_BATCH_STATES
    <2>5. CASE /\ j \in Sweepable /\ batches[j].state = "failed"
               /\ batches'[j] = Expired(batches[j])
      BY <1>0, <2>1, <2>2, <2>5, ExpiredRow DEF RowOK, RowIs, NoDirectory
    <2>6. QED
      BY <2>3, <2>4, <2>5
  <1>4. ASSUME NEW i \in Ids, Claim(i) PROVE RowOK(j)'
    <2>1. /\ proposals' = proposals /\ sources' = sources
          /\ run' = [id |-> i, files |-> sources[i].upload]
      BY <1>4 DEF Claim
    <2>2. CASE j = i
      <3>1. batches'[j] = Claimed(batches[j]) /\ batches[j].state = "queued"
        BY <1>0, <1>4, <2>2 DEF Claim, OldestQueued
      <3>2. QED
        BY <1>0, <2>1, <2>2, <3>1, ClaimedRow DEF RowOK, RowIs
    <2>3. CASE j # i
      <3>1. batches'[j] = batches[j]
        BY <1>0, <1>4, <2>3 DEF Claim
      <3>2. QED
        BY <1>0, <2>1, <2>3, <3>1 DEF RowOK
    <2>4. QED
      BY <2>2, <2>3
  <1>5. CASE NothingToClaim \/ PollIntervalEnds
    BY <1>0, <1>5 DEF NothingToClaim, PollIntervalEnds, RowOK
  <1>6. CASE Heartbeat
    <2>1. /\ proposals' = proposals /\ sources' = sources /\ run' = run
          /\ phase' = phase
      BY <1>6 DEF Heartbeat
    <2>2. CASE batches'[j] = batches[j]
      BY <1>0, <2>1, <2>2 DEF RowOK
    <2>3. CASE batches'[j] = [batches[j] EXCEPT !.lease = "live"]
               /\ batches[j].state = "extracting"
      BY <1>0, <2>1, <2>3, LeaseRow DEF RowOK, RowIs
    <2>4. QED
      BY <1>0, <1>6, <2>2, <2>3 DEF Heartbeat
  <1>7. ASSUME NEW killed \in BOOLEAN, ExtractionReturns(killed) PROVE RowOK(j)'
    <2>1. phase = "extracting" /\ phase' # "extracting"
      BY <1>7 DEF ExtractionReturns, Leads
    <2>2. CASE j = run.id /\ StillExtracting(run.id)
      <3>1. /\ batches'[j] = Reviewable(batches[j])
            /\ proposals'[j] = run.files /\ run.files = batches[j].upload
        BY <1>0, <1>7, <2>1, <2>2
           DEF ExtractionReturns, StillExtracting, RowOK, TypeOK
      <3>2. QED
        BY <1>0, <2>1, <3>1, ReviewableRow DEF RowOK, RowIs
    <2>3. CASE ~(j = run.id /\ StillExtracting(run.id))
      <3>1. batches'[j] = batches[j] /\ proposals'[j] = proposals[j]
            /\ sources'[j] = sources[j]
        BY <1>0, <1>7, <2>3 DEF ExtractionReturns, RemoveSources, TypeOK
      <3>2. QED
        BY <1>0, <2>1, <3>1 DEF RowOK
    <2>4. QED
      BY <2>2, <2>3
  <1>8. ASSUME NEW kind \in {"transient", "permanent"}, ExtractionFails(kind)
        PROVE  RowOK(j)'
    <2>1. /\ proposals' = proposals /\ sources' = sources
          /\ phase' # "extracting"
      BY <1>8 DEF ExtractionFails
    <2>2. CASE j = run.id /\ StillExtracting(run.id)
      <3>1. batches'[j] = Failed(batches[j], kind)
        BY <1>0, <1>8, <2>2 DEF ExtractionFails
      <3>2. QED
        BY <1>0, <2>1, <2>2, <3>1, FailedRow DEF RowOK, RowIs, StillExtracting
    <2>3. CASE ~(j = run.id /\ StillExtracting(run.id))
      <3>1. batches'[j] = batches[j]
        BY <1>0, <1>8, <2>3 DEF ExtractionFails
      <3>2. QED
        BY <1>0, <2>1, <3>1 DEF RowOK
    <2>4. QED
      BY <2>2, <2>3
  <1>9. ASSUME NEW a \in Admins, NEW i \in Ids, NEW killed \in BOOLEAN,
               Upload(a, i, killed)
        PROVE  RowOK(j)'
    <2>1. /\ proposals' = proposals
          /\ phase' = "extracting" => phase = "extracting" /\ run' = run
      BY <1>9 DEF Upload, Leads
    <2>2. CASE j # i
      <3>1. batches'[j] = batches[j] /\ sources'[j] = sources[j]
        BY <1>0, <1>9, <2>2 DEF Upload, RemoveSources, TypeOK
      <3>2. QED
        BY <1>0, <2>1, <3>1 DEF RowOK
    <2>3. CASE j = i
      <3>1. batches[j].state = "absent"
        BY <1>9, <2>3 DEF Upload, IsNextRowId, Exists, Ids
      <3>2. CASE batches'[j] = batches[j]
        BY <1>0, <2>1, <3>1, <3>2 DEF RowOK
      <3>3. CASE /\ batches'[j] = Queued(uploads + 1, a)
                 /\ sources'[j] = [upload |-> uploads + 1, old |-> FALSE]
        <4>1. uploads + 1 \in 0..MaxUploads
          BY <1>9, BoundsAssumption DEF Upload, TypeOK
        <4>2. QED
          BY <2>1, <3>3, <4>1, QueuedRow DEF RowOK
      <3>4. QED
        BY <1>0, <1>9, <2>3, <3>2, <3>3 DEF Upload, TypeOK
    <2>4. QED
      BY <2>2, <2>3
  <1>10. ASSUME NEW i \in Ids, Retry(i) PROVE RowOK(j)'
    <2>1. /\ proposals' = proposals /\ sources' = sources /\ run' = run
          /\ phase' = phase
      BY <1>10 DEF Retry
    <2>2. CASE j = i
      <3>1. /\ batches'[j] = Retried(batches[j]) /\ batches[j].state = "failed"
            /\ sources[j].upload # None
        BY <1>0, <1>10, <2>2 DEF Retry, catalog_import_sources_available
      <3>2. QED
        BY <1>0, <2>1, <3>1, RetriedRow DEF RowOK, RowIs
    <2>3. CASE j # i
      <3>1. batches'[j] = batches[j]
        BY <1>0, <1>10, <2>3 DEF Retry
      <3>2. QED
        BY <1>0, <2>1, <3>1 DEF RowOK
    <2>4. QED
      BY <2>2, <2>3
  <1>11. ASSUME NEW i \in Ids, Apply(i) PROVE RowOK(j)'
    <2>1. /\ proposals' = proposals /\ sources' = sources /\ run' = run
          /\ phase' = phase
      BY <1>11 DEF Apply
    <2>2. CASE j = i
      <3>1. batches'[j] = Applied(batches[j]) /\ batches[j].state = "review"
        BY <1>0, <1>11, <2>2 DEF Apply, AwaitsReview
      <3>2. QED
        BY <1>0, <2>1, <3>1, AppliedRow DEF RowOK, RowIs
    <2>3. CASE j # i
      <3>1. batches'[j] = batches[j]
        BY <1>0, <1>11, <2>3 DEF Apply
      <3>2. QED
        BY <1>0, <2>1, <3>1 DEF RowOK
    <2>4. QED
      BY <2>2, <2>3
  <1>12. ASSUME NEW i \in Ids, NEW killed \in BOOLEAN, Delete(i, killed)
         PROVE  RowOK(j)'
    <2>1. phase' = "extracting" => phase = "extracting" /\ run' = run
      BY <1>12 DEF Delete, Leads
    <2>2. CASE j = i
      <3>1. batches'[j] = Absent
        BY <1>12, <2>2 DEF Delete, DeleteRows
      <3>2. QED
        BY <3>1 DEF RowOK, Absent
    <2>3. CASE j # i
      <3>1. batches'[j] = batches[j] /\ proposals'[j] = proposals[j]
            /\ sources'[j] = sources[j]
        BY <1>12, <2>3 DEF Delete, DeleteRows, RemoveSources
      <3>2. QED
        BY <1>0, <2>1, <3>1 DEF RowOK
    <2>4. QED
      BY <2>2, <2>3
  <1>13. ASSUME NEW a \in Admins, DeleteAccount(a) PROVE RowOK(j)'
    <2>1. sources' = sources /\ run' = run /\ phase' = phase
      BY <1>13 DEF DeleteAccount
    <2>2. CASE batches[j].owner = a
      <3>1. batches'[j] = Absent
        BY <1>13, <2>2 DEF DeleteAccount, DeleteRows
      <3>2. QED
        BY <3>1 DEF RowOK, Absent
    <2>3. CASE batches[j].owner # a
      <3>1. batches'[j] = batches[j] /\ proposals'[j] = proposals[j]
        BY <1>13, <2>3 DEF DeleteAccount, DeleteRows
      <3>2. QED
        BY <1>0, <2>1, <3>1 DEF RowOK
    <2>4. QED
      BY <2>2, <2>3
  <1>14. ASSUME NEW i \in Ids, LeaseLapses(i) PROVE RowOK(j)'
    <2>1. /\ proposals' = proposals /\ sources' = sources /\ run' = run
          /\ phase' = phase
      BY <1>14 DEF LeaseLapses
    <2>2. CASE j = i
      <3>1. /\ batches'[j] = [batches[j] EXCEPT !.lease = "lapsed"]
            /\ batches[j].lease = "live"
        BY <1>0, <1>14, <2>2 DEF LeaseLapses
      <3>2. QED
        BY <1>0, <2>1, <3>1, LeaseRow DEF RowOK, RowIs
    <2>3. CASE j # i
      <3>1. batches'[j] = batches[j]
        BY <1>0, <1>14, <2>3 DEF LeaseLapses
      <3>2. QED
        BY <1>0, <2>1, <3>1 DEF RowOK
    <2>4. QED
      BY <2>2, <2>3
  <1>15. ASSUME NEW i \in Ids, SourcesAge(i) PROVE RowOK(j)'
    <2>1. /\ batches' = batches /\ proposals' = proposals /\ run' = run
          /\ phase' = phase
      BY <1>15 DEF SourcesAge
    <2>2. sources'[j].upload = sources[j].upload
      BY <1>15 DEF SourcesAge, TypeOK, Directory
    <2>3. QED
      BY <1>0, <2>1, <2>2 DEF RowOK
  <1>16. CASE ProcessEnds
    BY <1>0, <1>16 DEF ProcessEnds, RowOK
  <1>17. CASE WorkerDies
    <2>1. /\ batches' = batches /\ proposals' = proposals
          /\ phase' # "extracting"
      BY <1>17 DEF WorkerDies
    <2>2. sources'[j] = sources[j] \/ (j \in Sweepable /\ sources'[j] = NoDirectory)
      BY <1>17 DEF WorkerDies, RemoveSources
    <2>3. QED
      BY <1>0, <2>1, <2>2
         DEF RowOK, Sweepable, NoDirectory, SOURCE_RETAINING_BATCH_STATES
  <1>18. CASE UNCHANGED vars
    BY <1>0, <1>18 DEF vars, RowOK
  <1>19. QED
    BY <1>1, <1>2, <1>3, <1>4, <1>5, <1>6, <1>7, <1>8, <1>9, <1>10, <1>11,
       <1>12, <1>13, <1>14, <1>15, <1>16, <1>17, <1>18
       DEF Next, Startup, Worker, Routes, Environment

(***************************************************************************)
(* Across rows. A step other than an upload or an apply only removes rows, *)
(* or moves them on for the upload they stand for, and publishes nothing.  *)
(***************************************************************************)
Gone(j) == batches'[j].state = "absent"
Kept(j) == /\ Exists(j)
           /\ batches'[j].upload = batches[j].upload
           /\ batches'[j].state = "applied" <=> batches[j].state = "applied"

LEMMA KeptRow ==
    ASSUME NEW j \in Ids, NEW s, NEW l, RowIs(batches[j], batches'[j], s, l),
           batches[j].state \notin {"absent", "applied"}, s # "applied"
    PROVE  Kept(j)
  BY DEF Kept, Exists, RowIs

LEMMA SameRow ==
    ASSUME NEW j \in Ids, batches'[j] = batches[j] PROVE Gone(j) \/ Kept(j)
  BY DEF Gone, Kept, Exists

LEMMA OldRows ==
    ASSUME TypeOK, [Next]_vars
    PROVE  \/ \E a \in Admins, i \in Ids, killed \in BOOLEAN : Upload(a, i, killed)
           \/ \E i \in Ids : Apply(i)
           \/ /\ published' = published /\ uploads' = uploads
              /\ \A j \in Ids : Gone(j) \/ Kept(j)
  <1> DEFINE Quiet == /\ published' = published /\ uploads' = uploads
                      /\ \A j \in Ids : Gone(j) \/ Kept(j)
  <1>0. batches \in [Ids -> Batch] /\ \A j \in Ids : batches[j] \in Batch
    BY DEF TypeOK
  <1>1. ASSUME batches' = batches, published' = published, uploads' = uploads
        PROVE  Quiet
    BY <1>1, SameRow
  <1>2. CASE StartRecovers
    <2>1. ASSUME NEW j \in Ids PROVE Gone(j) \/ Kept(j)
      <3>1. \/ batches'[j] = batches[j]
            \/ /\ batches[j].state = "extracting"
               /\ batches'[j] = Recovered(batches[j])
        BY <1>2 DEF StartRecovers, recover_expired_catalog_import_leases
      <3>2. QED
        BY <1>0, <3>1, SameRow, RecoveredRow, KeptRow
    <2>2. QED
      BY <1>2, <2>1 DEF StartRecovers
  <1>3. ASSUME NEW killed \in BOOLEAN, Clean(killed) PROVE Quiet
    <2>1. ASSUME NEW j \in Ids PROVE Gone(j) \/ Kept(j)
      <3>1. \/ batches'[j] = batches[j]
            \/ batches[j].state = "failed" /\ batches'[j] = Expired(batches[j])
        BY <1>3 DEF Clean, ExpireFailed
      <3>2. QED
        BY <1>0, <3>1, SameRow, ExpiredRow, KeptRow
    <2>2. QED
      BY <1>3, <2>1 DEF Clean
  <1>4. ASSUME NEW i \in Ids, Claim(i) PROVE Quiet
    <2>1. ASSUME NEW j \in Ids PROVE Gone(j) \/ Kept(j)
      <3>1. \/ batches'[j] = batches[j]
            \/ batches[j].state = "queued" /\ batches'[j] = Claimed(batches[j])
        BY <1>0, <1>4 DEF Claim, OldestQueued
      <3>2. QED
        BY <1>0, <3>1, SameRow, ClaimedRow, KeptRow
    <2>2. QED
      BY <1>4, <2>1 DEF Claim
  <1>5. CASE Heartbeat
    <2>1. ASSUME NEW j \in Ids PROVE Gone(j) \/ Kept(j)
      <3>1. \/ batches'[j] = batches[j]
            \/ /\ batches[j].state = "extracting"
               /\ batches'[j] = [batches[j] EXCEPT !.lease = "live"]
        BY <1>0, <1>5 DEF Heartbeat
      <3>2. CASE /\ batches[j].state = "extracting"
                 /\ batches'[j] = [batches[j] EXCEPT !.lease = "live"]
        <4>1. RowIs(batches[j], batches'[j], "extracting", "live")
          BY <1>0, <3>2, LeaseRow
        <4>2. QED
          BY <3>2, <4>1, KeptRow
      <3>3. QED
        BY <3>1, <3>2, SameRow
    <2>2. QED
      BY <1>5, <2>1 DEF Heartbeat
  <1>6. ASSUME NEW killed \in BOOLEAN, ExtractionReturns(killed) PROVE Quiet
    <2>1. ASSUME NEW j \in Ids PROVE Gone(j) \/ Kept(j)
      <3>1. \/ batches'[j] = batches[j]
            \/ /\ batches[j].state = "extracting"
               /\ batches'[j] = Reviewable(batches[j])
        BY <1>0, <1>6 DEF ExtractionReturns, StillExtracting
      <3>2. QED
        BY <1>0, <3>1, SameRow, ReviewableRow, KeptRow
    <2>2. QED
      BY <1>6, <2>1 DEF ExtractionReturns
  <1>7. ASSUME NEW kind \in {"transient", "permanent"}, ExtractionFails(kind)
        PROVE  Quiet
    <2>1. ASSUME NEW j \in Ids PROVE Gone(j) \/ Kept(j)
      <3>1. \/ batches'[j] = batches[j]
            \/ /\ batches[j].state = "extracting"
               /\ batches'[j] = Failed(batches[j], kind)
        BY <1>0, <1>7 DEF ExtractionFails, StillExtracting
      <3>2. QED
        BY <1>0, <3>1, SameRow, FailedRow, KeptRow
    <2>2. QED
      BY <1>7, <2>1 DEF ExtractionFails
  <1>8. ASSUME NEW i \in Ids, Retry(i) PROVE Quiet
    <2>1. ASSUME NEW j \in Ids PROVE Gone(j) \/ Kept(j)
      <3>1. \/ batches'[j] = batches[j]
            \/ batches[j].state = "failed" /\ batches'[j] = Retried(batches[j])
        BY <1>0, <1>8 DEF Retry
      <3>2. QED
        BY <1>0, <3>1, SameRow, RetriedRow, KeptRow
    <2>2. QED
      BY <1>8, <2>1 DEF Retry
  <1>9. ASSUME NEW i \in Ids, NEW killed \in BOOLEAN, Delete(i, killed)
        PROVE  Quiet
    <2>1. ASSUME NEW j \in Ids PROVE Gone(j) \/ Kept(j)
      BY <1>9, SameRow DEF Delete, DeleteRows, Gone, Absent
    <2>2. QED
      BY <1>9, <2>1 DEF Delete
  <1>10. ASSUME NEW a \in Admins, DeleteAccount(a) PROVE Quiet
    <2>1. ASSUME NEW j \in Ids PROVE Gone(j) \/ Kept(j)
      BY <1>10, SameRow DEF DeleteAccount, DeleteRows, Gone, Absent
    <2>2. QED
      BY <1>10, <2>1 DEF DeleteAccount
  <1>11. ASSUME NEW i \in Ids, LeaseLapses(i) PROVE Quiet
    <2>1. ASSUME NEW j \in Ids PROVE Gone(j) \/ Kept(j)
      <3>1. \/ batches'[j] = batches[j]
            \/ batches'[j] = [batches[j] EXCEPT !.lease = "lapsed"]
        BY <1>0, <1>11 DEF LeaseLapses
      <3>2. CASE batches'[j] = [batches[j] EXCEPT !.lease = "lapsed"]
        BY <1>0, <3>2, LeaseRow DEF RowIs, Gone, Kept, Exists
      <3>3. QED
        BY <3>1, <3>2, SameRow
    <2>2. QED
      BY <1>11, <2>1 DEF LeaseLapses
  <1>12. CASE \/ Boot \/ NothingToClaim \/ PollIntervalEnds \/ ProcessEnds
              \/ WorkerDies \/ (\E i \in Ids : SourcesAge(i)) \/ UNCHANGED vars
    BY <1>1, <1>12 DEF Boot, NothingToClaim, PollIntervalEnds, ProcessEnds,
                       WorkerDies, SourcesAge, vars
  <1>13. QED
    BY <1>2, <1>3, <1>4, <1>5, <1>6, <1>7, <1>8, <1>9, <1>10, <1>11, <1>12
       DEF Next, Startup, Worker, Routes, Environment

\* What an upload that is admitted, or fails, leaves behind.
LEMMA UploadRows ==
    ASSUME TypeOK, NEW a \in Admins, NEW i \in Ids, NEW killed \in BOOLEAN,
           Upload(a, i, killed)
    PROVE  /\ ~Exists(i)
           /\ uploads' = uploads + 1 /\ uploads' \in Uploads
           /\ published' = published
           /\ \A j \in Ids : j # i => batches'[j] = batches[j]
           /\ \/ Gone(i)
              \/ batches'[i].state = "queued" /\ batches'[i].upload = uploads + 1
  <1>1. ~Exists(i)
    BY DEF Upload, IsNextRowId, Ids
  <1>2. uploads' = uploads + 1 /\ uploads' \in Uploads /\ uploads + 1 \in 0..MaxUploads
    BY BoundsAssumption DEF Upload, TypeOK, Uploads
  <1>3. CASE batches' = batches
    BY <1>1, <1>2, <1>3 DEF Upload, Gone, Exists
  <1>4. CASE batches' = [batches EXCEPT ![i] = Queued(uploads + 1, a)]
    <2>1. batches'[i] = Queued(uploads + 1, a)
      BY <1>4 DEF TypeOK
    <2>2. QED
      BY <1>1, <1>2, <1>4, <2>1, QueuedRow DEF Upload
  <1>5. QED
    BY <1>3, <1>4 DEF Upload

LEMMA ApplyRows ==
    ASSUME TypeOK, NEW i \in Ids, Apply(i)
    PROVE  /\ batches[i].state = "review" /\ batches'[i].state = "applied"
           /\ batches'[i].upload = batches[i].upload
           /\ uploads' = uploads
           /\ published' = [published EXCEPT ![proposals[i]] = @ + 1]
           /\ \A j \in Ids : j # i => batches'[j] = batches[j]
  <1>1. batches'[i] = Applied(batches[i]) /\ batches[i] \in Batch
    BY DEF Apply, TypeOK
  <1>2. QED
    BY <1>1, AppliedRow DEF Apply, AwaitsReview, RowIs

LEMMA UploadsStep ==
    ASSUME TypeOK, UploadsOK, [Next]_vars PROVE UploadsOK'
  <1>0. uploads \in Nat
    BY BoundsAssumption DEF TypeOK
  <1>1. ASSUME NEW a \in Admins, NEW i \in Ids, NEW killed \in BOOLEAN,
               Upload(a, i, killed)
        PROVE  UploadsOK'
    BY <1>0, <1>1, UploadRows DEF UploadsOK, Exists, Gone
  <1>2. ASSUME NEW i \in Ids, Apply(i) PROVE UploadsOK'
    BY <1>0, <1>2, ApplyRows DEF UploadsOK, Exists
  <1>3. CASE uploads' = uploads /\ \A j \in Ids : Gone(j) \/ Kept(j)
    BY <1>0, <1>3 DEF UploadsOK, Exists, Gone, Kept
  <1>4. QED
    BY <1>1, <1>2, <1>3, OldRows

LEMMA PublicationStep ==
    ASSUME TypeOK, \A j \in Ids : RowOK(j), UploadsOK, PublicationOK, [Next]_vars
    PROVE  PublicationOK'
  <1>0. /\ uploads \in Nat /\ published \in [Uploads -> Nat]
        /\ \A j \in Ids : Exists(j) => batches[j].upload \in Uploads
    BY BoundsAssumption DEF TypeOK, UploadsOK, Uploads
  <1>1. ASSUME NEW a \in Admins, NEW i \in Ids, NEW killed \in BOOLEAN,
               Upload(a, i, killed)
        PROVE  PublicationOK'
    <2>1. published[uploads + 1] = 0
      BY <1>0, <1>1, UploadRows DEF PublicationOK
    <2>2. \A u \in Uploads : u > uploads' => published'[u] = 0
      <3>1. uploads' = uploads + 1 /\ published' = published
        BY <1>1, UploadRows
      <3>2. \A u \in Uploads : u > uploads + 1 => u > uploads
        BY <1>0 DEF Uploads
      <3>3. QED
        BY <3>1, <3>2 DEF PublicationOK
    <2>3. QED
      BY <1>0, <1>1, <2>1, <2>2, UploadRows
         DEF PublicationOK, PublishedAtMostOnce, Exists, Gone
  <1>2. ASSUME NEW i \in Ids, Apply(i) PROVE PublicationOK'
    <2>1. /\ Exists(i) /\ proposals[i] = batches[i].upload
          /\ batches[i].upload \in Uploads /\ batches[i].upload \in 1..uploads
      BY <1>0, <1>2, ApplyRows DEF RowOK, UploadsOK, Exists
    <2>2. published[batches[i].upload] = 0
      BY <1>0, <1>2, <2>1, ApplyRows DEF PublicationOK, PublishedAtMostOnce
    <2>3. /\ published'[batches[i].upload] = 1
          /\ \A u \in Uploads : u # batches[i].upload => published'[u] = published[u]
      BY <1>0, <1>2, <2>1, <2>2, ApplyRows
    <2>4. \A u \in Uploads : published'[u] <= 1 /\ (u > uploads' => published'[u] = 0)
      BY <1>0, <1>2, <2>1, <2>3, ApplyRows DEF PublicationOK, PublishedAtMostOnce
    <2>5. ASSUME NEW j \in Ids, Exists(j)'
          PROVE  published'[batches'[j].upload] = 1 <=> batches'[j].state = "applied"
      <3>1. CASE j = i
        BY <1>2, <2>3, <3>1, ApplyRows
      <3>2. CASE j # i
        <4>1. batches'[j] = batches[j] /\ Exists(j)
          BY <1>2, <2>5, <3>2, ApplyRows DEF Exists
        <4>2. batches[j].upload # batches[i].upload /\ batches[j].upload \in Uploads
          BY <1>0, <2>1, <3>2, <4>1 DEF UploadsOK
        <4>3. QED
          BY <2>3, <4>1, <4>2 DEF PublicationOK, PublishedAtMostOnce
      <3>3. QED
        BY <3>1, <3>2
    <2>6. QED
      BY <2>4, <2>5 DEF PublicationOK, PublishedAtMostOnce
  <1>3. CASE /\ published' = published /\ uploads' = uploads
             /\ \A j \in Ids : Gone(j) \/ Kept(j)
    BY <1>0, <1>3 DEF PublicationOK, PublishedAtMostOnce, Exists, Gone, Kept
  <1>4. QED
    BY <1>1, <1>2, <1>3, OldRows

LEMMA InitIInv == Init => IInv
  <1> SUFFICES ASSUME Init PROVE IInv
    OBVIOUS
  <1>1. \A i \in Ids : RowOK(i) /\ ~Exists(i)
    BY DEF Init, RowOK, Exists, Absent
  <1>2. QED
    BY <1>1, InitTypeOK
       DEF Init, IInv, UploadsOK, PublicationOK, PublishedAtMostOnce

LEMMA IInvStep == IInv /\ [Next]_vars => IInv'
  <1> SUFFICES ASSUME IInv, [Next]_vars PROVE IInv'
    OBVIOUS
  <1>1. TypeOK'
    BY TypeOKStep DEF IInv
  <1>2. \A j \in Ids : RowOK(j)'
    BY RowsStep DEF IInv
  <1>3. UploadsOK' /\ PublicationOK'
    BY UploadsStep, PublicationStep DEF IInv
  <1>4. QED
    BY <1>1, <1>2, <1>3 DEF IInv

\* The inductive invariant holds in every reachable state.
THEOREM Invariance == Spec => []IInv
  BY InitIInv, IInvStep, PTL DEF Spec

LEMMA IInvImplies ==
    ASSUME IInv
    PROVE  /\ RunnableHasSources /\ ProposalsAreOwn /\ LeaseIffExtracting
           /\ PublishedAtMostOnce /\ RunOwnsItsBatch /\ ExpiredHasNoSources
  <1>1. phase = "extracting" => run.id \in Ids
    BY RunningRow DEF IInv
  <1>2. QED
    BY <1>1 DEF IInv, RowOK, PublicationOK, RunnableHasSources, ProposalsAreOwn,
                LeaseIffExtracting, RunOwnsItsBatch, ExpiredHasNoSources,
                InStates, catalog_import_sources_available

(***************************************************************************)
(* The safety properties, for every value of the constants.                *)
(***************************************************************************)

\* A queued or running batch has its own pages on disk, whatever sweeps,
\* failed uploads, reused ids and process ends came before.
THEOREM PagesAreThere == Spec => []RunnableHasSources
  <1>1. IInv => RunnableHasSources
    BY IInvImplies
  <1>2. QED
    BY <1>1, Invariance, PTL

\* The proposals under review or applied were read from the pages of their own
\* upload, also when an id was reused under a running extraction.
THEOREM ProposalsMatch == Spec => []ProposalsAreOwn
  <1>1. IInv => ProposalsAreOwn
    BY IInvImplies
  <1>2. QED
    BY <1>1, Invariance, PTL

\* A running extraction never reports into another upload's extraction.
THEOREM RunsMatch == Spec => []RunOwnsItsBatch
  <1>1. IInv => RunOwnsItsBatch
    BY IInvImplies
  <1>2. QED
    BY <1>1, Invariance, PTL

\* The lease bookkeeping never drifts from the state.
THEOREM LeasesMatch == Spec => []LeaseIffExtracting
  <1>1. IInv => LeaseIffExtracting
    BY IInvImplies
  <1>2. QED
    BY <1>1, Invariance, PTL

\* No upload is written to the shared catalog twice, and of the rows exactly
\* the applied ones have been.
THEOREM PublishedOnce == Spec => []PublishedAtMostOnce
  <1>1. IInv => PublishedAtMostOnce
    BY IInvImplies
  <1>2. QED
    BY <1>1, Invariance, PTL

\* A batch is expired only once its pages are gone, torn sweeps included.
THEOREM ExpiryIsHonest == Spec => []ExpiredHasNoSources
  <1>1. IInv => ExpiredHasNoSources
    BY IInvImplies
  <1>2. QED
    BY <1>1, Invariance, PTL

(***************************************************************************)
(* How often an upload is extracted. A batch that waits, or that a process *)
(* before this one has left extracting, is one short of the bound, so that *)
(* there is room for the attempt that the next claim counts.               *)
(***************************************************************************)
Unattended(j) == batches[j].state = "extracting" /\ phase \in {"down", "booted"}

AttemptsOK(j) ==
    /\ batches[j].attempts <= MAX_AUTOMATIC_ATTEMPTS + stops + kills
    /\ batches[j].state = "queued" \/ Unattended(j) =>
          batches[j].attempts < MAX_AUTOMATIC_ATTEMPTS + stops + kills

\* What a step may do to the row and its count.
Counted(j) ==
    LET b == batches[j]
        c == batches'[j]
    IN  \/ c.state = b.state /\ c.attempts = b.attempts
        \/ c.state \notin {"queued", "extracting"} /\ c.attempts \in {0, b.attempts}
        \/ c.state = "queued" /\ c.attempts < MAX_AUTOMATIC_ATTEMPTS
        \/ /\ b.state = "extracting" /\ phase = "booted"
           /\ c.state = "queued" /\ c.attempts = b.attempts
        \/ /\ b.state = "queued" /\ phase' = "extracting"
           /\ c.state = "extracting" /\ c.attempts = b.attempts + 1

LEMMA AttemptsOf ==
    ASSUME NEW b \in Batch, NEW u, NEW a
    PROVE  /\ b.attempts \in Nat
           /\ Claimed(b).state = "extracting" /\ Claimed(b).attempts = b.attempts + 1
           /\ Reviewable(b).state = "review" /\ Reviewable(b).attempts = b.attempts
           /\ Retried(b).state = "queued" /\ Retried(b).attempts = 0
           /\ Applied(b).state = "applied" /\ Applied(b).attempts = b.attempts
           /\ Expired(b).state = "expired" /\ Expired(b).attempts = b.attempts
           /\ Recovered(b).state = "queued" /\ Recovered(b).attempts = b.attempts
           /\ Queued(u, a).state = "queued" /\ Queued(u, a).attempts = 0
           /\ Absent.state = "absent" /\ Absent.attempts = 0
  BY DEF Batch, Claimed, Reviewable, Retried, Applied, Expired, Recovered, Queued, Absent

LEMMA AttemptsOfFailed ==
    ASSUME NEW b \in Batch, NEW kind
    PROVE  /\ Failed(b, kind).attempts = b.attempts
           /\ Failed(b, kind).state \in {"failed", "queued"}
           /\ Failed(b, kind).state = "queued" => b.attempts < MAX_AUTOMATIC_ATTEMPTS
  BY DEF Batch, Failed, IsTerminal, MAX_AUTOMATIC_ATTEMPTS

\* Only an end of the process, which is counted, leaves no process.
LEMMA EndsStep ==
    ASSUME TypeOK, [Next]_vars
    PROVE  /\ stops' \in Nat /\ kills' \in Nat /\ stops' >= stops /\ kills' >= kills
           /\ \/ phase' \notin {"down", "booted"}
              \/ phase \in {"down", "booted"}
              \/ stops' + kills' > stops + kills
  <1>0. stops \in Nat /\ kills \in Nat
    BY BoundsAssumption DEF TypeOK
  <1>1. CASE UNCHANGED <<phase, stops, kills>>
    BY <1>0, <1>1
  <1>2. CASE Startup
    BY <1>0, <1>2 DEF Startup, Boot, StartRecovers, counters
  <1>3. ASSUME NEW killed \in BOOLEAN, NEW next, NEW running, Leads(killed, next, running),
               killed \/ next \notin {"down", "booted"} \/ next = phase
        PROVE  /\ stops' \in Nat /\ kills' \in Nat /\ stops' >= stops /\ kills' >= kills
               /\ \/ phase' \notin {"down", "booted"}
                  \/ phase \in {"down", "booted"}
                  \/ stops' + kills' > stops + kills
    BY <1>0, <1>3 DEF Leads
  <1>4. ASSUME NEW killed \in BOOLEAN, Clean(killed) \/ ExtractionReturns(killed)
        PROVE  \E next \in {"cleaning", "claiming"} :
                   \E running : Leads(killed, next, running)
    BY <1>4 DEF Clean, ExtractionReturns
  <1>5. ASSUME NEW killed \in BOOLEAN, NEW i \in Ids, NEW a \in Admins,
               Upload(a, i, killed) \/ Delete(i, killed)
        PROVE  Leads(killed, phase, run)
    BY <1>5 DEF Upload, Delete
  <1>6. CASE \E killed \in BOOLEAN : Clean(killed) \/ ExtractionReturns(killed)
    BY <1>3, <1>4, <1>6
  <1>7. CASE \/ \E a \in Admins, i \in Ids, killed \in BOOLEAN : Upload(a, i, killed)
             \/ \E i \in Ids, killed \in BOOLEAN : Delete(i, killed)
    <2>1. CASE \E a \in Admins, i \in Ids, killed \in BOOLEAN : Upload(a, i, killed)
      BY <1>3, <1>5, <2>1
    <2>2. ASSUME NEW i \in Ids, NEW killed \in BOOLEAN, Delete(i, killed)
          PROVE  Leads(killed, phase, run)
      BY <2>2 DEF Delete
    <2>3. QED
      BY <1>3, <1>7, <2>1, <2>2
  <1>8. CASE \/ \E i \in Ids : Claim(i)
             \/ NothingToClaim \/ PollIntervalEnds
             \/ \E kind \in {"transient", "permanent"} : ExtractionFails(kind)
    BY <1>0, <1>8 DEF Claim, NothingToClaim, PollIntervalEnds, ExtractionFails, counters
  <1>9. CASE Heartbeat \/ \E i \in Ids : Retry(i) \/ Apply(i)
    BY <1>1, <1>9 DEF Heartbeat, Retry, Apply, counters
  <1>10. CASE \/ \E a \in Admins : DeleteAccount(a)
              \/ \E i \in Ids : LeaseLapses(i) \/ SourcesAge(i)
    BY <1>1, <1>10 DEF DeleteAccount, LeaseLapses, SourcesAge, counters
  <1>11. CASE ProcessEnds
    BY <1>0, <1>11 DEF ProcessEnds
  <1>12. CASE WorkerDies
    BY <1>0, <1>12 DEF WorkerDies
  <1>13. CASE UNCHANGED vars
    BY <1>1, <1>13 DEF vars, counters
  <1>14. QED
    BY <1>2, <1>6, <1>7, <1>8, <1>9, <1>10, <1>11, <1>12, <1>13
       DEF Next, Worker, Routes, Environment

LEMMA CountedStep ==
    ASSUME TypeOK, [Next]_vars, NEW j \in Ids
    PROVE  Counted(j)
  <1>0. batches \in [Ids -> Batch] /\ batches[j] \in Batch /\ batches[j].attempts \in Nat
    BY DEF TypeOK, Batch
  <1>1. CASE batches'[j] = batches[j]
    BY <1>1 DEF Counted
  <1>2. CASE StartRecovers
    <2>1. \/ batches'[j] = batches[j]
          \/ batches[j].state = "extracting" /\ batches'[j] = Recovered(batches[j])
      BY <1>2 DEF StartRecovers, recover_expired_catalog_import_leases
    <2>2. QED
      BY <1>0, <1>1, <1>2, <2>1, AttemptsOf DEF Counted, StartRecovers
  <1>3. ASSUME NEW killed \in BOOLEAN, Clean(killed) PROVE Counted(j)
    <2>1. batches'[j] = batches[j] \/ batches'[j] = Expired(batches[j])
      BY <1>3 DEF Clean, ExpireFailed
    <2>2. QED
      BY <1>0, <1>1, <2>1, AttemptsOf DEF Counted
  <1>4. ASSUME NEW i \in Ids, Claim(i) PROVE Counted(j)
    <2>1. CASE j = i
      <3>1. /\ batches'[j] = Claimed(batches[j]) /\ batches[j].state = "queued"
            /\ phase' = "extracting"
        BY <1>0, <1>4, <2>1 DEF Claim, OldestQueued
      <3>2. QED
        BY <1>0, <3>1, AttemptsOf DEF Counted
    <2>2. CASE j # i
      BY <1>0, <1>1, <1>4, <2>2 DEF Claim
    <2>3. QED
      BY <2>1, <2>2
  <1>5. CASE Heartbeat
    <2>1. batches'[j] = batches[j] \/ batches'[j] = [batches[j] EXCEPT !.lease = "live"]
      BY <1>0, <1>5 DEF Heartbeat
    <2>2. /\ [batches[j] EXCEPT !.lease = "live"].state = batches[j].state
          /\ [batches[j] EXCEPT !.lease = "live"].attempts = batches[j].attempts
      BY <1>0 DEF Batch
    <2>3. QED
      BY <1>1, <2>1, <2>2 DEF Counted
  <1>6. ASSUME NEW killed \in BOOLEAN, ExtractionReturns(killed) PROVE Counted(j)
    <2>1. batches'[j] = batches[j] \/ batches'[j] = Reviewable(batches[j])
      BY <1>0, <1>6 DEF ExtractionReturns
    <2>2. QED
      BY <1>0, <1>1, <2>1, AttemptsOf DEF Counted
  <1>7. ASSUME NEW kind \in {"transient", "permanent"}, ExtractionFails(kind) PROVE Counted(j)
    <2>1. batches'[j] = batches[j] \/ batches'[j] = Failed(batches[j], kind)
      BY <1>0, <1>7 DEF ExtractionFails
    <2>2. QED
      BY <1>0, <1>1, <2>1, AttemptsOfFailed DEF Counted
  <1>8. ASSUME NEW a \in Admins, NEW i \in Ids, NEW killed \in BOOLEAN, Upload(a, i, killed)
        PROVE  Counted(j)
    <2>1. batches'[j] = batches[j] \/ batches'[j] = Queued(uploads + 1, a)
      BY <1>0, <1>8 DEF Upload
    <2>2. QED
      BY <1>0, <1>1, <2>1, AttemptsOf DEF Counted, MAX_AUTOMATIC_ATTEMPTS
  <1>9. ASSUME NEW i \in Ids, Retry(i) \/ Apply(i) PROVE Counted(j)
    <2>1. \/ batches'[j] = batches[j]
          \/ batches'[j] = Retried(batches[j])
          \/ batches'[j] = Applied(batches[j])
      BY <1>0, <1>9 DEF Retry, Apply
    <2>2. QED
      BY <1>0, <1>1, <2>1, AttemptsOf DEF Counted, MAX_AUTOMATIC_ATTEMPTS
  <1>10. CASE \/ \E i \in Ids, killed \in BOOLEAN : Delete(i, killed)
              \/ \E a \in Admins : DeleteAccount(a)
    <2>1. batches'[j] = batches[j] \/ batches'[j] = Absent
      BY <1>10 DEF Delete, DeleteAccount, DeleteRows
    <2>2. QED
      BY <1>0, <1>1, <2>1, AttemptsOf DEF Counted
  <1>11. ASSUME NEW i \in Ids, LeaseLapses(i) \/ SourcesAge(i) PROVE Counted(j)
    <2>1. batches'[j] = batches[j] \/ batches'[j] = [batches[j] EXCEPT !.lease = "lapsed"]
      BY <1>0, <1>11 DEF LeaseLapses, SourcesAge
    <2>2. /\ [batches[j] EXCEPT !.lease = "lapsed"].state = batches[j].state
          /\ [batches[j] EXCEPT !.lease = "lapsed"].attempts = batches[j].attempts
      BY <1>0 DEF Batch
    <2>3. QED
      BY <1>1, <2>1, <2>2 DEF Counted
  <1>12. CASE \/ Boot \/ NothingToClaim \/ PollIntervalEnds
              \/ ProcessEnds \/ WorkerDies \/ UNCHANGED vars
    BY <1>1, <1>12
       DEF Boot, NothingToClaim, PollIntervalEnds, ProcessEnds, WorkerDies, vars
  <1>13. QED
    BY <1>2, <1>3, <1>4, <1>5, <1>6, <1>7, <1>8, <1>9, <1>10, <1>11, <1>12
       DEF Next, Startup, Worker, Routes, Environment

LEMMA AttemptsStep ==
    TypeOK /\ [Next]_vars /\ (\A j \in Ids : AttemptsOK(j)) => \A j \in Ids : AttemptsOK(j)'
  <1> SUFFICES ASSUME TypeOK, [Next]_vars, NEW j \in Ids, AttemptsOK(j)
               PROVE  AttemptsOK(j)'
    OBVIOUS
  <1>1. batches[j].attempts \in Nat /\ stops \in Nat /\ kills \in Nat
    BY BoundsAssumption DEF TypeOK, Batch
  <1>2. /\ stops' \in Nat /\ kills' \in Nat /\ stops' >= stops /\ kills' >= kills
        /\ \/ phase' \notin {"down", "booted"}
           \/ phase \in {"down", "booted"}
           \/ stops' + kills' > stops + kills
    BY EndsStep
  <1>3. Counted(j)
    BY CountedStep
  <1>4. MAX_AUTOMATIC_ATTEMPTS \in Nat /\ MAX_AUTOMATIC_ATTEMPTS > 0
    BY DEF MAX_AUTOMATIC_ATTEMPTS
  <1>5. batches'[j].attempts \in Nat
    BY TypeOKStep DEF TypeOK, Batch
  <1> DEFINE b == batches[j]
             c == batches'[j]
             most == MAX_AUTOMATIC_ATTEMPTS + stops + kills
  <1>6. /\ b.attempts <= most
        /\ b.state = "queued" \/ Unattended(j) => b.attempts < most
        /\ most \in Nat /\ most' \in Nat /\ most' >= most
        /\ phase' \in {"down", "booted"} /\ phase \notin {"down", "booted"} => most' > most
        /\ MAX_AUTOMATIC_ATTEMPTS <= most'
    BY <1>1, <1>2, <1>4 DEF AttemptsOK, MAX_AUTOMATIC_ATTEMPTS
  <1>7. SUFFICES /\ c.attempts <= most'
                 /\ \/ c.state = "queued"
                    \/ c.state = "extracting" /\ phase' \in {"down", "booted"}
                    => c.attempts < most'
    BY DEF AttemptsOK, Unattended, MAX_AUTOMATIC_ATTEMPTS
  <1> HIDE DEF most
  <1>8. CASE c.state = b.state /\ c.attempts = b.attempts
    BY <1>1, <1>6, <1>8 DEF Unattended
  <1>9. CASE c.state \notin {"queued", "extracting"} /\ c.attempts \in {0, b.attempts}
    BY <1>1, <1>6, <1>9
  <1>10. CASE c.state = "queued" /\ c.attempts < MAX_AUTOMATIC_ATTEMPTS
    BY <1>4, <1>5, <1>6, <1>10
  <1>11. CASE /\ b.state = "extracting" /\ phase = "booted"
              /\ c.state = "queued" /\ c.attempts = b.attempts
    BY <1>1, <1>6, <1>11 DEF Unattended
  <1>12. CASE /\ b.state = "queued" /\ phase' = "extracting"
              /\ c.state = "extracting" /\ c.attempts = b.attempts + 1
    BY <1>1, <1>6, <1>12
  <1>13. QED
    BY <1>3, <1>8, <1>9, <1>10, <1>11, <1>12 DEF Counted

\* An upload costs no more extractions than the automatic attempts and the ends
\* of the process account for, until an administrator asks for more.
THEOREM AttemptsBounded == Spec => []AttemptsAreBounded
  <1> DEFINE AttemptsInv == \A j \in Ids : AttemptsOK(j)
  <1>1. Init => AttemptsInv
    BY DEF Init, AttemptsOK, Unattended, Absent, MAX_AUTOMATIC_ATTEMPTS
  <1>2. AttemptsInv => AttemptsAreBounded
    BY DEF AttemptsOK, AttemptsAreBounded
  <1>3. TypeOK /\ [Next]_vars /\ AttemptsInv => AttemptsInv'
    BY AttemptsStep
  <1> HIDE DEF AttemptsInv
  <1>4. QED
    BY <1>1, <1>2, <1>3, TypeCorrect, PTL DEF Spec

=============================================================================
