--------------------------- MODULE CatalogImport ---------------------------
(***************************************************************************)
(* The durable catalog-import queue: the batch rows of SQLite, the staged  *)
(* source directories beside the database, the one extraction worker that  *)
(* the application's lifespan owns, and the administrator's routes.        *)
(*                                                                         *)
(* One uvicorn process runs one event loop. Code between two awaits is     *)
(* atomic for every other handler, so an action is one such stretch, or a  *)
(* part of one at whose end the process may die. Where a stretch changes   *)
(* the database and the file system one after the other, the action takes a *)
(* parameter `killed`: the process died between the two.                   *)
(*                                                                         *)
(* Row ids are INTEGER PRIMARY KEY without AUTOINCREMENT: SQLite hands out *)
(* the largest id in the table plus one, so the id of a deleted batch comes *)
(* back while its directory, or the extraction of its predecessor, is still *)
(* about. Every upload therefore has a serial number, which the code knows *)
(* as created_at, and a directory, an extraction and a set of proposals are *)
(* modelled by the serial number of the upload whose pages they hold.      *)
(*                                                                         *)
(* A definition that stands directly above the one it varies, with no      *)
(* comment of its own, is a wrong version of it: the properties below are  *)
(* seen to fail when it takes the other's place.                           *)
(***************************************************************************)
EXTENDS Naturals, FiniteSets

CONSTANTS
    Admins,         \* administrator accounts
    NoAdmin,        \* the owner of a row that does not exist
    MaxId,          \* bound on row ids
    MaxUploads,     \* bound on uploads
    Capacity,       \* CATALOG_IMPORT_QUEUE_CAPACITY
    MaxStops,       \* bound on process ends between two steps
    MaxKills,       \* bound on process ends inside a step
    MaxDbErrors,    \* bound on database errors that escape the worker
    EarlyRestart    \* may the process come back before the leases lapse?

ASSUME BoundsAssumption ==
    /\ MaxId \in Nat /\ MaxUploads \in Nat /\ Capacity \in Nat
    /\ MaxStops \in Nat /\ MaxKills \in Nat /\ MaxDbErrors \in Nat
    /\ EarlyRestart \in BOOLEAN
    /\ NoAdmin \notin Admins

VARIABLES
    batches,    \* catalog_import_batches, by row id
    proposals,  \* catalog_import_proposals, by batch id: the upload they show
    sources,    \* DATA_DIR/catalog-imports/<id>
    published,  \* per upload: times its proposals were written to catalog_prices
    accounts,   \* administrator accounts that still exist
    uploads,    \* serial number of the latest upload
    phase,      \* where the process and its worker task are
    run,        \* the extraction in flight
    stops, kills, dbErrors

counters == <<stops, kills, dbErrors>>
vars == <<batches, proposals, sources, published, accounts, uploads,
          phase, run, counters>>

---------------------------------------------------------------------------
Ids == 1..MaxId
Uploads == 1..MaxUploads
None == 0

MAX_AUTOMATIC_ATTEMPTS == 2

States == {"queued", "extracting", "review", "applied", "failed", "expired"}

Batch ==
    [state    : States \cup {"absent"},
     attempts : Nat,
     lease    : {"none", "live", "lapsed"},
     error    : {"none", "transient", "permanent", "interrupted"},
     upload   : 0..MaxUploads,
     owner    : Admins \cup {NoAdmin}]

Absent ==
    [state |-> "absent", attempts |-> 0, lease |-> "none", error |-> "none",
     upload |-> None, owner |-> NoAdmin]

Directory == [upload : 0..MaxUploads, old : BOOLEAN]
NoDirectory == [upload |-> None, old |-> FALSE]

Run == [id : 0..MaxId, files : 0..MaxUploads]
NoRun == [id |-> None, files |-> None]

Phases ==
    {"down",          \* no process
     "booted",        \* lifespan swept the sources, worker not started yet
     "recovered",     \* worker.start() requeued the lapsed leases
     "cleaning",      \* top of _run's loop
     "claiming",      \* process_next() about to claim
     "extracting",    \* awaiting the extractor
     "sleeping",      \* awaiting the poll interval
     "dead"}          \* the worker task ended with an exception

Exists(i) == batches[i].state # "absent"
InStates(S) == {i \in Ids : batches[i].state \in S}

DeletableWhileExtracting == {"queued", "extracting", "failed", "review"}
DELETABLE_CATALOG_IMPORT_STATES == {"queued", "failed", "review"}

RetainingExtractingOnly == {"extracting"}
SOURCE_RETAINING_BATCH_STATES == {"queued", "extracting"}

\* A batch directory holds at least one staged file.
catalog_import_sources_available(i) == sources[i].upload # None

\* Request handlers run while the worker task is parked at an await, or dead.
Serving == phase \in {"extracting", "sleeping", "dead"}

Init ==
    /\ batches = [i \in Ids |-> Absent]
    /\ proposals = [i \in Ids |-> None]
    /\ sources = [i \in Ids |-> NoDirectory]
    /\ published = [u \in Uploads |-> 0]
    /\ accounts = Admins
    /\ uploads = 0
    /\ phase = "down"
    /\ run = NoRun
    /\ stops = 0 /\ kills = 0 /\ dbErrors = 0

---------------------------------------------------------------------------
(***************************************************************************)
(* Time and the end of the process.                                        *)
(***************************************************************************)

\* lease_expires_at passes. A run in flight renews its lease (Heartbeat).
LeaseLapses(i) ==
    /\ batches[i].lease = "live"
    /\ batches' = [batches EXCEPT ![i] = [@ EXCEPT !.lease = "lapsed"]]
    /\ UNCHANGED <<proposals, sources, published, accounts, uploads, phase,
                   run, counters>>

\* A directory outlives CATALOG_IMPORT_SOURCE_EXPIRY_HOURS.
SourcesAge(i) ==
    /\ sources[i].upload # None
    /\ ~sources[i].old
    /\ sources' = [sources EXCEPT ![i].old = TRUE]
    /\ UNCHANGED <<batches, proposals, published, accounts, uploads, phase,
                   run, counters>>

\* Shutdown, SIGTERM of /admin/restart, or a crash, between two steps. The
\* cancelled run leaves the lease and the sources as they are.
ProcessEnds ==
    /\ phase # "down"
    /\ stops < MaxStops
    /\ stops' = stops + 1
    /\ phase' = "down"
    /\ run' = NoRun
    /\ UNCHANGED <<batches, proposals, sources, published, accounts, uploads,
                   kills, dbErrors>>

\* The step leads to phase `next` with `running` in flight, or the process
\* dies inside it.
Leads(killed, next, running) ==
    /\ killed => kills < MaxKills
    /\ kills' = IF killed THEN kills + 1 ELSE kills
    /\ phase' = IF killed THEN "down" ELSE next
    /\ run' = IF killed THEN NoRun ELSE running
    /\ UNCHANGED <<stops, dbErrors>>

---------------------------------------------------------------------------
(***************************************************************************)
(* Source retention: cleanup_expired_catalog_import_sources.               *)
(***************************************************************************)

SweepableWithRow ==
    {i \in Ids : /\ sources[i].upload # None
                 /\ sources[i].old
                 /\ Exists(i)
                 /\ batches[i].state \notin SOURCE_RETAINING_BATCH_STATES}
\* Expired directories of batches that cannot run, and of no batch at all.
Sweepable ==
    {i \in Ids : /\ sources[i].upload # None
                 /\ sources[i].old
                 /\ batches[i].state \notin SOURCE_RETAINING_BATCH_STATES}

RemoveSources(S) ==
    sources' = [i \in Ids |-> IF i \in S THEN NoDirectory ELSE sources[i]]

Expired(b) == [b EXCEPT !.state = "expired", !.lease = "none"]

ExpireFailed(S) ==
    batches' = [i \in Ids |-> IF i \in S /\ batches[i].state = "failed"
                              THEN Expired(batches[i]) ELSE batches[i]]

---------------------------------------------------------------------------
(***************************************************************************)
(* Startup.                                                                *)
(***************************************************************************)

\* lifespan: the sweep runs in a session that is closed without a commit, so
\* the directories go and the rows stay as they were.
Boot ==
    /\ phase = "down"
    /\ EarlyRestart \/ \A i \in Ids : batches[i].lease # "live"
    /\ RemoveSources(Sweepable)
    /\ phase' = "booted"
    /\ UNCHANGED <<batches, proposals, published, accounts, uploads, run,
                   counters>>

RecoveredWithLease(b) == [b EXCEPT !.state = "queued", !.error = "interrupted"]
Recovered(b) ==
    [b EXCEPT !.state = "queued", !.lease = "none", !.error = "interrupted"]

RecoversLiveLeases ==
    batches' = [i \in Ids |->
        IF batches[i].state = "extracting" /\ batches[i].lease = "live"
        THEN Recovered(batches[i]) ELSE batches[i]]
recover_expired_catalog_import_leases ==
    batches' = [i \in Ids |->
        IF batches[i].state = "extracting" /\ batches[i].lease = "lapsed"
        THEN Recovered(batches[i]) ELSE batches[i]]

\* worker.start(), first transaction.
StartRecovers ==
    /\ phase = "booted"
    /\ recover_expired_catalog_import_leases
    /\ phase' = "recovered"
    /\ UNCHANGED <<proposals, sources, published, accounts, uploads, run,
                   counters>>

CleanCommitsFirst(killed) ==
    /\ phase \in {"recovered", "cleaning"}
    /\ ExpireFailed(Sweepable)
    /\ IF killed THEN UNCHANGED sources ELSE RemoveSources(Sweepable)
    /\ Leads(killed, IF phase = "recovered" THEN "cleaning" ELSE "claiming",
             run)
    /\ UNCHANGED <<proposals, published, accounts, uploads>>
\* The sweep of worker.start() (from "recovered") and of every turn of
\* _run's loop (from "cleaning"), committed after the directories are gone.
Clean(killed) ==
    /\ phase \in {"recovered", "cleaning"}
    /\ RemoveSources(Sweepable)
    /\ IF killed THEN UNCHANGED batches ELSE ExpireFailed(Sweepable)
    /\ Leads(killed, IF phase = "recovered" THEN "cleaning" ELSE "claiming",
             run)
    /\ UNCHANGED <<proposals, published, accounts, uploads>>

---------------------------------------------------------------------------
(***************************************************************************)
(* The worker.                                                             *)
(***************************************************************************)

OldestQueued(i) ==
    /\ batches[i].state = "queued"
    /\ \A j \in InStates({"queued"}) : batches[i].upload <= batches[j].upload

Claimed(b) == [b EXCEPT !.state = "extracting", !.attempts = @ + 1,
                        !.lease = "live", !.error = "none"]

\* claim_next_catalog_import, committed, and the listing of the directory.
Claim(i) ==
    /\ phase = "claiming"
    /\ OldestQueued(i)
    /\ batches' = [batches EXCEPT ![i] = Claimed(@)]
    /\ run' = [id |-> i, files |-> sources[i].upload]
    /\ phase' = "extracting"
    /\ UNCHANGED <<proposals, sources, published, accounts, uploads, counters>>

NothingToClaim ==
    /\ phase = "claiming"
    /\ InStates({"queued"}) = {}
    /\ phase' = "sleeping"
    /\ UNCHANGED <<batches, proposals, sources, published, accounts, uploads,
                   run, counters>>

PollIntervalEnds ==
    /\ phase = "sleeping"
    /\ phase' = "cleaning"
    /\ UNCHANGED <<batches, proposals, sources, published, accounts, uploads,
                   run, counters>>

\* heartbeat_catalog_import_lease, for the id of the run whatever its row is.
Heartbeat ==
    /\ phase = "extracting"
    /\ batches[run.id].state = "extracting"
    /\ batches[run.id].lease # "live"
    /\ batches' = [batches EXCEPT ![run.id] = [@ EXCEPT !.lease = "live"]]
    /\ UNCHANGED <<proposals, sources, published, accounts, uploads, phase,
                   run, counters>>

RowRemains(i) == Exists(i)
\* The row the run was claimed for is being extracted.
StillExtracting(i) == batches[i].state = "extracting"

Reviewable(b) == [b EXCEPT !.state = "review", !.lease = "none"]

\* _persist_proposals: replace the proposals, move to review, commit, and only
\* then remove the sources.
ExtractionReturns(killed) ==
    /\ phase = "extracting"
    /\ run.files # None
    /\ IF StillExtracting(run.id)
       THEN /\ proposals' = [proposals EXCEPT ![run.id] = run.files]
            /\ batches' = [batches EXCEPT ![run.id] = Reviewable(@)]
            /\ IF killed THEN UNCHANGED sources ELSE RemoveSources({run.id})
       ELSE ~killed /\ UNCHANGED <<batches, proposals, sources>>
    /\ Leads(killed, "cleaning", NoRun)
    /\ UNCHANGED <<published, accounts, uploads>>

IsTerminalLater(b, kind) ==
    b.attempts > MAX_AUTOMATIC_ATTEMPTS \/ kind # "transient"
\* No automatic attempt follows the one that just failed.
IsTerminal(b, kind) ==
    b.attempts >= MAX_AUTOMATIC_ATTEMPTS \/ kind # "transient"

Failed(b, kind) ==
    [b EXCEPT !.state = IF IsTerminal(b, kind) THEN "failed" ELSE "queued",
              !.lease = "none",
              !.error = kind]

\* _record_failure. A timeout or a transport error is transient; anything
\* else is not, a missing source directory included.
ExtractionFails(kind) ==
    /\ phase = "extracting"
    /\ kind = "transient" => run.files # None
    /\ IF StillExtracting(run.id)
       THEN batches' = [batches EXCEPT ![run.id] = Failed(@, kind)]
       ELSE UNCHANGED batches
    /\ run' = NoRun
    /\ phase' = "cleaning"
    /\ UNCHANGED <<proposals, sources, published, accounts, uploads, counters>>

\* A commit of the loop's own raises (the database stays locked past
\* busy_timeout): the transaction rolls back and nothing restarts the task.
WorkerDies ==
    /\ phase \in {"cleaning", "claiming", "extracting"}
    /\ dbErrors < MaxDbErrors
    /\ dbErrors' = dbErrors + 1
    /\ phase' = "dead"
    /\ run' = NoRun
    /\ IF phase = "cleaning" THEN RemoveSources(Sweepable)
                             ELSE UNCHANGED sources
    /\ UNCHANGED <<batches, proposals, published, accounts, uploads, stops,
                   kills>>

---------------------------------------------------------------------------
(***************************************************************************)
(* The administrator's routes.                                             *)
(***************************************************************************)

\* The row id SQLite picks: one more than the largest in the table.
IsNextRowId(i) ==
    /\ \A j \in Ids : Exists(j) => j < i
    /\ i > 1 => Exists(i - 1)

Pending(u, a) == [Absent EXCEPT !.state = "pending", !.upload = u, !.owner = a]
Queued(u, a) == [Absent EXCEPT !.state = "queued", !.upload = u, !.owner = a]

\* admin_catalog_import_upload, from the reservation to the commit. Staging
\* refuses a directory that exists; the handler then rolls the reservation
\* back and removes that directory.
Upload(a, i, killed) ==
    /\ Serving
    /\ a \in accounts
    /\ uploads < MaxUploads
    /\ IsNextRowId(i)
    /\ Cardinality(InStates({"queued"})) < Capacity
    /\ uploads' = uploads + 1
    /\ IF catalog_import_sources_available(i)
       THEN /\ ~killed
            /\ RemoveSources({i})
            /\ UNCHANGED batches
       ELSE /\ sources' = [sources EXCEPT
                             ![i] = [upload |-> uploads + 1, old |-> FALSE]]
            /\ IF killed
               THEN UNCHANGED batches
               ELSE batches' = [batches EXCEPT ![i] = Queued(uploads + 1, a)]
    /\ Leads(killed, phase, run)
    /\ UNCHANGED <<proposals, published, accounts>>

Retried(b) == [b EXCEPT !.state = "queued", !.attempts = 0, !.lease = "none",
                        !.error = "none"]

\* admin_catalog_import_retry with retry_failed_catalog_import_batch.
Retry(i) ==
    /\ Serving
    /\ accounts # {}
    /\ batches[i].state = "failed"
    /\ catalog_import_sources_available(i)
    /\ batches' = [batches EXCEPT ![i] = Retried(@)]
    /\ UNCHANGED <<proposals, sources, published, accounts, uploads, phase,
                   run, counters>>

\* Rows S go, and their proposals with them (ON DELETE CASCADE).
DeleteRows(S) ==
    /\ batches' = [i \in Ids |-> IF i \in S THEN Absent ELSE batches[i]]
    /\ proposals' = [i \in Ids |-> IF i \in S THEN None ELSE proposals[i]]

\* admin_catalog_import_delete: the row, a commit, then the directory.
Delete(i, killed) ==
    /\ Serving
    /\ accounts # {}
    /\ batches[i].state \in DELETABLE_CATALOG_IMPORT_STATES
    /\ DeleteRows({i})
    /\ IF killed THEN UNCHANGED sources ELSE RemoveSources({i})
    /\ Leads(killed, phase, run)
    /\ UNCHANGED <<published, accounts, uploads>>

ReviewedOnce(i) == batches[i].state \in {"review", "applied"}
AwaitsReview(i) == batches[i].state = "review"

Applied(b) == [b EXCEPT !.state = "applied", !.lease = "none"]

\* admin_catalog_import_apply with apply_catalog_import_batch: the prices and
\* the state in one transaction.
Apply(i) ==
    /\ Serving
    /\ accounts # {}
    /\ AwaitsReview(i)
    /\ batches' = [batches EXCEPT ![i] = Applied(@)]
    /\ published' = [published EXCEPT ![proposals[i]] = @ + 1]
    /\ UNCHANGED <<proposals, sources, accounts, uploads, phase, run, counters>>

\* delete_profile of an administrator: every batch of the account goes,
\* whatever its state, and every staged directory stays.
DeleteAccount(a) ==
    /\ Serving
    /\ a \in accounts
    /\ accounts' = accounts \ {a}
    /\ DeleteRows({i \in Ids : batches[i].owner = a})
    /\ UNCHANGED <<sources, published, uploads, phase, run, counters>>

---------------------------------------------------------------------------
Startup == Boot \/ StartRecovers

Worker ==
    \/ \E killed \in BOOLEAN : Clean(killed)
    \/ \E i \in Ids : Claim(i)
    \/ NothingToClaim
    \/ PollIntervalEnds
    \/ Heartbeat
    \/ \E killed \in BOOLEAN : ExtractionReturns(killed)
    \/ \E kind \in {"transient", "permanent"} : ExtractionFails(kind)

Routes ==
    \/ \E a \in Admins, i \in Ids, killed \in BOOLEAN : Upload(a, i, killed)
    \/ \E i \in Ids : Retry(i) \/ Apply(i)
    \/ \E i \in Ids, killed \in BOOLEAN : Delete(i, killed)
    \/ \E a \in Admins : DeleteAccount(a)

Environment ==
    \/ \E i \in Ids : LeaseLapses(i) \/ SourcesAge(i)
    \/ ProcessEnds
    \/ WorkerDies

Next == Startup \/ Worker \/ Routes \/ Environment

Spec == Init /\ [][Next]_vars

(***************************************************************************)
(* Fairness. The container's restart policy brings the process back, the   *)
(* lifespan and the loop run on, asyncio.timeout ends every extraction, and *)
(* time passes. Nothing obliges an administrator, a crash or an error.     *)
(***************************************************************************)
Fairness ==
    /\ WF_vars(Startup)
    /\ WF_vars(\E killed \in BOOLEAN : Clean(killed))
    /\ WF_vars(\E i \in Ids : Claim(i))
    /\ WF_vars(NothingToClaim)
    /\ WF_vars(PollIntervalEnds)
    /\ WF_vars(\/ \E killed \in BOOLEAN : ExtractionReturns(killed)
               \/ \E kind \in {"transient", "permanent"} : ExtractionFails(kind))
    /\ \A i \in Ids : WF_vars(LeaseLapses(i)) /\ WF_vars(SourcesAge(i))

FairSpec == Spec /\ Fairness

---------------------------------------------------------------------------
(***************************************************************************)
(* Properties.                                                             *)
(***************************************************************************)

\* Every variable has its type.
TypeOK ==
    /\ batches \in [Ids -> Batch]
    /\ proposals \in [Ids -> 0..MaxUploads]
    /\ sources \in [Ids -> Directory]
    /\ published \in [Uploads -> Nat]
    /\ accounts \subseteq Admins
    /\ uploads \in 0..MaxUploads
    /\ phase \in Phases
    /\ run \in Run
    /\ phase = "extracting" <=> run.id # None
    /\ stops \in 0..MaxStops /\ kills \in 0..MaxKills
    /\ dbErrors \in 0..MaxDbErrors

\* A batch that waits or runs has its own pages on disk: no sweep, failed
\* staging, reused id or torn step takes them away or swaps them for those of
\* another upload (catalog_uploads.py:287).
RunnableHasSources ==
    \A i \in InStates({"queued", "extracting"}) :
        sources[i].upload = batches[i].upload

\* What an administrator reviews and applies was read from the pages of that
\* very upload, also when the row was deleted under a running extraction and
\* its id given to another upload (catalog_import_worker.py:258-260).
ProposalsAreOwn ==
    \A i \in InStates({"review", "applied"}) : proposals[i] = batches[i].upload

\* A lease is held exactly while a batch is being extracted ("lease and audit
\* bookkeeping cannot drift from the state").
LeaseIffExtracting ==
    \A i \in Ids : batches[i].lease # "none" <=> batches[i].state = "extracting"

\* An upload's proposals go into the shared catalog at most once, and never
\* without the upload having been applied or deleted with its account.
PublishedAtMostOnce ==
    /\ \A u \in Uploads : published[u] <= 1
    /\ \A i \in Ids : Exists(i) =>
          (published[batches[i].upload] = 1 <=> batches[i].state = "applied")

\* The run in flight, if its row is being extracted at all, reads the pages of
\* the upload the row stands for: a heartbeat, a result or a failure is never
\* recorded for another upload's extraction.
RunOwnsItsBatch ==
    phase = "extracting" =>
        (batches[run.id].state = "extracting" =>
            run.files = batches[run.id].upload)

\* An expired batch has lost its pages: the row changes only after the
\* directory is gone, so a torn sweep never expires a retryable batch.
ExpiredHasNoSources ==
    \A i \in InStates({"expired"}) : ~catalog_import_sources_available(i)

\* Between two retries of an administrator an upload is extracted no more than
\* MAX_AUTOMATIC_ATTEMPTS times, and once more for each end of the process: the
\* claim has counted the attempt that the end interrupts, and recovery queues the
\* batch without a look at the count (catalog_import_worker.py:57-62, 90).
AttemptsAreBounded ==
    \A i \in Ids : batches[i].attempts <= MAX_AUTOMATIC_ATTEMPTS + stops + kills

\* The documented lifecycle and the owner, per upload.
RowsOf(u) == {i \in Ids : batches[i].upload = u}
RowOf(u) == batches[CHOOSE i \in Ids : batches[i].upload = u]
life == [u \in Uploads |->
            IF RowsOf(u) # {} THEN RowOf(u).state
            ELSE IF u <= uploads THEN "gone" ELSE "new"]
owner == [u \in Uploads |-> IF RowsOf(u) # {} THEN RowOf(u).owner ELSE NoAdmin]
Lifecycle == INSTANCE CatalogImportLifecycle
                 WITH life <- life, owner <- owner,
                      accounts <- accounts, published <- published
RefinesLifecycle == Lifecycle!Spec

\* Every upload that was queued is eventually reviewable, failed or removed,
\* through restarts, unless the worker's task ended with an exception: nothing
\* starts it again before the process does (catalog_import_worker.py:176).
Settled(u) == life[u] \notin {"queued", "extracting"}
EveryUploadSettles ==
    \A u \in Uploads : ~Settled(u) ~> (Settled(u) \/ phase = "dead")

\* "A failed batch whose sources have expired is transitioned to expired"
\* (docs/architecture/components/catalog-import.md:87).
FailedWithoutSources(i) ==
    batches[i].state = "failed" /\ ~catalog_import_sources_available(i)
FailedWithoutSourcesExpires ==
    \A i \in Ids : FailedWithoutSources(i) ~> ~FailedWithoutSources(i)

\* Staged pages of a batch that cannot run do not stay on disk for ever, unless
\* the worker, which sweeps, has ended with an exception.
Leftover(i) == catalog_import_sources_available(i)
               /\ batches[i].state \notin SOURCE_RETAINING_BATCH_STATES
LeftoversGo == \A i \in Ids : Leftover(i) ~> (~Leftover(i) \/ phase = "dead")

=============================================================================
