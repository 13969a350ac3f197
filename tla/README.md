# Bourbonbook in TLA+

Models, model checks and proofs kept beside `bourbonbook/`, a single-process FastAPI application
with one SQLite file, a data directory, an in-process catalog-import worker and background tasks for
new bottles. One uvicorn process runs one event loop: code between two awaits is atomic with respect
to every other handler, and what is hard lives between the awaits, between a commit and the file
operation (or the call of the price index) next to it, and between one process and the next.

## 1. Inventory

| Component (source) | State | Operations | Talks to | What is hard | What makes it correct | Module |
| --- | --- | --- | --- | --- | --- | --- |
| **Catalog import queue** (`catalog_import_worker.py`, `catalog_imports.py`, `catalog_uploads.py`, routes in `main.py`) | `catalog_import_batches`, `catalog_import_proposals`, `DATA_DIR/catalog-imports/<id>`, the worker task | upload, claim, heartbeat, persist, fail, requeue, retry, review, apply, delete, sweep | SQLite, file system, extractor, lifespan | row and directory change one after the other; leases survive the process; row ids come back | a runnable batch has its own pages; proposals are the upload's own; prices are published once; every upload comes to rest | `CatalogImport` |
| **Add-bottle pipeline** (`bottle_processing.py`) | `bottles.processing_stage`, one ORM session per task | queued → analyzing → enriching → attributing → pricing → complete, failure handler, restart sweep | analysis providers, attributions, prices, the poller | one cached row over three awaits while the user edits or deletes it | an in-progress row has a task; every bottle settles | `BottleWorkflow` |
| **Bottle routes** (`main.py` 2615-2913) | `bottles`, photos | add, edit, analyze, delete | pipeline, attributions, prices, photos | same rows as the pipeline | a user's value is not overwritten by a machine's | `BottleWorkflow`, `Collection` |
| **Attributions** (`product_attributions.py`) | `product_attribution_facts`, `bottle_attribution_provenance` | resolve, apply a fact, record a user edit | grounded search | authority is read before an await and used after it | user-entered and verified values survive | `BottleWorkflow` |
| **Prices** (`main.py` 529-799, `qdrant_prices.py`) | `catalog_prices`, price index | look up, user price, refresh, upsert | Qdrant, web search | index written before the commit, never told of a deletion | what is served is in the database | `Prices` |
| **Price catalog** (`catalog_imports.py`, `catalog.py`, `catalog_cli.py`, catalog page) | `catalog_prices`, proposals | save review, apply, edit, delete, ingest, reindex | import queue, index | a product several times in a batch | an import never moves a price backwards in time | `Prices` |
| **Identity** (`identity.py`, `tokens.py`, `auth.py`, `admin_cli.py`, routes) | `users`, `auth_tokens`, session cookie | register, verify, resend, login, forgot, reset, profile, administrator's actions, bootstrap, recovery | email, rate limiter | tokens reissued, replayed, racing account changes; late responses rewrite cookies | a token works once; no token, and no cookie of an account that exists, outlives the change that voids it | `Identity` |
| **Rate limiter** (`rate_limit.py`) | a queue per key, a global queue | allow | login, registration, reset | eviction at `max_keys`, partial updates on refusal | no window exceeds its limit, nobody is charged for another | `RateLimiter`, `SlidingWindow` |
| **Startup, migrations** (`main.py` 204-254, `migrations.py`, `database.py`) | schema version, settings | classify, stamp, upgrade, bootstrap, sweep, start worker | all | a process end half way | a server runs at head only; startup leaves no row in progress | `Configuration`, and `Boot`/`Start` of the others |
| **Admin configuration** (`admin_config.py`, `config.py`, `main.py` 2159-2214) | `<DATA_DIR>/.env`, running settings | save, revert, restart | environment, process supervisor | a baseline drawn anew, a default that follows another setting, saves before a restart | saves take effect, inherited values stay inherited | `Configuration` |
| **Photos and avatars** (`photos.py`, routes) | files | store, replace, delete | bottle and shopping routes, account deletion | file and row change one after the other | a committed row's photo exists, no file is left over | `Collection` |
| **Shopping list, sharing** (`main.py` 2445-2615) | `bottles` in the list state, share token | add, buy, remove; share, rotate, revoke | bottle routes | photo of the item | one transaction moves an item | photos in `Collection` |
| **Usage and observability** (`observability.py`) | `ai_usage_events`, counters | record | providers | writer of its own session | – | – |
| **Providers, extraction, email, CLI tools, templates** | none of their own | – | external services | – | an environment that answers, fails or stays silent | – |

## 2. Modules and how they correspond to the code

Every module follows the same rules. Code between two awaits is one action, with every call in it that
changes state. What a crash may tear apart inside such a stretch is a parameter of the action
(`killed`, `commits`, `committed`) or a step of its own (`Unlink`). Row ids come back, because the
primary keys have no AUTOINCREMENT, and ghost variables tell two holders of one id apart. Wrong
versions of a definition stand directly above it, uncommented: putting one in its place breaks a
property, which `PROJECT.json` records under `mutants`.

### 2.1 `CatalogImport` — the durable import queue

| Model | Code |
| --- | --- |
| `batches[i]` (state, upload, owner, attempts, lease, error) | a row of `catalog_import_batches`; `upload` stands for `created_at`, which tells two holders of one row id apart |
| `proposals[i]` | the proposals of the row, named by the upload whose pages they were read from |
| `sources[i]` | `DATA_DIR/catalog-imports/<id>`, named by the upload staged there, with its age as `old` |
| `published[u]` | how often the proposals of `u` were written to `catalog_prices` (auxiliary) |
| `phase`, `run` | where the worker's task is, and the batch and pages of the extraction in flight |
| `Boot`, `StartRecovers`, `Clean` | the lifespan's sweep, `start()`, `_cleanup_expired_sources` |
| `Claim`, `NothingToClaim`, `PollIntervalEnds`, `Heartbeat` | `process_next`, `_run`, `heartbeat_catalog_import_lease` |
| `ExtractionReturns`, `ExtractionFails` | `_persist_proposals`, `_record_failure` |
| `Upload`, `Retry`, `Delete`, `Apply`, `DeleteAccount` | the administrator's routes, `apply_catalog_import_batch`, `delete_profile` |
| `ProcessEnds`, `WorkerDies`, the parameter `killed` | shutdown or crash between two steps, a database error in the loop's own statements, a crash between the database and the file system inside a step |

Abstracted: the `.tmp` staging directory (staging that fails nets to no change); the values
of proposals and the review form (they are in `Prices`); the clock (a lease is `live` or `lapsed`, a
directory is old or not); a sweep that is torn has removed every directory it could; a database error
during a heartbeat shows as a failure that is not transient.

`CatalogImportLifecycle` is the abstract promise: one state per *upload*, moves along
`_ALLOWED_TRANSITIONS`, deletion from the states that allow it or with the owning account.
`CatalogImport` implements it under a mapping from rows to the uploads they stand for
(`RefinesLifecycle`), whatever ids are reused.

### 2.2 `BottleWorkflow` — pipeline, bottle routes and attributions

| Model | Code |
| --- | --- |
| `bottles[i]` (stage, of, mash, date, by) | a row of `bottles` with its provenance row; `of` numbers the bottle that the row stands for (auxiliary) |
| `facts` | the row of `product_attribution_facts` for the one product |
| `sessions[w]` (at, id, asks, found, loaded, now) | the ORM session of a pipeline or of a re-analysis request: the await it is in, the columns as loaded, the columns as they are now |
| `lock` | SQLite's one writer: taken by the first flush of a transaction, released by commit or rollback |
| `stranded` | bottles whose failure handler failed as well (auxiliary) |
| `Add`, `Start`, `Analyzed`, `Searched`, `Priced`, `Finished`, `CallFails` | `add_bottle` and `run_add_bottle_pipeline` from await to await; the same actions serve `refresh_bottle_analysis`, which commits once, at its end |
| `Edit`, `Request`, `Delete` | `save_bottle`, the first stretch of `refresh_bottle_analysis` (or of `save_bottle` with a new photo), `delete_bottle` |
| `FactExpires`, `ProcessEnds`, `Boot` | `fact_is_fresh`, the end of the process, `recover_orphaned_bottle_processing` |

The ORM is modelled by what it does (external code, from how `database.py` configures it):
`expire_on_commit=False` keeps the columns of a session across commits, an UPDATE writes the columns
that differ from what was loaded, the provenance row is loaded at its first use, a
flush takes the write lock, an UPDATE without its row or an INSERT against the UNIQUE constraint
raises. A handler that needs the lock while another session holds it over an await blocks the event
loop until `busy_timeout` and fails, because the holder runs on the same loop.

Abstracted: a value is named by who it came from (`blank`, `label`, `catalog`, `web`,
`user`), the bottling date likewise (`blank`, `photo`, `user`); of the two attribution fields one is kept, the other is present as the query for it that
flushes; the other columns only as "something else was touched"; stages that begin and end inside
one stretch (`enriching`) are not seen; `legacy_unknown` is treated by the code like `user_entered`.

### 2.3 `Identity` — accounts, tokens and cookies

| Model | Code |
| --- | --- |
| `users[i]`, `tokens[t]` | rows of `users` and `auth_tokens`; `version` is `session_version`; `hash` stands for the secret of a link |
| `cookie[b]` | the signed session of a browser: `user_id`, `session_version`, `unverified_user_id`, the staged tokens |
| `reply[b]` | a response that waits for its mail and will rewrite the cookie as its request found it |
| `prompt` | the administrator as `admin_cli.py` has read it, before it asks what to change |
| `mode` | `EMAIL_VERIFICATION_REQUIRED` and `APP_ENV` |
| `issue_token`, `revoke_tokens`, `token_is_valid`, `consumable` | `tokens.py` |
| `Register`, `RegisterVerified`, `Resend`, `Follow`, `ConfirmVerification`, `Forgot`, `ResetPassword`, `Login`, `Logout`, `Visit` | the routes of that name; `Follow` is the GET of a link, which stages its token in the cookie |
| `ProfileEmail`, `ProfilePassword`, `DeleteProfile`, `AdminSends`, `AdminUpdateEmail` | the profile and the administrator's user page |
| `Start`, `Bootstrap`, `ProcessEnds`, `MailEnds` | `bootstrap_admin` in the lifespan, the end of the process, the awaited mail |
| `RecoverReads`, `RecoverWrites` | `recover` of `admin_cli.py` before and after its questions |

Abstracted: CSRF, hashing, wrong passwords and texts of mails change nothing; at every check a token may
turn out to be expired, so expiry is a choice and no state. Ghosts `born`, `proved`, `version` of a
token and `as` of a cookie remember what an account was like when something was given out for it.
Row ids of accounts and of tokens come back, and a cookie holds ids only: what it opens, or confirms,
is whatever has the id now.

### 2.4 `Prices` — catalog, index, review and commands

`rows` is `catalog_prices` as committed, `draft` the table as the transaction that has flushed sees it
(`lock`), `points` the Qdrant index by id, `ask[w]` a request on its way through
`refresh_prices` → `qdrant_catalog_price` → web search → `cache_catalog_price` (or
`apply_user_purchase_price`), `batch` and `proposals` one import under review, `puts` what an import or
`reindex` has still to send. The administrator's page (`AdminUpdate`, `AdminDelete`) and
`IngestRecord`/`IngestEnds` (the `ingest` command) write the same table. Every call of the index may fail and is
then skipped, and a transaction may roll back after the index was told. Dates are the four ages the TTLs
tell apart; likeness of names is the constant `Similar`.

### 2.5 `Collection` — files beside rows

`rows` (the photo each committed row names), `account` (is it there, which avatar), `files` (what the
data directory holds), `req[w]` (a request between the await of its upload, or of its models, and its
commit) and `doomed` (files to be unlinked after a commit). Routes of the shopping list share rows and
helpers with those of the collection and are not told apart. A commit may fail at each route, the process
may end anywhere; the ghosts `torn` and `stray` name the files such a failure removed or left.

### 2.6 `Configuration` — settings and start

`env`, `file` (`<DATA_DIR>/.env`), `settings` (what the process runs with), `db` (how far tables and note
are), `process` (where a start is). `Save` is the settings page with its reverts, `Classify`, `Stamp`,
`Begin`, `Finish`, `Note` and `Serve` are the start-up of `entrypoint.py` and Alembic's upgrade, `Stop`
is a restart, a stop or a crash at any of these points, `EditEnvironment` a new container. Five fields
stand for the kinds there are: `SESSION_SECRET` is drawn anew by whoever finds it unset, `SMTP_PASSWORD`
is a secret that may be empty, `APP_ENV` a choice, `PUBLIC_BASE_URL` a value that the choice restricts
(it stands for all of `validate_identity`), and `LOG_FORMAT` has a default that follows `APP_ENV` as
merged from file and environment (`Merged`, `Default`); no other field's default follows another field.
The ghost `saved` is what the last save was to put in force, with the value *stored* for a blank secret,
and `undone` the secrets for which the save wrote another.

### 2.7 `RateLimiter`

`events`, `order` and `global_events` are the limiter's three structures, `log` the reference definition:
all calls ever allowed. `WindowsHold` and `CountsAreExact` compare the two after any sequence of calls.

`SlidingWindow` is the abstract promise, which knows no queues: a call is allowed exactly when the window
ending now has room for it among all calls, for its address and from its client. A call that is refused
counts for nobody, though the code has by then dropped entries and made keys. A key's past may be
forgotten whenever a call is allowed, but not for a key of that call (unless there is room for fewer
than two keys). `RateLimiter` implements it with `since <- evicted` (`IsSlidingWindow`): what the limiter
forgets by eviction is all it forgets, and dropping the expired prefix of a queue forgets nothing.

### 2.8 How the modules fit together

Each row of the database belongs to one module; what two modules share is an action in both, with its
effect on each one's state: `DeleteAccount`/`DeleteProfile` (cascade to batches in `CatalogImport`, to
tokens in `Identity`, to files in `Collection`), the end of the process and the lifespan, the write lock
(`BottleWorkflow` and `Prices`), `apply_catalog_import_batch` (its effect on the batch in
`CatalogImport`, on the prices in `Prices`).

## 3. Runs

| Run | What it shows | Bounds |
| --- | --- | --- |
| `import_safety` | a runnable batch has its own pages; proposals belong to the upload they are shown for; lease exactly while extracting; published at most once; expired means the pages are gone; automatic attempts exceed their maximum only by the number of process ends; the queue implements the lifecycle | 2 administrators, 2 row ids, 3 uploads (two side by side and an id that comes back), queue capacity 2, 1 stop, 1 kill inside a step |
| `import_liveness` | every upload comes to rest and no pages stay for ever, unless the worker's task died | 1 administrator, 2 ids, 2 uploads, 1 stop, 1 kill, 1 database error that ends the worker; process back after the leases have lapsed |
| `import_early_restart` | *violated:* a process that is back before the lease lapses leaves the batch extracting | 1 upload, 1 stop |
| `import_failed_sources` | *violated:* the lifespan's sweep removes the pages of a failed batch and loses its transition to `expired` | 1 upload, 1 stop |
| `bottle_workflow` | the lock always has a live holder; a pipeline goes silent only for the lock; a first entry of the user survives a search under way; automation takes a hand-verified field over only through a stale read, or a photo's analysis over an entry; a photo's date takes the place of the user's only through a session that found no date; every bottle is finished, failed, deleted or stranded at last | 1 row id, 2 bottles (the id comes back under a running pipeline), 1 request, 1 form at any await, 1 stop |
| `bottle_stranded` | *violated:* two pipelines and the price index leave a bottle in progress with no task | 2 bottles |
| `identity` | one live token per purpose; none outlives the change that voids it; an address counts as verified only through its own link; no cookie of an account that exists opens another or outlives a change; production starts with an administrator | 2 browsers, 2 addresses, 2 accounts, 3 tokens with verification and 1 without, 1 change of each account, 1 stop |
| `identity_bootstrap` | *violated:* production comes up without an administrator | 2 addresses, 3 accounts, verification off, 1 stop |
| `prices` | a product and size has one row; what is served is a fresh, alike row of the database; an import leaves the newest | 3 keys (two products, two sizes), 2 amounts, 1 request, 2 positions, 2 rows; an import beside nothing else, or one request, one administrator's edit and one transaction that flushes |
| `rate_limiter` | no window holds more than it may; counts are exact; keys exceed `max_keys` at most by the calls refused since the last one allowed; the limiter implements the sliding window | 3 addresses, 2 clients, room for 3 keys, limit 2, global limit 3, window 2, clock to 3, 4 calls allowed, 2 refused in a row |
| `collection` | photos and avatars are there; no file is left over but for a failure | 2 overlapping requests, 1 row id, 4 files, 1 deletion, 1 stop |
| `configuration` | saves take effect and inherited stays inherited, but for the exceptions of section 5; accepted settings start; a server runs at head; only a kill strands | 2 saves, 3 ends of the process, 1 new environment of 4 (nothing; production; production without https; both secrets and a log format), 5 kinds of database, head at revision 2 |

Why the bounds are enough: a hazard of the list needs at most two holders of one row id, two
actors and one interruption. The third upload of `import_safety` earns its place: a wrong version of
`StillExtracting`, which records a result for whatever row has the id, is told apart only with it.
`import_safety` leaves out the database error that ends the worker, which leaves no state that a stop
does not; `import_liveness` has it. In `identity` the third token is a link reissued after one
was voided. In `rate_limiter` four calls and three keys evict a key that still counts. Three stops of
`configuration` are one inside a start, one after each save. Where a theorem of section 4
states the property, nothing depends on the bound.

Deadlock is not checked where the bounds stop the system: the last form is submitted, the last bottle
added, the last token issued. It is checked nowhere else because no part of the system waits for another
except through the lock, whose holder `LockHasHolder` and `EveryBottleSettles` are about.

**Fairness.** Weak fairness of the worker's and the pipelines' steps: the event loop runs every
task, every provider call has a timeout, polling and the heartbeat are timers. Weak fairness of
`Startup` and `Boot`: `compose.yaml:8` says `restart: unless-stopped`. Time passes (`LeaseLapses`,
`SourcesAge`). Nothing is assumed of administrators, users, crashes or errors: they may come or not.
`import_liveness` supposes in addition that the process stays down until the leases have lapsed
(`EarlyRestart = FALSE`); without that the property fails, which `import_early_restart` shows.

## 4. Proofs

Each proof holds for every value of the constants that meets the named assumptions of its module, which
say only that bounds are numbers and names differ.

| Module | Assumes | Inductive invariant | Proves |
| --- | --- | --- | --- |
| `CatalogImportProofs` | `BoundsAssumption` | `IInv == TypeOK /\ RowOK(i) for each row /\ UploadsOK /\ PublicationOK` | `TypeOK`, `RunnableHasSources`, `ProposalsAreOwn`, `RunOwnsItsBatch`, `LeaseIffExtracting`, `PublishedAtMostOnce`, `ExpiredHasNoSources`; with `AttemptsOK(i)` for each row, `AttemptsAreBounded` |
| `CatalogImportRefinement` | the same | `RInv == IInv /\ AbsentOK` | `RefinesLifecycle`: every step is a step of `CatalogImportLifecycle` or a stutter |
| `BottleWorkflowProofs` | `WorkflowAssumption` | `IInv == Types /\ HolderWorks /\ AddedOnly /\ StrandedByLockOnly`; with it `AuthorityInv` (`AuthorityOK(s)` for each session) and `DatesInv` (`DateOK(s)` for each session) | `TypeOK`, `LockHasHolder`, `StrandedByLockOnly`; `HandVerifiedStands`, `FirstEntryStands`; `EnteredDateStands` |
| `CollectionProofs` | `CollectionAssumption` | `IInv == TypeOK /\ Names /\ AvatarIsThere /\ PhotosAreThere /\ FilesAreNamed` | `TypeOK`, `PhotosAreThere`, `AvatarIsThere`, `FilesAreNamed` |
| `IdentityProofs` | `IdentityAssumption` | `IInv == AccountsInv /\ CookiesInv /\ PromptInv /\ ProcessInv` | `TypeOK`, `OneLiveToken`, `UnusedTokenIsCurrent`; `StartsWithAdmin` where production requires verification; `VerifiedEmailWasProved` and `SessionIsCurrent` with no recovery beside the server (`~RecoveryOverlaps`) |
| `PricesProofs` | `PricesAssumption` | `IInv == TableInv /\ AskInv /\ IndexInv /\ ImportInv` | all three properties of the run |
| `ConfigurationProofs` | `BoundsAssumption`, `DrawnAssumption`, `EnvironmentsAssumption`, `DatabasesAssumption` | `DatabaseInv`, and `ConfigurationInv == DrawInv /\ TypeInv /\ SettingsInv` | all six properties of the run |
| `RateLimiterProofs` | `LimiterAssumption` | `LimiterInv == TimesOK /\ OrderOK /\ AllOK /\ KeyOK(k) for each key` | `WindowsHold`, `CountsAreExact`, `KeysAreBounded`, and `IsSlidingWindow`: every step is a step of `SlidingWindow` or a stutter |

Why the strengthenings are needed:

- *Import.* That a queued batch has its pages needs the same of a *failed* one, as far as pages are there
  at all (a retry makes it queued again); that proposals are the upload's own needs that an extracting
  row, its directory and the run in flight agree; and all of them need that no two rows stand for one
  upload and that serial numbers above `uploads` are unused, so that a reused row id never meets pages or
  an extraction with its own number. For the refinement a row that does not exist must also say nothing
  (`AbsentOK`), so that no upload is seen in it. The bound on attempts is not inductive either: a batch
  that is queued, or was left extracting by a process that ended, must be one short of it
  (`AttemptsOK`), since the next claim counts again.
- *Bottles.* That the lock has a live holder is not inductive: the holder must be at an await *after*
  its first stretch (`HolderWorks`), since the first stretch of a pipeline starts without the lock.
  `AddedOnly` (a pipeline that was not added has no session) lets a new bottle find its session free. One
  predicate, `Works(w)`, says what every stretch of a worker leaves behind; each action is shown to be a
  case of it.
- *Authorities.* What a session has read of the provenance tells what it may still write. Before the
  answer it has read it only with a form that changed the field; from the search on, what was verified
  when it was read is verified still (`AuthorityOK`). So a session that takes over a hand-verified row
  read it before it was hand-verified, or its own analysis has replaced the entry; and one that found no
  provenance can only INSERT, which the UNIQUE constraint refuses.
- *Bottling dates.* A row is written with the date of a session only where the session differs from what
  it loaded. Until the answer comes, a photo's date in a session is the row's own (loaded as such);
  afterwards the session had found no date, or has flushed it (`DateOK`). No form can bring the date of
  the photo back, since a form's date is the user's or none.
- *Collection.* Photos stay because file names are fresh, and because what a request has loaded or
  written is named in no other place than the one it is about to change (`OldNames`, `NewNames`).
- *Configuration.* A secret drawn before is never drawn again (`DrawInv`), so a save cannot
  mistake the secret in use for the one its own baseline has drawn; fields nobody touched are what the
  environment says (`SettingsInv`). For `LOG_FORMAT` that holds only until somebody changes `APP_ENV`
  (`Movable`): then the file's `APP_ENV` moves the default in force, but not the one of the baseline.
- *Identity.* A cookie is judged by the account its row id has *now*. That the cookie of an account that
  exists is a good one needs that the account stays in its row, and in no other (`UsersOK`), and that its
  version never goes back and changes with every change of address or password. One relation,
  `Follows(users, users', born)`, says so of a step; every action is shown to be a case of it. Of the
  cookie of a deleted account the invariant says nothing, since nothing holds (section 5). What
  recovery has read stays true until it writes if nothing else runs, and only these parts of the
  invariant suppose so (`Alone =>`). Tokens need nothing of the kind: recovery voids all of an account's,
  whatever it has read, so what is proved of tokens, types and starts holds beside a running server too.
- *Prices.* An import is a loop over proposals whose every step looks at the table the steps before have
  left. Its invariant is proved by an induction stated in sets (`UpTo`: a set that has 1 and with n also
  n + 1 has all positions). That the index is no source of what is served needs that a size is never
  edited, so that a point and the row of its id have one size unless the id came back (`IndexInv`), and
  that the catalog is asked again for all that the index answers.
- *Rate limiter.* A queue holds times; the properties are about calls. `Charged` relates the two: there is
  an increasing map from the positions of a queue to the calls of the log, which keeps times, leaves out
  no call of the key since its eviction that still counts, and survives dropping a prefix of what has
  expired and appending the call just allowed. An increasing map onto a set counts it, so a queue's length
  *is* the number of calls in the window. Keys are bounded by what calls allowed have evicted down to, and
  one call refused adds at most one key.

Only model-checked: liveness (`EveryUploadSettles`, `LeftoversGo`, `EveryBottleSettles`), which is out of
the prover's reach. Every other property of a passing run is stated by a theorem.

## 5. Where documentation and code disagree

Four runs end in a violation of what a document or a comment says; `PROJECT.json` quotes the lines.

1. A restart within the lease strands an extraction (`catalog_import_worker.py:151`).
2. The lifespan's sweep of staged pages is not committed (`main.py:233`).
3. The write lock over a call of the price index strands other pipelines (`main.py:655`).
4. The promotion of a registered account to first administrator is not committed (`identity.py:72`).

Met on the way, with no run of its own:

- A shutdown burns an attempt: the claim has counted it (`catalog_import_worker.py:90`;
  `catalog-import.md:119` says it does not). `AttemptsAreBounded` says how far this goes: one more for each
  end of the process.
- A grounded result replaces an entry made during its search, if the session had read an older authority
  (`product_attributions.py:213`; `ai-analysis.md:179` says a hand-verified value is never
  overwritten).
- The analysis of a photo replaces a user's entry as well, and stamps it recall, which a grounded result
  may replace in turn (`main.py:477` spares verified values only; `c3-components.md:233`).
  `HandVerifiedStands` shows that there is no third way.
- The pipeline stamps verified values as recall (`bottle_processing.py:112`), the defect
  `ai-analysis.md:181` calls fixed.
- Recovery beside a running server can hand out a `session_version` a second time
  (`admin_cli.py:41`; `identity-and-sessions.md:138`), and a confirmation that lands while it asks its
  questions leaves the new address verified, since a mark read as unset is not written again.
  `SessionIsCurrent` and `VerifiedEmailWasProved` fail with `RecoveryOverlaps = TRUE`; the properties of
  tokens do not.
- A deleted account's cookies, in other browsers, are not worthless: its row id comes back with
  `session_version` 1 (`models.py:28`, 36), and `auth.py:35` compares nothing else, so such a cookie opens
  the account that gets the id, if their versions agree (both 1, if neither changed). Likewise a browser
  that staged a link of the deleted account confirms the token that got the id of that one.
  `identity-and-sessions.md:144` has every event that ends a session bump the version; deletion
  (`main.py:1495`) takes the row. `SessionIsCurrent` names the case (`Orphaned`) and shows that the cookie
  of an account that exists never opens another.
- The default of `LOG_FORMAT` follows `APP_ENV`, the file's included (`config.py:237`), but the baseline of a
  save does not know the file. Saving `APP_ENV=production` with `LOG_FORMAT=text` leaves the format out of
  the file, as it equals the baseline (`admin_config.py:554`), and the next start runs `json`, against "Changes
  apply after restart" (`admin/config.html:7`). After that start the untouched `json` differs from the
  baseline, and the next save writes it, against the comment at `main.py:2175`. `SaveTakesEffect`
  (`FormatFollowsFile`) and `InheritedStaysInherited` (`Movable`) name these cases and show that there are
  no others, blank secrets apart.
- A blank secret keeps the value *in force*, not the stored one, so a second save before the restart takes
  the first one back (`admin_config.py:622`; `admin-and-configuration.md:58`). `SaveTakesEffect` leaves
  out these secrets (`undone`) and no others. A second save from a page loaded before likewise undoes the
  other fields of the first, and a second save before the restart may undo a revert, since the page shows,
  and a blank secret keeps, the value still in force.
- A revert is validated as the value submitted, not as the one it falls back to: the next start may
  refuse, and the supervisor starts it again (`main.py:2182`).
- A process end between a stamp or a statement of a revision and its note leaves a database that no start
  can use (`migrations.py:140`); `OnlyKillStrands` shows that nothing else does.
- Between refused calls the limiter holds more than `max_keys` keys (`rate_limit.py:31`;
  `identity-and-sessions.md:120`); `KeysAreBounded` says how many.
- With two sessions on one row the provenance need not match the value, since each column is merged by
  itself; the pipeline of a deleted bottle goes on with the next bottle under the row id; the edit form
  submits every field of its page, so a page that is no longer current stamps an old value
  `user_entered`; the photo's date is applied to the date as loaded (`main.py:511`), so it can take the
  place of one entered during the analysis; `EnteredDateStands` shows that this is the only way.

## 6. Not modelled

- `observability.py`: counters and log records that nothing else reads back.
- Analysis providers and catalog extraction from files: adapters, prompts and the parsing of model
  answers; the models see an environment that answers, fails or stays silent.
- Texts of mails, templates, browser code, read-only pages: presentation.
- Benchmark and evaluation tools: offline, not part of the running program.
- Sharing and the move of a shopping-list item: each changes one row in one transaction.

## 7. Plan

1. `CatalogImport` with the abstract `CatalogImportLifecycle`. *Done: safety, liveness, proofs of the
   safety invariants and of the refinement.*
2. `BottleWorkflow`. *Done: sessions, lock, authority, stages; safety and liveness; proofs of all
   its safety properties.*
3. `Collection`, `Configuration`. *Done, with proofs.*
4. `Identity`, `Prices`. *Done, with proofs.*  `RateLimiter` with the abstract `SlidingWindow`.
   *Done: proofs of its properties and of the refinement.*
5. Left: the second attribution field and the citations of facts in `BottleWorkflow`; two rows in
   `collection`; a module for the parsing of extraction answers.
