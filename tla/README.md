# A verification of the RPIM TV pipeline (echo-dub-engine)

TLA+ modules of the pipeline's core, the TLC runs that check them, and TLAPS
proofs of what matters most. Paths are relative to the repository (`src/...`).

1. The system
2. The modules
3. The runs: questions, bounds, answers
4. Fairness
5. The proofs
6. Disagreements between code and documents
7. What is not modelled
8. Plan

## 1. The system

Courses are discovered on a web site, downloaded, extracted, dubbed lesson by
lesson, stored on Telegram and published. Two databases keep the state (SQLite
or PostgreSQL); a FastAPI server, worker loops and n8n workflows change it.

| Part | State | Operations | Called by |
| --- | --- | --- | --- |
| Job queue, `database.py` | `dubbing_jobs` | `enqueue_job`, `claim_job`, `heartbeat_job`, `complete_job`, `fail_job`, `reclaim_expired_job_leases` | API, workers, sweeps |
| Worker, `workers/job_runner.py` | one claimed job in memory | `process_one_job`, six handlers | its loop, the server's embedded thread, the dashboard |
| Discovery and outbox, `database.py` | `discovered_courses`, `discovery_outbox` | `upsert_discovered_course`, `get_pending_outbox_events`, `mark_outbox_event_sent` | WF01, the dashboard |
| Reconciliation, `server.py` | `inbox_events` | `reconcile-outbox`, `process_inbox_event` | WF06 |
| Dispatch, `server.py`, `database.py`, `dashboard_api.py` | claim columns, `courses`, `archive_parts` | `discovery/claim`, `validate-and-enqueue`, `ingest` | WF02, the dashboard |
| Pipeline handlers | `lessons`, `chapters`, `qc_reports`, `upload_intents`, `course_releases` | TRANSFER, EXTRACTION, INVENTORY, DUBBING, UPLOAD, FINALIZE | the worker |
| Transfer, `adapters/transfer.py` | `.part` and `.meta` files | `download_with_resume` | TRANSFER |
| Publication, `server.py`, `adapters/publisher.py`, `adapters/taxonomy.py` | `course_taxonomy`, `publications`, the remote site | resolve, stage-draft, commit-visibility | WF05 |
| Telegram, `adapters/telegram.py` | cache files, `storage_objects` | upload, `handle_range_request` | UPLOAD, the stream endpoint |
| Dubbing, `workers/dubbing.py` | work directory, key pool index | grouping, TTS, assembly, QC | DUBBING |
| Extraction, `workers/extractor.py` | extracted files | `group_and_verify_parts`, `extract_archive` | EXTRACTION |
| Discovery parser, `adapters/discovery.py` | a page counter | parse, paginate | WF01, dispatch |
| Relay, `relay_server.py` | none | forward, follow redirects | transfer |
| Workflows, `workflows/WF01..06` | n8n executions | cron and webhook chains of API calls | n8n |

The parts share no memory. They interact through rows that one changes between
two steps of another, and through jobs: each handler enqueues the next one's
job under an idempotency key.

**What is hard.** A database method is a SELECT and then its writes. SQLite
begins a transaction at the first write and PostgreSQL runs READ COMMITTED, so
the SELECT is a step of its own, and an UPDATE evaluates its WHERE anew. Leases
run out while the worker lives. Processes die between two databases, or between
a mark and the job the mark announces. Workflows overlap with themselves (cron
and webhook, slow executions). Handlers are executed again.

**What makes each part correct.**

- Queue: the database listens to one execution of a job; a job ends and stays
  ended; it is given up when its attempts are used up and not earlier.
- Outbox: each event is received once, in order, and each change has its event.
- Dispatch: a discovered video tutorial gets its first job; the job has what it
  needs; nothing refers to a row that is not there; every tutorial settles.
- Pipeline: nothing is stored whose QC never passed, a release has every lesson
  checked and stored, and a disturbed course is released, shown to the operator,
  or has a job that is visibly given up.
- Transfer: a finished file is the bytes of one version of its source.
- Publication: the remote site and the record of it agree once a retry is
  through, a manual lock is respected, what is staged was uploaded or found in
  the cache, and the gateway serves half a file as the whole only of a lesson
  that was dubbed again or whose download broke off.
- Algorithms: ranges are exact, sentences are whole, archives are complete before
  they are extracted, the inventory misses nothing, redirects end.

The hazards, each at its line and with the properties aimed at it, are listed
in `PROJECT.json`.

## 2. The modules

| Module | Models | Proofs |
| --- | --- | --- |
| `JobQueue` | the queue, its workers, its sweeps, the clock | `JobQueueProofs` |
| `Delivery` | the promise of outbox and inbox: exactly-once delivery | |
| `Outbox` | upserts, the outbox, reconciliation, the inbox; implements `Delivery` | `OutboxProofs` |
| `Dispatch` | claim, validate-and-enqueue, ingest, and the writes of TRANSFER that they see | `DispatchProofs` |
| `Pipeline` | one course through the six handlers, beside WF03, WF04 and the dashboard | `PipelineProofs` |
| `Transfer` | `download_with_resume`: workers, disk, connection and source | `TransferProofs` |
| `Publication` | WF05's four endpoints, the remote site, the streaming gateway's cache | `PublicationProofs` |
| `Ranges` | the answer to a Range header and the chunks that are streamed | `AlgorithmsProofs` |
| `Dubbing` | sentence grouping, layout in time, models and keys of the speech service | `AlgorithmsProofs` |
| `Archive` | volumes of an archive, sealed inventory, archive links of a page | `AlgorithmsProofs` |
| `Taxonomy` | the category and the tags of a course | `AlgorithmsProofs` |
| `Relay` | the relay's redirects | `AlgorithmsProofs` |
| `Orders` | Python's stable `sorted`, used by `Dubbing` and `Archive` | `AlgorithmLemmas` |

`MCJobQueue`, `MCOutbox`, `MCDispatch`, `MCPipeline`, `MCTransfer` and
`MCPublication` instantiate the modules for TLC; `MCAlgorithms` enumerates the
inputs of the algorithms (`Ranges` to `Relay`).

A definition whose name begins with `Mutant` is a wrong version of the one
below it. It is used by no specification; putting it in the place of the right
one shows that the property it is paired with notices the mistake.

**How they fit together.** The parts meet in tables, so each module keeps the
columns its steps read and write, and of its neighbours what it feels of them.
`JobQueue` has the queue in full with handlers that are mere durations;
`Pipeline` has the handlers in full with a queue reduced to what they feel: a
job may be claimed by two workers, executed again beside its first execution with
or without its token, renewed, swept back (also by a stale sweep) or given up.
`Dispatch` and `Pipeline` share the archive parts: taken together in the first,
where only "none, pending, downloaded" matters, one by one in the second. The
file that one step of `Pipeline` downloads is what `Transfer` takes apart.
`Publication` begins where `Pipeline` ends, with whatever releases are in the
table, those FINALIZE has not inserted included.

**`JobQueue`.** `status`, `attempt_count`, `fencing_token`, `lease` and
`retry_in` are columns of `dubbing_jobs`, the last two as the time left until
`lease_expiry` and `next_retry_at`: `Tick` lets one unit pass, and no counter of
time grows. `older` orders rows by `created_at`. `pc`, `cur`, `held`, `seen` and
`lag` are a worker's memory; `lag` is the age of the `now` that `claim_job` read
first and still uses in its UPDATE. `snapshot` is what a sweep's SELECT returned.
`claim_job`, `fail_job` and the sweep are two actions each; heartbeat and
completion are single UPDATEs. A handler is any number of heartbeats that ends
with a result, an exception or a crash, and may outlive its lease.
`ClaimSelect` walks through the job types in `process_one_job`'s order.
Tokens (uuid4) are recycled when no row or worker holds them any more.
`heartbeat_job` renews to its own default of 300 seconds and not to
`JOB_LEASE_SECONDS`, so the two leases are two constants.

**`Outbox`.** Upserts are numbered in the order of the `now` they read, which is
`created_at` of the event they append. `UpsertSelect` and `UpsertWrite` are the
SELECT and the transaction; a death rolls back. `Fetch`, `InboxSelect`,
`InboxInsert` and `MarkSent` are the four database accesses of `reconcile-outbox`
in two databases; `ReconcileDies` may come between any two. A violated UNIQUE
constraint raises and ends the call. `fail_outbox_event` is called by a test
only, so no event is FAILED. `overtaken` remembers the upserts between whose
SELECT and writes another has changed the fingerprint they compare with.

**`Dispatch`.** One action for every statement of the two endpoints of WF02, in
the code's order: `ClaimSelect`, `ClaimUpdate`, `FetchPage`, `CourseSelect`,
`CourseWrite`, `PartSelect`, `PartInsert`, `MarkEnqueued`, `LookForArchives`,
`Choose`, `Count`, `EnqueueJob`. `Ingest` is the dashboard's way in, which shares
`CourseSelect`, `CourseWrite` and `EnqueueJob`. A call that fails or dies leaves
what it committed. Slugs, URLs and ids are one value, the course. Its archive
parts are taken together: none, some pending, or all downloaded. Archives are in
`downloads/<slug>` or `downloads/<course id>`, which different lines of code look
at. `tutorials` are the courses whose URL the claim's SELECT takes, `eligible`
those whose `next_eligible_at` (the time of their upsert) a claim's `now` has
reached. A lease is live or `expired`; since the claim's UPDATE compares with the
`now` of its SELECT, `overdue` remembers that the lease had run out then, until
another claim sets a new one. `TransferDiscovers`, `TransferDownloads`,
`TransferMarks` and `TransferChains` are the TRANSFER handler's writes.

**`Pipeline`.** A job is its idempotency key: TRANSFER and INGEST are the two
keys of a course's first job (WF02's, the dashboard's), FETCH is the job of a
direct video, DUBBING and DUB are the two keys under which a lesson may be
dubbed. `Enqueue` adds the keys that are not there yet, as `enqueue_job` does.
Each handler is a chain of steps, one for each statement that commits and each
file that is made; `pc` says which comes next.

- TRANSFER: `LocateVideo`, `LocatePart`, `DiscoverPart`, `Download`, `MarkPart`,
  `ChainTransfer`, and `StoreVideo`, `EnqueueDirect` for a direct video.
- EXTRACTION: `Extract`, `ExtractionTimesOut`, `ChainExtraction`. INVENTORY:
  `InsertLessons` (an INSERT: twice executed, twice inserted), `EnqueueDubbing`
  lesson by lesson.
- DUBBING: `Dub` and `SynthesisFails` write the lesson's one `dubbed_output.mp4`;
  `Judge`, `MarkVerdict`, `EnqueueUpload`. A worker remembers the content it made
  (`mine`), the file has the content that was written last (`dubbed`).
- UPLOAD: `Send`, `VerifyStorage`, `ChainUpload`. FINALIZE: `ListLessons`,
  `CheckLesson` one by one, `NeedsReview`, `InsertRelease`, `MarkReady`.
- Outside: WF03 (`DubLesson`, `PollEnds`, `MarkReview`), `override-qc`
  (`Override`, `OverrideMarks`, `OverrideEnqueues`), WF04 (`Finalize`,
  `FinalizeEnds`, `EmitReady`, with the check of FINALIZE).
- The queue: `ClaimSelect` and `ClaimUpdate`, where a worker that finds the row
  taken since its SELECT executes the job all the same, without the token
  (`Contested`, counted by `contests`); `Renew` at the steps that have a heartbeat
  (`Beating`); `SweepSelect` and `SweepUpdate`, with what a sweep has selected in
  `swept`; `Complete`, `FailJob`; `WorkerDies`, `HandlerFails`, and `LeaseLapses`
  under a worker that goes on. `holder` is the worker that executes a job with
  the token of its row. Lessons are numbered as they are inserted.

A content is GOOD or BAD by what `run_qc_check` says of it. Whether a QC row
passed once is `passed`; `report` is the latest one.

**`Transfer`.** A file is a sequence of blocks, each of a version of the source,
so that a mixture can be told from a whole. `version`, `etags` and `honours`
describe the server, which may change the file, have no ETags, or ignore
If-Range. `partfile`, `dest` and `meta` are the disk; `handle` follows the inode
of an open file, that of a worker whose file another one renamed. `Start` reads
what is there, `Answer` and `NotSatisfiable` are 200, 206 and 416, `Open` saves
the metadata and opens, `WriteBlock` and `EndOfFile` copy, and `Hash`,
`UnlinkDest`, `Rename` and `UnlinkMeta` finish. A worker may die between any two
of them. Of the queue there are the job's attempts and their tokens: `FailJob`
retries or gives up as `fail_job` does, `SweepGivesUp` is the sweep's half of it.

**`Publication`.** An execution of WF05 goes through `Lookup`, `InsertTaxonomy`,
`ListLessons`, `VerifyMedia` (per lesson, with `ProbeLocal`, `ProbeDownloads` and
`Probed` when it has to ask the gateway), `Stage`, `Record`, `Commit` and
`UpdateRows`; `ExecutionFails` may end it anywhere, and a proposed category ends
it at its foreign key (`ProposalFails`). `remote`, `visibility` and `lessons` are
the remote site, `rows` the table `publications`. The gateway answers with what
is there (`Served`), after a download if need be (`ServeFromTelegram`,
`DownloadEnds`, `DownloadBreaks`); it is an async function that does not await
while it downloads, so that one download excludes all other answers
(`GatewayFree`), while the endpoints in threads look into the cache beside it.
`local` are the lessons' work files, which may be removed and which a re-dub
empties and writes anew (`Redub`, `RedubEnds`). A probe whose download broke gets
a 404 (`unreachable`).

**The algorithms** are operators. In `Dubbing` a piece of speech has a length,
which moves the clock on, and the time its samples play: they differ if it was
made for another sample rate, and are 0 if the file is missing. Silence is cut to
whole samples (`Sample` units of time), or falls one sample short where the gap is
a little less than a number of samples in floating point (`slip`). In `Taxonomy`,
`Short` are the names too short for the loop over the existing tags, and a keyword
has words (its slug) that stand for it. Loops are folds or recursive functions, a
sorted list is the function that `Orders` defines by counting what comes before an
element; each module ends with a definition of the result that does not follow the
code. In `MCAlgorithms` a state is an input, and every set and bound the inputs
come from is a constant, so that a theorem of its specification is one about all
inputs.

## 3. The runs: questions, bounds, answers

Runs that hold:

| Run | Question | Instance | States |
| --- | --- | --- | --- |
| `queue_safety` | Can two executions of a job both write to it, can one lose its job, can a finished job be reopened? | 2 jobs of one type, 2 workers, 1 sweep, 2 attempts, leases of 1 tick | 409,189 |
| `queue_liveness` | Does every job end, after any history of crashes and overruns? | 1 job of the second of two types, 2 workers, 1 sweep | 19,091 |
| `outbox_delivery` | Is each event received exactly once? (refinement of `Delivery`) Is exactly each change announced, but for upserts that were overtaken? | 1 course, 2 fingerprints, 4 upserts by 2 spiders, 2 reconciliations, 1 death | 439,827 |
| `outbox_serial` | Without overlapping upserts, is the inbox in order? | 2 courses, 4 upserts, 2 reconciliations, 1 death | 211,937 |
| `dispatch` | Has a TRANSFER job its parts, an ENQUEUED course its job, and does a tutorial settle, in spite of lost claims and a failure? | 1 course, tutorial or not, 2 dispatches, 1 ingest, 1 failure | 381,541 |
| `pipeline_safety` | Can anything be stored that no QC passed, or a release be made of less than what it lists? | 2 workers, 1 sweep, 3 lesson rows, 1 part, 1 video, archive or direct video, 2 attempts, 1 disturbance | 683,422 |
| `pipeline_liveness` | Does the chain of jobs release the whole course, and a disturbed course settle? | 1 worker, no sweep, 2 videos, 4 lesson rows, archive or direct video, 1 disturbance | 189,720 |
| `transfer` | Is the finished file one version, and does it get there? | 2 workers, a source of 3 blocks and then of 2, 3 attempts, 3 events | 1.8 million |
| `publication` | Do site and records agree after failures and overlaps, is the lock final, is what is served whole? | 2 executions, 3 runs, 2 lessons, 2 releases, 1 failure or re-dub | 1.8 million |
| `algorithms` | Has each algorithm the result its definition says? | all inputs up to 4 elements or 4 bytes, 3 pieces of speech, 3 tags, 3 keys, 2 models | 355,767 |

Runs that show a disagreement (section 6): `queue_lost_claim`, `pipeline_parts`.

**Why the bounds are enough to show something.**

- Queue. Two workers are what a lost claim or a takeover needs, and a sweep
  runs between any two of their steps. Two attempts give a first failure that
  retries and one that does not. `attempt_count` is counted up to
  `MaxAttempts + 1`: no comparison tells larger ones apart. A lease of one tick
  expires after two; `MaxLag = 1` lets the `now` of an UPDATE disagree with the
  present. Four tokens suffice for two rows and two workers (`NewTokens` is
  never empty: at most four are in use, and a claiming worker holds none). The
  safety theorems hold for all values anyway.
- Outbox. Three upserts make a new course, a change and a change back, and a
  fourth overlaps with any of them: a fingerprint can go back to what an
  overtaken upsert has read. `Limit = 2` of four events makes a fetch that leaves
  some over. `MaxCrashes` is smaller than `Limit`, and has to be: each death may
  leave an event that is received but PENDING, which is fetched again by each
  later call and never marked; `Limit` of them would stop the delivery of all
  newer events (in the code, 50 deaths). `EveryEventReceivedOnce` is stated
  under that condition.
- Dispatch. Two dispatches overlap on a course; the ingest overlaps with both.
  A second course would matter to the order of claims only, the calls for one
  course touch no row of another.
- Pipeline. `MaxDisturbances` bounds deaths, failures, lapsed leases, contested
  claims and calls together. One already lets a job be executed twice, beside
  or after itself, at every step; two workers and one lesson of each INVENTORY
  let the duplicates meet. A stale sweep can put a job back that is executed
  again already, so that the INVENTORY runs a third time: hence three rows. In
  the liveness run four rows hold both INVENTORYs of two videos, so that one
  upload is last and the other not. It leaves the sweep out: a third INVENTORY
  of two videos takes six rows, too many for a run of minutes, and a claim takes
  a job whose lease lapsed over without a sweep. The safety run and all
  theorems have the sweeps; the theorems cover the rest of the bounds.
- Transfer. Sizes 3 and 2 make a resumption in the middle, at the end, and
  beyond the end of a source that shrank. Three events are what a mixture
  takes: a break, a change, a death; and three of them use up the three
  attempts of `max_attempts`, so that the job is given up too.
- Publication. Two overlapping executions and a third for the retry; two
  lessons, one in the cache and one not; two releases, recorded or not. The one
  failure may be a re-dub, which can be under way in any other step.
- Algorithms. Four elements: for sentences a group that ends by each rule and
  one after it; for volumes a gap, a duplicate and an unnumbered one at once.
  Three pieces of speech: one before the video begins or overlong, and two gaps
  in which silence is lost. A sample is two units of time, so that a gap ends
  within one; the sounds last as long as they play, longer, shorter, or not at
  all. Three existing tags, one too short, are more than the two there is room
  for.
  Four bytes and chunks of 1 to 4 make chunks that divide the length and not.

**Deadlock.** `JobQueue`, `Outbox`, `Dispatch` and `Publication` are checked for
it: some action stays possible in every instance, so that it says little, and
what must happen is stated as liveness. The others really stop: `Pipeline` when
all jobs of a course are over and the disturbances used up, `Transfer` when the
file is there, `MCAlgorithms` after each input.

Symmetry is used in runs without liveness properties only, over values that no
definition tells apart. Jobs are not among them: `TypeOf` may.

## 4. Fairness

- `JobQueue!Fairness`. A worker loop takes its next step (the loop catches
  exceptions and polls every few seconds). A handler finishes: its heartbeats
  come from loops over finitely many segments or chunks. So completing or
  failing is weakly fair, and a first heartbeat is. The embedded worker sweeps
  every 60 rounds and WF06 every 15 minutes. Time passes. Not fair: enqueueing,
  crashing.
- `EveryJobFinishes` assumes in addition that from some moment on no worker
  crashes and no handler outlives its lease. Without this a job can be claimed
  for ever: attempts beyond `max_attempts` are possible (section 6). Everything
  that happened before that moment is allowed.
- `Outbox!FairSpec`. WF06 goes on calling and the server goes on with a call.
- `Dispatch!FairSpec`. WF02 runs every 10 minutes, the server goes on with a
  call, and a lease runs out. `EveryCourseSettles` assumes that from some moment
  on no lease runs out under a call that works on the course: 300 seconds for
  one page and a few transactions. Without this a claim's UPDATE can take an
  ENQUEUED course back again and again.
- `Pipeline!FairSpec`. Each worker takes its next step: it polls, and a handler
  goes on. A renewal is one of these steps. Sweeps, calls and disturbances need
  not happen. `CourseSettles` names the two ends a course does not come back from
  (section 6): a lesson whose INVENTORY died before its DUBBING job, and one
  dubbed again after its upload.
- `Transfer!FairSpec`. The job is claimed again and its worker goes on, until
  the file is there or the job is given up: workers poll, and a job that failed
  or lost its worker comes back until its attempts are used up. `FileArrives`
  holds of fewer deaths and broken connections than attempts, and as long as no
  two executions overlap: it says that the download adds no failure of its own,
  whatever a broken execution has left on the disk. With more of them the job is
  given up, which the run has too.

## 5. The proofs

TLAPS checks every theorem to its leaves. They assume nothing but the named
assumptions on the constants, which say what kind of values those are (for the
queue also that a lease is not shorter than the age of a `now` in use: seconds of
a statement against minutes of a lease), and for the order of the inbox alone that
upserts do not overlap (`OneSpider`). The bounds on failures, events and runs are
constants of which nothing but their type is used: the theorems hold for any
number.

`JobQueueProofs`, for any number of jobs, types, workers, sweeps and attempts:

- `TypeCorrect`: `TypeOK` is inductive, one lemma per action.
- `FencingCorrect`: the invariant `FencingInv`. That two executions are never both
  entitled follows from `TokensApart` (a worker has a token exactly while it
  executes, and no two workers have the same). `EntitledWorkerHoldsRow` and
  `DeadLetterOnlyWhenUsedUp` are not inductive alone: `fail_job` and the sweep
  act on an `attempt_count` read in an earlier step, and `ReadsBounded` says that
  what a sweep remembers is no more than the row's count, and what `fail_job`
  saw is the row's count as long as its token matches.
- `AtMostOneEntitled`, `EntitledHoldsRow`, `NoEarlyDeadLetter`: from `FencingInv`.
- `FinishedStaysFinished`, `LiveLeaseKept`: the two action properties. Case by
  case, only a sweep's UPDATE can do it; a late completion or failure cannot,
  by `FencingInv`.

`OutboxProofs`, for any number of courses, upserts, reconciliations and deaths,
and any limit:

- `TypeCorrect`, `NothingLost` (`SentIsReceived`).
- `DeliveryCorrect`: the invariant `DeliveryInv`. `UpsertsInv` says that a running
  upsert has a number of its own and no event yet; `InboxInv` that an event in
  the inbox was emitted, is there once, and that a call about to mark an event
  has its row.
- `AtMostOnceDelivery`: `Spec => Promise!Spec`, the safety half of the
  refinement. An upsert that appends maps to `Emit`, an inbox INSERT to
  `Receive`, all else to a stutter.
- `ChangesCorrect` (`ChangeAnnounced`), `EventsCorrect` (`NoDuplicateEvent`), for any
  number of overlapping upserts. `KnownInv`: a running upsert that was not
  overtaken compares with the fingerprint that is stored, and every fingerprint
  that is stored or was read has been announced. So one that is overtaken and
  announces nothing puts back what was announced before.

And with one spider:

- `OrderCorrect` (`ReceivedInOrder`). `OrderInv`: whatever is older than an event
  on a call's list and not yet received is on the list too, and a call takes the
  oldest first. It holds of a fresh list because a fetch returns the oldest
  events, a fact about cardinalities: were an older one left out, the list would
  have more elements than the limit. `SerialInv` below it: a running upsert is the
  newest.

`DispatchProofs`:

- `TypeCorrect`: `TypeOK` has the foreign keys in it, and needs `Anchored`: a call
  past `CourseWrite` works on a course that is there.
- `TransferCorrect` (`TransferHasParts`): a call that has chosen TRANSFER found a
  part or made one, and parts stay.
- `MarkedCorrect` (`EnqueuedHasJob`): a marked course without a job has, as long
  as nothing failed, a call on its way to the job. A call that lost its claim
  goes on all the same, which is what makes this true.

`PipelineProofs`, for any number of workers, sweeps, lessons, parts, attempts
and disturbances. Frame lemmas say once, for each handler, which tables it leaves
alone. `HandsCorrect` is the invariant a handler relies on at each of its steps:
the job it executes is there and of the right kind, its lesson has a row.

- `GateCorrect` (`StoredHadPass`): an UPLOAD job exists only if some report of its
  lesson passed, so does the request that is about to enqueue one; and reports
  stay.
- `ReleaseCorrect` (`ReleaseComplete`): what FINALIZE or WF04 has seen complete,
  in whatever order it read, has a passed report and a stored object for ever,
  although the lesson may be dubbed again, fail and be marked for review
  meanwhile.
- `ExecutedOnce`, `RowsCorrect`: what the two below rest on. As long as nothing
  fails, no lease lapses and no claim is contested, the job of an executing
  worker is PROCESSING and bears its token, a job being claimed still waits and
  has one worker that claims it, and no sweep has anything to do (`Exclusive`); so
  no two workers have one job. Each step belongs to a job of its handler's
  kind, and no job, request or list of work names a lesson without a row.
- `GateClosed` (`GateHolds`). A lesson's file is shared by all that dub it, so
  that what was judged need not be what is sent. `GoodInv` shows why it is in an
  undisturbed course: once the QC has passed the file until its upload job is
  there, one worker has the lesson's only dubbing job; and when the UPLOAD job is
  there, that job is past its dubbing and will not be executed again
  (`DubbedForGood`). Each condition of `GateHolds` is used: a second execution
  under a lapsed lease or after a contested claim, a retry after a failure and a
  call that dubs the lesson under another key each break one of its parts.
- `ReleasesAreWhole` (`ReleaseHasAllLessons`). Two uploads may each find to be the
  last one, and WF04 runs beside them. What FINALIZE or WF04 lists is all
  lessons the course will ever have: that there is a lesson means that the
  INVENTORY has inserted and will not do so again (`InventoryOver`), or that the
  course is a direct video and will have none (`NoArchive`).

`TransferProofs`, for any sizes and any number of workers, changes, deaths and
breaks:

- `TypeCorrect`, with `HandlesOK`: a file open under a name is there.
- `WholeCorrect` (`DestinationIsWhole`). `TransferInv`: unless something that excuses
  it has happened, one worker is active, and the part file is the beginning of
  one version of the source. Which one may be trusted depends on what else
  happened: with an unchanged source its only one; with a changed one the one
  the saved etag names, and no death between the etag and the bytes. Each phase
  of a download adds what it knows: the size it asked to continue from, the
  answer that fits it, the position it writes at.

`PublicationProofs`, for any number of executions, lessons, releases, runs and
failures:

- `TypeCorrect`; `WholeCorrect` (`ServedWhole`): what is in the cache in part is
  being downloaded or was interrupted, and a work file in part was dubbed again;
  `PlayableCorrect` (`StagedIsPlayable`); `LockCorrect` (`LockIsFinal`).
- `RecordsCorrect` (`RecordsAgree`): what is still wrong between the site and the
  records, some execution is about to put right, or a failure has happened since
  and the claim is not made.

`AlgorithmsProofs`: each invariant of `MCAlgorithms`, for all values of the
constants, which means for every input; the lemma under each theorem has the
property of the algorithm for any input of its type.

- `RangesCorrect`: every size, header and chunk.
- `RelayCorrect`: what the redirect loop returns from each number of hops, by
  induction down from the limit.
- `TaxonomyCorrect`: after each name of either loop the tags are distinct, among
  those that fit, and not fewer than they could be; a keyword comes in only
  after all existing tags had their turn. Which names fit is a set of its own
  for each loop (`OffersFit`).
- `VolumesCorrect`: distinct numbers that ascend from 1 without a gap are
  `1..last`, by a count of what is below each.
- `PartsCorrect`: the places where a URL is first seen, sorted by number; the
  number of a link without one is its place, and places are distinct.
- `SpeechCorrect`: after each piece the clock is at the latest time that a piece
  before it, spoken when due, and all speech after that one leave; what is
  written differs from it by what the pieces play longer or shorter, less at
  most a sample for each pause.
- `TurnsCorrect`: the key that speaks is the first working one from the index on
  (modular arithmetic), and the index then stands behind it; so the keys
  between two that speak do not work, and in as many sentences as there are
  working keys none speaks twice.
- `SentencesCorrect`: the loop's state after each line (`Grouping`). Finished
  groups are whole and could not have had the line after them, the current
  group is whole and not ended, and all of them together are the lines that have
  a text so far.
- `InventoryCorrect`: the chapters after each file (`Sealed`). Titles are
  distinct, each lesson is in one chapter, first lessons ascend; `lesson_counter`
  is one more than the videos so far, so that it is 1 exactly if there is none.
  The assumption `Root # FirstChapter` says that the directory of the extraction,
  which is named by the id of the course, is not called like the first chapter.

*How loops are proved about.* The induction theorems of the library take a
predicate as a parameter, which the provers at hand cannot instantiate.
`AlgorithmLemmas` therefore states induction over a set (`Upward`, `Downward`: a set
that has 0 and with n also n + 1 has all of `0..N`), from well-foundedness of the
numbers; that a recursive function exists (`Recursion`: for a step that is given
as a function) and that a fold over a sequence is such a function (`FoldIsRun`);
and what a sorted list is (`SortedBySorts`, `AscendingAppend`). A proof gives the set
of the numbers after which its loop's invariant holds.

Model-checked only: liveness (`EveryJobFinishes`, `EveryCourseSettles`,
`CourseSettles`, `FileArrives`, the fairness half of the refinement), which is out
of the prover's reach. Every safety property of a run that holds is a theorem.

## 6. Disagreements between code and documents

Two are runs that end in a counterexample; `PROJECT.json` quotes the lines.

1. `queue_lost_claim`: `claim_job` does not look at the rowcount of its UPDATE.
   Two workers that select the same row both execute the job. The fencing token
   keeps the loser from writing to the row, not from doing the work.
2. `pipeline_parts`: the job for the remaining parts of an archive has the key of
   the TRANSFER job that is running, so `enqueue_job` returns that one. The
   second part is never downloaded, and no job is given up.

What else the models contain, without a run of its own:

- The sweep's UPDATE (`database.py:853`) names rows by id alone: a job renewed or
  completed since its SELECT goes back to the queue. The two action properties
  of `queue_safety` say that nothing else does.
- An expired lease is claimed directly whatever `attempt_count` is
  (`database.py:735`), so a job can be executed more than `max_attempts` times.
- An event whose delivery died before its mark stays PENDING for ever
  (`server.py:813`: one that is in the inbox is not marked).
- `validate-and-enqueue` sets ENQUEUED before the job is there
  (`server.py:515`); a death in between loses the course. `EnqueuedHasJob` is
  stated for no failures.
- `all_archive_parts_downloaded` is true of no parts (`database.py:686`), so a
  course whose page could not be read gets an EXTRACTION with nothing to
  extract.
- `claim_discovered_course` ignores its rowcount, as `claim_job` does, so two
  dispatches may work on one course.
- An upsert compares with what it read before its transaction. Two of one new
  fingerprint that overlap both append an event. One that is overtaken may put
  an older fingerprint back without an event: then the last event is not of the
  fingerprint that is stored, and nothing announces it until the next change.
- Whatever URL a course has, its row is stored, but the claim takes only those
  with `/video-tutorials/` and without `/download/` (`database.py:448`): a course
  as in `tests/test_api_server.py:49` stays UNCLAIMED for ever, unless it was
  ingested, and nothing shows that it will.
- An archive in `downloads/<slug>` makes the dispatch skip the transfer, but the
  EXTRACTION handler looks in `downloads/<course id>` alone.
- INVENTORY inserts: executed again, its first lessons stay beside the second
  ones. If it died before their jobs, they are never dubbed, and the course never
  complete (`Orphan`).
- A lesson dubbed again after its upload goes back to QC_PASSED, but its UPLOAD
  job is used up (`Redubbed`).
- The QC judges a file that another execution may overwrite before it is sent:
  after a death, a lapsed lease or a second dub a BAD file can pass. `GateHolds`
  says that it takes one of these.
- Two workers on one download, or a connection that ends early and is taken for
  complete, leave a wrong file under the final name (`Excused`).
- A category that is proposed is stored nowhere, so the foreign key of
  `course_taxonomy` (`002_processing_db.sql:207`) refuses its row: WF05 fails for
  each course for which a category is proposed, also when it is tried again,
  although `NEEDS_REVIEW` and `proposed_json` are meant for it.
- The gateway serves a lesson's work file (`server.py:846`), which a re-dub
  rewrites in place: whoever asks meanwhile gets a part as the whole, and
  stage-draft takes it for the whole too. So it does after a re-dub that died.
- Overlapping stagings leave the site with a release that is not recorded until
  they are over; a lock requested for a course that is resolved already is not
  stored.
- A direct video's discovery row is dispatched by WF02 as well if its URL is that
  of a tutorial, and its EXTRACTION fails; this is outside `FirstJobs`.
- Assembled speech falls behind the clock of `assemble_audio_segments`: each
  silence is cut to whole samples while the clock moves to the piece's start
  (`dubbing.py:903-906`), so pieces are heard up to a sample per pause too early;
  and samples of another rate are written as they are but counted at their own
  (`dubbing.py:911-915`), which moves all that follows. Nothing corrects either.
- Small ones in the algorithms. A Range end beyond the file is refused (416)
  rather than cut, an empty file is sent as 200, `bytes=x-` gets the whole file.
  One unnumbered file makes the first file the whole archive. Directories of one
  name share a chapter. The minimum of tags the docstring names is not enforced,
  tags of one letter are passed over, and a keyword whose slug is in the text is
  made a new tag although one of its name may exist (`taxonomy.py:267`). The
  relay's "up to 3 hops" (`relay_server.py:193`) are three requests, that is two
  redirects followed; after a third it passes a response on that it has closed. A
  cached speech file is copied to its place in more than one write.

## 7. What is not modelled

- Signal processing, speech recognition, synthesis, rewriting and glossary,
  translation, `ffmpeg` and `unrar`: numeric work, text and I/O. What they decide
  for the rest is a nondeterministic choice.
- HTML parsing, URL checks and titles; `DiscoveryPaginator`, which only tests use,
  and WF01's paging: text.
- The dashboard's page and reading endpoints, `seed_demo_data_if_empty`: reads and
  fixed rows. `synthesize_presentation.py`: a script on one file.
- `sync_categories`, `sync_tags`, `create_category`: called by tests or by nothing.
  The endpoint that uploads to Telegram, which nothing in the repository calls.
- `upload_intents`, except as what the gateway looks a local file up by.
- The second of silence that is written for a lesson without speech.
- The relay's spool and download endpoints: one request each, without state.
- A COMMIT whose answer is lost: every method is taken to know whether it
  committed.
- SQL translation between the dialects: the modules take both to execute the
  same statements.

## 8. Plan

What is left, in the order of what it would add:

1. `Pipeline` over `JobQueue`: a refinement that shows its reduced queue to be one
   the full queue implements.
2. An abstract transfer, whose file is replaced by one version in one step, and
   `Transfer` shown to implement it.
3. Two disturbances in `pipeline_safety` and two workers and a sweep in `pipeline_liveness`, on
   a machine with more time than a few minutes per run.
