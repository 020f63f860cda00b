# Know your candidate: a TLA+ verification of its moving parts

The repository publishes how French deputies voted and where that places them on
political themes.  Three programs share one PostgreSQL database: a Rust **worker**
(`worker/`) that ingests and computes, a Python **backend** (`backend/`) that serves
public pages and an API and gives a few admins a back-office, and the schema itself
(`db/migrations/`), whose constraints and triggers carry part of the logic.

This directory holds TLA+ models of the parts of that system where the order of
steps matters, the TLC configurations that check them on small instances, and proofs,
checked by TLAPS, of the main results for every value of the constants.

* [1. Inventory](#1-inventory)
* [2. The modules](#2-the-modules)
* [3. What the runs check](#3-what-the-runs-check)
* [4. Fairness](#4-fairness)
* [5. What is proved](#5-what-is-proved)
* [6. What the code does and its documents do not say](#6-where-code-and-documents-disagree)
* [7. What is not modelled](#7-what-is-not-modelled)
* [8. Plan](#8-plan)

## 1. Inventory

Components talk to each other through the database only: the backend inserts rows in
`job` and the worker picks them up (`NOTIFY` only shortens the wait); the worker writes
tables and materialised views that the backend reads; the back-office writes labels that
a later job of the worker turns into scores.

| Component | Code | State | Operations | What is hard | What makes it correct |
|---|---|---|---|---|---|
| Job queue | `worker/src/jobs/queue.rs`, `jobs/mod.rs`, `queries/jobs.py` | `job`, `worker_heartbeat` | enqueue, claim, progress, complete, fail, release, reclaim of zombies | several workers, lost writes, retries, wake-ups | one holder at a time; no busy worker is robbed; late writes of a robbed worker have no effect; every job ends |
| Worker process | `worker/src/main.rs`, `heartbeat.rs`, `jobs/mod.rs` | tasks, the shutdown channel, timers | start, beat, stop, drain, forced exit, crash, `run-once` | stops and crashes between any two steps; three delays that must add up | the heartbeat covers the whole life of the job in hand; a stopped process leaves; its exit code tells the truth |
| Back-office categorisation | `admin/categorisation.py`, `queries/labels.py`, migration 0007 | `scrutin_label`, `label_revision` | form, removal, the deferred trigger | concurrent admins, row locks, a trigger that does not see the others | weights of a scrutin add up to 1; one decision per scrutin; the history is a complete chain |
| Label imports | `admin/imports.py`, `queries/imports.py`, `import_validation.py` | `label_import` | deposit, aperçu, application, rejection | the plan is computed outside of the transaction; a crash between commit and mark | what is applied is what was reviewed; a manual label is replaced only with the box ticked |
| Score run | `jobs/recompute_scores.rs`, `scoring.rs`, `queries/scores.py` | `score_run`, `score_contribution`, `person_theme_score`, `groupe_theme_score`, `mandat_theme_score` | a recomputation, the switch of the current run | labels change during a run; two runs at once; refresh after the switch | readers see one complete run; exactly one run is current |
| Materialised views | `jobs/refresh_views.rs`, migrations 0005, 0010, 0012 | `person_apercu`, `person_theme_score_courant`, `mandat_theme_score_courant` | refresh | stale between a write and the refresh | consistent with the run that is current |
| Axis | `worker/src/axis.rs`, `jobs/label_scrutins_heuristic.rs` | `group_axis`, `group_axis_entry`, `scrutin_axis_estimate` | load a version and make it current, estimate the axis of each scrutin | the switch of the current version, a job that stops between the switch and the estimates | a version never changes its contents; scores use estimates of the current version only |
| Ingestion | `jobs/ingest_acteurs.rs`, `ingest_scrutins.rs`, `run.rs` | persons, organs, votes, `ingestion_run` | chunks committed one at a time | a failure in the middle, a retry, two ingestions at once | whatever failed or overlapped before, one ingestion alone leaves what its archive says; constraints refuse only what others left |
| Seeds and slugs | `jobs/seed_themes.rs`, `seed_candidates.rs`, `assign_slugs.rs`, `slug.rs` | `theme`, `candidate`, `person_slug` | seed, assignment | two assignments or two seeds at once, a seed refused half-way | one slug for each person; the candidates are those of the file; no person is left behind |
| Timeline | `backend/src/kyc_api/timeline.py` | none: a pure algorithm | the rows, columns and years of the mandates of a person | half-open columns, mandates in progress or of a day | no two mandates of a row meet, no row too many, nothing outside of the grid |
| AN files | `worker/src/an/` | `source_document` | download, parse, archive, normalise the group mandates of a person | a pass over a sorted list that changes its mind; which document is the latest | no day is lost without an anomaly; a row names no older document than its own |
| Wikidata | `jobs/enrich_wikidata.rs` | a few columns | one query, idempotent upserts | ambiguous answers, a unique column updated row by row | a qid belongs to one person, the right one |
| Connection pools | `backend/src/kyc_api/db.py` | ten connections | acquire, release | a handler that holds one connection waits for a second | no set of requests waits for ever |
| Public pages and API | `backend/src/kyc_api/routers/` | none: reads | pages, JSON, ETag | a cached answer after a change | the ETag changes when the answer does |
| Admin session | `admin/auth.py`, `admin/csrf.py` | cookies, `admin_user` | login, logout | a library's protocol | an admin only |
| Exports | `admin/exports.py` | none: reads | CSV and JSON | spellings of numbers | a re-import of an export changes nothing |

`PROJECT.json` lists, under `hazards`, each place in the code where one of these can go
wrong, with the properties below that would show it.

## 2. The modules

| Module | What it is |
|---|---|
| `JobLifecycle` | the abstract specification: what the `job` table promises to whoever inserted a row |
| `JobQueue` | the two tables and the processes of the worker, statement by statement |
| `MCJobQueue` | its instances for TLC |
| `JobQueueProofs` | theorems about `JobQueue`, among them that it implements `JobLifecycle` |
| `Categorisation` | the two components of the back-office, statement by statement |
| `MCCategorisation` | its instances for TLC |
| `CategorisationProofs` | theorems about `Categorisation`, for any number of requests at once: what holds when nothing is removed, then what a request saw and what follows from it |
| `ScoreRun` | the two jobs that publish scores, the tables and views they write, and what the pages read |
| `MCScoreRun` | its instances for TLC |
| `ScoreRunProofs` | theorems about `ScoreRun`: which rows are current and what they rest on, then what a run publishes and what the views and pages show |
| `Mandats` | `normalize_gp_mandats`, as operators |
| `MandatsProofs` | theorems about `normalize_gp_mandats`: its sorts, its pass over the mandates of a group, what it retains |
| `Frise` | `build_timeline`, as operators |
| `Axe` | `axis.rs`, as operators |
| `Scoring` | `scoring.rs` and what `recompute_scores.rs` feeds it with, as operators |
| `Calculs`, `MCCalculs` | builds every small input of these four, and their properties |
| `CalculsProofs` | theorems about these inputs: no day of a mandate is lost silently, the axis favours no side and separates as well as its best threshold, a score is a weighted mean and a group is its members; sums over finite sets |
| `Referentiel` | the tables the ingestion jobs fill, and how an execution begins and ends |
| `IngestActeurs` | the job `ingest_acteurs`; it uses `Mandats` |
| `IngestScrutins` | the job `ingest_scrutins`, over the tables `IngestActeurs` fills |
| `Personnes` | the jobs `assign_slugs`, `seed_candidates` and `enrich_wikidata` |
| `Ingestion`, `MCIngestion` | all five jobs together, and their properties |
| `IngestionProofs` | theorems about `Ingestion`: documents, persons and qids, whoever runs at once |
| `IngestionConvergenceProofs` | theorems about `Ingestion`: what an execution that runs alone leaves |
| `IngestionScrutinsProofs` | the same for `ingest_scrutins`, with an induction for sequences put one after the other; what a constraint can refuse |

In each module, an operator `X_Slip` is the operator `X` with a slip somebody could make
(a guard forgotten, a bound off by one).  Nothing uses them; putting one in the place of
`X` shows that a property notices.

### JobQueue

A *process* is one run of the worker binary: the service, or `run-once`.  `worker_id` is
separate from the process (`IdOf`), since `WORKER_ID` may be configured and shared.

* Each SQL statement outside of a transaction is one action: `Claim` is the
  `UPDATE ... FOR UPDATE SKIP LOCKED` of `claim_next`, with the order
  `scheduled_at, id` (no code sets `priority`); `GiveBack` is the guarded `UPDATE` that
  `complete_job`, `fail_job` and `release_job` share; `ReclaimZombieJobs` touches every
  zombie at once.
* The job loop is the variable `pc`: `boot` (reclaim, LISTEN), `idle` (the `select!`),
  `drain` (the check of the stop between two jobs), `claim`, `exec`, `settle`, `halted`
  (the jobs task is over).  Between `exec` and `settle` anybody may act: that is where a
  worker loses its job.
* The body of a job is what the queue can tell of it: it writes progress, it ends with a
  result, in an error, with a panic, or it is interrupted at the end of the grace
  (`released`).
* The supervisor in `main` is `stop`, `timer`, `Exit` and `ForcedExit`: when a stop is
  asked, or one task ends, it waits `ShutdownGrace + ExitMargin` and leaves.
* Time advances by `Tick`.  An instant is kept relative to now: `age` of a heartbeat,
  `scheduled` of a job.  `Tick` waits for what is due (a beat, the end of `main`'s wait),
  except for a process whose beats are late (`Stall`, `beating = FALSE`), which counts as
  a fault.
* Faults are bounded by `MaxFaults`: a database error at the boot, at a claim or at the
  final write, and late heartbeats.  Crashes are not bounded by it.

### Categorisation

A *request* is one HTTP handler.  A statement of a handler is an action, and requests
interleave between any two of them.  PostgreSQL is the part of the model that is not in
`src/`: READ COMMITTED snapshots, row locks (a DELETE waits for rows another transaction
deletes, then skips what is gone), the primary key (an INSERT waits for, then collides
with, a row under the same key), the deferred trigger before the commit, and an error
that rolls back.

* A form (`save`; a removal is the form without category) goes through `Read` (`avant`),
  `Aim`/`Delete`, `Insert` row by row, `Check` (the trigger), `Commit` (with the revision
  if `avant` and `apres` differ).
* An import goes through `BuildPlan` and `Store` when deposited; `Load`, `BuildPlan`,
  `Compare`, then the same transaction, then `Mark` when applied; `Load` and `Mark` when
  rejected.  `Load`, `BuildPlan`, `Compare` and `Mark` run on the pool, outside of the
  transaction, as in the code.
* Weights are integers adding up to `Whole`.  How a file spells a number is kept
  (`exact`, `short`), because `build_plan` compares texts; the column forgets it.
* `Fail` is a statement that fails, a deadlock that PostgreSQL breaks, or a restart of
  the backend: any request, at any point.

#### Requests that miss a commit

The backend handles requests at once, and none of them holds a lock between what it reads
(`avant`, a plan, an aperçu) and what it writes.  Nothing in the code keeps a commit from
falling in between, and section 6 tells what comes of it.  So that the properties can say
*that nothing else goes wrong*, two history variables follow it (`Watch`, a conjunct of
`Next` that restricts no step):

* `missed[r]`: the scrutins on which others committed since request `r` read what it is about to write
  over;
* `blind`: the scrutins to which some request committed although it had missed a commit
  there.

The history, the weights and the decisions are claimed of every scrutin outside of `blind`;
what an import applies, of every scrutin outside of `missed` of its request.  Both are
about *commits*, not about overlap: two requests may be open, wait for each other's rows and
fail as they like without entering them.

### ScoreRun

An *execution* is one execution of `recompute_scores` or `label_scrutins_heuristic` by a
worker; a retry is another execution, as in the code, where it inserts another `score_run`.

* Both jobs end with, or contain, the same switch: one transaction with two UPDATEs on a
  table that a partial unique index protects.  `Aim` is the snapshot of the first UPDATE,
  `Clear` its effect once the rows are free (it waits, and looks at them again), `Set` the
  second one, which the index makes wait and perhaps fail, `CommitRun` and `CommitLoad` the
  commit.  What is not committed (`cleared`, `inserted`) is visible to nobody.
* A load goes through `CheckContent` (same version, same hash), `InsertVersion` (the
  primary key), the switch, and only then `Estimate`, batch by batch, outside of the
  transaction.  `file` is the seed file it read: a version and a content.
* A recomputation reads the axis, then the themes, then for each of its three stages
  `Compute` (one statement) and `Flush` (batch by batch, each its own transaction), then
  switches, refreshes two views and writes its counters.
* A `REFRESH MATERIALIZED VIEW CONCURRENTLY` is two actions: `StartRefresh` takes the snapshot
  of the statement, which does not wait for anything, and `EndRefresh`, which waits for the
  lock of the view, installs what was read.
* Data: votes are those of one person and one group who vote on every scrutin.  A score is
  the set of measures it rests on (`basis`), which is what the properties compare; its
  arithmetic belongs to `Scoring`.  `Weighing` says which votes weigh.
* `Shown` and `Contributions` are the two queries of the pages, each at one moment.
* `Fail` is a failed statement or a dead worker, at any point.  Admins save labels at any
  time (`SaveLabels`).

#### A refresh that waited

PostgreSQL takes the snapshot of a REFRESH before the lock on its view.  Two runs that end
together can therefore leave the older one in a view:

1. `r1` is current and its refresh of the person view takes its snapshot;
2. `r2` becomes current and refreshes the same view, from start to end;
3. the refresh of `r1` gets the lock and installs what it had read, which is `r1`;
4. `r2` refreshes the mandate view, writes its counters and finishes.

Until the next recomputation the person view shows a run that is not current, where
`recompute_scores.rs:180` says that the views only hold the current one.  The window is
narrow, between the snapshot of a statement and its place in the queue of the lock, but nothing
closes it.  Two history variables follow it (`Watch`): `overtaken`, the executions
in a REFRESH during which another run became current, and `late`, the views last filled by
one of these.  `ViewsFollowRun` and `VerdictHasProof` are claimed of the views outside of
`late`: the refresh of the newer run takes its view out of it.

### Calculs

Four algorithms without state.  An input is built item by item (`AddMandat`, `AddSegment`,
`AddGroupe`, `AddScrutin`), so that TLC meets every sequence of items up to a length, in
every order, and each property compares the result with a definition that does not follow
the code.

* Numbers are exact: a quotient of the code is a pair `<<numerator, denominator>>` of
  integers.  Rounding of floats is left out.
* `Mandats`: `SameOrgane` takes the sorted mandates in turn (`AddNext`); `Meeting` names
  the six ways the next mandate meets the last one kept, in the order of the code's tests.
* `Frise`: a day belongs to a month, a month is a column, a mandate ends before the column
  of the month it ends in but takes one column at least; `Place` is the greedy loop, one
  mandate (`Put`) at a turn, over `Sorted`, the mandates in the order of the code's sort.
* `Axe`: `Refus` has the code's order of tests; `Separation` tries the thresholds between
  neighbouring coordinates, in the better orientation of each half.
* `Scoring`: `Contribution` and `Person` are what the Rust code does with single votes;
  `Count`, `Sides` and `Groupe` what the SQL of the groups does with sums.  A list is any
  function there: a filter leaves the others in their places, which no sum can see, and the
  two sides of a scrutin are indexed by the scrutin and the vote.  Mandates use
  the same formulas over another set of votes.

### Ingestion

An *execution* is one execution of a job: a task and its input, taken from `Tasks`.  Two
run at once (two services, or a worker that was robbed of its job and goes on).

* Every statement outside of a transaction is an action; what an execution has read stays
  in its `mem`, and goes stale there.  Where a constraint may refuse a row, batches are
  steps of their own: votes and mises au point (`InsertBatch`), mandates (`MandatBatch`),
  qids (`QidBatch`); a batch that is refused leaves those before it in place.  The batches
  of the other tables are one step, since nothing is read between them.
* `seed_candidates` is one transaction: `mem` holds its writes until `CommitSeed`, `Locked`
  is what others wait for.  Its DELETE takes a snapshot (`DeleteOthers`), then waits
  (`EndDelete`).
* A constraint refuses a statement (`Refuse`): the exclusion of overlapping mandates, the
  unique slugs, one current slug for each person, the unique qid, a row written twice by
  one upsert (a vote, or a mise au point).  PostgreSQL checks them row by row, which is why
  `UpdateBatch` takes the rows of its statement in any order.
* `Break` is everything else that ends an execution: a failed download or statement, a
  deadlock that PostgreSQL breaks, a dead process.
* Data: organes and days are integers, a person is its `an_uid` or its qid, a scrutin is
  its content, of which the row keeps all.  Columns that are only copied, anomalies and
  counters are left out.
* `last` is a history variable: the execution that began when no other was open, as long as
  no other has begun since.  It only serves to say what such an execution leaves.

## 3. What the runs check

| Run | Instance | What it shows |
|---|---|---|
| `queue_safety` | two services, two jobs, no fault, threshold of 3 ticks | `TypeOK`, `HeartbeatStaysFresh`, `AttemptsAccounted`, `StrandedOnlyByFault`, `NoTheft`, and `JobQueue` implements `JobLifecycle` |
| `queue_live` | a service and a `run-once`, one job that may be cancelled, a retry, one fault, under `FairSpec` | `OnlyHolderWrites`, `JobLifecycle` again, where faults, cancellations and retries happen; `JobsEnd`, `DeadHolderLosesJob`, `ProcessesLeave` |
| `queue_startup` | two services, no fault | `NoConcurrentExecution` is **violated** (section 6) |
| `queue_run_once` | a service and a `run-once`, no fault | `ExitZeroMeansDone` is **violated** (section 6) |
| `labels_history` | four requests, two at a time, forms, removals, two spellings, failures anywhere | `HistoryChain`, `LastRevisionIsCurrent`, `WholeUnlessBlind`, `ReviewedKept`, `AppliedAsLoaded`, `AppliedIsWritten` |
| `labels_concurrent` | four requests, three at a time, on two scrutins that already have labels | `TypeOK`, `WeightsCoherent`, `OneDecision`, `RevisionTellsTruth` |
| `labels_skew` | two forms on a scrutin without label | `WeightsCoherent` is **violated** (section 6) |
| `labels_import_race` | a form during an application | `AppliedAsReviewed` is **violated** (section 6) |
| `score_run` | three executions out of two recomputations and two loads, two at once, failing anywhere, one save of labels, three seed files, with or without an axis at the start | `TypeOK`, `OneCurrent`, `StaysPublished`, `PublishedComplete`, `VerdictHasProof`, `ViewsFollowRun`, `OneVersionPerRun`, `OneContentPerVersion` |
| `score_run_hidden` | one recomputation after the other | `NotFoundMeansNoContribution` is **violated** (section 6) |
| `calculs` | up to three mandates, three segments, three groups or two scrutins of two voters | `NoDayLostSilently`, `FriseReadable`, `SeparationIsBest`, `AxisSymmetric`, `ScoreIsWeightedMean`, `GroupIsItsMembers` |
| `ingestion` | three executions, two at once, of 15 tasks | `ScrutinsConverge`, `ReferentielConverges`, `ArchivedFirst`, `RefusedOnlyByStale`, `NoOrphanPerson` |

What the properties of the queue say:

* `HeartbeatStaysFresh`: a process that beats on time is never stale, not even in the
  grace that follows a stop, when its heartbeat task is already over.  This is the
  arithmetic of four constants kept in three files.
* `NoTheft`: no step takes a job from a process that executes it and beats on time.
* `OnlyHolderWrites`: a running row leaves its holder when that holder settles it, or by
  the reclaim of a stale holder; the progress shown is the holder's.
* `AttemptsAccounted`: a job fails only once its attempts are used; they pass
  `max_attempts` by at most one for each stopped process (`release_job` gives the job
  back whatever its count, and the next claim counts again).
* `StrandedOnlyByFault`: without a fault no row stays `running` under a live worker that
  has forgotten it.
* `JobsEnd`, `DeadHolderLosesJob`: as long as one service stays up, every job ends
  (unless cancelled, or stranded by a lost final write), and the job of a dead process
  changes hands.  `ProcessesLeave`: a stopped service and a `run-once` end.

What the properties of the labels say:

* `WeightsCoherent`, `OneDecision`, `RevisionTellsTruth`, on scrutins that have labels, where row locks order the writers:
  weights add up; the rows of a scrutin belong to one request; a revision says what is
  committed with it.
* `WholeUnlessBlind`: the first two on every scrutin, labels or not, removals included,
  unless some transaction committed there after missing a commit: one of the two that the
  write skew needs.
* `HistoryChain`, `LastRevisionIsCurrent`: outside of the same scrutins, the revisions
  form a chain, and the labels are what the last one says.
* `ReviewedKept`: an import replaces a manual label without the box only if it was committed
  after the import read the base.
* `AppliedAsLoaded`: what an import applies is the aperçu it compared, on every scrutin that
  nobody committed to since.  (`AppliedAsReviewed` is what the documents claim, with no
  exception; `labels_import_race` shows it violated.)
* `AppliedIsWritten`: an import marked applied with the box ticked is in the base, the same
  exception aside.

What the properties of the scores say:

* `OneCurrent`, `StaysPublished`: readers find one run, and one axis, at every moment after
  the first, although two jobs may switch together.
* `PublishedComplete`: what a run published is all it computed, and the score of a theme is
  there exactly when the contributions it lists are enough.
* `VerdictHasProof`: a page joins `score_run`, a materialised view and `score_contribution`,
  which change at three different times; what it shows agrees all the same.
  It holds *because* the counters, where the page finds its themes, are written last.
* `ViewsFollowRun`: a run that is finished is what both views show, even if another one was
  refreshing them, unless that one read before and installed after
  ([A refresh that waited](#a-refresh-that-waited)); `VerdictHasProof` has the same exception.
* `OneVersionPerRun`, `OneContentPerVersion`: a score can be explained by one version of the
  axis, and a version by one file.

What the properties of the calculations say:

* `NoDayLostSilently`: a day that normalisation takes from a person in a group is a day of
  a mandate set aside with the anomaly `mandat_chevauchement`.
* `FriseReadable`: each mandate is drawn once, in its track; rows of a track do not overlap,
  there are no more of them than the fullest column needs, everything is inside the grid;
  years cut the columns where they change, and each has one marker.  It names the one
  exception (section 6).
* `SeparationIsBest`: the separation is that of the best of all answers that look at one
  side of a threshold, any threshold, in both orientations, *or ignore the axis*: hence a
  lopsided scrutin separates well whatever the axis (section 6).
* `AxisSymmetric`: the mirror of the axis, and the exchange of the two camps, change what
  they must and nothing else; measures stay within the CHECKs of their columns.
* `ScoreIsWeightedMean`: when there is a score, where it lies, when its uncertainty is zero,
  and that the variance is half of the mean squared distance of two votes.
* `GroupIsItsMembers`: the score that SQL sums give a group is the weighted mean of what
  single votes give its members.  It names the one difference (section 6).

What the properties of the ingestion say:

* `ScrutinsConverge`, `ReferentielConverges`: whatever failed, died or overlapped before, an
  execution that runs alone and ends well leaves what its input says: scrutins, groups,
  votes and their groups (those of today's mandates included), mises au point, names,
  mandates, one slug for everybody, the candidates of the file, qids.  They ask that it ends
  well; what keeps it from doing so is in section 6.
* `ArchivedFirst`: at every moment, with two archives written at once, a scrutin's payload is
  archived and the document it names is no older.
* `RefusedOnlyByStale`: the normalisation, the ambiguities and the suffixes do what they are
  for: no constraint refuses what an execution writes by itself, apart from a vote or a mise
  au point its own archive gives twice.
* `NoOrphanPerson`: a seed creates a person together with its candidacy, or not at all.

### Bounds

* **Two processes.** Theft, late writes and double execution need a victim and a thief.
  A third process adds nothing to what each pair can do to a row, and the proofs cover
  any number.
* **Delays are not to scale.** The code's 5 s, 30 s, 5 s and 60 s become 1, 1, 0
  and 3, which keeps the one relation that matters: the sum of the delays is just
  below the threshold (`TimingAssumption`); the proofs use nothing else.
* **Two attempts** give one retry with its backoff and one final failure; the second
  reaches the cap of the backoff.
* **`MaxLag`**: how far in the past the claim order still tells two jobs apart.
* **Two themes, weights in halves.** A sum that differs from 1 needs two themes.
* **`MaxOpen`** requests at once, each id used once; an import id is used once.  Two are
  enough to miss a commit, and the history of a scrutin shows it only with a third or a fourth
  that comes after; three make rivals for the rows a third one holds.
* **Three executions, two at once** (`score_run`): two rivals on a table and a third that
  takes over from them, or two recomputations and a load that changes the axis under them.
* **One theme, two scrutins**, one whose vote weighs and one whose vote does not: a run is
  incomplete, or mixes two versions, with two batches already.  **One save** of labels
  puts any difference between two reads of a run.
* **Three seed files**: a version, another version, another content under the first name.
* **One fault** is enough to strand a job or to lose a beat.
* **Three mandates, three segments, three groups** (`calculs`): a decision of
  normalisation that the next mandate undoes, three segments in one column, two coordinates
  and a group that is missing.  **Two scrutins** of two voters: a vote that weighs and one
  that does not, for each.
* **Three executions** (`ingestion`): two that overlap, one of them ending badly, and a third
  alone that repairs; or an archive, another, and the first again.  The archives of
  acteurs hold mandates that share a day, the same once that day has moved, an organe of
  another type and one that is unknown; those of scrutins a phantom group, an unknown
  acteur, a correction, a person named twice, a mise au point given twice in one batch and
  in two; the seeds name one person by two identifiers,
  or nobody; Wikidata exchanges two qids, is ambiguous, gives one image to two persons.
* **One scrutin to a chunk, two votes, mises au point, mandates or qids to a batch**: enough for a failure between
  two chunks, and between two batches of one scrutin.

`CHECK_DEADLOCK FALSE` is set for the labels, the scores, the calculations and the
ingestion, where a behaviour ends once all the requests, executions or items are used, and unset for the queue, where time always goes on.

## 4. Fairness

Only `queue_live` uses it.  `FairSpec` assumes that time passes (`Tick`), that a process
that can go on does (`Progress`: tokio schedules its tasks, statements return, and the
body of a job returns), that its beats happen, and, with strong fairness, that the zombie
ticker fires: it competes with the poll and with notifications in one `select!`, which
picks among ready branches at random, while the ticker stays ready.  Nothing makes a
process start, stop, crash, or a fault happen.  The liveness properties therefore carry
their condition (`<>[]SomeServiceUp`): without a service nobody runs anything.

## 5. What is proved

`JobQueueProofs`, for all jobs, processes, ids and delays that satisfy the assumptions of
`JobQueue` (`NamesAssumption`, `TimingAssumption`, `BoundsAssumption`), with no bound on
the number of steps:

| Theorem | Extra assumption | From |
|---|---|---|
| `TypeCorrect` | | `TypeOK` is inductive; the table, the processes and the rest are split by `TypeParts` |
| `HeartbeatFreshness` | | `FreshInv`: while no stop is asked the age stays within one interval; afterwards age and timer add up to at most the sum of the delays, which `TimingAssumption` puts below the threshold |
| `NoTheftCorrect` | unique ids | `FreshInv`, and a process at work is the only one that can settle |
| `LifecycleImplemented` | | `LockInv`: a row has a holder exactly when it runs, and fails only at `MaxAttempts` |
| `OnlyHolderWritesCorrect` | | `TypeOK` and the cases of `RowSteps`, the only steps that write a row |
| `AttemptsAccountedCorrect` | finitely many processes | `AttemptsInv`: a waiting job has one attempt in reserve for each process that is *spent* (stopped and past its release); a release costs one |
| `StrandedOnlyByFaultCorrect` | unique ids | `AccountedInv`: as long as no fault happened, a process under the holder's id has the job in hand or has ended its loop |

None of the properties is inductive by itself.  `HeartbeatStaysFresh` says nothing about
a process that was asked to stop ten seconds ago, whose remaining wait decides;
`AttemptsAccounted` counts every stopped process, while a process that was stopped may
still release a job, hence the narrower set `Spent`; `StrandedOnlyByFault` speaks of rows
nobody has in hand, and its invariant of who does.

Unique ids is what `default_worker_id` gives and what a configured `WORKER_ID` may break:
the two theorems that need it fail otherwise (a restarted worker keeps the heartbeat of
its dead predecessor fresh).

`ScoreRunProofs`, for all executions, files, themes, scrutins and labels that satisfy
`RunAssumption`, with no bound on the number of steps:

| Theorem | From |
|---|---|
| `OneCurrentCorrect`, `StaysPublishedCorrect` | `SwitchInv`: an execution about to commit has made not current every row that is, its own aside, and has no rival about to commit.  `OneCurrent` alone is not inductive: a commit adds a row |
| `OneContentPerVersionCorrect` | `ContentInv`: a load past its check either recorded its version, found it with its contents, or is the only one inserting it |
| `OneVersionPerRunCorrect` | `ContentInv` and `RunInv`: rows inserted and rows computed rest on recorded measures of the version the run read, until it forgets that version |

Its second part, on top of these, for the same constants.  It has one hypothesis,
`NullIsNoSet`: NULL is none of the sets of measures a score rests on.  (TLC takes NULL for a
model value and cannot ask it whether it is a set, so this is not an `ASSUME`.)

| Theorem | From |
|---|---|
| `ScoreTypesCorrect` | `TypeInv`: each step of an execution has the reads that the next steps use (`RunTyped`, `LoadTyped`) |
| `ViewsFollowRunCorrect` | `LockInv` (what an execution has locked is its own, and two never hold the same) and `ViewInv`: a run whose refresh of a view is over is what that view shows, unless the view is late (`Follows`); a refresh that has its snapshot has that of the current run, unless it was overtaken (`Timely`); counters come last |
| `PublishedCompleteCorrect` | `CompleteInv`: at each step of a recomputation, the stages behind it are in its run in full, the one in hand up to its next batch |
| `VerdictHasProofCorrect` | `ViewInv` and `CompleteInv` |

`ViewsFollowRun` says nothing of a refresh in progress, nor `PublishedComplete` of a run in
progress, and both are all the induction has to work with; hence `Progress`, `Follows` and
`Timely`.

`CategorisationProofs`, for all scrutins, themes, requests and files, any number of requests
at once, under `StartAssumption` (the table starts coherent) and the hypothesis
`NothingRemoved`: each form and each file has a content, and each scrutin starts categorised.

| Theorem | From |
|---|---|
| `LabelTypesCorrect` | `TypeInv`; it needs no hypothesis |
| `WeightsCoherentTogether`, `OneDecisionTogether` | `LabelsInv`: a scrutin has rows, of one request, that add up; a transaction past its DELETE holds the lock of all rows of its scrutin |
| `RevisionTellsTruthTogether` | `WriteInv`: what a transaction wrote, it wrote in full, over rows nobody else can touch |

`NothingRemoved` is what `labels_skew` shows to be needed: a scrutin without rows has
nothing to lock, and two transactions then write without seeing each other.

Its second part needs no hypothesis: for the same constants, any number of requests at once,
removals, scrutins that start without labels, failures and restarts anywhere.

| Theorem | From |
|---|---|
| `HistoryChainCorrect`, `LastRevisionIsCurrentCorrect`, `WholeUnlessBlindCorrect` | `BaseInv`, the three of them together: a commit writes the whole of a scrutin over what `avant` says, and records both |
| `ReviewedKeptCorrect`, `AppliedAsLoadedCorrect`, `AppliedIsWrittenCorrect` | `SeenInv`: at each step of a request, on a scrutin with no missed commit, its plan is what the base says (`PlanOfLocal`: a plan looks at the rows of one scrutin), the rows it aims at, waits for and has deleted are all of the scrutin's, and what it inserts is a whole decision |

`AppliedAsReviewed`, which `labels_import_race` shows violated, has no theorem.  Without the
exception of the scrutins that some request missed a commit on, the others would have none
either: section 6 gives the behaviours.

`IngestionProofs`, for all executions and all inputs, any number of executions at once, that
satisfy the assumptions on data: one file for each acteur and for each scrutin, one entry for
each mandate, no NULL among identifiers (`ActeursAssumption`, `ScrutinsAssumption`), a candidate named by
one identifier (`PersonnesAssumption`, as `parse_and_validate` requires), and identifiers of
the Assemblée that are none of Wikidata (`IdentifiersAssumption`: `PA...` and `Q...`).

| Theorem | From |
|---|---|
| `ArchivedFirstCorrect` | `DocumentInv`: the documents an execution has read stand for its scrutins (`Stands`: same scrutin, archived no earlier than the content), and documents are only added |
| `NoOrphanPersonCorrect` | `SeedInv`: what the transaction of a seed creates it also makes a candidate, and an execution of `ingest_scrutins` creates only persons its archive cites |
| `QidOfOneCorrect` | `PersonInv`: a person is named by its `an_uid`, or by the qid of a seed (`Identified`); nobody has, nor is about to get, the qid of a person that a seed creates (`Reserved`) |

`QidOfOne` is the constraint `person.wikidata_qid UNIQUE`; the theorem says that the model
never gets past it, the row by row exchanges of `UpdateBatch` and the insert of two
transactions included, and `ReferentielConverges` rests on it.

`IngestionConvergenceProofs`, under the same assumptions, proves
`ReferentielConvergesCorrect`.  `ReferentielConverges` says nothing before the end, so the
invariant says where the execution stands: `LastInv` (nobody else is active as long as
`last` names an execution), `AlwaysInv` (what holds whoever runs: the invariants above, one
person to a slug, only organes of some archive) and `Progress`: which persons bear their
name and which mandates are in the base or still in `todo`, whom the slugs are still to be
given to, which person each entry of a seed designates and what the transaction is to
commit, which qids are set, and of which hits the batch has been sent.  The mandates in `todo` are those of the archive because of what
`ToWriteGives` says of the sequence `ToWrite` makes, whatever the archive: its rows have one
identifier each, are of organes that exist, and no two of them exclude each other.  It puts
`RetainedAccepted` (below), which speaks of one person, together for all acteurs.

`IngestionScrutinsProofs` proves `ScrutinsConvergeCorrect`, under the same assumptions.  Its
`ScrutinsProgress` says, at each step of an execution that runs alone, which documents it has
read, that the acteurs and organes it cites are there, which scrutins of its archive are in
the base with their groups and corrections and which are still in `todo`, chunk by chunk, and
of the votes of a chunk which are written and which are in `lines`, and of its mises au point which are written and which are in
`corrections`: the row of a vote is that
of the last line of its key (`LastOf`), which is why votes already written and votes still to
come add up to what the archive says.  The lines of a chunk are sequences put one after the
other, a recursive function; `FlattenInvariant` says what holds of such a sequence, by an
induction over `Nat` that has a set in the place of a predicate (`Induction`, from `WFMin`),
since the induction theorems of the library take a predicate the provers cannot instantiate.

The same module proves `RefusedOnlyByStaleCorrect`, for any number of executions at once,
under the same assumptions.  Its invariant `StillInv` says only what an execution still has to
write: mandates of its archive, lines of votes and mises au point in which somebody is twice only if a scrutin
of the archive gives them twice, finitely many slugs taken.  Then each statement that a
constraint can refuse has an argument of its own: two mandates of one archive do not exclude
each other (`ToWriteGives`), hence the row that refuses one is of another archive; a slug is
free because among one more suffixes than there are slugs one is (`SlugIsFree`, by the
pigeonhole principle); among hits without ambiguity on either side, one that is refused finds
its qid at a person whom no hit gives it (`WikidataRefused`, in any order of the rows); a seed
has looked for the qid it inserts.

`MandatsProofs` proves of `normalize_gp_mandats`, for lists of mandates of any length, each
with a uid of its own and none that ends before it begins (`upsert_mandats` skips those):

| Theorem | From |
|---|---|
| `RetainedAccepted` | `TurnInv`, which each turn of the pass keeps (`TurnStep`): what is kept of a group are mandates of the file that follow each other without a common day, the last one as it is in the file (`KeptWell`), so that one which comes later in the sorted list meets the last one only |
| `NormalizeLosesNoDay` | the same: a day of a mandate already seen is a day of one that is kept, or of one set aside with its anomaly (`Explained`); a mandate set aside never comes back |

The sorts are any permutation in the right order, which exists (`SortExists`, by insertion)
whatever the list.  `CalculsProofs` applies the second theorem to the inputs of `Calculs`:
`NoDayLost` is the invariant `NoDayLostSilently` for any `MandatItems` and any length.

The same module proves what `Calculs` checks of `axis.rs`, for any number of groups with any
votes and coordinates (the table of coordinates has a CHECK between -1 and 1, which
`CalculsAssumption` repeats):

| Theorem | From |
|---|---|
| `AxisSymmetricCorrect` | a mirrored scrutin has the same sums of votes and the opposite sums of votes times coordinates; its pairs of neighbours are the mirrored ones, with the same two halves (`RatesOfMirror`); what is left of the mean becomes what is right of it |
| `SeparationIsBestCorrect` | any threshold with a group on either side is one between two neighbours (`Threshold`), and one without leaves an answer that ignores the axis; the better orientation of each half is one of four answers (`BestBounded`) |

and of `scoring.rs`, for any number of scrutins and any finite set of members, when labels,
measures and votes are within the CHECKs and types of their columns (`IsScrutin`):

| Theorem | From |
|---|---|
| `ScoreIsWeightedMeanCorrect` | `AggregateIs`: what does not weigh adds nothing to any of the sums of `aggregate`; a weighted sum lies between what the least and the greatest answer would give (`MeanWithin`); the distances to the mean and those of all pairs are one polynomial in the sums of the weights, of the answers and of their squares (`SpreadIs`, `PairsSum`) |
| `GroupIsItsMembersCorrect` | the two filters keep the same votes, labels at 0 apart (`FiltersAgree`); the table of what each vote of each member on each scrutin is worth, summed by member gives the persons (`MemberSums`), by scrutin the counts (`ScrutinSums`), and a double sum may be taken in either order (`SumSwap`); some side weighs exactly when some member has a score |

and of `build_timeline`, for any number of mandates of one person, dates and months of any
length, when a mandate ends no earlier than it begins (ingestion skips the others) and no two
have the same key:

| Theorem | From |
|---|---|
| `FriseReadableCorrect` | each turn of the greedy loop keeps `Rowed`, `Apart` and `Crowded` (`RowedStep`, `ApartStep`): in a row mandates follow each other and the row ends with its last one; *in the column where the last row was opened, every row is taken*.  Hence as many rows as mandates in the fullest column, by one injection each way (`RowsAre`).  Inside of the grid because a division rounds down monotonically (`DividedGrows`, `InsideIs`); years by what one more column does to the markers (`MarkerLonger`, `MarkerNew`) |

That no two rows overlap is not enough to count them: a loop that opens a row too many keeps
that too.  `Crowded` is what the greedy choice adds, and it holds because mandates come in the
order of their first column: a later one never makes the crowded column less crowded.

`AxisSymmetricCorrect`, `SeparationIsBestCorrect` and the two of `scoring.rs` rest on facts about sums over finite sets that the library states without proof
tools for them: `SumPull` (any term may be taken out), from which the sum of a sum, of a
multiple, of a part, of pairs and the order of two sums follow by `SetInduction`, the
induction on finite sets with a set of subsets in the place of a predicate.  `ScrutinsInv` and
`GroupesInv` are all the induction over the steps of `Calculs` needs: what is fed is a list of
scrutins, or of groups.

Each of these invariants was an invariant of a TLC run before it was proved: on the
instances of `score_run`, `labels_concurrent`, `labels_history` and `ingestion`.

Only model-checked:

* liveness (`JobsEnd`, `DeadHolderLosesJob`, `ProcessesLeave`), out of the prover's reach;
* nothing else: every other property of a passing run is a theorem.

## 6. Where code and documents disagree

Five runs expect a violation; `findings` in `PROJECT.json` quotes the sentences.

* **`queue_startup`**: the heartbeat and the job loop start together, so a job can be
  claimed before its worker has a heartbeat row.  A service that boots then reclaims it,
  and two workers execute it.  The ownership guard still protects the row (see
  `OnlyHolderWrites`), not what the job does.
* **`queue_run_once`**: `run-once` has no heartbeat, so any service reclaims its job; its
  final write affects no row, is only logged, and the command exits with 0.
* **`labels_skew`**: two first categorisations with different themes lock nothing in
  common, each trigger sums what it sees, and the sum becomes 2.
* **`labels_import_race`**: a form saved between the comparison and the transaction of an
  application is replaced without having been in the aperçu.

* **`score_run_hidden`**: a run becomes current before its counters say which themes are
  eligible.  Until they are written no person page shows an orientation, and the
  explanation pages answer 404 while the contributions are there; a refresh that fails
  leaves it so until another run succeeds.

Seen while modelling, and within what the properties allow: `release_job` does not look
at `max_attempts`; a removal that waited for a save deletes nothing and still commits a
revision; a save equal to a stale `avant` writes no revision; a file that spells `1` for
`1.000` records a revision that changes nothing; an application and a rejection that both
read `pending` both pass, and the last mark wins.  A version of the axis is current before
its estimates exist, so a recomputation in between, or after a load that died, publishes a
run with few scores or none; the scores of persons, groups and mandates of one run may rest
on labels of three different moments; of two recomputations the one that commits last is
current, even if it read older labels, and the views may show the other one
([A refresh that waited](#a-refresh-that-waited)); the explanation page reads in two statements, and a
switch in between shows a score of one run with the contributions of another.

In the calculations:

* A label of position 0 is accepted (migration 0007, the form), although `scoring.rs:40`
  calls it impossible: the Rust filter keeps such a vote for a person, the SQL filter drops
  it for the group and the mandate (`recompute_scores.rs:840`).  `GroupIsItsMembers` says so.
* Separation never falls below the share of the majority: a scrutin won 90 to 10 separates
  at 0.8 on an axis that explains nothing.  The form of the back-office shows separation
  times 100 as the share of voters classified correctly; that share is (1 + separation) / 2.
* A mandate in progress that begins after the last month of all others, and after today,
  is placed outside the grid.
* A mandate set aside as included in another one is lost with it, without an anomaly of its
  own, when that one is set aside later in the pass.

In the ingestion:

* The exclusion of overlapping mandates sees rows of older archives.  When the boundary
  between two mandates of one group moves later, or when normalisation now drops a mandate
  that is stored, `upsert_mandats` fails, and every retry: nothing deletes the old row.
* The qid of a person that moves to another one, an exchange of two qids, or a qid that a
  candidate was seeded with, makes `update_wikidata_qids` fail in the same lasting way, after
  the batches before it.
  And a candidate seeded by qid that the Assemblée publishes later has two person rows.
* A person named twice among the votes of one scrutin stops the ingestion at that batch, and
  so does one named twice under one position in its mises au point; named in two
  batches, the last line wins.
* Two seeds at once leave the union of their files: neither DELETE sees the candidates the
  other has not committed, although `seed_candidates.rs:178` calls the seed the source of
  truth.  The next seed alone repairs it.
* Nothing deletes a vote or a line of a group: what the source withdraws stays, and the
  sums of groups go on counting it.
* A source that returns to an older content adds no document: the scrutin then names the
  later one, which it was not parsed from.
* Votes of a phantom group that were ingested before the mandates keep no group until they
  are ingested again.  A person first seen in a vote, then given a slug, keeps a slug made
  of its identifier once it has a name.
* Of two persons who share an image on Commons one gets the photo.

## 7. What is not modelled

* Decoding of JSON files, downloads, the SPARQL query, Commons titles and licences, pages
  and exports: data work without state, tested on fixtures.
* `seed_themes` (one upsert of a validated file), the views of migrations 0005 and 0006.
* Connection pools: how many connections a request holds at once is a matter of reading the
  handlers; a model of it would be the list of its own assumptions.
* Login: the protocol belongs to GitHub and to a library.
* Logging, messages and formatting, except the spelling of weights.
* Within what is modelled: `priority` (never set), migrations at the start, the queue of scrutins to
  categorise and its skip list (no shared state), malformed import files (rejected before
  anything is written).

* In `ScoreRun`: the arithmetic of scores and of the axis (see `Scoring` and `Axe`), `ANALYZE`, the anomalies and the
  counts that a job reports, `theme_axe_map` (themes do not change during a run), and a
  change of votes by an ingestion during a run.

* In `Ingestion`: anomalies, counters, progress (see `JobQueue`), columns that are only
  copied, and the decoding of the archives.

## 8. Plan

Done: the queue and its processes, the back-office, the publication of scores, the
calculations, and the jobs that fill the base.  Every property of a passing run that is not a
liveness property is a theorem, most of them without a hypothesis beyond the assumptions on
constants.  What is left:

1. Liveness stays with TLC: the provers have no rule for fairness.
2. `WeightsCoherent`, `OneDecision` and `RevisionTellsTruth` are proved under
   `NothingRemoved`, and the properties of the history outside of the scrutins on which a
   request missed a commit.  Both mark where the code itself stops to hold (section 6); they go
   with a change of the code: a lock on the scrutin instead of on its rows.
3. The hazards of `PROJECT.json` without a property: the note of each says why it has none.
