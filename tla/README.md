# Verification of the autonomous work pipeline

The repository is a growth platform: agents analyse a customer's site and
produce *findings*; generators turn a finding into a *draft* (a change to the
site's source, kept in the `drafts` table); a draft is reviewed by a person or
by gates; and an unattended lane pushes the day's approved drafts to one branch
per site and day and opens one pull request. Several Node processes do this at
the same time, with people in the Action Center working on the same rows, and
with GitHub, the database and the LLM providers failing now and then.

What can be wrong in this program and is hard to test is in that last part:
which process may run, which row belongs to whom, how much work a day may
hold, and whether what is *recorded* as shipped is what *happened* on GitHub.
That is what is modelled here. All paths below are under `src/server/` unless
they begin with `src/`.

## 1. Inventory

### The core: what decides, claims, records and ships

| part | state | operations | how it meets the others | hard |
|---|---|---|---|---|
| **Job lock** `lib/job-lock.js` | rows of `job_locks` (key, owner, expiry) | acquire by upsert, heartbeat, release, `jobLockInfo` | wraps every cron lane and the ship run of a site | expiry races heartbeat; late release; crash; lost reply |
| **Scheduler, ship window** `cron.js`, `lib/ship-window.js`, `job.js` | nothing but the clock and the locks | start lanes hourly or daily, catch up, stand down for the 11:00 run | chooses which lock key guards which lane | two lanes with different keys touch the same rows |
| **Daily pipeline orchestrator** `lib/daily-pipeline/orchestrator.js`, `store/pipeline-runs.js` | one checkpoint row per site, day and stage | run the stages in order, with a budget each; retry failed stages on the next pass | calls the stages; stops *waiting* for a stage over budget, without stopping it | overlapping passes |
| **Prepare and ship lanes** `lib/daily-pipeline/stages.js`, `prepare.js`, `ship.js` | what a pass holds in memory | select, enqueue, claim, generate, submit, validate; approve, apply, finalize, undo | shipping queue, drafts, batch branch | failure of one item of a batch, outage or refusal, people |
| **Shipping queue** `store/shipping-queue.js` | `shipping_queue` rows: queued, preparing, prepared, shipping, shipped, failed | enqueue, two claims, markPrepared, markShipped, releaseItem | the hand-over between the two lanes | crash with rows claimed; stale `draft_id` |
| **Draft store** `store/drafts.js` | `drafts` rows: status, `apply_error`, pull request | create, submit, review, approve, push, PR opened, merged, abandoned | everybody | updates guarded by status, by callers who looked earlier |
| **Daily ceiling** `store/autonomous-slots.js`, `lib/autonomous-quota.js` | one counter row per site and local day | read cap, seed, take, give back | called by `createDraft` and the file-edits drain | midnight, changed limit, crash, lost reply |
| **Batch branch** `implementers/lib/github-ops.js` | `activeBatches` in process memory; the branch and pull request on GitHub | begin, stage, plan, squash or append, update ref, open PR | ship runs, single approvals | memory lost in a crash; plan stale when executed; shared entry |
| **Ship runs** `agents/lib/auto-remediation.js`, `routes/action-center.js`, `lib/draft-ship-state.js` | pending list of a run | resume, join, reset, count, apply each, finalize, record | drafts, batch branch | a report that must match GitHub after any failure |
| **PR recovery** `lib/batch-pr-recovery.js` | none between calls | list, compare with the branch, recheck, abandon, adopt or open | runs hourly beside the ship runs, under another lock | decides from what it read earlier |
| **Reconciler** `lib/action-center-reconciler.js`, `lib/attempt-classification.js`, `agents/lib/ship-pacing.js` | none but rows: drafts, the card of a finding, attempts | four passes an hour: give up stuck drafts, take back stalled ones, record failures nobody recorded, recover a finding the cap holds back | runs and people move the same drafts | decides on rows read statements earlier; two caps over counts read at different times |
| **Design agent jobs** `store/execution-jobs.js`, `design-agent/worker.js`, `design-agent/live-analysis-handler.js`, `implementers/lib/design-drift.js` | `execution_jobs` rows; profile and templates in the site's map | queue, claim, retry, save twice, finish, reclaim | writes the site configuration; drafts project templates | a worker finishing a job that was reclaimed; dying between its two saves |
| **Work claims** `agents/lib/work-claims.js` | claims on pages and intents | claim, conflict, release, expire | agents before they draft | overlapping claims |
| **Design reviews, choices** `design-agent/lib/design-review-db.js`, `store/design-choices.js` | review and choice rows | request, choose, apply | hold a finding until a person chose | choice made while a pass works |
| **Site configuration** `db.js`, `migrations/249`, `store/workspaces.js`, `lib/json-merge3.js` | `sites.url_file_map` and its revision, recent versions | whole-row write with a revision, recovery of a stale write by three-way merge, patch under a lock | design agent, drafts, people | concurrent writers that hold what they read for minutes |
| **Browser slots, rate limits** `lib/browser-slots.js`, `lib/rate-limit.js` | semaphore and buckets | acquire, release, expire | crawls | leaked slots |

### The rest

Implementers and CMS adapters (rewriting of files and documents), generators
and the Quality Gate (LLM calls and text rules), analysis agents, learning and
model adaptation, ingest and integrations, free audit and reports, accounts and
sessions, notifications and assistant, the database layer, the Python data
analyst service, the MCP server, the web client and the operator scripts. They
produce data, transform it, or show it; where the core calls them the models
take their outcome (a draft, a refusal, an outage, a person's request) as a
choice. `PROJECT.json` lists each with its files and the reason.

### What makes each core part correct

* Job lock: one holder inside the guarded function; a running job is never
  shown free; a live lease is only removed by its owner; a dead one stops
  blocking.
* Daily ceiling: no interleaving takes a day above `HARD_CEILING`.
* Shipping queue: one worker per row; shipped means in a pull request; what
  failed can be selected again; every claim ends; prepared means shippable.
* Batch branch: the pull request contains what is reported in it; nothing that
  was pushed or reviewed or merged by others is undone; a process does not
  stay in batching mode; pushed work ends in a pull request or abandoned.
* Draft store: a finished draft never goes back to an earlier state, and the
  lanes do not give up a draft that is under review on GitHub.
* Orchestrator: a stage is started no more often than it may be, none starts
  before what it needs, one that finished while its pass waited stays finished,
  a pass comes to an end.
* Design agent jobs: a completed job left its outcome; a job that kills its
  worker is not run for ever; every queued job ends.
* Site configuration: no writer loses an update or takes another's back.
* Reconciler: what is tried without a person is bounded; nothing that only the
  system can move stays where it is; every ended attempt is recorded.

## 2. Modules

| module | models | composed with |
|---|---|---|
| `ExclusiveRun` | what a job lock promises: at most one runner (abstract) | |
| `JobLock` | the lease: row, heartbeats, lag, losses, crashes | |
| `JobLockTimely` | the condition under which the lease is a lock; refinement of `ExclusiveRun` | extends `JobLock`, instantiates `ExclusiveRun` |
| `JobLockProofs` | theorems | extends `JobLockTimely` |
| `AutonomousSlots` | the daily counter and the work taken from it | |
| `AutonomousSlotsProofs` | theorems | extends `AutonomousSlots` |
| `PipelineRuns` | the checkpoints of a day and the passes that walk them | supplies the overlapping passes `ShippingQueue` starts from |
| `PipelineRunsProofs` | theorems | extends `PipelineRuns` |
| `ShippingQueue` | queue rows, drafts, overlapping passes, the ship run, people, crashes | |
| `ShippingQueueProofs` | theorems | extends `ShippingQueue` |
| `BatchShip` | drafts, branch, pull request, process memory, ship runs, single approvals, the recovery sweep, crashes | takes the exclusion a lock gives as the constant `Locked` |
| `DayPullRequest` | what the day's batch promises: work is only added, commits under review stay, a reported draft is in the pull request for good | abstract specification that `BatchShip` implements |
| `BatchShipProofs`, `BatchTurnsProofs` | theorems: types and order of states; what a batch in memory holds, and the refinement | extend `BatchShip`, and one another |
| `Recovery` | one hard finding: its drafts and card, the runs, the reconciler, people, crashes | pass 0 of the reconciler is the sweep of `BatchShip` |
| `RecoveryProofs` | theorems | extends `Recovery` |
| `ConfigStore` | what `url_file_map` promises its writers (abstract) | |
| `DesignAgent` | job rows, workers, callers, a drafter, people's edits, the map and its revision | instantiates `ConfigStore` |
| `DesignAgentProofs` | theorems, the refinement among them | extends `DesignAgent` |
| `JsonMerge` | the three-way merge of documents, and a reference for it | instantiated by `MCDesignAgent` |
| `MC...` | symmetry sets, the assignment of runs to processes, documents to merge | extend the module they are named after |

`PROJECT.json` ("map") names the source lines of every definition.

### JobLock

`owner` and `ttl` are the row: `ttl` is `expires_at - now()`, so there is no
clock to bound. `pc[c]` says where a call of `withJobLock` stands, `due[c]` how
long until its next timer or reply. The three SQL statements are `LeaseFree`
(the `WHERE` of the upsert), `RenewRow` and `DeleteRow`; `TryAcquire`,
`StartFn`, `Beat`, `SettleFn` and `Release` are the lines of `withJobLock`
around them, and `AcquireReplyLost`, `BeatFails`, `ReleaseFails` and `Crash`
are what its `catch` clauses and the operating system do. How badly a host can
behave is explicit: a timer or reply is acted upon at most `MaxLag` ticks
late, and at most `MaxLost` heartbeats in a row fail.

**The boundary.** The code has no fencing token: a holder that stalls past its
lease and resumes runs beside the new holder until its `fn` ends. Exclusion
therefore holds exactly under

    TimelyAssumption == MaxLag + (MaxLost + 1) * (Heartbeat + MaxLag) < Lease

`cron.js:18-19` and `lib/ship-window.js:46-47` say "never"; read them with this
condition. With `LEASE_MS` (15 minutes) and `HEARTBEAT_MS` (5 minutes) as they
are, one lost heartbeat and a lag of up to 99 seconds are within it; two lost
in a row, or a suspended host, are not. The comment at `lib/job-lock.js:21-23`
gives a missed heartbeat "two more chances"; the second of them falls on the
moment of expiry.

### AutonomousSlots

A worker is one piece of work being started. `takeSlot` is three statements —
`LoadCap`, `Seed`, `TakeSlot` or `Refused` — and other workers, midnight and a
new limit may fall between them. Drafters then `Insert` (or fail and give the
slot back), editors `Stage` and later `ShipEdit` or `BatchFails`. `GiveBack`
updates the row of the day it is *then*. `existing` is what the seed counts;
the observers `made` and `stray` count the work of a day, and the slots given
back to a day they do not belong to, or for work that does exist.

The ceiling is not absolute: each such `stray` slot makes room for one more
piece of work. The property says that nothing else does.

### ShippingQueue

One site; `row[f]` is the latest row of a finding. `pass[p]` is what a pipeline
pass holds in memory — the findings it selected (`picks`, possibly stale by the
time they are enqueued), the rows it claimed (`mine`), the item it is working
on and the step it has reached (`phase`). The ship run is one worker of the
same kind (a job lock keeps it alone). Each action is one statement of the
code that other workers can observe; reads and the writes that depend on them
are separate actions wherever the code awaits between them. Push and pull
request are one step here, with their failures: how they come about is
`BatchShip`. People generate, submit, send back, edit, reject and approve the
same drafts.

A lane that fails an item gives up its draft, because a live draft without an
error hides the finding from every later selection. The write that gives it up
can fail, and both lanes swallow that (`prepare.js:40`, `ship.js:50`,
`routes/action-center.js:1348`): `GiveUp` has both outcomes. And a project
without a repository gets its draft back approved (`routes/action-center.js:1240`),
which `ship.js:35` fails without giving anything up: `NoRepository`. The history
variable `left` has the drafts that were left alive in one of these two ways.
`OnlyLeftDraftsHide` says that there is no third: on no other path to a failure,
whatever passes, people and crashes do meanwhile, does a lane's draft hide the
failed item. That the two exist is `FailedIsVisible` in section 5. A draft left
`approved` is taken back by the reconciler a day later (`RECLAIMABLE_STATUSES`);
one left `submitted_for_approval` stays until a person looks at it.

Left out: `markSuperseded`, `releaseStaleClaims` and `listInFlightBatchItems`
(no production caller), the rows of file edits and learned repairs, merging
and closing of pull requests (in `Recovery`), the reconciler (likewise).

### PipelineRuns

One project, one day. `row[s]` is the checkpoint of a stage, `walk[p]` what a
pass does for the project, `holder` the pass that holds the lock and waits. The
module is about the distance between the two: `lib/site-run.js` stops *waiting*
for a walk (`StopWaiting`, then `RecordTimeout`), the walk itself runs on
without the lock until it next asks `isAborted`, and the next pass meets its
rows, those that `StartPass` has not just handed back as stale. `beginStage` is
its three statements (`Insert`, `Retake`, `Read`), each of them an action;
`Finish`, `Skip`, `Throw` and `FinishFails` are the outcomes of a stage and the
failing write of one. `trusted` remembers what a walk read as running
elsewhere: the code goes past such a stage, and `ResearchFirst` says exactly
how far this may lead it astray. `belated` has the stages last recorded done by
a run that was no longer waited for. `TimelyDoneIsKept` protects the others:
only a given-up walk takes them back. A belated done is not protected, and TLC
shows it (drop `\ belated`): a pass gives up on a run, the next pass retakes the
stage, the first run finishes after all, and the waited-for one throws and
records a failure over it. The crons that start passes and the work of a
stage are not modelled.

### DesignAgent, ConfigStore and JsonMerge

One site and its design-profile jobs. `Look`/`Enqueue` is the unguarded
look-then-insert of every caller; `Poll(w)` is everything a worker does, one
await at a time: read the stale jobs, hand them back by what was read, claim,
run the handler with `runWithRetry`, read the map, save the profile, project
and save the templates, finish. `finishExecutionJob` is not guarded by an
owner, so a worker whose job was taken for stale still ends it, whoever has it
by then. A derivation is a number; `templates` holds the number of the profile
it was projected from.

A write of the map goes through `Accepted` and `Stored`: the revision trigger of
migration 249, and the merge of `db.js` when the revision is stale and the
version it was read from is still kept. The model merges place by place. That
the recursive merge of documents is one such merge (the writer's change where
there is one, the stored value elsewhere, also for nested and removed keys) is
`MergesLeafwise` of `JsonMerge`, which `MCDesignAgent` assumes and TLC therefore
evaluates for all triples of small documents before the run.

`ConfigStore` is the promise of the migration, on its own: a commit changes only
places that still hold what the client read there, except under the row's lock.

Left out: the component-templates and consistency-scan modes, capability
repair, and how a profile is derived or projected.

### Recovery

One finding that keeps failing, with its card. `ship[s]` is a bulk job or a
daily run: `Take` applies the convergence cap and the drafted filter, then
`Generate`, `Judge` (`draftShipState`), `Publish`, `Apply`, `Catch`, `Finalize`.
`recon` is the reconciler: passes 1 to 4 of `reconcileSite`, each a read
followed, statements later, by the write that depends on it. People submit,
approve, reject, merge and close. Failure texts are abstracted to the policy
`attempt-classification.js` gives them. A unique index (migration 121) leaves a
finding one draft that is not abandoned, which is a guard of `Create`.

Left out: capability gaps and the refusal counterpart of pass 4, the 30 days
after which failures are forgotten, drafts a person generates by hand, the
matching of texts. A failing step and the catch clause that handles it are one
action, with the kind of failure chosen freely.

### BatchShip

One site, one local day. A file is abstracted to the draft that wrote it, and a
sha to the value of the tip it names. `tip` records the commits ahead of the
default branch, the drafts in the tree, the version of the default branch it
descends from, and whether merging it would take back what the default branch
has gained (`undoes`). `batch[p]` is the `activeBatches` entry of a process,
lost in `Crash`. `job[j]` is a ship run or a person's approval, `sweep` the
recovery. The actions follow the code: `Begin`, one of `ApproveNext`,
`JoinAwaitingPr`, `ResetStranded`, `CountFinished` per item (the four answers
of `draftShipState`), `Resolve`/`Stage`/`Record` for an apply, `EndBatch` (with
the choice of plan), `MoveRef`, `OpenPr`, `ReportShipped` or `ReportFailed`.

Left out: two drafts writing the same file, sync conflicts, merging and closing
the pull request, timeouts, the file-edits drain. What the model contains but
no property speaks of, because it is how the code is meant to work or depends
on an intervention in the same minute:

* a forced squash from a stale tip overwrites a commit that another actor put
  on the branch between the plan and the update, and rewrites a pull request
  opened in that time; the properties below that exclude this
  (`ReviewedCommitsStay`, `PushedWorkKept`) are checked for runs that do not
  overlap;
* the recovery, under its own lock, abandons drafts of a run that is still
  alive and has not pushed yet (`NeverBackwards` says that the run does not
  revive them);
* after a squash the recovery infers from commit subjects, and can abandon a
  draft whose change is on the branch but no longer named there;
* `ShippedHasPr` is not promised when a learned-repair item re-offers a draft
  whose recovery failed after clearing its error: the run joins it as
  AWAITING_PR, stages nothing, and `finalizeBatchPr` answers `pushed: 0`, which
  is counted shipped. `BatchShipAlone` therefore has no repair items, and
  `BatchShipRepair` does not check that property.

## 3. What is checked

Every property of a passing run has a mutant in `PROJECT.json`: a plausible bug
in one mapped definition with which the run fails.

| run | instance | shows |
|---|---|---|
| `JobLockTimely` | 3 callers, ticks of a minute: lease 15, heartbeat 5, lag 1, 1 lost | `RunningIsVisible`, `HoldersCovered`; refinement of `ExclusiveRun` (which `OneRunner` restates); `LiveLeaseOnlyReleased`; `OrphanExpires` |
| `AutonomousSlots` | 2 drafters, 1 editor, ceiling 2, limits 0 and 3, 2 days, 1 earlier piece, 1 lost reply | `DailyCeiling`, `RowCoversWork` |
| `ShippingQueue` | 2 findings, 2 passes, 2 drafts, 1 crash or draft left alive, people on one finding | `OneClaimant`, `ClaimIsHeld`, `ShippedHasPr`, `OnlyLeftDraftsHide` |
| `BatchShipAlone` | 3 drafts, 3 locked runs, 1 person, 2 faults, 1 crash, 1 move of the default branch, no overlap | `ShippedHasPr`, `BatchIsSomebodys`, `ReviewedCommitsStay` |
| `BatchShipRepair` | 3 drafts of which 2 re-offered, 3 runs, 2 faults, 1 move | `PrContainsItsDrafts`, `AwaitingPrIsOnBranch`, `PushedWorkKept`; refinement of `DayPullRequest` |
| `BatchShipOverlap` | 2 drafts of which 1 re-offered, a locked run, a ship stage and the sweep over 2 processes, 1 crash | `NeverBackwards`, `PushedIsResolved` |
| `PipelineRuns` | 2 stages (one required, one gated that may skip), 2 attempts, 3 passes, 1 crash, 1 failed write | `StartsWithinBudget`, `ResearchFirst`, `TimelyDoneIsKept`, `PassEnds` |
| `DesignAgent` | 2 workers, 1 caller, a drafter, 1 job, 1 reclaim, 3 derivations, 1 edit, 1 crash, 1 slow worker, 1 fault | `CompletedIsKept`, `RequeuesBounded`, `SavedIsStored`, `JobsEnd`; refinement of `ConfigStore`; `MergesLeafwise` |
| `Recovery` | 1 run, 1 attempt for each evidence, 1 recovery cycle, 3 drafts, 1 crash, people | `FailuresBounded`, `HeldIsHandled`, `StalledReturns`, `EndIsNoted` |
| `ShippingQueueOutage`, `DesignAgentUnprojected`, `RecoveryMoved` | one actor of each kind | violations, section 5 |

Every run checks the type invariant of its module too, except for two of the
three of `BatchShip`, which share one.

**Why these bounds are enough.** *Lock*: three callers give a holder, a caller
that takes over and a third that arrives; the lease and the heartbeat are the
code's own, with as much lag and loss as is timely (1 + 2·6 = 13 < 15).
*Slots*: three workers against two slots make the last slot contended; one
limit is below and one above the ceiling; two days hold one midnight, which may
fall between any two statements. *Queue*: two passes are enough for a race on a
claim, two findings for a batch in which one fails; a second draft lets a
finding be drafted again after the first was abandoned; one draft left alive is
one finding hidden beside one that must not be, and people on one finding leave
the other to the lanes alone. *Batch*: three runs
give a failed one, one that repairs, and one that builds on both; two faults
give a failure and a failure of its handling; one move of the default branch is
what a squash can trip over. *Pipeline*: three passes give one that is given
up, one that meets its row and one that meets what both left; the second
attempt is the last. *Design agent*: two workers are a slow owner and the one
that takes its job; three derivations let a stale one be saved between two
others. *Recovery*: three drafts are the first attempt, the one a recovery
cycle allows and the one beyond; the run, the reconciler and people are three
actors on one draft. The theorems of section 6 remove the bounds where they
cover a property. Bounds in the modules: `MaxLag`, `MaxLost` (JobLock,
AutonomousSlots), `Days`, `Passes`, `MaxDraft`, `MaxJob`, `MaxStamp`,
`MaxEdit`, `MaxSlow`, `MaxCrash`, `MaxFault`, `MaxMain`, `MaxMishap`.

Deadlock is not checked in AutonomousSlots, BatchShip, PipelineRuns,
DesignAgent and Recovery: days, runs, passes, jobs and drafts there are finite,
and the system stops when they are used up.

## 4. Fairness

* `JobLock`: time passes, and a due timer or an arrived reply of a live process
  is acted upon (`WF` of `Tick` and `Serve`). Nothing obliges a caller to
  acquire, to settle or to release. `OrphanExpires` needs the passing of time,
  which an unserved timer would hold up.
* `BatchShip`: a run or an approval that is under way takes its next step —
  every await returns or throws — and the reconciler calls the recovery every
  hour (`cron.js`). No fairness for starting runs, for people, or for `Crash`.
* `PipelineRuns`: the timers around a walk fire and the pass does what follows
  (`EndPass`, `StopWaiting`, `RecordTimeout`). No stage is assumed to return:
  that a pass ends all the same is `PassEnds`.
* `DesignAgent`: workers poll for ever, are restarted when they die, and a
  capture ends (`WF` of `Poll(w)`). Nobody is obliged to queue a job or to
  edit.
* `Recovery`: the reconciler comes round every hour and goes through its passes
  (`WF` of `Start` and `Reconcile`), a run that began goes on (`WF` of
  `Ship(s)`), and days pass while nobody works on the finding (`SF` of `Stall`,
  strong because runs and passes interrupt it again and again). `Spec` adds
  that a re-check which is possible again and again is, some time, conclusive
  (`SF` of `Recheck`); `SiteLevelSpec` is without it.
* `AutonomousSlots`, `ShippingQueue`: none; they have safety properties only.
  `ClaimIsHeld` says of every state what the earlier liveness form (a claim
  ends) left to fairness: outside a crash, a claimed row is in the hands of a
  worker that has a step to take. A claim abandoned by a crash stays:
  `releaseStaleClaims` is called by no production code.

## 5. Where code and documents disagree

Runs that TLC must find violated:

| run | what the run shows |
|---|---|
| `ShippingQueueOutage` | an outage while shipping abandons the draft and puts the row back to prepared; `shipping-queue.js:219-222` says the draft stays intact |
| `DesignAgentUnprojected` | a worker that dies between saving the profile and saving the templates leaves templates of an earlier profile; the next run finds no drift and completes, where `design-drift.js` says that projecting again could only reproduce what is saved |
| `RecoveryMoved` | passes 1 and 2 abandon a draft that was submitted or pushed after they read it; `action-center-reconciler.js:202-205` and `:240-242` say that such a draft is left alone |

Configurations kept for reading, checked by hand, each with a counterexample:

| configuration | what TLC finds |
|---|---|
| `BatchShipGhost` | a process killed between keeping a change in memory and pushing it leaves a draft `branch_pushed` without error; a repair item joins it to the next batch and it is reported in a pull request without its change, the outcome `lib/draft-ship-state.js:86-89` exists to prevent |
| `BatchShipUndo` | a squash takes its parent from the default branch at the end of a run, and its tree from the sync at the beginning; a merge in between is undone, where `github-ops.js:302-303` calls squashing "always safe" |
| `BatchShipStuck` | `ship.js:41` returns when nothing was pushed, without ending the batch it began; the process goes on deferring approvals into memory, which `auto-remediation.js:1085-1088` says must not happen |
| `ShippingQueuePerson` | a lane abandons a draft whose pull request a person opened meanwhile; `drafts.js:752-753` reserves that state for work that never shipped. With `People = {}` and two passes it takes no person: the second pass enqueues a selection it made before the first pass and the ship run took the finding all the way, generation hands it the shipped draft, and validation abandons it (22 steps) |
| `ShippingQueueHidden` | the write that gives up a failed item's draft is lost, or the project has no repository: the item is failed, its draft alive without an error, and no later selection sees the finding; `prepare.js:14-15` says the draft is abandoned "so its recommendation is visible again, never silently hidden" (9 states) |
| `PipelineRunsSkip` | a stage that answers `{ skip }` is started again by the next pass: `skipStage` inserts with ON CONFLICT DO NOTHING, after `beginStage` has made the row; `orchestrator.js:14` says "never retried" |
| `RecoveryUncounted` | the run closes the card on exactly the failure pass 1 looks for, pass 1 skips closed cards, and a day later pass 2 takes the defect back as a mere stall, which `action-center-reconciler.js:126-133` says it must not |
| `RecoverySiteLevel` | a finding only a whole-site scan can detect, held by the cap, is neither tried again nor shown, where `ship-pacing.js:276-279` says "Never a dead end on its own" |

Seen while reading, and not the subject of a run:

* `attempts` in the shipping queue is counted and never read (`prepare.js:17`
  calls it the bound); a file-edits row released as retryable goes to `queued`,
  which its own drain never lists; the dedupe key of
  `scripts/repair-site-content-live.js:176` is a hash of the content, not stable
  per site as its comment says; after a failed batch file edits do not give
  their slots back.
* pass 4 of the reconciler abandons any live draft of the finding, submitted or
  in a pull request, though its header (lines 34-38) says that drafts in a
  person's hands are not touched; `Recovery` models what it does.
* the reason pass 4 abandons with, and `rejected_by_reviewer`, are classified as
  defects of the item and count towards the cap, which `drafts.js:1050-1056`
  does not mean them to.
* a reconciler killed between the two writes of pass 2 leaves the card closed;
  pass 3 records the attempt and does not reopen it (`:234-237` says a later
  pass does).
* a run killed while publishing leaves a `submitted` draft, which no pass takes
  back: it waits for a person.

## 6. What is proved

TLAPS checks the following for **every** value of the constants.

**JobLockProofs**, from `LeaseAssumption` and, except for `TypeCorrect` and
`LeaseNotStolen`, `TimelyAssumption`:

* `TypeCorrect`: `Spec => []TypeOK`.
* `Covered`: `Spec => []HoldersCovered`. This is the inductive invariant.
  `OneRunner` alone is not inductive: it does not say that the caller inside
  `fn` still owns the row. `HoldersCovered` says it does, and that the row
  outlives `UntilRenewed(c)`, the longest time the caller can go without a
  successful heartbeat: what is due, acted upon as late as possible, plus every
  beat that may still be lost. A tick lowers both sides by one; a lost beat
  leaves the right side no larger (`LosingABeat`); a full lease covers a fresh
  start (`FullLeaseCovers`, where `TimelyAssumption` enters); and an acquirer
  needs an expired lease, which no covered holder has.
* `MutualExclusion` (`OneRunner`) and `NeverShownFree` (`RunningIsVisible`)
  follow from it.
* `Refinement`: `Spec => Exclusive!Spec`, with the set of callers inside `fn`
  as the abstract state.
* `LeaseNotStolen`: `Spec => LiveLeaseOnlyReleased`, with no assumption on
  punctuality.

**AutonomousSlotsProofs**, from `SlotAssumption`:

* `TypeCorrect`.
* `RowCovers` (`RowCoversWork`) and `CeilingHolds` (`DailyCeiling`) from the
  invariant `SlotInv == TypeOK /\ SeedCountsBefore /\ RowCoversWork /\
  DailyCeiling`. The ceiling alone is not inductive: `TakeSlot` compares the
  *row* with a cap read earlier, so the row has to cover the work; and the row
  is created from what `Seed` counts, so that must cover what came before it
  (`SeedCountsBefore`). The lemmas `KeepsSlot`, `TakesOne` and `LeavesSlot`
  say how a step changes the number of slots that are out, and `DayByDay`
  reduces the invariant to one day.

**BatchShipProofs** and **BatchTurnsProofs**, from `BatchAssumption` and
`NullAssumption` (the model values for no branch and no sha are not tips; the
code tells them apart with `null`). Every safety property that a run of
`BatchShip` checks is a theorem here. What makes the proofs short is said once:
a lemma for each action gives what it does to its job, the batch of its process,
the branch and the draft (`BeginDoes` to `CrashDoes`), `ByWhom` and `WhoPushes`
say which steps there are and which of them move the branch or open a pull
request, and each invariant has one lemma that it is enough to look at the job
that moves (`PlansStay`, `KeptStays`, `OneStays`, `ContentsStay`).

* `TypeCorrect` and `NeverGoesBack` (`NeverBackwards`), whatever overlaps. The
  invariant `BatchInv` is the types, with what a place needs of its job
  (`Ready`) and that what is pending was pushed (`PendingIsPushed`); each
  action has a lemma `Good`: types kept, no draft taken back (`Onward`).
* `CommitsNameWhatTheyHold`, whatever overlaps: no commit on the branch, behind
  a batch or about to be pushed names a draft whose files its tree lacks
  (`HonestInv`). The sweep reads commit subjects and takes a draft that is named
  for one that landed; this is why it may.
* `NoBatchIsLeft`: without ship stages, `BatchIsSomebodys`, also for runs that
  overlap. The invariant `BatchIsWorked` names the places at which a run still
  has its batch to end, unless a ship stage runs in the process.
  `BatchShipStuck` shows why the ship stage is excluded.
* `ShippedIsInPr`: in turns and without re-offered drafts, `ShippedHasPr`. The
  argument is about memory: until its run ends it, a batch holds whatever the
  run has pending (`Held`), so an empty batch, which is reported shipped
  without a pull request, means that nothing is pending. Both hypotheses are
  needed, see the notes on `BatchShip` in section 2.
* `ReviewIsNotRewritten` (`ReviewedCommitsStay`): in turns, with ship stages,
  re-offered drafts, crashes and pushes to the default branch. The property is
  not inductive: a run decides between squashing and appending in `EndBatch` and
  acts in `MoveRef`. `PlanInv` carries the decision across: a run that is moving
  the branch either has no parent to respect, and then there is no pull request,
  or continues the tip its batch started from, and `MoveRef` compares that with
  the tip of now (`Planned`).
* `PushedIsKept` (`PushedWorkKept`): in turns, in one process, or where nobody
  approves a draft in a process that runs ship stages. The sha a batch started
  from, and the commit made from it, hold whatever is on the branch
  (`BaseKeeps`, `Keeps`): nobody else may push while the batch has that sha.
  This needs a process to have staged nothing while none of its runs is at work
  (`IdleIsUnused`), which a ship stage and a person in the same process break;
  in one process the batch left behind takes everybody's changes instead
  (`OneBatch`, `MovesOn`). Outside both cases it is false, by a path that TLC
  needs 29 states for: a ship stage leaves its batch, a person's change joins it,
  a run in another process squashes the branch, and the next run of the first
  process ends the old batch and forces the branch back.
* `PrHasItsDrafts` (`PrContainsItsDrafts`): in turns, nobody approving beside
  ship stages, and no kill or no re-offered draft. `ContentInv` follows a change
  from the batch to the commit to the branch (`Has`): what a job has pending is
  secured in its batch, then in its commit, then on the branch, which
  `PushedIsKept` keeps; a draft `branch_pushed` without an error is on the branch
  or still in the hands of a job (`Pushed`). Each hypothesis is needed: with a
  kill and a repair item it is `BatchShipGhost`; with a person beside a ship
  stage, in one process too, TLC finds a change that joined the batch left
  behind and is reported in the pull request that is open for other drafts.
* `AwaitingIsOnBranch` (`AwaitingPrIsOnBranch`): the same without kills, which
  lose what is in memory of a draft already recorded as pushed.
* `DayRefines` (`ImplementsDayPullRequest`), under the hypotheses of
  `PrHasItsDrafts`: seen through the tree of the branch, its commits, the pull
  request and the drafts recorded in it, every step of a run, a person or the
  sweep is a `Push` or a `Report` of `DayPullRequest`, or is not seen. Beside
  `PlanInv` and `ContentInv` it needs `MineInv`: what a job has pending, and what
  the sweep has listed, still waits for its pull request, so that neither a
  failed finalization nor the sweep takes back a draft that is in one. The
  hourly sweep, the plan, the forced update and the failed calls are steps of
  `BatchShip` that leave nothing behind in the abstract day.

**ShippingQueueProofs**: `TypeCorrect`, `ClaimsAreExclusive` (`OneClaimant`),
`ClaimsAreHeld`, `ShippedIsInPr`, from `QueueInv`, the conjunction of these
with `ItemIsMine` (the item at hand is one of the worker's claims),
`PushedHasDraft` (what the ship run has in hand has a draft, and that draft is
in the pull request once it is open) and `OwnInv`, below. `OneClaimant` is
inductive only with the state of the claim: a pass and the ship run claim
disjoint states, and a row in hand is in the state it was claimed for.

`OnlyLeftDraftsHideFailures` (`OnlyLeftDraftsHide`) holds for any number of lost
writes, passes, people's findings and crashes. It adds `SeenInv`: a finding has
one live draft at a time (`OneLive`); beside those left alive, the drafts that
would hide it are at most the one its row names, or the one at hand while a
worker is on it, and none once the item is about to fail (`RowSeen`,
`ItemSeen`); and what the ship run approved is still approved, given up or
shipped by a person (`Settled`), which is why a refused push leaves its error.
`OwnInv` is what makes this work when lanes and people share a draft: a row, a
pass and the ship run have a draft of their own finding at hand.

`OnlyPeoplesPrIsGivenUp` bears on `OpenPrKeepsDraft`, which the code does not
keep: under `OnePass`, no two passes at once, a lane abandons a draft in an open
pull request only if people work on its finding, whatever crashes. `OnePass` is
a condition on how the system is used, not a fact of the code: passes do overlap,
and TLC then breaks the property without any person (section 5). The parts of
`OwnInv` it needs are that a row from `queued` to the moment the ship run opens
it has no draft in an open pull request; that what the pass has yet to enqueue
is still free, which a second pass would spoil; and that a draft with an error
gets no further (`DraftOwn`), so that a finding that is free has nothing open.

**PipelineRunsProofs**, from `PipelineAssumption`: `TypeCorrect`, `BudgetHolds`
(`StartsWithinBudget`), `ResearchComesFirst`, from `DayInv`: beside the
counters it says that a walk beyond `beginStage`'s INSERT is at a stage that
has a row (`PlaceIsStage`, `RowIsThere`), that a row marked done was produced
(`RowIsTrue`), and what a walk knows of each required stage behind it
(`WalkKnows`).
`TimelyDoneStays` (`TimelyDoneIsKept`) rests on `AbandonInv`: whoever is still
waited for holds the lock, so there is one such walk (`WaitedFor`); a timeout is
noted only for a walk that was given up on (`TimedIsGivenUp`); and while a stage
runs and is waited for, a done in its row can only be of a run that was given up
on (`DoneMeanwhileIsBelated`), because `beginStage` set the row to running and
no other waited-for walk is there to finish it.

**DesignAgentProofs**, from `DesignAgentAssumption`: `TypeCorrect`,
`CompletedLeftItsOutcome` (`CompletedIsKept`), the two below and the refinement
`NoUpdateIsLost` (`ImplementsConfigStore`). The invariant is that a revision
names one content of the map: whoever holds the current revision holds the
current content, which is what makes a write without a merge a legal commit;
with a stale revision the merge changes only places the writer changed and
nobody else did.
`RequeuesAreBounded` (`RequeuesBounded`): the requeues so far plus the workers
that have read the job and may still requeue it stay within the bound
(`Requeued`), since a worker that reads it later reads the count. `SavesAreStored`
(`SavedIsStored`): until it is saved, what a worker derives is nowhere but with
that worker (`Fresh`), so no merge can decide against it.

**RecoveryProofs**, from `RecoveryAssumption`: `TypeCorrect` and
`FailuresAreBounded` (`FailuresBounded`), for any number of runs, attempts,
cycles, drafts and crashes. The bound alone is not inductive; `Reserve` is:
what was given up, plus the live draft if there is one, plus the runs that are
already generating, stays within the cap and one for each run. A step either
leaves the sum alone or lowers it (`Quiet`), turns the live draft into a
failure (`Charged`), takes the finding up under the cap (`Taken`) or turns a
run that is generating into the live draft (`Created`).

Out of the prover's reach and left to TLC: everything with fairness
(`OrphanExpires`, `PushedIsResolved`, `PassEnds`, `JobsEnd`, `HeldIsHandled`,
`StalledReturns`, `EndIsNoted`), and the recursive merge of `JsonMerge`.
Every other property of a passing run is a theorem.

## 7. Plan

What is left, in the order of how much of the system rests on it:

1. *Draft lifecycle.* Merge, close, verification and rollback of a pull request
   by several observers (webhook, check, reconciler): does every draft of a
   closed or merged pull request end in the matching state, whoever sees it
   first? `Recovery` has merging and closing as single steps.
2. *Scheduler and ship locks.* `cron.js`, `ship-window.js`: which lanes exclude
   which, composed with `ExclusiveRun`; it discharges the constant `Locked` of
   `BatchShip` and the overlap of `PipelineRuns`.
3. *Work claims*, *design reviews and choices*, *browser slots*: small stores
   of claims with an expiry, each with its own race between look and insert.
4. *File edits*: the drain of `auto-remediation.js`, with its own queue rows.
5. *Proofs* of what is not in a run: under which conditions the properties of
   the violation runs hold (`MainIsKept` when the default branch stands still),
   and abstract specifications of the shipping queue and the daily ceiling.

**Not modelled, and why.** Most of the repository transforms data: it rewrites
files and documents, calls models, fetches metrics, renders pages and reports.
Those parts have no state that others wait for, and what they compute is text;
the models take their outcome as a choice. What is modelled is the part where
several processes decide over shared rows, which is a small share of the lines
and where the interleavings are. Components whose work is such a
transformation are listed as not modelled in `PROJECT.json`, each with its
reason.

## 8. Running

In this directory:

    tlasany ShippingQueue.tla
    tlc -workers 2 -config ShippingQueue.cfg MCShippingQueue
    tlapm AutonomousSlotsProofs.tla

A module is run with the `.cfg` that `PROJECT.json` pairs it with. The longest
runs take two to three minutes.
